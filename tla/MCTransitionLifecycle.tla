------------------------- MODULE MCTransitionLifecycle -------------------------
(***************************************************************************)
(* Small instances of TransitionLifecycle. The members of every set are    *)
(* model values; each .cfg chooses the sets that its question needs.       *)
(***************************************************************************)
EXTENDS TransitionLifecycle, FiniteSets, TLC

CONSTANTS
    main, w1, w2, e1, e2, t1, t2, d1, d2, d3, h1, h2, r1, r2, r3, r4, k1, k2,
    alice, bob, robot, verifier, replayer, plain

MCActors == {alice, bob, robot, verifier, replayer}
MCHumans == {alice, bob}

Replayed == [check |-> "replay", result |-> "verified", issuer |-> replayer]
Invalid == [check |-> "validation", result |-> "failed", issuer |-> verifier]
Postured == [check |-> "runner", result |-> "passed", issuer |-> verifier]

OneEvidence == {Replayed}
Valid == [check |-> "validation", result |-> "passed", issuer |-> verifier]
ThreeEvidence == {Replayed, Invalid, Postured}
FourEvidence == {Replayed, Invalid, Valid, Postured}

OneWorkspaceTarget == [w \in {w1} |-> main]
TwoWorkspacesTarget == [w \in {w1, w2} |-> main]

OwnIds == [r \in Requests |-> r]
SameActor == [r \in Requests |-> alice]

HumanAndAgent == [r \in Requests |-> IF r = r1 THEN bob ELSE robot]

\* The slots r1 and r2 misuse one request id, r3 has its own.
SharedId3 == [r \in {r1, r2, r3} |-> IF r = r3 THEN k2 ELSE k1]

Symmetry ==
    UNION {Permutations(S) :
              S \in {Requests, Handlers, Workspaces, Edits, Transitions, Digests}}
HandlerSymmetry == Permutations(Handlers) \cup Permutations(Digests)
RetrySymmetry == Permutations({r1, r2}) \cup Permutations(Handlers) \cup Permutations(Digests)

Unprotected == UnprotectedRefPolicy
\* A custom binding that still lets a writer accept its own write.
OpenReview == [UnprotectedRefPolicy EXCEPT !.waives = {}]
CustomBinding == {OpenReview}
ReviewRequired == {IndependentReviewRefPolicy}
NoBindings == {}
===============================================================================
