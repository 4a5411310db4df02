------------------------ MODULE TransitionPolicyProofs ------------------------
(***************************************************************************)
(* Acceptance policies: what their evaluation guarantees, the policies     *)
(* that refs are bound to, and what follows them.                          *)
(***************************************************************************)
EXTENDS TransitionLifecycleProofs

(***************************************************************************)
(* The evaluation, for every policy, claim, actor and set of statements.   *)
(***************************************************************************)
\* A failure that the policy does not waive cannot be overridden.
LEMMA FinalFailure ==
    ASSUME NEW condition, NEW code, NEW overrideable, ~overrideable
    PROVE  \A f \in FailIf(condition, code, overrideable) : ~f.overrideable
BY DEF FailIf

\* Whom the policy lets decide is settled before an override: an outcome other
\* than rejection needs a decider of its kind that is not barred as the proposer.
LEMMA AuthorizationIsFinal ==
    ASSUME NEW policy, NEW claim, NEW proposer, NEW statements, NEW actor,
           NEW outcome \in {"accepted", "overridden"},
           Permitted(policy, claim, proposer, statements, actor, outcome)
    PROVE  AuthorizationFailures(policy, proposer, actor, outcome) = {}
<1>1. \A f \in AuthorizationFailures(policy, proposer, actor, outcome) : ~f.overrideable
  BY DEF AuthorizationFailures, FailIf
<1>2. AuthorizationFailures(policy, proposer, actor, outcome)
          \subseteq Failures(policy, claim, proposer, statements, actor, outcome)
  BY DEF Failures
<1> QED
  BY <1>1, <1>2 DEF Permitted, Permits

\* The same actor on the same evidence is offered an acceptance or an override,
\* never both (permittedForOutcome, deriveDecisionCapabilities).
THEOREM AcceptExcludesOverride ==
    ASSUME NEW policy, NEW claim, NEW proposer, NEW statements, NEW actor,
           Permitted(policy, claim, proposer, statements, actor, "accepted")
    PROVE  ~Permitted(policy, claim, proposer, statements, actor, "overridden")
<1> SUFFICES ASSUME Permitted(policy, claim, proposer, statements, actor, "overridden")
             PROVE  FALSE
  OBVIOUS
<1>1. PolicyFailures(policy, claim, statements) = {}
  BY DEF Permitted, Permits, Failures
<1>2. AuthorizationFailures(policy, proposer, actor, "overridden") = {}
  BY AuthorizationIsFinal
<1>3. Failures(policy, claim, proposer, statements, actor, "overridden") # {}
  BY DEF Permitted, Permits
<1> QED
  BY <1>1, <1>2, <1>3 DEF Failures

\* No policy and no override admits a Proposal whose replay is unverified or
\* contradicted: a replay failure is never overrideable (policyFacts).
THEOREM ReplayIsLoadBearing ==
    ASSUME NEW policy, NEW claim, NEW proposer, NEW statements, NEW actor,
           NEW outcome \in {"accepted", "overridden"},
           Permitted(policy, claim, proposer, statements, actor, outcome)
    PROVE  /\ "verified" \in TrustedResults(policy, "replay", statements)
           /\ "false" \notin TrustedResults(policy, "replay", statements)
<1>1. \A f \in ReplayFailures(policy, statements) : ~f.overrideable
  BY DEF ReplayFailures, FailIf
<1>2. ReplayFailures(policy, statements)
          \subseteq Failures(policy, claim, proposer, statements, actor, outcome)
  BY DEF Failures, PolicyFailures
<1>3. ReplayFailures(policy, statements) = {}
  BY <1>1, <1>2 DEF Permitted, Permits
<1> QED
  BY <1>3 DEF ReplayFailures, FailIf

\* Under the generation overlay nothing but a passing posture Statement of the
\* posture verifier lets a Proposal through (generationOverlayPolicy).
THEOREM PostureIsLoadBearing ==
    ASSUME NEW policy \in Policies, NEW claim, NEW proposer, NEW statements, NEW actor,
           NEW outcome \in {"accepted", "overridden"},
           Permitted(GenerationOverlay(policy), claim, proposer, statements, actor, outcome)
    PROVE  \E s \in statements :
              s.check = "runner" /\ s.result = "passed" /\ s.issuer = PostureVerifier
<1> DEFINE overlay == GenerationOverlay(policy)
<1>1. /\ overlay.runner = "required"
      /\ overlay.trusts["runner"] = {PostureVerifier}
      /\ "failedRunner" \notin overlay.waives /\ "missingRunner" \notin overlay.waives
  BY DEF GenerationOverlay, Policies, Checks
<1> HIDE DEF overlay
<1>2. \A f \in RunnerFailures(overlay, statements) : ~f.overrideable
  BY <1>1, FinalFailure DEF RunnerFailures
<1>3. RunnerFailures(overlay, statements)
          \subseteq Failures(overlay, claim, proposer, statements, actor, outcome)
  BY DEF Failures, PolicyFailures
<1>4. RunnerFailures(overlay, statements) = {}
  BY <1>2, <1>3 DEF Permitted, Permits, overlay
<1>5. "passed" \in TrustedResults(overlay, "runner", statements)
  BY <1>1, <1>4 DEF RunnerFailures, FailIf
<1> QED
  BY <1>1, <1>5 DEF TrustedResults

(***************************************************************************)
(* The overlays only restrict.                                             *)
(***************************************************************************)
\* If every failure of a weaker policy is one of a stronger policy, which may no
\* longer waive it, and the failures the stronger policy adds cannot be waived, the
\* weaker policy permits at least as much.
LEMMA MoreFailuresPermitLess ==
    ASSUME NEW weaker, NEW stronger,
           \A f \in weaker : \/ f \in stronger
                             \/ \E g \in stronger : g.code = f.code /\ ~g.overrideable,
           \A f \in stronger : f \in weaker \/ ~f.overrideable,
           NEW outcome, Permits(outcome, stronger)
    PROVE  Permits(outcome, weaker)
<1>1. CASE outcome = "rejected" /\ \A f \in stronger : f.code # "UNAUTHORIZED_DECISION"
  BY <1>1 DEF Permits
<1>2. CASE outcome = "accepted" /\ stronger = {}
  BY <1>2 DEF Permits
<1>3. CASE outcome = "overridden" /\ stronger # {} /\ \A f \in stronger : f.overrideable
  BY <1>3 DEF Permits
<1> QED
  BY <1>1, <1>2, <1>3 DEF Permits

\* The overlay of a bound schema adds failures and never removes or softens one.
LEMMA SchemaOverlayAdds ==
    ASSUME NEW policy \in Policies, NEW claim, NEW proposer, NEW statements, NEW actor,
           NEW outcome,
           Permitted(SchemaOverlay(policy), claim, proposer, statements, actor, outcome)
    PROVE  Permitted(policy, claim, proposer, statements, actor, outcome)
<1> DEFINE overlay == SchemaOverlay(policy)
           F(q) == Failures(q, claim, proposer, statements, actor, outcome)
<1>1. /\ overlay.decide = policy.decide /\ overlay.override = policy.override
      /\ overlay.selfApproval = policy.selfApproval /\ overlay.admits = policy.admits
      /\ overlay.confirmation = policy.confirmation /\ overlay.trusts = policy.trusts
      /\ overlay.runner = policy.runner
      /\ overlay.validation = "required"
      /\ overlay.waives = policy.waives \ {"missingValidation"}
  BY DEF SchemaOverlay, Policies
<1> HIDE DEF overlay
<1>2. \A check : TrustedResults(overlay, check, statements) = TrustedResults(policy, check, statements)
  BY <1>1 DEF TrustedResults
<1>3. \A w \in Waivers \ {"missingValidation"} : (w \in overlay.waives) = (w \in policy.waives)
  BY <1>1
<1>4. ClaimFailures(overlay, claim, statements) = ClaimFailures(policy, claim, statements)
  BY <1>1, <1>2, <1>3 DEF ClaimFailures, Waivers, FailIf
<1>5. ReplayFailures(overlay, statements) = ReplayFailures(policy, statements)
  BY <1>2 DEF ReplayFailures, FailIf
<1>6. RunnerFailures(overlay, statements) = RunnerFailures(policy, statements)
  BY <1>1, <1>2, <1>3 DEF RunnerFailures, Waivers, FailIf
<1>7. AuthorizationFailures(overlay, proposer, actor, outcome)
          = AuthorizationFailures(policy, proposer, actor, outcome)
  BY <1>1 DEF AuthorizationFailures
<1> DEFINE strict == ValidationFailures(overlay, statements)
           lax == ValidationFailures(policy, statements)
<1>8. /\ \A f \in lax : f \in strict \/ \E g \in strict : g.code = f.code /\ ~g.overrideable
      /\ \A f \in strict : f \in lax \/ ~f.overrideable
  <2> DEFINE results == TrustedResults(policy, "validation", statements)
  <2>1. /\ TrustedResults(overlay, "validation", statements) = results
        /\ ("failedValidation" \in overlay.waives) = ("failedValidation" \in policy.waives)
        /\ ("missingValidation" \in overlay.waives) = FALSE
        /\ (overlay.validation = "required") = TRUE
    BY <1>1, <1>2, <1>3 DEF Waivers
  <2> HIDE DEF results
  <2>2. /\ FailIf("failed" \in results /\ "passed" \in results, "VALIDATION_CONFLICT",
                  "failedValidation" \in policy.waives) \subseteq lax \cap strict
        /\ FailIf("failed" \in results /\ "passed" \notin results, "VALIDATION_FAILED",
                  "failedValidation" \in policy.waives) \subseteq lax \cap strict
    BY <2>1 DEF ValidationFailures, results, FailIf
  <2>3. \A f \in lax : \/ f \in strict
                       \/ /\ f.code = "VALIDATION_REQUIRED"
                          /\ {"failed", "passed"} \cap results = {}
    BY <2>2 DEF ValidationFailures, FailIf, results
  <2> DEFINE missing == {"failed", "passed"} \cap results = {}
             required == FailIf(missing, "VALIDATION_REQUIRED", FALSE)
  <2>4. /\ required \subseteq strict
        /\ \A f \in strict : f \in lax \/ f \in required
    BY <2>1, <2>2 DEF ValidationFailures, FailIf
  <2>5. missing => \E g \in strict : g.code = "VALIDATION_REQUIRED" /\ ~g.overrideable
    <3> DEFINE g == [code |-> "VALIDATION_REQUIRED", overrideable |-> FALSE]
    <3>1. missing => g \in strict
      BY <2>4 DEF FailIf
    <3>2. g.code = "VALIDATION_REQUIRED" /\ ~g.overrideable
      OBVIOUS
    <3> HIDE DEF g, missing, strict
    <3> QED
      BY <3>1, <3>2
  <2>6. \A f \in strict : f \in lax \/ ~f.overrideable
    BY <2>4, FinalFailure
  <2> QED
    BY <2>3, <2>5, <2>6
<1>9. /\ \A f \in F(policy) : f \in F(overlay) \/ \E g \in F(overlay) : g.code = f.code /\ ~g.overrideable
      /\ \A f \in F(overlay) : f \in F(policy) \/ ~f.overrideable
  <2> HIDE DEF strict, lax
  <2>1. \E X : F(policy) = X \cup lax /\ F(overlay) = X \cup strict
    <3> DEFINE X == ClaimFailures(policy, claim, statements)
                    \cup ReplayFailures(policy, statements)
                    \cup RunnerFailures(policy, statements)
                    \cup AuthorizationFailures(policy, proposer, actor, outcome)
    <3>1. F(policy) = X \cup lax
      BY DEF Failures, PolicyFailures, lax
    <3>2. F(overlay) = X \cup strict
      BY <1>4, <1>5, <1>6, <1>7 DEF Failures, PolicyFailures, strict
    <3> QED
      BY <3>1, <3>2
  <2> QED
    BY <1>8, <2>1
<1> HIDE DEF F
<1>10. Permits(outcome, F(overlay))
  BY DEF Permitted, F, overlay
<1>11. Permits(outcome, F(policy))
  BY <1>9, <1>10, MoreFailuresPermitLess
<1> QED
  BY <1>11 DEF Permitted, F

\* The overlay of generated content adds failures, for a policy it may be put on.
LEMMA GenerationOverlayAdds ==
    ASSUME NEW policy \in Policies, policy.runner = "absent",
           NEW claim, NEW proposer, NEW statements, NEW actor, NEW outcome,
           Permitted(GenerationOverlay(policy), claim, proposer, statements, actor, outcome)
    PROVE  Permitted(policy, claim, proposer, statements, actor, outcome)
<1> DEFINE overlay == GenerationOverlay(policy)
           F(q) == Failures(q, claim, proposer, statements, actor, outcome)
<1>1. /\ overlay.decide = policy.decide /\ overlay.override = policy.override
      /\ overlay.selfApproval = policy.selfApproval /\ overlay.admits = policy.admits
      /\ overlay.confirmation = policy.confirmation
      /\ \A check \in Checks \ {"runner"} : overlay.trusts[check] = policy.trusts[check]
      /\ overlay.validation = policy.validation
      /\ overlay.waives = policy.waives \ {"failedRunner", "missingRunner"}
  BY DEF GenerationOverlay, Policies, Checks
<1> HIDE DEF overlay
<1>2. \A check \in Checks \ {"runner"} :
          TrustedResults(overlay, check, statements) = TrustedResults(policy, check, statements)
  BY <1>1 DEF TrustedResults
<1>3. \A w \in Waivers \ {"failedRunner", "missingRunner"} :
          (w \in overlay.waives) = (w \in policy.waives)
  BY <1>1
<1>4. ClaimFailures(overlay, claim, statements) = ClaimFailures(policy, claim, statements)
  BY <1>1, <1>2, <1>3 DEF ClaimFailures, Waivers, Checks, FailIf
<1>5. ReplayFailures(overlay, statements) = ReplayFailures(policy, statements)
  BY <1>2 DEF ReplayFailures, Checks, FailIf
<1>6. ValidationFailures(overlay, statements) = ValidationFailures(policy, statements)
  BY <1>1, <1>2, <1>3 DEF ValidationFailures, Waivers, Checks, FailIf
<1>7. AuthorizationFailures(overlay, proposer, actor, outcome)
          = AuthorizationFailures(policy, proposer, actor, outcome)
  BY <1>1 DEF AuthorizationFailures
<1>8. RunnerFailures(policy, statements) = {}
  BY DEF RunnerFailures
<1>9. \A f \in RunnerFailures(overlay, statements) : ~f.overrideable
  BY <1>1, FinalFailure DEF RunnerFailures
<1>10. /\ F(policy) \subseteq F(overlay)
       /\ \A f \in F(overlay) : f \in F(policy) \/ ~f.overrideable
  BY <1>4, <1>5, <1>6, <1>7, <1>8, <1>9 DEF Failures, PolicyFailures
<1> HIDE DEF F
<1>11. Permits(outcome, F(overlay))
  BY DEF Permitted, F, overlay
<1>12. Permits(outcome, F(policy))
  BY <1>10, <1>11, MoreFailuresPermitLess
<1> QED
  BY <1>12 DEF Permitted, F

\* The policy a Proposal is decided under is never laxer than the policy of its
\* ref, whatever overlays apply (resolveApplicableTransitionPolicy).
THEOREM ApplicableOnlyRestricts ==
    ASSUME NEW policy \in Policies, NEW generated \in BOOLEAN, NEW schemaBound \in BOOLEAN,
           ~Incompatible(policy, generated),
           NEW claim, NEW proposer, NEW statements, NEW actor, NEW outcome,
           Permitted(ApplicablePolicy(policy, generated, schemaBound),
                     claim, proposer, statements, actor, outcome)
    PROVE  Permitted(policy, claim, proposer, statements, actor, outcome)
<1> DEFINE effective == IF schemaBound THEN SchemaOverlay(policy) ELSE policy
<1>1. effective \in Policies /\ (generated => effective.runner = "absent")
  <2>1. SchemaOverlay(policy) \in Policies /\ SchemaOverlay(policy).runner = policy.runner
    BY DEF SchemaOverlay, Policies
  <2> QED
    BY <2>1 DEF Incompatible
<1>2. Permitted(IF generated THEN GenerationOverlay(effective) ELSE effective,
                claim, proposer, statements, actor, outcome)
  BY DEF ApplicablePolicy
<1> HIDE DEF effective
<1>3. Permitted(effective, claim, proposer, statements, actor, outcome)
  <2>1. CASE generated
    BY <1>1, <1>2, <2>1, GenerationOverlayAdds
  <2>2. CASE ~generated
    BY <1>2, <2>2
  <2> QED
    BY <2>1, <2>2
<1> QED
  BY <1>3, SchemaOverlayAdds DEF effective

\* "Require independent review" does what it says for every human, whatever was
\* bound before: self-approval is forbidden exactly when it is on
\* (planBranchRuleChange, refPolicyForActor).
THEOREM BranchRuleIsExact ==
    ASSUME NEW bound \in Policies \cup {NoPolicy}, NEW flag \in BOOLEAN,
           NEW actor \in Humans, NoPolicy \notin Policies
    PROVE  RefPolicyForActor(BranchRule(bound, flag), actor).selfApproval = ~flag
<1>1. UnprotectedRefPolicy \in Policies /\ UnprotectedRefPolicy.selfApproval = TRUE
  BY ActorsAssumption DEF ActorsAssumption, UnprotectedRefPolicy, Policies, Checks, Waivers
<1>2. /\ IndependentReviewRefPolicy \in Policies
      /\ IndependentReviewRefPolicy.selfApproval = FALSE
  BY <1>1 DEF IndependentReviewRefPolicy, Policies
<1>3. ASSUME NEW q \in Policies, NEW b \in BOOLEAN
      PROVE  [q EXCEPT !.selfApproval = b] \in Policies /\ [q EXCEPT !.selfApproval = b].selfApproval = b
  BY DEF Policies
<1>4. CASE bound = NoPolicy
  BY <1>1, <1>2, <1>4 DEF BranchRule, RefPolicyForActor
<1>5. CASE bound \in Policies
  BY <1>1, <1>3, <1>5 DEF BranchRule, RefPolicyForActor
<1> QED
  BY <1>4, <1>5

(***************************************************************************)
(* Overlays.                                                               *)
(***************************************************************************)
\* Every policy a ref can be bound to is one that overlays only restrict.
LEMMA BoundPolicies == ASSUME TypeOK PROVE OverlaysOnlyRestrict
<1> SUFFICES ASSUME NEW ref \in Refs, NEW generated \in BOOLEAN, NEW schemaBound \in BOOLEAN,
                    NEW proposer \in Proposers, NEW actor \in Actors,
                    NEW outcome \in Outcomes, NEW seen \in SUBSET Evidence,
                    RefPolicyForActor(binding[ref], actor) # NoPolicy,
                    ~Incompatible(RefPolicyForActor(binding[ref], actor), generated),
                    Permitted(ApplicablePolicy(RefPolicyForActor(binding[ref], actor),
                                               generated, schemaBound),
                              Claim, proposer, seen, actor, outcome)
             PROVE  Permitted(RefPolicyForActor(binding[ref], actor),
                              Claim, proposer, seen, actor, outcome)
  BY DEF OverlaysOnlyRestrict
<1>1. RefPolicyForActor(binding[ref], actor) \in Policies
  BY PresetTypes DEF RefPolicyForActor, TypeOK
<1> QED
  BY <1>1, ApplicableOnlyRestricts

\* Whatever the administrators bind, the overlays a Proposal gets never permit
\* what the policy of its ref does not (resolveApplicableTransitionPolicy).
THEOREM OverlaysRestrictEveryBinding == Spec => []OverlaysOnlyRestrict
<1>1. TypeInv => OverlaysOnlyRestrict
  BY BoundPolicies DEF TypeInv
<1> QED
  BY <1>1, TypeCorrect, PTL DEF TypeInv

(***************************************************************************)
(* Branch rules. RulesKeepCustomPolicies is not inductive: a planned rule  *)
(* is written after the binding it was planned from may have changed.      *)
(***************************************************************************)
Kept == {NoPolicy, IndependentReviewRefPolicy}
            \cup {[policy EXCEPT !.selfApproval = b] : policy \in BindablePolicies, b \in BOOLEAN}

RulesInv ==
    /\ \A ref \in Refs : binding[ref] \in Kept
    /\ \A h \in Handlers : call[h].pc = "rule" => call[h].policy \in Kept

\* planBranchRuleChange stays among those bindings.
LEMMA RuleStaysKept ==
    ASSUME NEW b \in Kept, NEW flag \in BOOLEAN PROVE BranchRule(b, flag) \in Kept
<1>1. BindablePolicies \subseteq Policies
  BY LifecycleAssumption DEF LifecycleAssumption
<1>2. CASE b = NoPolicy
  BY <1>2 DEF BranchRule, Kept
<1>3. CASE b = IndependentReviewRefPolicy
  <2>1. IndependentReviewRefPolicy \in Policies /\ NoPolicy \notin Policies
    BY PresetTypes, LifecycleAssumption DEF LifecycleAssumption
  <2>2. b # NoPolicy
    BY <1>3, <2>1
  <2>3. CASE flag = FALSE
    BY <1>3, <2>2, <2>3 DEF BranchRule, Kept
  <2>4. CASE flag = TRUE
    <3>1. UnprotectedRefPolicy \in Policies
      BY PresetTypes
    <3>2. [b EXCEPT !.selfApproval = ~flag] = b
      BY <1>3, <2>4, <3>1 DEF IndependentReviewRefPolicy, Policies
    <3>3. BranchRule(b, flag) = [b EXCEPT !.selfApproval = ~flag]
      BY <2>2, <2>4 DEF BranchRule
    <3> QED
      BY <1>3, <3>2, <3>3 DEF Kept
  <2> QED
    BY <2>3, <2>4
<1>4. ASSUME NEW policy \in BindablePolicies, NEW c \in BOOLEAN, b = [policy EXCEPT !.selfApproval = c]
      PROVE  BranchRule(b, flag) \in Kept
  <2>1. [b EXCEPT !.selfApproval = ~flag] = [policy EXCEPT !.selfApproval = ~flag]
    BY <1>1, <1>4 DEF Policies
  <2>2. PICK f \in BOOLEAN : f = ~flag
    OBVIOUS
  <2>3. [policy EXCEPT !.selfApproval = f] \in Kept
    BY DEF Kept
  <2>4. [b EXCEPT !.selfApproval = ~flag] \in Kept
    BY <2>1, <2>2, <2>3
  <2> QED
    BY <2>4 DEF BranchRule, Kept
<1> QED
  BY <1>2, <1>3, <1>4 DEF Kept

\* A step of a handler that plans no rule and leaves the bindings alone.
LEMMA RulesKept ==
    ASSUME TypeOK, RulesInv, binding' = binding, NEW h \in Handlers, NEW c,
           c.pc # "rule", Busy(h, c)
    PROVE  RulesInv'
BY DEF RulesInv, Busy, TypeOK

\* Steps of clients, authors and reviewers.
LEMMA OutsideRules ==
    ASSUME TypeInv, RulesInv, WorkspaceStep \/ ReviewStep \/ ClientStep
    PROVE  RulesInv'
<1>1. CASE WorkspaceStep
  <2>1. UNCHANGED <<binding, call>>
    BY <1>1 DEF WorkspaceStep, Publish, TouchDraft, Reconcile, Discard, review
  <2> QED
    BY <2>1 DEF RulesInv
<1>2. CASE ReviewStep
  <2>1. ASSUME NEW h \in Handlers, NEW w \in Workspaces, NEW a \in Proposers,
               PrepareReview(h, w, a)
        PROVE  RulesInv'
    <3>1. PICK c : c.pc = "materialize" /\ Busy(h, c) /\ binding' = binding
      BY <2>1 DEF PrepareReview, review
    <3> QED
      BY <3>1, RulesKept DEF TypeInv
  <2>2. ASSUME NEW t \in Transitions, NEW s \in Evidence, RecordStatement(t, s)
        PROVE  RulesInv'
    BY <2>2 DEF RecordStatement, RulesInv
  <2>3. ASSUME NEW ref \in Refs, UnbindPolicy(ref) PROVE RulesInv'
    BY <2>3 DEF UnbindPolicy, RulesInv, Kept, TypeInv, TypeOK
  <2>4. ASSUME NEW ref \in Refs, NEW policy \in BindablePolicies, BindPolicy(ref, policy)
        PROVE  RulesInv'
    <3>1. policy \in Kept
      <4>1. policy \in Policies
        BY LifecycleAssumption DEF LifecycleAssumption
      <4>2. policy.selfApproval \in BOOLEAN /\ policy = [policy EXCEPT !.selfApproval = policy.selfApproval]
        BY <4>1 DEF Policies
      <4> QED
        BY <4>2 DEF Kept
    <3> QED
      BY <2>4, <3>1 DEF BindPolicy, RulesInv, TypeInv, TypeOK
  <2> QED
    BY <1>2, <2>1, <2>2, <2>3, <2>4 DEF ReviewStep
<1>3. CASE ClientStep
  <2>1. ASSUME NEW r \in Requests, NEW t \in Transitions, NEW body, Compose(r, t, body)
        PROVE  RulesInv'
    BY <2>1 DEF Compose, review, RulesInv
  <2>2. ASSUME NEW h \in Handlers, NEW r \in Requests, Deliver(h, r) PROVE RulesInv'
    <3>1. PICK c : c.pc = "lookup" /\ Busy(h, c) /\ binding' = binding
      BY <2>2 DEF Deliver, review
    <3> QED
      BY <3>1, RulesKept DEF TypeInv
  <2> QED
    BY <1>3, <2>1, <2>2 DEF ClientStep, ComposeDecision, ComposeCommit
<1> QED
  BY <1>1, <1>2, <1>3

\* Answers and moves of a handler plan no rule.
LEMMA AnswerRules ==
    ASSUME TypeInv, RulesInv, binding' = binding, NEW h \in Handlers,
           \/ \E r, d : Answer(h, r, d)
           \/ Busy(h, Idle)
           \/ \E r, d : Busy(h, [pc |-> "reply", request |-> r, result |-> d])
    PROVE  RulesInv'
<1>1. PICK c : c.pc # "rule" /\ Busy(h, c)
  BY DEF Answer, Idle
<1> QED
  BY <1>1, RulesKept DEF TypeInv

\* A handler that moves on with its command plans no rule.
LEMMA GotoRules ==
    ASSUME TypeInv, RulesInv, NEW h \in Handlers, call[h].pc \in Serving \ {"reply"},
           \E pc \in {"decide", "precheck", "commit", "winner"} : Goto(h, pc)
    PROVE  RulesInv'
<1> PICK pc \in {"decide", "precheck", "commit", "winner"} : Goto(h, pc)
  OBVIOUS
<1>1. call[h] \in [pc: {"lookup", "decide", "precheck", "commit", "winner"}, request: Requests]
  BY DEF TypeInv, TypeOK, Calls, Idle, Serving
<1>2. PICK c : c.pc # "rule" /\ Busy(h, c) /\ binding' = binding
  BY <1>1 DEF Goto, review
<1> QED
  BY <1>2, RulesKept DEF TypeInv

\* Every step of a handler keeps the invariant.
LEMMA HandlerRules ==
    ASSUME TypeInv, RulesInv, NEW h \in Handlers, HandlerStep(h) \/ Crash(h)
    PROVE  RulesInv'
<1>1. CASE WriteRule(h)
  <2>1. call[h].policy \in Kept
    BY <1>1 DEF WriteRule, RulesInv
  <2>2. binding' = [binding EXCEPT ![call[h].ref] = call[h].policy]
    BY <1>1 DEF WriteRule
  <2>3. \A ref \in Refs : binding'[ref] \in Kept
    BY <2>1, <2>2 DEF RulesInv, TypeInv, TypeOK
  <2>4. \A g \in Handlers : call'[g].pc = "rule" => call'[g] = call[g]
    BY <1>1 DEF WriteRule, Busy, Idle, TypeInv, TypeOK
  <2> QED
    BY <2>3, <2>4 DEF RulesInv
<1>2. CASE ResolveRetry(h, call[h].request) \/ Refuse(h, call[h].request)
  BY <1>2, AnswerRules DEF ResolveRetry, Refuse, review
<1>3. CASE Lookup(h)
  BY <1>2, <1>3, GotoRules DEF Lookup, Serving
<1>4. CASE DecideTransaction(h)
  BY <1>2, <1>4, GotoRules, AnswerRules DEF DecideTransaction, Serving, review
<1>5. CASE CommitPrecheck(h)
  BY <1>2, <1>5, GotoRules DEF CommitPrecheck, Serving
<1>6. CASE CommitTransaction(h)
  BY <1>2, <1>6, GotoRules, AnswerRules DEF CommitTransaction, Serving, review
<1>7. CASE ResolveWinner(h)
  BY <1>2, <1>7 DEF ResolveWinner
<1>8. CASE \/ \E t \in Transitions : Materialize(h, t)
           \/ Reply(h) \/ WriteTransaction(h) \/ Crash(h)
  <2>1. binding' = binding
    BY <1>8 DEF Materialize, Reply, WriteTransaction, Crash, review
  <2>2. (\E r, d : Answer(h, r, d)) \/ Busy(h, Idle)
    BY <1>8 DEF Materialize, Reply, WriteTransaction, Crash
  <2> QED
    BY <2>1, <2>2, AnswerRules
<1> QED
  BY <1>1, <1>3, <1>4, <1>5, <1>6, <1>7, <1>8 DEF HandlerStep

\* A rule is planned from the binding that is in force.
LEMMA PlanRules ==
    ASSUME TypeInv, RulesInv, NEW h \in Handlers, NEW ref \in Refs,
           \/ \E a \in Writers, sync \in CommitSyncs : PrepareWrite(h, ref, a, sync)
           \/ \E flag \in RuleChanges : PlanRule(h, ref, flag)
    PROVE  RulesInv'
<1>1. CASE \E a \in Writers, sync \in CommitSyncs : PrepareWrite(h, ref, a, sync)
  <2>1. PICK c : c.pc = "write" /\ Busy(h, c) /\ binding' = binding
    BY <1>1 DEF PrepareWrite, review
  <2> QED
    BY <2>1, RulesKept DEF TypeInv
<1>2. ASSUME NEW flag \in RuleChanges, PlanRule(h, ref, flag)
      PROVE  RulesInv'
  <2> DEFINE planned == BranchRule(binding[ref], flag)
             c == [pc |-> "rule", ref |-> ref, policy |-> planned]
  <2>1. flag \in BOOLEAN /\ binding[ref] \in Kept
    BY LifecycleAssumption DEF LifecycleAssumption, RulesInv
  <2>2. planned \in Kept
    BY <2>1, RuleStaysKept
  <2>3. Busy(h, c) /\ binding' = binding
    BY <1>2 DEF PlanRule, review
  <2> HIDE DEF planned
  <2>4. c.policy \in Kept
    BY <2>2
  <2> HIDE DEF c
  <2>5. call'[h] = c /\ \A g \in Handlers \ {h} : call'[g] = call[g]
    BY <2>3 DEF Busy, TypeInv, TypeOK
  <2> QED
    BY <2>3, <2>4, <2>5 DEF RulesInv
<1> QED
  BY <1>1, <1>2

\* Whatever administrators and rule changes interleave, a ref is bound to
\* nothing, to the preset, or to a policy that was bound as a whole with at most
\* its self-approval flipped (planBranchRuleChange).
THEOREM RulesKeepPolicies == Spec => []RulesKeepCustomPolicies
<1>1. Init => RulesInv
  BY DEF Init, RulesInv, Kept, Idle
<1>2. TypeInv /\ RulesInv /\ [Next]_vars => RulesInv'
  <2> SUFFICES ASSUME TypeInv, RulesInv, [Next]_vars PROVE RulesInv'
    OBVIOUS
  <2>1. CASE UNCHANGED vars
    BY <2>1 DEF vars, RulesInv
  <2>2. CASE Next
    BY <2>2, OutsideRules, HandlerRules, PlanRules DEF Next
  <2> QED
    BY <2>1, <2>2
<1>3. RulesInv => RulesKeepCustomPolicies
  BY DEF RulesInv, RulesKeepCustomPolicies, Kept
<1> QED
  BY <1>1, <1>2, <1>3, TypeCorrect, PTL DEF Spec, TypeInv

(***************************************************************************)
(* Repository writers.                                                     *)
(***************************************************************************)
\* What one step says when it advances a ref to a Decision that it makes.
WriterStep ==
    \A ref \in Refs :
        /\ Advanced(ref)
        /\ ledger[head'[ref]] = None
        => ledger'[head'[ref]].policy =
              IF binding[ref] = NoPolicy THEN WriterPolicy ELSE binding[ref]

\* Steps that do not move a head advance no ref.
LEMMA StillWriter == ASSUME TypeOK, advances' = advances PROVE WriterStep
<1>1. \A ref \in Refs : ~(Len(advances[ref]) > Len(advances[ref]))
  BY EventShape
<1> QED
  BY <1>1 DEF WriterStep, Advanced

\* A swap of a head advances its ref and no other.
LEMMA OnlyAdvanced ==
    ASSUME TypeOK, NEW ref \in Refs, NEW e \in Commits, NEW d \in Digests, Advance(ref, e, d),
           NEW other \in Refs, Advanced(other)
    PROVE  other = ref /\ head'[other] = d
<1>1. advances'[other] = advances[other] => FALSE
  BY EventShape DEF Advanced
<1>2. other = ref
  BY <1>1, AppendedEvents
<1> QED
  BY <1>2 DEF Advance, TypeOK

\* A Workspace commit is decided before its transaction.
LEMMA CommitWriter ==
    ASSUME IndInv, NEW h \in Handlers, CommitTransaction(h) PROVE WriterStep
<1> DEFINE r == call[h].request
           p == proposal[command[r].transition]
           d == command[r].body.decision
           expectedHead == command[r].body.expectedHead
<1>1. /\ call[h].pc = "commit"
      /\ r \in Requests /\ command[r] # None /\ p \in Proposals
  BY ServedFacts DEF CommitTransaction, Serving, IndInv
<1>2. command[r].body \in CommitBodies
  BY <1>1, CommandShape DEF IndInv, TypeInv, ServesCommands
<1>3. d \in Digests /\ expectedHead \in Commits /\ p.ref \in Refs
  BY <1>1, <1>2 DEF CommitBodies, Proposals
<1>4. CASE UNCHANGED repository
  BY <1>4, StillWriter DEF repository, IndInv, TypeInv
<1>5. CASE Advance(p.ref, expectedHead, d)
  <2>1. ledger[d] # None
    BY <1>1 DEF IndInv, HistoryInv, CommitsChecked
  <2>2. \A ref \in Refs : Advanced(ref) => head'[ref] = d
    BY <1>3, <1>5, OnlyAdvanced DEF IndInv, TypeInv
  <2> QED
    BY <2>1, <2>2 DEF WriterStep
<1> QED
  BY <1>4, <1>5 DEF CommitTransaction, Refuse, Goto

\* A repository writer decides under the binding it reads in its transaction.
LEMMA WriteWriter ==
    ASSUME IndInv, NEW h \in Handlers, WriteTransaction(h) PROVE WriterStep
<1> DEFINE c == call[h]
           policy == IF c.expected = NoPolicy THEN WriterPolicy ELSE c.expected
<1>1. c.ref \in Refs /\ c.expectedHead \in Commits
  BY CallShape DEF WriteTransaction, IndInv, TypeInv
<1>2. CASE UNCHANGED repository
  BY <1>2, StillWriter DEF repository, IndInv, TypeInv
<1>3. ASSUME BindingExpected(c), NEW d \in Digests,
             ledger' = [ledger EXCEPT ![d] =
                 [subject |-> [base |-> c.expectedHead, content |-> {}, actor |-> c.actor],
                  ref |-> c.ref, actor |-> c.actor, outcome |-> "accepted",
                  policy |-> policy, evidence |-> WriterEvidence]],
             Advance(c.ref, c.expectedHead, d)
      PROVE  WriterStep
  <2>1. ledger'[d].policy = policy
    BY <1>3 DEF IndInv, TypeInv, TypeOK
  <2>2. policy = IF binding[c.ref] = NoPolicy THEN WriterPolicy ELSE binding[c.ref]
    BY <1>3 DEF BindingExpected
  <2>3. \A ref \in Refs : Advanced(ref) => ref = c.ref /\ head'[ref] = d
    BY <1>1, <1>3, OnlyAdvanced DEF IndInv, TypeInv
  <2> HIDE DEF policy, c
  <2> QED
    BY <2>1, <2>2, <2>3 DEF WriterStep
<1> QED
  BY <1>2, <1>3 DEF WriteTransaction

\* Every step obeys the binding, by the lemma of its action.
LEMMA NextWriter == ASSUME IndInv, [Next]_vars PROVE WriterStep
<1>1. CASE advances' = advances
  BY <1>1, StillWriter DEF IndInv, TypeInv
<1>2. CASE \E h \in Handlers : CommitTransaction(h) \/ WriteTransaction(h)
  BY <1>2, CommitWriter, WriteWriter
<1>3. CASE WorkspaceStep \/ ReviewStep \/ ClientStep
  <2>1. advances' = advances
    BY <1>3 DEF WorkspaceStep, Publish, TouchDraft, Reconcile, Discard, ReviewStep, PrepareReview,
       RecordStatement, BindPolicy, UnbindPolicy, ClientStep, ComposeDecision, ComposeCommit,
       Compose, Deliver, repository
  <2> QED
    BY <1>1, <2>1
<1>4. ASSUME NEW h \in Handlers,
             HandlerStep(h) \/ Crash(h), ~CommitTransaction(h), ~WriteTransaction(h)
      PROVE  WriterStep
  <2>1. \A r : Refuse(h, r) \/ ResolveRetry(h, r) => advances' = advances
    BY DEF Refuse, ResolveRetry, repository
  <2>2. \A pc : Goto(h, pc) => advances' = advances
    BY DEF Goto, repository
  <2>3. advances' = advances
    BY <1>4, <2>1, <2>2 DEF HandlerStep, Materialize, Lookup, DecideTransaction, CommitPrecheck,
       ResolveWinner, Reply, Crash, WriteRule, repository
  <2> QED
    BY <1>1, <2>3
<1>5. CASE \E h \in Handlers, ref \in Refs :
              \/ \E a \in Writers, sync \in CommitSyncs : PrepareWrite(h, ref, a, sync)
              \/ \E flag \in RuleChanges : PlanRule(h, ref, flag)
  BY <1>1, <1>5 DEF PrepareWrite, PlanRule, repository
<1>6. CASE UNCHANGED vars
  BY <1>1, <1>6 DEF vars
<1> QED
  BY <1>2, <1>3, <1>4, <1>5, <1>6 DEF Next

\* A repository writer advances a ref only under the binding that is in force
\* when it commits, however long ago it read it and whatever administrators did
\* since (resolvePreparedServerPolicyBinding).
THEOREM WritersObeyBindings == Spec => WritersObeyLiveBinding
<1>1. IndInv /\ [Next]_vars =>
        [\A ref \in Refs :
            /\ Advanced(ref)
            /\ ledger[head'[ref]] = None
            => ledger'[head'[ref]].policy =
                  IF binding[ref] = NoPolicy THEN WriterPolicy ELSE binding[ref]]_vars
  BY NextWriter DEF WriterStep
<1> QED
  BY <1>1, Inductive, PTL DEF Spec, WritersObeyLiveBinding
===============================================================================
