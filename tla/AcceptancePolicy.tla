--------------------------- MODULE AcceptancePolicy ---------------------------
(***************************************************************************)
(* The pure acceptance evaluation of a Proposal (core/transition-decisions *)
(* evaluation.ts) and the selection of the policy that governs a ref       *)
(* (api transition-control-plane/applicable-policy.ts).                    *)
(*                                                                         *)
(* Selectors over issuers, tools, environments, profiles and contexts are  *)
(* abstracted to the set of issuers a policy trusts for a check; the claim *)
(* modes and the minimum evidence to the set of claims a policy admits.    *)
(* Two policies with the same rules are the same record, as two resources  *)
(* with the same bytes have the same digest.                               *)
(***************************************************************************)

CONSTANTS
    Actors,             \* authenticated principals and the services that issue statements
    Humans,             \* the actors of kind "human"
    Claims,             \* forms of the intent and rationale a Proposal carries
    PostureVerifier,    \* PROPOSAL_POSTURE_VERIFIER_ACTOR
    ReplayService,      \* TRANSITION_REPLAY_ACTOR
    NoPolicy            \* absence of a binding

ASSUME ActorsAssumption ==
    /\ Humans \subseteq Actors
    /\ PostureVerifier \in Actors
    /\ ReplayService \in Actors

Checks == {"replay", "validation", "runner", "confirmation"}

Results == {"verified", "false", "passed", "failed", "confirmed"}

Statements == [check: Checks, result: Results, issuer: Actors]

Outcomes == {"accepted", "overridden", "rejected"}

Waivers == {"claims", "failedValidation", "missingConfirmation",
            "missingValidation", "failedRunner", "missingRunner"}

Policies ==
    [decide: SUBSET Actors,            \* authorization.decide
     override: SUBSET Actors,          \* authorization.override
     selfApproval: BOOLEAN,            \* authorization.allowSelfApproval
     admits: SUBSET Claims,            \* claims.*.allowedModes and minimumEvidence
     confirmation: BOOLEAN,            \* claims.*.humanConfirmation = required
     trusts: [Checks -> SUBSET Actors],
     validation: {"optional", "required"},
     runner: {"absent", "optional", "required"},
     waives: SUBSET Waivers]           \* override.allow*

(***************************************************************************)
(* Evaluation.                                                             *)
(***************************************************************************)
FailIf(condition, code, overrideable) ==
    {f \in {[code |-> code, overrideable |-> overrideable]} : condition}

\* The results of the statements of one check that the policy trusts.
TrustedResults(policy, check, statements) ==
    {s.result : s \in {t \in statements :
                          t.check = check /\ t.issuer \in policy.trusts[check]}}

ClaimFailures(policy, claim, statements) ==
    FailIf(claim \notin policy.admits, "CLAIM_NOT_ADMITTED", "claims" \in policy.waives)
    \cup FailIf(/\ policy.confirmation
                /\ "confirmed" \notin TrustedResults(policy, "confirmation", statements),
                "HUMAN_CONFIRMATION_REQUIRED", "missingConfirmation" \in policy.waives)

ReplayFailures(policy, statements) ==
    LET replay == TrustedResults(policy, "replay", statements)
    IN  FailIf("false" \in replay, "REPLAY_CLAIM_FALSE", FALSE)
        \cup FailIf("false" \notin replay /\ "verified" \notin replay,
                    "REPLAY_NOT_VERIFIED", FALSE)

ValidationFailures(policy, statements) ==
    LET seen == TrustedResults(policy, "validation", statements)
    IN  FailIf("failed" \in seen /\ "passed" \in seen,
               "VALIDATION_CONFLICT", "failedValidation" \in policy.waives)
        \cup FailIf("failed" \in seen /\ "passed" \notin seen,
                    "VALIDATION_FAILED", "failedValidation" \in policy.waives)
        \cup FailIf(/\ {"failed", "passed"} \cap seen = {}
                    /\ policy.validation = "required",
                    "VALIDATION_REQUIRED", "missingValidation" \in policy.waives)

RunnerFailures(policy, statements) ==
    LET seen == TrustedResults(policy, "runner", statements)
    IN  {f \in FailIf("failed" \in seen /\ "passed" \in seen,
                      "RUNNER_CONFLICT", "failedRunner" \in policy.waives)
               \cup FailIf("failed" \in seen /\ "passed" \notin seen,
                           "RUNNER_FAILED", "failedRunner" \in policy.waives)
               \cup FailIf(/\ {"failed", "passed"} \cap seen = {}
                           /\ policy.runner = "required",
                           "RUNNER_REQUIRED", "missingRunner" \in policy.waives) :
            policy.runner # "absent"}

\* policyFacts: what the statements fail to establish, whoever decides. Every
\* scope is REPOSITORY_SCOPE, which is complete.
PolicyFailures(policy, claim, statements) ==
    ClaimFailures(policy, claim, statements)
    \cup ReplayFailures(policy, statements)
    \cup ValidationFailures(policy, statements)
    \cup RunnerFailures(policy, statements)

AuthorizationFailures(policy, proposer, actor, outcome) ==
    FailIf(outcome = "overridden" /\ actor \notin policy.override,
           "UNAUTHORIZED_OVERRIDE", FALSE)
    \cup FailIf(outcome # "overridden" /\ actor \notin policy.decide,
                "UNAUTHORIZED_DECISION", FALSE)
    \cup FailIf(/\ outcome # "rejected"
                /\ actor = proposer
                /\ ~policy.selfApproval,
                "SELF_APPROVAL_FORBIDDEN", FALSE)

Failures(policy, claim, proposer, statements, actor, outcome) ==
    PolicyFailures(policy, claim, statements)
    \cup AuthorizationFailures(policy, proposer, actor, outcome)

\* permittedForOutcome
Permits(outcome, failures) ==
    \/ outcome = "rejected" /\ \A f \in failures : f.code # "UNAUTHORIZED_DECISION"
    \/ outcome = "accepted" /\ failures = {}
    \/ outcome = "overridden" /\ failures # {} /\ \A f \in failures : f.overrideable

\* evaluateAcceptance(...).permitted
Permitted(policy, claim, proposer, statements, actor, outcome) ==
    Permits(outcome, Failures(policy, claim, proposer, statements, actor, outcome))

(***************************************************************************)
(* Policy selection.                                                       *)
(***************************************************************************)
UnprotectedRefPolicy ==
    [decide |-> Actors, override |-> Actors, selfApproval |-> TRUE,
     admits |-> Claims, confirmation |-> FALSE,
     trusts |-> [c \in Checks |-> IF c = "replay" THEN {ReplayService} ELSE Actors],
     validation |-> "optional", runner |-> "absent",
     waives |-> {"failedValidation", "missingValidation"}]

\* The preset also trusts the replay services of the Workspace and of the
\* repository writers; ReplayService stands for them all.
IndependentReviewRefPolicy == [UnprotectedRefPolicy EXCEPT !.selfApproval = FALSE]

\* refPolicyForActor
RefPolicyForActor(binding, actor) ==
    IF binding = NoPolicy /\ actor \in Humans THEN UnprotectedRefPolicy ELSE binding

\* workspace_schema_overlay: a bound Workspace schema makes validation load-bearing.
SchemaOverlay(policy) ==
    [policy EXCEPT !.validation = "required", !.waives = @ \ {"missingValidation"}]

\* generationOverlayPolicy
GenerationOverlay_AnyIssuer(policy) ==      \* fault: a failed posture can be waived
    [policy EXCEPT !.runner = "required", !.waives = @ \cup {"missingRunner"}]
GenerationOverlay(policy) ==
    [policy EXCEPT !.runner = "required",
                   !.trusts = [@ EXCEPT !["runner"] = {PostureVerifier}],
                   !.waives = @ \ {"failedRunner", "missingRunner"}]

\* GenerationPolicyIncompatibleError: the overlay would replace a runner rule.
Incompatible(policy, generated) == generated /\ policy.runner # "absent"

\* resolveApplicableTransitionPolicy
ApplicablePolicy(policy, generated, schemaBound) ==
    LET effective == IF schemaBound THEN SchemaOverlay(policy) ELSE policy
    IN  IF generated THEN GenerationOverlay(effective) ELSE effective

BranchRule_Preset(binding, requireIndependentReview) == \* fault: a custom policy is replaced
    IF requireIndependentReview THEN UnprotectedRefPolicy ELSE NoPolicy
\* planBranchRuleChange: the binding after "require independent review" is set.
BranchRule(binding, requireIndependentReview) ==
    IF binding = NoPolicy
    THEN IF requireIndependentReview THEN IndependentReviewRefPolicy ELSE NoPolicy
    ELSE IF ~requireIndependentReview /\ binding = IndependentReviewRefPolicy
         THEN NoPolicy
         ELSE [binding EXCEPT !.selfApproval = ~requireIndependentReview]
===============================================================================
