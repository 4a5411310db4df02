-------------------------- MODULE TransitionLifecycle --------------------------
(***************************************************************************)
(* The Transition control plane: a Draft is published in a Workspace,      *)
(* frozen into a Proposal, observed by Statements, decided under the       *)
(* policy of its ref and committed by a compare-and-swap of the ref head.  *)
(* Servers handle the commands concurrently, clients retry them, and the   *)
(* repository writers (direct State writes and merges) race them.          *)
(*                                                                         *)
(* A step is one database transaction, or one read outside a transaction.  *)
(* DecideTransaction is one step because decideTransition first takes the  *)
(* review lock, which holds the project, the membership, the statements,   *)
(* the branch, the draft and the binding FOR UPDATE until it commits;      *)
(* CommitTransaction is one step because every value it reads is guarded   *)
(* by the branch row it updates or by the revision it swaps.               *)
(*                                                                         *)
(* A Decision is named by its digest. A CommitV2 is determined by its      *)
(* Decision and its parent, and the parent by the Proposal of the          *)
(* Decision, so a commit is named by the digest of its Decision.           *)
(***************************************************************************)
EXTENDS AcceptancePolicy, Naturals, Sequences

CONSTANTS
    Refs,               \* branches
    Workspaces,         \* workspace drafts
    TargetRef,          \* drafts.target_branch of every workspace
    Edits,              \* draft actions that clients publish
    GeneratedEdits,     \* those whose action carries generation facts
    SchemaBound,        \* workspaces whose draft has a bound schema
    Claim,              \* the claim of the Proposals
    Transitions,        \* transition ids
    Digests,            \* decision digests, and the digests of the commits they authorize
    Requests,           \* command slots of the clients
    ActorOf,            \* the authenticated actor of each slot
    RequestIdOf,        \* the request id each slot sends
    AskedOutcomes,      \* outcomes that clients ask for
    Handlers,           \* concurrent executions in the API servers
    Evidence,           \* statements that the providers can record
    BindablePolicies,   \* policies that an administrator binds to a ref
    RuleChanges,        \* values of "require independent review" that are asked for
    Proposers,          \* actors that prepare a review
    Writers,            \* actors that use the repository writers
    CommitSyncs,        \* sets of Workspaces that a commit may find ready to follow its ref
    WriterEvidence,     \* statements that the repository writers record themselves
    WriterPolicy,       \* REPOSITORY_STATE_POLICY, for a ref without binding
    MaxRevision,        \* bound on the revisions that edits of draft metadata reach
    MaxCrashes,         \* bound on the number of handler crashes
    None                \* the null of the code

ASSUME LifecycleAssumption ==
    /\ TargetRef \in [Workspaces -> Refs]
    /\ ActorOf \in [Requests -> Actors]
    /\ GeneratedEdits \subseteq Edits
    /\ SchemaBound \subseteq Workspaces
    /\ RuleChanges \subseteq BOOLEAN
    /\ CommitSyncs \subseteq SUBSET Workspaces
    /\ Evidence \cup WriterEvidence \subseteq Statements
    /\ BindablePolicies \cup {WriterPolicy} \subseteq Policies
    /\ NoPolicy \notin Policies
    /\ AskedOutcomes \subseteq Outcomes
    /\ Proposers \cup Writers \subseteq Actors
    /\ Claim \in Claims
    /\ None \notin Digests \cup Transitions
    /\ MaxRevision \in Nat /\ MaxCrashes \in Nat

VARIABLES
    head,       \* branches.head_commit_hash
    binding,    \* transition_policy_bindings
    draft,      \* workspace drafts: revision, basis and authoring ledger
    proposal,   \* transition_proposal_memberships and their preparations
    observed,   \* transition_statement_memberships
    ledger,     \* decisions in the repository audit ledger
    grants,     \* transition_decision_authorizations
    advances,   \* branch.advanced events of each ref, in order
    receipts,   \* transition_command_receipts
    command,    \* the command each client slot has composed
    call,       \* what each handler is executing
    answers,    \* what the clients have been told
    published,  \* history: edits published and not discarded by their author
    crashes     \* history: number of handler crashes

repository == <<head, advances, grants, ledger>>
review == <<proposal, observed, binding>>
clients == <<command, answers, crashes>>
vars == <<head, binding, draft, proposal, observed, ledger, grants, advances,
          receipts, command, call, answers, published, crashes>>

(***************************************************************************)
(* Types.                                                                  *)
(***************************************************************************)
Commits == Digests \cup {None}

Drafts == [revision: Nat, base: Commits, content: SUBSET Edits, marked: SUBSET Edits]

Proposals == [workspace: Workspaces, ref: Refs, refHead: Commits, revision: Nat,
              content: SUBSET Edits, marked: SUBSET Edits, actor: Actors]

\* What identifies a Proposal statement: its Effect on a base, and its actor.
Subjects == [base: Commits, content: SUBSET Edits, actor: Actors]

Decisions == [subject: Subjects, ref: Refs, actor: Actors, outcome: Outcomes,
              policy: Policies, evidence: SUBSET Statements]

ASSUME NullAssumption == None \notin Decisions

DecideBodies == [action: {"decide"}, outcome: Outcomes,
                 policy: Policies \cup {NoPolicy}, statements: SUBSET Statements]

CommitBodies == [action: {"commit"}, decision: Digests, expectedHead: Commits]

Commands == [transition: Transitions, body: DecideBodies \cup CommitBodies]

Receipts == [transition: Transitions, actor: Actors, requestId: {RequestIdOf[r] : r \in Requests},
             body: DecideBodies \cup CommitBodies, result: Digests]

Idle == [pc |-> "idle"]

Calls ==
    {Idle}
    \cup [pc: {"materialize"}, built: Proposals]
    \cup [pc: {"lookup", "decide", "precheck", "commit", "winner"}, request: Requests]
    \cup [pc: {"reply"}, request: Requests, result: Digests]
    \cup [pc: {"write"}, ref: Refs, actor: Actors, expectedHead: Commits,
          expected: Policies \cup {NoPolicy}, sync: SUBSET Workspaces]
    \cup [pc: {"rule"}, ref: Refs, policy: Policies \cup {NoPolicy}]

Refused == "refused"

TypeOK ==
    /\ head \in [Refs -> Commits]
    /\ binding \in [Refs -> Policies \cup {NoPolicy}]
    /\ draft \in [Workspaces -> Drafts]
    /\ proposal \in [Transitions -> Proposals \cup {None}]
    /\ observed \in [Transitions -> SUBSET Statements]
    /\ ledger \in [Digests -> Decisions \cup {None}]
    /\ grants \subseteq Refs \X Digests
    /\ advances \in [Refs -> Seq([previous: Commits, head: Digests])]
    /\ receipts \subseteq Receipts
    /\ command \in [Requests -> Commands \cup {None}]
    /\ call \in [Handlers -> Calls]
    /\ answers \in [Requests -> SUBSET (Digests \cup {Refused})]
    /\ published \in [Workspaces -> SUBSET Edits]
    /\ crashes \in Nat

Init ==
    /\ head = [r \in Refs |-> None]
    /\ binding = [r \in Refs |-> NoPolicy]
    /\ draft = [w \in Workspaces |->
                  [revision |-> 1, base |-> None, content |-> {}, marked |-> {}]]
    /\ proposal = [t \in Transitions |-> None]
    /\ observed = [t \in Transitions |-> {}]
    /\ ledger = [d \in Digests |-> None]
    /\ grants = {}
    /\ advances = [r \in Refs |-> <<>>]
    /\ receipts = {}
    /\ command = [r \in Requests |-> None]
    /\ call = [h \in Handlers |-> Idle]
    /\ answers = [r \in Requests |-> {}]
    /\ published = [w \in Workspaces |-> {}]
    /\ crashes = 0

(***************************************************************************)
(* Workspaces. Every write swaps the revision.                             *)
(***************************************************************************)
Clean(w) == draft[w].content = {}

Unpublished == Edits \ UNION {published[w] : w \in Workspaces}

\* publishDraftAction, on a Workspace whose pinned head is current.
Publish(w, e) ==
    /\ e \in Unpublished
    /\ draft[w].base = head[TargetRef[w]]
    /\ draft' = [draft EXCEPT ![w].revision = @ + 1,
                              ![w].content = @ \cup {e},
                              ![w].marked = @ \cup ({e} \cap GeneratedEdits)]
    /\ published' = [published EXCEPT ![w] = @ \cup {e}]
    /\ UNCHANGED <<repository, review, receipts, clients, call>>

\* updateDraft of a field that is not part of the authoring ledger.
TouchDraft(w) ==
    /\ draft[w].revision < MaxRevision
    /\ draft' = [draft EXCEPT ![w].revision = @ + 1]
    /\ UNCHANGED <<repository, review, receipts, clients, call, published>>

\* decideWorkspaceReconciliation, adopt or resolve: the edits are carried
\* forward as one imported action, which has no generation facts.
Reconcile(w) ==
    /\ draft[w].base # head[TargetRef[w]]
    /\ draft' = [draft EXCEPT ![w].revision = @ + 1,
                              ![w].base = head[TargetRef[w]],
                              ![w].marked = {}]
    /\ UNCHANGED <<repository, review, receipts, clients, call, published>>

\* decideWorkspaceReconciliation, discard: the author gives the edits up.
Discard(w) ==
    /\ draft[w].base # head[TargetRef[w]]
    /\ draft' = [draft EXCEPT ![w].revision = @ + 1,
                              ![w].base = head[TargetRef[w]],
                              ![w].content = {},
                              ![w].marked = {}]
    /\ published' = [published EXCEPT ![w] = @ \ draft[w].content]
    /\ UNCHANGED <<repository, review, receipts, clients, call>>

(***************************************************************************)
(* Review: a Proposal, its Statements and the policy of its ref.           *)
(***************************************************************************)
Busy(h, c) == call' = [call EXCEPT ![h] = c]

\* prepareWorkspaceAuthoringReview: freeze the manifest of the current Draft.
PrepareReview(h, w, a) ==
    /\ call[h] = Idle
    /\ \E t \in Transitions : proposal[t] = None
    /\ ~Clean(w)
    /\ draft[w].base = head[TargetRef[w]]
    /\ Busy(h, [pc |-> "materialize",
                built |-> [workspace |-> w, ref |-> TargetRef[w], refHead |-> draft[w].base,
                           revision |-> draft[w].revision, content |-> draft[w].content,
                           marked |-> draft[w].marked, actor |-> a]])
    /\ UNCHANGED <<repository, review, draft, receipts, clients, published>>

\* createTransitionProposalMembership
Materialize(h, t) ==
    /\ call[h].pc = "materialize"
    /\ proposal[t] = None
    /\ proposal' = [proposal EXCEPT ![t] = call[h].built]
    /\ Busy(h, Idle)
    /\ UNCHANGED <<repository, observed, binding, draft, receipts, clients, published>>

\* recordTransitionStatementMembership
RecordStatement(t, s) ==
    /\ proposal[t] # None
    /\ observed' = [observed EXCEPT ![t] = @ \cup {s}]
    /\ UNCHANGED <<repository, proposal, binding, draft, receipts, clients, call, published>>

\* bindTransitionPolicy
BindPolicy(ref, policy) ==
    /\ binding' = [binding EXCEPT ![ref] = policy]
    /\ UNCHANGED <<repository, proposal, observed, draft, receipts, clients, call, published>>

\* unbindTransitionPolicy
UnbindPolicy_Null(ref) ==           \* fault: the row is kept with a null policy
    /\ binding' = [binding EXCEPT ![ref] = None]
    /\ UNCHANGED <<repository, proposal, observed, draft, receipts, clients, call, published>>
UnbindPolicy(ref) ==
    /\ binding' = [binding EXCEPT ![ref] = NoPolicy]
    /\ UNCHANGED <<repository, proposal, observed, draft, receipts, clients, call, published>>

\* PATCH of the branch rules: the binding is read, and the planned one is
\* written in another statement.
PlanRule(h, ref, requireIndependentReview) ==
    LET planned == BranchRule(binding[ref], requireIndependentReview)
    IN  /\ call[h] = Idle
        /\ planned # binding[ref]
        /\ Busy(h, [pc |-> "rule", ref |-> ref, policy |-> planned])
        /\ UNCHANGED <<repository, review, draft, receipts, clients, published>>

WriteRule(h) ==
    /\ call[h].pc = "rule"
    /\ binding' = [binding EXCEPT ![call[h].ref] = call[h].policy]
    /\ Busy(h, Idle)
    /\ UNCHANGED <<repository, proposal, observed, draft, receipts, clients, published>>

(***************************************************************************)
(* Clients: compose a command once, then send it any number of times.      *)
(***************************************************************************)
IsGenerated(p) == p.marked # {}

SubjectOf(p) == [base |-> p.refHead, content |-> p.content, actor |-> p.actor]

\* The policy an actor is governed by when it decides or commits a Proposal.
Applicable(p, actor) ==
    LET policy == RefPolicyForActor(binding[p.ref], actor)
    IN  IF policy = NoPolicy THEN NoPolicy
        ELSE ApplicablePolicy(policy, IsGenerated(p), p.workspace \in SchemaBound)

Compose(r, t, body) ==
    /\ command[r] = None
    /\ proposal[t] # None
    /\ command' = [command EXCEPT ![r] = [transition |-> t, body |-> body]]
    /\ UNCHANGED <<repository, review, draft, receipts, call, answers, published, crashes>>

\* The client freezes the review it has inspected: statements and policy.
ComposeDecision(r, t, outcome) ==
    /\ proposal[t] # None
    /\ Compose(r, t, [action |-> "decide", outcome |-> outcome,
                      policy |-> Applicable(proposal[t], ActorOf[r]),
                      statements |-> observed[t]])

\* The client names a Decision and the head it expects.
ComposeCommit(r, t, d, expectedHead) ==
    /\ ledger[d] # None
    /\ Compose(r, t, [action |-> "commit", decision |-> d, expectedHead |-> expectedHead])

\* The first delivery of a command, a retry of it, or a duplicate.
Deliver(h, r) ==
    /\ call[h] = Idle
    /\ command[r] # None
    /\ Busy(h, [pc |-> "lookup", request |-> r])
    /\ UNCHANGED <<repository, review, draft, receipts, clients, published>>

(***************************************************************************)
(* Handlers.                                                               *)
(***************************************************************************)
Answer(h, r, result) ==
    /\ answers' = [answers EXCEPT ![r] = @ \cup {result}]
    /\ Busy(h, Idle)

Refuse(h, r) ==
    /\ Answer(h, r, Refused)
    /\ UNCHANGED <<repository, review, draft, receipts, command, published, crashes>>

Goto(h, pc) ==
    /\ Busy(h, [call[h] EXCEPT !.pc = pc])
    /\ UNCHANGED <<repository, review, draft, receipts, clients, published>>

\* The receipts stored under the key of a request: at most one.
ReceiptsOf(r) ==
    {x \in receipts : /\ command[r] # None
                      /\ x.transition = command[r].transition
                      /\ x.actor = ActorOf[r]
                      /\ x.requestId = RequestIdOf[r]}

\* No receipt is stored under the key of the request.
Unclaimed_Unchecked(r) == TRUE      \* fault: the insert overwrites
Unclaimed(r) == ReceiptsOf(r) = {}

\* The receipt has the digest of this command.
SameCommand_KeyOnly(x, r) == TRUE   \* fault: the digest is not compared
SameCommand_Unstable(x, r) == FALSE \* fault: the digest depends on the execution
SameCommand(x, r) == x.body = command[r].body

ReceiptFor(r, result) ==
    [transition |-> command[r].transition, actor |-> ActorOf[r],
     requestId |-> RequestIdOf[r], body |-> command[r].body, result |-> result]

\* resolveDecisionRetry and resolveCommitRetry: the stored result of the same
\* command; a different command under the same request id is a conflict.
ResolveRetry(h, r) ==
    \E x \in ReceiptsOf(r) :
        IF SameCommand(x, r)
        THEN /\ Busy(h, [pc |-> "reply", request |-> r, result |-> x.result])
             /\ UNCHANGED <<repository, review, draft, receipts, clients, published>>
        ELSE Refuse(h, r)

\* An automated actor neither overrides nor decides generated content.
AutomationDenied_OverrideOnly(r) == \* fault: generated content is not considered
    /\ command[r].body.action = "decide"
    /\ ActorOf[r] \notin Humans
    /\ command[r].body.outcome = "overridden"
AutomationDenied(r) ==
    LET c == command[r]
    IN  /\ c.body.action = "decide"
        /\ ActorOf[r] \notin Humans
        /\ c.body.outcome = "overridden" \/ IsGenerated(proposal[c.transition])

Lookup(h) ==
    /\ call[h].pc = "lookup"
    /\ LET r == call[h].request
       IN  \/ AutomationDenied(r) /\ Refuse(h, r)
           \/ ~AutomationDenied(r) /\ ResolveRetry(h, r)
           \/ /\ ~AutomationDenied(r) /\ Unclaimed(r)
              /\ Goto(h, IF command[r].body.action = "decide" THEN "decide" ELSE "precheck")

\* assertWorkspaceAuthoringReview: the Proposal binds the complete current Draft.
BindsDraft(p) ==
    /\ p.content = draft[p.workspace].content
    /\ p.marked = draft[p.workspace].marked

\* The command was composed from all the Statements observed so far.
StatementsCurrent_Unchecked(r) == TRUE  \* fault: the set is not compared
StatementsCurrent(r) == command[r].body.statements = observed[command[r].transition]

\* The review a decision command froze is still the review of the Proposal.
ReviewCurrent(r) ==
    LET t == command[r].transition
        p == proposal[t]
        body == command[r].body
    IN  /\ BindsDraft(p)
        /\ draft[p.workspace].revision = p.revision
        /\ head[p.ref] = p.refHead
        /\ body.policy = Applicable(p, ActorOf[r])
        /\ body.policy # NoPolicy
        /\ ~Incompatible(RefPolicyForActor(binding[p.ref], ActorOf[r]), IsGenerated(p))
        /\ StatementsCurrent(r)

\* evaluateAcceptance over the repository's own observations.
Authorizes_Everything(r) == TRUE        \* fault: the verdict is ignored
Authorizes(r) ==
    LET t == command[r].transition
        p == proposal[t]
        body == command[r].body
    IN  Permitted(body.policy, Claim, p.actor, observed[t], ActorOf[r], body.outcome)

\* The transaction of decideTransition, under the review lock. The digest of a
\* Decision is new, since the Decision carries the time it was taken.
DecideTransaction(h) ==
    /\ call[h].pc = "decide"
    /\ LET r == call[h].request
           t == command[r].transition
           p == proposal[t]
           body == command[r].body
           granted == ReviewCurrent(r) /\ Authorizes(r)
       IN  \/ ~granted /\ Refuse(h, r)
           \/ granted /\ ~Unclaimed(r) /\ Goto(h, "winner")
           \/ /\ granted
              /\ Unclaimed(r)
              /\ \E d \in Digests :
                    /\ ledger[d] = None
                    /\ ledger' = [ledger EXCEPT ![d] =
                          [subject |-> SubjectOf(p), ref |-> p.ref, actor |-> ActorOf[r],
                           outcome |-> body.outcome, policy |-> body.policy,
                           evidence |-> observed[t]]]
                    /\ grants' = IF body.outcome = "rejected" THEN grants
                                 ELSE grants \cup {<<p.ref, d>>}
                    /\ receipts' = receipts \cup {ReceiptFor(r, d)}
                    /\ Busy(h, [pc |-> "reply", request |-> r, result |-> d])
              /\ UNCHANGED <<head, advances, review, draft, clients, published>>

\* A generated Proposal keeps the policy it was decided under; other adapters
\* may have selected a narrower one, which is not compared again.
GenerationPolicyKept(r, p) ==
    IsGenerated(p) =>
        /\ Applicable(p, ActorOf[r]) # NoPolicy
        /\ ~Incompatible(RefPolicyForActor(binding[p.ref], ActorOf[r]), TRUE)
        /\ ledger[command[r].body.decision].policy = Applicable(p, ActorOf[r])

\* The command expects the head that the Proposal was built on.
ExpectsProposalHead_Unchecked(r) == TRUE    \* fault: only the ref is compared
ExpectsProposalHead(r) ==
    command[r].body.expectedHead = proposal[command[r].transition].refHead

\* The reads of commitTransition before its transaction.
Precheckable(r) ==
    LET t == command[r].transition
        p == proposal[t]
        body == command[r].body
        d == ledger[body.decision]
    IN  /\ ExpectsProposalHead(r)
        /\ d # None /\ d.ref = p.ref
        /\ d.subject = SubjectOf(p)
        /\ d.outcome # "rejected"
        /\ GenerationPolicyKept(r, p)
        /\ head[p.ref] = body.expectedHead
        /\ draft[p.workspace].revision = p.revision
        /\ BindsDraft(p)

CommitPrecheck(h) ==
    /\ call[h].pc = "precheck"
    /\ LET r == call[h].request
       IN  \/ Precheckable(r) /\ Goto(h, "commit")
           \/ ~Precheckable(r) /\ Refuse(h, r)

\* createTransitionCommit: compare and swap the head, and record the event.
Advance_Unconditional(ref, expectedHead, d) ==  \* fault: swap without compare
    /\ head' = [head EXCEPT ![ref] = d]
    /\ advances' = [advances EXCEPT ![ref] = Append(@, [previous |-> expectedHead, head |-> d])]
Advance(ref, expectedHead, d) ==
    /\ head[ref] = expectedHead
    /\ head' = [head EXCEPT ![ref] = d]
    /\ advances' = [advances EXCEPT ![ref] = Append(@, [previous |-> expectedHead, head |-> d])]

CleanFollow_Dirty(sync, ref, d) ==  \* fault: the edits are not looked at
    [w \in Workspaces |->
        IF w \in sync /\ TargetRef[w] = ref
        THEN [draft[w] EXCEPT !.revision = @ + 1, !.base = d]
        ELSE draft[w]]
\* synchronizeCleanBranchWorkspaces: the ready Workspaces without edits follow the
\* ref. None is ready if the route does not synchronize; where it does, a
\* Workspace with a pending schema edit is not.
CleanFollow(sync, ref, d) ==
    [w \in Workspaces |->
        IF w \in sync /\ TargetRef[w] = ref /\ Clean(w)
        THEN [draft[w] EXCEPT !.revision = @ + 1, !.base = d]
        ELSE draft[w]]

\* renewWorkspaceAuthoring of the committed Workspace, in the same transaction.
RenewDrafts(p, d, sync) ==
    draft' = [CleanFollow(sync, p.ref, d) EXCEPT ![p.workspace] =
        [revision |-> draft[p.workspace].revision + 1, base |-> d,
         content |-> {}, marked |-> {}]]

\* The revision and the manifest are read again inside the transaction.
Fresh_Unchecked(p) == TRUE          \* fault: the earlier read is trusted
Fresh(p) == draft[p.workspace].revision = p.revision /\ BindsDraft(p)

\* The transaction of commitTransition.
CommitTransaction(h) ==
    /\ call[h].pc = "commit"
    /\ LET r == call[h].request
           p == proposal[command[r].transition]
           d == command[r].body.decision
           expectedHead == command[r].body.expectedHead
           authorized == <<p.ref, d>> \in grants
           lost == head[p.ref] # expectedHead
       IN  \/ /\ ~authorized \/ (~lost /\ ~Fresh(p))
              /\ Refuse(h, r)
           \/ /\ authorized
              /\ lost \/ (Fresh(p) /\ ~Unclaimed(r))
              /\ Goto(h, "winner")
           \/ /\ authorized
              /\ Fresh(p)
              /\ Unclaimed(r)
              /\ Advance(p.ref, expectedHead, d)
              /\ \E sync \in CommitSyncs : RenewDrafts(p, d, sync)
              /\ receipts' = receipts \cup {ReceiptFor(r, d)}
              /\ Busy(h, [pc |-> "reply", request |-> r, result |-> d])
              /\ UNCHANGED <<grants, ledger, review, clients, published>>

\* A loser of a receipt or of the head answers with the winner's result if the
\* winner was the same command.
ResolveWinner(h) ==
    /\ call[h].pc = "winner"
    /\ LET r == call[h].request
       IN  \/ ResolveRetry(h, r)
           \/ Unclaimed(r) /\ Refuse(h, r)

Reply(h) ==
    /\ call[h].pc = "reply"
    /\ Answer(h, call[h].request, call[h].result)
    /\ UNCHANGED <<repository, review, draft, receipts, command, published, crashes>>

\* A process dies or a connection drops: transactions have committed or not.
Crash(h) ==
    /\ call[h] # Idle
    /\ crashes < MaxCrashes
    /\ crashes' = crashes + 1
    /\ Busy(h, Idle)
    /\ UNCHANGED <<repository, review, draft, receipts, command, answers, published>>

(***************************************************************************)
(* The repository writers: a direct State write or a merge is proposed,    *)
(* decided and committed by one actor, under the binding it has read. The  *)
(* commit and pull-request routes synchronize the clean Workspaces in the  *)
(* same transaction; the presentation, merge and source-workspace routes   *)
(* do not.                                                                 *)
(***************************************************************************)
PrepareWrite(h, ref, a, sync) ==
    /\ call[h] = Idle
    /\ Busy(h, [pc |-> "write", ref |-> ref, actor |-> a, expectedHead |-> head[ref],
                expected |-> binding[ref], sync |-> sync])
    /\ UNCHANGED <<repository, review, draft, receipts, clients, published>>

\* resolvePreparedServerPolicyBinding: the binding is the one the writer read,
\* and a writer that is not human needs one.
BindingExpected_Unlocked(c) ==      \* fault: the binding is not read again
    c.actor \in Humans \/ c.expected # NoPolicy
BindingExpected(c) ==
    /\ binding[c.ref] = c.expected
    /\ c.actor \in Humans \/ c.expected # NoPolicy

\* commitPreparedRepositoryTransition with a server-selected binding.
WriteTransaction(h) ==
    /\ call[h].pc = "write"
    /\ LET c == call[h]
           policy == IF c.expected = NoPolicy THEN WriterPolicy ELSE c.expected
           accepted == /\ BindingExpected(c)
                       /\ Permitted(policy, Claim, c.actor, WriterEvidence, c.actor, "accepted")
                       /\ head[c.ref] = c.expectedHead
       IN  \/ ~accepted /\ UNCHANGED <<repository, draft>>
           \/ /\ accepted
              /\ \E d \in Digests :
                    /\ ledger[d] = None
                    /\ ledger' = [ledger EXCEPT ![d] =
                          [subject |-> [base |-> c.expectedHead, content |-> {},
                                        actor |-> c.actor],
                           ref |-> c.ref, actor |-> c.actor, outcome |-> "accepted",
                           policy |-> policy, evidence |-> WriterEvidence]]
                    /\ grants' = grants \cup {<<c.ref, d>>}
                    /\ Advance(c.ref, c.expectedHead, d)
                    /\ draft' = CleanFollow(c.sync, c.ref, d)
    /\ Busy(h, Idle)
    /\ UNCHANGED <<review, receipts, clients, published>>

(***************************************************************************)
(* The specification.                                                      *)
(***************************************************************************)
WorkspaceStep ==
    \E w \in Workspaces :
        \/ \E e \in Edits : Publish(w, e)
        \/ TouchDraft(w)
        \/ Reconcile(w)
        \/ Discard(w)

ReviewStep ==
    \/ \E h \in Handlers, w \in Workspaces, a \in Proposers : PrepareReview(h, w, a)
    \/ \E t \in Transitions, s \in Evidence : RecordStatement(t, s)
    \/ \E ref \in Refs : UnbindPolicy(ref) \/ \E policy \in BindablePolicies : BindPolicy(ref, policy)

ClientStep ==
    \E r \in Requests :
        \/ \E t \in Transitions, outcome \in AskedOutcomes : ComposeDecision(r, t, outcome)
        \/ \E t \in Transitions, d \in Digests, e \in {head[ref] : ref \in Refs} \cup {None} :
              ComposeCommit(r, t, d, e)
        \/ \E h \in Handlers : Deliver(h, r)

HandlerStep(h) ==
    \/ \E t \in Transitions : Materialize(h, t)
    \/ Lookup(h)
    \/ DecideTransaction(h)
    \/ CommitPrecheck(h)
    \/ CommitTransaction(h)
    \/ ResolveWinner(h)
    \/ Reply(h)
    \/ WriteTransaction(h)
    \/ WriteRule(h)

Next ==
    \/ WorkspaceStep
    \/ ReviewStep
    \/ ClientStep
    \/ \E h \in Handlers : HandlerStep(h) \/ Crash(h)
    \/ \E h \in Handlers, ref \in Refs :
          \/ \E a \in Writers, sync \in CommitSyncs : PrepareWrite(h, ref, a, sync)
          \/ \E flag \in RuleChanges : PlanRule(h, ref, flag)

Spec == Init /\ [][Next]_vars

(***************************************************************************)
(* Safety.                                                                 *)
(***************************************************************************)
HeadsOf(ref) == {advances[ref][i].head : i \in DOMAIN advances[ref]}

Committed == UNION {HeadsOf(ref) : ref \in Refs}

CommittedEdits == UNION {ledger[d].subject.content : d \in Committed}

\* Every commit of a ref's history can be audited again: its Decision was made
\* for this ref, on a Proposal whose Effect starts at the commit's parent, and
\* the policy it names permits it on the evidence it names (createTransitionCommit,
\* authorizeDecisionForRepository, assertTransitionDecisionMembership).
AuthorizedHistory ==
    \A ref \in Refs : \A i \in DOMAIN advances[ref] :
        LET e == advances[ref][i]
            d == ledger[e.head]
        IN  /\ d # None
            /\ <<ref, e.head>> \in grants
            /\ d.ref = ref
            /\ d.subject.base = e.previous
            /\ d.outcome # "rejected"
            /\ Permitted(d.policy, Claim, d.subject.actor, d.evidence, d.actor, d.outcome)

\* The history of a ref is one chain that ends at its head, so of incompatible
\* advances from one old head at most one succeeds (the compare-and-swap of
\* createTransitionCommit and the branch.advanced event of its transaction).
LinearHistory ==
    \A ref \in Refs :
        LET log == advances[ref]
        IN  /\ head[ref] = IF log = <<>> THEN None ELSE log[Len(log)].head
            /\ \A i \in DOMAIN log : log[i].previous = IF i = 1 THEN None ELSE log[i - 1].head
            /\ \A i, j \in DOMAIN log : log[i].previous = log[j].previous => i = j

\* Every published edit that its author did not discard is in exactly one place:
\* still in the Draft of its Workspace, or in one commit. A losing Workspace keeps
\* its Draft, and no edit is committed twice (the revision swap of
\* renewWorkspaceAuthoring, assertWorkspaceAuthoringReview).
EditsConserved ==
    /\ \A w \in Workspaces :
          /\ published[w] \subseteq draft[w].content \cup CommittedEdits
          /\ draft[w].content \cap CommittedEdits = {}
    /\ \A c, d \in Committed :
          c # d => ledger[c].subject.content \cap ledger[d].subject.content = {}

\* A receipt key stores one result, and a Decision of the control plane is the
\* result of one command: retries and duplicates of a command never decide or
\* commit again (recordTransitionCommandReceipt in the transaction of the effect).
OneEffectPerCommand ==
    /\ \A x, y \in receipts :
          /\ x.transition = y.transition /\ x.actor = y.actor /\ x.requestId = y.requestId
          => x = y
    /\ \A x, y \in receipts : x.result = y.result /\ x.body.action = y.body.action => x = y
    /\ \A d \in Digests :
          ledger[d] # None /\ ledger[d].subject.content # {} =>
              \E x \in receipts : x.body.action = "decide" /\ x.result = d

\* A client is told only the result its own command had, whatever was lost,
\* repeated or sent under a request id that another command had used.
AnswersAreReceipts ==
    \A r \in Requests : \A d \in answers[r] \ {Refused} :
        \E x \in ReceiptsOf(r) : x.body = command[r].body /\ x.result = d

\* A Proposal that carries generation facts reaches history only by a human
\* Decision under a policy that requires the posture verifier and waives neither
\* its absence nor its failure (assertGenerationDecisionActor, generationOverlayPolicy).
GeneratedProposalsUnderOverlay ==
    \A t \in Transitions : \A d \in Committed :
        /\ proposal[t] # None
        /\ IsGenerated(proposal[t])
        /\ ledger[d].subject = SubjectOf(proposal[t])
        => /\ ledger[d].policy.runner = "required"
           /\ ledger[d].actor \in Humans
           /\ "passed" \in TrustedResults(ledger[d].policy, "runner", ledger[d].evidence)

\* Whatever order concurrent rule changes and bindings take, the ref is bound to
\* nothing, to the preset, or to a policy an administrator bound with at most
\* its self-approval flipped (planBranchRuleChange).
RulesKeepCustomPolicies ==
    \A ref \in Refs :
        binding[ref] \in {NoPolicy, IndependentReviewRefPolicy}
            \cup {[policy EXCEPT !.selfApproval = b] :
                      policy \in BindablePolicies, b \in BOOLEAN}

\* Under every binding a ref gets, the overlays of a generated Proposal and of a
\* bound Workspace schema only take permissions away: they can be skipped for no
\* actor, outcome and evidence (resolveApplicableTransitionPolicy).
OverlaysOnlyRestrict ==
    \A ref \in Refs, generated, schemaBound \in BOOLEAN,
       proposer \in Proposers, actor \in Actors, outcome \in Outcomes, seen \in SUBSET Evidence :
        LET policy == RefPolicyForActor(binding[ref], actor)
        IN  /\ policy # NoPolicy
            /\ ~Incompatible(policy, generated)
            /\ Permitted(ApplicablePolicy(policy, generated, schemaBound),
                         Claim, proposer, seen, actor, outcome)
            => Permitted(policy, Claim, proposer, seen, actor, outcome)

(***************************************************************************)
(* Action properties.                                                      *)
(***************************************************************************)
\* A Decision is recorded only on the review that is live at that moment: the
\* Draft, the head, the Statements and the policy are those its actor inspected,
\* whatever changed between the inspection, the command and its transaction
\* (acquireTransitionReviewLock, assertTransitionReviewPrecondition).
DecisionsOnLiveReview ==
    [][\A r \in Requests : \A x \in receipts' \ receipts :
          /\ x.body.action = "decide"
          /\ command[r] # None
          /\ x = ReceiptFor(r, x.result)
          => LET p == proposal[x.transition]
                 d == ledger'[x.result]
             IN  /\ d.evidence = x.body.statements
                 /\ d.evidence = observed[x.transition]
                 /\ d.policy = Applicable(p, ActorOf[r])
                 /\ d.subject.base = head[p.ref]
                 /\ d.subject.content = draft[p.workspace].content
                 /\ p.revision = draft[p.workspace].revision]_vars

Advanced(ref) == Len(advances'[ref]) > Len(advances[ref])

\* No advance of a ref, by whatever route, loses or rebases edits behind the back
\* of their author: a Draft with edits changes only if the commit is exactly that
\* Draft on that basis, and one without edits only by following its own ref
\* (renewWorkspaceAuthoring; onlyIfClean of reconcileWorkspaceAuthoring).
AdvancesKeepEditedDrafts ==
    [][\A ref \in Refs : Advanced(ref) =>
          \A w \in Workspaces :
              LET old == draft[w]
                  new == draft'[w]
                  commit == ledger'[head'[ref]].subject
              IN  \/ new = old
                  \/ /\ TargetRef[w] = ref
                     /\ new.base = head'[ref]
                     /\ new.content = {}
                     /\ old.content # {} =>
                           commit.content = old.content /\ commit.base = old.base]_vars

\* A repository writer advances a ref only under the binding that is in force
\* when it commits (resolvePreparedServerPolicyBinding).
WritersObeyLiveBinding ==
    [][\A ref \in Refs :
          /\ Advanced(ref)
          /\ ledger[head'[ref]] = None
          => ledger'[head'[ref]].policy =
                IF binding[ref] = NoPolicy THEN WriterPolicy ELSE binding[ref]]_vars

\* Documentation: "Ref protection is enforced at authoritative ref advance".
\* The decision a commit carries satisfies the policy that is bound to the ref
\* when the ref advances.
RefProtectedAtAdvance ==
    [][\A ref \in Refs :
          LET d == ledger'[head'[ref]]
          IN  Advanced(ref) /\ binding[ref] # NoPolicy =>
                  Permitted(binding[ref], Claim, d.subject.actor, d.evidence,
                            d.actor, d.outcome)]_vars

\* Documentation: "exact retries reuse the atomic receipt". A handler refuses a
\* command only while no receipt of the same command is stored.
ExactRetriesReuseReceipt ==
    [][\A r \in Requests :
          Refused \in answers'[r] \ answers[r] =>
              \A x \in ReceiptsOf(r) : x.body # command[r].body]_vars

\* Comment in commitTransition: "Generated Proposals are always decided against
\* the server-derived overlay". Generated content in history was decided by a
\* human under a policy that requires the posture verifier.
GeneratedContentUnderOverlay ==
    \A d \in Committed :
        ledger[d].subject.content \cap GeneratedEdits # {} =>
            ledger[d].policy.runner = "required" /\ ledger[d].actor \in Humans

(***************************************************************************)
(* Refinement: the events and the authorizations are a ledger of refs.     *)
(***************************************************************************)
Refs_ledger == INSTANCE RefLedger WITH granted <- grants, log <- advances

\* The control plane and the repository writers implement the ref ledger
\* (createTransitionCommit is the only writer of branches.head_commit_hash here).
ImplementsRefLedger == Refs_ledger!Spec

(***************************************************************************)
(* Liveness.                                                               *)
(***************************************************************************)
\* A handler that has started keeps running, and a request whose client sends it
\* until it learns a result is eventually given a handler. Nothing is assumed of clients that
\* have not composed a command, of authors or of administrators.
Fairness ==
    /\ \A h \in Handlers : WF_vars(HandlerStep(h))
    /\ \A r \in Requests :
          SF_vars(answers[r] \subseteq {Refused} /\ \E h \in Handlers : Deliver(h, r))

FairSpec == Spec /\ Fairness

\* A client that retries learns the result of its command even if the replies of
\* the executions that had the effect were lost (resolveDecisionRetry,
\* resolveCommitRetry).
LostReplyRecovered ==
    \A r \in Requests, d \in Digests :
        (\E x \in ReceiptsOf(r) : x.body = command[r].body /\ x.result = d)
            ~> d \in answers[r]
===============================================================================
