----------------------- MODULE TransitionLifecycleProofs -----------------------
(***************************************************************************)
(* The types, the live records and the histories of TransitionLifecycle,   *)
(* for all values of its constants.                                        *)
(***************************************************************************)
EXTENDS TransitionLifecycle, SequenceTheorems, TLAPS

(***************************************************************************)
(* The inductive invariant.                                                *)
(***************************************************************************)
Serving == {"lookup", "decide", "precheck", "commit", "winner", "reply"}

\* A handler serves a command that its client has composed, on a Proposal that
\* exists, and it serves a decision or a commit as the command asks.
ServesCommands ==
    /\ \A h \in Handlers :
          /\ call[h].pc \in Serving => command[call[h].request] # None
          /\ call[h].pc = "decide" => command[call[h].request].body.action = "decide"
          /\ call[h].pc \in {"precheck", "commit"} =>
                command[call[h].request].body.action = "commit"
    /\ \A r \in Requests :
          command[r] # None => proposal[command[r].transition] # None

TypeInv == TypeOK /\ ServesCommands

(***************************************************************************)
(* The shape of calls and commands.                                        *)
(***************************************************************************)
\* The program counter of a handler determines the fields of its call.
LEMMA CallShape ==
    ASSUME TypeOK, NEW h \in Handlers
    PROVE  /\ call[h].pc = "materialize" => call[h].built \in Proposals
           /\ call[h].pc \in Serving => call[h].request \in Requests
           /\ call[h].pc = "reply" => call[h].result \in Digests
           /\ call[h].pc = "write" =>
                 /\ call[h].ref \in Refs /\ call[h].actor \in Actors
                 /\ call[h].expectedHead \in Commits
                 /\ call[h].expected \in Policies \cup {NoPolicy}
           /\ call[h].pc = "rule" =>
                 call[h].ref \in Refs /\ call[h].policy \in Policies \cup {NoPolicy}
<1>1. call[h] \in Calls
  BY DEF TypeOK
<1> QED
  BY <1>1 DEF Calls, Idle, Serving

\* The action of a composed command determines the fields of its body.
LEMMA CommandShape ==
    ASSUME TypeOK, NEW r \in Requests, command[r] # None
    PROVE  /\ command[r] \in Commands
           /\ command[r].transition \in Transitions
           /\ command[r].body \in DecideBodies \cup CommitBodies
           /\ command[r].body.action \in {"decide", "commit"}
           /\ command[r].body.action = "decide" => command[r].body \in DecideBodies
           /\ command[r].body.action = "commit" => command[r].body \in CommitBodies
<1>1. command[r] \in Commands
  BY DEF TypeOK
<1> QED
  BY <1>1 DEF Commands, DecideBodies, CommitBodies

\* Moving a handler to a call of the right shape keeps the type of the calls.
LEMMA BusyType ==
    ASSUME TypeOK, NEW h \in Handlers, NEW c \in Calls, Busy(h, c)
    PROVE  /\ call' \in [Handlers -> Calls]
           /\ call'[h] = c
           /\ \A g \in Handlers \ {h} : call'[g] = call[g]
BY DEF TypeOK, Busy

(***************************************************************************)
(* What the policy operators return is a policy.                           *)
(***************************************************************************)
\* The built-in policies and the overlays of a policy are policies.
LEMMA PresetTypes == UnprotectedRefPolicy \in Policies /\ IndependentReviewRefPolicy \in Policies
<1>1. UnprotectedRefPolicy \in Policies
  BY ActorsAssumption DEF ActorsAssumption, UnprotectedRefPolicy, Policies, Checks, Waivers
<1> QED
  BY <1>1 DEF IndependentReviewRefPolicy, Policies

\* An overlay of a policy is a policy.
LEMMA OverlayTypes ==
    ASSUME NEW policy \in Policies, NEW generated \in BOOLEAN, NEW schemaBound \in BOOLEAN
    PROVE  ApplicablePolicy(policy, generated, schemaBound) \in Policies
<1>1. ASSUME NEW q \in Policies PROVE SchemaOverlay(q) \in Policies
  BY DEF SchemaOverlay, Policies
<1>2. ASSUME NEW q \in Policies PROVE GenerationOverlay(q) \in Policies
  <2>1. [q.trusts EXCEPT !["runner"] = {PostureVerifier}] \in [Checks -> SUBSET Actors]
    BY ActorsAssumption DEF ActorsAssumption, Policies, Checks
  <2>2. q.waives \ {"failedRunner", "missingRunner"} \in SUBSET Waivers
    BY DEF Policies
  <2> QED
    BY <2>1, <2>2 DEF GenerationOverlay, Policies
<1> QED
  BY <1>1, <1>2 DEF ApplicablePolicy

\* A planned branch rule is a policy or no binding.
LEMMA BranchRuleType ==
    ASSUME NEW b \in Policies \cup {NoPolicy}, NEW flag \in BOOLEAN
    PROVE  BranchRule(b, flag) \in Policies \cup {NoPolicy}
BY PresetTypes DEF BranchRule, Policies

\* The policy that governs an actor is a policy, or there is none.
LEMMA ApplicableType ==
    ASSUME TypeOK, NEW p \in Proposals, NEW actor \in Actors
    PROVE  Applicable(p, actor) \in Policies \cup {NoPolicy}
<1>1. RefPolicyForActor(binding[p.ref], actor) \in Policies \cup {NoPolicy}
  BY PresetTypes DEF RefPolicyForActor, TypeOK, Proposals
<1> DEFINE generated == IsGenerated(p)
           schemaBound == p.workspace \in SchemaBound
           policy == RefPolicyForActor(binding[p.ref], actor)
<1>2. generated \in BOOLEAN /\ schemaBound \in BOOLEAN
  BY DEF IsGenerated
<1>3. Applicable(p, actor) = IF policy = NoPolicy THEN NoPolicy
                            ELSE ApplicablePolicy(policy, generated, schemaBound)
  BY DEF Applicable
<1> HIDE DEF generated, schemaBound, policy
<1>4. policy # NoPolicy => ApplicablePolicy(policy, generated, schemaBound) \in Policies
  BY <1>1, <1>2, OverlayTypes DEF policy
<1> QED
  BY <1>3, <1>4

(***************************************************************************)
(* Steps that only move one handler.                                       *)
(***************************************************************************)
\* A handler may move to any call that serves its command as it asks.
LEMMA ServesAfter ==
    ASSUME TypeInv, NEW h \in Handlers, NEW c \in Calls, Busy(h, c),
           command' = command,
           \A t \in Transitions : proposal[t] # None => proposal'[t] # None,
           c.pc \in Serving => command[c.request] # None,
           c.pc = "decide" => command[c.request].body.action = "decide",
           c.pc \in {"precheck", "commit"} => command[c.request].body.action = "commit"
    PROVE  ServesCommands'
<1>1. \A r \in Requests : command[r] # None => command[r].transition \in Transitions
  BY CommandShape DEF TypeInv
<1>2. /\ call'[h] = c
      /\ \A g \in Handlers \ {h} : call'[g] = call[g]
  BY BusyType DEF TypeInv
<1> QED
  BY <1>1, <1>2 DEF TypeInv, ServesCommands

\* A step that does nothing else keeps TypeInv.
LEMMA CallStep ==
    ASSUME TypeInv, NEW h \in Handlers, NEW c \in Calls, Busy(h, c),
           UNCHANGED <<repository, review, draft, receipts, command, published>>,
           answers' \in [Requests -> SUBSET (Digests \cup {Refused})],
           crashes' \in Nat,
           c.pc \in Serving => command[c.request] # None,
           c.pc = "decide" => command[c.request].body.action = "decide",
           c.pc \in {"precheck", "commit"} => command[c.request].body.action = "commit"
    PROVE  TypeInv'
<1>1. ServesCommands'
  BY ServesAfter DEF review
<1>2. call' \in [Handlers -> Calls]
  BY BusyType DEF TypeInv
<1> QED
  BY <1>1, <1>2 DEF TypeInv, TypeOK, repository, review

\* The initial state is well typed.
LEMMA InitType == Init => TypeInv
BY LifecycleAssumption
DEF LifecycleAssumption, Init, TypeInv, TypeOK, ServesCommands, Serving, Idle, Calls,
    Commits, Drafts

(***************************************************************************)
(* Every step preserves TypeInv.                                           *)
(***************************************************************************)
\* Steps that touch neither handlers nor commands nor proposals.
LEMMA ServingUnchanged ==
    ASSUME ServesCommands, UNCHANGED <<call, command, proposal>>
    PROVE  ServesCommands'
BY DEF ServesCommands

\* Writes of Drafts are well typed.
LEMMA WorkspaceType == ASSUME TypeInv, WorkspaceStep PROVE TypeInv'
<1> USE DEF TypeInv
<1> SUFFICES ASSUME NEW w \in Workspaces,
                    \/ \E e \in Edits : Publish(w, e)
                    \/ TouchDraft(w)
                    \/ Reconcile(w)
                    \/ Discard(w)
             PROVE  TypeInv'
  BY DEF WorkspaceStep
<1>1. TargetRef[w] \in Refs /\ head[TargetRef[w]] \in Commits /\ GeneratedEdits \subseteq Edits
  BY LifecycleAssumption DEF LifecycleAssumption, TypeOK
<1>2. draft[w] \in Drafts
  BY DEF TypeOK
<1>3. draft' \in [Workspaces -> Drafts] /\ published' \in [Workspaces -> SUBSET Edits]
  <2>1. CASE \E e \in Edits : Publish(w, e)
    <3> PICK e \in Edits : Publish(w, e)
      BY <2>1
    <3>1. draft[w].revision + 1 \in Nat /\ draft[w].content \cup {e} \in SUBSET Edits
          /\ draft[w].marked \cup ({e} \cap GeneratedEdits) \in SUBSET Edits
      BY <1>1, <1>2 DEF Drafts
    <3> QED
      BY <3>1, <1>2 DEF Publish, TypeOK, Drafts
  <2>2. CASE TouchDraft(w)
    <3>1. draft[w].revision + 1 \in Nat
      BY <1>2 DEF Drafts
    <3>2. draft' = [draft EXCEPT ![w].revision = @ + 1] /\ published' = published
      BY <2>2 DEF TouchDraft
    <3> QED
      BY <3>1, <3>2, <1>2 DEF TypeOK, Drafts
  <2>3. CASE Reconcile(w)
    BY <2>3, <1>1, <1>2 DEF Reconcile, TypeOK, Drafts
  <2>4. CASE Discard(w)
    BY <2>4, <1>1, <1>2 DEF Discard, TypeOK, Drafts
  <2> QED
    BY <2>1, <2>2, <2>3, <2>4
<1>4. UNCHANGED <<repository, review, receipts, clients, call>>
  BY DEF Publish, TouchDraft, Reconcile, Discard
<1>5. ServesCommands'
  BY <1>4, ServingUnchanged DEF review, clients
<1> QED
  BY <1>3, <1>4, <1>5 DEF TypeOK, repository, review, clients

\* Proposals, Statements and bindings are well typed.
LEMMA ReviewType == ASSUME TypeInv, ReviewStep PROVE TypeInv'
<1> USE DEF TypeInv
<1>1. CASE \E h \in Handlers, w \in Workspaces, a \in Proposers : PrepareReview(h, w, a)
  <2> PICK h \in Handlers, w \in Workspaces, a \in Proposers : PrepareReview(h, w, a)
    BY <1>1
  <2> DEFINE c == [pc |-> "materialize",
                   built |-> [workspace |-> w, ref |-> TargetRef[w], refHead |-> draft[w].base,
                              revision |-> draft[w].revision, content |-> draft[w].content,
                              marked |-> draft[w].marked, actor |-> a]]
  <2>1. c \in Calls
    BY LifecycleAssumption DEF LifecycleAssumption, TypeOK, Calls, Proposals, Drafts
  <2>2. Busy(h, c)
    BY DEF PrepareReview
  <2>3. UNCHANGED <<repository, review, draft, receipts, clients, published>>
    BY DEF PrepareReview
  <2>4. c.pc = "materialize"
    OBVIOUS
  <2> HIDE DEF c
  <2>5. ServesCommands'
    BY <2>1, <2>2, <2>3, <2>4, BusyType DEF ServesCommands, Serving, review, clients
  <2> QED
    BY <2>1, <2>2, <2>3, <2>5, BusyType DEF TypeOK, repository, review, clients
<1>2. CASE \E t \in Transitions, s \in Evidence : RecordStatement(t, s)
  <2> PICK t \in Transitions, s \in Evidence : RecordStatement(t, s)
    BY <1>2
  <2>1. s \in Statements
    BY LifecycleAssumption DEF LifecycleAssumption
  <2>2. ServesCommands'
    BY ServingUnchanged DEF RecordStatement, clients
  <2> QED
    BY <2>1, <2>2 DEF RecordStatement, TypeOK, repository, clients
<1>3. CASE \E ref \in Refs : UnbindPolicy(ref) \/ \E policy \in BindablePolicies : BindPolicy(ref, policy)
  <2>1. BindablePolicies \subseteq Policies
    BY LifecycleAssumption DEF LifecycleAssumption
  <2>2. ServesCommands'
    BY <1>3, ServingUnchanged DEF UnbindPolicy, BindPolicy, clients
  <2> QED
    BY <1>3, <2>1, <2>2 DEF UnbindPolicy, BindPolicy, TypeOK, repository, clients
<1> QED
  BY <1>1, <1>2, <1>3 DEF ReviewStep

\* Composed commands are well typed, and a delivered one exists.
LEMMA ClientType == ASSUME TypeInv, ClientStep PROVE TypeInv'
<1> USE DEF TypeInv
<1> PICK r \in Requests :
           \/ \E t \in Transitions, outcome \in AskedOutcomes : ComposeDecision(r, t, outcome)
           \/ \E t \in Transitions, d \in Digests, e \in {head[ref] : ref \in Refs} \cup {None} :
                 ComposeCommit(r, t, d, e)
           \/ \E h \in Handlers : Deliver(h, r)
  BY DEF ClientStep
<1>1. ASSUME NEW t \in Transitions, NEW body \in DecideBodies \cup CommitBodies,
             Compose(r, t, body)
      PROVE  TypeInv'
  <2>1. /\ command' = [command EXCEPT ![r] = [transition |-> t, body |-> body]]
        /\ [transition |-> t, body |-> body] \in Commands
        /\ command[r] = None
        /\ proposal[t] # None
        /\ UNCHANGED <<repository, review, draft, receipts, call, answers, published, crashes>>
    BY <1>1 DEF Compose, Commands
  <2>2. ServesCommands'
    BY <2>1, CallShape DEF ServesCommands, TypeOK, review, Serving
  <2> QED
    BY <2>1, <2>2 DEF TypeOK, repository, review
<1>2. CASE \E t \in Transitions, outcome \in AskedOutcomes : ComposeDecision(r, t, outcome)
  <2> PICK t \in Transitions, outcome \in AskedOutcomes : ComposeDecision(r, t, outcome)
    BY <1>2
  <2> DEFINE p == proposal[t]
             body == [action |-> "decide", outcome |-> outcome,
                      policy |-> Applicable(p, ActorOf[r]), statements |-> observed[t]]
  <2>1. p \in Proposals /\ observed[t] \in SUBSET Statements /\ outcome \in Outcomes
    BY LifecycleAssumption DEF LifecycleAssumption, ComposeDecision, TypeOK
  <2>2. ActorOf[r] \in Actors
    BY LifecycleAssumption DEF LifecycleAssumption
  <2>3. Applicable(p, ActorOf[r]) \in Policies \cup {NoPolicy}
    BY <2>1, <2>2, ApplicableType
  <2>4. body \in DecideBodies
    BY <2>1, <2>3 DEF DecideBodies
  <2>5. Compose(r, t, body)
    BY DEF ComposeDecision
  <2> QED
    BY <1>1, <2>4, <2>5
<1>3. CASE \E t \in Transitions, d \in Digests, e \in {head[ref] : ref \in Refs} \cup {None} :
              ComposeCommit(r, t, d, e)
  <2> PICK t \in Transitions, d \in Digests, e \in {head[ref] : ref \in Refs} \cup {None} :
              ComposeCommit(r, t, d, e)
    BY <1>3
  <2>1. [action |-> "commit", decision |-> d, expectedHead |-> e] \in CommitBodies
    BY DEF CommitBodies, TypeOK, Commits
  <2> QED
    BY <1>1, <2>1 DEF ComposeCommit
<1>4. CASE \E h \in Handlers : Deliver(h, r)
  <2> PICK h \in Handlers : Deliver(h, r)
    BY <1>4
  <2> DEFINE c == [pc |-> "lookup", request |-> r]
  <2>1. c \in Calls /\ c.pc = "lookup" /\ c.request = r
    BY DEF Calls
  <2>2. /\ Busy(h, c)
        /\ command[r] # None
        /\ UNCHANGED <<repository, review, draft, receipts, command, published>>
        /\ UNCHANGED <<answers, crashes>>
    BY DEF Deliver, clients
  <2> HIDE DEF c
  <2>3. answers' \in [Requests -> SUBSET (Digests \cup {Refused})] /\ crashes' \in Nat
    BY <2>2 DEF TypeOK
  <2> QED
    BY <2>1, <2>2, <2>3, CallStep
<1> QED
  BY <1>2, <1>3, <1>4

(***************************************************************************)
(* Handlers.                                                               *)
(***************************************************************************)
\* A refusal is an answer.
LEMMA RefuseType == ASSUME TypeInv, NEW h \in Handlers, NEW r \in Requests, Refuse(h, r)
                    PROVE  TypeInv'
<1>1. Idle \in Calls /\ Idle.pc = "idle"
  BY DEF Idle, Calls
<1>2. /\ Busy(h, Idle)
      /\ answers' = [answers EXCEPT ![r] = @ \cup {Refused}]
      /\ UNCHANGED <<repository, review, draft, receipts, command, published, crashes>>
  BY DEF Refuse, Answer
<1>3. answers' \in [Requests -> SUBSET (Digests \cup {Refused})] /\ crashes' \in Nat
  BY <1>2 DEF TypeInv, TypeOK
<1> QED
  BY <1>1, <1>2, <1>3, CallStep DEF Serving

\* A handler that moves on keeps its request.
LEMMA GotoType ==
    ASSUME TypeInv, NEW h \in Handlers, NEW pc \in {"decide", "precheck", "commit", "winner"},
           call[h].pc \in Serving \ {"reply"}, Goto(h, pc),
           pc = "decide" => command[call[h].request].body.action = "decide",
           pc \in {"precheck", "commit"} => command[call[h].request].body.action = "commit"
    PROVE  TypeInv'
<1> DEFINE c == [call[h] EXCEPT !.pc = pc]
<1>1. call[h] \in [pc: {"lookup", "decide", "precheck", "commit", "winner"}, request: Requests]
  BY DEF TypeInv, TypeOK, Calls, Idle, Serving
<1>2. c \in Calls /\ c.pc = pc /\ c.request = call[h].request
  BY <1>1 DEF Calls
<1>3. command[call[h].request] # None
  BY DEF TypeInv, ServesCommands
<1>4. /\ Busy(h, c)
      /\ UNCHANGED <<repository, review, draft, receipts, command, published>>
      /\ UNCHANGED <<answers, crashes>>
  BY DEF Goto, clients
<1> HIDE DEF c
<1>5. answers' \in [Requests -> SUBSET (Digests \cup {Refused})] /\ crashes' \in Nat
  BY <1>4 DEF TypeInv, TypeOK
<1> QED
  BY <1>2, <1>3, <1>4, <1>5, CallStep

\* A stored receipt answers a composed command with a digest.
LEMMA ReceiptShape ==
    ASSUME TypeOK, NEW r \in Requests, NEW x \in ReceiptsOf(r)
    PROVE  x \in receipts /\ x.result \in Digests /\ command[r] # None
BY DEF TypeOK, ReceiptsOf, Receipts

\* A reply with a digest is a call.
LEMMA ReplyCall ==
    ASSUME NEW r \in Requests, NEW d \in Digests
    PROVE  LET c == [pc |-> "reply", request |-> r, result |-> d]
           IN  c \in Calls /\ c.pc = "reply" /\ c.request = r
BY DEF Calls

\* The answer of a stored receipt is well typed.
LEMMA ResolveRetryType ==
    ASSUME TypeInv, NEW h \in Handlers, NEW r \in Requests, ResolveRetry(h, r)
    PROVE  TypeInv'
<1> PICK x \in ReceiptsOf(r) :
        IF SameCommand(x, r)
        THEN /\ Busy(h, [pc |-> "reply", request |-> r, result |-> x.result])
             /\ UNCHANGED <<repository, review, draft, receipts, clients, published>>
        ELSE Refuse(h, r)
  BY DEF ResolveRetry
<1>1. CASE SameCommand(x, r)
  <2> DEFINE c == [pc |-> "reply", request |-> r, result |-> x.result]
  <2>1. x.result \in Digests /\ command[r] # None
    BY ReceiptShape DEF TypeInv
  <2>2. c \in Calls /\ c.pc = "reply" /\ c.request = r
    BY <2>1, ReplyCall
  <2>3. /\ Busy(h, c)
        /\ UNCHANGED <<repository, review, draft, receipts, command, published>>
        /\ UNCHANGED <<answers, crashes>>
    BY <1>1 DEF clients
  <2> HIDE DEF c
  <2>4. answers' \in [Requests -> SUBSET (Digests \cup {Refused})] /\ crashes' \in Nat
    BY <2>3 DEF TypeInv, TypeOK
  <2> QED
    BY <2>1, <2>2, <2>3, <2>4, CallStep
<1>2. CASE ~SameCommand(x, r)
  BY <1>2, RefuseType
<1> QED
  BY <1>1, <1>2

\* A materialized Proposal is the one that was built.
LEMMA MaterializeType ==
    ASSUME TypeInv, NEW h \in Handlers, NEW t \in Transitions, Materialize(h, t)
    PROVE  TypeInv'
<1>1. call[h].built \in Proposals
  BY CallShape DEF Materialize, TypeInv
<1>2. Idle \in Calls /\ Idle.pc = "idle"
  BY DEF Idle, Calls
<1>3. /\ proposal[t] = None
      /\ proposal' = [proposal EXCEPT ![t] = call[h].built]
      /\ Busy(h, Idle)
      /\ UNCHANGED <<repository, observed, binding, draft, receipts, clients, published>>
  BY DEF Materialize
<1>4. call' \in [Handlers -> Calls]
  BY <1>2, <1>3, BusyType DEF TypeInv
<1>5. \A u \in Transitions : proposal[u] # None => proposal'[u] # None
  BY <1>3 DEF TypeInv, TypeOK
<1>6. ServesCommands'
  BY <1>2, <1>3, <1>5, ServesAfter DEF clients, Serving
<1> QED
  BY <1>1, <1>3, <1>4, <1>6 DEF TypeInv, TypeOK, repository, clients

\* A handler that found no receipt goes where its command asks.
LEMMA LookupType == ASSUME TypeInv, NEW h \in Handlers, Lookup(h) PROVE TypeInv'
<1> DEFINE r == call[h].request
<1>1. r \in Requests /\ call[h].pc \in Serving \ {"reply"} /\ command[r] # None
  BY CallShape DEF Lookup, Serving, TypeInv, ServesCommands
<1>2. command[r].body.action \in {"decide", "commit"}
  BY <1>1, CommandShape DEF TypeInv
<1>3. \/ Refuse(h, r)
      \/ ResolveRetry(h, r)
      \/ Goto(h, IF command[r].body.action = "decide" THEN "decide" ELSE "precheck")
  BY DEF Lookup
<1>4. CASE Goto(h, IF command[r].body.action = "decide" THEN "decide" ELSE "precheck")
  <2>1. CASE command[r].body.action = "decide"
    BY <1>1, <1>4, <2>1, GotoType
  <2>2. CASE command[r].body.action = "commit"
    BY <1>1, <1>4, <2>2, GotoType
  <2> QED
    BY <1>2, <2>1, <2>2
<1> QED
  BY <1>1, <1>3, <1>4, RefuseType, ResolveRetryType

\* The receipt of a composed command is a receipt.
LEMMA ReceiptType ==
    ASSUME TypeOK, NEW r \in Requests, command[r] # None, NEW d \in Digests
    PROVE  ReceiptFor(r, d) \in Receipts
<1>1. command[r].transition \in Transitions /\ command[r].body \in DecideBodies \cup CommitBodies
  BY CommandShape
<1>2. ActorOf[r] \in Actors
  BY LifecycleAssumption DEF LifecycleAssumption
<1> QED
  BY <1>1, <1>2 DEF ReceiptFor, Receipts

\* The facts a decision or a commit starts from.
LEMMA ServedFacts ==
    ASSUME TypeInv, NEW h \in Handlers, call[h].pc \in Serving
    PROVE  LET r == call[h].request
               t == command[r].transition
           IN  /\ r \in Requests
               /\ command[r] # None
               /\ t \in Transitions
               /\ proposal[t] # None
               /\ proposal[t] \in Proposals
               /\ observed[t] \in SUBSET Statements
               /\ ActorOf[r] \in Actors
<1>1. call[h].request \in Requests /\ command[call[h].request] # None
  BY CallShape DEF TypeInv, ServesCommands
<1>2. command[call[h].request].transition \in Transitions
  BY <1>1, CommandShape DEF TypeInv
<1>3. proposal[command[call[h].request].transition] # None
  BY <1>1 DEF TypeInv, ServesCommands
<1>4. ActorOf[call[h].request] \in Actors
  BY <1>1, LifecycleAssumption DEF LifecycleAssumption
<1> QED
  BY <1>1, <1>2, <1>3, <1>4 DEF TypeInv, TypeOK

\* A Decision, its grant and its receipt are well typed.
LEMMA DecideType == ASSUME TypeInv, NEW h \in Handlers, DecideTransaction(h) PROVE TypeInv'
<1> DEFINE r == call[h].request
           t == command[r].transition
           p == proposal[t]
           body == command[r].body
<1>1. /\ r \in Requests /\ command[r] # None /\ t \in Transitions
      /\ p \in Proposals /\ observed[t] \in SUBSET Statements /\ ActorOf[r] \in Actors
  BY ServedFacts DEF DecideTransaction, Serving
<1>2. call[h].pc = "decide"
  BY DEF DecideTransaction
<1>3. body \in DecideBodies
  BY <1>1, <1>2, CommandShape DEF TypeInv, ServesCommands
<1>4. CASE Refuse(h, r)
  BY <1>1, <1>4, RefuseType
<1>5. CASE Goto(h, "winner")
  BY <1>2, <1>5, GotoType DEF Serving
<1>6. CASE /\ ReviewCurrent(r)
           /\ \E d \in Digests :
                /\ ledger[d] = None
                /\ ledger' = [ledger EXCEPT ![d] =
                      [subject |-> SubjectOf(p), ref |-> p.ref, actor |-> ActorOf[r],
                       outcome |-> body.outcome, policy |-> body.policy,
                       evidence |-> observed[t]]]
                /\ grants' = IF body.outcome = "rejected" THEN grants
                             ELSE grants \cup {<<p.ref, d>>}
                /\ receipts' = receipts \cup {ReceiptFor(r, d)}
                /\ Busy(h, [pc |-> "reply", request |-> r, result |-> d])
           /\ UNCHANGED <<head, advances, review, draft, clients, published>>
  <2> PICK d \in Digests :
                /\ ledger' = [ledger EXCEPT ![d] =
                      [subject |-> SubjectOf(p), ref |-> p.ref, actor |-> ActorOf[r],
                       outcome |-> body.outcome, policy |-> body.policy,
                       evidence |-> observed[t]]]
                /\ grants' = IF body.outcome = "rejected" THEN grants
                             ELSE grants \cup {<<p.ref, d>>}
                /\ receipts' = receipts \cup {ReceiptFor(r, d)}
                /\ Busy(h, [pc |-> "reply", request |-> r, result |-> d])
    BY <1>6
  <2>1. body.policy \in Policies /\ body.outcome \in Outcomes
    BY <1>3, <1>6 DEF ReviewCurrent, DecideBodies
  <2>2. [subject |-> SubjectOf(p), ref |-> p.ref, actor |-> ActorOf[r],
         outcome |-> body.outcome, policy |-> body.policy, evidence |-> observed[t]] \in Decisions
    BY <1>1, <2>1 DEF Decisions, SubjectOf, Subjects, Proposals
  <2>3. ledger' \in [Digests -> Decisions \cup {None}]
    BY <2>2 DEF TypeInv, TypeOK
  <2>4. grants' \subseteq Refs \X Digests
    <3>1. grants \subseteq Refs \X Digests
      BY DEF TypeInv, TypeOK
    <3>2. <<p.ref, d>> \in Refs \X Digests
      BY <1>1 DEF Proposals
    <3>3. grants' = grants \/ grants' = grants \cup {<<p.ref, d>>}
      OBVIOUS
    <3> QED
      BY <3>1, <3>2, <3>3
  <2>5. receipts' \subseteq Receipts
    BY <1>1, ReceiptType DEF TypeInv, TypeOK
  <2> DEFINE c == [pc |-> "reply", request |-> r, result |-> d]
  <2>6. c \in Calls /\ c.pc = "reply" /\ c.request = r
    BY <1>1, ReplyCall
  <2>7. Busy(h, c)
    OBVIOUS
  <2> HIDE DEF c
  <2>8. call' \in [Handlers -> Calls]
    BY <2>6, <2>7, BusyType DEF TypeInv
  <2>9. ServesCommands'
    BY <1>1, <1>6, <2>6, <2>7, ServesAfter DEF review, clients
  <2> QED
    BY <1>6, <2>3, <2>4, <2>5, <2>8, <2>9 DEF TypeInv, TypeOK, review, clients
<1> QED
  BY <1>4, <1>5, <1>6 DEF DecideTransaction

\* The precheck only moves its handler.
LEMMA PrecheckType == ASSUME TypeInv, NEW h \in Handlers, CommitPrecheck(h) PROVE TypeInv'
<1>1. call[h].pc = "precheck" /\ call[h].request \in Requests
  BY CallShape DEF CommitPrecheck, TypeInv, Serving
<1>2. command[call[h].request].body.action = "commit"
  BY <1>1 DEF TypeInv, ServesCommands
<1> QED
  BY <1>1, <1>2, RefuseType, GotoType DEF CommitPrecheck, Serving

\* Advancing a ref keeps the types of the heads and of the events.
LEMMA AdvanceType ==
    ASSUME TypeOK, NEW ref \in Refs, NEW e \in Commits, NEW d \in Digests, Advance(ref, e, d)
    PROVE  /\ head' \in [Refs -> Commits]
           /\ advances' \in [Refs -> Seq([previous: Commits, head: Digests])]
<1> DEFINE E == [previous: Commits, head: Digests]
<1>1. [previous |-> e, head |-> d] \in E
  OBVIOUS
<1>2. advances[ref] \in Seq(E)
  BY DEF TypeOK
<1> HIDE DEF E
<1>3. Append(advances[ref], [previous |-> e, head |-> d]) \in Seq(E)
  BY <1>1, <1>2
<1>4. advances' \in [Refs -> Seq(E)]
  BY <1>3 DEF Advance, TypeOK, E
<1> QED
  BY <1>4 DEF Advance, TypeOK, Commits, E

\* A Workspace that follows its ref stays a Workspace.
LEMMA CleanFollowType ==
    ASSUME TypeOK, NEW sync, NEW ref, NEW d \in Digests
    PROVE  CleanFollow(sync, ref, d) \in [Workspaces -> Drafts]
<1>1. ASSUME NEW w \in Workspaces PROVE [draft[w] EXCEPT !.revision = @ + 1, !.base = d] \in Drafts
  <2>1. draft[w] \in Drafts /\ draft[w].revision + 1 \in Nat
    BY DEF TypeOK, Drafts
  <2>2. d \in Commits
    BY DEF Commits
  <2> QED
    BY <2>1, <2>2 DEF Drafts
<1>2. \A w \in Workspaces : draft[w] \in Drafts
  BY DEF TypeOK
<1> QED
  BY <1>1, <1>2 DEF CleanFollow

\* Renewed Workspaces are Workspaces.
LEMMA RenewType ==
    ASSUME TypeOK, NEW p \in Proposals, NEW d \in Digests, NEW sync, RenewDrafts(p, d, sync)
    PROVE  draft' \in [Workspaces -> Drafts]
<1> DEFINE follow == CleanFollow(sync, p.ref, d)
           renewed == [revision |-> draft[p.workspace].revision + 1, base |-> d,
                       content |-> {}, marked |-> {}]
<1>1. follow \in [Workspaces -> Drafts]
  BY CleanFollowType
<1>2. renewed \in Drafts
  <2>1. draft[p.workspace] \in Drafts /\ draft[p.workspace].revision + 1 \in Nat
    BY DEF TypeOK, Proposals, Drafts
  <2> QED
    BY <2>1 DEF Drafts, Commits
<1>3. draft' = [follow EXCEPT ![p.workspace] = renewed]
  BY DEF RenewDrafts
<1> HIDE DEF follow, renewed
<1> QED
  BY <1>1, <1>2, <1>3

\* A commit and everything its transaction writes are well typed.
LEMMA CommitType == ASSUME TypeInv, NEW h \in Handlers, CommitTransaction(h) PROVE TypeInv'
<1> DEFINE r == call[h].request
           p == proposal[command[r].transition]
           d == command[r].body.decision
           expectedHead == command[r].body.expectedHead
<1>1. r \in Requests /\ command[r] # None /\ p \in Proposals
  BY ServedFacts DEF CommitTransaction, Serving
<1>2. call[h].pc = "commit"
  BY DEF CommitTransaction
<1>3. command[r].body \in CommitBodies
  BY <1>1, <1>2, CommandShape DEF TypeInv, ServesCommands
<1>4. d \in Digests /\ expectedHead \in Commits
  BY <1>3 DEF CommitBodies
<1>5. CASE Refuse(h, r)
  BY <1>1, <1>5, RefuseType
<1>6. CASE Goto(h, "winner")
  BY <1>2, <1>6, GotoType DEF Serving
<1>7. CASE /\ Advance(p.ref, expectedHead, d)
           /\ \E sync \in CommitSyncs : RenewDrafts(p, d, sync)
           /\ receipts' = receipts \cup {ReceiptFor(r, d)}
           /\ Busy(h, [pc |-> "reply", request |-> r, result |-> d])
           /\ UNCHANGED <<grants, ledger, review, clients, published>>
  <2>1. p.ref \in Refs
    BY <1>1 DEF Proposals
  <2>2. /\ head' \in [Refs -> Commits]
        /\ advances' \in [Refs -> Seq([previous: Commits, head: Digests])]
    BY <1>4, <1>7, <2>1, AdvanceType DEF TypeInv
  <2>3. draft' \in [Workspaces -> Drafts]
    <3>1. PICK sync \in CommitSyncs : RenewDrafts(p, d, sync)
      BY <1>7
    <3> HIDE DEF p, d
    <3> QED
      BY <1>1, <1>4, <3>1, RenewType DEF TypeInv
  <2>4. receipts' \subseteq Receipts
    BY <1>1, <1>4, <1>7, ReceiptType DEF TypeInv, TypeOK
  <2> DEFINE c == [pc |-> "reply", request |-> r, result |-> d]
  <2>5. c \in Calls /\ c.pc = "reply" /\ c.request = r
    BY <1>1, <1>4, ReplyCall
  <2>6. Busy(h, c)
    BY <1>7
  <2> HIDE DEF c
  <2>7. call' \in [Handlers -> Calls]
    BY <2>5, <2>6, BusyType DEF TypeInv
  <2>8. ServesCommands'
    BY <1>1, <1>7, <2>5, <2>6, ServesAfter DEF review, clients
  <2> QED
    BY <1>7, <2>2, <2>3, <2>4, <2>7, <2>8 DEF TypeInv, TypeOK, review, clients
<1> QED
  BY <1>5, <1>6, <1>7 DEF CommitTransaction

\* The winner's result is an answer.
LEMMA WinnerType == ASSUME TypeInv, NEW h \in Handlers, ResolveWinner(h) PROVE TypeInv'
<1>1. call[h].request \in Requests
  BY CallShape DEF ResolveWinner, TypeInv, Serving
<1> QED
  BY <1>1, ResolveRetryType, RefuseType DEF ResolveWinner

\* A reply ends a call.
LEMMA ReplyType == ASSUME TypeInv, NEW h \in Handlers, Reply(h) PROVE TypeInv'
<1>1. call[h].request \in Requests /\ call[h].result \in Digests
  BY CallShape DEF Reply, TypeInv, Serving
<1>2. /\ Busy(h, Idle)
      /\ answers' = [answers EXCEPT ![call[h].request] = @ \cup {call[h].result}]
      /\ UNCHANGED <<repository, review, draft, receipts, command, published, crashes>>
  BY DEF Reply, Answer
<1>3. answers' \in [Requests -> SUBSET (Digests \cup {Refused})] /\ crashes' \in Nat
  BY <1>1, <1>2 DEF TypeInv, TypeOK
<1>4. Idle \in Calls /\ Idle.pc = "idle"
  BY DEF Idle, Calls
<1> QED
  BY <1>2, <1>3, <1>4, CallStep DEF Serving

\* A crash ends a call.
LEMMA CrashType == ASSUME TypeInv, NEW h \in Handlers, Crash(h) PROVE TypeInv'
<1>1. /\ Busy(h, Idle)
      /\ crashes' = crashes + 1
      /\ UNCHANGED <<repository, review, draft, receipts, command, answers, published>>
  BY DEF Crash
<1>2. answers' \in [Requests -> SUBSET (Digests \cup {Refused})] /\ crashes' \in Nat
  BY <1>1 DEF TypeInv, TypeOK
<1>3. Idle \in Calls /\ Idle.pc = "idle"
  BY DEF Idle, Calls
<1> QED
  BY <1>1, <1>2, <1>3, CallStep DEF Serving

\* What a writer has read is well typed.
LEMMA PrepareWriteType ==
    ASSUME TypeInv, NEW h \in Handlers, NEW ref \in Refs, NEW a \in Writers,
           NEW sync \in CommitSyncs, PrepareWrite(h, ref, a, sync)
    PROVE  TypeInv'
<1> DEFINE c == [pc |-> "write", ref |-> ref, actor |-> a, expectedHead |-> head[ref],
                 expected |-> binding[ref], sync |-> sync]
<1>1. a \in Actors /\ sync \in SUBSET Workspaces
  BY LifecycleAssumption DEF LifecycleAssumption
<1>2. c \in Calls /\ c.pc = "write"
  BY <1>1 DEF Calls, TypeInv, TypeOK
<1>3. /\ Busy(h, c)
      /\ UNCHANGED <<repository, review, draft, receipts, command, published>>
      /\ UNCHANGED <<answers, crashes>>
  BY DEF PrepareWrite, clients
<1> HIDE DEF c
<1>4. answers' \in [Requests -> SUBSET (Digests \cup {Refused})] /\ crashes' \in Nat
  BY <1>3 DEF TypeInv, TypeOK
<1> QED
  BY <1>2, <1>3, <1>4, CallStep DEF Serving

\* The transaction of a writer is well typed.
LEMMA WriteType == ASSUME TypeInv, NEW h \in Handlers, WriteTransaction(h) PROVE TypeInv'
<1> DEFINE c == call[h]
           policy == IF c.expected = NoPolicy THEN WriterPolicy ELSE c.expected
<1>1. /\ c.ref \in Refs /\ c.actor \in Actors /\ c.expectedHead \in Commits
      /\ c.expected \in Policies \cup {NoPolicy}
  BY CallShape DEF WriteTransaction, TypeInv
<1>2. policy \in Policies /\ WriterEvidence \in SUBSET Statements
  BY <1>1, LifecycleAssumption DEF LifecycleAssumption
<1>3. Busy(h, Idle) /\ UNCHANGED <<review, receipts, clients, published>>
  BY DEF WriteTransaction
<1>4. Idle \in Calls /\ Idle.pc = "idle"
  BY DEF Idle, Calls
<1>5. call' \in [Handlers -> Calls]
  BY <1>3, <1>4, BusyType DEF TypeInv
<1>6. ServesCommands'
  BY <1>3, <1>4, ServesAfter DEF review, clients, Serving
<1>7. /\ head' \in [Refs -> Commits]
      /\ advances' \in [Refs -> Seq([previous: Commits, head: Digests])]
      /\ ledger' \in [Digests -> Decisions \cup {None}]
      /\ grants' \subseteq Refs \X Digests
      /\ draft' \in [Workspaces -> Drafts]
  <2>1. CASE UNCHANGED <<repository, draft>>
    BY <2>1 DEF repository, TypeInv, TypeOK
  <2>2. ASSUME NEW d \in Digests,
               ledger' = [ledger EXCEPT ![d] =
                   [subject |-> [base |-> c.expectedHead, content |-> {}, actor |-> c.actor],
                    ref |-> c.ref, actor |-> c.actor, outcome |-> "accepted",
                    policy |-> policy, evidence |-> WriterEvidence]],
               grants' = grants \cup {<<c.ref, d>>},
               Advance(c.ref, c.expectedHead, d),
               draft' = CleanFollow(c.sync, c.ref, d)
        PROVE  <1>7!:
    <3>1. [subject |-> [base |-> c.expectedHead, content |-> {}, actor |-> c.actor],
           ref |-> c.ref, actor |-> c.actor, outcome |-> "accepted",
           policy |-> policy, evidence |-> WriterEvidence] \in Decisions
      BY <1>1, <1>2 DEF Decisions, Subjects, Outcomes
    <3>2. ledger' \in [Digests -> Decisions \cup {None}]
      BY <2>2, <3>1 DEF TypeInv, TypeOK
    <3>3. grants' \subseteq Refs \X Digests
      BY <1>1, <2>2 DEF TypeInv, TypeOK
    <3>4. draft' \in [Workspaces -> Drafts]
      BY <2>2, CleanFollowType DEF TypeInv
    <3> QED
      BY <1>1, <2>2, <3>2, <3>3, <3>4, AdvanceType DEF TypeInv
  <2> QED
    BY <2>1, <2>2 DEF WriteTransaction
<1> QED
  BY <1>3, <1>5, <1>6, <1>7 DEF TypeInv, TypeOK, review, clients

\* A planned rule is well typed.
LEMMA PlanRuleType ==
    ASSUME TypeInv, NEW h \in Handlers, NEW ref \in Refs, NEW flag \in RuleChanges,
           PlanRule(h, ref, flag)
    PROVE  TypeInv'
<1> DEFINE c == [pc |-> "rule", ref |-> ref, policy |-> BranchRule(binding[ref], flag)]
<1>1. flag \in BOOLEAN /\ binding[ref] \in Policies \cup {NoPolicy}
  BY LifecycleAssumption DEF LifecycleAssumption, TypeInv, TypeOK
<1>2. BranchRule(binding[ref], flag) \in Policies \cup {NoPolicy}
  BY <1>1, BranchRuleType
<1>3. c \in Calls /\ c.pc = "rule"
  BY <1>2 DEF Calls
<1>4. /\ Busy(h, c)
      /\ UNCHANGED <<repository, review, draft, receipts, command, published>>
      /\ UNCHANGED <<answers, crashes>>
  BY DEF PlanRule, clients
<1> HIDE DEF c
<1>5. answers' \in [Requests -> SUBSET (Digests \cup {Refused})] /\ crashes' \in Nat
  BY <1>4 DEF TypeInv, TypeOK
<1> QED
  BY <1>3, <1>4, <1>5, CallStep DEF Serving

\* A written rule is the planned one.
LEMMA WriteRuleType == ASSUME TypeInv, NEW h \in Handlers, WriteRule(h) PROVE TypeInv'
<1>1. call[h].ref \in Refs /\ call[h].policy \in Policies \cup {NoPolicy}
  BY CallShape DEF WriteRule, TypeInv
<1>2. Idle \in Calls /\ Idle.pc = "idle"
  BY DEF Idle, Calls
<1>3. call' \in [Handlers -> Calls]
  BY <1>2, BusyType DEF WriteRule, TypeInv
<1>4. ServesCommands'
  BY <1>2, ServesAfter DEF WriteRule, clients, Serving
<1> QED
  BY <1>1, <1>3, <1>4 DEF WriteRule, TypeInv, TypeOK, repository, clients

\* Every step of a handler keeps TypeInv, by the lemma of its action.
LEMMA HandlerType == ASSUME TypeInv, NEW h \in Handlers, HandlerStep(h) PROVE TypeInv'
BY MaterializeType, LookupType, DecideType, PrecheckType, CommitType, WinnerType, ReplyType,
   WriteType, WriteRuleType
DEF HandlerStep

\* Stuttering keeps TypeInv.
LEMMA StutterType == ASSUME TypeInv, UNCHANGED vars PROVE TypeInv'
BY DEF TypeInv, TypeOK, ServesCommands, vars

\* Every step keeps TypeInv.
LEMMA NextType == ASSUME TypeInv, [Next]_vars PROVE TypeInv'
BY WorkspaceType, ReviewType, ClientType, HandlerType, CrashType, PrepareWriteType, PlanRuleType,
   StutterType
DEF Next

\* Every variable keeps its type, and a handler only ever serves a command that
\* was composed on a Proposal that exists, for every number of handlers,
\* clients, Workspaces and refs (the dispatch of decideTransition and
\* commitTransition after their receipt lookup).
THEOREM TypeCorrect == Spec => [](TypeOK /\ ServesCommands)
<1>1. Init => TypeInv
  BY InitType
<1>2. TypeInv /\ [Next]_vars => TypeInv'
  BY NextType
<1> QED
  BY <1>1, <1>2, PTL DEF Spec, TypeInv

(***************************************************************************)
(* The history of every ref is one chain of authorized commits, for all    *)
(* values of the constants of TransitionLifecycle.                         *)
(*                                                                         *)
(* Neither LinearHistory nor AuthorizedHistory is inductive: a commit that *)
(* enters the history was checked by a handler that read outside the       *)
(* transaction. HistoryInv adds what stays true between that read and the  *)
(* transaction, since Decisions, Proposals and composed commands are never *)
(* changed, and what keeps a commit from entering the history twice: its   *)
(* Decision names the parent, and a parent has one child.                  *)
(***************************************************************************)

\* Every Decision in the ledger is permitted by the policy it names.
LedgerSound ==
    \A d \in Digests : ledger[d] # None =>
        Permitted(ledger[d].policy, Claim, ledger[d].subject.actor, ledger[d].evidence,
                  ledger[d].actor, ledger[d].outcome)

\* Only Decisions that are not rejections are granted, for the ref they were made for.
GrantsSound ==
    \A ref \in Refs, d \in Digests : <<ref, d>> \in grants =>
        ledger[d] # None /\ ledger[d].ref = ref /\ ledger[d].outcome # "rejected"

\* The events of a ref lead from the empty ref to its head.
Chained ==
    \A ref \in Refs :
        /\ head[ref] = IF advances[ref] = <<>> THEN None ELSE advances[ref][Len(advances[ref])].head
        /\ \A i \in 1 .. Len(advances[ref]) :
              advances[ref][i].previous = IF i = 1 THEN None ELSE advances[ref][i - 1].head

\* Every commit is granted, and its Decision names its parent.
EntriesGranted ==
    \A ref \in Refs : \A i \in 1 .. Len(advances[ref]) :
        LET e == advances[ref][i]
        IN  <<ref, e.head>> \in grants /\ ledger[e.head].subject.base = e.previous

\* No commit occurs twice in the history of a ref.
HeadsDistinct ==
    \A ref \in Refs : \A i, j \in 1 .. Len(advances[ref]) :
        advances[ref][i].head = advances[ref][j].head => i = j

\* A handler that is about to commit has checked its Decision against the Proposal.
CommitsChecked ==
    \A h \in Handlers : call[h].pc = "commit" =>
        LET body == command[call[h].request].body
            p == proposal[command[call[h].request].transition]
        IN  /\ ledger[body.decision] # None
            /\ ledger[body.decision].subject = SubjectOf(p)
            /\ body.expectedHead = p.refHead

HistoryInv ==
    LedgerSound /\ GrantsSound /\ Chained /\ EntriesGranted /\ HeadsDistinct /\ CommitsChecked

IndInv == TypeInv /\ HistoryInv

(***************************************************************************)
(* Consequences of the invariant.                                          *)
(***************************************************************************)
\* The domain and the members of the events of a ref.
LEMMA EventShape ==
    ASSUME TypeOK, NEW ref \in Refs
    PROVE  /\ Len(advances[ref]) \in Nat
           /\ DOMAIN advances[ref] = 1 .. Len(advances[ref])
           /\ advances[ref] = <<>> <=> Len(advances[ref]) = 0
           /\ \A i \in 1 .. Len(advances[ref]) :
                 /\ advances[ref][i].previous \in Commits
                 /\ advances[ref][i].head \in Digests
<1> DEFINE E == [previous: Commits, head: Digests]
<1>1. advances[ref] \in Seq(E)
  BY DEF TypeOK
<1> HIDE DEF E
<1>2. /\ Len(advances[ref]) \in Nat
      /\ DOMAIN advances[ref] = 1 .. Len(advances[ref])
      /\ \A i \in 1 .. Len(advances[ref]) : advances[ref][i] \in E
  BY <1>1
<1>3. advances[ref] = <<>> <=> Len(advances[ref]) = 0
  BY <1>1, EmptySeq
<1> QED
  BY <1>2, <1>3 DEF E

\* None is not the digest of a Decision.
LEMMA NoneIsNoDigest == None \notin Digests
BY LifecycleAssumption DEF LifecycleAssumption

\* A chain in which no head is repeated is linear: no parent has two children.
LEMMA ChainedIsLinear == ASSUME TypeOK, Chained, HeadsDistinct PROVE LinearHistory
<1> SUFFICES ASSUME NEW ref \in Refs
             PROVE  LET log == advances[ref]
                    IN  /\ head[ref] = IF log = <<>> THEN None ELSE log[Len(log)].head
                        /\ \A i \in DOMAIN log :
                              log[i].previous = IF i = 1 THEN None ELSE log[i - 1].head
                        /\ \A i, j \in DOMAIN log : log[i].previous = log[j].previous => i = j
  BY DEF LinearHistory
<1> DEFINE log == advances[ref]
<1>1. Len(log) \in Nat /\ DOMAIN log = 1 .. Len(log) /\ \A i \in 1 .. Len(log) : log[i].head \in Digests
  BY EventShape
<1>2. \A i \in DOMAIN log : log[i].previous = IF i = 1 THEN None ELSE log[i - 1].head
  BY <1>1 DEF Chained
<1>3. ASSUME NEW i \in DOMAIN log, NEW j \in DOMAIN log, log[i].previous = log[j].previous
      PROVE  i = j
  <2>1. \A k \in DOMAIN log : k # 1 => k - 1 \in 1 .. Len(log) /\ log[k].previous = log[k - 1].head
    BY <1>1, <1>2
  <2>2. (i = 1) <=> (j = 1)
    BY <1>1, <1>2, <1>3, <2>1, NoneIsNoDigest
  <2>3. CASE i # 1 /\ j # 1
    <3>1. i - 1 = j - 1
      BY <1>3, <2>1, <2>3 DEF HeadsDistinct
    <3> QED
      BY <1>1, <3>1
  <2> QED
    BY <2>2, <2>3
<1> QED
  BY <1>2, <1>3 DEF Chained

\* What IndInv says of grants and of events is what AuthorizedHistory asks.
LEMMA GrantedIsAuthorized ==
    ASSUME TypeOK, LedgerSound, GrantsSound, EntriesGranted PROVE AuthorizedHistory
<1> SUFFICES ASSUME NEW ref \in Refs, NEW i \in DOMAIN advances[ref]
             PROVE  LET e == advances[ref][i]
                        d == ledger[e.head]
                    IN  /\ d # None
                        /\ <<ref, e.head>> \in grants
                        /\ d.ref = ref
                        /\ d.subject.base = e.previous
                        /\ d.outcome # "rejected"
                        /\ Permitted(d.policy, Claim, d.subject.actor, d.evidence, d.actor, d.outcome)
  BY DEF AuthorizedHistory
<1>1. i \in 1 .. Len(advances[ref]) /\ advances[ref][i].head \in Digests
  BY EventShape
<1> QED
  BY <1>1 DEF LedgerSound, GrantsSound, EntriesGranted

\* A granted commit whose Decision names the current head as its parent is in
\* the history of no ref: its parent would have had another child already.
LEMMA NotYetCommitted ==
    ASSUME IndInv, NEW ref \in Refs, NEW d \in Digests,
           <<ref, d>> \in grants, ledger[d].subject.base = head[ref],
           NEW other \in Refs, NEW i \in 1 .. Len(advances[other])
    PROVE  advances[other][i].head # d
<1> USE DEF IndInv, TypeInv, HistoryInv
<1> SUFFICES ASSUME advances[other][i].head = d PROVE FALSE
  OBVIOUS
<1> DEFINE log == advances[ref]
<1>1. other = ref
  <2>1. <<other, d>> \in grants
    BY DEF EntriesGranted
  <2> QED
    BY <2>1 DEF GrantsSound
<1>2. /\ Len(log) \in Nat /\ i \in 1 .. Len(log) /\ log # <<>>
      /\ \A k \in 1 .. Len(log) : log[k].head \in Digests
  BY <1>1, EventShape
<1>3. log[i].previous = log[Len(log)].head
  BY <1>1, <1>2 DEF EntriesGranted, Chained
<1>4. i # 1
  BY <1>1, <1>2, <1>3, NoneIsNoDigest DEF Chained
<1>5. i - 1 \in 1 .. Len(log) /\ log[i - 1].head = log[Len(log)].head
  BY <1>1, <1>2, <1>3, <1>4 DEF Chained
<1>6. i - 1 = Len(log)
  BY <1>2, <1>5 DEF HeadsDistinct
<1> QED
  BY <1>2, <1>6

(***************************************************************************)
(* Steps that leave the repository alone.                                  *)
(***************************************************************************)
\* What a handler has checked stays true as long as it stays at its commit.
LEMMA CheckedStable ==
    ASSUME IndInv,
           \A g \in Handlers : call'[g].pc = "commit" => call'[g] = call[g],
           \A r \in Requests : command[r] # None => command'[r] = command[r],
           \A t \in Transitions : proposal[t] # None => proposal'[t] = proposal[t],
           \A d \in Digests : ledger[d] # None => ledger'[d] = ledger[d]
    PROVE  CommitsChecked'
<1> SUFFICES ASSUME NEW h \in Handlers, call'[h].pc = "commit"
             PROVE  LET body == command'[call'[h].request].body
                        p == proposal'[command'[call'[h].request].transition]
                    IN  /\ ledger'[body.decision] # None
                        /\ ledger'[body.decision].subject = SubjectOf(p)
                        /\ body.expectedHead = p.refHead
  BY DEF CommitsChecked, SubjectOf
<1> DEFINE r == call[h].request
           t == command[r].transition
<1>1. call'[h] = call[h] /\ call[h].pc = "commit"
  OBVIOUS
<1>2. r \in Requests /\ command[r] # None /\ t \in Transitions /\ proposal[t] # None
  BY <1>1, ServedFacts DEF IndInv, Serving
<1>3. command[r].body \in CommitBodies
  BY <1>1, <1>2, CommandShape DEF IndInv, TypeInv, ServesCommands
<1>4. command[r].body.decision \in Digests
  BY <1>3 DEF CommitBodies
<1>5. /\ ledger[command[r].body.decision] # None
      /\ ledger[command[r].body.decision].subject = SubjectOf(proposal[t])
      /\ command[r].body.expectedHead = proposal[t].refHead
  BY <1>1 DEF IndInv, HistoryInv, CommitsChecked
<1>6. call'[h].request = r /\ command'[r] = command[r] /\ proposal'[t] = proposal[t]
  BY <1>1, <1>2
<1>7. ledger'[command[r].body.decision] = ledger[command[r].body.decision]
  BY <1>4, <1>5
<1> HIDE DEF r, t
<1> QED
  BY <1>5, <1>6, <1>7 DEF t

\* A step that leaves the repository and the calls alone.
LEMMA QuietStep ==
    ASSUME IndInv, UNCHANGED repository, CommitsChecked' PROVE HistoryInv'
<1>1. UNCHANGED <<head, advances, ledger, grants>> /\ HistoryInv
  BY DEF IndInv, repository
<1>2. LedgerSound' /\ GrantsSound'
  BY <1>1 DEF HistoryInv, LedgerSound, GrantsSound
<1>3. Chained'
  BY <1>1 DEF HistoryInv, Chained
<1>4. EntriesGranted'
  BY <1>1 DEF HistoryInv, EntriesGranted
<1>5. HeadsDistinct'
  BY <1>1 DEF HistoryInv, HeadsDistinct
<1> QED
  BY <1>2, <1>3, <1>4, <1>5 DEF HistoryInv

\* A handler moves, though not to a commit.
LEMMA QuietCall ==
    ASSUME IndInv, NEW h \in Handlers, NEW c \in Calls, c.pc # "commit", Busy(h, c),
           UNCHANGED repository, UNCHANGED command,
           \A t \in Transitions : proposal[t] # None => proposal'[t] = proposal[t]
    PROVE  HistoryInv'
<1>1. \A g \in Handlers : call'[g].pc = "commit" => call'[g] = call[g]
  BY BusyType DEF IndInv, TypeInv
<1> QED
  BY <1>1, CheckedStable, QuietStep DEF repository

\* Authors do not touch the repository.
LEMMA WorkspaceHistory == ASSUME IndInv, WorkspaceStep PROVE HistoryInv'
<1>1. UNCHANGED <<repository, review, receipts, clients, call>>
  BY DEF WorkspaceStep, Publish, TouchDraft, Reconcile, Discard
<1> QED
  BY <1>1, CheckedStable, QuietStep DEF repository, review, clients

\* Reviewers and administrators only add to a review or change a binding.
LEMMA ReviewHistory == ASSUME IndInv, ReviewStep PROVE HistoryInv'
<1>1. CASE \E h \in Handlers, w \in Workspaces, a \in Proposers : PrepareReview(h, w, a)
  <2> PICK h \in Handlers, w \in Workspaces, a \in Proposers : PrepareReview(h, w, a)
    BY <1>1
  <2>1. PICK c : c.pc = "materialize" /\ call' = [call EXCEPT ![h] = c]
    BY DEF PrepareReview, Busy
  <2>2. UNCHANGED <<repository, review, clients>>
    BY DEF PrepareReview
  <2>3. \A g \in Handlers : call'[g].pc = "commit" => call'[g] = call[g]
    BY <2>1 DEF IndInv, TypeInv, TypeOK
  <2> QED
    BY <2>2, <2>3, CheckedStable, QuietStep DEF repository, review, clients
<1>2. CASE \/ \E t \in Transitions, s \in Evidence : RecordStatement(t, s)
           \/ \E ref \in Refs :
                 UnbindPolicy(ref) \/ \E policy \in BindablePolicies : BindPolicy(ref, policy)
  <2>1. UNCHANGED <<repository, proposal, clients, call>>
    BY <1>2 DEF RecordStatement, UnbindPolicy, BindPolicy
  <2> QED
    BY <2>1, CheckedStable, QuietStep DEF repository, clients
<1> QED
  BY <1>1, <1>2 DEF ReviewStep

\* Composing and delivering commands leaves the repository alone.
LEMMA ClientHistory == ASSUME IndInv, ClientStep PROVE HistoryInv'
<1> PICK r \in Requests :
           \/ \E t \in Transitions, outcome \in AskedOutcomes : ComposeDecision(r, t, outcome)
           \/ \E t \in Transitions, d \in Digests, e \in {head[ref] : ref \in Refs} \cup {None} :
                 ComposeCommit(r, t, d, e)
           \/ \E h \in Handlers : Deliver(h, r)
  BY DEF ClientStep
<1>1. ASSUME NEW t, NEW body, Compose(r, t, body) PROVE HistoryInv'
  <2>1. \A q \in Requests : command[q] # None => command'[q] = command[q]
    BY <1>1 DEF Compose, IndInv, TypeInv, TypeOK
  <2>2. UNCHANGED <<repository, review, call>>
    BY <1>1 DEF Compose
  <2> QED
    BY <2>1, <2>2, CheckedStable, QuietStep DEF repository, review
<1>2. CASE \E h \in Handlers : Deliver(h, r)
  <2> PICK h \in Handlers : Deliver(h, r)
    BY <1>2
  <2> DEFINE c == [pc |-> "lookup", request |-> r]
  <2>1. c \in Calls /\ c.pc # "commit"
    BY DEF Calls
  <2>2. Busy(h, c) /\ UNCHANGED <<repository, review, clients>>
    BY DEF Deliver
  <2> HIDE DEF c
  <2> QED
    BY <2>1, <2>2, QuietCall DEF review, clients
<1> QED
  BY <1>1, <1>2 DEF ComposeDecision, ComposeCommit

\* A refusal leaves the repository alone.
LEMMA RefuseHistory ==
    ASSUME IndInv, NEW h \in Handlers, NEW r \in Requests, Refuse(h, r) PROVE HistoryInv'
<1>1. Idle \in Calls /\ Idle.pc # "commit"
  BY DEF Idle, Calls
<1>2. Busy(h, Idle) /\ UNCHANGED <<repository, review, command>>
  BY DEF Refuse, Answer
<1> QED
  BY <1>1, <1>2, QuietCall DEF review

\* A handler moves on with its command, though not to a commit.
LEMMA GotoHistory ==
    ASSUME IndInv, NEW h \in Handlers, NEW pc \in {"decide", "precheck", "winner"},
           call[h].pc \in Serving \ {"reply"}, Goto(h, pc)
    PROVE  HistoryInv'
<1> DEFINE c == [call[h] EXCEPT !.pc = pc]
<1>1. call[h] \in [pc: {"lookup", "decide", "precheck", "commit", "winner"}, request: Requests]
  BY DEF IndInv, TypeInv, TypeOK, Calls, Idle, Serving
<1>2. c \in Calls /\ c.pc # "commit"
  BY <1>1 DEF Calls
<1>3. Busy(h, c) /\ UNCHANGED <<repository, review, clients>>
  BY DEF Goto
<1> HIDE DEF c
<1> QED
  BY <1>2, <1>3, QuietCall DEF review, clients

\* The answer of a stored receipt leaves the repository alone.
LEMMA ResolveRetryHistory ==
    ASSUME IndInv, NEW h \in Handlers, NEW r \in Requests, ResolveRetry(h, r) PROVE HistoryInv'
<1> PICK x \in ReceiptsOf(r) :
        IF SameCommand(x, r)
        THEN /\ Busy(h, [pc |-> "reply", request |-> r, result |-> x.result])
             /\ UNCHANGED <<repository, review, draft, receipts, clients, published>>
        ELSE Refuse(h, r)
  BY DEF ResolveRetry
<1>1. CASE SameCommand(x, r)
  <2> DEFINE c == [pc |-> "reply", request |-> r, result |-> x.result]
  <2>1. x.result \in Digests
    BY ReceiptShape DEF IndInv, TypeInv
  <2>2. c \in Calls /\ c.pc # "commit"
    BY <2>1, ReplyCall
  <2>3. Busy(h, c) /\ UNCHANGED <<repository, review, clients>>
    BY <1>1
  <2> HIDE DEF c
  <2> QED
    BY <2>2, <2>3, QuietCall DEF review, clients
<1>2. CASE ~SameCommand(x, r)
  BY <1>2, RefuseHistory
<1> QED
  BY <1>1, <1>2

\* A handler that looks its receipt up has checked nothing yet.
LEMMA LookupHistory == ASSUME IndInv, NEW h \in Handlers, Lookup(h) PROVE HistoryInv'
<1>1. call[h].request \in Requests /\ call[h].pc \in Serving \ {"reply"}
  BY CallShape DEF Lookup, IndInv, TypeInv, Serving
<1>2. \/ Refuse(h, call[h].request)
      \/ ResolveRetry(h, call[h].request)
      \/ Goto(h, "decide")
      \/ Goto(h, "precheck")
  BY DEF Lookup
<1> QED
  BY <1>1, <1>2, RefuseHistory, ResolveRetryHistory, GotoHistory

\* The step that establishes what the commit relies on.
LEMMA PrecheckHistory == ASSUME IndInv, NEW h \in Handlers, CommitPrecheck(h) PROVE HistoryInv'
<1> DEFINE r == call[h].request
<1>1. call[h].pc = "precheck" /\ r \in Requests
  BY CallShape DEF CommitPrecheck, IndInv, TypeInv, Serving
<1>2. CASE Refuse(h, r)
  BY <1>1, <1>2, RefuseHistory
<1>3. CASE Precheckable(r) /\ Goto(h, "commit")
  <2>1. call' = [call EXCEPT ![h] = [call[h] EXCEPT !.pc = "commit"]]
        /\ UNCHANGED <<repository, review, clients>>
    BY <1>3 DEF Goto, Busy
  <2>2. call[h] \in [pc: {"precheck"}, request: Requests]
    BY <1>1 DEF IndInv, TypeInv, TypeOK, Calls, Idle
  <2>3. call'[h].request = r /\ \A g \in Handlers \ {h} : call'[g] = call[g]
    BY <2>1, <2>2 DEF IndInv, TypeInv, TypeOK
  <2>4. LET body == command[r].body
            p == proposal[command[r].transition]
        IN  /\ ledger[body.decision] # None
            /\ ledger[body.decision].subject = SubjectOf(p)
            /\ body.expectedHead = p.refHead
    BY <1>3 DEF Precheckable, ExpectsProposalHead
  <2>5. UNCHANGED <<ledger, command, proposal>>
    BY <2>1 DEF repository, review, clients
  <2>6. CommitsChecked'
    <3> SUFFICES ASSUME NEW g \in Handlers, call'[g].pc = "commit"
                 PROVE  LET body == command[call'[g].request].body
                            p == proposal[command[call'[g].request].transition]
                        IN  /\ ledger[body.decision] # None
                            /\ ledger[body.decision].subject = SubjectOf(p)
                            /\ body.expectedHead = p.refHead
      BY <2>5 DEF CommitsChecked, SubjectOf
    <3>1. CASE g = h
      BY <2>3, <2>4, <3>1
    <3>2. CASE g # h
      BY <2>3, <3>2 DEF IndInv, HistoryInv, CommitsChecked
    <3> QED
      BY <3>1, <3>2
  <2> QED
    BY <2>1, <2>6, QuietStep
<1> QED
  BY <1>2, <1>3 DEF CommitPrecheck

(***************************************************************************)
(* Steps that record a Decision or advance a ref.                          *)
(***************************************************************************)
\* The new event is the last one, and the others stay.
LEMMA AppendedEvents ==
    ASSUME TypeOK, NEW ref \in Refs, NEW e \in Commits, NEW d \in Digests, Advance(ref, e, d)
    PROVE  /\ head[ref] = e /\ head' = [head EXCEPT ![ref] = d]
           /\ Len(advances'[ref]) = Len(advances[ref]) + 1
           /\ advances'[ref] # <<>>
           /\ \A i \in 1 .. Len(advances[ref]) : advances'[ref][i] = advances[ref][i]
           /\ advances'[ref][Len(advances[ref]) + 1] = [previous |-> e, head |-> d]
           /\ \A r \in Refs \ {ref} : advances'[r] = advances[r]
<1> DEFINE E == [previous: Commits, head: Digests]
           event == [previous |-> e, head |-> d]
<1>1. advances[ref] \in Seq(E) /\ event \in E
  BY DEF TypeOK
<1>2. /\ advances'[ref] = Append(advances[ref], event)
      /\ \A r \in Refs \ {ref} : advances'[r] = advances[r]
      /\ head[ref] = e /\ head' = [head EXCEPT ![ref] = d]
  BY DEF Advance, TypeOK
<1> HIDE DEF E, event
<1>3. /\ Len(Append(advances[ref], event)) = Len(advances[ref]) + 1
      /\ \A i \in 1 .. Len(advances[ref]) : Append(advances[ref], event)[i] = advances[ref][i]
      /\ Append(advances[ref], event)[Len(advances[ref]) + 1] = event
      /\ Append(advances[ref], event) # <<>>
  BY <1>1, AppendProperties
<1> QED
  BY <1>2, <1>3 DEF event

\* The step the invariant is about: a ref moves to a commit that was checked
\* against its head and is in no history yet.
LEMMA AdvanceHistory ==
    ASSUME IndInv, NEW ref \in Refs, NEW e \in Commits, NEW d \in Digests, Advance(ref, e, d),
           \A c \in Digests : ledger[c] # None => ledger'[c] = ledger[c],
           grants \subseteq grants',
           <<ref, d>> \in grants',
           ledger'[d].subject.base = e,
           \A i \in 1 .. Len(advances[ref]) : advances[ref][i].head # d
    PROVE  Chained' /\ EntriesGranted' /\ HeadsDistinct'
<1> USE DEF IndInv, TypeInv, HistoryInv
<1> DEFINE n == Len(advances[ref])
<1>1. /\ head[ref] = e /\ head' = [head EXCEPT ![ref] = d]
      /\ Len(advances'[ref]) = n + 1
      /\ advances'[ref] # <<>>
      /\ \A i \in 1 .. n : advances'[ref][i] = advances[ref][i]
      /\ advances'[ref][n + 1] = [previous |-> e, head |-> d]
      /\ \A r \in Refs \ {ref} : advances'[r] = advances[r]
  BY AppendedEvents
<1>2. n \in Nat /\ (advances[ref] = <<>> <=> n = 0)
  BY EventShape
<1>3. head \in [Refs -> Commits]
  BY DEF TypeOK
<1> HIDE DEF n
<1>4. Chained'
  <2> SUFFICES ASSUME NEW r \in Refs
               PROVE  /\ head'[r] = IF advances'[r] = <<>> THEN None
                                    ELSE advances'[r][Len(advances'[r])].head
                      /\ \A i \in 1 .. Len(advances'[r]) :
                            advances'[r][i].previous = IF i = 1 THEN None
                                                       ELSE advances'[r][i - 1].head
    BY DEF Chained
  <2>1. CASE r = ref
    <3>1. head'[r] = advances'[r][Len(advances'[r])].head
      BY <1>1, <1>3, <2>1
    <3>2. e = IF n = 0 THEN None ELSE advances[ref][n].head
      BY <1>1, <1>2 DEF Chained, n
    <3>3. ASSUME NEW i \in 1 .. n + 1
          PROVE  advances'[ref][i].previous = IF i = 1 THEN None ELSE advances'[ref][i - 1].head
      <4>1. CASE i = n + 1
        <5>1. advances'[ref][i].previous = e
          BY <1>1, <4>1
        <5>2. n # 0 => i - 1 = n /\ n \in 1 .. n
          BY <1>2, <4>1
        <5> QED
          BY <1>1, <1>2, <3>2, <4>1, <5>1, <5>2
      <4>2. CASE i # n + 1
        <5>1. i \in 1 .. n /\ (i # 1 => i - 1 \in 1 .. n)
          BY <1>2, <4>2
        <5>2. advances[ref][i].previous = IF i = 1 THEN None ELSE advances[ref][i - 1].head
          BY <5>1 DEF Chained, n
        <5> QED
          BY <1>1, <5>1, <5>2
      <4> QED
        BY <4>1, <4>2
    <3> QED
      BY <1>1, <2>1, <3>1, <3>3
  <2>2. CASE r # ref
    BY <1>1, <1>3, <2>2 DEF Chained
  <2> QED
    BY <2>1, <2>2
<1>5. EntriesGranted'
  <2> SUFFICES ASSUME NEW r \in Refs, NEW i \in 1 .. Len(advances'[r])
               PROVE  /\ <<r, advances'[r][i].head>> \in grants'
                      /\ ledger'[advances'[r][i].head].subject.base = advances'[r][i].previous
    BY DEF EntriesGranted
  <2>1. ASSUME NEW s \in Refs, NEW j \in 1 .. Len(advances[s])
        PROVE  /\ <<s, advances[s][j].head>> \in grants'
               /\ ledger'[advances[s][j].head].subject.base = advances[s][j].previous
    <3>1. advances[s][j].head \in Digests
      BY EventShape
    <3>2. /\ <<s, advances[s][j].head>> \in grants
          /\ ledger[advances[s][j].head].subject.base = advances[s][j].previous
      BY DEF EntriesGranted
    <3>3. ledger[advances[s][j].head] # None
      BY <3>1, <3>2 DEF GrantsSound
    <3> QED
      BY <3>1, <3>2, <3>3
  <2>2. CASE r = ref /\ i = n + 1
    BY <1>1, <2>2
  <2>3. CASE ~(r = ref /\ i = n + 1)
    <3>1. i \in 1 .. Len(advances[r]) /\ advances'[r][i] = advances[r][i]
      BY <1>1, <1>2, <2>3 DEF n
    <3> QED
      BY <2>1, <3>1
  <2> QED
    BY <2>2, <2>3
<1>6. HeadsDistinct'
  <2> SUFFICES ASSUME NEW r \in Refs, NEW i \in 1 .. Len(advances'[r]),
                      NEW j \in 1 .. Len(advances'[r]),
                      advances'[r][i].head = advances'[r][j].head
               PROVE  i = j
    BY DEF HeadsDistinct
  <2>1. CASE r = ref
    <3>1. \A k \in 1 .. n + 1 : k # n + 1 =>
              k \in 1 .. n /\ advances'[ref][k] = advances[ref][k] /\ advances'[ref][k].head # d
      BY <1>1, <1>2 DEF n
    <3>2. advances'[ref][n + 1].head = d
      BY <1>1
    <3>3. \A k, l \in 1 .. n : advances[ref][k].head = advances[ref][l].head => k = l
      BY DEF HeadsDistinct, n
    <3> QED
      BY <1>1, <2>1, <3>1, <3>2, <3>3
  <2>2. CASE r # ref
    BY <1>1, <2>2 DEF HeadsDistinct
  <2> QED
    BY <2>1, <2>2
<1> QED
  BY <1>4, <1>5, <1>6

\* A Decision gets a new digest and a grant for the ref of its Proposal.
LEMMA DecideHistory == ASSUME IndInv, NEW h \in Handlers, DecideTransaction(h) PROVE HistoryInv'
<1> DEFINE r == call[h].request
           t == command[r].transition
           p == proposal[t]
           body == command[r].body
<1>1. /\ call[h].pc = "decide"
      /\ r \in Requests /\ p \in Proposals
  BY ServedFacts DEF DecideTransaction, Serving, IndInv
<1>2. CASE Refuse(h, r)
  BY <1>1, <1>2, RefuseHistory
<1>3. CASE Goto(h, "winner")
  BY <1>1, <1>3, GotoHistory DEF Serving
<1>4. ASSUME ReviewCurrent(r), Authorizes(r),
             UNCHANGED <<head, advances, review, draft, clients, published>>,
             NEW d \in Digests,
             ledger[d] = None,
             ledger' = [ledger EXCEPT ![d] =
                   [subject |-> SubjectOf(p), ref |-> p.ref, actor |-> ActorOf[r],
                    outcome |-> body.outcome, policy |-> body.policy,
                    evidence |-> observed[t]]],
             grants' = IF body.outcome = "rejected" THEN grants ELSE grants \cup {<<p.ref, d>>},
             Busy(h, [pc |-> "reply", request |-> r, result |-> d])
      PROVE  HistoryInv'
  <2> DEFINE decision == [subject |-> SubjectOf(p), ref |-> p.ref, actor |-> ActorOf[r],
                          outcome |-> body.outcome, policy |-> body.policy,
                          evidence |-> observed[t]]
             c == [pc |-> "reply", request |-> r, result |-> d]
  <2>1. c \in Calls /\ c.pc = "reply"
    BY <1>1, ReplyCall
  <2>2. Busy(h, c)
    BY <1>4
  <2>3. ledger' = [ledger EXCEPT ![d] = decision]
    BY <1>4
  <2>4. Permitted(decision.policy, Claim, decision.subject.actor, decision.evidence,
                  decision.actor, decision.outcome)
    BY <1>4 DEF Authorizes, SubjectOf
  <2>5. /\ body \in DecideBodies
        /\ observed[t] \in SUBSET Statements /\ ActorOf[r] \in Actors
    BY <1>1, CommandShape, ServedFacts DEF IndInv, TypeInv, ServesCommands, Serving
  <2>6. decision \in Decisions
    BY <1>1, <1>4, <2>5
    DEF ReviewCurrent, DecideBodies, Decisions, SubjectOf, Subjects, Proposals
  <2>7. decision.outcome = body.outcome /\ decision.ref = p.ref /\ decision # None
    BY <2>6, NullAssumption
  <2> HIDE DEF c, decision
  <2>8. ledger'[d] = decision /\ \A x \in Digests \ {d} : ledger'[x] = ledger[x]
    BY <2>3 DEF IndInv, TypeInv, TypeOK
  <2>9. LedgerSound'
    BY <2>4, <2>8 DEF LedgerSound, IndInv, HistoryInv
  <2>10. GrantsSound'
    <3>1. GrantsSound
      BY DEF IndInv, HistoryInv
    <3>2. \A ref \in Refs, x \in Digests : <<ref, x>> \in grants => x # d
      BY <1>4, <3>1 DEF GrantsSound
    <3>3. CASE body.outcome = "rejected"
      BY <1>4, <2>8, <3>1, <3>2, <3>3 DEF GrantsSound
    <3>4. CASE body.outcome # "rejected"
      <4>1. grants' = grants \cup {<<p.ref, d>>}
        BY <1>4, <3>4
      <4> QED
        <5> SUFFICES ASSUME NEW ref \in Refs, NEW x \in Digests, <<ref, x>> \in grants'
                     PROVE  /\ ledger'[x] # None /\ ledger'[x].ref = ref
                            /\ ledger'[x].outcome # "rejected"
          BY DEF GrantsSound
        <5>1. CASE <<ref, x>> \in grants
          BY <2>8, <3>1, <3>2, <5>1 DEF GrantsSound
        <5>2. CASE <<ref, x>> = <<p.ref, d>>
          BY <2>7, <2>8, <3>4, <5>2
        <5> QED
          BY <4>1, <5>1, <5>2
    <3> QED
      BY <3>3, <3>4
  <2>11. Chained' /\ HeadsDistinct'
    BY <1>4 DEF Chained, HeadsDistinct, IndInv, HistoryInv
  <2>12. EntriesGranted'
    <3>1. \A ref \in Refs : \A i \in 1 .. Len(advances[ref]) :
              advances[ref][i].head \in Digests \ {d}
      BY <1>4, EventShape DEF EntriesGranted, GrantsSound, IndInv, TypeInv, HistoryInv
    <3>2. advances' = advances /\ grants \subseteq grants'
      BY <1>4
    <3> QED
      BY <2>8, <3>1, <3>2 DEF EntriesGranted, IndInv, HistoryInv
  <2>13. CommitsChecked'
    <3>1. \A g \in Handlers : call'[g].pc = "commit" => call'[g] = call[g]
      BY <2>1, <2>2, BusyType DEF IndInv, TypeInv
    <3> QED
      BY <1>4, <2>8, <3>1, CheckedStable DEF review, clients
  <2> QED
    BY <2>9, <2>10, <2>11, <2>12, <2>13 DEF HistoryInv
<1> QED
  BY <1>2, <1>3, <1>4 DEF DecideTransaction

\* A Workspace commit advances its ref or leaves the repository alone.
LEMMA CommitHistory == ASSUME IndInv, NEW h \in Handlers, CommitTransaction(h) PROVE HistoryInv'
<1> DEFINE r == call[h].request
           p == proposal[command[r].transition]
           d == command[r].body.decision
           expectedHead == command[r].body.expectedHead
<1>1. /\ call[h].pc = "commit"
      /\ r \in Requests /\ command[r] # None /\ p \in Proposals
  BY ServedFacts DEF CommitTransaction, Serving, IndInv
<1>2. command[r].body \in CommitBodies
  BY <1>1, CommandShape DEF IndInv, TypeInv, ServesCommands
<1>3. d \in Digests /\ expectedHead \in Commits /\ p.ref \in Refs
  BY <1>1, <1>2 DEF CommitBodies, Proposals
<1>4. CASE Refuse(h, r)
  BY <1>1, <1>4, RefuseHistory
<1>5. CASE Goto(h, "winner")
  BY <1>1, <1>5, GotoHistory DEF Serving
<1>6. CASE /\ <<p.ref, d>> \in grants
           /\ Advance(p.ref, expectedHead, d)
           /\ Busy(h, [pc |-> "reply", request |-> r, result |-> d])
           /\ UNCHANGED <<grants, ledger, review, clients, published>>
  <2>1. ledger[d].subject.base = expectedHead
    <3>1. ledger[d].subject = SubjectOf(p) /\ expectedHead = p.refHead
      BY <1>1 DEF IndInv, HistoryInv, CommitsChecked
    <3>2. SubjectOf(p).base = p.refHead
      <4> HIDE DEF p
      <4> QED
        BY Zenon DEF SubjectOf
    <3> QED
      BY <3>1, <3>2, Zenon
  <2>2. head[p.ref] = expectedHead
    BY <1>6 DEF Advance
  <2>3. \A i \in 1 .. Len(advances[p.ref]) : advances[p.ref][i].head # d
    BY <1>3, <1>6, <2>1, <2>2, NotYetCommitted
  <2>4. Chained' /\ EntriesGranted' /\ HeadsDistinct'
    BY <1>3, <1>6, <2>1, <2>3, AdvanceHistory
  <2>5. LedgerSound' /\ GrantsSound'
    BY <1>6 DEF LedgerSound, GrantsSound, IndInv, HistoryInv
  <2> DEFINE c == [pc |-> "reply", request |-> r, result |-> d]
  <2>6. c \in Calls /\ c.pc = "reply"
    BY <1>1, <1>3, ReplyCall
  <2>7. Busy(h, c)
    BY <1>6
  <2> HIDE DEF c
  <2>8. \A g \in Handlers : call'[g].pc = "commit" => call'[g] = call[g]
    BY <2>6, <2>7, BusyType DEF IndInv, TypeInv
  <2>9. CommitsChecked'
    BY <1>6, <2>8, CheckedStable DEF review, clients
  <2> QED
    BY <2>4, <2>5, <2>9 DEF HistoryInv
<1> QED
  BY <1>4, <1>5, <1>6 DEF CommitTransaction

\* A repository writer decides and commits in one transaction, or does nothing.
LEMMA WriteHistory == ASSUME IndInv, NEW h \in Handlers, WriteTransaction(h) PROVE HistoryInv'
<1> DEFINE c == call[h]
           policy == IF c.expected = NoPolicy THEN WriterPolicy ELSE c.expected
<1>1. /\ c.ref \in Refs /\ c.actor \in Actors /\ c.expectedHead \in Commits
      /\ c.expected \in Policies \cup {NoPolicy}
  BY CallShape DEF WriteTransaction, IndInv, TypeInv
<1>2. Busy(h, Idle) /\ UNCHANGED <<review, receipts, clients, published>>
  BY DEF WriteTransaction
<1>3. Idle \in Calls /\ Idle.pc # "commit"
  BY DEF Idle, Calls
<1>4. \A g \in Handlers : call'[g].pc = "commit" => call'[g] = call[g]
  BY <1>2, <1>3, BusyType DEF IndInv, TypeInv
<1>5. CASE UNCHANGED repository
  BY <1>2, <1>3, <1>5, QuietCall DEF review, clients
<1>6. ASSUME Permitted(policy, Claim, c.actor, WriterEvidence, c.actor, "accepted"),
             NEW d \in Digests,
             ledger[d] = None,
             ledger' = [ledger EXCEPT ![d] =
                 [subject |-> [base |-> c.expectedHead, content |-> {}, actor |-> c.actor],
                  ref |-> c.ref, actor |-> c.actor, outcome |-> "accepted",
                  policy |-> policy, evidence |-> WriterEvidence]],
             grants' = grants \cup {<<c.ref, d>>},
             Advance(c.ref, c.expectedHead, d)
      PROVE  HistoryInv'
  <2> DEFINE decision == [subject |-> [base |-> c.expectedHead, content |-> {}, actor |-> c.actor],
                          ref |-> c.ref, actor |-> c.actor, outcome |-> "accepted",
                          policy |-> policy, evidence |-> WriterEvidence]
  <2>1. policy \in Policies /\ WriterEvidence \in SUBSET Statements
    BY <1>1, LifecycleAssumption DEF LifecycleAssumption
  <2>2. decision \in Decisions
    BY <1>1, <2>1 DEF Decisions, Subjects, Outcomes
  <2>3. decision # None
    BY <2>2, NullAssumption
  <2>4. /\ decision.subject.base = c.expectedHead /\ decision.ref = c.ref
        /\ decision.outcome = "accepted"
        /\ Permitted(decision.policy, Claim, decision.subject.actor, decision.evidence,
                     decision.actor, decision.outcome)
    BY <1>6
  <2>5. ledger' = [ledger EXCEPT ![d] = decision]
    BY <1>6
  <2> HIDE DEF decision
  <2>6. ledger'[d] = decision /\ \A x \in Digests \ {d} : ledger'[x] = ledger[x]
    BY <2>5 DEF IndInv, TypeInv, TypeOK
  <2>7. \A i \in 1 .. Len(advances[c.ref]) : advances[c.ref][i].head # d
    BY <1>1, <1>6, EventShape DEF EntriesGranted, GrantsSound, IndInv, TypeInv, HistoryInv
  <2>8. \A x \in Digests : ledger[x] # None => ledger'[x] = ledger[x]
    BY <1>6, <2>6
  <2>9. Chained' /\ EntriesGranted' /\ HeadsDistinct'
    BY <1>1, <1>6, <2>4, <2>6, <2>7, <2>8, AdvanceHistory
  <2>10. LedgerSound'
    BY <2>4, <2>6 DEF LedgerSound, IndInv, HistoryInv
  <2>11. GrantsSound'
    <3> SUFFICES ASSUME NEW ref \in Refs, NEW x \in Digests, <<ref, x>> \in grants'
                 PROVE  ledger'[x] # None /\ ledger'[x].ref = ref /\ ledger'[x].outcome # "rejected"
      BY DEF GrantsSound
    <3>1. CASE <<ref, x>> \in grants
      BY <2>8, <3>1 DEF GrantsSound, IndInv, HistoryInv
    <3>2. CASE <<ref, x>> = <<c.ref, d>>
      <4>1. ref = c.ref /\ x = d
        BY <3>2
      <4> QED
        BY <2>3, <2>4, <2>6, <4>1
    <3> QED
      BY <1>6, <3>1, <3>2
  <2>12. CommitsChecked'
    BY <1>2, <1>4, <2>8, CheckedStable DEF review, clients
  <2> QED
    BY <2>9, <2>10, <2>11, <2>12 DEF HistoryInv
<1> QED
  BY <1>5, <1>6 DEF WriteTransaction

(***************************************************************************)
(* The theorems.                                                           *)
(***************************************************************************)
\* Nothing is decided, granted or committed initially.
LEMMA InitHistory == Init => HistoryInv
BY DEF Init, HistoryInv, LedgerSound, GrantsSound, Chained, EntriesGranted, HeadsDistinct,
       CommitsChecked, Idle

\* Replies, crashes, materializations and rules leave the repository alone.
LEMMA MoveHistory ==
    ASSUME IndInv, NEW h \in Handlers, HandlerStep(h) \/ Crash(h) PROVE HistoryInv'
<1>1. Idle \in Calls /\ Idle.pc # "commit"
  BY DEF Idle, Calls
<1>2. CASE \E t \in Transitions : Materialize(h, t)
  <2>1. \A t \in Transitions : proposal[t] # None => proposal'[t] = proposal[t]
    BY <1>2 DEF Materialize, IndInv, TypeInv, TypeOK
  <2> QED
    BY <1>1, <1>2, <2>1, QuietCall DEF Materialize, clients
<1>3. CASE ResolveWinner(h)
  <2>1. call[h].request \in Requests
    BY <1>3, CallShape DEF ResolveWinner, IndInv, TypeInv, Serving
  <2> QED
    BY <1>3, <2>1, ResolveRetryHistory, RefuseHistory DEF ResolveWinner
<1>4. CASE Reply(h) \/ Crash(h) \/ WriteRule(h)
  <2>1. Busy(h, Idle) /\ UNCHANGED <<repository, proposal, command>>
    BY <1>4 DEF Reply, Answer, Crash, WriteRule, review, clients
  <2> QED
    BY <1>1, <2>1, QuietCall
<1> QED
  BY <1>2, <1>3, <1>4, LookupHistory, DecideHistory, PrecheckHistory, CommitHistory, WriteHistory
  DEF HandlerStep

\* The reads of writers and of rule changes leave the repository alone.
LEMMA PrepareHistory ==
    ASSUME IndInv, NEW h \in Handlers, NEW ref \in Refs,
           \/ \E a \in Writers, sync \in CommitSyncs : PrepareWrite(h, ref, a, sync)
           \/ \E flag \in RuleChanges : PlanRule(h, ref, flag)
    PROVE  HistoryInv'
<1>1. PICK c : c.pc # "commit" /\ call' = [call EXCEPT ![h] = c]
  BY DEF PrepareWrite, PlanRule, Busy
<1>2. UNCHANGED <<repository, review, clients>>
  BY DEF PrepareWrite, PlanRule
<1>3. \A g \in Handlers : call'[g].pc = "commit" => call'[g] = call[g]
  BY <1>1 DEF IndInv, TypeInv, TypeOK
<1> QED
  BY <1>2, <1>3, CheckedStable, QuietStep DEF repository, review, clients

\* Every step keeps the invariant, by the lemma of its action.
LEMMA NextHistory == ASSUME IndInv, [Next]_vars PROVE IndInv'
<1>1. TypeInv'
  BY NextType DEF IndInv
<1>2. HistoryInv'
  <2>1. CASE UNCHANGED vars
    BY <2>1, CheckedStable, QuietStep DEF vars, repository
  <2>2. CASE Next
    BY <2>2, WorkspaceHistory, ReviewHistory, ClientHistory, MoveHistory, PrepareHistory DEF Next
  <2> QED
    BY <2>1, <2>2
<1> QED
  BY <1>1, <1>2 DEF IndInv

\* IndInv is an invariant: no step of any process leaves it.
THEOREM Inductive == Spec => []IndInv
<1>1. Init => IndInv
  BY InitType, InitHistory DEF IndInv
<1>2. IndInv /\ [Next]_vars => IndInv'
  BY NextHistory
<1> QED
  BY <1>1, <1>2, PTL DEF Spec

\* The history of a ref is one chain that ends at its head, whatever number of
\* handlers and writers advance it (createTransitionCommit).
THEOREM HistoryIsLinear == Spec => []LinearHistory
<1>1. IndInv => LinearHistory
  BY ChainedIsLinear DEF IndInv, TypeInv, HistoryInv
<1> QED
  BY <1>1, Inductive, PTL

\* Every commit of every history is authorized for its ref by a Decision that its
\* policy permits on its evidence, made on a Proposal built on the commit's parent
\* (decideTransition, commitTransition, commitPreparedRepositoryTransition).
THEOREM HistoryIsAuthorized == Spec => []AuthorizedHistory
<1>1. IndInv => AuthorizedHistory
  BY GrantedIsAuthorized DEF IndInv, TypeInv, HistoryInv
<1> QED
  BY <1>1, Inductive, PTL

(***************************************************************************)
(* TransitionLifecycle implements RefLedger: a Decision is a Grant or, if  *)
(* it rejects, a stutter; a commit and a repository write are an Advance;  *)
(* every other step is a stutter.                                          *)
(***************************************************************************)
\* Both ledgers start empty.
LEMMA InitRefines == Init => Refs_ledger!Init
BY DEF Init, Refs_ledger!Init

\* A step that leaves the repository alone stutters.
LEMMA QuietRefines == ASSUME UNCHANGED repository PROVE UNCHANGED Refs_ledger!vars
BY DEF repository, Refs_ledger!vars

\* Only the transactions of the handlers touch the repository.
LEMMA QuietActions ==
    ASSUME TypeInv, [Next]_vars,
           \A h \in Handlers : ~DecideTransaction(h) /\ ~CommitTransaction(h) /\ ~WriteTransaction(h)
    PROVE  UNCHANGED repository
<1>1. CASE UNCHANGED vars
  BY <1>1 DEF vars, repository
<1>2. CASE WorkspaceStep
  BY <1>2 DEF WorkspaceStep, Publish, TouchDraft, Reconcile, Discard
<1>3. CASE ReviewStep
  BY <1>3 DEF ReviewStep, PrepareReview, RecordStatement, BindPolicy, UnbindPolicy
<1>4. CASE ClientStep
  BY <1>4 DEF ClientStep, ComposeDecision, ComposeCommit, Compose, Deliver
<1>5. ASSUME NEW h \in Handlers, HandlerStep(h) \/ Crash(h) PROVE UNCHANGED repository
  BY <1>5 DEF HandlerStep, Crash, Materialize, Lookup, CommitPrecheck, ResolveWinner, ResolveRetry,
              Refuse, Goto, Reply, WriteRule
<1>6. ASSUME NEW h \in Handlers, NEW ref \in Refs,
             \/ \E a \in Writers, sync \in CommitSyncs : PrepareWrite(h, ref, a, sync)
             \/ \E flag \in RuleChanges : PlanRule(h, ref, flag)
      PROVE  UNCHANGED repository
  BY <1>6 DEF PrepareWrite, PlanRule
<1> QED
  BY <1>1, <1>2, <1>3, <1>4, <1>5, <1>6 DEF Next

\* An advance of the control plane is an advance of the ledger.
LEMMA AdvanceRefines ==
    ASSUME IndInv, NEW ref \in Refs, NEW e \in Commits, NEW d \in Digests, Advance(ref, e, d),
           grants' = grants \cup {<<ref, d>>},
           \A other \in Refs : \A i \in 1 .. Len(advances[other]) : advances[other][i].head # d
    PROVE  Refs_ledger!Next
<1>1. ~Refs_ledger!Used(d)
  BY EventShape DEF Refs_ledger!Used, IndInv, TypeInv
<1>2. e = Refs_ledger!LastHead(advances[ref])
  BY DEF Advance, Refs_ledger!LastHead, Chained, IndInv, HistoryInv
<1>3. Refs_ledger!Advance(ref, d)
  BY <1>1, <1>2 DEF Advance, Refs_ledger!Advance, IndInv, TypeInv, TypeOK
<1> QED
  BY <1>3 DEF Refs_ledger!Next

\* A Decision grants its commit, or stutters if it is a rejection or refused.
LEMMA DecideRefines ==
    ASSUME IndInv, NEW h \in Handlers, DecideTransaction(h)
    PROVE  [Refs_ledger!Next]_(Refs_ledger!vars)
<1> DEFINE r == call[h].request
           p == proposal[command[r].transition]
<1>1. p.ref \in Refs
  BY ServedFacts DEF DecideTransaction, Serving, IndInv, Proposals
<1>2. CASE UNCHANGED repository
  BY <1>2, QuietRefines
<1>3. ASSUME NEW d \in Digests, grants' = grants \cup {<<p.ref, d>>}, advances' = advances
      PROVE  Refs_ledger!Next
  BY <1>1, <1>3 DEF Refs_ledger!Next, Refs_ledger!Grant
<1>4. CASE grants' = grants /\ advances' = advances
  BY <1>4 DEF Refs_ledger!vars
<1>5. \/ UNCHANGED repository
      \/ grants' = grants /\ advances' = advances
      \/ \E d \in Digests : grants' = grants \cup {<<p.ref, d>>} /\ advances' = advances
  BY DEF DecideTransaction, Refuse, Goto
<1> QED
  BY <1>2, <1>3, <1>4, <1>5

\* A Workspace commit is an advance to a digest that is new to the ledger.
LEMMA CommitRefines ==
    ASSUME IndInv, NEW h \in Handlers, CommitTransaction(h)
    PROVE  [Refs_ledger!Next]_(Refs_ledger!vars)
<1> DEFINE r == call[h].request
           p == proposal[command[r].transition]
           d == command[r].body.decision
           expectedHead == command[r].body.expectedHead
<1>1. call[h].pc = "commit" /\ r \in Requests /\ command[r] # None /\ p.ref \in Refs
  BY ServedFacts DEF CommitTransaction, Serving, IndInv, Proposals
<1>2. command[r].body \in CommitBodies
  BY <1>1, CommandShape DEF IndInv, TypeInv, ServesCommands
<1>3. d \in Digests /\ expectedHead \in Commits
  BY <1>2 DEF CommitBodies
<1>4. CASE UNCHANGED repository
  BY <1>4, QuietRefines
<1>5. CASE <<p.ref, d>> \in grants /\ Advance(p.ref, expectedHead, d) /\ grants' = grants
  <2>1. ledger[d].subject = SubjectOf(p) /\ expectedHead = p.refHead
    BY <1>1 DEF IndInv, HistoryInv, CommitsChecked
  <2>2. ledger[d].subject.base = head[p.ref]
    <3>1. head[p.ref] = expectedHead
      BY <1>5 DEF Advance
    <3>2. SubjectOf(p).base = p.refHead
      BY DEF SubjectOf
    <3> QED
      BY <2>1, <3>1, <3>2
  <2>3. \A other \in Refs : \A i \in 1 .. Len(advances[other]) : advances[other][i].head # d
    BY <1>1, <1>3, <1>5, <2>2, NotYetCommitted
  <2>4. grants' = grants \cup {<<p.ref, d>>}
    BY <1>5
  <2> QED
    BY <1>1, <1>3, <1>5, <2>3, <2>4, AdvanceRefines
<1>6. \/ UNCHANGED repository
      \/ <<p.ref, d>> \in grants /\ Advance(p.ref, expectedHead, d) /\ grants' = grants
  BY DEF CommitTransaction, Refuse, Goto
<1> QED
  BY <1>4, <1>5, <1>6

\* A repository write grants and advances at once.
LEMMA WriteRefines ==
    ASSUME IndInv, NEW h \in Handlers, WriteTransaction(h)
    PROVE  [Refs_ledger!Next]_(Refs_ledger!vars)
<1> DEFINE c == call[h]
<1>1. c.ref \in Refs /\ c.expectedHead \in Commits
  BY CallShape DEF WriteTransaction, IndInv, TypeInv
<1>2. CASE UNCHANGED repository
  BY <1>2, QuietRefines
<1>3. ASSUME NEW d \in Digests, ledger[d] = None, grants' = grants \cup {<<c.ref, d>>},
             Advance(c.ref, c.expectedHead, d)
      PROVE  Refs_ledger!Next
  <2>1. \A other \in Refs : \A i \in 1 .. Len(advances[other]) : advances[other][i].head # d
    BY <1>3, EventShape DEF EntriesGranted, GrantsSound, IndInv, TypeInv, HistoryInv
  <2> QED
    BY <1>1, <1>3, <2>1, AdvanceRefines
<1>4. \/ UNCHANGED repository
      \/ \E d \in Digests : /\ ledger[d] = None
                            /\ grants' = grants \cup {<<c.ref, d>>}
                            /\ Advance(c.ref, c.expectedHead, d)
  BY DEF WriteTransaction
<1> QED
  BY <1>2, <1>3, <1>4

\* Every step of the control plane is a step of the ledger or a stutter.
LEMMA StepRefines == ASSUME IndInv, [Next]_vars PROVE [Refs_ledger!Next]_(Refs_ledger!vars)
<1>1. CASE \E h \in Handlers : DecideTransaction(h) \/ CommitTransaction(h) \/ WriteTransaction(h)
  BY <1>1, DecideRefines, CommitRefines, WriteRefines
<1>2. CASE \A h \in Handlers : ~DecideTransaction(h) /\ ~CommitTransaction(h) /\ ~WriteTransaction(h)
  BY <1>2, QuietActions, QuietRefines DEF IndInv
<1> QED
  BY <1>1, <1>2

\* However handlers, writers and clients interleave, the refs behave as the
\* ledger of authorized, linear, single-use advances that RefLedger specifies.
THEOREM LifecycleImplementsRefLedger == Spec => ImplementsRefLedger
<1>1. Init => Refs_ledger!Init
  BY InitRefines
<1>2. IndInv /\ [Next]_vars => [Refs_ledger!Next]_(Refs_ledger!vars)
  BY StepRefines
<1> QED
  BY <1>1, <1>2, Inductive, PTL DEF Spec, ImplementsRefLedger, Refs_ledger!Spec
===============================================================================
