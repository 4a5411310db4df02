------------------------ MODULE TransitionReceiptProofs ------------------------
(***************************************************************************)
(* What a command does, and what its client is told, for all values of the *)
(* constants of TransitionLifecycle: live reviews, receipts and answers.   *)
(* The fate of the edits that were published follows in the second half,   *)
(* with the overlay over generated content and the advances of a ref.      *)
(***************************************************************************)
EXTENDS TransitionPolicyProofs

(***************************************************************************)
(* The three transactions that have an effect on the repository, each the  *)
(* disjunct of its action that succeeds. Every other step leaves           *)
(* Decisions, grants, refs and receipts alone.                             *)
(***************************************************************************)
\* decideTransition records a Decision with digest d and the receipt of its command.
Decides(h, d) ==
    LET r == call[h].request
        t == command[r].transition
        p == proposal[t]
        body == command[r].body
    IN  /\ call[h].pc = "decide"
        /\ ReviewCurrent(r)
        /\ Authorizes(r)
        /\ Unclaimed(r)
        /\ ledger[d] = None
        /\ ledger' = [ledger EXCEPT ![d] =
              [subject |-> SubjectOf(p), ref |-> p.ref, actor |-> ActorOf[r],
               outcome |-> body.outcome, policy |-> body.policy, evidence |-> observed[t]]]
        /\ receipts' = receipts \cup {ReceiptFor(r, d)}
        /\ Busy(h, [pc |-> "reply", request |-> r, result |-> d])
        /\ UNCHANGED <<head, advances, review, draft, clients, published>>

\* commitTransition advances the ref of its Proposal to the Decision with digest d.
CommitsNow(h, d) ==
    LET r == call[h].request
        p == proposal[command[r].transition]
    IN  /\ call[h].pc = "commit"
        /\ d = command[r].body.decision
        /\ <<p.ref, d>> \in grants
        /\ Fresh(p)
        /\ Unclaimed(r)
        /\ Advance(p.ref, command[r].body.expectedHead, d)
        /\ \E sync \in CommitSyncs : RenewDrafts(p, d, sync)
        /\ receipts' = receipts \cup {ReceiptFor(r, d)}
        /\ Busy(h, [pc |-> "reply", request |-> r, result |-> d])
        /\ UNCHANGED <<grants, ledger, review, clients, published>>

\* A repository writer decides and commits the digest d.
Writes(h, d) ==
    LET c == call[h]
        policy == IF c.expected = NoPolicy THEN WriterPolicy ELSE c.expected
    IN  /\ c.pc = "write"
        /\ ledger[d] = None
        /\ ledger' = [ledger EXCEPT ![d] =
              [subject |-> [base |-> c.expectedHead, content |-> {}, actor |-> c.actor],
               ref |-> c.ref, actor |-> c.actor, outcome |-> "accepted",
               policy |-> policy, evidence |-> WriterEvidence]]
        /\ grants' = grants \cup {<<c.ref, d>>}
        /\ Advance(c.ref, c.expectedHead, d)
        /\ draft' = CleanFollow(c.sync, c.ref, d)
        /\ Busy(h, Idle)
        /\ UNCHANGED <<review, receipts, clients, published>>

\* A transaction of a handler has its effect, or none on repository, receipts and Drafts.
LEMMA TransactionEffects ==
    ASSUME IndInv, NEW h \in Handlers,
           DecideTransaction(h) \/ CommitTransaction(h) \/ WriteTransaction(h)
    PROVE  \/ UNCHANGED <<repository, receipts, draft, published>>
           \/ \E d \in Digests : Decides(h, d)
           \/ \E d \in Digests : CommitsNow(h, d)
           \/ \E d \in Digests : Writes(h, d)
<1>1. CASE DecideTransaction(h)
  BY <1>1 DEF DecideTransaction, Decides, Refuse, Goto
<1>2. CASE CommitTransaction(h)
  <2>1. call[h].pc = "commit" /\ command[call[h].request].body.decision \in Digests
    BY <1>2, ServedFacts, CommandShape
    DEF CommitTransaction, Serving, IndInv, TypeInv, ServesCommands, CommitBodies
  <2> QED
    BY <1>2, <2>1 DEF CommitTransaction, CommitsNow, Refuse, Goto
<1>3. CASE WriteTransaction(h)
  BY <1>3 DEF WriteTransaction, Writes
<1> QED
  BY <1>1, <1>2, <1>3

\* Receipts are stored only by those transactions, and other than by them Drafts are
\* written by their authors only.
LEMMA QuietReceipts ==
    ASSUME [Next]_vars,
           \A h \in Handlers : ~DecideTransaction(h) /\ ~CommitTransaction(h) /\ ~WriteTransaction(h)
    PROVE  UNCHANGED receipts /\ (WorkspaceStep \/ UNCHANGED <<draft, published>>)
<1>1. CASE UNCHANGED vars
  BY <1>1 DEF vars
<1>2. CASE WorkspaceStep
  BY <1>2 DEF WorkspaceStep, Publish, TouchDraft, Reconcile, Discard
<1>3. CASE ReviewStep
  BY <1>3 DEF ReviewStep, PrepareReview, RecordStatement, BindPolicy, UnbindPolicy
<1>4. CASE ClientStep
  BY <1>4 DEF ClientStep, ComposeDecision, ComposeCommit, Compose, Deliver
<1>5. ASSUME NEW h \in Handlers, HandlerStep(h) \/ Crash(h) PROVE UNCHANGED <<receipts, draft, published>>
  BY <1>5 DEF HandlerStep, Crash, Materialize, Lookup, CommitPrecheck, ResolveWinner, ResolveRetry,
              Refuse, Goto, Reply, WriteRule
<1>6. ASSUME NEW h \in Handlers, NEW ref \in Refs,
             \/ \E a \in Writers, sync \in CommitSyncs : PrepareWrite(h, ref, a, sync)
             \/ \E flag \in RuleChanges : PlanRule(h, ref, flag)
      PROVE  UNCHANGED <<receipts, draft, published>>
  BY <1>6 DEF PrepareWrite, PlanRule
<1> QED
  BY <1>1, <1>2, <1>3, <1>4, <1>5, <1>6 DEF Next

\* Every step is one of the three, or of an author, or leaves repository, receipts
\* and Drafts alone.
LEMMA StepEffects ==
    ASSUME IndInv, [Next]_vars
    PROVE  \/ UNCHANGED <<repository, receipts>> /\ WorkspaceStep
           \/ UNCHANGED <<repository, receipts, draft, published>>
           \/ \E h \in Handlers, d \in Digests : Decides(h, d)
           \/ \E h \in Handlers, d \in Digests : CommitsNow(h, d)
           \/ \E h \in Handlers, d \in Digests : Writes(h, d)
<1>1. CASE \E h \in Handlers : DecideTransaction(h) \/ CommitTransaction(h) \/ WriteTransaction(h)
  BY <1>1, TransactionEffects
<1>2. CASE \A h \in Handlers : ~DecideTransaction(h) /\ ~CommitTransaction(h) /\ ~WriteTransaction(h)
  BY <1>2, QuietActions, QuietReceipts DEF IndInv
<1> QED
  BY <1>1, <1>2

\* A command that was composed and a Proposal that was stored never change.
LEMMA Permanent ==
    ASSUME TypeInv, [Next]_vars
    PROVE  /\ \A r \in Requests : command[r] # None => command'[r] = command[r]
           /\ \A t \in Transitions : proposal[t] # None => proposal'[t] = proposal[t]
<1> USE DEF TypeInv
<1>1. CASE UNCHANGED vars
  BY <1>1 DEF vars
<1>2. CASE WorkspaceStep
  BY <1>2 DEF WorkspaceStep, Publish, TouchDraft, Reconcile, Discard, review, clients
<1>3. CASE ReviewStep
  BY <1>3 DEF ReviewStep, PrepareReview, RecordStatement, BindPolicy, UnbindPolicy, review, clients
<1>4. CASE ClientStep
  <2>1. ASSUME NEW r \in Requests, NEW t, NEW body, Compose(r, t, body)
        PROVE  /\ \A q \in Requests : command[q] # None => command'[q] = command[q]
               /\ proposal' = proposal
    BY <2>1 DEF Compose, TypeOK, review
  <2>2. ASSUME NEW h, NEW r, Deliver(h, r) PROVE UNCHANGED <<command, proposal>>
    BY <2>2 DEF Deliver, clients, review
  <2> QED
    BY <1>4, <2>1, <2>2 DEF ClientStep, ComposeDecision, ComposeCommit
<1>5. ASSUME NEW h \in Handlers, HandlerStep(h) \/ Crash(h)
      PROVE  /\ command' = command
             /\ \A t \in Transitions : proposal[t] # None => proposal'[t] = proposal[t]
  <2>1. CASE \E t \in Transitions : Materialize(h, t)
    BY <2>1 DEF Materialize, TypeOK, clients
  <2>2. CASE Lookup(h) \/ CommitPrecheck(h) \/ ResolveWinner(h) \/ Reply(h) \/ WriteRule(h) \/ Crash(h)
    BY <2>2 DEF Lookup, CommitPrecheck, ResolveWinner, ResolveRetry, Refuse, Goto, Reply, WriteRule,
                Crash, review, clients
  <2>3. CASE DecideTransaction(h) \/ CommitTransaction(h) \/ WriteTransaction(h)
    BY <2>3 DEF DecideTransaction, CommitTransaction, WriteTransaction, Refuse, Goto, review, clients
  <2> QED
    BY <1>5, <2>1, <2>2, <2>3 DEF HandlerStep
<1>6. ASSUME NEW h \in Handlers, NEW ref \in Refs,
             \/ \E a \in Writers, sync \in CommitSyncs : PrepareWrite(h, ref, a, sync)
             \/ \E flag \in RuleChanges : PlanRule(h, ref, flag)
      PROVE  UNCHANGED <<command, proposal>>
  BY <1>6 DEF PrepareWrite, PlanRule, review, clients
<1> QED
  BY <1>1, <1>2, <1>3, <1>4, <1>5, <1>6 DEF Next
\* A commit that advances a ref and was in no history is the one that is added.
LEMMA AdvanceCommits ==
    ASSUME TypeOK, NEW ref \in Refs, NEW e \in Commits, NEW d \in Digests, Advance(ref, e, d),
           \A other \in Refs : \A i \in 1 .. Len(advances[other]) : advances[other][i].head # d
    PROVE  d \notin Committed /\ Committed' = Committed \cup {d}
<1> DEFINE n == Len(advances[ref])
<1>1. /\ \A r \in Refs : DOMAIN advances[r] = 1 .. Len(advances[r]) /\ Len(advances[r]) \in Nat
      /\ DOMAIN advances'[ref] = 1 .. n + 1
      /\ \A i \in 1 .. n : advances'[ref][i] = advances[ref][i]
      /\ advances'[ref][n + 1].head = d
      /\ \A r \in Refs \ {ref} : advances'[r] = advances[r]
  <2>1. \A r \in Refs : DOMAIN advances[r] = 1 .. Len(advances[r]) /\ Len(advances[r]) \in Nat
    BY EventShape
  <2>2. DOMAIN advances'[ref] = 1 .. n + 1
    <3> DEFINE E == [previous: Commits, head: Digests]
               event == [previous |-> e, head |-> d]
    <3>1. advances[ref] \in Seq(E) /\ event \in E
      BY DEF TypeOK
    <3>2. advances'[ref] = Append(advances[ref], event)
      BY DEF Advance, TypeOK
    <3> HIDE DEF E, event
    <3>3. advances'[ref] \in Seq(E)
      BY <3>1, <3>2, AppendProperties
    <3>4. Len(advances'[ref]) = n + 1
      BY AppendedEvents
    <3> QED
      BY <3>3, <3>4
  <2>3. /\ advances'[ref][n + 1] = [previous |-> e, head |-> d]
        /\ \A i \in 1 .. n : advances'[ref][i] = advances[ref][i]
        /\ \A r \in Refs \ {ref} : advances'[r] = advances[r]
    BY AppendedEvents
  <2>4. advances'[ref][n + 1].head = d
    BY <2>3
  <2> QED
    BY <2>1, <2>2, <2>3, <2>4
<1> HIDE DEF n
<1>2. n \in Nat /\ DOMAIN advances[ref] = 1 .. n
  BY <1>1 DEF n
<1>3. d \notin Committed
  BY <1>1 DEF Committed, HeadsOf
<1>4. HeadsOf(ref)' = HeadsOf(ref) \cup {d}
  <2>1. \A i \in 1 .. n + 1 : i \in 1 .. n \/ i = n + 1
    BY <1>2
  <2>2. \A i \in 1 .. n : i \in 1 .. n + 1
    BY <1>2
  <2>3. n + 1 \in 1 .. n + 1
    BY <1>2
  <2> QED
    BY <1>1, <1>2, <2>1, <2>2, <2>3 DEF HeadsOf
<1>5. \A r \in Refs \ {ref} : HeadsOf(r)' = HeadsOf(r)
  BY <1>1 DEF HeadsOf
<1>6. Committed' = Committed \cup {d}
  BY <1>4, <1>5 DEF Committed
<1> QED
  BY <1>3, <1>6

\* A step that leaves the events alone leaves the history alone.
LEMMA CommittedStays == ASSUME advances' = advances PROVE Committed' = Committed
BY DEF Committed, HeadsOf

\* Every commit of a history is a Decision of the ledger.
LEMMA CommittedDecided == ASSUME IndInv PROVE \A d \in Committed : d \in Digests /\ ledger[d] # None
<1>1. ASSUME NEW ref \in Refs, NEW i \in DOMAIN advances[ref]
      PROVE  advances[ref][i].head \in Digests /\ ledger[advances[ref][i].head] # None
  <2>1. i \in 1 .. Len(advances[ref]) /\ advances[ref][i].head \in Digests
    BY EventShape DEF IndInv, TypeInv
  <2>2. <<ref, advances[ref][i].head>> \in grants
    BY <2>1 DEF EntriesGranted, IndInv, HistoryInv
  <2> QED
    BY <2>1, <2>2 DEF GrantsSound, IndInv, HistoryInv
<1> QED
  BY <1>1 DEF Committed, HeadsOf

\* The request of a deciding handler asks for a decision on a Proposal that exists.
LEMMA DecidesShape ==
    ASSUME IndInv, NEW h \in Handlers, NEW d \in Digests, Decides(h, d)
    PROVE  LET r == call[h].request
               t == command[r].transition
           IN  /\ r \in Requests /\ command[r] # None
               /\ command[r].body \in DecideBodies /\ command[r].body.action = "decide"
               /\ t \in Transitions /\ proposal[t] \in Proposals
               /\ ledger'[d] =
                     [subject |-> SubjectOf(proposal[t]), ref |-> proposal[t].ref,
                      actor |-> ActorOf[r], outcome |-> command[r].body.outcome,
                      policy |-> command[r].body.policy, evidence |-> observed[t]]
               /\ ledger'[d] # None
               /\ \A x \in Digests \ {d} : ledger'[x] = ledger[x]
<1> DEFINE r == call[h].request
           t == command[r].transition
           p == proposal[t]
           decision == [subject |-> SubjectOf(p), ref |-> p.ref, actor |-> ActorOf[r],
                        outcome |-> command[r].body.outcome, policy |-> command[r].body.policy,
                        evidence |-> observed[t]]
<1>1. /\ r \in Requests /\ command[r] # None
      /\ t \in Transitions /\ p \in Proposals /\ observed[t] \in SUBSET Statements
      /\ ActorOf[r] \in Actors /\ command[r].body.action = "decide"
  BY ServedFacts DEF Decides, Serving, IndInv, TypeInv, ServesCommands
<1>2. command[r].body \in DecideBodies
  BY <1>1, CommandShape DEF IndInv, TypeInv
<1>3. decision \in Decisions
  BY <1>1, <1>2 DEF Decides, ReviewCurrent, DecideBodies, Decisions, SubjectOf, Subjects, Proposals
<1>4. ledger' = [ledger EXCEPT ![d] = decision]
  BY DEF Decides
<1>5. decision # None
  BY <1>3, NullAssumption
<1> HIDE DEF decision
<1>6. ledger'[d] = decision /\ \A x \in Digests \ {d} : ledger'[x] = ledger[x]
  BY <1>4 DEF IndInv, TypeInv, TypeOK
<1> QED
  BY <1>1, <1>2, <1>5, <1>6 DEF decision

\* The request of a committing handler names a Decision on its Proposal that is
\* in the history of no ref, and afterwards that Decision is in the history.
LEMMA CommitsShape ==
    ASSUME IndInv, NEW h \in Handlers, NEW d \in Digests, CommitsNow(h, d)
    PROVE  LET r == call[h].request
               p == proposal[command[r].transition]
           IN  /\ r \in Requests /\ command[r] # None
               /\ command[r].body \in CommitBodies /\ command[r].body.action = "commit"
               /\ command[r].transition \in Transitions /\ p \in Proposals
               /\ ledger[d] # None /\ ledger[d].subject = SubjectOf(p)
               /\ head[p.ref] = p.refHead
               /\ d \notin Committed
               /\ head' = [head EXCEPT ![p.ref] = d]
               /\ Committed' = Committed \cup {d}
<1> DEFINE r == call[h].request
           p == proposal[command[r].transition]
<1>1. /\ r \in Requests /\ command[r] # None
      /\ command[r].transition \in Transitions /\ p \in Proposals
      /\ command[r].body.action = "commit"
  BY ServedFacts DEF CommitsNow, Serving, IndInv, TypeInv, ServesCommands
<1>2. command[r].body \in CommitBodies
  BY <1>1, CommandShape DEF IndInv, TypeInv
<1>3. /\ ledger[d] # None /\ ledger[d].subject = SubjectOf(p)
      /\ command[r].body.expectedHead = p.refHead
  BY DEF CommitsNow, IndInv, HistoryInv, CommitsChecked
<1>4. /\ Advance(p.ref, p.refHead, d)
      /\ p.ref \in Refs /\ p.refHead \in Commits
  BY <1>1, <1>3 DEF CommitsNow, Proposals
<1>5. ledger[d].subject.base = head[p.ref]
  <2>1. SubjectOf(p).base = p.refHead
    BY DEF SubjectOf
  <2>2. head[p.ref] = p.refHead
    BY <1>4 DEF Advance
  <2> QED
    BY <1>3, <2>1, <2>2
<1>6. \A other \in Refs : \A i \in 1 .. Len(advances[other]) : advances[other][i].head # d
  BY <1>4, <1>5, NotYetCommitted DEF CommitsNow
<1>7. d \notin Committed /\ Committed' = Committed \cup {d}
  BY <1>4, <1>6, AdvanceCommits DEF IndInv, TypeInv
<1> QED
  BY <1>1, <1>2, <1>3, <1>4, <1>7 DEF Advance

\* A write decides a commit without edits, which enters the history.
LEMMA WritesShape ==
    ASSUME IndInv, NEW h \in Handlers, NEW d \in Digests, Writes(h, d)
    PROVE  /\ call[h].ref \in Refs
           /\ ledger'[d] # None /\ ledger'[d].subject.content = {}
           /\ \A x \in Digests \ {d} : ledger'[x] = ledger[x]
           /\ d \notin Committed
           /\ head' = [head EXCEPT ![call[h].ref] = d]
           /\ Committed' = Committed \cup {d}
<1> DEFINE c == call[h]
           policy == IF c.expected = NoPolicy THEN WriterPolicy ELSE c.expected
           decision == [subject |-> [base |-> c.expectedHead, content |-> {}, actor |-> c.actor],
                        ref |-> c.ref, actor |-> c.actor, outcome |-> "accepted",
                        policy |-> policy, evidence |-> WriterEvidence]
<1>1. /\ c.ref \in Refs /\ c.actor \in Actors /\ c.expectedHead \in Commits
      /\ c.expected \in Policies \cup {NoPolicy}
  BY CallShape DEF Writes, IndInv, TypeInv
<1>2. policy \in Policies /\ WriterEvidence \in SUBSET Statements
  BY <1>1, LifecycleAssumption DEF LifecycleAssumption
<1>3. decision \in Decisions
  BY <1>1, <1>2 DEF Decisions, Subjects, Outcomes
<1>4. decision # None /\ decision.subject.content = {}
  BY <1>3, NullAssumption
<1>5. ledger' = [ledger EXCEPT ![d] = decision]
  BY DEF Writes
<1> HIDE DEF decision
<1>6. ledger'[d] = decision /\ \A x \in Digests \ {d} : ledger'[x] = ledger[x]
  BY <1>5 DEF IndInv, TypeInv, TypeOK
<1>7. \A other \in Refs : \A i \in 1 .. Len(advances[other]) : advances[other][i].head # d
  BY EventShape DEF Writes, EntriesGranted, GrantsSound, IndInv, TypeInv, HistoryInv
<1>8. d \notin Committed /\ Committed' = Committed \cup {d}
  BY <1>1, <1>7, AdvanceCommits DEF Writes, IndInv, TypeInv
<1> QED
  BY <1>1, <1>4, <1>6, <1>8 DEF Writes, Advance
(***************************************************************************)
(* Live reviews.                                                           *)
(***************************************************************************)
\* What one step says of the Decisions it records.
LiveReview ==
    \A r \in Requests : \A x \in receipts' \ receipts :
        /\ x.body.action = "decide"
        /\ command[r] # None
        /\ x = ReceiptFor(r, x.result)
        => LET p == proposal[x.transition]
               d == ledger'[x.result]
           IN  /\ d.evidence = x.body.statements
               /\ d.evidence = observed[x.transition]
               /\ d.policy = Applicable(p, ActorOf[r])
               /\ d.subject.base = head[p.ref]
               /\ d.subject.content = draft[p.workspace].content
               /\ p.revision = draft[p.workspace].revision

\* The transaction that decides reads the review it compares with the command.
LEMMA DecidesLive == ASSUME IndInv, NEW h \in Handlers, NEW d \in Digests, Decides(h, d)
                     PROVE  LiveReview
<1> DEFINE r0 == call[h].request
           t == command[r0].transition
           p == proposal[t]
           taken == [subject |-> SubjectOf(p), ref |-> p.ref, actor |-> ActorOf[r0],
                     outcome |-> command[r0].body.outcome, policy |-> command[r0].body.policy,
                     evidence |-> observed[t]]
<1>1. ledger'[d] = taken
  <2>1. ledger' = [ledger EXCEPT ![d] = taken]
    BY DEF Decides
  <2> HIDE DEF taken
  <2> QED
    BY <2>1 DEF IndInv, TypeInv, TypeOK
<1>2. /\ ledger'[d].subject.base = p.refHead /\ ledger'[d].subject.content = p.content
      /\ ledger'[d].evidence = observed[t] /\ ledger'[d].policy = command[r0].body.policy
  <2>1. /\ taken.subject = SubjectOf(p) /\ taken.evidence = observed[t]
        /\ taken.policy = command[r0].body.policy
    OBVIOUS
  <2>2. SubjectOf(p).base = p.refHead /\ SubjectOf(p).content = p.content
    BY DEF SubjectOf
  <2> HIDE DEF taken, p, t, r0
  <2> QED
    BY <1>1, <2>1, <2>2
<1> HIDE DEF taken
<1>3. /\ p.content = draft[p.workspace].content /\ draft[p.workspace].revision = p.revision
      /\ head[p.ref] = p.refHead
      /\ command[r0].body.policy = Applicable(p, ActorOf[r0])
      /\ command[r0].body.statements = observed[t]
  BY DEF Decides, ReviewCurrent, BindsDraft, StatementsCurrent
<1>4. ASSUME NEW r \in Requests, NEW x \in receipts' \ receipts, x = ReceiptFor(r, x.result)
      PROVE  /\ x.result = d /\ x.transition = t
             /\ x.body = command[r0].body /\ ActorOf[r] = ActorOf[r0]
  <2>1. x = ReceiptFor(r0, d)
    BY <1>4 DEF Decides
  <2> QED
    BY <1>4, <2>1 DEF ReceiptFor
<1> HIDE DEF p, t, r0
<1> QED
  BY <1>2, <1>3, <1>4 DEF LiveReview, p

\* The receipts that a commit stores are not those of a decision.
LEMMA CommitsLive == ASSUME IndInv, NEW h \in Handlers, NEW d \in Digests, CommitsNow(h, d)
                     PROVE  LiveReview
<1>1. command[call[h].request].body.action = "commit"
  BY CommitsShape
<1>2. receipts' = receipts \cup {ReceiptFor(call[h].request, d)}
  BY DEF CommitsNow
<1>3. ReceiptFor(call[h].request, d).body = command[call[h].request].body
  BY DEF ReceiptFor
<1>4. \A x \in receipts' \ receipts : x.body = command[call[h].request].body
  BY <1>2, <1>3
<1> QED
  BY <1>1, <1>4 DEF LiveReview

\* A Decision is recorded on the Draft, the head, the Statements and the policy that are
\* in force at that moment and that its command froze, whatever happened to them
\* in between (acquireTransitionReviewLock, assertTransitionReviewPrecondition).
THEOREM DecidesLiveReviews == Spec => DecisionsOnLiveReview
<1>1. IndInv /\ [Next]_vars => LiveReview
  <2> SUFFICES ASSUME IndInv, [Next]_vars PROVE LiveReview
    OBVIOUS
  <2>1. CASE receipts' = receipts
    BY <2>1 DEF LiveReview
  <2> QED
    BY <2>1, StepEffects, DecidesLive, CommitsLive DEF Writes
<1>2. IndInv /\ [Next]_vars =>
        [\A r \in Requests : \A x \in receipts' \ receipts :
            /\ x.body.action = "decide"
            /\ command[r] # None
            /\ x = ReceiptFor(r, x.result)
            => LET p == proposal[x.transition]
                   d == ledger'[x.result]
               IN  /\ d.evidence = x.body.statements
                   /\ d.evidence = observed[x.transition]
                   /\ d.policy = Applicable(p, ActorOf[r])
                   /\ d.subject.base = head[p.ref]
                   /\ d.subject.content = draft[p.workspace].content
                   /\ p.revision = draft[p.workspace].revision]_vars
  BY <1>1 DEF LiveReview
<1> QED
  BY <1>2, Inductive, PTL DEF Spec, DecisionsOnLiveReview

(***************************************************************************)
(* Receipts. OneEffectPerCommand is not inductive: that the result of a    *)
(* new receipt is the result of no other follows from what the results of  *)
(* the receipts are, Decisions of the ledger and commits of the history.   *)
(***************************************************************************)
\* A decision was answered with a Decision, a commit with a commit of some history.
ResultsExist ==
    \A x \in receipts :
        /\ x.body.action = "decide" => ledger[x.result] # None
        /\ x.body.action = "commit" => x.result \in Committed

ReceiptInv == OneEffectPerCommand /\ ResultsExist

\* A receipt whose key is unclaimed and whose result is new.
LEMMA NewReceipt ==
    ASSUME ReceiptInv, NEW r \in Requests, command[r] # None, Unclaimed(r), NEW d,
           receipts' = receipts \cup {ReceiptFor(r, d)},
           \A y \in receipts : y.body.action = command[r].body.action => y.result # d
    PROVE  /\ \A x, y \in receipts' :
                 x.transition = y.transition /\ x.actor = y.actor /\ x.requestId = y.requestId
                 => x = y
           /\ \A x, y \in receipts' :
                 x.result = y.result /\ x.body.action = y.body.action => x = y
<1> DEFINE new == ReceiptFor(r, d)
<1>1. /\ new.transition = command[r].transition /\ new.actor = ActorOf[r]
      /\ new.requestId = RequestIdOf[r] /\ new.body = command[r].body /\ new.result = d
  BY DEF ReceiptFor
<1>2. \A y \in receipts :
         ~(y.transition = new.transition /\ y.actor = new.actor /\ y.requestId = new.requestId)
  BY <1>1 DEF Unclaimed, ReceiptsOf
<1>3. \A y \in receipts : ~(y.result = new.result /\ y.body.action = new.body.action)
  BY <1>1
<1> HIDE DEF new
<1>4. receipts' = receipts \cup {new}
  BY DEF new
<1> QED
  BY <1>2, <1>3, <1>4 DEF ReceiptInv, OneEffectPerCommand

\* A decision stores its own receipt with a digest that no Decision had.
LEMMA DecidesReceipt ==
    ASSUME IndInv, ReceiptInv, NEW h \in Handlers, NEW d \in Digests, Decides(h, d)
    PROVE  ReceiptInv'
<1> DEFINE r == call[h].request
           new == ReceiptFor(r, d)
<1>1. /\ r \in Requests /\ command[r] # None /\ command[r].body.action = "decide"
      /\ ledger'[d] # None /\ \A x \in Digests \ {d} : ledger'[x] = ledger[x]
  BY DecidesShape
<1>2. /\ receipts' = receipts \cup {new} /\ Unclaimed(r) /\ ledger[d] = None
      /\ advances' = advances
  BY DEF Decides
<1>3. new.body.action = "decide" /\ new.result = d
  BY <1>1 DEF ReceiptFor
<1>4. \A y \in receipts : y.body.action = "decide" => y.result # d
  BY <1>2 DEF ReceiptInv, ResultsExist
<1>5. \A y \in receipts : y.result \in Digests
  BY DEF IndInv, TypeInv, TypeOK, Receipts
<1>6. Committed' = Committed
  BY <1>2, CommittedStays
<1> HIDE DEF new
<1>7. ResultsExist'
  BY <1>1, <1>2, <1>3, <1>5, <1>6 DEF ReceiptInv, ResultsExist
<1>8. /\ \A x, y \in receipts' :
            x.transition = y.transition /\ x.actor = y.actor /\ x.requestId = y.requestId
            => x = y
      /\ \A x, y \in receipts' :
            x.result = y.result /\ x.body.action = y.body.action => x = y
  BY <1>1, <1>2, <1>4, NewReceipt DEF new
<1>9. \A x \in Digests : ledger'[x] # None /\ ledger'[x].subject.content # {} =>
         \E y \in receipts' : y.body.action = "decide" /\ y.result = x
  <2> SUFFICES ASSUME NEW x \in Digests, ledger'[x] # None, ledger'[x].subject.content # {}
               PROVE  \E y \in receipts' : y.body.action = "decide" /\ y.result = x
    OBVIOUS
  <2>1. CASE x = d
    BY <1>2, <1>3, <2>1
  <2>2. CASE x # d
    BY <1>1, <1>2, <2>2 DEF ReceiptInv, OneEffectPerCommand
  <2> QED
    BY <2>1, <2>2
<1> QED
  BY <1>7, <1>8, <1>9 DEF ReceiptInv, OneEffectPerCommand

\* A commit stores its own receipt with a digest that was in no history.
LEMMA CommitsReceipt ==
    ASSUME IndInv, ReceiptInv, NEW h \in Handlers, NEW d \in Digests, CommitsNow(h, d)
    PROVE  ReceiptInv'
<1> DEFINE r == call[h].request
           new == ReceiptFor(r, d)
<1>1. /\ r \in Requests /\ command[r] # None /\ command[r].body.action = "commit"
      /\ d \notin Committed /\ Committed' = Committed \cup {d}
  BY CommitsShape
<1>2. receipts' = receipts \cup {new} /\ Unclaimed(r) /\ ledger' = ledger
  BY DEF CommitsNow
<1>3. new.body.action = "commit" /\ new.result = d
  BY <1>1 DEF ReceiptFor
<1>4. \A y \in receipts : y.body.action = "commit" => y.result # d
  BY <1>1 DEF ReceiptInv, ResultsExist
<1> HIDE DEF new
<1>5. ResultsExist'
  BY <1>1, <1>2, <1>3 DEF ReceiptInv, ResultsExist
<1>6. /\ \A x, y \in receipts' :
            x.transition = y.transition /\ x.actor = y.actor /\ x.requestId = y.requestId
            => x = y
      /\ \A x, y \in receipts' :
            x.result = y.result /\ x.body.action = y.body.action => x = y
  BY <1>1, <1>2, <1>4, NewReceipt DEF new
<1>7. \A x \in Digests : ledger'[x] # None /\ ledger'[x].subject.content # {} =>
         \E y \in receipts' : y.body.action = "decide" /\ y.result = x
  BY <1>2 DEF ReceiptInv, OneEffectPerCommand
<1> QED
  BY <1>5, <1>6, <1>7 DEF ReceiptInv, OneEffectPerCommand

\* A write stores no receipt, and its Decision carries no edits.
LEMMA WritesReceipt ==
    ASSUME IndInv, ReceiptInv, NEW h \in Handlers, NEW d \in Digests, Writes(h, d)
    PROVE  ReceiptInv'
<1>1. /\ ledger'[d] # None /\ ledger'[d].subject.content = {}
      /\ \A x \in Digests \ {d} : ledger'[x] = ledger[x]
      /\ Committed' = Committed \cup {d}
  BY WritesShape
<1>2. receipts' = receipts
  BY DEF Writes
<1>3. \A y \in receipts : y.result \in Digests
  BY DEF IndInv, TypeInv, TypeOK, Receipts
<1>4. ResultsExist'
  BY <1>1, <1>2, <1>3 DEF ReceiptInv, ResultsExist
<1>5. \A x \in Digests : ledger'[x] # None /\ ledger'[x].subject.content # {} =>
         \E y \in receipts : y.body.action = "decide" /\ y.result = x
  BY <1>1 DEF ReceiptInv, OneEffectPerCommand
<1> QED
  BY <1>2, <1>4, <1>5 DEF ReceiptInv, OneEffectPerCommand

\* Every step keeps what the receipts say.
LEMMA NextReceipt == ASSUME IndInv, ReceiptInv, [Next]_vars PROVE ReceiptInv'
<1>1. CASE UNCHANGED <<repository, receipts>>
  <2>1. UNCHANGED <<ledger, receipts>> /\ Committed' = Committed
    BY <1>1, CommittedStays DEF repository
  <2> QED
    BY <2>1 DEF ReceiptInv, OneEffectPerCommand, ResultsExist
<1> QED
  BY <1>1, StepEffects, DecidesReceipt, CommitsReceipt, WritesReceipt

\* However a command is repeated, raced or lost, it decides or commits at most
\* once, and every Decision with edits has its receipt
\* (recordTransitionCommandReceipt in the transaction of the effect).
THEOREM CommandsActOnce == Spec => []OneEffectPerCommand
<1>1. Init => ReceiptInv
  BY DEF Init, ReceiptInv, OneEffectPerCommand, ResultsExist
<1>2. IndInv /\ ReceiptInv /\ [Next]_vars => ReceiptInv'
  BY NextReceipt
<1>3. ReceiptInv => OneEffectPerCommand
  BY DEF ReceiptInv
<1> QED
  BY <1>1, <1>2, <1>3, Inductive, PTL DEF Spec
(***************************************************************************)
(* Answers. A handler that is about to reply holds the result of a receipt *)
(* of its request, and receipts and composed commands are never removed.   *)
(***************************************************************************)
\* A receipt stores the result d for exactly the command of request r.
Backed(r, d) == \E x \in ReceiptsOf(r) : x.body = command[r].body /\ x.result = d

Replying(r, d) == [pc |-> "reply", request |-> r, result |-> d]

RepliesBacked ==
    \A h \in Handlers, r \in Requests, d \in Digests : call[h] = Replying(r, d) => Backed(r, d)

AnswerInv == AnswersAreReceipts /\ RepliesBacked

\* What one step adds to the answers and to the replies is backed by a receipt.
BackedStep ==
    /\ \A r \in Requests : \A d \in answers'[r] \ {Refused} : d \in answers[r] \/ Backed(r, d)
    /\ \A h \in Handlers, r \in Requests, d \in Digests : call'[h] = Replying(r, d) =>
          call'[h] = call[h] \/ Backed(r, d) \/ Backed(r, d)'

\* Receipts are only added.
LEMMA ReceiptsGrow == ASSUME IndInv, [Next]_vars PROVE receipts \subseteq receipts'
BY StepEffects DEF Decides, CommitsNow, Writes

\* What a receipt backs it backs for ever.
LEMMA BackedStays ==
    ASSUME IndInv, [Next]_vars, NEW r \in Requests, NEW d, Backed(r, d) PROVE Backed(r, d)'
<1>1. command[r] # None
  BY DEF Backed, ReceiptsOf
<1>2. command'[r] = command[r] /\ receipts \subseteq receipts'
  BY <1>1, Permanent, ReceiptsGrow DEF IndInv
<1> QED
  BY <1>2 DEF Backed, ReceiptsOf

\* A handler moves, though not to a reply, and tells nobody anything.
LEMMA MoveBacked ==
    ASSUME TypeInv, NEW h \in Handlers, NEW c, c.pc # "reply", Busy(h, c), answers' = answers
    PROVE  BackedStep
BY DEF BackedStep, Replying, Busy, TypeInv, TypeOK

\* A refusal tells its client no result.
LEMMA RefuseBacked ==
    ASSUME TypeInv, NEW h \in Handlers, NEW r \in Requests, Refuse(h, r) PROVE BackedStep
<1>1. call' = [call EXCEPT ![h] = Idle] /\ answers' = [answers EXCEPT ![r] = @ \cup {Refused}]
  BY DEF Refuse, Answer, Busy
<1>2. Idle.pc # "reply"
  BY DEF Idle
<1> QED
  BY <1>1, <1>2 DEF BackedStep, Replying, TypeInv, TypeOK

\* The answer of a stored receipt is backed by it.
LEMMA ResolveRetryBacked ==
    ASSUME TypeInv, NEW h \in Handlers, NEW r \in Requests, ResolveRetry(h, r) PROVE BackedStep
<1> PICK x \in ReceiptsOf(r) :
        IF SameCommand(x, r)
        THEN /\ Busy(h, [pc |-> "reply", request |-> r, result |-> x.result])
             /\ UNCHANGED <<repository, review, draft, receipts, clients, published>>
        ELSE Refuse(h, r)
  BY DEF ResolveRetry
<1>1. CASE SameCommand(x, r)
  <2>1. Backed(r, x.result)
    BY <1>1 DEF SameCommand, Backed
  <2>2. /\ call' = [call EXCEPT ![h] = [pc |-> "reply", request |-> r, result |-> x.result]]
        /\ answers' = answers
    BY <1>1 DEF Busy, clients
  <2> QED
    BY <2>1, <2>2 DEF BackedStep, Replying, TypeInv, TypeOK
<1>2. CASE ~SameCommand(x, r)
  BY <1>2, RefuseBacked
<1> QED
  BY <1>1, <1>2

\* A handler that goes on with its command replies to nobody yet.
LEMMA GotoBacked ==
    ASSUME TypeInv, NEW h \in Handlers, call[h].pc \in Serving \ {"reply"},
           NEW pc \in {"decide", "precheck", "commit", "winner"}, Goto(h, pc)
    PROVE  BackedStep
<1>1. call[h] \in [pc: {"lookup", "decide", "precheck", "commit", "winner"}, request: Requests]
  BY DEF TypeInv, TypeOK, Calls, Idle, Serving
<1>2. [call[h] EXCEPT !.pc = pc].pc # "reply"
  BY <1>1
<1>3. Busy(h, [call[h] EXCEPT !.pc = pc]) /\ answers' = answers
  BY DEF Goto, clients
<1> QED
  BY <1>2, <1>3, MoveBacked

\* The transactions reply with the result of the receipt they store.
LEMMA EffectBacked ==
    ASSUME IndInv, NEW h \in Handlers, NEW d \in Digests, Decides(h, d) \/ CommitsNow(h, d)
    PROVE  BackedStep
<1>1. PICK r \in Requests : r = call[h].request /\ command[r] # None
  <2>1. call[h].request \in Requests /\ command[call[h].request] # None
    <3>1. CASE Decides(h, d)
      BY <3>1, DecidesShape
    <3>2. CASE CommitsNow(h, d)
      BY <3>2, CommitsShape
    <3> QED
      BY <3>1, <3>2
  <2> QED
    BY <2>1
<1>2. /\ ReceiptFor(r, d) \in receipts' /\ UNCHANGED <<command, answers>>
      /\ call' = [call EXCEPT ![h] = [pc |-> "reply", request |-> r, result |-> d]]
  <2>1. CASE Decides(h, d)
    BY <1>1, <2>1 DEF Decides, clients, Busy
  <2>2. CASE CommitsNow(h, d)
    BY <1>1, <2>2 DEF CommitsNow, clients, Busy
  <2> QED
    BY <2>1, <2>2
<1>3. Backed(r, d)'
  BY <1>1, <1>2 DEF Backed, ReceiptsOf, ReceiptFor
<1>4. call'[h] = [pc |-> "reply", request |-> r, result |-> d]
      /\ \A g \in Handlers \ {h} : call'[g] = call[g]
  BY <1>2 DEF IndInv, TypeInv, TypeOK
<1>5. ASSUME NEW g \in Handlers, NEW q \in Requests, NEW x \in Digests,
             call'[g] = Replying(q, x), call'[g] # call[g]
      PROVE  Backed(q, x)'
  <2>1. Replying(q, x) = [pc |-> "reply", request |-> r, result |-> d]
    BY <1>4, <1>5
  <2>2. q = r /\ x = d
    BY <2>1 DEF Replying
  <2> QED
    BY <1>3, <2>2
<1> QED
  BY <1>2, <1>5 DEF BackedStep

\* A call that replies is determined by its request and its result.
LEMMA ReplyRecord ==
    ASSUME NEW c \in [pc: {"reply"}, request: Requests, result: Digests]
    PROVE  c.request \in Requests /\ c.result \in Digests /\ c = Replying(c.request, c.result)
BY DEF Replying

\* Every step of a handler.
LEMMA HandlerBacked ==
    ASSUME IndInv, RepliesBacked, NEW h \in Handlers, HandlerStep(h) \/ Crash(h) PROVE BackedStep
<1>1. CASE Lookup(h)
  <2>1. call[h].request \in Requests /\ call[h].pc \in Serving \ {"reply"}
    BY <1>1, CallShape DEF Lookup, IndInv, TypeInv, Serving
  <2>2. \/ Refuse(h, call[h].request)
        \/ ResolveRetry(h, call[h].request)
        \/ Goto(h, "decide")
        \/ Goto(h, "precheck")
    BY <1>1 DEF Lookup
  <2> QED
    BY <2>1, <2>2, RefuseBacked, ResolveRetryBacked, GotoBacked DEF IndInv
<1>2. CASE DecideTransaction(h)
  <2>1. call[h].request \in Requests /\ call[h].pc \in Serving \ {"reply"}
    BY <1>2, CallShape DEF DecideTransaction, IndInv, TypeInv, Serving
  <2>2. \/ Refuse(h, call[h].request) \/ Goto(h, "winner")
        \/ \E d \in Digests : Decides(h, d)
    BY <1>2 DEF DecideTransaction, Decides
  <2> QED
    BY <2>1, <2>2, RefuseBacked, GotoBacked, EffectBacked DEF IndInv
<1>3. CASE CommitPrecheck(h)
  <2>1. call[h].request \in Requests /\ call[h].pc \in Serving \ {"reply"}
    BY <1>3, CallShape DEF CommitPrecheck, IndInv, TypeInv, Serving
  <2> QED
    BY <1>3, <2>1, RefuseBacked, GotoBacked DEF CommitPrecheck, IndInv
<1>4. CASE CommitTransaction(h)
  <2>1. call[h].request \in Requests /\ call[h].pc \in Serving \ {"reply"}
    BY <1>4, CallShape DEF CommitTransaction, IndInv, TypeInv, Serving
  <2>2. command[call[h].request].body.decision \in Digests
    BY <1>4, ServedFacts, CommandShape
    DEF CommitTransaction, Serving, IndInv, TypeInv, ServesCommands, CommitBodies
  <2>3. \/ Refuse(h, call[h].request) \/ Goto(h, "winner")
        \/ \E d \in Digests : CommitsNow(h, d)
    BY <1>4, <2>2 DEF CommitTransaction, CommitsNow
  <2> QED
    BY <2>1, <2>3, RefuseBacked, GotoBacked, EffectBacked DEF IndInv
<1>5. CASE ResolveWinner(h)
  <2>1. call[h].request \in Requests
    BY <1>5, CallShape DEF ResolveWinner, IndInv, TypeInv, Serving
  <2> QED
    BY <1>5, <2>1, ResolveRetryBacked, RefuseBacked DEF ResolveWinner, IndInv
<1>6. CASE Reply(h)
  <2>1. Backed(call[h].request, call[h].result) /\ call[h].request \in Requests
    <3>1. call[h] \in [pc: {"reply"}, request: Requests, result: Digests]
      <4>1. call[h] \in Calls /\ call[h].pc = "reply"
        BY <1>6 DEF Reply, IndInv, TypeInv, TypeOK
      <4> QED
        BY <4>1 DEF Calls, Idle
    <3>2. /\ call[h].request \in Requests /\ call[h].result \in Digests
          /\ call[h] = Replying(call[h].request, call[h].result)
      BY <3>1, ReplyRecord
    <3> QED
      BY <3>2 DEF RepliesBacked
  <2>2. /\ call' = [call EXCEPT ![h] = Idle]
        /\ answers' = [answers EXCEPT ![call[h].request] = @ \cup {call[h].result}]
    BY <1>6 DEF Reply, Answer, Busy
  <2>3. Idle.pc # "reply"
    BY DEF Idle
  <2> QED
    BY <2>1, <2>2, <2>3 DEF BackedStep, Replying, IndInv, TypeInv, TypeOK
<1>7. CASE \/ \E t \in Transitions : Materialize(h, t)
           \/ WriteTransaction(h) \/ WriteRule(h) \/ Crash(h)
  <2>1. Busy(h, Idle) /\ answers' = answers /\ Idle.pc # "reply"
    BY <1>7 DEF Materialize, WriteTransaction, WriteRule, Crash, clients, Idle
  <2> QED
    BY <2>1, MoveBacked DEF IndInv
<1> QED
  BY <1>1, <1>2, <1>3, <1>4, <1>5, <1>6, <1>7 DEF HandlerStep

\* Steps outside the handlers tell nobody anything.
LEMMA OutsideBacked ==
    ASSUME TypeInv,
           \/ WorkspaceStep \/ ReviewStep \/ ClientStep
           \/ \E h \in Handlers, ref \in Refs :
                 \/ \E a \in Writers, sync \in CommitSyncs : PrepareWrite(h, ref, a, sync)
                 \/ \E flag \in RuleChanges : PlanRule(h, ref, flag)
    PROVE  BackedStep
<1>1. CASE UNCHANGED <<call, answers>>
  BY <1>1 DEF BackedStep
<1>2. CASE \E h \in Handlers : \E c : Busy(h, c) /\ c.pc # "reply" /\ answers' = answers
  BY <1>2, MoveBacked
<1>3. CASE WorkspaceStep
  BY <1>1, <1>3 DEF WorkspaceStep, Publish, TouchDraft, Reconcile, Discard, clients
<1>4. CASE ReviewStep
  <2>1. ASSUME NEW h \in Handlers, NEW w, NEW a, PrepareReview(h, w, a)
        PROVE  \E c : Busy(h, c) /\ c.pc # "reply" /\ answers' = answers
    BY <2>1 DEF PrepareReview, clients
  <2>2. ASSUME NEW h \in Handlers, NEW w, NEW a, PrepareReview(h, w, a) PROVE BackedStep
    BY <1>2, <2>1, <2>2
  <2>3. CASE \/ \E t \in Transitions, s \in Evidence : RecordStatement(t, s)
             \/ \E ref \in Refs :
                   UnbindPolicy(ref) \/ \E policy \in BindablePolicies : BindPolicy(ref, policy)
    BY <1>1, <2>3 DEF RecordStatement, UnbindPolicy, BindPolicy, clients
  <2> QED
    BY <1>4, <2>2, <2>3 DEF ReviewStep
<1>5. CASE ClientStep
  <2>1. ASSUME NEW h \in Handlers, NEW r, Deliver(h, r) PROVE BackedStep
    <3>1. \E c : Busy(h, c) /\ c.pc # "reply" /\ answers' = answers
      BY <2>1 DEF Deliver, clients
    <3> QED
      BY <1>2, <3>1
  <2>2. ASSUME NEW r, NEW t, NEW body, Compose(r, t, body) PROVE BackedStep
    BY <1>1, <2>2 DEF Compose
  <2> QED
    BY <1>5, <2>1, <2>2 DEF ClientStep, ComposeDecision, ComposeCommit
<1>6. ASSUME NEW h \in Handlers, NEW ref \in Refs,
             \/ \E a \in Writers, sync \in CommitSyncs : PrepareWrite(h, ref, a, sync)
             \/ \E flag \in RuleChanges : PlanRule(h, ref, flag)
      PROVE  BackedStep
  <2>1. \E c : Busy(h, c) /\ c.pc # "reply" /\ answers' = answers
    BY <1>6 DEF PrepareWrite, PlanRule, clients
  <2> QED
    BY <1>2, <2>1
<1> QED
  BY <1>3, <1>4, <1>5, <1>6

\* Every step keeps what the answers say.
LEMMA NextAnswer == ASSUME IndInv, AnswerInv, [Next]_vars PROVE AnswerInv'
<1>1. BackedStep
  <2>1. CASE UNCHANGED vars
    BY <2>1 DEF vars, BackedStep
  <2>2. CASE Next
    BY <2>2, HandlerBacked, OutsideBacked DEF Next, AnswerInv, IndInv
  <2> QED
    BY <2>1, <2>2
<1>2. AnswersAreReceipts'
  <2> SUFFICES ASSUME NEW r \in Requests, NEW d \in answers'[r] \ {Refused}
               PROVE  Backed(r, d)'
    BY DEF AnswersAreReceipts, Backed
  <2>1. Backed(r, d)
    BY <1>1 DEF BackedStep, AnswerInv, AnswersAreReceipts, Backed
  <2> QED
    BY <2>1, BackedStays
<1>3. RepliesBacked'
  <2> SUFFICES ASSUME NEW h \in Handlers, NEW r \in Requests, NEW d \in Digests,
                      call'[h] = Replying(r, d)
               PROVE  Backed(r, d)'
    BY DEF RepliesBacked, Replying
  <2>1. CASE call'[h] = call[h]
    <3>1. Backed(r, d)
      BY <2>1 DEF AnswerInv, RepliesBacked
    <3> QED
      BY <3>1, BackedStays
  <2>2. CASE Backed(r, d)
    BY <2>2, BackedStays
  <2> QED
    BY <1>1, <2>1, <2>2 DEF BackedStep
<1> QED
  BY <1>2, <1>3 DEF AnswerInv

\* A client is told no result but that of a receipt of exactly its command,
\* however often it was sent and whoever else used its request id
\* (resolveDecisionRetry, resolveCommitRetry).
THEOREM AnswersComeFromReceipts == Spec => []AnswersAreReceipts
<1>1. Init => AnswerInv
  BY DEF Init, AnswerInv, AnswersAreReceipts, RepliesBacked, Replying, Idle
<1>2. IndInv /\ AnswerInv /\ [Next]_vars => AnswerInv'
  BY NextAnswer
<1>3. AnswerInv => AnswersAreReceipts
  BY DEF AnswerInv
<1> QED
  BY <1>1, <1>2, <1>3, Inductive, PTL DEF Spec
\* Initially nothing is committed.
LEMMA EmptyHistory == Init => Committed = {}
BY DEF Init, Committed, HeadsOf
(***************************************************************************)
(* Edits. EditsConserved is not inductive: that the edits of a commit are  *)
(* in no other Draft and in no other commit follows from the Workspace an  *)
(* edit was published in, which published records.                         *)
(***************************************************************************)
EditInv ==
    /\ EditsConserved
    /\ \A w \in Workspaces : draft[w].content \subseteq published[w]
    /\ \A v, w \in Workspaces : v # w => published[v] \cap published[w] = {}
    /\ \A e \in CommittedEdits : \E w \in Workspaces : e \in published[w]

\* The edits of a set of commits, one by one.
LEMMA InCommitted ==
    \A e : e \in CommittedEdits <=> \E d \in Committed : e \in ledger[d].subject.content
BY DEF CommittedEdits

\* The synchronization moves the basis of Workspaces without edits, and no edits.
LEMMA SyncDrafts ==
    ASSUME TypeOK, NEW sync, NEW ref \in Refs, NEW d \in Digests, NEW w \in Workspaces
    PROVE  LET new == CleanFollow(sync, ref, d)[w]
           IN  /\ new.content = draft[w].content /\ new.marked = draft[w].marked
               /\ \/ new = draft[w]
                  \/ Clean(w) /\ TargetRef[w] = ref /\ new.base = d
               /\ CleanFollow(sync, ref, d) \in [Workspaces -> Drafts]
<1>1. draft[w] \in Drafts
  BY DEF TypeOK
<1>2. CleanFollow(sync, ref, d) \in [Workspaces -> Drafts]
  BY CleanFollowType
<1>3. CASE w \in sync /\ TargetRef[w] = ref /\ Clean(w)
  <2>1. CleanFollow(sync, ref, d)[w] = [draft[w] EXCEPT !.revision = @ + 1, !.base = d]
    BY <1>3 DEF CleanFollow
  <2> QED
    BY <1>1, <1>2, <1>3, <2>1 DEF Drafts
<1>4. CASE ~(w \in sync /\ TargetRef[w] = ref /\ Clean(w))
  <2>1. CleanFollow(sync, ref, d)[w] = draft[w]
    BY <1>4 DEF CleanFollow
  <2> QED
    BY <1>2, <2>1
<1> QED
  BY <1>3, <1>4

\* The transaction leaves the edits of another Workspace, which may follow the head.
CarriedOver(p, d, w) ==
    /\ draft'[w].content = draft[w].content
    /\ draft'[w].marked = draft[w].marked
    /\ \/ draft'[w] = draft[w]
       \/ Clean(w) /\ TargetRef[w] = p.ref /\ draft'[w].base = d

\* The commit of a Proposal empties the Draft of its Workspace and synchronizes the others.
LEMMA CommitDrafts ==
    ASSUME IndInv, NEW h \in Handlers, NEW d \in Digests, CommitsNow(h, d)
    PROVE  LET p == proposal[command[call[h].request].transition]
           IN  /\ p.workspace \in Workspaces
               /\ p.content = draft[p.workspace].content
               /\ p.marked = draft[p.workspace].marked
               /\ draft'[p.workspace].base = d
               /\ draft'[p.workspace].content = {} /\ draft'[p.workspace].marked = {}
               /\ \A w \in Workspaces \ {p.workspace} : CarriedOver(p, d, w)
<1> DEFINE p == proposal[command[call[h].request].transition]
<1>1. p \in Proposals
  BY CommitsShape
<1>2. p.workspace \in Workspaces /\ p.ref \in Refs
  BY <1>1 DEF Proposals
<1>3. p.content = draft[p.workspace].content /\ p.marked = draft[p.workspace].marked
  BY DEF CommitsNow, Fresh, BindsDraft
<1>4. PICK sync \in CommitSyncs : RenewDrafts(p, d, sync)
  BY DEF CommitsNow
<1> HIDE DEF p
<1>5. DOMAIN CleanFollow(sync, p.ref, d) = Workspaces
  <2>1. TypeOK
    BY DEF IndInv, TypeInv
  <2>2. CleanFollow(sync, p.ref, d) \in [Workspaces -> Drafts]
    BY <1>2, <2>1, SyncDrafts
  <2> QED
    BY <2>2
<1>6. /\ draft'[p.workspace] = [revision |-> draft[p.workspace].revision + 1, base |-> d,
                                content |-> {}, marked |-> {}]
      /\ \A w \in Workspaces \ {p.workspace} : draft'[w] = CleanFollow(sync, p.ref, d)[w]
  BY <1>2, <1>4, <1>5 DEF RenewDrafts
<1>7. /\ draft'[p.workspace].base = d
      /\ draft'[p.workspace].content = {} /\ draft'[p.workspace].marked = {}
  BY <1>6
<1>8. \A w \in Workspaces \ {p.workspace} :
         /\ draft'[w].content = draft[w].content
         /\ draft'[w].marked = draft[w].marked
         /\ \/ draft'[w] = draft[w]
            \/ Clean(w) /\ TargetRef[w] = p.ref /\ draft'[w].base = d
  BY <1>2, <1>6, SyncDrafts DEF IndInv, TypeInv
<1> QED
  <2>1. \A w \in Workspaces \ {p.workspace} : CarriedOver(p, d, w)
    BY <1>8 DEF CarriedOver
  <2> QED
    BY <1>2, <1>3, <1>7, <2>1 DEF p

\* A repository write moves the basis of Drafts without edits, if any.
LEMMA WriteDrafts ==
    ASSUME IndInv, NEW h \in Handlers, NEW d \in Digests, Writes(h, d), NEW w \in Workspaces
    PROVE  /\ draft'[w].content = draft[w].content /\ draft'[w].marked = draft[w].marked
           /\ \/ draft'[w] = draft[w]
              \/ Clean(w) /\ TargetRef[w] = call[h].ref /\ draft'[w].base = d
<1> DEFINE ref == call[h].ref
           sync == call[h].sync
<1>1. ref \in Refs
  BY WritesShape
<1>2. draft' = CleanFollow(sync, ref, d)
  BY DEF Writes
<1>3. TypeOK
  BY DEF IndInv, TypeInv
<1> HIDE DEF ref, sync
<1>4. /\ draft'[w].content = draft[w].content /\ draft'[w].marked = draft[w].marked
      /\ draft'[w] = draft[w] \/ (Clean(w) /\ TargetRef[w] = ref /\ draft'[w].base = d)
  BY <1>1, <1>2, <1>3, SyncDrafts
<1> QED
  BY <1>4 DEF ref

\* An author adds an edit that was never published, carries edits over, or gives up
\* edits that are in no commit.
LEMMA WorkspaceEdits ==
    ASSUME IndInv, EditInv, UNCHANGED repository, NEW w \in Workspaces,
           \/ \E e \in Edits : Publish(w, e)
           \/ TouchDraft(w)
           \/ Reconcile(w)
           \/ Discard(w)
    PROVE  EditInv'
<1>1. Committed' = Committed /\ ledger' = ledger /\ CommittedEdits' = CommittedEdits
  BY CommittedStays DEF repository, CommittedEdits
<1>2. /\ draft \in [Workspaces -> Drafts] /\ published \in [Workspaces -> SUBSET Edits]
      /\ draft[w].content \subseteq published[w]
  BY DEF IndInv, TypeInv, TypeOK, EditInv
<1>3. CASE \E e \in Edits : Publish(w, e)
  <2> PICK e \in Edits : Publish(w, e)
    BY <1>3
  <2>1. \A v \in Workspaces : e \notin published[v]
    BY DEF Publish, Unpublished
  <2>2. e \notin CommittedEdits
    BY <2>1 DEF EditInv
  <2>3. /\ draft'[w].content = draft[w].content \cup {e}
        /\ published'[w] = published[w] \cup {e}
        /\ \A v \in Workspaces \ {w} :
              draft'[v].content = draft[v].content /\ published'[v] = published[v]
    BY <1>2 DEF Publish, Drafts
  <2>4. \A v, u \in Workspaces : v # u => published'[v] \cap published'[u] = {}
    BY <2>1, <2>3 DEF EditInv
  <2>5. \A v \in Workspaces :
           /\ draft'[v].content \subseteq published'[v]
           /\ published'[v] \subseteq draft'[v].content \cup CommittedEdits
           /\ draft'[v].content \cap CommittedEdits = {}
    BY <2>2, <2>3 DEF EditInv, EditsConserved
  <2>6. \A x \in CommittedEdits : \E v \in Workspaces : x \in published'[v]
    BY <2>3 DEF EditInv
  <2> QED
    BY <1>1, <2>4, <2>5, <2>6 DEF EditInv, EditsConserved
<1>4. CASE TouchDraft(w) \/ Reconcile(w)
  <2>1. published' = published /\ \A v \in Workspaces : draft'[v].content = draft[v].content
    BY <1>2, <1>4 DEF TouchDraft, Reconcile, Drafts
  <2> QED
    BY <1>1, <2>1 DEF EditInv, EditsConserved
<1>5. CASE Discard(w)
  <2>1. /\ draft'[w].content = {}
        /\ published'[w] = published[w] \ draft[w].content
        /\ \A v \in Workspaces \ {w} :
              draft'[v].content = draft[v].content /\ published'[v] = published[v]
    BY <1>2, <1>5 DEF Discard, Drafts
  <2>2. draft[w].content \cap CommittedEdits = {}
    BY DEF EditInv, EditsConserved
  <2>3. \A v, u \in Workspaces : v # u => published'[v] \cap published'[u] = {}
    BY <2>1 DEF EditInv
  <2>4. \A v \in Workspaces :
           /\ draft'[v].content \subseteq published'[v]
           /\ published'[v] \subseteq draft'[v].content \cup CommittedEdits
           /\ draft'[v].content \cap CommittedEdits = {}
    BY <2>1 DEF EditInv, EditsConserved
  <2>5. \A x \in CommittedEdits : \E v \in Workspaces : x \in published'[v]
    <3> SUFFICES ASSUME NEW x \in CommittedEdits PROVE \E v \in Workspaces : x \in published'[v]
      OBVIOUS
    <3>1. PICK v \in Workspaces : x \in published[v]
      BY DEF EditInv
    <3> QED
      BY <2>1, <2>2, <3>1
  <2> QED
    BY <1>1, <2>3, <2>4, <2>5 DEF EditInv, EditsConserved
<1> QED
  BY <1>3, <1>4, <1>5

\* A Decision is in no history when it is taken.
LEMMA DecidesEdits ==
    ASSUME IndInv, EditInv, NEW h \in Handlers, NEW d \in Digests, Decides(h, d)
    PROVE  EditInv'
<1>1. UNCHANGED <<advances, draft, published>> /\ ledger[d] = None
  BY DEF Decides
<1>2. Committed' = Committed
  BY <1>1, CommittedStays
<1>3. \A c \in Committed : ledger'[c] = ledger[c]
  BY <1>1, DecidesShape, CommittedDecided
<1>4. CommittedEdits' = CommittedEdits
  BY <1>2, <1>3 DEF CommittedEdits
<1> QED
  BY <1>1, <1>2, <1>3, <1>4 DEF EditInv, EditsConserved

\* A commit moves the edits of one Draft, and nothing else, into the history.
LEMMA CommitsEdits ==
    ASSUME IndInv, EditInv, NEW h \in Handlers, NEW d \in Digests, CommitsNow(h, d)
    PROVE  EditInv'
<1> DEFINE p == proposal[command[call[h].request].transition]
           w == p.workspace
           moved == draft[w].content
<1>1. /\ w \in Workspaces /\ p.content = moved
      /\ draft'[w].content = {}
      /\ \A v \in Workspaces \ {w} : draft'[v].content = draft[v].content
  <2>1. /\ w \in Workspaces /\ p.content = moved /\ draft'[w].content = {}
        /\ \A v \in Workspaces \ {w} : CarriedOver(p, d, v)
    BY CommitDrafts
  <2> QED
    BY <2>1 DEF CarriedOver
<1>2. /\ UNCHANGED <<ledger, published>> /\ Committed' = Committed \cup {d}
      /\ d \notin Committed /\ ledger[d].subject = SubjectOf(p)
  BY CommitsShape DEF CommitsNow
<1> HIDE DEF p
<1>3. ledger[d].subject.content = moved
  <2>1. SubjectOf(p).content = p.content
    BY DEF SubjectOf
  <2> QED
    BY <1>1, <1>2, <2>1
<1>4. CommittedEdits' = CommittedEdits \cup moved
  BY <1>2, <1>3 DEF CommittedEdits
<1>5. moved \subseteq published[w] /\ moved \cap CommittedEdits = {}
  BY <1>1 DEF EditInv, EditsConserved
<1>6. \A v \in Workspaces :
         /\ published[v] \subseteq draft'[v].content \cup CommittedEdits'
         /\ draft'[v].content \cap CommittedEdits' = {}
         /\ draft'[v].content \subseteq published[v]
  <2> SUFFICES ASSUME NEW v \in Workspaces
               PROVE  /\ published[v] \subseteq draft'[v].content \cup CommittedEdits'
                      /\ draft'[v].content \cap CommittedEdits' = {}
                      /\ draft'[v].content \subseteq published[v]
    OBVIOUS
  <2>1. /\ published[v] \subseteq draft[v].content \cup CommittedEdits
        /\ draft[v].content \cap CommittedEdits = {}
        /\ draft[v].content \subseteq published[v]
        /\ v # w => published[v] \cap published[w] = {}
    BY <1>1 DEF EditInv, EditsConserved
  <2>2. CASE v = w
    BY <1>1, <1>4, <2>1, <2>2
  <2>3. CASE v # w
    BY <1>1, <1>4, <1>5, <2>1, <2>3
  <2> QED
    BY <2>2, <2>3
<1>7. \A x, y \in Committed' : x # y =>
         ledger[x].subject.content \cap ledger[y].subject.content = {}
  <2>1. \A x \in Committed : ledger[x].subject.content \cap moved = {}
    BY <1>5, InCommitted
  <2>2. \A x, y \in Committed : x # y =>
           ledger[x].subject.content \cap ledger[y].subject.content = {}
    BY DEF EditInv, EditsConserved
  <2> HIDE DEF moved
  <2> QED
    BY <1>2, <1>3, <2>1, <2>2
<1>8. \A e \in CommittedEdits' : \E v \in Workspaces : e \in published[v]
  BY <1>1, <1>4, <1>5 DEF EditInv
<1> QED
  BY <1>2, <1>6, <1>7, <1>8 DEF EditInv, EditsConserved

\* A repository write moves no edits.
LEMMA WritesEdits ==
    ASSUME IndInv, EditInv, NEW h \in Handlers, NEW d \in Digests, Writes(h, d)
    PROVE  EditInv'
<1>1. /\ call[h].ref \in Refs
      /\ ledger'[d].subject.content = {}
      /\ \A x \in Digests \ {d} : ledger'[x] = ledger[x]
      /\ d \notin Committed /\ Committed' = Committed \cup {d}
  BY WritesShape
<1>2. published' = published
  BY DEF Writes
<1>3. \A w \in Workspaces : draft'[w].content = draft[w].content
  BY WriteDrafts
<1>4. \A c \in Committed : ledger'[c] = ledger[c]
  BY <1>1, CommittedDecided
<1>5. CommittedEdits' = CommittedEdits
  <2>1. \A e : e \in CommittedEdits' <=> \E c \in Committed' : e \in ledger'[c].subject.content
    BY DEF CommittedEdits
  <2>2. \A e : e \in CommittedEdits' <=> e \in CommittedEdits
    BY <1>1, <1>4, <2>1, InCommitted
  <2> QED
    BY <2>2
<1> QED
  BY <1>1, <1>2, <1>3, <1>4, <1>5 DEF EditInv, EditsConserved

\* Every step conserves the edits.
LEMMA NextEdits == ASSUME IndInv, EditInv, [Next]_vars PROVE EditInv'
<1>1. CASE UNCHANGED repository /\ WorkspaceStep
  BY <1>1, WorkspaceEdits DEF WorkspaceStep
<1>2. CASE UNCHANGED <<repository, draft, published>>
  <2>1. UNCHANGED <<ledger, draft, published>> /\ Committed' = Committed
    BY <1>2, CommittedStays DEF repository
  <2> QED
    BY <2>1 DEF EditInv, EditsConserved, CommittedEdits
<1> QED
  BY <1>1, <1>2, StepEffects, DecidesEdits, CommitsEdits, WritesEdits

\* Every published edit that its author did not give up is either in the Draft
\* it was published in or in exactly one commit, whatever commits, writes and
\* reconciliations race (renewWorkspaceAuthoring, assertWorkspaceAuthoringReview).
THEOREM EditsAreConserved == Spec => []EditsConserved
<1>1. Init => EditInv
  BY EmptyHistory DEF Init, EditInv, EditsConserved, CommittedEdits
<1>2. IndInv /\ EditInv /\ [Next]_vars => EditInv'
  BY NextEdits
<1>3. EditInv => EditsConserved
  BY DEF EditInv
<1> QED
  BY <1>1, <1>2, <1>3, Inductive, PTL DEF Spec
(***************************************************************************)
(* Which step a handler took to where it is, and a Proposal to where it is *)
(* stored.                                                                 *)
(***************************************************************************)
MovesAsCoded(h) ==
    /\ call'[h].pc = "materialize" => \E w \in Workspaces, a \in Proposers : PrepareReview(h, w, a)
    /\ call'[h].pc = "write" =>
          \E ref \in Refs, a \in Writers, sync \in CommitSyncs : PrepareWrite(h, ref, a, sync)
    /\ call'[h].pc = "decide" =>
          /\ Lookup(h) /\ ~AutomationDenied(call[h].request)
          /\ call'[h].request = call[h].request
    /\ call'[h].pc = "commit" =>
          /\ CommitPrecheck(h) /\ Precheckable(call[h].request)
          /\ call'[h].request = call[h].request

\* Only the handler that is busy moves.
LEMMA OneMoves ==
    ASSUME TypeOK, NEW g \in Handlers, NEW c, Busy(g, c), NEW h \in Handlers, call'[h] # call[h]
    PROVE  h = g /\ call'[h] = c
BY DEF Busy, TypeOK

\* A handler that answers or refuses is idle or replies afterwards.
LEMMA OtherMoves ==
    ASSUME TypeOK, NEW g \in Handlers, NEW c, Busy(g, c), NEW h \in Handlers, call'[h] # call[h],
           c.pc \notin {"materialize", "write", "decide", "commit"}
    PROVE  MovesAsCoded(h)
BY OneMoves DEF MovesAsCoded

\* Refusals and answers of receipts are such moves.
LEMMA AnswerMoves ==
    ASSUME TypeOK, NEW g \in Handlers, NEW r, Refuse(g, r) \/ ResolveRetry(g, r),
           NEW h \in Handlers, call'[h] # call[h]
    PROVE  MovesAsCoded(h)
<1>1. Busy(g, Idle) \/ \E d : Busy(g, Replying(r, d))
  BY DEF Refuse, ResolveRetry, Answer, Replying
<1>2. Idle.pc = "idle" /\ \A d : Replying(r, d).pc = "reply"
  BY DEF Idle, Replying
<1> QED
  BY <1>1, <1>2, OtherMoves

\* A handler that goes on with its command keeps the request.
LEMMA GotoMoves ==
    ASSUME TypeOK, NEW g \in Handlers, call[g].pc \in Serving \ {"reply"},
           NEW pc \in {"decide", "precheck", "commit", "winner"}, Goto(g, pc),
           NEW h \in Handlers, call'[h] # call[h]
    PROVE  h = g /\ call'[h].pc = pc /\ call'[h].request = call[h].request
<1>1. call[g] \in [pc: {"lookup", "decide", "precheck", "commit", "winner"}, request: Requests]
  BY DEF TypeOK, Calls, Idle, Serving
<1>2. /\ [call[g] EXCEPT !.pc = pc].pc = pc
      /\ [call[g] EXCEPT !.pc = pc].request = call[g].request
  BY <1>1
<1>3. h = g /\ call'[h] = [call[g] EXCEPT !.pc = pc]
  BY OneMoves DEF Goto
<1> QED
  BY <1>2, <1>3

\* Every move of a handler by a step of its own.
LEMMA HandlerMoves ==
    ASSUME IndInv, NEW g \in Handlers, HandlerStep(g) \/ Crash(g), NEW h \in Handlers,
           call'[h] # call[h]
    PROVE  MovesAsCoded(h)
<1> USE DEF IndInv, TypeInv
<1>1. CASE Lookup(g)
  <2>1. call[g].pc \in Serving \ {"reply"}
    BY <1>1 DEF Lookup, Serving
  <2>2. \/ Refuse(g, call[g].request)
        \/ ResolveRetry(g, call[g].request)
        \/ ~AutomationDenied(call[g].request) /\ Goto(g, "decide")
        \/ Goto(g, "precheck")
    BY <1>1 DEF Lookup
  <2>3. CASE ~AutomationDenied(call[g].request) /\ Goto(g, "decide")
    BY <1>1, <2>1, <2>3, GotoMoves DEF MovesAsCoded
  <2>4. CASE Goto(g, "precheck")
    BY <2>1, <2>4, GotoMoves DEF MovesAsCoded
  <2> QED
    BY <2>2, <2>3, <2>4, AnswerMoves
<1>2. CASE DecideTransaction(g)
  <2>1. call[g].pc \in Serving \ {"reply"}
    BY <1>2 DEF DecideTransaction, Serving
  <2>2. \/ Refuse(g, call[g].request) \/ Goto(g, "winner")
        \/ \E d : Busy(g, Replying(call[g].request, d))
    BY <1>2 DEF DecideTransaction, Replying
  <2>3. CASE Goto(g, "winner")
    BY <2>1, <2>3, GotoMoves DEF MovesAsCoded
  <2>4. \A d : Replying(call[g].request, d).pc = "reply"
    BY DEF Replying
  <2> QED
    BY <2>2, <2>3, <2>4, AnswerMoves, OtherMoves
<1>3. CASE CommitPrecheck(g)
  <2>1. call[g].pc \in Serving \ {"reply"}
    BY <1>3 DEF CommitPrecheck, Serving
  <2>2. CASE Precheckable(call[g].request) /\ Goto(g, "commit")
    BY <1>3, <2>1, <2>2, GotoMoves DEF MovesAsCoded
  <2> QED
    BY <1>3, <2>2, AnswerMoves DEF CommitPrecheck
<1>4. CASE CommitTransaction(g)
  <2>1. call[g].pc \in Serving \ {"reply"}
    BY <1>4 DEF CommitTransaction, Serving
  <2>2. \/ Refuse(g, call[g].request) \/ Goto(g, "winner")
        \/ \E d : Busy(g, Replying(call[g].request, d))
    BY <1>4 DEF CommitTransaction, Replying
  <2>3. CASE Goto(g, "winner")
    BY <2>1, <2>3, GotoMoves DEF MovesAsCoded
  <2>4. \A d : Replying(call[g].request, d).pc = "reply"
    BY DEF Replying
  <2> QED
    BY <2>2, <2>3, <2>4, AnswerMoves, OtherMoves
<1>5. CASE ResolveWinner(g)
  BY <1>5, AnswerMoves DEF ResolveWinner
<1>6. CASE \/ \E t \in Transitions : Materialize(g, t)
           \/ Reply(g) \/ WriteTransaction(g) \/ WriteRule(g) \/ Crash(g)
  <2>1. Busy(g, Idle) /\ Idle.pc = "idle"
    BY <1>6 DEF Materialize, Reply, Answer, WriteTransaction, WriteRule, Crash, Idle
  <2> QED
    BY <2>1, OtherMoves
<1> QED
  BY <1>1, <1>2, <1>3, <1>4, <1>5, <1>6 DEF HandlerStep

\* Every move of a handler.
LEMMA Moves ==
    ASSUME IndInv, [Next]_vars, NEW h \in Handlers, call'[h] # call[h] PROVE MovesAsCoded(h)
<1> USE DEF IndInv, TypeInv
<1>1. CASE UNCHANGED vars
  BY <1>1 DEF vars
<1>2. CASE WorkspaceStep
  BY <1>2 DEF WorkspaceStep, Publish, TouchDraft, Reconcile, Discard
<1>3. CASE ReviewStep
  <2>1. ASSUME NEW g \in Handlers, NEW w \in Workspaces, NEW a \in Proposers, PrepareReview(g, w, a)
        PROVE  MovesAsCoded(h)
    <3>1. h = g /\ call'[h].pc = "materialize"
      BY <2>1, OneMoves DEF PrepareReview
    <3> QED
      BY <2>1, <3>1 DEF MovesAsCoded
  <2> QED
    BY <1>3, <2>1 DEF ReviewStep, RecordStatement, UnbindPolicy, BindPolicy
<1>4. CASE ClientStep
  <2>1. ASSUME NEW g \in Handlers, NEW r, Deliver(g, r) PROVE MovesAsCoded(h)
    BY <2>1, OtherMoves DEF Deliver
  <2> QED
    BY <1>4, <2>1 DEF ClientStep, ComposeDecision, ComposeCommit, Compose
<1>5. ASSUME NEW g \in Handlers, NEW ref \in Refs, NEW a \in Writers, NEW sync \in CommitSyncs,
             PrepareWrite(g, ref, a, sync)
      PROVE  MovesAsCoded(h)
  <2>1. h = g /\ call'[h].pc = "write"
    BY <1>5, OneMoves DEF PrepareWrite
  <2> QED
    BY <1>5, <2>1 DEF MovesAsCoded
<1>6. ASSUME NEW g \in Handlers, NEW ref \in Refs, NEW flag \in RuleChanges, PlanRule(g, ref, flag)
      PROVE  MovesAsCoded(h)
  BY <1>6, OtherMoves DEF PlanRule
<1> QED
  BY <1>1, <1>2, <1>3, <1>4, <1>5, <1>6, HandlerMoves DEF Next

\* A Proposal is stored as it was built.
LEMMA NewProposals ==
    ASSUME TypeInv, [Next]_vars, NEW t \in Transitions, proposal'[t] # proposal[t]
    PROVE  \E h \in Handlers : /\ call[h].pc = "materialize" /\ proposal'[t] = call[h].built
                               /\ UNCHANGED <<repository, draft, receipts, published>>
<1> USE DEF TypeInv
<1>1. proposal' # proposal
  OBVIOUS
<1>2. CASE \E h \in Handlers, u \in Transitions : Materialize(h, u)
  BY <1>2 DEF Materialize, TypeOK
<1>3. CASE UNCHANGED vars
  BY <1>1, <1>3 DEF vars
<1>4. CASE WorkspaceStep
  BY <1>1, <1>4 DEF WorkspaceStep, Publish, TouchDraft, Reconcile, Discard, review
<1>5. CASE ReviewStep
  BY <1>1, <1>5 DEF ReviewStep, PrepareReview, RecordStatement, BindPolicy, UnbindPolicy, review
<1>6. CASE ClientStep
  BY <1>1, <1>6 DEF ClientStep, ComposeDecision, ComposeCommit, Compose, Deliver, review
<1>7. ASSUME NEW h \in Handlers, HandlerStep(h) \/ Crash(h), ~ \E u \in Transitions : Materialize(h, u)
      PROVE  FALSE
  <2>1. CASE Lookup(h) \/ CommitPrecheck(h) \/ ResolveWinner(h) \/ Reply(h) \/ WriteRule(h) \/ Crash(h)
    BY <1>1, <2>1 DEF Lookup, CommitPrecheck, ResolveWinner, ResolveRetry, Refuse, Goto, Reply,
                      WriteRule, Crash, review
  <2>2. CASE DecideTransaction(h) \/ CommitTransaction(h) \/ WriteTransaction(h)
    BY <1>1, <2>2 DEF DecideTransaction, CommitTransaction, WriteTransaction, Refuse, Goto, review
  <2> QED
    BY <1>7, <2>1, <2>2 DEF HandlerStep
<1>8. ASSUME NEW h \in Handlers, NEW ref \in Refs,
             \/ \E a \in Writers, sync \in CommitSyncs : PrepareWrite(h, ref, a, sync)
             \/ \E flag \in RuleChanges : PlanRule(h, ref, flag)
      PROVE  FALSE
  BY <1>1, <1>8 DEF PrepareWrite, PlanRule, review
<1> QED
  BY <1>2, <1>3, <1>4, <1>5, <1>6, <1>7, <1>8 DEF Next
(***************************************************************************)
(* Refs of Proposals. The ref of a Proposal is that of its Workspace, so a *)
(* commit moves the Workspaces of the ref it advances and no other.        *)
(***************************************************************************)
\* Proposals, and those being built, are for the ref of their Workspace.
ProposalsOnTarget ==
    /\ \A t \in Transitions : proposal[t] # None =>
          proposal[t].ref = TargetRef[proposal[t].workspace]
    /\ \A h \in Handlers : call[h].pc = "materialize" =>
          call[h].built.ref = TargetRef[call[h].built.workspace]

\* A Proposal is built from the Draft and the ref of its Workspace.
LEMMA PreparedBuilt ==
    ASSUME TypeOK, NEW h \in Handlers, NEW w \in Workspaces, NEW a \in Proposers,
           PrepareReview(h, w, a)
    PROVE  LET built == call'[h].built
           IN  /\ built.workspace = w /\ built.ref = TargetRef[w] /\ built.refHead = draft[w].base
               /\ built.content = draft[w].content /\ built.marked = draft[w].marked
               /\ ~Clean(w) /\ draft[w].base = head[TargetRef[w]]
               /\ UNCHANGED <<repository, draft, receipts, published, proposal, command>>
<1>1. call'[h] = [pc |-> "materialize",
                 built |-> [workspace |-> w, ref |-> TargetRef[w], refHead |-> draft[w].base,
                            revision |-> draft[w].revision, content |-> draft[w].content,
                            marked |-> draft[w].marked, actor |-> a]]
  BY DEF PrepareReview, Busy, TypeOK
<1>2. /\ ~Clean(w) /\ draft[w].base = head[TargetRef[w]]
      /\ UNCHANGED <<repository, draft, receipts, published, proposal, command>>
  BY DEF PrepareReview, review, clients
<1> QED
  BY <1>1, <1>2

\* The refs of Proposals stay those of their Workspaces.
LEMMA NextTarget == ASSUME IndInv, ProposalsOnTarget, [Next]_vars PROVE ProposalsOnTarget'
<1>1. ASSUME NEW t \in Transitions, proposal'[t] # None
      PROVE  proposal'[t].ref = TargetRef[proposal'[t].workspace]
  <2>1. CASE proposal'[t] = proposal[t]
    BY <1>1, <2>1 DEF ProposalsOnTarget
  <2>2. CASE proposal'[t] # proposal[t]
    BY <2>2, NewProposals DEF ProposalsOnTarget, IndInv
  <2> QED
    BY <2>1, <2>2
<1>2. ASSUME NEW h \in Handlers, call'[h].pc = "materialize"
      PROVE  call'[h].built.ref = TargetRef[call'[h].built.workspace]
  <2>1. CASE call'[h] = call[h]
    BY <1>2, <2>1 DEF ProposalsOnTarget
  <2>2. CASE call'[h] # call[h]
    BY <1>2, <2>2, Moves, PreparedBuilt DEF MovesAsCoded, IndInv, TypeInv
  <2> QED
    BY <2>1, <2>2
<1> QED
  BY <1>1, <1>2 DEF ProposalsOnTarget

(***************************************************************************)
(* Generated content. A Proposal says which of its edits are generated as  *)
(* its Draft did when the Proposal was built, and two Proposals with the   *)
(* same Effect might have been built from Drafts that say different        *)
(* things: reconciliation forgets it, and an edit that was given up can be *)
(* published again elsewhere. FrozenInv is why they agree: an edit changes *)
(* its Workspace or loses its mark only when the basis of the Draft        *)
(* changes, and a ref never returns to a head it had.                      *)
(***************************************************************************)
\* The Proposals that are stored or being built.
Frozen ==
    {proposal[t] : t \in {u \in Transitions : proposal[u] # None}}
    \cup {call[h].built : h \in {g \in Handlers : call[g].pc = "materialize"}}

\* A Proposal has edits, was built on a head its ref had, and says nothing of other edits.
FrozenShape ==
    \A p \in Frozen :
        /\ p.content # {} /\ p.marked \subseteq p.content
        /\ p.refHead = None \/ p.refHead \in HeadsOf(p.ref)

\* While its ref has not moved, the edits of a Proposal are still in the Draft
\* it was built from.
FrozenCurrent ==
    \A p \in Frozen : p.refHead = head[p.ref] =>
        /\ draft[p.workspace].base = p.refHead
        /\ p.content \subseteq draft[p.workspace].content

\* On the empty ref nothing has been reconciled: every generated edit is marked.
EmptyRefMarks ==
    /\ \A w \in Workspaces :
          IF draft[w].base = None
          THEN draft[w].marked = draft[w].content \cap GeneratedEdits
          ELSE head[TargetRef[w]] # None
    /\ \A p \in Frozen : p.refHead = None => p.marked = p.content \cap GeneratedEdits

\* Drafts and Proposals on the same basis agree on the edits they share.
MarksAgree ==
    /\ \A w \in Workspaces : draft[w].marked \subseteq draft[w].content
    /\ \A p \in Frozen, w \in Workspaces : p.refHead = draft[w].base =>
          \A e \in p.content \cap draft[w].content : e \in p.marked <=> e \in draft[w].marked
    /\ \A p, q \in Frozen : p.refHead = q.refHead =>
          \A e \in p.content \cap q.content : e \in p.marked <=> e \in q.marked

FrozenInv == FrozenShape /\ FrozenCurrent /\ EmptyRefMarks /\ MarksAgree

\* The policy is one the overlay of generated content was put on.
Overlaid(policy) == \E q \in Policies : policy = GenerationOverlay(q)

\* A Decision with edits was made on a stored Proposal, by a human if that is generated,
\* and a commit with edits kept the overlay of a stored Proposal that is generated.
GeneratedInv ==
    /\ \A h \in Handlers : call[h].pc = "decide" =>
          (IsGenerated(proposal[command[call[h].request].transition]) =>
              ActorOf[call[h].request] \in Humans)
    /\ \A h \in Handlers : call[h].pc = "commit" =>
          (IsGenerated(proposal[command[call[h].request].transition]) =>
              Overlaid(ledger[command[call[h].request].body.decision].policy))
    /\ \A d \in Digests : ledger[d] # None /\ ledger[d].subject.content # {} =>
          \E t \in Transitions :
              /\ proposal[t] # None /\ ledger[d].subject = SubjectOf(proposal[t])
              /\ IsGenerated(proposal[t]) => ledger[d].actor \in Humans
    /\ \A d \in Committed : ledger[d].subject.content # {} =>
          \E t \in Transitions :
              /\ proposal[t] # None /\ ledger[d].subject = SubjectOf(proposal[t])
              /\ IsGenerated(proposal[t]) => Overlaid(ledger[d].policy)

\* A commit is in the history of one ref only.
LEMMA OneRef ==
    ASSUME IndInv, NEW r1 \in Refs, NEW r2 \in Refs, NEW b, b \in HeadsOf(r1), b \in HeadsOf(r2)
    PROVE  r1 = r2
<1>1. ASSUME NEW ref \in Refs, b \in HeadsOf(ref)
      PROVE  b \in Digests /\ ledger[b].ref = ref
  <2> PICK i \in DOMAIN advances[ref] : b = advances[ref][i].head
    BY <1>1 DEF HeadsOf
  <2>1. i \in 1 .. Len(advances[ref]) /\ b \in Digests
    BY EventShape DEF IndInv, TypeInv
  <2> QED
    BY <2>1 DEF EntriesGranted, GrantsSound, IndInv, HistoryInv
<1> QED
  BY <1>1

\* The head of a ref is in its history.
LEMMA HeadInHistory ==
    ASSUME IndInv, NEW ref \in Refs PROVE head[ref] = None \/ head[ref] \in HeadsOf(ref)
<1>1. CASE advances[ref] = <<>>
  BY <1>1 DEF IndInv, HistoryInv, Chained
<1>2. CASE advances[ref] # <<>>
  <2>1. /\ Len(advances[ref]) \in Nat /\ Len(advances[ref]) # 0
        /\ DOMAIN advances[ref] = 1 .. Len(advances[ref])
    BY <1>2, EventShape DEF IndInv, TypeInv
  <2>2. Len(advances[ref]) \in DOMAIN advances[ref]
    BY <2>1
  <2> QED
    BY <1>2, <2>2 DEF IndInv, HistoryInv, Chained, HeadsOf
<1> QED
  BY <1>1, <1>2

\* An advance keeps what was in the histories.
LEMMA AdvanceKeeps ==
    ASSUME TypeOK, NEW ref \in Refs, NEW e \in Commits, NEW d \in Digests, Advance(ref, e, d)
    PROVE  \A r \in Refs : HeadsOf(r) \subseteq HeadsOf(r)'
<1>1. /\ Len(advances'[ref]) = Len(advances[ref]) + 1 /\ Len(advances[ref]) \in Nat
      /\ \A i \in 1 .. Len(advances[ref]) : advances'[ref][i] = advances[ref][i]
      /\ \A r \in Refs \ {ref} : advances'[r] = advances[r]
      /\ DOMAIN advances[ref] = 1 .. Len(advances[ref])
  BY AppendedEvents, EventShape
<1>2. DOMAIN advances'[ref] = 1 .. Len(advances[ref]) + 1
  <2>1. advances'[ref] \in Seq([previous: Commits, head: Digests])
    BY AdvanceType
  <2> QED
    BY <1>1, <2>1
<1>3. HeadsOf(ref) \subseteq HeadsOf(ref)'
  <2>1. 1 .. Len(advances[ref]) \subseteq 1 .. Len(advances[ref]) + 1
    BY <1>1
  <2> QED
    BY <1>1, <1>2, <2>1 DEF HeadsOf
<1>4. \A r \in Refs \ {ref} : HeadsOf(r)' = HeadsOf(r)
  BY <1>1 DEF HeadsOf
<1> QED
  BY <1>3, <1>4

\* A Proposal that is frozen is one, for the ref of its Workspace.
LEMMA FrozenType ==
    ASSUME TypeOK, ProposalsOnTarget
    PROVE  \A p \in Frozen : /\ p \in Proposals /\ p.workspace \in Workspaces /\ p.ref \in Refs
                             /\ p.ref = TargetRef[p.workspace]
<1> SUFFICES ASSUME NEW p \in Frozen
             PROVE  /\ p \in Proposals /\ p.workspace \in Workspaces /\ p.ref \in Refs
                    /\ p.ref = TargetRef[p.workspace]
  OBVIOUS
<1>1. CASE \E t \in Transitions : proposal[t] # None /\ p = proposal[t]
  BY <1>1 DEF TypeOK, Proposals, ProposalsOnTarget
<1>2. CASE \E h \in Handlers : call[h].pc = "materialize" /\ p = call[h].built
  BY <1>2, CallShape DEF Proposals, ProposalsOnTarget
<1> QED
  BY <1>1, <1>2 DEF Frozen

\* A Proposal that is stored is frozen.
LEMMA StoredFrozen == \A t \in Transitions : proposal[t] # None => proposal[t] \in Frozen
BY DEF Frozen

\* What a step freezes is the Draft of a review that is prepared.
FreezesDraft(p) ==
    \E w \in Workspaces :
        /\ p.workspace = w /\ p.ref = TargetRef[w] /\ p.refHead = draft[w].base
        /\ p.content = draft[w].content /\ p.marked = draft[w].marked
        /\ ~Clean(w) /\ draft[w].base = head[TargetRef[w]]
        /\ UNCHANGED <<repository, draft, published>>

LEMMA FrozenStep ==
    ASSUME IndInv, [Next]_vars PROVE \A p \in Frozen' : p \in Frozen \/ FreezesDraft(p)
<1> SUFFICES ASSUME NEW p \in Frozen' PROVE p \in Frozen \/ FreezesDraft(p)
  OBVIOUS
<1>1. ASSUME NEW t \in Transitions, proposal'[t] # None, p = proposal'[t] PROVE p \in Frozen
  <2>1. CASE proposal'[t] = proposal[t]
    BY <1>1, <2>1, StoredFrozen
  <2>2. CASE proposal'[t] # proposal[t]
    BY <1>1, <2>2, NewProposals DEF Frozen, IndInv
  <2> QED
    BY <2>1, <2>2
<1>2. ASSUME NEW h \in Handlers, call'[h].pc = "materialize", p = call'[h].built
      PROVE  p \in Frozen \/ FreezesDraft(p)
  <2>1. CASE call'[h] = call[h]
    BY <1>2, <2>1 DEF Frozen
  <2>2. CASE call'[h] # call[h]
    <3>1. PICK w \in Workspaces, a \in Proposers : PrepareReview(h, w, a)
      BY <1>2, <2>2, Moves DEF MovesAsCoded
    <3> QED
      BY <1>2, <3>1, PreparedBuilt DEF FreezesDraft, IndInv, TypeInv
  <2> QED
    BY <2>1, <2>2
<1> QED
  BY <1>1, <1>2 DEF Frozen
\* An author writes one Draft, and no Proposal.
LEMMA WorkspaceFrozen ==
    ASSUME IndInv, EditInv, ProposalsOnTarget, FrozenInv, UNCHANGED repository,
           Frozen' \subseteq Frozen, NEW w \in Workspaces,
           \/ \E e \in Edits : Publish(w, e)
           \/ TouchDraft(w)
           \/ Reconcile(w)
           \/ Discard(w)
    PROVE  FrozenInv'
<1> USE DEF FrozenInv
<1>1. /\ draft \in [Workspaces -> Drafts]
      /\ \A v \in Workspaces : TargetRef[v] \in Refs
      /\ \A v \in Workspaces : draft[v].content \subseteq published[v]
      /\ \A u, v \in Workspaces : u # v => published[u] \cap published[v] = {}
  BY LifecycleAssumption DEF LifecycleAssumption, IndInv, TypeInv, TypeOK, EditInv
<1>2. /\ head' = head /\ \A ref \in Refs : HeadsOf(ref)' = HeadsOf(ref)
      /\ \A v \in Workspaces \ {w} : draft'[v] = draft[v]
  <2>1. UNCHANGED <<head, advances>>
    BY DEF repository
  <2>2. \A ref \in Refs : HeadsOf(ref)' = HeadsOf(ref)
    BY <2>1 DEF HeadsOf
  <2>3. draft \in [Workspaces -> Drafts]
    BY <1>1
  <2>4. \A v \in Workspaces \ {w} : draft'[v] = draft[v]
    BY <2>3 DEF Publish, TouchDraft, Reconcile, Discard
  <2> QED
    BY <2>1, <2>2, <2>4
<1>3. \A p \in Frozen : /\ p.workspace \in Workspaces /\ p.ref \in Refs
                        /\ p.ref = TargetRef[p.workspace]
  BY FrozenType DEF IndInv, TypeInv
<1>4. FrozenShape'
  BY <1>2, <1>3 DEF FrozenShape
<1>5. \A p, q \in Frozen' : p.refHead = q.refHead =>
         \A e \in p.content \cap q.content : e \in p.marked <=> e \in q.marked
  BY DEF MarksAgree
<1>6. \A p \in Frozen' : p.refHead = None => p.marked = p.content \cap GeneratedEdits
  BY DEF EmptyRefMarks
<1> DEFINE h == head[TargetRef[w]]
\* A Proposal that was built on the head of this ref is in the Draft of its Workspace.
<1>7. ASSUME NEW p \in Frozen, p.refHead = h, h # None
      PROVE  /\ draft[p.workspace].base = h /\ p.content \subseteq draft[p.workspace].content
             /\ p.ref = TargetRef[w]
  <2>1. h \in HeadsOf(TargetRef[w]) /\ h \in HeadsOf(p.ref)
    BY <1>1, <1>7, HeadInHistory DEF FrozenShape
  <2>2. p.ref = TargetRef[w]
    BY <1>1, <1>3, <2>1, OneRef
  <2> QED
    BY <1>7, <2>2 DEF FrozenCurrent
<1>8. CASE \E e \in Edits : Publish(w, e)
  <2> PICK e \in Edits : Publish(w, e)
    BY <1>8
  <2>1. /\ draft[w].base = h /\ draft'[w].base = h
        /\ draft'[w].content = draft[w].content \cup {e}
        /\ draft'[w].marked = draft[w].marked \cup ({e} \cap GeneratedEdits)
    <3>1. draft[w] \in Drafts
      BY <1>1
    <3>2. draft'[w] = [draft[w] EXCEPT !.revision = @ + 1, !.content = @ \cup {e},
                                      !.marked = @ \cup ({e} \cap GeneratedEdits)]
      BY <1>1 DEF Publish
    <3>3. draft[w].base = h
      BY DEF Publish
    <3> QED
      BY <3>1, <3>2, <3>3 DEF Drafts
  <2>2. \A v \in Workspaces : e \notin draft[v].content
    <3>1. \A v \in Workspaces : e \notin published[v]
      BY DEF Publish, Unpublished
    <3> QED
      BY <1>1, <3>1
  <2>3. FrozenCurrent'
    <3> SUFFICES ASSUME NEW p \in Frozen, p.refHead = head[p.ref]
                 PROVE  /\ draft'[p.workspace].base = p.refHead
                        /\ p.content \subseteq draft'[p.workspace].content
      BY <1>2 DEF FrozenCurrent
    <3> QED
      BY <1>2, <1>3, <2>1 DEF FrozenCurrent
  <2>4. EmptyRefMarks'
    <3>1. IF draft'[w].base = None
          THEN draft'[w].marked = draft'[w].content \cap GeneratedEdits
          ELSE head[TargetRef[w]] # None
      BY <2>1 DEF EmptyRefMarks
    <3> QED
      BY <1>2, <1>6, <3>1 DEF EmptyRefMarks
  <2>5. ASSUME NEW p \in Frozen, p.refHead = h, NEW x \in p.content \cap draft'[w].content
        PROVE  x \in p.marked <=> x \in draft'[w].marked
    <3>1. CASE x # e
      BY <2>1, <2>5, <3>1 DEF MarksAgree
    <3>2. CASE x = e
      <4>1. h = None
        BY <1>3, <1>7, <2>2, <2>5, <3>2
      <4>2. e \in p.marked <=> e \in GeneratedEdits
        BY <2>5, <3>2, <4>1 DEF EmptyRefMarks
      <4>3. e \in draft'[w].marked <=> e \in GeneratedEdits
        BY <2>1, <2>2 DEF MarksAgree
      <4> QED
        BY <3>2, <4>2, <4>3
    <3> QED
      BY <3>1, <3>2
  <2>6. draft'[w].marked \subseteq draft'[w].content
    BY <2>1 DEF MarksAgree
  <2>7. MarksAgree'
    BY <1>2, <1>5, <2>1, <2>5, <2>6 DEF MarksAgree
  <2> QED
    BY <1>4, <2>3, <2>4, <2>7
<1>9. CASE TouchDraft(w)
  <2>1. /\ draft'[w].base = draft[w].base /\ draft'[w].content = draft[w].content
        /\ draft'[w].marked = draft[w].marked
    BY <1>1, <1>9 DEF TouchDraft, Drafts
  <2>2. \A v \in Workspaces : /\ draft'[v].base = draft[v].base
                              /\ draft'[v].content = draft[v].content
                              /\ draft'[v].marked = draft[v].marked
    BY <1>2, <2>1
  <2>3. FrozenCurrent'
    BY <1>2, <1>3, <2>2 DEF FrozenCurrent
  <2>4. EmptyRefMarks'
    BY <1>2, <1>6, <2>2 DEF EmptyRefMarks
  <2>5. MarksAgree'
    BY <1>5, <2>2 DEF MarksAgree
  <2> QED
    BY <1>4, <2>3, <2>4, <2>5
<1>10. CASE Reconcile(w) \/ Discard(w)
  <2>1. /\ draft[w].base # h /\ draft'[w].base = h
        /\ draft'[w].content \subseteq draft[w].content
        /\ draft'[w].marked = {}
    <3>1. draft \in [Workspaces -> Drafts] /\ draft[w] \in Drafts
      BY <1>1
    <3>2. CASE Reconcile(w)
      <4>1. draft'[w] = [draft[w] EXCEPT !.revision = @ + 1, !.base = h, !.marked = {}]
        BY <3>1, <3>2 DEF Reconcile
      <4> QED
        BY <3>1, <3>2, <4>1 DEF Reconcile, Drafts
    <3>3. CASE Discard(w)
      <4>1. draft'[w] = [draft[w] EXCEPT !.revision = @ + 1, !.base = h, !.content = {},
                                        !.marked = {}]
        BY <3>1, <3>3 DEF Discard
      <4> QED
        BY <3>1, <3>3, <4>1 DEF Discard, Drafts
    <3> QED
      BY <1>10, <3>2, <3>3
  <2>2. h # None
    BY <2>1 DEF EmptyRefMarks
  <2>3. \A p \in Frozen : p.refHead = head[p.ref] => p.workspace # w
    BY <1>3, <2>1 DEF FrozenCurrent
  <2>4. FrozenCurrent'
    <3> SUFFICES ASSUME NEW p \in Frozen, p.refHead = head[p.ref]
                 PROVE  /\ draft'[p.workspace].base = p.refHead
                        /\ p.content \subseteq draft'[p.workspace].content
      BY <1>2 DEF FrozenCurrent
    <3> QED
      BY <1>2, <1>3, <2>3 DEF FrozenCurrent
  <2>5. EmptyRefMarks'
    BY <1>2, <1>6, <2>1, <2>2 DEF EmptyRefMarks
  <2>6. ASSUME NEW p \in Frozen, p.refHead = h
        PROVE  p.content \cap draft'[w].content = {}
    <3>1. /\ p.content \subseteq draft[p.workspace].content /\ p.ref = TargetRef[w]
          /\ p.workspace \in Workspaces \ {w}
      BY <1>3, <1>7, <2>2, <2>3, <2>6
    <3> QED
      BY <1>1, <2>1, <3>1
  <2>7. MarksAgree'
    BY <1>2, <1>5, <2>1, <2>6 DEF MarksAgree
  <2> QED
    BY <1>4, <2>4, <2>5, <2>7
<1> QED
  BY <1>8, <1>9, <1>10

\* A review that is prepared freezes a Draft on the head of its ref.
LEMMA PreparedFrozen ==
    ASSUME IndInv, EditInv, ProposalsOnTarget, FrozenInv, UNCHANGED <<head, advances, draft>>,
           \A p \in Frozen' : p \in Frozen \/ FreezesDraft(p)
    PROVE  FrozenInv'
<1> USE DEF FrozenInv
<1>1. \A ref \in Refs : HeadsOf(ref)' = HeadsOf(ref)
  BY DEF HeadsOf
<1>2. \A v \in Workspaces : TargetRef[v] \in Refs
  BY LifecycleAssumption DEF LifecycleAssumption
<1>3. \A u, v \in Workspaces : u # v => draft[u].content \cap draft[v].content = {}
  BY DEF EditInv
<1>4. \A p \in Frozen : p.ref \in Refs
  BY FrozenType DEF IndInv, TypeInv
<1>5. FrozenShape'
  <2> SUFFICES ASSUME NEW p \in Frozen'
               PROVE  /\ p.content # {} /\ p.marked \subseteq p.content
                      /\ p.refHead = None \/ p.refHead \in HeadsOf(p.ref)'
    BY DEF FrozenShape
  <2>1. CASE p \in Frozen
    BY <1>1, <1>4, <2>1 DEF FrozenShape
  <2>2. CASE FreezesDraft(p)
    BY <1>1, <1>2, <2>2, HeadInHistory DEF FreezesDraft, Clean, MarksAgree
  <2> QED
    BY <2>1, <2>2
<1>6. FrozenCurrent'
  BY DEF FrozenCurrent, FreezesDraft
<1>7. EmptyRefMarks'
  BY DEF EmptyRefMarks, FreezesDraft
<1>8. ASSUME NEW p \in Frozen', NEW w \in Workspaces, p.refHead = draft[w].base,
             NEW e \in p.content \cap draft[w].content
      PROVE  e \in p.marked <=> e \in draft[w].marked
  BY <1>3, <1>8 DEF MarksAgree, FreezesDraft
<1>9. ASSUME NEW p \in Frozen', NEW q \in Frozen', p.refHead = q.refHead,
             NEW e \in p.content \cap q.content
      PROVE  e \in p.marked <=> e \in q.marked
  <2>1. CASE FreezesDraft(q)
    <3>1. PICK w \in Workspaces : /\ q.refHead = draft[w].base
                                  /\ q.content = draft[w].content /\ q.marked = draft[w].marked
      BY <2>1 DEF FreezesDraft
    <3>2. e \in p.marked <=> e \in draft[w].marked
      BY <1>8, <1>9, <3>1
    <3> QED
      BY <3>1, <3>2
  <2>2. CASE FreezesDraft(p)
    <3>1. PICK w \in Workspaces : /\ p.refHead = draft[w].base
                                  /\ p.content = draft[w].content /\ p.marked = draft[w].marked
      BY <2>2 DEF FreezesDraft
    <3>2. e \in q.marked <=> e \in draft[w].marked
      BY <1>8, <1>9, <3>1
    <3> QED
      BY <3>1, <3>2
  <2>3. CASE p \in Frozen /\ q \in Frozen
    BY <1>9, <2>3 DEF MarksAgree
  <2> QED
    BY <2>1, <2>2, <2>3
<1>10. MarksAgree'
  BY <1>8, <1>9 DEF MarksAgree
<1> QED
  BY <1>5, <1>6, <1>7, <1>10

\* A ref advances to a commit no Proposal was built on, and only Drafts of its
\* Workspaces move with it.
LEMMA AdvanceFrozen ==
    ASSUME IndInv, ProposalsOnTarget, FrozenInv, Frozen' \subseteq Frozen,
           NEW ref \in Refs, NEW d \in Digests, d \notin Committed,
           head' = [head EXCEPT ![ref] = d],
           \A r \in Refs : HeadsOf(r) \subseteq HeadsOf(r)',
           \A w \in Workspaces :
              \/ draft'[w] = draft[w]
              \/ TargetRef[w] = ref /\ draft'[w].base = d /\ draft'[w].marked \subseteq draft'[w].content
    PROVE  FrozenInv'
<1> USE DEF FrozenInv
<1>1. head'[ref] = d /\ \A r \in Refs \ {ref} : head'[r] = head[r]
  BY DEF IndInv, TypeInv, TypeOK
<1>2. d # None /\ \A w \in Workspaces : TargetRef[w] \in Refs
  BY LifecycleAssumption DEF LifecycleAssumption
<1>3. \A p \in Frozen : /\ p.workspace \in Workspaces /\ p.ref \in Refs
                        /\ p.ref = TargetRef[p.workspace]
  BY FrozenType DEF IndInv, TypeInv
<1>4. \A p \in Frozen : p.refHead # d
  <2> SUFFICES ASSUME NEW p \in Frozen, p.refHead = d PROVE FALSE
    OBVIOUS
  <2>1. d \in HeadsOf(p.ref) /\ p.ref \in Refs
    BY <1>2, <1>3 DEF FrozenShape
  <2> QED
    BY <2>1 DEF Committed
<1>5. FrozenShape'
  BY <1>3 DEF FrozenShape
<1>6. FrozenCurrent'
  <2> SUFFICES ASSUME NEW p \in Frozen, p.refHead = head'[p.ref]
               PROVE  /\ draft'[p.workspace].base = p.refHead
                      /\ p.content \subseteq draft'[p.workspace].content
    BY DEF FrozenCurrent
  <2>1. p.ref # ref
    BY <1>1, <1>4
  <2>2. p.refHead = head[p.ref] /\ draft'[p.workspace] = draft[p.workspace]
    BY <1>1, <1>3, <2>1
  <2> QED
    BY <2>2 DEF FrozenCurrent
<1>7. EmptyRefMarks'
  <2>1. ASSUME NEW w \in Workspaces
        PROVE  IF draft'[w].base = None
               THEN draft'[w].marked = draft'[w].content \cap GeneratedEdits
               ELSE head'[TargetRef[w]] # None
    BY <1>1, <1>2 DEF EmptyRefMarks
  <2> QED
    BY <2>1 DEF EmptyRefMarks
<1>8. MarksAgree'
  BY <1>4 DEF MarksAgree
<1> QED
  BY <1>5, <1>6, <1>7, <1>8
\* A step that does not prepare a review freezes nothing new.
LEMMA FreezesNothing ==
    ASSUME IndInv, [Next]_vars, ~UNCHANGED <<repository, draft, published>>
    PROVE  Frozen' \subseteq Frozen
BY FrozenStep DEF FreezesDraft

\* A commit that was in no history becomes the head of a ref.
LEMMA NewHead ==
    ASSUME IndInv, NEW ref \in Refs, NEW d \in Digests, d \notin Committed,
           head' = [head EXCEPT ![ref] = d]
    PROVE  ~UNCHANGED <<repository, draft, published>>
<1>1. head'[ref] = d
  BY DEF IndInv, TypeInv, TypeOK
<1>2. head[ref] # d
  <2>1. d # None /\ d \notin HeadsOf(ref)
    BY NoneIsNoDigest DEF Committed
  <2> QED
    BY <2>1, HeadInHistory
<1> QED
  BY <1>1, <1>2 DEF repository

\* Every step keeps Proposals and Drafts in agreement.
LEMMA NextFrozen ==
    ASSUME IndInv, EditInv, ProposalsOnTarget, FrozenInv, [Next]_vars PROVE FrozenInv'
<1>1. CASE UNCHANGED <<head, advances, draft>>
  BY <1>1, FrozenStep, PreparedFrozen
<1>2. CASE UNCHANGED <<repository, receipts>> /\ WorkspaceStep /\ ~UNCHANGED <<head, advances, draft>>
  <2>1. UNCHANGED repository /\ ~UNCHANGED <<repository, draft, published>>
    BY <1>2 DEF repository
  <2> QED
    BY <1>2, <2>1, FreezesNothing, WorkspaceFrozen DEF WorkspaceStep
<1>3. ASSUME NEW h \in Handlers, NEW d \in Digests, CommitsNow(h, d) PROVE FrozenInv'
  <2> DEFINE p == proposal[command[call[h].request].transition]
             e == command[call[h].request].body.expectedHead
  <2>1. /\ p \in Proposals /\ head' = [head EXCEPT ![p.ref] = d] /\ d \notin Committed
        /\ command[call[h].request].transition \in Transitions
    BY <1>3, CommitsShape
  <2>2. p # None
    BY <1>3, ServedFacts DEF CommitsNow, Serving, IndInv
  <2>3. p.ref \in Refs /\ p.ref = TargetRef[p.workspace] /\ p.workspace \in Workspaces
    BY <2>1, <2>2 DEF ProposalsOnTarget, Proposals
  <2>4. \A r \in Refs : HeadsOf(r) \subseteq HeadsOf(r)'
    <3>1. e \in Commits
      BY <1>3, CommitsShape DEF CommitBodies
    <3> QED
      BY <1>3, <2>3, <3>1, AdvanceKeeps DEF CommitsNow, IndInv, TypeInv
  <2>5. \A w \in Workspaces :
           \/ draft'[w] = draft[w]
           \/ TargetRef[w] = p.ref /\ draft'[w].base = d /\ draft'[w].marked \subseteq draft'[w].content
    <3>1. ASSUME NEW w \in Workspaces \ {p.workspace}
          PROVE  \/ draft'[w] = draft[w]
                 \/ /\ TargetRef[w] = p.ref /\ draft'[w].base = d
                    /\ draft'[w].marked \subseteq draft'[w].content
      <4>1. /\ draft'[w].content = draft[w].content /\ draft'[w].marked = draft[w].marked
            /\ draft'[w] = draft[w] \/ (TargetRef[w] = p.ref /\ draft'[w].base = d)
        <5>1. CarriedOver(p, d, w)
          BY <1>3, CommitDrafts
        <5> QED
          BY <5>1 DEF CarriedOver
      <4>2. draft[w].marked \subseteq draft[w].content
        BY DEF FrozenInv, MarksAgree
      <4> QED
        BY <4>1, <4>2
    <3>2. draft'[p.workspace].base = d /\ draft'[p.workspace].marked = {}
      BY <1>3, CommitDrafts
    <3> QED
      BY <2>3, <3>1, <3>2
  <2>6. ~UNCHANGED <<repository, draft, published>>
    BY <2>1, <2>3, NewHead
  <2> HIDE DEF p, e
  <2> QED
    BY <2>1, <2>3, <2>4, <2>5, <2>6, FreezesNothing, AdvanceFrozen
<1>4. ASSUME NEW h \in Handlers, NEW d \in Digests, Writes(h, d) PROVE FrozenInv'
  <2> DEFINE ref == call[h].ref
  <2>1. ref \in Refs /\ head' = [head EXCEPT ![ref] = d] /\ d \notin Committed
    BY <1>4, WritesShape
  <2>2. \A r \in Refs : HeadsOf(r) \subseteq HeadsOf(r)'
    <3>1. call[h].expectedHead \in Commits
      BY <1>4, CallShape DEF Writes, IndInv, TypeInv
    <3> QED
      BY <1>4, <2>1, <3>1, AdvanceKeeps DEF Writes, IndInv, TypeInv
  <2>3. \A w \in Workspaces :
           \/ draft'[w] = draft[w]
           \/ TargetRef[w] = ref /\ draft'[w].base = d /\ draft'[w].marked \subseteq draft'[w].content
    <3> SUFFICES ASSUME NEW w \in Workspaces
                 PROVE  \/ draft'[w] = draft[w]
                        \/ /\ TargetRef[w] = ref /\ draft'[w].base = d
                           /\ draft'[w].marked \subseteq draft'[w].content
      OBVIOUS
    <3>1. /\ draft'[w].content = draft[w].content /\ draft'[w].marked = draft[w].marked
          /\ draft'[w] = draft[w] \/ (TargetRef[w] = ref /\ draft'[w].base = d)
      BY <1>4, WriteDrafts
    <3>2. draft[w].marked \subseteq draft[w].content
      BY DEF FrozenInv, MarksAgree
    <3> QED
      BY <3>1, <3>2
  <2>4. ~UNCHANGED <<repository, draft, published>>
    BY <2>1, NewHead
  <2> HIDE DEF ref
  <2> QED
    BY <2>1, <2>2, <2>3, <2>4, FreezesNothing, AdvanceFrozen
<1>5. ASSUME NEW h \in Handlers, NEW d \in Digests, Decides(h, d) PROVE UNCHANGED <<head, advances, draft>>
  BY <1>5 DEF Decides
<1> QED
  BY <1>1, <1>2, <1>3, <1>4, <1>5, StepEffects DEF repository

\* A Decision that was recorded never changes.
LEMMA LedgerStays ==
    ASSUME IndInv, [Next]_vars, NEW d \in Digests, ledger[d] # None PROVE ledger'[d] = ledger[d]
<1>1. CASE UNCHANGED repository
  BY <1>1 DEF repository
<1>2. ASSUME NEW h \in Handlers, NEW c \in Digests, Decides(h, c) PROVE ledger'[d] = ledger[d]
  <2>1. c # d
    BY <1>2 DEF Decides
  <2> QED
    BY <1>2, <2>1, DecidesShape
<1>3. ASSUME NEW h \in Handlers, NEW c \in Digests, Writes(h, c) PROVE ledger'[d] = ledger[d]
  <2>1. c # d
    BY <1>3 DEF Writes
  <2> QED
    BY <1>3, <2>1, WritesShape
<1>4. ASSUME NEW h \in Handlers, NEW c \in Digests, CommitsNow(h, c) PROVE ledger'[d] = ledger[d]
  BY <1>4 DEF CommitsNow
<1> QED
  BY <1>1, <1>2, <1>3, <1>4, StepEffects DEF repository

\* The policy of a generated Proposal that is precommitted carries the overlay.
LEMMA KeptIsOverlaid ==
    ASSUME TypeOK, NEW r \in Requests, NEW p \in Proposals, IsGenerated(p), GenerationPolicyKept(r, p)
    PROVE  Overlaid(ledger[command[r].body.decision].policy)
<1> DEFINE q == RefPolicyForActor(binding[p.ref], ActorOf[r])
           bound == p.workspace \in SchemaBound
           effective == IF bound THEN SchemaOverlay(q) ELSE q
<1>1. /\ ledger[command[r].body.decision].policy = Applicable(p, ActorOf[r])
      /\ Applicable(p, ActorOf[r]) # NoPolicy
  BY DEF GenerationPolicyKept
<1>2. q \in Policies \cup {NoPolicy}
  BY PresetTypes DEF RefPolicyForActor, TypeOK, Proposals
<1>3. q # NoPolicy /\ Applicable(p, ActorOf[r]) = ApplicablePolicy(q, IsGenerated(p), bound)
  BY <1>1 DEF Applicable
<1>4. ApplicablePolicy(q, IsGenerated(p), bound) = GenerationOverlay(effective)
  BY DEF ApplicablePolicy
<1>5. effective \in Policies
  BY <1>2, <1>3 DEF SchemaOverlay, Policies
<1> HIDE DEF effective
<1> QED
  BY <1>1, <1>3, <1>4, <1>5 DEF Overlaid

\* A handler that decides on generated content acts for a human.
LEMMA NextDecider ==
    ASSUME IndInv, GeneratedInv, [Next]_vars, NEW h \in Handlers, call'[h].pc = "decide",
           IsGenerated(proposal'[command'[call'[h].request].transition])
    PROVE  ActorOf[call'[h].request] \in Humans
<1> DEFINE r == call[h].request
           t == command[r].transition
<1>1. call'[h].request = r /\ call[h].pc \in Serving
  BY Moves DEF MovesAsCoded, Lookup, Serving
<1>2. /\ r \in Requests /\ command[r] # None /\ t \in Transitions /\ proposal[t] # None
      /\ command'[r] = command[r] /\ proposal'[t] = proposal[t]
  <2>1. r \in Requests /\ command[r] # None
    BY <1>1, CallShape DEF IndInv, TypeInv, ServesCommands
  <2>2. t \in Transitions /\ proposal[t] # None
    BY <2>1, CommandShape DEF IndInv, TypeInv, ServesCommands
  <2> QED
    BY <2>1, <2>2, Permanent DEF IndInv
<1>3. IsGenerated(proposal[t])
  BY <1>1, <1>2
<1>4. CASE call'[h] = call[h]
  BY <1>1, <1>3, <1>4 DEF GeneratedInv
<1>5. CASE call'[h] # call[h]
  <2>1. ~AutomationDenied(r)
    BY <1>5, Moves DEF MovesAsCoded
  <2>2. command[r].body.action = "decide"
    <3>1. TypeInv'
      BY NextType DEF IndInv
    <3> QED
      BY <1>1, <1>2, <3>1 DEF TypeInv, ServesCommands
  <2> QED
    BY <1>1, <1>3, <2>1, <2>2 DEF AutomationDenied
<1> QED
  BY <1>4, <1>5

\* A handler that commits generated content has checked that its Decision kept the overlay.
LEMMA NextCommitter ==
    ASSUME IndInv, GeneratedInv, [Next]_vars, NEW h \in Handlers, call'[h].pc = "commit",
           IsGenerated(proposal'[command'[call'[h].request].transition])
    PROVE  Overlaid(ledger'[command'[call'[h].request].body.decision].policy)
<1> DEFINE r == call[h].request
           t == command[r].transition
           d == command[r].body.decision
<1>1. /\ call'[h].request = r /\ call[h].pc \in {"precheck", "commit"}
      /\ call'[h] # call[h] => Precheckable(r)
  BY Moves DEF MovesAsCoded, CommitPrecheck
<1>2. r \in Requests /\ command[r] # None /\ command[r].body.action = "commit"
  BY <1>1, CallShape DEF IndInv, TypeInv, ServesCommands, Serving
<1>3. t \in Transitions /\ proposal[t] # None /\ d \in Digests
  BY <1>2, CommandShape DEF IndInv, TypeInv, ServesCommands, CommitBodies
<1>4. command'[r] = command[r] /\ proposal'[t] = proposal[t]
  BY <1>2, <1>3, Permanent DEF IndInv
<1>5. IsGenerated(proposal[t])
  BY <1>1, <1>4
<1>6. ledger[d] # None /\ Overlaid(ledger[d].policy)
  <2>1. CASE call'[h] = call[h]
    BY <1>1, <1>5, <2>1 DEF GeneratedInv, CommitsChecked, IndInv, HistoryInv
  <2>2. CASE call'[h] # call[h]
    <3>1. ledger[d] # None /\ GenerationPolicyKept(r, proposal[t])
      BY <1>1, <2>2 DEF Precheckable
    <3>2. proposal[t] \in Proposals
      BY <1>3 DEF IndInv, TypeInv, TypeOK
    <3> QED
      BY <1>2, <1>5, <3>1, <3>2, KeptIsOverlaid DEF IndInv, TypeInv
  <2> QED
    BY <2>1, <2>2
<1>7. ledger'[d] = ledger[d]
  BY <1>3, <1>6, LedgerStays
<1> QED
  BY <1>1, <1>4, <1>6, <1>7
\* The Proposal a Decision was made on, seen from both sides.
DecidedOn(d, t) ==
    /\ proposal[t] # None /\ ledger[d].subject = SubjectOf(proposal[t])
    /\ IsGenerated(proposal[t]) => ledger[d].actor \in Humans

CommittedOn(d, t) ==
    /\ proposal[t] # None /\ ledger[d].subject = SubjectOf(proposal[t])
    /\ IsGenerated(proposal[t]) => Overlaid(ledger[d].policy)

\* Decisions and Proposals are permanent, so what was decided stays decided.
LEMMA DecidedStays ==
    ASSUME IndInv, [Next]_vars, NEW d \in Digests, ledger[d] # None, NEW t \in Transitions
    PROVE  /\ DecidedOn(d, t) => DecidedOn(d, t)'
           /\ CommittedOn(d, t) => CommittedOn(d, t)'
<1>1. ledger'[d] = ledger[d] /\ (proposal[t] # None => proposal'[t] = proposal[t])
  BY LedgerStays, Permanent DEF IndInv
<1> QED
  BY <1>1 DEF DecidedOn, CommittedOn

\* A Decision with edits is new, or was there.
LEMMA NextDecided ==
    ASSUME IndInv, GeneratedInv, [Next]_vars, NEW d \in Digests,
           ledger'[d] # None, ledger'[d].subject.content # {}
    PROVE  \E t \in Transitions : DecidedOn(d, t)'
<1>1. CASE ledger[d] # None
  <2>1. ledger'[d] = ledger[d]
    BY <1>1, LedgerStays
  <2>2. PICK t \in Transitions : DecidedOn(d, t)
    BY <1>1, <2>1 DEF GeneratedInv, DecidedOn
  <2> QED
    BY <1>1, <2>2, DecidedStays
<1>2. CASE ledger[d] = None
  <2>1. ledger' # ledger
    BY <1>2
  <2>2. ASSUME NEW h \in Handlers, NEW c \in Digests, Writes(h, c) PROVE FALSE
    <3>1. c = d
      BY <1>2, <2>2, WritesShape
    <3> QED
      BY <2>2, <3>1, WritesShape
  <2>3. PICK h \in Handlers, c \in Digests : Decides(h, c)
    BY <2>1, <2>2, StepEffects DEF CommitsNow, repository
  <2>4. c = d
    <3>1. \A x \in Digests \ {c} : ledger'[x] = ledger[x]
      BY <2>3, DecidesShape
    <3> QED
      BY <1>2, <3>1
  <2> DEFINE r == call[h].request
             t == command[r].transition
             p == proposal[t]
  <2>5. /\ t \in Transitions /\ p \in Proposals
        /\ ledger'[d] = [subject |-> SubjectOf(p), ref |-> p.ref, actor |-> ActorOf[r],
                         outcome |-> command[r].body.outcome, policy |-> command[r].body.policy,
                         evidence |-> observed[t]]
    BY <2>3, <2>4, DecidesShape
  <2>6. ledger'[d].subject = SubjectOf(p) /\ ledger'[d].actor = ActorOf[r]
    <3> HIDE DEF t, p, r
    <3> QED
      BY <2>5
  <2>7. IsGenerated(p) => ActorOf[r] \in Humans
    BY <2>3 DEF GeneratedInv, Decides
  <2>8. proposal'[t] = p /\ p # None
    <3>1. p # None
      BY <2>3, ServedFacts DEF Decides, Serving, IndInv
    <3> QED
      BY <2>5, <3>1, Permanent DEF IndInv
  <2> HIDE DEF t, p, r
  <2> QED
    BY <2>5, <2>6, <2>7, <2>8 DEF DecidedOn
<1> QED
  BY <1>1, <1>2

\* A commit with edits is new, or was there.
LEMMA NextCommitted ==
    ASSUME IndInv, GeneratedInv, [Next]_vars, NEW d \in Committed',
           ledger'[d].subject.content # {}
    PROVE  \E t \in Transitions : CommittedOn(d, t)'
<1>1. CASE d \in Committed
  <2>1. d \in Digests /\ ledger[d] # None
    BY <1>1, CommittedDecided
  <2>2. ledger'[d] = ledger[d]
    BY <2>1, LedgerStays
  <2>3. PICK t \in Transitions : CommittedOn(d, t)
    BY <1>1, <2>2 DEF GeneratedInv, CommittedOn
  <2> QED
    BY <2>1, <2>3, DecidedStays
<1>2. CASE d \notin Committed
  <2>1. advances' # advances
    BY <1>2, CommittedStays
  <2>2. ASSUME NEW h \in Handlers, NEW c \in Digests, Writes(h, c) PROVE FALSE
    <3>1. c = d
      BY <1>2, <2>2, WritesShape
    <3> QED
      BY <2>2, <3>1, WritesShape
  <2>3. PICK h \in Handlers, c \in Digests : CommitsNow(h, c)
    BY <2>1, <2>2, StepEffects DEF Decides, repository
  <2>4. c = d
    <3>1. Committed' = Committed \cup {c}
      BY <2>3, CommitsShape
    <3> QED
      BY <1>2, <3>1
  <2> DEFINE r == call[h].request
             t == command[r].transition
             p == proposal[t]
  <2>5. t \in Transitions /\ p \in Proposals /\ ledger[d].subject = SubjectOf(p)
    BY <2>3, <2>4, CommitsShape
  <2>6. IsGenerated(p) => Overlaid(ledger[d].policy)
    BY <2>3, <2>4 DEF GeneratedInv, CommitsNow
  <2>7. proposal' = proposal /\ ledger' = ledger /\ p # None
    BY <2>3, ServedFacts DEF CommitsNow, review, Serving, IndInv
  <2> HIDE DEF r
  <2> QED
    BY <2>5, <2>6, <2>7 DEF CommittedOn
<1> QED
  BY <1>1, <1>2

\* Every step keeps what Decisions and commits say of their Proposals.
LEMMA NextGenerated == ASSUME IndInv, GeneratedInv, [Next]_vars PROVE GeneratedInv'
<1>1. ASSUME NEW d \in Digests, ledger'[d] # None, ledger'[d].subject.content # {}
      PROVE  \E t \in Transitions :
                /\ proposal'[t] # None /\ ledger'[d].subject = SubjectOf(proposal'[t])
                /\ IsGenerated(proposal'[t]) => ledger'[d].actor \in Humans
  BY <1>1, NextDecided DEF DecidedOn, SubjectOf, IsGenerated
<1>2. ASSUME NEW d \in Committed', ledger'[d].subject.content # {}
      PROVE  \E t \in Transitions :
                /\ proposal'[t] # None /\ ledger'[d].subject = SubjectOf(proposal'[t])
                /\ IsGenerated(proposal'[t]) => Overlaid(ledger'[d].policy)
  BY <1>2, NextCommitted DEF CommittedOn, SubjectOf, IsGenerated
<1> QED
  BY <1>1, <1>2, NextDecider, NextCommitter DEF GeneratedInv, SubjectOf, IsGenerated

\* Of two Proposals with the same Effect, both or none are generated.
LEMMA SameEffect ==
    ASSUME FrozenInv, NEW p \in Frozen, NEW q \in Frozen, SubjectOf(p) = SubjectOf(q), IsGenerated(p)
    PROVE  IsGenerated(q)
<1>1. p.refHead = q.refHead /\ p.content = q.content
  BY DEF SubjectOf
<1>2. PICK e \in p.content : e \in p.marked
  BY DEF IsGenerated, FrozenInv, FrozenShape
<1> QED
  BY <1>1, <1>2 DEF FrozenInv, MarksAgree, IsGenerated

\* Proposals in agreement and Decisions under the overlay make generated content safe.
LEMMA OverlayProtects ==
    ASSUME IndInv, FrozenInv, GeneratedInv PROVE GeneratedProposalsUnderOverlay
<1> SUFFICES ASSUME NEW t \in Transitions, NEW d \in Committed,
                    proposal[t] # None, IsGenerated(proposal[t]),
                    ledger[d].subject = SubjectOf(proposal[t])
             PROVE  /\ ledger[d].policy.runner = "required"
                    /\ ledger[d].actor \in Humans
                    /\ "passed" \in TrustedResults(ledger[d].policy, "runner", ledger[d].evidence)
  BY DEF GeneratedProposalsUnderOverlay
<1>1. d \in Digests /\ ledger[d] # None
  BY CommittedDecided
<1>2. ledger[d].subject.content # {}
  <2>1. SubjectOf(proposal[t]).content = proposal[t].content
    BY DEF SubjectOf
  <2> QED
    BY <2>1, StoredFrozen DEF FrozenInv, FrozenShape
<1>3. \A u \in Transitions : proposal[u] # None /\ ledger[d].subject = SubjectOf(proposal[u]) =>
         IsGenerated(proposal[u])
  BY SameEffect, StoredFrozen
<1>4. ledger[d].actor \in Humans
  BY <1>1, <1>2, <1>3 DEF GeneratedInv
<1>5. PICK q \in Policies : ledger[d].policy = GenerationOverlay(q)
  BY <1>2, <1>3 DEF GeneratedInv, Overlaid
<1>6. GenerationOverlay(q).runner = "required" /\ GenerationOverlay(q).trusts["runner"] = {PostureVerifier}
  BY DEF GenerationOverlay, Policies, Checks
<1>7. ledger[d] \in Decisions /\ ledger[d].outcome \in {"accepted", "overridden"}
  <2>1. ledger[d] \in Decisions
    BY <1>1 DEF IndInv, TypeInv, TypeOK
  <2>2. ledger[d].outcome # "rejected"
    <3> PICK ref \in Refs : d \in HeadsOf(ref)
      BY DEF Committed
    <3> PICK i \in DOMAIN advances[ref] : d = advances[ref][i].head
      BY DEF HeadsOf
    <3>1. i \in 1 .. Len(advances[ref])
      BY EventShape DEF IndInv, TypeInv
    <3> QED
      BY <1>1, <3>1 DEF EntriesGranted, GrantsSound, IndInv, HistoryInv
  <2> QED
    BY <2>1, <2>2 DEF Decisions, Outcomes
<1>8. Permitted(GenerationOverlay(q), Claim, ledger[d].subject.actor, ledger[d].evidence,
                ledger[d].actor, ledger[d].outcome)
  BY <1>1, <1>5 DEF IndInv, HistoryInv, LedgerSound
<1>9. PICK s \in ledger[d].evidence :
         s.check = "runner" /\ s.result = "passed" /\ s.issuer = PostureVerifier
  BY <1>7, <1>8, PostureIsLoadBearing
<1>10. "passed" \in TrustedResults(ledger[d].policy, "runner", ledger[d].evidence)
  BY <1>5, <1>6, <1>9 DEF TrustedResults
<1> QED
  BY <1>4, <1>5, <1>6, <1>10

\* Generated content reaches history only by a human Decision under the overlay, on a posture
\* that the verifier passed, even if a Proposal with the same Effect was prepared
\* elsewhere, earlier or again (assertGenerationDecisionActor, generationOverlayPolicy).
THEOREM GeneratedContentIsOverlaid == Spec => []GeneratedProposalsUnderOverlay
<1> DEFINE Inv == EditInv /\ ProposalsOnTarget /\ FrozenInv /\ GeneratedInv
<1>1. Init => Inv
  <2> SUFFICES ASSUME Init PROVE Inv
    OBVIOUS
  <2>1. EditInv
    BY EmptyHistory DEF Init, EditInv, EditsConserved, CommittedEdits
  <2>2. Frozen = {} /\ ProposalsOnTarget
    BY DEF Init, Frozen, ProposalsOnTarget, Idle
  <2>3. FrozenInv
    BY <2>2 DEF Init, FrozenInv, FrozenShape, FrozenCurrent, EmptyRefMarks, MarksAgree
  <2>4. GeneratedInv
    BY EmptyHistory DEF Init, GeneratedInv, Idle
  <2> QED
    BY <2>1, <2>2, <2>3, <2>4
<1>2. IndInv /\ Inv /\ [Next]_vars => Inv'
  BY NextEdits, NextTarget, NextFrozen, NextGenerated
<1>3. IndInv /\ Inv => GeneratedProposalsUnderOverlay
  BY OverlayProtects
<1> HIDE DEF Inv
<1> QED
  BY <1>1, <1>2, <1>3, Inductive, PTL DEF Spec
(***************************************************************************)
(* Advances. An advance takes the edits of a Draft only if the commit is   *)
(* that Draft: its revision and manifest are read in the transaction, and  *)
(* FrozenCurrent says that its basis is still the one of the Proposal.     *)
(***************************************************************************)
\* What the advance of a ref to a commit may do to a Draft.
KeepsEdits(ref, w) ==
    LET old == draft[w]
        new == draft'[w]
        commit == ledger'[head'[ref]].subject
    IN  \/ new = old
        \/ /\ TargetRef[w] = ref
           /\ new.base = head'[ref]
           /\ new.content = {}
           /\ old.content # {} => commit.content = old.content /\ commit.base = old.base

\* A step that leaves the events of a ref alone does not advance it.
LEMMA NoAdvance ==
    ASSUME TypeOK, NEW ref \in Refs, advances'[ref] = advances[ref] PROVE ~Advanced(ref)
<1>1. Len(advances[ref]) \in Nat
  BY EventShape
<1> QED
  BY <1>1 DEF Advanced

\* A transaction that appends one event advances the ref of that event only.
LEMMA OneAdvance ==
    ASSUME TypeOK, NEW ref \in Refs, NEW other \in Refs, NEW e, NEW d, Advance(ref, e, d),
           Advanced(other)
    PROVE  other = ref /\ head'[ref] = d
<1>1. head'[ref] = d /\ \A r \in Refs \ {ref} : advances'[r] = advances[r]
  BY DEF Advance, TypeOK
<1> QED
  BY <1>1, NoAdvance

\* A commit takes the edits of its own Draft, on the basis it has.
LEMMA CommitKeeps ==
    ASSUME IndInv, ProposalsOnTarget, FrozenInv, NEW h \in Handlers, NEW d \in Digests,
           CommitsNow(h, d), NEW ref \in Refs, Advanced(ref), NEW w \in Workspaces
    PROVE  KeepsEdits(ref, w)
<1> DEFINE p == proposal[command[call[h].request].transition]
<1>1. /\ command[call[h].request].transition \in Transitions /\ p \in Proposals
      /\ ledger[d].subject = SubjectOf(p) /\ head[p.ref] = p.refHead
      /\ ledger' = ledger
  BY CommitsShape DEF CommitsNow
<1>2. p # None
  BY ServedFacts DEF CommitsNow, Serving, IndInv
<1>3. p \in Frozen /\ p.ref = TargetRef[p.workspace] /\ p.ref \in Refs
  BY <1>1, <1>2, StoredFrozen DEF ProposalsOnTarget, Proposals
<1>4. ref = p.ref /\ head'[ref] = d
  BY <1>3, OneAdvance DEF CommitsNow, IndInv, TypeInv
<1>5. /\ p.content = draft[p.workspace].content
      /\ draft'[p.workspace].base = d /\ draft'[p.workspace].content = {}
      /\ \A v \in Workspaces \ {p.workspace} : CarriedOver(p, d, v)
  BY CommitDrafts
<1> HIDE DEF p
<1>6. draft[p.workspace].base = p.refHead
  BY <1>1, <1>3 DEF FrozenInv, FrozenCurrent
<1>7. ledger'[d].subject.content = p.content /\ ledger'[d].subject.base = p.refHead
  BY <1>1 DEF SubjectOf
<1>8. CASE w = p.workspace
  BY <1>3, <1>4, <1>5, <1>6, <1>7, <1>8 DEF KeepsEdits
<1>9. CASE w # p.workspace
  <2>1. CarriedOver(p, d, w)
    BY <1>5, <1>9
  <2> QED
    BY <1>4, <2>1 DEF CarriedOver, Clean, KeepsEdits
<1> QED
  BY <1>8, <1>9

\* A repository write takes no edits.
LEMMA WriteKeeps ==
    ASSUME IndInv, NEW h \in Handlers, NEW d \in Digests, Writes(h, d),
           NEW ref \in Refs, Advanced(ref), NEW w \in Workspaces
    PROVE  KeepsEdits(ref, w)
<1>1. call[h].ref \in Refs /\ Advance(call[h].ref, call[h].expectedHead, d)
  BY WritesShape DEF Writes
<1>2. ref = call[h].ref /\ head'[ref] = d
  BY <1>1, OneAdvance DEF IndInv, TypeInv
<1>3. /\ draft'[w].content = draft[w].content
      /\ \/ draft'[w] = draft[w]
         \/ Clean(w) /\ TargetRef[w] = call[h].ref /\ draft'[w].base = d
  BY WriteDrafts
<1> QED
  BY <1>2, <1>3 DEF Clean, KeepsEdits

\* Every step that advances a ref keeps the edits of every Draft.
LEMMA NextKeeps ==
    ASSUME IndInv, ProposalsOnTarget, FrozenInv, [Next]_vars,
           NEW ref \in Refs, Advanced(ref), NEW w \in Workspaces
    PROVE  KeepsEdits(ref, w)
<1>1. advances' # advances
  BY NoAdvance DEF IndInv, TypeInv
<1>2. \/ \E h \in Handlers, d \in Digests : CommitsNow(h, d)
      \/ \E h \in Handlers, d \in Digests : Writes(h, d)
  BY <1>1, StepEffects DEF Decides, repository
<1> QED
  BY <1>2, CommitKeeps, WriteKeeps

\* Whatever route advances a ref, and whichever Workspaces it finds ready to follow,
\* a Draft with edits is taken whole by its own commit or left alone, and one
\* without edits moves to the new head of its own ref or not at all
\* (renewWorkspaceAuthoring, synchronizeCleanBranchWorkspaces).
THEOREM AdvancesSpareEdits == Spec => AdvancesKeepEditedDrafts
<1> DEFINE Inv == EditInv /\ ProposalsOnTarget /\ FrozenInv
<1>1. Init => Inv
  <2> SUFFICES ASSUME Init PROVE Inv
    OBVIOUS
  <2>1. EditInv
    BY EmptyHistory DEF Init, EditInv, EditsConserved, CommittedEdits
  <2>2. Frozen = {} /\ ProposalsOnTarget
    BY DEF Init, Frozen, ProposalsOnTarget, Idle
  <2>3. FrozenInv
    BY <2>2 DEF Init, FrozenInv, FrozenShape, FrozenCurrent, EmptyRefMarks, MarksAgree
  <2> QED
    BY <2>1, <2>2, <2>3
<1>2. IndInv /\ Inv /\ [Next]_vars => Inv'
  BY NextEdits, NextTarget, NextFrozen
<1>3. IndInv /\ Inv /\ [Next]_vars =>
        [\A ref \in Refs : Advanced(ref) =>
            \A w \in Workspaces :
                LET old == draft[w]
                    new == draft'[w]
                    commit == ledger'[head'[ref]].subject
                IN  \/ new = old
                    \/ /\ TargetRef[w] = ref
                       /\ new.base = head'[ref]
                       /\ new.content = {}
                       /\ old.content # {} =>
                             commit.content = old.content /\ commit.base = old.base]_vars
  BY NextKeeps DEF KeepsEdits
<1> HIDE DEF Inv
<1> QED
  BY <1>1, <1>2, <1>3, Inductive, PTL DEF Spec, AdvancesKeepEditedDrafts
===============================================================================
