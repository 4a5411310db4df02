------------------------ MODULE RepositoryServicesProofs ------------------------
(***************************************************************************)
(* The services beside the transition control plane, for all values of     *)
(* their constants: which branch of a project is current, the outcome of   *)
(* runs, the list of Workspaces on a page, and the delivery of events.     *)
(* They share no state, and a section is about one of them.                *)
(***************************************************************************)
EXTENDS BranchRegistry, RunTimeouts, WorkspaceFeed, EventStream, FiniteSetTheorems,
        WellFoundedInduction, TLAPS

(***************************************************************************)
(* Branches. A project that has branches has a current one, and only one   *)
(* while no creation overlaps a switch, for any number of branches and     *)
(* executions.                                                             *)
(*                                                                         *)
(* HasCurrent is not inductive: a creation commits what it counted before, *)
(* and a switch sets a branch it found before. BranchInv adds what makes   *)
(* these reads last: rows are never removed, so a creation that counted a  *)
(* branch still has one, and a switch still has its target.                *)
(***************************************************************************)

BranchInv ==
    /\ TypeOK
    /\ HasCurrent
    /\ \A h \in Handlers :
          /\ call[h].pc = "insert" /\ ~call[h].first => Present # {}
          /\ call[h].pc \in {"switch", "unset", "set"} => call[h].branch \in Present

\* The program counter of a handler determines the fields of its call.
LEMMA BranchCall ==
    ASSUME TypeOK, NEW h \in Handlers
    PROVE  /\ call[h].pc = "insert" =>
                call[h] \in [pc: {"insert"}, branch: Branches, first: BOOLEAN, switch: BOOLEAN]
           /\ call[h].pc = "switch" => call[h] \in [pc: {"switch"}, branch: Branches]
           /\ call[h].pc \in {"unset", "set"} =>
                call[h] \in [pc: {"unset", "set"}, branch: Branches, seen: SUBSET Branches]
<1>1. call[h] \in Calls
  BY DEF TypeOK
<1> QED
  BY <1>1 DEF Calls, Idle

\* A handler moves to a call whose reads hold, and rows are only added or set.
LEMMA MoveBranch ==
    ASSUME BranchInv, NEW h \in Handlers, NEW c \in Calls, Goto(h, c),
           rows' \in [Branches -> {"absent", "plain", "current"}],
           overlapped' \in BOOLEAN,
           Present \subseteq Present',
           HasCurrent',
           c.pc = "insert" /\ ~c.first => Present' # {},
           c.pc \in {"switch", "unset", "set"} => c.branch \in Present'
    PROVE  BranchInv'
<1>1. call' = [call EXCEPT ![h] = c] /\ call \in [Handlers -> Calls]
  BY DEF Goto, BranchInv, TypeOK
<1>2. call'[h] = c /\ \A g \in Handlers \ {h} : call'[g] = call[g]
  BY <1>1
<1>3. TypeOK'
  BY <1>1 DEF TypeOK
<1> QED
  BY <1>2, <1>3 DEF BranchInv

\* No step of any handler leaves BranchInv.
LEMMA NextBranch == ASSUME BranchInv, [Next]_vars PROVE BranchInv'
<1>1. CASE UNCHANGED vars
  BY <1>1 DEF vars, BranchInv, TypeOK, HasCurrent, Present, CurrentBranches
<1>2. ASSUME NEW h \in Handlers, NEW b \in Branches, NEW switch \in BOOLEAN,
             BeginCreate(h, b, switch)
      PROVE  BranchInv'
  <2> DEFINE c == [pc |-> "insert", branch |-> b, first |-> CountsFirst, switch |-> switch]
  <2>1. c \in Calls /\ c.pc = "insert" /\ (~c.first => Present # {})
    BY DEF Calls, CountsFirst
  <2>2. Goto(h, c) /\ UNCHANGED <<rows, overlapped>>
    BY <1>2 DEF BeginCreate
  <2> HIDE DEF c
  <2> QED
    BY <2>1, <2>2, MoveBranch DEF BranchInv, TypeOK, HasCurrent, Present, CurrentBranches
<1>3. ASSUME NEW h \in Handlers, NEW b \in Branches, RequestSwitch(h, b)
      PROVE  BranchInv'
  <2> DEFINE c == [pc |-> "switch", branch |-> b]
  <2>1. c \in Calls /\ c.pc = "switch" /\ c.branch \in Present
    BY <1>3 DEF Calls, RequestSwitch
  <2>2. Goto(h, c) /\ UNCHANGED <<rows, overlapped>>
    BY <1>3 DEF RequestSwitch
  <2> HIDE DEF c
  <2> QED
    BY <2>1, <2>2, MoveBranch DEF BranchInv, TypeOK, HasCurrent, Present, CurrentBranches
<1>4. ASSUME NEW h \in Handlers, Insert(h) PROVE BranchInv'
  <2> DEFINE c == call[h]
  <2>1. c \in [pc: {"insert"}, branch: Branches, first: BOOLEAN, switch: BOOLEAN]
    BY <1>4, BranchCall DEF Insert, BranchInv
  <2>2. /\ c.branch \notin Present
        /\ rows' = [rows EXCEPT ![c.branch] = IF c.first THEN "current" ELSE "plain"]
        /\ overlapped' = (overlapped \/ Switching \/ (c.first /\ Present # {}))
        /\ Goto(h, NextCall(c))
    BY <1>4 DEF Insert
  <2>3. NextCall(c) \in Calls /\ NextCall(c).pc # "insert"
        /\ (NextCall(c).pc \in {"switch", "unset", "set"} => NextCall(c).branch = c.branch)
    BY <2>1 DEF NextCall, Calls, Idle
  <2> HIDE DEF c
  <2>4. /\ rows' \in [Branches -> {"absent", "plain", "current"}]
        /\ Present \subseteq Present' /\ c.branch \in Present'
        /\ CurrentBranches \subseteq CurrentBranches'
        /\ c.first => c.branch \in CurrentBranches'
    BY <2>1, <2>2 DEF BranchInv, TypeOK, Present, CurrentBranches
  <2>5. HasCurrent'
    <3>1. ~c.first => Present # {}
      BY <2>1, <1>4 DEF BranchInv, c
    <3> QED
      BY <2>1, <2>4, <3>1 DEF HasCurrent, BranchInv
  <2>6. overlapped' \in BOOLEAN
    BY <2>2
  <2> QED
    BY <2>2, <2>3, <2>4, <2>5, <2>6, MoveBranch
<1>5. ASSUME NEW h \in Handlers, NEW c \in Calls, Goto(h, c), UNCHANGED <<rows, overlapped>>,
             c.pc # "insert",
             c.pc \in {"switch", "unset", "set"} => c.branch \in Present
      PROVE  BranchInv'
  BY <1>5, MoveBranch DEF BranchInv, TypeOK, HasCurrent, Present, CurrentBranches
<1>6. ASSUME NEW h \in Handlers, InsertConflict(h) PROVE BranchInv'
  <2> DEFINE c == IF call[h].branch = Main THEN NextCall(call[h]) ELSE Idle
  <2>1. call[h] \in [pc: {"insert"}, branch: Branches, first: BOOLEAN, switch: BOOLEAN]
        /\ call[h].branch \in Present
    BY <1>6, BranchCall DEF InsertConflict, BranchInv
  <2>2. c \in Calls /\ c.pc # "insert"
        /\ (c.pc \in {"switch", "unset", "set"} => c.branch = call[h].branch)
    BY <2>1 DEF NextCall, Calls, Idle
  <2>3. Goto(h, c) /\ UNCHANGED <<rows, overlapped>>
    BY <1>6 DEF InsertConflict
  <2> HIDE DEF c
  <2> QED
    BY <1>5, <2>1, <2>2, <2>3
<1>7. ASSUME NEW h \in Handlers, BeginUnset(h) PROVE BranchInv'
  <2> DEFINE c == [pc |-> "unset", branch |-> call[h].branch, seen |-> Present]
  <2>1. call[h].pc = "switch" /\ call[h].branch \in Branches
    BY <1>7, BranchCall DEF BeginUnset, BranchInv
  <2>2. c \in Calls /\ c.pc = "unset" /\ c.branch \in Present
    BY <2>1 DEF Calls, Present, BranchInv
  <2>3. Goto(h, c) /\ UNCHANGED <<rows, overlapped>>
    BY <1>7 DEF BeginUnset
  <2> HIDE DEF c
  <2> QED
    BY <1>5, <2>2, <2>3
<1>8. ASSUME NEW h \in Handlers, Unset(h) PROVE BranchInv'
  <2> DEFINE c == [call[h] EXCEPT !.pc = "set"]
  <2>1. call[h] \in [pc: {"unset", "set"}, branch: Branches, seen: SUBSET Branches]
    BY <1>8, BranchCall DEF Unset, BranchInv
  <2>2. c \in Calls /\ c.pc = "set" /\ c.branch \in Present
    BY <1>8, <2>1 DEF Calls, Unset, BranchInv
  <2>3. Goto(h, c) /\ UNCHANGED <<rows, overlapped>>
    BY <1>8 DEF Unset
  <2> HIDE DEF c
  <2> QED
    BY <1>5, <2>2, <2>3
<1>9. ASSUME NEW h \in Handlers, Set(h) PROVE BranchInv'
  <2>1. call[h].pc = "set" /\ call[h].branch \in Branches
    BY <1>9, BranchCall DEF Set, BranchInv
  <2>2. rows' = [b \in Branches |->
                   IF b = call[h].branch THEN "current"
                   ELSE IF b \in Unsets(call[h]) THEN "plain" ELSE rows[b]]
    BY <1>9 DEF Set
  <2>3. rows' \in [Branches -> {"absent", "plain", "current"}]
    BY <2>2 DEF BranchInv, TypeOK
  <2>4. Present \subseteq Present' /\ HasCurrent'
    BY <2>1, <2>2 DEF Present, CurrentBranches, HasCurrent
  <2>5. Idle \in Calls /\ Idle.pc = "idle"
    BY DEF Calls, Idle
  <2> QED
    BY <1>9, <2>3, <2>4, <2>5, MoveBranch DEF Set, BranchInv, TypeOK
<1>10. ASSUME NEW h \in Handlers, Abort(h) PROVE BranchInv'
  <2>1. Idle \in Calls /\ Idle.pc = "idle"
    BY DEF Calls, Idle
  <2> QED
    BY <1>5, <1>10, <2>1 DEF Abort
<1> QED
  BY <1>1, <1>2, <1>3, <1>4, <1>6, <1>7, <1>8, <1>9, <1>10 DEF Next

\* A project that has branches has a current one, whatever creations and
\* switches are under way (insertBranch, ensureMainBranch, switchBranch).
THEOREM AlwaysCurrent == Spec => [](TypeOK /\ HasCurrent)
<1>1. Init => BranchInv
  <2> SUFFICES ASSUME Init PROVE BranchInv
    OBVIOUS
  <2>1. TypeOK /\ \A h \in Handlers : call[h].pc = "idle"
    BY DEF Init, TypeOK, Calls, Idle
  <2>2. HasCurrent
    BY DEF Init, HasCurrent, Present, CurrentBranches
  <2> QED
    BY <2>1, <2>2 DEF BranchInv
<1>2. BranchInv /\ [Next]_vars => BranchInv'
  BY NextBranch
<1>3. BranchInv => TypeOK /\ HasCurrent
  BY DEF BranchInv
<1> QED
  BY <1>1, <1>2, <1>3, PTL DEF Spec

(***************************************************************************)
(* One current branch. While no creation overlaps a switch, the rows that  *)
(* a switch has seen are all the rows there are.                           *)
(***************************************************************************)
SingleInv ==
    ~overlapped =>
        /\ AtMostOne
        /\ \A h \in Handlers : call[h].pc \in {"unset", "set"} => call[h].seen = Present

\* No step of any handler leaves SingleInv.
LEMMA NextSingle == ASSUME BranchInv, SingleInv, [Next]_vars PROVE SingleInv'
<1> SUFFICES ASSUME ~overlapped'
             PROVE  /\ AtMostOne'
                    /\ \A g \in Handlers :
                          call'[g].pc \in {"unset", "set"} => call'[g].seen = Present'
  BY DEF SingleInv
<1>1. ~overlapped
  BY DEF Next, vars, BeginCreate, RequestSwitch, Insert, InsertConflict, BeginUnset, Unset, Set, Abort
<1>2. /\ AtMostOne
      /\ \A g \in Handlers : call[g].pc \in {"unset", "set"} => call[g].seen = Present
  BY <1>1 DEF SingleInv
<1>3. CASE UNCHANGED vars
  BY <1>2, <1>3 DEF vars, AtMostOne, CurrentBranches, Present
<1>4. ASSUME NEW h \in Handlers, NEW c, Goto(h, c), rows' = rows,
             c.pc \in {"unset", "set"} => c.seen = Present
      PROVE  /\ AtMostOne'
             /\ \A g \in Handlers :
                   call'[g].pc \in {"unset", "set"} => call'[g].seen = Present'
  BY <1>2, <1>4 DEF Goto, BranchInv, TypeOK, AtMostOne, CurrentBranches, Present
<1>5. ASSUME NEW h \in Handlers, NEW b \in Branches, NEW switch \in BOOLEAN,
             BeginCreate(h, b, switch) \/ RequestSwitch(h, b)
      PROVE  \E c : Goto(h, c) /\ rows' = rows /\ (c.pc \in {"unset", "set"} => c.seen = Present)
  <2>1. CASE BeginCreate(h, b, switch)
    <3> DEFINE c == [pc |-> "insert", branch |-> b, first |-> CountsFirst, switch |-> switch]
    <3>1. Goto(h, c) /\ rows' = rows /\ c.pc \notin {"unset", "set"}
      BY <2>1 DEF BeginCreate
    <3> QED
      BY <3>1
  <2>2. CASE RequestSwitch(h, b)
    <3> DEFINE c == [pc |-> "switch", branch |-> b]
    <3>1. Goto(h, c) /\ rows' = rows /\ c.pc \notin {"unset", "set"}
      BY <2>2 DEF RequestSwitch
    <3> QED
      BY <3>1
  <2> QED
    BY <1>5, <2>1, <2>2
<1>6. ASSUME NEW h \in Handlers, InsertConflict(h)
      PROVE  \E c : Goto(h, c) /\ rows' = rows /\ (c.pc \in {"unset", "set"} => c.seen = Present)
  BY <1>6 DEF InsertConflict, NextCall, Idle
<1>7. ASSUME NEW h \in Handlers, Unset(h)
      PROVE  \E c : Goto(h, c) /\ rows' = rows /\ (c.pc \in {"unset", "set"} => c.seen = Present)
  <2>1. call[h] \in [pc: {"unset", "set"}, branch: Branches, seen: SUBSET Branches]
    BY <1>7, BranchCall DEF Unset, BranchInv
  <2>2. [call[h] EXCEPT !.pc = "set"].seen = Present
    BY <1>2, <1>7, <2>1 DEF Unset
  <2> QED
    BY <1>7, <2>2 DEF Unset
<1>8. ASSUME NEW h \in Handlers, Insert(h)
      PROVE  /\ AtMostOne'
             /\ \A g \in Handlers :
                   call'[g].pc \in {"unset", "set"} => call'[g].seen = Present'
  <2>1. call[h] \in [pc: {"insert"}, branch: Branches, first: BOOLEAN, switch: BOOLEAN]
    BY <1>8, BranchCall DEF Insert, BranchInv
  <2>2. ~Switching /\ (call[h].first => Present = {})
    BY <1>8 DEF Insert
  <2>3. \A g \in Handlers : call'[g].pc \notin {"unset", "set"}
    BY <1>8, <2>2 DEF Insert, Switching, Goto, NextCall, Idle, BranchInv, TypeOK
  <2>4. rows' = [rows EXCEPT ![call[h].branch] = IF call[h].first THEN "current" ELSE "plain"]
    BY <1>8 DEF Insert
  <2>5. AtMostOne'
    BY <1>2, <2>1, <2>2, <2>4 DEF AtMostOne, CurrentBranches, Present, BranchInv, TypeOK
  <2> QED
    BY <2>3, <2>5
<1>9. ASSUME NEW h \in Handlers, Set(h)
      PROVE  /\ AtMostOne'
             /\ \A g \in Handlers :
                   call'[g].pc \in {"unset", "set"} => call'[g].seen = Present'
  <2>1. call[h].pc = "set" /\ call[h].seen = Present
    BY <1>2, <1>9 DEF Set
  <2>2. rows' = [b \in Branches |->
                   IF b = call[h].branch THEN "current"
                   ELSE IF b \in Present THEN "plain" ELSE rows[b]]
    BY <1>9, <2>1 DEF Set, Unsets
  <2>3. AtMostOne'
    BY <2>2 DEF AtMostOne, CurrentBranches, Present
  <2>4. call[h].branch \in Present
    BY <2>1 DEF BranchInv
  <2>5. \A b \in Branches : rows'[b] # "absent" <=> rows[b] # "absent"
    BY <2>2, <2>4 DEF Present
  <2>6. Present' = Present
    BY <2>5 DEF Present
  <2> QED
    BY <1>2, <1>9, <2>3, <2>6 DEF Set, Goto, Idle, BranchInv, TypeOK
<1>10. ASSUME NEW h \in Handlers, BeginUnset(h) \/ Abort(h)
      PROVE  \E c : Goto(h, c) /\ rows' = rows /\ (c.pc \in {"unset", "set"} => c.seen = Present)
  <2>1. CASE BeginUnset(h)
    <3> DEFINE c == [pc |-> "unset", branch |-> call[h].branch, seen |-> Present]
    <3>1. Goto(h, c) /\ rows' = rows /\ c.seen = Present
      BY <2>1 DEF BeginUnset
    <3> QED
      BY <3>1
  <2>2. CASE Abort(h)
    BY <2>2 DEF Abort, Idle
  <2> QED
    BY <1>10, <2>1, <2>2
<1> QED
  BY <1>3, <1>4, <1>5, <1>6, <1>7, <1>8, <1>9, <1>10 DEF Next

\* Initially no call is under way, and no creation has overlapped a switch.
LEMMA InitBranch == Init => BranchInv /\ SingleInv
<1> SUFFICES ASSUME Init PROVE BranchInv /\ SingleInv
  OBVIOUS
<1>1. TypeOK /\ \A h \in Handlers : call[h].pc = "idle"
  BY DEF Init, TypeOK, Calls, Idle
<1>2. HasCurrent
  BY DEF Init, HasCurrent, Present, CurrentBranches
<1>3. AtMostOne
  BY RegistryAssumption DEF Init, AtMostOne, CurrentBranches
<1> QED
  BY <1>1, <1>2, <1>3 DEF BranchInv, SingleInv

\* While no creation overlapped a switch or another first creation, at most one
\* branch is current, however many switches run at once (switchBranch).
THEOREM OneCurrent == Spec => []SwitchesKeepOneCurrent
<1>1. Init => BranchInv /\ SingleInv
  BY InitBranch
<1>2. BranchInv /\ SingleInv /\ [Next]_vars => BranchInv' /\ SingleInv'
  BY NextBranch, NextSingle
<1>3. BranchInv /\ SingleInv => SwitchesKeepOneCurrent
  BY DEF SingleInv, SwitchesKeepOneCurrent
<1> QED
  BY <1>1, <1>2, <1>3, PTL DEF Spec

(***************************************************************************)
(* Runs. No write of a run is conditional on its status, so what keeps an  *)
(* outcome from being overwritten is the order of the messages: an answer  *)
(* exists only for a run that was linked, which is written once.           *)
(***************************************************************************)
\* Where a run is known to be linked, and what happened before.
LinkOrder ==
    \A r \in Runs :
        /\ starting[r] = "not yet" => run[r].status = "absent"
        /\ run[r].linked => starting[r] = "done"
        /\ run[r].status \in {"running"} \cup RunOutcomes => run[r].linked
        /\ answer[r] # "none" => run[r].linked
        /\ arriving[r] > 0 => answer[r] # "none"
        /\ arriving[r] <= sent[r]
        /\ r \in ingested => run[r].linked
        /\ \A k \in Scans : r \in listed[k] => run[r].linked

\* An answer that was stored is only lost to a scan that was under way.
AnswersKept ==
    /\ \A r \in ingested : Exists(r) => run[r].status \in RunOutcomes
    /\ \A k \in Scans : \A r \in listed[k] \cap ingested : r \in overtaken
    /\ AnswerLostOnlyToOlderScan

RunInv == RunsTypeOK /\ LinkOrder /\ AnswersKept

\* An update renews the row of a run that exists, and of no other.
LEMMA UpdatedRow ==
    ASSUME RunsTypeOK, NEW r \in Runs, NEW row \in RunRows, UpdateRun(r, row)
    PROVE  /\ run' \in [Runs -> RunRows]
           /\ overdue' \subseteq Runs
           /\ run'[r] = IF Exists(r) THEN row ELSE run[r]
           /\ \A q \in Runs \ {r} : run'[q] = run[q]
BY DEF RunsTypeOK, UpdateRun

\* A run is created, started at the runner and linked to it.
LEMMA CreationRuns ==
    ASSUME RunInv, NEW r \in Runs,
           CreateRun(r) \/ StartWorkflow(r) \/ StartFails(r) \/ LinkRun(r)
    PROVE  RunInv'
<1> USE DEF RunInv
<1>1. CASE CreateRun(r)
  <2>1. run[r] \in RunRows /\ run[r].status = "absent" /\ ~run[r].linked
    BY <1>1 DEF RunsTypeOK, LinkOrder, CreateRun
  <2>2. /\ run'[r] = [run[r] EXCEPT !.status = "queued"]
        /\ \A q \in Runs \ {r} : run'[q] = run[q]
    BY <1>1 DEF RunsTypeOK, CreateRun
  <2>3. run'[r] \in RunRows /\ run'[r].status = "queued" /\ ~run'[r].linked
    BY <2>1, <2>2 DEF RunRows
  <2>4. RunsTypeOK'
    BY <1>1, <2>3 DEF RunsTypeOK, CreateRun, history
  <2>5. LinkOrder'
    BY <1>1, <2>1, <2>2, <2>3 DEF RunsTypeOK, LinkOrder, CreateRun, history, RunOutcomes
  <2>6. r \notin ingested
    BY <2>1 DEF LinkOrder
  <2>7. AnswersKept'
    BY <1>1, <2>2, <2>6 DEF RunsTypeOK, AnswersKept, AnswerLostOnlyToOlderScan, CreateRun, history,
                            Exists
  <2> QED
    BY <2>4, <2>5, <2>7
<1>2. CASE StartWorkflow(r) \/ StartFails(r)
  <2>1. /\ workflow' \in [Runs -> {"not yet", "started", "over"}]
        /\ starting' \in [Runs -> {"not yet", "asked", "replied", "done"}]
        /\ \A q \in Runs \ {r} : starting'[q] = starting[q]
        /\ starting[r] = "asked" /\ starting'[r] \in {"replied", "done"}
    <3>1. /\ starting \in [Runs -> {"not yet", "asked", "replied", "done"}]
          /\ workflow \in [Runs -> {"not yet", "started", "over"}]
      BY DEF RunsTypeOK
    <3>2. PICK reply \in {"replied", "done"} : starting' = [starting EXCEPT ![r] = reply]
      BY <1>2 DEF StartWorkflow, StartFails
    <3>3. workflow' \in [Runs -> {"not yet", "started", "over"}] /\ starting[r] = "asked"
      BY <1>2, <3>1 DEF StartWorkflow, StartFails
    <3> QED
      BY <3>1, <3>2, <3>3
  <2>2. UNCHANGED <<run, overdue, answer, sent, arriving, listed, touches, history>>
    BY <1>2 DEF StartWorkflow, StartFails
  <2>3. RunsTypeOK'
    BY <2>1, <2>2 DEF RunsTypeOK, history
  <2>4. LinkOrder'
    BY <2>1, <2>2 DEF LinkOrder, history
  <2>5. AnswersKept'
    BY <2>2 DEF AnswersKept, AnswerLostOnlyToOlderScan, Exists, history
  <2> QED
    BY <2>3, <2>4, <2>5
<1>3. CASE LinkRun(r)
  <2> DEFINE row == [run[r] EXCEPT !.status = "running", !.linked = TRUE]
  <2>1. run[r] \in RunRows /\ ~run[r].linked /\ r \notin ingested
    BY <1>3 DEF RunsTypeOK, LinkOrder, LinkRun
  <2>2. row \in RunRows /\ row.status = "running" /\ row.linked
    BY <2>1 DEF RunRows
  <2> HIDE DEF row
  <2>3. UpdateRun(r, row)
    BY <1>3 DEF LinkRun, row
  <2>4. /\ run' \in [Runs -> RunRows] /\ overdue' \subseteq Runs
        /\ run'[r] = IF Exists(r) THEN row ELSE run[r]
        /\ \A q \in Runs \ {r} : run'[q] = run[q]
    BY <2>2, <2>3, UpdatedRow
  <2>5. RunsTypeOK'
    BY <1>3, <2>4 DEF RunsTypeOK, LinkRun, history
  <2>6. LinkOrder'
    <3>1. /\ starting[r] = "replied" /\ starting'[r] = "done"
          /\ \A q \in Runs \ {r} : starting'[q] = starting[q]
          /\ UNCHANGED <<answer, sent, arriving, listed, ingested>>
      BY <1>3 DEF RunsTypeOK, LinkRun, history
    <3>2. run'[r] = row \/ run'[r] = run[r]
      BY <2>4
    <3>3. \A q \in Runs \ {r} : run'[q] = run[q]
      BY <2>4
    <3>4. \A q \in Runs : run[q].linked => run'[q].linked
      BY <2>2, <3>2, <3>3
    <3>5. \A q \in Runs : run'[q].linked => starting'[q] = "done"
      BY <3>1, <3>3 DEF LinkOrder
    <3>6. \A q \in Runs : run'[q].status \in {"running"} \cup RunOutcomes => run'[q].linked
      BY <2>2, <3>2, <3>3 DEF LinkOrder
    <3>7. \A q \in Runs : starting'[q] = "not yet" => run'[q].status = "absent"
      BY <3>1, <3>3 DEF LinkOrder
    <3> QED
      BY <3>1, <3>4, <3>5, <3>6, <3>7 DEF LinkOrder
  <2>7. AnswersKept'
    BY <1>3, <2>1, <2>4 DEF RunsTypeOK, AnswersKept, AnswerLostOnlyToOlderScan, LinkRun, history,
                            Exists
  <2> QED
    BY <2>5, <2>6, <2>7
<1> QED
  BY <1>1, <1>2, <1>3

\* What a step keeps of the deliveries.
DeliveriesKept ==
    /\ sent' \in [Runs -> 0..MaxAttempts] /\ arriving' \in [Runs -> 0..MaxAttempts]
    /\ \A r \in Runs :
          /\ arriving'[r] <= sent'[r]
          /\ arriving'[r] > 0 => answer[r] # "none"

\* An attempt to deliver an answer begins.
LEMMA SentDelivery ==
    ASSUME RunInv, NEW r \in Runs, SendAnswer(r)
    PROVE  DeliveriesKept
<1>1. /\ sent \in [Runs -> 0..MaxAttempts] /\ arriving \in [Runs -> 0..MaxAttempts]
      /\ arriving[r] <= sent[r] /\ MaxAttempts \in Nat
  BY RunAssumption DEF RunAssumption, RunInv, RunsTypeOK, LinkOrder
<1>2. /\ sent' = [sent EXCEPT ![r] = @ + 1] /\ arriving' = [arriving EXCEPT ![r] = @ + 1]
      /\ sent[r] < MaxAttempts /\ answer[r] # "none"
  BY DEF SendAnswer, MayRetry
<1>3. sent[r] + 1 \in 0..MaxAttempts /\ arriving[r] + 1 \in 0..MaxAttempts
  BY <1>1, <1>2
<1>4. sent' \in [Runs -> 0..MaxAttempts] /\ arriving' \in [Runs -> 0..MaxAttempts]
  BY <1>1, <1>2, <1>3
<1>5. \A q \in Runs : arriving'[q] <= sent'[q] /\ (arriving'[q] > 0 => answer[q] # "none")
  <2> SUFFICES ASSUME NEW q \in Runs
               PROVE  arriving'[q] <= sent'[q] /\ (arriving'[q] > 0 => answer[q] # "none")
    OBVIOUS
  <2> arriving[q] <= sent[q] /\ (arriving[q] > 0 => answer[q] # "none")
    BY DEF RunInv, LinkOrder
  <2>1. arriving[q] \in Nat /\ sent[q] \in Nat
    BY <1>1
  <2>2. CASE q = r
    BY <1>1, <1>2, <2>1, <2>2
  <2>3. CASE q # r
    BY <1>1, <1>2, <2>1, <2>3
  <2> QED
    BY <2>2, <2>3
<1> QED
  BY <1>4, <1>5 DEF DeliveriesKept

\* An attempt ends, at the engine or on the way.
LEMMA ArrivedDelivery ==
    ASSUME RunInv, NEW r \in Runs, arriving[r] > 0,
           arriving' = [arriving EXCEPT ![r] = @ - 1], sent' = sent
    PROVE  DeliveriesKept
<1>1. /\ sent \in [Runs -> 0..MaxAttempts] /\ arriving \in [Runs -> 0..MaxAttempts]
      /\ arriving[r] <= sent[r] /\ MaxAttempts \in Nat
  BY RunAssumption DEF RunAssumption, RunInv, RunsTypeOK, LinkOrder
<1>2. arriving[r] - 1 \in 0..MaxAttempts
  BY <1>1
<1>3. arriving' \in [Runs -> 0..MaxAttempts]
  BY <1>1, <1>2
<1>4. \A q \in Runs : arriving'[q] <= sent'[q] /\ (arriving'[q] > 0 => answer[q] # "none")
  <2> SUFFICES ASSUME NEW q \in Runs
               PROVE  arriving'[q] <= sent'[q] /\ (arriving'[q] > 0 => answer[q] # "none")
    OBVIOUS
  <2> arriving[q] <= sent[q] /\ (arriving[q] > 0 => answer[q] # "none")
    BY DEF RunInv, LinkOrder
  <2>1. arriving[q] \in Nat /\ sent[q] \in Nat
    BY <1>1
  <2>2. arriving'[q] <= arriving[q]
    BY <1>1, <2>1
  <2> QED
    BY <1>1, <1>3, <2>1, <2>2
<1> QED
  BY <1>1, <1>3, <1>4 DEF DeliveriesKept

\* The runner answers for a linked run, and the answer is delivered.
LEMMA AnswerRuns ==
    ASSUME RunInv, NEW r \in Runs, CallBack(r) \/ SendAnswer(r) \/ Ingest(r) \/ LoseDelivery(r)
    PROVE  RunInv'
<1> USE RunAssumption DEF RunInv, RunAssumption
<1>1. CASE CallBack(r)
  <2>1. /\ workflow' \in [Runs -> {"not yet", "started", "over"}]
        /\ answer' \in [Runs -> {"none"} \cup RunOutcomes]
        /\ \A q \in Runs \ {r} : answer'[q] = answer[q]
        /\ answer'[r] # answer[r] => run[r].linked /\ answer'[r] \in RunOutcomes
    BY <1>1 DEF CallBack, Found, RunsTypeOK
  <2>2. UNCHANGED <<run, overdue, starting, sent, arriving, listed, touches, history>>
    BY <1>1 DEF CallBack
  <2>3. RunsTypeOK'
    BY <2>1, <2>2 DEF RunsTypeOK, history
  <2>4. LinkOrder'
    BY <2>1, <2>2 DEF LinkOrder, history, RunOutcomes
  <2>5. AnswersKept'
    BY <2>2 DEF AnswersKept, AnswerLostOnlyToOlderScan, Exists, history
  <2> QED
    BY <2>3, <2>4, <2>5
<1>2. CASE SendAnswer(r) \/ LoseDelivery(r)
  <2>1. DeliveriesKept
    BY <1>2, SentDelivery, ArrivedDelivery DEF LoseDelivery
  <2>2. UNCHANGED <<run, overdue, starting, workflow, answer, listed, touches, history>>
    BY <1>2 DEF SendAnswer, LoseDelivery
  <2>3. RunsTypeOK'
    BY <2>1, <2>2 DEF RunsTypeOK, DeliveriesKept, history
  <2>4. LinkOrder'
    BY <2>1, <2>2 DEF LinkOrder, DeliveriesKept, history
  <2>5. AnswersKept'
    BY <2>2 DEF AnswersKept, AnswerLostOnlyToOlderScan, Exists, history
  <2> QED
    BY <2>3, <2>4, <2>5
<1>3. CASE Ingest(r)
  <2> DEFINE row == [run[r] EXCEPT !.status = answer[r], !.result = answer[r]]
  <2>1. run[r] \in RunRows /\ run[r].linked /\ answer[r] \in RunOutcomes
    BY <1>3 DEF RunsTypeOK, LinkOrder, Ingest
  <2>2. /\ row \in RunRows /\ row.linked
        /\ row.status \in RunOutcomes /\ row.result # "timeout"
    BY <2>1 DEF RunRows, RunOutcomes
  <2> HIDE DEF row
  <2>3. UpdateRun(r, row)
    BY <1>3 DEF Ingest, row
  <2>4. /\ run' \in [Runs -> RunRows] /\ overdue' \subseteq Runs
        /\ run'[r] = IF Exists(r) THEN row ELSE run[r]
        /\ \A q \in Runs \ {r} : run'[q] = run[q]
    BY <2>2, <2>3, UpdatedRow
  <2>5. ingested' \subseteq ingested \cup {r} /\ overtaken \subseteq overtaken'
    BY <1>3 DEF Ingest
  <2>6. DeliveriesKept
    BY <1>3, ArrivedDelivery DEF Ingest
  <2>7. UNCHANGED <<starting, workflow, answer, sent, listed, touches>>
    BY <1>3 DEF Ingest
  <2>8. RunsTypeOK'
    <3>1. ingested' \subseteq Runs /\ overtaken' \subseteq Runs
      BY <1>3 DEF Ingest, RunsTypeOK
    <3> QED
      BY <2>4, <2>6, <2>7, <3>1 DEF RunsTypeOK, DeliveriesKept
  <2>9. LinkOrder'
    <3>1. run'[r].linked
      BY <2>1, <2>2, <2>4
    <3>2. /\ run[r].status # "absent" => starting[r] # "not yet"
          /\ run[r].status = "absent" => ~Exists(r)
      BY DEF LinkOrder, Exists
    <3>3. run'[r].status = "absent" => run[r].status = "absent"
      BY <2>2, <2>4 DEF RunOutcomes
    <3> QED
      BY <2>1, <2>4, <2>5, <2>6, <2>7, <3>1, <3>2, <3>3 DEF LinkOrder, DeliveriesKept
  <2>10. \A q \in Runs \ {r} : q \in ingested' => q \in ingested
    BY <2>5
  <2>11. r \in ingested' /\ (\E k \in Scans : r \in listed[k]) => r \in overtaken'
    BY <1>3 DEF Ingest
  <2>12. AnswersKept'
    <3>1. Exists(r)' => run'[r] = row
      BY <2>4 DEF Exists
    <3> QED
      BY <2>2, <2>4, <2>5, <2>7, <2>10, <2>11, <3>1
      DEF AnswersKept, AnswerLostOnlyToOlderScan, Exists, RunsTypeOK
  <2> QED
    BY <2>8, <2>9, <2>12
<1> QED
  BY <1>1, <1>2, <1>3

\* A scan lists runs that are running, and marks them later.
LEMMA ScanRuns ==
    ASSUME RunInv, NEW k \in Scans,
           BeginScan(k) \/ \E r \in Runs : Mark(k, r) \/ MarkFails(k, r)
    PROVE  RunInv'
<1> USE DEF RunInv
<1>1. CASE BeginScan(k)
  <2>1. listed' = [listed EXCEPT ![k] = TimedOut] /\ TimedOut \subseteq Runs
    BY <1>1 DEF BeginScan, TimedOut, RunsTypeOK
  <2>2. \A r \in TimedOut : run[r].linked /\ r \notin ingested
    BY DEF TimedOut, LinkOrder, AnswersKept, RunsTypeOK, Exists, RunOutcomes
  <2>3. RunsTypeOK'
    BY <1>1, <2>1 DEF BeginScan, RunsTypeOK, history
  <2>4. LinkOrder'
    BY <1>1, <2>1, <2>2 DEF BeginScan, RunsTypeOK, LinkOrder, history
  <2>5. AnswersKept'
    BY <1>1, <2>1, <2>2 DEF BeginScan, RunsTypeOK, AnswersKept, AnswerLostOnlyToOlderScan, Exists,
                            history
  <2> QED
    BY <2>3, <2>4, <2>5
<1>2. ASSUME NEW r \in Runs, Mark(k, r) PROVE RunInv'
  <2> DEFINE row == [run[r] EXCEPT !.status = "failed", !.result = "timeout"]
  <2>1. run[r] \in RunRows /\ run[r].linked /\ (r \in ingested => r \in overtaken)
    BY <1>2 DEF Mark, RunsTypeOK, LinkOrder, AnswersKept
  <2>2. row \in RunRows /\ row.linked /\ row.status \in RunOutcomes
    BY <2>1 DEF RunRows, RunOutcomes
  <2> HIDE DEF row
  <2>3. UpdateRun(r, row)
    BY <1>2 DEF Mark, row
  <2>4. /\ run' \in [Runs -> RunRows] /\ overdue' \subseteq Runs
        /\ run'[r] = IF Exists(r) THEN row ELSE run[r]
        /\ \A q \in Runs \ {r} : run'[q] = run[q]
    BY <2>2, <2>3, UpdatedRow
  <2>5. /\ listed' \in [Scans -> SUBSET Runs]
        /\ \A j \in Scans : listed'[j] \subseteq listed[j]
    BY <1>2 DEF Mark, RunsTypeOK
  <2>6. RunsTypeOK'
    BY <1>2, <2>4, <2>5 DEF RunsTypeOK, Mark, history
  <2>7. LinkOrder'
    <3>1. UNCHANGED <<starting, answer, sent, arriving, ingested>>
      BY <1>2 DEF Mark, history
    <3>2. run'[r] = row \/ run'[r] = run[r]
      BY <2>4
    <3>3. \A q \in Runs \ {r} : run'[q] = run[q]
      BY <2>4
    <3>4. \A q \in Runs : run'[q].linked = run[q].linked
      <4>1. row.linked = run[r].linked
        BY <2>1, <2>2 DEF RunRows
      <4>2. run'[r].linked = run[r].linked
        BY <3>2, <4>1
      <4> QED
        BY <3>3, <4>2
    <3>5. \A q \in Runs : starting[q] = "not yet" => run'[q].status = "absent"
      BY <2>1, <3>3 DEF LinkOrder
    <3>6. \A q \in Runs : run'[q].status \in {"running"} \cup RunOutcomes => run'[q].linked
      BY <2>1, <2>2, <3>2, <3>3 DEF LinkOrder
    <3> QED
      BY <2>5, <3>1, <3>4, <3>5, <3>6 DEF LinkOrder
  <2>8. AnswersKept'
    BY <1>2, <2>1, <2>2, <2>4, <2>5
    DEF RunsTypeOK, AnswersKept, AnswerLostOnlyToOlderScan, Mark, Exists, history
  <2> QED
    BY <2>6, <2>7, <2>8
<1>3. ASSUME NEW r \in Runs, MarkFails(k, r) PROVE RunInv'
  <2>1. /\ listed' \in [Scans -> SUBSET Runs]
        /\ \A j \in Scans : listed'[j] \subseteq listed[j]
    BY <1>3 DEF MarkFails, RunsTypeOK
  <2> QED
    BY <1>3, <2>1 DEF MarkFails, RunsTypeOK, LinkOrder, AnswersKept, AnswerLostOnlyToOlderScan, Exists,
                      history
<1> QED
  BY <1>1, <1>2, <1>3

\* Edits, deletions, time and restarts.
LEMMA OtherRuns ==
    ASSUME RunInv,
           RestartEngine \/ \E r \in Runs : Age(r) \/ TouchRun(r) \/ RemoveRun(r)
    PROVE  RunInv'
<1> USE RunAssumption DEF RunInv, RunAssumption
<1>1. CASE RestartEngine
  BY <1>1 DEF RestartEngine, RunsTypeOK, LinkOrder, AnswersKept, AnswerLostOnlyToOlderScan, Exists,
              history
<1>2. ASSUME NEW r \in Runs, Age(r) PROVE RunInv'
  BY <1>2 DEF Age, RunsTypeOK, LinkOrder, AnswersKept, AnswerLostOnlyToOlderScan, Exists, history
<1>3. ASSUME NEW r \in Runs, TouchRun(r) PROVE RunInv'
  <2>1. run[r] \in RunRows
    BY DEF RunsTypeOK
  <2>2. /\ run' \in [Runs -> RunRows] /\ overdue' \subseteq Runs
        /\ \A q \in Runs : run'[q] = run[q]
    BY <1>3, <2>1, UpdatedRow DEF TouchRun
  <2>3. UNCHANGED <<starting, workflow, answer, sent, arriving, listed, history>>
    BY <1>3 DEF TouchRun
  <2> touches \in 0..MaxTouches /\ touches < MaxTouches /\ touches' = touches + 1
    BY <1>3 DEF TouchRun, RunsTypeOK
  <2> touches' \in 0..MaxTouches
    OBVIOUS
  <2>4. RunsTypeOK'
    BY <2>2, <2>3 DEF RunsTypeOK, history
  <2>5. LinkOrder'
    BY <2>2, <2>3 DEF LinkOrder, history
  <2>6. AnswersKept'
    BY <2>2, <2>3 DEF AnswersKept, AnswerLostOnlyToOlderScan, Exists, history, RunsTypeOK
  <2> QED
    BY <2>4, <2>5, <2>6
<1>4. ASSUME NEW r \in Runs, RemoveRun(r) PROVE RunInv'
  <2> DEFINE row == [run[r] EXCEPT !.status = "deleted"]
  <2>1. run[r] \in RunRows /\ starting[r] # "not yet"
    BY <1>4 DEF RunsTypeOK, LinkOrder, RemoveRun, Exists
  <2>2. row \in RunRows /\ row.linked = run[r].linked /\ row.status = "deleted"
    BY <2>1 DEF RunRows
  <2> HIDE DEF row
  <2>3. UpdateRun(r, row)
    BY <1>4 DEF RemoveRun, row
  <2>4. /\ run' \in [Runs -> RunRows] /\ overdue' \subseteq Runs
        /\ run'[r] = IF Exists(r) THEN row ELSE run[r]
        /\ \A q \in Runs \ {r} : run'[q] = run[q]
    BY <2>2, <2>3, UpdatedRow
  <2>5. RunsTypeOK'
    BY <1>4, <2>4 DEF RunsTypeOK, RemoveRun, history
  <2>6. LinkOrder'
    BY <1>4, <2>1, <2>2, <2>4 DEF RunsTypeOK, LinkOrder, RemoveRun, history, RunOutcomes
  <2>7. AnswersKept'
    BY <1>4, <2>2, <2>4 DEF RunsTypeOK, AnswersKept, AnswerLostOnlyToOlderScan, RemoveRun, Exists,
                            history
  <2> QED
    BY <2>5, <2>6, <2>7
<1> QED
  BY <1>1, <1>2, <1>3, <1>4

\* The invariant of the runs.
THEOREM RunsInductive == RunsSpec => []RunInv
<1>1. RunsInit => RunInv
  <2> SUFFICES ASSUME RunsInit PROVE RunInv
    OBVIOUS
  <2>1. RunsTypeOK
    <3>1. 0 \in 0..MaxAttempts /\ 0 \in 0..MaxTouches
      BY RunAssumption DEF RunAssumption
    <3>2. [status |-> "absent", result |-> "none", linked |-> FALSE] \in RunRows
      BY DEF RunRows
    <3> QED
      BY <3>1, <3>2 DEF RunsInit, RunsTypeOK
  <2>2. LinkOrder
    <3>1. /\ \A r \in Runs : run[r].status = "absent" /\ ~run[r].linked
          /\ \A r \in Runs : answer[r] = "none" /\ arriving[r] = 0 /\ sent[r] = 0
          /\ ingested = {} /\ \A k \in Scans : listed[k] = {}
      BY DEF RunsInit
    <3>2. ASSUME NEW r \in Runs
          PROVE  /\ run[r].status \notin {"running"} \cup RunOutcomes
                 /\ arriving[r] <= sent[r] /\ ~(arriving[r] > 0)
      BY <3>1 DEF RunOutcomes
    <3> QED
      BY <3>1, <3>2, Zenon DEF LinkOrder
  <2>3. AnswersKept
    <3>1. ingested = {} /\ \A k \in Scans : listed[k] = {}
      BY DEF RunsInit
    <3> QED
      BY <3>1 DEF AnswersKept, AnswerLostOnlyToOlderScan
  <2> QED
    BY <2>1, <2>2, <2>3 DEF RunInv
<1>2. RunInv /\ [RunsNext]_runVars => RunInv'
  <2> SUFFICES ASSUME RunInv, [RunsNext]_runVars PROVE RunInv'
    OBVIOUS
  <2>1. CASE UNCHANGED runVars
    BY <2>1 DEF runVars, history, RunInv, RunsTypeOK, LinkOrder, AnswersKept,
                AnswerLostOnlyToOlderScan, Exists
  <2>2. CASE RunsNext
    BY <2>2, CreationRuns, AnswerRuns, ScanRuns, OtherRuns DEF RunsNext
  <2> QED
    BY <2>1, <2>2
<1> QED
  BY <1>1, <1>2, PTL DEF RunsSpec

\* Runs, answers and scans stay well formed; no more deliveries are under way than were
\* begun (fetchWithRetry).
THEOREM RunsType == RunsSpec => []RunsTypeOK
BY RunsInductive, PTL DEF RunInv

\* A run shows the timeout instead of an answer that reached the engine only if
\* a scan had listed it before (getTimedOutRuns, markRunAsTimeout).
THEOREM AnswersLostToOlderScans == RunsSpec => []AnswerLostOnlyToOlderScan
BY RunsInductive, PTL DEF RunInv, AnswersKept

\* What a step says of the runs that have an outcome.
KeepsOutcomes ==
    \A r \in Runs : run[r].status \in RunOutcomes => run'[r].status \notin {"queued", "running"}

\* A run that has an outcome is never queued or running again (LinkRun, Found).
THEOREM OutcomesAreFinal == RunsSpec => OutcomeIsFinal
<1>1. RunInv /\ [RunsNext]_runVars => KeepsOutcomes
  <2> SUFFICES ASSUME RunInv, [RunsNext]_runVars PROVE KeepsOutcomes
    OBVIOUS
  <2> USE DEF RunInv
  <2>1. ASSUME NEW r \in Runs, NEW row, UpdateRun(r, row),
               run[r].status \in RunOutcomes => row.status \notin {"queued", "running"}
        PROVE  KeepsOutcomes
    BY <2>1 DEF UpdateRun, RunsTypeOK, KeepsOutcomes, RunOutcomes
  <2>2. CASE run' = run
    BY <2>2 DEF KeepsOutcomes, RunOutcomes
  <2>3. ASSUME NEW r \in Runs, CreateRun(r) \/ LinkRun(r) PROVE KeepsOutcomes
    <3>1. run[r].status \notin RunOutcomes
      BY <2>3 DEF CreateRun, LinkRun, LinkOrder, RunOutcomes
    <3>2. CASE CreateRun(r)
      BY <3>1, <3>2 DEF CreateRun, RunsTypeOK, KeepsOutcomes, RunOutcomes
    <3>3. CASE LinkRun(r)
      BY <2>1, <3>1, <3>3 DEF LinkRun
    <3> QED
      BY <2>3, <3>2, <3>3
  <2>4. ASSUME NEW r \in Runs, Ingest(r) PROVE KeepsOutcomes
    <3>1. answer[r] \in RunOutcomes /\ run[r] \in RunRows
      BY <2>4 DEF Ingest, LinkOrder, RunsTypeOK
    <3>2. [run[r] EXCEPT !.status = answer[r], !.result = answer[r]].status = answer[r]
      BY <3>1 DEF RunRows
    <3> QED
      BY <2>1, <2>4, <3>1, <3>2 DEF Ingest, RunOutcomes
  <2>5. ASSUME NEW k \in Scans, NEW r \in Runs, Mark(k, r) PROVE KeepsOutcomes
    <3>1. run[r] \in RunRows
      BY DEF RunsTypeOK
    <3>2. [run[r] EXCEPT !.status = "failed", !.result = "timeout"].status = "failed"
      BY <3>1 DEF RunRows
    <3> QED
      BY <2>1, <2>5, <3>2 DEF Mark
  <2>6. ASSUME NEW r \in Runs, TouchRun(r) \/ RemoveRun(r) PROVE KeepsOutcomes
    <3>1. run[r] \in RunRows
      BY DEF RunsTypeOK
    <3>2. [run[r] EXCEPT !.status = "deleted"].status = "deleted"
      BY <3>1 DEF RunRows
    <3> QED
      BY <2>1, <2>6, <3>2 DEF TouchRun, RemoveRun, RunOutcomes
  <2>7. CASE UNCHANGED runVars
    BY <2>2, <2>7 DEF runVars
  <2>8. CASE \/ RestartEngine \/ \E k \in Scans : BeginScan(k)
             \/ \E r \in Runs :
                   \/ StartWorkflow(r) \/ StartFails(r) \/ CallBack(r) \/ SendAnswer(r)
                   \/ LoseDelivery(r) \/ Age(r) \/ \E k \in Scans : MarkFails(k, r)
    BY <2>2, <2>8 DEF RestartEngine, BeginScan, StartWorkflow, StartFails, CallBack, SendAnswer,
                      LoseDelivery, Age, MarkFails
  <2> QED
    BY <2>3, <2>4, <2>5, <2>6, <2>7, <2>8 DEF RunsNext
<1>2. KeepsOutcomes =>
         [\A r \in Runs : run[r].status \in RunOutcomes
                             => run[r].status' \notin {"queued", "running"}]_run
  BY DEF KeepsOutcomes
<1> QED
  BY <1>1, <1>2, RunsInductive, PTL DEF RunsSpec, OutcomeIsFinal
(***************************************************************************)
(* The page of Workspaces. Requests are answered in any order, so every    *)
(* guarantee rests on the number of the current one: it is about what the  *)
(* page shows, and every change the page hears of begins a newer one.      *)
(***************************************************************************)
\* A request was given its number and saw its version in the past.
LoadsInOrder ==
    \A q \in loads :
        /\ q.token <= token
        /\ q.version <= version[q.view]
        /\ q.token = token => q.view = view

\* The answer of the current request has everything shown and heard of.
CurrentAnswer ==
    \A q \in loads :
        q.token = token /\ q.reply = "list" =>
            /\ shown.version <= q.version
            /\ \A e \in seen : e <= q.version

NothingFromTheFuture ==
    /\ shown.version <= version[view]
    /\ \A e \in seen \cup sending : e <= version[view]

FeedInv ==
    FeedTypeOK /\ LoadsInOrder /\ CurrentAnswer /\ NothingFromTheFuture /\ RestingPageHasHeard

\* The facts about numbers that the proofs use.
LEMMA FeedNumbers ==
    ASSUME FeedInv
    PROVE  /\ \A v \in Views : version[v] \in Nat
           /\ token \in Nat /\ shown.version \in Nat
           /\ \A q \in loads : /\ q \in Loads /\ q.token \in Nat /\ q.version \in Nat
                               /\ q.view \in Views
           /\ \A e \in seen \cup sending : e \in Nat
BY FeedAssumption DEF FeedAssumption, FeedInv, FeedTypeOK, Versions, Loads

\* Where a request begins, the page is about it and shows no newer version.
LEMMA BegunLoad ==
    ASSUME FeedInv, token < MaxLoads, token' = token + 1, view' \in Views,
           loads' = loads \cup {NewLoad(token + 1, view')},
           UNCHANGED version,
           shown' \in [version: Versions, loading: BOOLEAN, error: BOOLEAN],
           online' \in BOOLEAN, seen' \subseteq Versions, sending' \subseteq Versions,
           shown'.version <= version[view'],
           \A e \in seen' \cup sending' : e <= version[view']
    PROVE  FeedInv'
<1> DEFINE new == NewLoad(token + 1, view')
<1>1. token \in 1..MaxLoads /\ MaxLoads \in Nat /\ 0 \in Versions
  BY FeedAssumption DEF FeedAssumption, FeedInv, FeedTypeOK, Versions
<1>2. /\ new \in Loads /\ new.token = token + 1 /\ new.view = view'
      /\ new.reply = "none" /\ new.version = 0
  BY <1>1 DEF NewLoad, Loads
<1> HIDE DEF new
<1>3. loads' = loads \cup {new} /\ \A q \in loads : q.token < token'
  BY <1>1, FeedNumbers DEF FeedInv, LoadsInOrder, new
<1>4. FeedTypeOK'
  <2>1. \A p, q \in loads' : p.token = q.token => p = q
    <3>1. \A q \in loads : q.token # new.token
      BY <1>1, <1>2, <1>3, FeedNumbers
    <3> QED
      BY <1>3, <3>1 DEF FeedInv, FeedTypeOK
  <2>2. loads' \subseteq Loads /\ token' \in 1..MaxLoads
    BY <1>1, <1>2, <1>3 DEF FeedInv, FeedTypeOK
  <2> QED
    BY <2>1, <2>2 DEF FeedInv, FeedTypeOK
<1>5. LoadsInOrder'
  <2>1. \A q \in loads : q.token <= token' /\ q.token # token'
    BY <1>1, <1>3, FeedNumbers
  <2>2. new.version <= version[new.view]
    BY <1>2, FeedNumbers
  <2> QED
    BY <1>1, <1>2, <1>3, <2>1, <2>2 DEF FeedInv, LoadsInOrder
<1>6. \A q \in loads' : q.token = token' => q = new
  BY <1>1, <1>3, FeedNumbers
<1>7. CurrentAnswer' /\ NothingFromTheFuture'
  BY <1>2, <1>6 DEF CurrentAnswer, NothingFromTheFuture
<1>8. RestingPageHasHeard'
  BY <1>1, <1>2, <1>3 DEF RestingPageHasHeard
<1> QED
  BY <1>4, <1>5, <1>7, <1>8 DEF FeedInv

\* Reloading keeps the view and what is shown.
LEMMA Reloads ==
    ASSUME FeedInv, NEW loading \in BOOLEAN, Load(loading), UNCHANGED <<version, view, online>>,
           sending' \subseteq sending, seen' \subseteq seen \cup sending
    PROVE  FeedInv'
<1>1. /\ shown \in [version: Versions, loading: BOOLEAN, error: BOOLEAN]
      /\ seen \subseteq Versions /\ sending \subseteq Versions /\ view \in Views
      /\ online \in BOOLEAN
  BY DEF FeedInv, FeedTypeOK
<1>2. /\ shown' \in [version: Versions, loading: BOOLEAN, error: BOOLEAN]
      /\ shown'.version = shown.version
  BY <1>1 DEF Load
<1>3. shown'.version <= version[view'] /\ \A e \in seen' \cup sending' : e <= version[view']
  BY <1>2 DEF FeedInv, NothingFromTheFuture
<1> QED
  BY <1>1, <1>2, <1>3, BegunLoad DEF Load

\* The server changes a view and executes requests.
LEMMA ServedFeed ==
    ASSUME FeedInv, (\E v \in Views : ChangeView(v)) \/ (\E q \in loads : AnswerLoad(q))
    PROVE  FeedInv'
<1>1. ASSUME NEW v \in Views, ChangeView(v) PROVE FeedInv'
  <2>1. /\ version \in [Views -> Versions] /\ version[v] < MaxVersion
        /\ version' = [version EXCEPT ![v] = @ + 1] /\ MaxVersion \in Nat
    BY <1>1, FeedAssumption DEF ChangeView, FeedInv, FeedTypeOK, FeedAssumption
  <2>2. /\ version' \in [Views -> Versions] /\ version[v] + 1 \in Versions
        /\ \A u \in Views : version[u] \in Nat /\ version'[u] \in Nat /\ version[u] <= version'[u]
        /\ version'[v] = version[v] + 1
    BY <2>1 DEF Versions
  <2>3. /\ UNCHANGED <<view, shown, token, loads, online, seen>>
        /\ sending' \subseteq sending \cup {version[v] + 1}
        /\ sending' # sending => v = view
    BY <1>1 DEF ChangeView
  <2>4. FeedTypeOK'
    BY <2>2, <2>3 DEF FeedInv, FeedTypeOK
  <2>5. LoadsInOrder'
    <3>1. \A q \in loads : q.version <= version'[q.view]
      BY <2>2, FeedNumbers DEF FeedInv, LoadsInOrder
    <3> QED
      BY <2>3, <3>1 DEF FeedInv, LoadsInOrder
  <2>6. NothingFromTheFuture'
    <3>1. view \in Views /\ shown.version <= version'[view]
      BY <2>2, FeedNumbers DEF FeedInv, FeedTypeOK, NothingFromTheFuture
    <3>2. \A e \in seen \cup sending : e <= version'[view]
      BY <2>2, <3>1, FeedNumbers DEF FeedInv, NothingFromTheFuture
    <3>3. \A e \in sending' : e \in sending \/ (v = view /\ e = version'[view])
      BY <2>2, <2>3
    <3> QED
      BY <2>2, <2>3, <3>1, <3>2, <3>3 DEF NothingFromTheFuture
  <2>7. CurrentAnswer' /\ RestingPageHasHeard'
    BY <2>3 DEF FeedInv, CurrentAnswer, RestingPageHasHeard
  <2> QED
    BY <2>4, <2>5, <2>6, <2>7 DEF FeedInv
<1>2. ASSUME NEW q \in loads, AnswerLoad(q) PROVE FeedInv'
  <2>1. PICK answered \in {[q EXCEPT !.reply = "list", !.version = version[q.view]],
                           [q EXCEPT !.reply = "error"]} :
           loads' = (loads \ {q}) \cup {answered}
    BY <1>2 DEF AnswerLoad
  <2>2. /\ q \in Loads /\ q.view \in Views /\ version[q.view] \in Versions
        /\ version[q.view] \in Nat /\ q.version <= version[q.view]
    BY FeedNumbers DEF FeedInv, FeedTypeOK, LoadsInOrder
  <2>3. /\ answered \in Loads /\ answered.token = q.token /\ answered.view = q.view
        /\ answered.version <= version[q.view]
        /\ answered.reply # "none"
        /\ answered.reply = "list" => answered.version = version[q.view]
    <3>1. CASE answered = [q EXCEPT !.reply = "list", !.version = version[q.view]]
      <4>1. answered = [token |-> q.token, view |-> q.view, reply |-> "list",
                        version |-> version[q.view]]
        BY <2>2, <3>1 DEF Loads
      <4>2. answered \in Loads
        BY <2>2, <4>1 DEF Loads
      <4> QED
        BY <2>2, <4>1, <4>2
    <3>2. CASE answered = [q EXCEPT !.reply = "error"]
      BY <2>2, <3>2 DEF Loads
    <3> QED
      BY <2>1, <3>1, <3>2
  <2>4. UNCHANGED <<version, view, shown, token, online, seen, sending>>
    BY <1>2 DEF AnswerLoad
  <2>5. FeedTypeOK'
    <3>1. \A p, s \in loads' : p.token = s.token => p = s
      BY <2>1, <2>3 DEF FeedInv, FeedTypeOK
    <3> QED
      BY <2>1, <2>3, <2>4, <3>1 DEF FeedInv, FeedTypeOK
  <2>6. LoadsInOrder'
    BY <2>1, <2>3, <2>4 DEF FeedInv, LoadsInOrder
  <2>7. CurrentAnswer'
    <3>1. answered.token = token /\ answered.reply = "list" => answered.version = version[view]
      BY <2>3 DEF FeedInv, LoadsInOrder
    <3> QED
      BY <2>1, <2>4, <3>1 DEF FeedInv, CurrentAnswer, NothingFromTheFuture
  <2>8. NothingFromTheFuture'
    BY <2>4 DEF FeedInv, NothingFromTheFuture
  <2>9. RestingPageHasHeard'
    <3>1. (\A p \in loads' : p.token # token) => \A p \in loads : p.token # token
      BY <2>1, <2>3
    <3> QED
      BY <2>4, <3>1 DEF FeedInv, RestingPageHasHeard
  <2> QED
    BY <2>5, <2>6, <2>7, <2>8, <2>9 DEF FeedInv
<1> QED
  BY <1>1, <1>2

\* The page takes an answer.
LEMMA AppliedFeed ==
    ASSUME FeedInv, NEW q \in loads, ApplyLoad(q)
    PROVE  FeedInv' /\ shown'.version >= shown.version
<1>1. /\ shown \in [version: Versions, loading: BOOLEAN, error: BOOLEAN]
      /\ q \in Loads /\ q.version \in Versions /\ q.reply # "none"
      /\ shown.version \in Nat /\ q.version \in Nat
  BY FeedNumbers DEF ApplyLoad, FeedInv, FeedTypeOK, Loads
<1>2. /\ loads' = loads \ {q}
      /\ UNCHANGED <<version, view, token, online, seen, sending>>
  BY DEF ApplyLoad
<1>3. /\ shown' \in [version: Versions, loading: BOOLEAN, error: BOOLEAN]
      /\ \/ shown' = shown /\ q.token # token
         \/ shown'.version = shown.version /\ shown'.error
         \/ q.token = token /\ q.reply = "list" /\ shown'.version = q.version
  BY <1>1 DEF ApplyLoad, IsCurrent, Loads
<1>4. /\ shown'.version >= shown.version
      /\ shown'.version <= version[view]
  BY <1>1, <1>3, FeedNumbers DEF FeedInv, FeedTypeOK, CurrentAnswer, NothingFromTheFuture, LoadsInOrder
<1>5. FeedTypeOK' /\ LoadsInOrder' /\ NothingFromTheFuture'
  BY <1>2, <1>3, <1>4 DEF FeedInv, FeedTypeOK, LoadsInOrder, NothingFromTheFuture
<1>6. q.token = token => \A p \in loads' : p.token # token
  BY <1>2 DEF FeedInv, FeedTypeOK
<1>7. CurrentAnswer'
  <2>1. CASE shown' = shown
    BY <1>2, <2>1 DEF FeedInv, CurrentAnswer
  <2>2. CASE q.token = token
    BY <1>2, <1>6, <2>2 DEF CurrentAnswer
  <2>3. CASE shown'.version = shown.version
    BY <1>2, <2>3 DEF FeedInv, CurrentAnswer
  <2> QED
    BY <1>3, <2>1, <2>2, <2>3
<1>8. RestingPageHasHeard'
  <2>1. CASE shown' = shown /\ q.token # token
    BY <1>2, <2>1 DEF FeedInv, RestingPageHasHeard
  <2>2. CASE shown'.error
    BY <2>2 DEF RestingPageHasHeard
  <2>3. CASE q.token = token /\ q.reply = "list" /\ shown'.version = q.version
    BY <1>2, <2>3 DEF FeedInv, CurrentAnswer, RestingPageHasHeard
  <2> QED
    BY <1>3, <2>1, <2>2, <2>3
<1> QED
  BY <1>4, <1>5, <1>7, <1>8 DEF FeedInv

\* The page hears of a change.
LEMMA HeardFeed ==
    ASSUME FeedInv, NEW e \in sending, Hear(e)
    PROVE  FeedInv'
<1>1. /\ sending' \subseteq sending /\ seen' = seen \cup {e}
      /\ UNCHANGED <<version, view, online>>
  BY DEF Hear
<1>2. CASE e \in seen
  <2>1. seen' = seen /\ UNCHANGED <<version, view, shown, token, loads, online>>
    BY <1>1, <1>2 DEF Hear
  <2> QED
    BY <1>1, <2>1 DEF FeedInv, FeedTypeOK, LoadsInOrder, CurrentAnswer, NothingFromTheFuture,
                      RestingPageHasHeard
<1>3. CASE e \notin seen
  <2>1. Load(FALSE)
    BY <1>3 DEF Hear
  <2> QED
    BY <1>1, <2>1, Reloads
<1> QED
  BY <1>2, <1>3

\* The user moves to another project; the WebSocket opens and closes.
LEMMA MovedFeed ==
    ASSUME FeedInv, (\E v \in Views : SwitchView(v)) \/ ConnectFeed \/ DisconnectFeed
    PROVE  FeedInv'
<1>1. ASSUME NEW v \in Views, SwitchView(v) PROVE FeedInv'
  <2>1. /\ 0 \in Versions /\ 0 <= version[v]
        /\ shown' = [version |-> 0, loading |-> TRUE, error |-> FALSE]
        /\ seen' = {} /\ sending' = {} /\ view' = v /\ online' = FALSE
    BY <1>1, FeedAssumption, FeedNumbers DEF SwitchView, FeedAssumption, Versions
  <2>2. /\ shown' \in [version: Versions, loading: BOOLEAN, error: BOOLEAN]
        /\ shown'.version = 0
    BY <2>1
  <2> QED
    BY <1>1, <2>1, <2>2, BegunLoad DEF SwitchView
<1>2. CASE ConnectFeed \/ DisconnectFeed
  <2>1. /\ UNCHANGED <<version, view, shown, token, loads, seen>>
        /\ online' \in BOOLEAN /\ sending' \subseteq sending
    BY <1>2 DEF ConnectFeed, DisconnectFeed
  <2> QED
    BY <2>1 DEF FeedInv, FeedTypeOK, LoadsInOrder, CurrentAnswer, NothingFromTheFuture,
                RestingPageHasHeard
<1> QED
  BY <1>1, <1>2

\* A page that has just been mounted.
LEMMA MountedFeed == FeedInit => FeedInv
<1> SUFFICES ASSUME FeedInit PROVE FeedInv
  OBVIOUS
<1>1. 0 \in Versions /\ 1 \in 1..MaxLoads /\ view \in Views
  BY FeedAssumption DEF FeedAssumption, Versions, FeedInit
<1>2. NewLoad(1, view) \in Loads /\ NewLoad(1, view).token = 1 /\ NewLoad(1, view).view = view
      /\ NewLoad(1, view).reply = "none" /\ NewLoad(1, view).version = 0
  BY <1>1 DEF NewLoad, Loads
<1>3. /\ loads = {NewLoad(1, view)} /\ token = 1 /\ seen = {} /\ sending = {} /\ online = FALSE
      /\ shown = [version |-> 0, loading |-> TRUE, error |-> FALSE]
      /\ version = [v \in Views |-> 0]
  BY DEF FeedInit
<1>4. FeedTypeOK
  BY <1>1, <1>2, <1>3 DEF FeedTypeOK
<1>5. LoadsInOrder /\ CurrentAnswer
  BY <1>1, <1>2, <1>3 DEF LoadsInOrder, CurrentAnswer
<1>6. NothingFromTheFuture /\ RestingPageHasHeard
  BY <1>1, <1>3 DEF NothingFromTheFuture, RestingPageHasHeard
<1> QED
  BY <1>4, <1>5, <1>6 DEF FeedInv

\* A step of the page keeps its invariant.
LEMMA NextFeed == FeedInv /\ [FeedNext]_feedVars => FeedInv'
<1> SUFFICES ASSUME FeedInv, [FeedNext]_feedVars PROVE FeedInv'
  OBVIOUS
<1>1. CASE UNCHANGED feedVars
  BY <1>1 DEF feedVars, FeedInv, FeedTypeOK, LoadsInOrder, CurrentAnswer, NothingFromTheFuture,
              RestingPageHasHeard
<1>2. ASSUME Refresh PROVE FeedInv'
  BY <1>2, Reloads DEF Refresh
<1> QED
  BY <1>1, <1>2, ServedFeed, AppliedFeed, HeardFeed, MovedFeed DEF FeedNext

\* The page, its requests and its events stay well formed, and no two requests under
\* way have the same number (useProjectWorkspaces).
THEOREM FeedType == FeedSpec => []FeedTypeOK
<1>1. FeedInv => FeedTypeOK
  BY DEF FeedInv
<1> QED
  BY <1>1, MountedFeed, NextFeed, PTL DEF FeedSpec

\* A page at rest shows every change it has heard of (onmessage starts a load).
THEOREM RestingPagesHaveHeard == FeedSpec => []RestingPageHasHeard
<1>1. FeedInv => RestingPageHasHeard
  BY DEF FeedInv
<1> QED
  BY <1>1, MountedFeed, NextFeed, PTL DEF FeedSpec

\* While the page stays on a view, it never shows an older version than before.
THEOREM PagesGoForward == FeedSpec => ShownNeverOlder
<1>1. FeedInv /\ [FeedNext]_feedVars => [view' = view => shown'.version >= shown.version]_feedVars
  <2> SUFFICES ASSUME FeedInv, FeedNext, view' = view PROVE shown'.version >= shown.version
    OBVIOUS
  <2>1. shown \in [version: Versions, loading: BOOLEAN, error: BOOLEAN] /\ shown.version \in Nat
    BY FeedNumbers DEF FeedInv, FeedTypeOK
  <2>2. CASE shown' = shown
    BY <2>1, <2>2
  <2>3. ASSUME NEW loading \in BOOLEAN, Load(loading) PROVE shown'.version >= shown.version
    BY <2>1, <2>3 DEF Load
  <2>4. ASSUME NEW e \in sending, Hear(e) PROVE shown'.version >= shown.version
    BY <2>2, <2>3, <2>4 DEF Hear
  <2>5. ASSUME Refresh PROVE shown'.version >= shown.version
    BY <2>3, <2>5 DEF Refresh
  <2>6. CASE \/ \E v \in Views : ChangeView(v)
             \/ \E q \in loads : AnswerLoad(q)
             \/ ConnectFeed \/ DisconnectFeed
    BY <2>2, <2>6 DEF ChangeView, AnswerLoad, ConnectFeed, DisconnectFeed
  <2>7. \A v \in Views : ~SwitchView(v)
    BY DEF SwitchView
  <2> QED
    BY <2>4, <2>5, <2>6, <2>7, AppliedFeed DEF FeedNext
<1> QED
  BY <1>1, MountedFeed, NextFeed, PTL DEF FeedSpec, ShownNeverOlder
(***************************************************************************)
(* Events. The room keeps exactly one listener while it exists, and every  *)
(* open connection is a member of a room that exists; so a fetched event   *)
(* is delivered once to each of them. What a replay has to add is what was *)
(* committed before the connection opened.                                 *)
(***************************************************************************)
\* A set of numbers that is not empty has a least element.
LEMMA LeastNumber ==
    ASSUME NEW S \in SUBSET Nat, S # {}
    PROVE  \E x \in S : \A y \in S : x <= y
<1>1. PICK x \in S : \A y \in S : ~ (<<y, x>> \in OpToRel(<, Nat))
  BY WFMin, NatLessThanWellFounded
<1>2. \A y \in S : ~ (y < x)
  BY <1>1 DEF OpToRel
<1> QED
  BY <1>2

\* Largest is what its name says.
LEMMA LargestId ==
    ASSUME NEW ids \in SUBSET (0..MaxEvents), ids # {}
    PROVE  Largest(ids) \in ids /\ \A j \in ids : j <= Largest(ids)
<1>1. MaxEvents \in Nat
  BY StreamAssumption DEF StreamAssumption
<1> DEFINE below == {MaxEvents - j : j \in ids}
<1>2. below \in SUBSET Nat /\ below # {}
  <2>1. \A j \in ids : MaxEvents - j \in Nat
    BY <1>1
  <2> QED
    BY <2>1
<1>3. PICK m \in below : \A n \in below : m <= n
  <2> HIDE DEF below
  <2> QED
    BY <1>2, LeastNumber
<1>4. PICK i \in ids : m = MaxEvents - i
  BY <1>3
<1>5. \A j \in ids : MaxEvents - i <= MaxEvents - j
  BY <1>3, <1>4
<1>6. \A j \in ids : j <= i
  BY <1>1, <1>5
<1> QED
  BY <1>6 DEF Largest

\* A replay that does not reach its limit returns every row (replayEventsSince).
LEMMA WholeReplay ==
    ASSUME NEW ids \in SUBSET EventIds, Cardinality(FirstRows(ids)) < ReplayLimit
    PROVE  FirstRows(ids) = ids
<1>1. MaxEvents \in Nat /\ ReplayLimit \in Nat
  BY StreamAssumption DEF StreamAssumption
<1>2. IsFiniteSet(EventIds)
  BY <1>1, FS_Interval DEF EventIds
<1>3. FirstRows(ids) \subseteq ids /\ ids \subseteq Nat
  BY <1>1 DEF FirstRows, EventIds
<1>4. IsFiniteSet(ids) /\ IsFiniteSet(FirstRows(ids))
  BY <1>2, <1>3, FS_Subset
<1> SUFFICES ASSUME ids \ FirstRows(ids) # {} PROVE FALSE
  BY <1>3
<1>5. PICK i \in ids \ FirstRows(ids) : \A j \in ids \ FirstRows(ids) : i <= j
  BY <1>3, LeastNumber
<1>6. {j \in ids : j < i} \subseteq FirstRows(ids)
  <2> SUFFICES ASSUME NEW j \in ids, j < i PROVE j \in FirstRows(ids)
    OBVIOUS
  <2>1. i \in Nat /\ j \in Nat /\ ~(i <= j)
    BY <1>3
  <2> QED
    BY <1>5, <2>1
<1>7. Cardinality({j \in ids : j < i}) <= Cardinality(FirstRows(ids))
  BY <1>4, <1>6, FS_Subset
<1>8. Cardinality(FirstRows(ids)) \in Nat /\ Cardinality({j \in ids : j < i}) \in Nat
  BY <1>4, <1>6, FS_Subset, FS_CardinalityType
<1> QED
  BY <1>1, <1>5, <1>7, <1>8 DEF FirstRows

\* RoomManager: join and leave keep one listener for a room that exists.
OneListener ==
    /\ room.listeners = IF room.exists THEN 1 ELSE 0
    /\ room.members # {} => room.exists
    /\ \A k \in Connections : socket[k].peer = "open" => k \in room.members

\* Only a committed event is fetched or delivered, and it is fetched first.
FetchedFirst ==
    /\ \A i \in fetching : txn[i] = "committed" /\ \A k \in Connections : socket[k].live[i] = 0
    /\ \A k \in Connections, i \in EventIds : socket[k].live[i] > 0 => txn[i] = "committed"

\* What the replay of a connection has read is what it delivers, and all that
\* was stored before if it did not reach its limit.
ReplayInOrder(s) ==
    /\ s.before \subseteq CommittedEvents
    /\ s.peer = "unopened" => s.replay = "none"
    /\ s.replay # "sent" => s.replayed = {}
    /\ s.peer = "open" /\ s.replay = "sent" => s.replayed = s.rows
    /\ s.replay \in {"read", "sent"} /\ Cardinality(s.rows) < ReplayLimit
       => \A i \in outbox \cap s.before : i > s.since => i \in s.rows

\* An open connection has, or will have, what was committed after it opened.
Hears(s) ==
    s.peer = "open" =>
        \A i \in CommittedEvents :
            s.live[i] > 0 \/ i \in s.before \cup s.replayed \cup fetching \cup missed

ConnectionsInOrder == \A k \in Connections : ReplayInOrder(socket[k]) /\ Hears(socket[k])

StreamInv ==
    StreamTypeOK /\ OneListener /\ FetchedFirst /\ DeliveredOnce /\ ConnectionsInOrder

\* The fields of a connection.
LEMMA SocketFields ==
    ASSUME StreamInv, NEW k \in Connections
    PROVE  /\ socket[k] \in Sockets
           /\ socket[k].since \in 0..MaxEvents
           /\ socket[k].rows \subseteq EventIds /\ socket[k].before \subseteq EventIds
           /\ socket[k].replayed \subseteq EventIds
           /\ socket[k].live \in [EventIds -> Nat]
           /\ \A i \in EventIds : socket[k].live[i] \in Nat
<1>1. socket[k] \in Sockets
  BY DEF StreamInv, StreamTypeOK
<1>2. /\ socket[k].since \in 0..MaxEvents
      /\ socket[k].rows \subseteq EventIds /\ socket[k].before \subseteq EventIds
      /\ socket[k].replayed \subseteq EventIds
      /\ socket[k].live \in [EventIds -> Nat]
  BY <1>1 DEF Sockets
<1> QED
  BY <1>1, <1>2

\* A step that changes one connection, and neither the outbox nor the relay.
LEMMA OneConnection ==
    ASSUME StreamInv, NEW k \in Connections, NEW s \in Sockets,
           socket' = [socket EXCEPT ![k] = s],
           UNCHANGED <<txn, outbox, relaying, fetching, missed>>,
           pointer' \in [Clients -> 0..MaxEvents],
           room' \in [exists: BOOLEAN, members: SUBSET Connections, listeners: Nat],
           room'.listeners = IF room'.exists THEN 1 ELSE 0,
           room'.members # {} => room'.exists,
           \A l \in Connections \ {k} : l \in room.members => l \in room'.members,
           s.peer = "open" => k \in room'.members,
           s.live = socket[k].live,
           ReplayInOrder(s), Hears(s)
    PROVE  StreamInv'
<1>1. /\ socket' \in [Connections -> Sockets] /\ socket'[k] = s
      /\ \A l \in Connections \ {k} : socket'[l] = socket[l]
      /\ \A l \in Connections : socket'[l].live = socket[l].live
  BY DEF StreamInv, StreamTypeOK
<1>2. StreamTypeOK'
  BY <1>1 DEF StreamInv, StreamTypeOK
<1>3. OneListener'
  BY <1>1 DEF StreamInv, OneListener
<1>4. FetchedFirst' /\ DeliveredOnce'
  BY <1>1 DEF StreamInv, FetchedFirst, DeliveredOnce
<1>5. ConnectionsInOrder'
  <2> SUFFICES ASSUME NEW l \in Connections
               PROVE  ReplayInOrder(socket[l])' /\ Hears(socket[l])'
    BY DEF ConnectionsInOrder
  <2>1. CASE l = k
    BY <1>1, <2>1 DEF ReplayInOrder, Hears, CommittedEvents
  <2>2. CASE l # k
    BY <1>1, <2>2 DEF StreamInv, ConnectionsInOrder, ReplayInOrder, Hears, CommittedEvents
  <2> QED
    BY <2>1, <2>2
<1> QED
  BY <1>2, <1>3, <1>4, <1>5 DEF StreamInv

\* Connections open, vanish and close.
LEMMA OpenedStream ==
    ASSUME StreamInv, NEW k \in Connections, Open(k)
    PROVE  StreamInv'
<1> DEFINE s == [socket[k] EXCEPT
                   !.peer = "open", !.since = pointer[ClientOf[k]],
                   !.replay = IF pointer[ClientOf[k]] = 0 THEN "none" ELSE "wanted",
                   !.before = CommittedEvents]
<1>1. /\ socket' = [socket EXCEPT ![k] = s] /\ socket[k].peer = "unopened"
      /\ UNCHANGED <<txn, outbox, relaying, fetching, pointer, missed>>
  BY DEF Open
<1>2. pointer[ClientOf[k]] \in 0..MaxEvents /\ CommittedEvents \subseteq EventIds
  BY StreamAssumption DEF StreamAssumption, StreamInv, StreamTypeOK, CommittedEvents
<1>3. /\ s.peer = "open" /\ s.before = CommittedEvents /\ s.live = socket[k].live
      /\ s.replay \in {"none", "wanted"} /\ s.replayed = socket[k].replayed
      /\ s.rows = socket[k].rows /\ s.since = pointer[ClientOf[k]]
  BY SocketFields DEF Sockets
<1>4. s \in Sockets
  BY <1>2, SocketFields DEF Sockets
<1>5. socket[k].replayed = {}
  BY <1>1 DEF StreamInv, ConnectionsInOrder, ReplayInOrder
<1> HIDE DEF s
<1>6. ReplayInOrder(s) /\ Hears(s)
  BY <1>3, <1>5 DEF ReplayInOrder, Hears
<1>7. /\ room \in [exists: BOOLEAN, members: SUBSET Connections, listeners: Nat]
      /\ room.listeners = IF room.exists THEN 1 ELSE 0
      /\ room' = [exists |-> TRUE, members |-> room.members \cup {k},
                  listeners |-> IF room.exists THEN room.listeners ELSE room.listeners + 1]
  BY DEF Open, Join, StreamInv, StreamTypeOK, OneListener
<1>8. /\ room'.exists /\ room'.members = room.members \cup {k} /\ room'.listeners = 1
      /\ room' \in [exists: BOOLEAN, members: SUBSET Connections, listeners: Nat]
  BY <1>7
<1>9. pointer' \in [Clients -> 0..MaxEvents]
  BY <1>1 DEF StreamInv, StreamTypeOK
<1> QED
  BY <1>1, <1>3, <1>4, <1>6, <1>8, <1>9, OneConnection

LEMMA LeftStream ==
    ASSUME StreamInv, NEW k \in Connections, Vanish(k) \/ Close(k)
    PROVE  StreamInv'
<1>1. PICK peer \in {"vanished", "closed"} : socket' = [socket EXCEPT ![k].peer = peer]
  BY DEF Vanish, Close
<1> DEFINE s == [socket[k] EXCEPT !.peer = peer]
<1>2. /\ s.peer = peer /\ s.live = socket[k].live /\ s.replay = socket[k].replay
      /\ s.replayed = socket[k].replayed /\ s.rows = socket[k].rows
      /\ s.before = socket[k].before /\ s.since = socket[k].since
      /\ s \in Sockets
  BY SocketFields DEF Sockets
<1>3. socket' = [socket EXCEPT ![k] = s]
  BY <1>1 DEF StreamInv, StreamTypeOK
<1> HIDE DEF s
<1>4. ReplayInOrder(s) /\ Hears(s)
  BY <1>2 DEF StreamInv, ConnectionsInOrder, ReplayInOrder, Hears
<1>5. UNCHANGED <<txn, outbox, relaying, fetching, pointer, missed>>
  BY DEF Vanish, Close
<1>6. /\ room \in [exists: BOOLEAN, members: SUBSET Connections, listeners: Nat]
      /\ room.listeners = IF room.exists THEN 1 ELSE 0
      /\ room.members # {} => room.exists
  BY DEF StreamInv, StreamTypeOK, OneListener
<1>7. \/ room' = room
      \/ room.exists /\ room' = [room EXCEPT !.members = @ \ {k}]
      \/ /\ room.exists /\ room.members \ {k} = {}
         /\ room' = [exists |-> FALSE, members |-> {}, listeners |-> room.listeners - 1]
  BY DEF Vanish, Close, Leave
<1>8. /\ room' \in [exists: BOOLEAN, members: SUBSET Connections, listeners: Nat]
      /\ room'.listeners = IF room'.exists THEN 1 ELSE 0
      /\ room'.members # {} => room'.exists
      /\ \A l \in Connections \ {k} : l \in room.members => l \in room'.members
  <2>1. CASE room' = room
    BY <1>6, <2>1
  <2>2. CASE room.exists /\ room' = [room EXCEPT !.members = @ \ {k}]
    BY <1>6, <2>2
  <2>3. CASE /\ room.exists /\ room.members \ {k} = {}
             /\ room' = [exists |-> FALSE, members |-> {}, listeners |-> room.listeners - 1]
    BY <1>6, <2>3
  <2> QED
    BY <1>7, <2>1, <2>2, <2>3
<1>9. pointer' \in [Clients -> 0..MaxEvents]
  BY <1>5 DEF StreamInv, StreamTypeOK
<1> QED
  BY <1>1, <1>2, <1>3, <1>4, <1>5, <1>8, <1>9, OneConnection

\* The replay is read, or its query fails.
LEMMA ReadStream ==
    ASSUME StreamInv, NEW k \in Connections, ReplayRead(k) \/ ReplayFails(k)
    PROVE  StreamInv'
<1>1. /\ socket[k].replay = "wanted" /\ socket[k].replayed = {}
      /\ socket[k].peer # "unopened"
      /\ UNCHANGED <<txn, outbox, relaying, fetching, room, pointer, missed>>
  BY DEF ReplayRead, ReplayFails, StreamInv, ConnectionsInOrder, ReplayInOrder
<1>2. PICK s : /\ socket' = [socket EXCEPT ![k] = s] /\ s \in Sockets
               /\ s.peer = socket[k].peer /\ s.live = socket[k].live
               /\ s.replayed = socket[k].replayed
               /\ s.before = socket[k].before /\ s.since = socket[k].since
               /\ \/ s.replay = "none"
                  \/ s.replay = "read" /\ s.rows = ReplayRows(socket[k].since)
  <2>1. CASE ReplayRead(k)
    <3> DEFINE s == [socket[k] EXCEPT !.replay = "read", !.rows = ReplayRows(socket[k].since)]
    <3>1. ReplayRows(socket[k].since) \subseteq EventIds
      BY DEF ReplayRows, FirstRows, StreamInv, StreamTypeOK
    <3>2. s \in Sockets
      BY <3>1, SocketFields DEF Sockets
    <3>3. /\ s.peer = socket[k].peer /\ s.live = socket[k].live
          /\ s.replayed = socket[k].replayed
          /\ s.before = socket[k].before /\ s.since = socket[k].since
          /\ s.replay = "read" /\ s.rows = ReplayRows(socket[k].since)
      BY SocketFields DEF Sockets
    <3>4. socket' = [socket EXCEPT ![k] = s]
      BY <2>1 DEF ReplayRead
    <3> HIDE DEF s
    <3> QED
      BY <3>2, <3>3, <3>4
  <2>2. CASE ReplayFails(k)
    <3> DEFINE s == [socket[k] EXCEPT !.replay = "none"]
    <3>1. /\ s \in Sockets
          /\ s.peer = socket[k].peer /\ s.live = socket[k].live
          /\ s.replayed = socket[k].replayed
          /\ s.before = socket[k].before /\ s.since = socket[k].since
          /\ s.replay = "none"
      BY SocketFields DEF Sockets
    <3>2. socket' = [socket EXCEPT ![k] = s]
      BY <2>2 DEF ReplayFails, StreamInv, StreamTypeOK
    <3> HIDE DEF s
    <3> QED
      BY <3>1, <3>2
  <2> QED
    BY <2>1, <2>2
<1>3. Hears(s)
  BY <1>2 DEF StreamInv, ConnectionsInOrder, Hears
<1>4. s.replay = "read" /\ Cardinality(s.rows) < ReplayLimit
      => s.rows = {i \in outbox : i > s.since}
  <2>1. {i \in outbox : i > s.since} \in SUBSET EventIds
    BY DEF StreamInv, StreamTypeOK
  <2>2. s.replay = "read" => s.rows = FirstRows({i \in outbox : i > s.since})
    BY <1>2 DEF ReplayRows
  <2> QED
    BY <2>1, <2>2, WholeReplay
<1>5. ReplayInOrder(s)
  <2>1. s.before \subseteq CommittedEvents
    BY <1>2 DEF StreamInv, ConnectionsInOrder, ReplayInOrder
  <2> QED
    BY <1>1, <1>2, <1>4, <2>1 DEF ReplayInOrder
<1>6. /\ room' \in [exists: BOOLEAN, members: SUBSET Connections, listeners: Nat]
      /\ room'.listeners = IF room'.exists THEN 1 ELSE 0
      /\ room'.members # {} => room'.exists
      /\ \A l \in Connections : l \in room.members => l \in room'.members
      /\ s.peer = "open" => k \in room'.members
      /\ pointer' \in [Clients -> 0..MaxEvents]
  BY <1>1, <1>2 DEF StreamInv, StreamTypeOK, OneListener
<1> QED
  BY <1>1, <1>2, <1>3, <1>5, <1>6, OneConnection

\* The replay is delivered.
LEMMA SentStream ==
    ASSUME StreamInv, NEW k \in Connections, ReplaySend(k)
    PROVE  StreamInv'
<1> DEFINE delivered == IF socket[k].peer = "open" THEN socket[k].rows ELSE {}
           s == [socket[k] EXCEPT !.replay = "sent", !.replayed = delivered]
<1>1. /\ socket[k].replay = "read"
      /\ socket' = [socket EXCEPT ![k] = s]
      /\ pointer' = [pointer EXCEPT ![ClientOf[k]] = Largest(delivered \cup {@})]
      /\ UNCHANGED <<txn, outbox, relaying, fetching, room, missed>>
  BY DEF ReplaySend
<1>2. /\ socket[k].replayed = {} /\ socket[k].peer # "unopened"
      /\ delivered \subseteq EventIds /\ (socket[k].peer = "open" => delivered = socket[k].rows)
  BY <1>1, SocketFields DEF StreamInv, ConnectionsInOrder, ReplayInOrder
<1> HIDE DEF delivered
<1>3. /\ s.peer = socket[k].peer /\ s.live = socket[k].live /\ s.replay = "sent"
      /\ s.replayed = delivered /\ s.rows = socket[k].rows
      /\ s.before = socket[k].before /\ s.since = socket[k].since
      /\ s \in Sockets
  BY <1>2, SocketFields DEF Sockets
<1> HIDE DEF s
<1>4. ReplayInOrder(s)
  BY <1>1, <1>2, <1>3 DEF StreamInv, ConnectionsInOrder, ReplayInOrder
<1>5. Hears(s)
  BY <1>2, <1>3 DEF StreamInv, ConnectionsInOrder, Hears
<1>6. pointer' \in [Clients -> 0..MaxEvents]
  <2>1. /\ pointer[ClientOf[k]] \in 0..MaxEvents /\ ClientOf[k] \in Clients
        /\ pointer \in [Clients -> 0..MaxEvents] /\ MaxEvents \in Nat
    BY StreamAssumption DEF StreamAssumption, StreamInv, StreamTypeOK
  <2>2. delivered \cup {pointer[ClientOf[k]]} \in SUBSET (0..MaxEvents)
    BY <1>2, <2>1 DEF EventIds
  <2>3. Largest(delivered \cup {pointer[ClientOf[k]]}) \in 0..MaxEvents
    BY <2>2, LargestId
  <2> QED
    BY <1>1, <2>1, <2>3
<1>7. /\ room' \in [exists: BOOLEAN, members: SUBSET Connections, listeners: Nat]
      /\ room'.listeners = IF room'.exists THEN 1 ELSE 0
      /\ room'.members # {} => room'.exists
      /\ \A l \in Connections : l \in room.members => l \in room'.members
      /\ s.peer = "open" => k \in room'.members
  BY <1>1, <1>3 DEF StreamInv, StreamTypeOK, OneListener
<1> QED
  BY <1>1, <1>3, <1>4, <1>5, <1>6, <1>7, OneConnection

\* Transactions, the relay and the clean-up leave rooms and connections alone.
LEMMA StoredStream ==
    ASSUME StreamInv, NEW i \in EventIds,
           DrawId(i) \/ CommitEvent(i) \/ RollbackEvent(i) \/ CleanupEvent(i) \/ FetchFails(i)
    PROVE  StreamInv'
<1>1. /\ UNCHANGED <<relaying, room, socket, pointer>>
      /\ txn' \in [EventIds -> {"none", "open", "committed", "rolled back"}]
      /\ CommittedEvents \subseteq CommittedEvents'
      /\ CommittedEvents' \subseteq CommittedEvents \cup {i}
      /\ i \in CommittedEvents' \ CommittedEvents => i \in fetching' \cup missed'
      /\ outbox' \subseteq outbox \cup (CommittedEvents' \ CommittedEvents)
      /\ fetching \subseteq fetching' \cup missed' /\ missed \subseteq missed'
      /\ fetching' \subseteq fetching \cup (CommittedEvents' \ CommittedEvents)
      /\ missed' \subseteq EventIds
  <2> USE DEF StreamInv, StreamTypeOK, CommittedEvents
  <2>1. CASE DrawId(i) \/ RollbackEvent(i)
    <3>1. /\ txn[i] # "committed"
          /\ \E status \in {"open", "rolled back"} : txn' = [txn EXCEPT ![i] = status]
          /\ UNCHANGED <<outbox, relaying, fetching, room, socket, pointer, missed>>
      BY <2>1 DEF DrawId, RollbackEvent
    <3>2. /\ txn' \in [EventIds -> {"none", "open", "committed", "rolled back"}]
          /\ CommittedEvents' = CommittedEvents
      BY <3>1
    <3> QED
      BY <3>1, <3>2
  <2>2. CASE CommitEvent(i)
    <3>1. /\ txn[i] # "committed" /\ txn' = [txn EXCEPT ![i] = "committed"]
          /\ outbox' = outbox \cup {i}
          /\ fetching' \subseteq fetching \cup {i} /\ missed' \subseteq missed \cup {i}
          /\ fetching \subseteq fetching' /\ missed \subseteq missed'
          /\ i \in fetching' \cup missed'
          /\ UNCHANGED <<relaying, room, socket, pointer>>
      BY <2>2 DEF CommitEvent
    <3>2. txn' \in [EventIds -> {"none", "open", "committed", "rolled back"}]
      BY <3>1
    <3>3. i \notin CommittedEvents /\ \A j \in EventIds \ {i} : txn'[j] = txn[j]
      BY <3>1
    <3>4. CommittedEvents' = CommittedEvents \cup {i}
      <4>1. txn'[i] = "committed"
        BY <3>1
      <4> QED
        BY <3>3, <4>1
    <3>5. outbox' = outbox \cup {i} /\ missed' \subseteq EventIds
      BY <3>1
    <3> QED
      BY <3>1, <3>2, <3>3, <3>4, <3>5 DEF CommittedEvents
  <2>3. CASE CleanupEvent(i)
    BY <2>3 DEF CleanupEvent
  <2>4. CASE FetchFails(i)
    BY <2>4 DEF FetchFails
  <2> QED
    BY <2>1, <2>2, <2>3, <2>4
<1>2. /\ CommittedEvents = {j \in EventIds : txn[j] = "committed"}
      /\ CommittedEvents' = {j \in EventIds : txn'[j] = "committed"}
      /\ outbox \subseteq CommittedEvents /\ fetching \subseteq EventIds
  BY DEF CommittedEvents, StreamInv, StreamTypeOK
<1>3. \A j \in EventIds \ CommittedEvents, k \in Connections : socket[k].live[j] = 0
  <2> SUFFICES ASSUME NEW j \in EventIds \ CommittedEvents, NEW k \in Connections
               PROVE  socket[k].live[j] = 0
    OBVIOUS
  <2>1. socket[k].live[j] \in Nat /\ ~(socket[k].live[j] > 0)
    BY <1>2, SocketFields DEF StreamInv, FetchedFirst
  <2> QED
    BY <2>1
<1>4. StreamTypeOK'
  BY <1>1, <1>2 DEF StreamInv, StreamTypeOK
<1>5. OneListener' /\ DeliveredOnce'
  BY <1>1 DEF StreamInv, OneListener, DeliveredOnce
<1>6. FetchedFirst'
  <2>1. \A j \in fetching' : j \in CommittedEvents' /\ \A k \in Connections : socket[k].live[j] = 0
    BY <1>1, <1>2, <1>3 DEF StreamInv, FetchedFirst
  <2>2. \A k \in Connections, j \in EventIds : socket[k].live[j] > 0 => j \in CommittedEvents'
    BY <1>1, <1>2 DEF StreamInv, FetchedFirst
  <2> QED
    BY <1>1, <1>2, <2>1, <2>2 DEF FetchedFirst
<1>7. ConnectionsInOrder'
  <2> SUFFICES ASSUME NEW k \in Connections
               PROVE  ReplayInOrder(socket[k])' /\ Hears(socket[k])'
    BY DEF ConnectionsInOrder
  <2>1. ReplayInOrder(socket[k]) /\ Hears(socket[k]) /\ socket'[k] = socket[k]
    BY <1>1 DEF StreamInv, ConnectionsInOrder
  <2>2. ReplayInOrder(socket[k])'
    BY <1>1, <2>1 DEF ReplayInOrder
  <2>3. Hears(socket[k])'
    BY <1>1, <2>1 DEF Hears
  <2> QED
    BY <2>2, <2>3
<1> QED
  BY <1>4, <1>5, <1>6, <1>7 DEF StreamInv
\* A fetched event is broadcast in the room.
LEMMA FetchedStream ==
    ASSUME StreamInv, NEW i \in EventIds, FetchCompletes(i)
    PROVE  StreamInv'
<1> DEFINE open == {k \in room.members : socket[k].peer = "open" /\ room.listeners > 0}
<1>1. /\ i \in fetching /\ fetching' = fetching \ {i}
      /\ UNCHANGED <<txn, outbox, relaying, missed>>
      /\ socket' = [k \in Connections |->
                      IF k \in open THEN [socket[k] EXCEPT !.live[i] = @ + room.listeners]
                      ELSE socket[k]]
  BY DEF FetchCompletes, Broadcast
<1>2. PICK thrown \in SUBSET {k \in room.members : socket[k].peer = "vanished"} :
         room' = IF room.listeners > 0 THEN [room EXCEPT !.members = @ \ thrown] ELSE room
  BY DEF FetchCompletes, Broadcast
<1>3. /\ room \in [exists: BOOLEAN, members: SUBSET Connections, listeners: Nat]
      /\ room.listeners = IF room.exists THEN 1 ELSE 0
      /\ room.members # {} => room.exists
  BY DEF StreamInv, StreamTypeOK, OneListener
<1>4. /\ room' \in [exists: BOOLEAN, members: SUBSET Connections, listeners: Nat]
      /\ room'.listeners = room.listeners /\ room'.exists = room.exists
      /\ room'.members \subseteq room.members
      /\ \A k \in room.members : socket[k].peer = "open" => k \in room'.members
  <2>1. CASE room.listeners > 0
    BY <1>2, <1>3, <2>1
  <2>2. CASE ~(room.listeners > 0)
    BY <1>2, <1>3, <2>2
  <2> QED
    BY <2>1, <2>2
<1>5. \A k \in Connections : k \in open <=> socket[k].peer = "open"
  BY <1>3 DEF StreamInv, OneListener
<1>6. ASSUME NEW k \in Connections
      PROVE  /\ socket'[k] \in Sockets
             /\ socket'[k].peer = socket[k].peer /\ socket'[k].since = socket[k].since
             /\ socket'[k].replay = socket[k].replay /\ socket'[k].rows = socket[k].rows
             /\ socket'[k].before = socket[k].before
             /\ socket'[k].replayed = socket[k].replayed
             /\ \A j \in EventIds \ {i} : socket'[k].live[j] = socket[k].live[j]
             /\ socket'[k].live[i] = IF socket[k].peer = "open" THEN 1 ELSE 0
  <2>1. socket[k].live[i] = 0
    BY <1>1 DEF StreamInv, FetchedFirst
  <2>2. CASE socket[k].peer = "open"
    <3>1. k \in open /\ room.listeners = 1
      BY <1>3, <1>5, <2>2
    <3>2. socket'[k] = [socket[k] EXCEPT !.live = [socket[k].live EXCEPT ![i] = @ + room.listeners]]
      BY <1>1, <3>1, SocketFields DEF Sockets
    <3>3. [socket[k].live EXCEPT ![i] = @ + room.listeners] \in [EventIds -> Nat]
      BY <2>1, <3>1, SocketFields
    <3>4. socket'[k].live = [socket[k].live EXCEPT ![i] = @ + room.listeners]
      BY <3>2, SocketFields DEF Sockets
    <3>5. socket'[k] \in Sockets
      BY <3>2, <3>3, SocketFields DEF Sockets
    <3> QED
      BY <2>1, <2>2, <3>1, <3>2, <3>4, <3>5, SocketFields DEF Sockets
  <2>3. CASE socket[k].peer # "open"
    BY <1>1, <1>5, <2>1, <2>3, SocketFields
  <2> QED
    BY <2>2, <2>3
<1> HIDE DEF open
<1>7. pointer' \in [Clients -> 0..MaxEvents]
  <2>1. /\ MaxEvents \in Nat /\ i \in 0..MaxEvents
        /\ \A c \in Clients : pointer[c] \in 0..MaxEvents
    <3>1. MaxEvents \in Nat /\ i \in 1..MaxEvents
      BY StreamAssumption DEF StreamAssumption, EventIds
    <3>2. pointer \in [Clients -> 0..MaxEvents]
      BY DEF StreamInv, StreamTypeOK
    <3> QED
      BY <3>1, <3>2
  <2>2. \A c \in Clients : Largest({pointer[c], i}) \in 0..MaxEvents
    BY <2>1, LargestId
  <2> QED
    BY <2>1, <2>2 DEF FetchCompletes, Broadcast
<1>8. StreamTypeOK'
  <2>1. socket' \in [Connections -> Sockets]
    BY <1>1, <1>6
  <2> QED
    BY <1>1, <1>4, <1>7, <2>1 DEF StreamInv, StreamTypeOK
<1>9. OneListener'
  BY <1>3, <1>4, <1>6 DEF StreamInv, OneListener
<1>10. FetchedFirst' /\ DeliveredOnce'
  <2>1. txn[i] = "committed" /\ fetching \subseteq EventIds
    BY <1>1 DEF StreamInv, FetchedFirst, StreamTypeOK
  <2>2. \A k \in Connections : socket'[k].live[i] <= 1
    BY <1>6
  <2>3. FetchedFirst'
    BY <1>1, <1>6, <2>1 DEF StreamInv, FetchedFirst
  <2>4. DeliveredOnce'
    BY <1>6, <2>2 DEF StreamInv, DeliveredOnce
  <2> QED
    BY <2>3, <2>4
<1>11. ConnectionsInOrder'
  <2> SUFFICES ASSUME NEW k \in Connections
               PROVE  ReplayInOrder(socket[k])' /\ Hears(socket[k])'
    BY DEF ConnectionsInOrder
  <2>1. ReplayInOrder(socket[k]) /\ Hears(socket[k])
    BY DEF StreamInv, ConnectionsInOrder
  <2>2. CommittedEvents' = CommittedEvents /\ CommittedEvents \subseteq EventIds
    BY <1>1 DEF CommittedEvents
  <2>3. ReplayInOrder(socket[k])'
    BY <1>1, <1>6, <2>1, <2>2 DEF ReplayInOrder
  <2>4. Hears(socket[k])'
    <3> SUFFICES ASSUME socket'[k].peer = "open", NEW j \in CommittedEvents
                 PROVE  \/ socket'[k].live[j] > 0
                        \/ j \in socket'[k].before \cup socket'[k].replayed \cup fetching'
                                  \cup missed'
      BY <2>2 DEF Hears
    <3>1. CASE j = i
      BY <1>6, <3>1
    <3>2. CASE j # i
      BY <1>1, <1>6, <2>1, <2>2, <3>2 DEF Hears
    <3> QED
      BY <3>1, <3>2
  <2> QED
    BY <2>3, <2>4
<1> QED
  BY <1>8, <1>9, <1>10, <1>11 DEF StreamInv

\* Nothing has happened yet.
LEMMA InitStream == StreamInit => StreamInv
<1> SUFFICES ASSUME StreamInit PROVE StreamInv
  OBVIOUS
<1>1. MaxEvents \in Nat /\ 0 \in 0..MaxEvents
  BY StreamAssumption DEF StreamAssumption
<1>2. Unopened \in Sockets
  BY <1>1 DEF Unopened, Sockets
<1>3. /\ txn = [i \in EventIds |-> "none"] /\ outbox = {} /\ fetching = {} /\ missed = {}
      /\ relaying = TRUE /\ room = [exists |-> FALSE, members |-> {}, listeners |-> 0]
      /\ socket = [k \in Connections |-> Unopened] /\ pointer = [c \in Clients |-> 0]
  BY DEF StreamInit
<1>4. /\ \A k \in Connections : socket[k] = Unopened
      /\ Unopened.peer = "unopened" /\ Unopened.replay = "none" /\ Unopened.replayed = {}
      /\ Unopened.before = {} /\ \A i \in EventIds : Unopened.live[i] = 0
  BY <1>3 DEF Unopened
<1>5. StreamTypeOK
  BY <1>1, <1>2, <1>3 DEF StreamTypeOK
<1>6. OneListener
  BY <1>3, <1>4 DEF OneListener
<1>7. FetchedFirst /\ DeliveredOnce
  BY <1>3, <1>4 DEF FetchedFirst, DeliveredOnce
<1>8. ConnectionsInOrder
  BY <1>4 DEF ConnectionsInOrder, ReplayInOrder, Hears
<1> QED
  BY <1>5, <1>6, <1>7, <1>8 DEF StreamInv

\* The invariant of the event stream.
THEOREM StreamInductive == StreamSpec => []StreamInv
<1>1. StreamInv /\ [StreamNext]_streamVars => StreamInv'
  <2> SUFFICES ASSUME StreamInv, [StreamNext]_streamVars PROVE StreamInv'
    OBVIOUS
  <2>1. CASE UNCHANGED streamVars \/ Relisten
    <3>1. UNCHANGED <<txn, outbox, fetching, room, socket, pointer, missed>>
      BY <2>1 DEF streamVars, Relisten
    <3>2. relaying' \in BOOLEAN
      BY <2>1 DEF streamVars, Relisten, StreamInv, StreamTypeOK
    <3>3. StreamTypeOK'
      BY <3>1, <3>2 DEF StreamInv, StreamTypeOK
    <3>4. OneListener' /\ FetchedFirst' /\ DeliveredOnce'
      BY <3>1 DEF StreamInv, OneListener, FetchedFirst, DeliveredOnce
    <3>5. ConnectionsInOrder'
      BY <3>1 DEF StreamInv, ConnectionsInOrder, ReplayInOrder, Hears, CommittedEvents
    <3> QED
      BY <3>3, <3>4, <3>5 DEF StreamInv
  <2> QED
    BY <2>1, StoredStream, FetchedStream, OpenedStream, LeftStream, ReadStream, SentStream
    DEF StreamNext
<1> QED
  BY <1>1, InitStream, PTL DEF StreamSpec

\* Events, the room and the connections stay well formed; only a committed event is in
\* the outbox, and a client's pointer is the id of an event (Largest).
THEOREM StreamType == StreamSpec => []StreamTypeOK
<1>1. StreamInv => StreamTypeOK
  BY DEF StreamInv
<1> QED
  BY <1>1, StreamInductive, PTL

\* The room delivers an event to a connection at most once (join, leave).
THEOREM EventsDeliveredOnce == StreamSpec => []DeliveredOnce
<1>1. StreamInv => DeliveredOnce
  BY DEF StreamInv
<1> QED
  BY <1>1, StreamInductive, PTL

\* There is no gap between the replay of an open connection and its live events (onOpen
\* joins the room before replayEventsSince reads).
THEOREM ReplayMeetsLive == StreamSpec => []NoGapOnConnection
<1>1. StreamInv => NoGapOnConnection
  <2> SUFFICES ASSUME StreamInv, NEW k \in Connections, NEW i \in CommittedEvents,
                      socket[k].peer = "open",
                      \/ i \notin socket[k].before
                      \/ Replayed(k) /\ i \in outbox /\ i > socket[k].since
               PROVE  i \in Received(k) \cup fetching \cup missed
    BY DEF NoGapOnConnection
  <2>1. /\ ReplayInOrder(socket[k]) /\ Hears(socket[k]) /\ i \in EventIds
    BY DEF StreamInv, ConnectionsInOrder, CommittedEvents
  <2>2. CASE i \notin socket[k].before
    BY <2>1, <2>2 DEF Hears, Received
  <2>3. CASE Replayed(k) /\ i \in outbox /\ i > socket[k].since /\ i \in socket[k].before
    BY <2>1, <2>3 DEF ReplayInOrder, Replayed, Received
  <2> QED
    BY <2>2, <2>3
<1> QED
  BY <1>1, StreamInductive, PTL
===============================================================================
