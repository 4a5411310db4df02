----------------------------- MODULE BranchRegistry -----------------------------
(***************************************************************************)
(* The branches of one project and which of them is current (storage       *)
(* queries/branches.ts and the routes that call it).                       *)
(*                                                                         *)
(* Transactions run at READ COMMITTED and the table has no constraint on   *)
(* is_current, so a statement sees the rows that were committed when it    *)
(* started, and an UPDATE waits for the rows other transactions hold. A    *)
(* step is one statement; a transaction changes the table when it commits. *)
(* The order in which waiting switches get their rows is not assumed.      *)
(* deleteBranch, which no route and no tool calls, is left out.            *)
(***************************************************************************)

CONSTANTS
    Branches,       \* branch names
    Main,           \* the branch "main"
    Existing,       \* the branches the project starts with: {Main} or none
    Handlers        \* concurrent executions in the API and tool servers

ASSUME RegistryAssumption == Main \in Branches /\ Existing \in {{}, {Main}}

VARIABLES
    rows,       \* committed rows of the branches table
    call,       \* what each handler is executing
    overlapped  \* history: a creation committed while it overlapped a switch,
                \* or two first creations overlapped

vars == <<rows, call, overlapped>>

Idle == [pc |-> "idle"]

\* After a creation a handler is done, or it switches to the branch.
Calls ==
    {Idle}
    \cup [pc: {"insert"}, branch: Branches, first: BOOLEAN, switch: BOOLEAN]
    \cup [pc: {"switch"}, branch: Branches]
    \cup [pc: {"unset", "set"}, branch: Branches, seen: SUBSET Branches]

TypeOK ==
    /\ rows \in [Branches -> {"absent", "plain", "current"}]
    /\ call \in [Handlers -> Calls]
    /\ overlapped \in BOOLEAN

Present == {b \in Branches : rows[b] # "absent"}

CurrentBranches == {b \in Branches : rows[b] = "current"}

Init ==
    /\ rows = [b \in Branches |-> IF b \in Existing THEN "current" ELSE "absent"]
    /\ call = [h \in Handlers |-> Idle]
    /\ overlapped = FALSE

Goto(h, c) == call' = [call EXCEPT ![h] = c]

(***************************************************************************)
(* Creation: insertBranch and ensureMainBranch count the rows in one       *)
(* statement and insert in another.                                        *)
(***************************************************************************)
\* isCurrent is decided by the rows that are visible to the count.
CountsFirst == Present = {}

BeginCreate(h, b, switch) ==
    /\ call[h] = Idle
    /\ b \notin Present
    /\ Goto(h, [pc |-> "insert", branch |-> b, first |-> CountsFirst, switch |-> switch])
    /\ UNCHANGED <<rows, overlapped>>

\* A switch is between the start of its UPDATE and its commit.
Switching == \E g \in Handlers : call[g].pc \in {"unset", "set"}

NextCall_Kept(c) == [c EXCEPT !.pc = "switch"]  \* fault: the switch keeps the insert's facts
NextCall(c) == IF c.switch THEN [pc |-> "switch", branch |-> c.branch] ELSE Idle

Insert(h) ==
    /\ call[h].pc = "insert"
    /\ LET c == call[h]
       IN  /\ c.branch \notin Present
           /\ rows' = [rows EXCEPT ![c.branch] = IF c.first THEN "current" ELSE "plain"]
           /\ overlapped' = (overlapped \/ Switching \/ (c.first /\ Present # {}))
           /\ Goto(h, NextCall(c))

\* Another handler has taken the name: insertBranch fails, unless its caller
\* finds the row it wanted; ensureMainBranch does nothing and reads the row.
InsertConflict(h) ==
    /\ call[h].pc = "insert"
    /\ call[h].branch \in Present
    /\ Goto(h, IF call[h].branch = Main THEN NextCall(call[h]) ELSE Idle)
    /\ UNCHANGED <<rows, overlapped>>

(***************************************************************************)
(* switchBranch: find the target, unset every row, set the target. The     *)
(* locks of the first UPDATE are held until the transaction commits.       *)
(***************************************************************************)
\* POST /branches/switch, and GET /branches/current when none is current.
RequestSwitch(h, b) ==
    /\ call[h] = Idle
    /\ b \in Present
    /\ Goto(h, [pc |-> "switch", branch |-> b])
    /\ UNCHANGED <<rows, overlapped>>

\* The first UPDATE starts: it will touch the rows that are visible now.
BeginUnset(h) ==
    /\ call[h].pc = "switch"
    /\ Goto(h, [pc |-> "unset", branch |-> call[h].branch, seen |-> Present])
    /\ UNCHANGED <<rows, overlapped>>

\* Another transaction has updated a row this one wants and has not committed.
Blocked(h) ==
    \E g \in Handlers \ {h} :
        call[g].pc = "set" /\ call[g].seen \cap call[h].seen # {}

\* The first UPDATE has its rows.
Unset_Committed(h) ==           \* fault: the UPDATEs are two transactions
    /\ call[h].pc = "unset"
    /\ ~Blocked(h)
    /\ rows' = [b \in Branches |-> IF b \in call[h].seen THEN "plain" ELSE rows[b]]
    /\ Goto(h, [call[h] EXCEPT !.pc = "set"])
    /\ UNCHANGED overlapped
Unset(h) ==
    /\ call[h].pc = "unset"
    /\ ~Blocked(h)
    /\ Goto(h, [call[h] EXCEPT !.pc = "set"])
    /\ UNCHANGED <<rows, overlapped>>

\* The second UPDATE and the commit of both.
Unsets_Nothing(c) == {}         \* fault: the previous branch is left current
Unsets(c) == c.seen
Set(h) ==
    /\ call[h].pc = "set"
    /\ LET c == call[h]
       IN  rows' = [b \in Branches |->
                      IF b = c.branch THEN "current"
                      ELSE IF b \in Unsets(c) THEN "plain" ELSE rows[b]]
    /\ Goto(h, Idle)
    /\ UNCHANGED overlapped

\* A connection is lost, or the database breaks a deadlock: rollback.
Abort(h) ==
    /\ call[h] # Idle
    /\ Goto(h, Idle)
    /\ UNCHANGED <<rows, overlapped>>

Next ==
    \E h \in Handlers :
        \/ \E b \in Branches :
              \/ \E switch \in BOOLEAN : BeginCreate(h, b, switch)
              \/ RequestSwitch(h, b)
        \/ Insert(h)
        \/ InsertConflict(h)
        \/ BeginUnset(h)
        \/ Unset(h)
        \/ Set(h)
        \/ Abort(h)

Spec == Init /\ [][Next]_vars

(***************************************************************************)
(* Properties.                                                             *)
(***************************************************************************)
\* A project that has branches always has a current one, at every moment of
\* concurrent creations and switches (the count of insertBranch, the one
\* transaction of switchBranch).
HasCurrent == Present # {} => CurrentBranches # {}

AtMostOne == \A a, b \in CurrentBranches : a = b

\* A second current branch only ever comes from a creation that overlapped a
\* switch or another first creation: switches alone, however many run at once,
\* are serialized by the rows they lock (switchBranch).
SwitchesKeepOneCurrent == ~overlapped => AtMostOne

\* Comment of insertBranch: the transaction prevents "a TOCTOU race where two
\* concurrent insertBranch calls both observe count=0 and both try to set
\* isCurrent=1". At most one branch of a project is current.
AtMostOneCurrent == AtMostOne
===============================================================================
