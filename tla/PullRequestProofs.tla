--------------------------- MODULE PullRequestProofs ---------------------------
(***************************************************************************)
(* Pull requests, merge drafts and commits keep their invariants for any   *)
(* number of branches, pull requests, drafts and agents.                   *)
(*                                                                         *)
(* What an agent has read must still hold when it writes. PullsInv says    *)
(* why: the lock of a pull request belongs to the one execution that works *)
(* on it (LatchesOK); what an execution relies on cannot change under it   *)
(* (Sound); a commit that has a child is no head, so a second merge of the *)
(* same commits finds its head moved, and a decision that was read before  *)
(* an execution has an older revision (CommitsOK, Sound).                  *)
(***************************************************************************)
EXTENDS PullRequests, FiniteSetTheorems, SequenceTheorems, TLAPS

Locking == {"readiness", "close", "merge"}

Fits(d, pair, s, t) ==
    d \in DOMAIN drafts /\ drafts[d].pair = pair /\ drafts[d].source = s /\ drafts[d].target = t

\* Draft d has been executed.
Ran(d) == \E c \in DOMAIN commits : commits[c].draft = d

PullsShape ==
    /\ commits \in Seq(CommitRows) /\ Len(commits) <= MaxCommits
    /\ tip \in [Lines -> DOMAIN commits]
    /\ pulls \in Seq(PullRows) /\ Len(pulls) <= MaxPulls
    /\ drafts \in Seq(DraftRows) /\ Len(drafts) <= MaxDrafts
    /\ latch \in [Numbers -> Agents \cup {Missing}]
    /\ task \in [Agents -> Tasks]

LatchesOK ==
    /\ \A a \in Agents : task[a].does \in Locking => latch[task[a].pull] = a
    /\ \A n \in Numbers : latch[n] # Missing => /\ task[latch[n]].does \in Locking
                                                /\ task[latch[n]].pull = n

\* What an execution that has begun relies on.
Sound(t) ==
    /\ t.does \in Locking => t.pull \in DOMAIN pulls /\ pulls[t.pull].status \notin Finished
    /\ t.does = "readiness" /\ t.draft # 0
          => Fits(t.draft, pulls[t.pull].pair, t.source, t.target)
    /\ t.does = "merge" =>
          /\ t.draft \in DOMAIN drafts
          /\ t.fresh => /\ Fits(t.draft, pulls[t.pull].pair, pulls[t.pull].source,
                                pulls[t.pull].target)
                        /\ Settled(pulls[t.pull].source, pulls[t.pull].target, t.choice)
    /\ t.does \in {"decide", "commit", "abort"} => t.draft \in DOMAIN drafts
    /\ t.does \in {"decide", "commit"} => t.choice \in Choices
    /\ t.does = "decide" => /\ t.revision <= drafts[t.draft].revision
                            /\ Ran(t.draft) => t.revision < drafts[t.draft].revision
    /\ t.does = "commit" => Settled(drafts[t.draft].source, drafts[t.draft].target, t.choice)

CommitsOK ==
    /\ \A b, k \in Lines : tip[b] = tip[k] => b = k
    /\ \A c \in DOMAIN commits, b \in Lines :
          commits[c].first # tip[b] /\ commits[c].first <= Len(commits)
    /\ \A c, k \in DOMAIN commits :
          commits[c].first # 0 /\ commits[k].first = commits[c].first => k = c
    /\ \A c \in DOMAIN commits :
          <<commits[c].second, commits[c].first>> \in Conflicting => commits[c].choice \in Settling
    /\ \A c \in DOMAIN commits :
          LET d == commits[c].draft
          IN  d # 0 => /\ Fits(d, drafts[d].pair, commits[c].second, commits[c].first)
                       /\ drafts[d].choice = commits[c].choice
                       /\ drafts[d].status # "pending"

PullOK(n) ==
    /\ pulls[n].draft # 0
          => Fits(pulls[n].draft, pulls[n].pair, pulls[n].source, pulls[n].target)
    /\ pulls[n].status = "merged" <=> pulls[n].merged # 0
    /\ pulls[n].merged # 0 => /\ pulls[n].merged \in DOMAIN commits
                              /\ commits[pulls[n].merged].first = pulls[n].target
                              /\ commits[pulls[n].merged].second = pulls[n].source

PullsInv ==
    /\ PullsShape
    /\ LatchesOK
    /\ \A a \in Agents : Sound(task[a])
    /\ CommitsOK
    /\ \A n \in DOMAIN pulls : PullOK(n)

(***************************************************************************)
(* Sequences and records.                                                  *)
(***************************************************************************)
LEMMA AppendRow ==
    ASSUME NEW S, NEW s \in Seq(S), NEW e \in S
    PROVE  /\ Append(s, e) \in Seq(S)
           /\ Len(Append(s, e)) = Len(s) + 1
           /\ DOMAIN Append(s, e) = 1..(Len(s) + 1)
           /\ \A i \in 1..Len(s) : Append(s, e)[i] = s[i]
           /\ Append(s, e)[Len(s) + 1] = e
OBVIOUS

LEMMA RowsOf ==
    ASSUME NEW S, NEW s \in Seq(S)
    PROVE  /\ Len(s) \in Nat /\ DOMAIN s = 1..Len(s)
           /\ \A i \in DOMAIN s : s[i] \in S
OBVIOUS

\* Replacing one row.
LEMMA ReplaceRow ==
    ASSUME NEW S, NEW s \in Seq(S), NEW i \in DOMAIN s, NEW e \in S
    PROVE  /\ [s EXCEPT ![i] = e] \in Seq(S)
           /\ Len([s EXCEPT ![i] = e]) = Len(s)
           /\ DOMAIN [s EXCEPT ![i] = e] = DOMAIN s
           /\ \A j \in DOMAIN s : [s EXCEPT ![i] = e][j] = IF j = i THEN e ELSE s[j]
BY ExceptSeq, RowsOf

\* The fields of a task, by what it does.
LEMMA TaskFields ==
    ASSUME NEW t \in Tasks
    PROVE  /\ t.does = "nothing" <=> t = Idling
           /\ t.does = "open" => t.pair \in Pairs /\ t.source \in Commit /\ t.target \in Commit
           /\ t.does \in Locking => t.pull \in Numbers
           /\ t.does = "readiness" => /\ t.source \in Commit /\ t.target \in Commit
                                      /\ t.draft \in 0..MaxDrafts
           /\ t.does = "merge" => t.draft \in DraftIds /\ t.fresh \in BOOLEAN /\ t.choice \in Choices
           /\ t.does \in {"decide", "commit", "abort"} =>
                 /\ t.draft \in DraftIds /\ t.revision \in Nat
                 /\ t.choice \in Choices \cup {Missing}
<1>1. CASE t = Idling
  BY <1>1 DEF Idling, Locking
<1>2. CASE t \in [does: {"open"}, pair: Pairs, source: Commit, target: Commit]
  BY <1>2 DEF Idling, Locking
<1>3. CASE t \in [does: {"readiness"}, pull: Numbers, source: Commit, target: Commit,
                  draft: 0..MaxDrafts]
  BY <1>3 DEF Idling, Locking
<1>4. CASE t \in [does: {"close"}, pull: Numbers]
  BY <1>4 DEF Idling, Locking
<1>5. CASE t \in [does: {"merge"}, pull: Numbers, fresh: BOOLEAN, draft: DraftIds, choice: Choices]
  BY <1>5 DEF Idling, Locking
<1>6. CASE t \in [does: {"decide", "commit", "abort"}, draft: DraftIds, revision: Nat,
                  choice: Choices \cup {Missing}]
  BY <1>6 DEF Idling, Locking
<1> QED
  BY <1>1, <1>2, <1>3, <1>4, <1>5, <1>6 DEF Tasks

(***************************************************************************)
(* What a step of one agent leaves to the others (nobody's step: Missing). *)
(***************************************************************************)
\* Drafts keep their branches and commits, and never become pending again.
DraftsGrow ==
    /\ Len(drafts) <= Len(drafts')
    /\ \A d \in DOMAIN drafts :
          /\ drafts'[d].pair = drafts[d].pair
          /\ drafts'[d].source = drafts[d].source /\ drafts'[d].target = drafts[d].target
          /\ drafts[d].revision <= drafts'[d].revision
          /\ drafts[d].status # "pending" => drafts'[d].status # "pending"

LEMMA DraftsStay ==
    ASSUME drafts \in Seq(DraftRows), drafts' \in Seq(DraftRows), DraftsGrow
    PROVE  \A d \in DOMAIN drafts : d \in DOMAIN drafts'
<1>1. /\ Len(drafts) \in Nat /\ DOMAIN drafts = 1..Len(drafts)
      /\ Len(drafts') \in Nat /\ DOMAIN drafts' = 1..Len(drafts')
  BY RowsOf
<1> QED
  BY <1>1 DEF DraftsGrow

\* Who executes a draft stores a new revision of it.
RunsStoreRevision ==
    \A d \in DOMAIN drafts :
        Ran(d)' => Ran(d) \/ drafts[d].revision < drafts'[d].revision

\* Pull requests that a does not hold, and finished ones, lose at most their draft.
PullsKept(a) ==
    /\ Len(pulls) <= Len(pulls')
    /\ \A n \in DOMAIN pulls :
          \/ latch[n] = a /\ a \in Agents /\ pulls[n].status \notin Finished
          \/ pulls'[n] = [pulls[n] EXCEPT !.draft = pulls'[n].draft]

TasksKept(a) == \A b \in Agents \ {a} : task'[b] = task[b]

\* Pull requests with different rows keep the fields that matter to the others.
LEMMA KeptFields ==
    ASSUME PullsShape, NEW a, PullsKept(a), NEW n \in DOMAIN pulls,
           latch[n] # a \/ a \notin Agents \/ pulls[n].status \in Finished
    PROVE  /\ pulls'[n].pair = pulls[n].pair
           /\ pulls'[n].source = pulls[n].source /\ pulls'[n].target = pulls[n].target
           /\ pulls'[n].status = pulls[n].status /\ pulls'[n].merged = pulls[n].merged
<1>1. pulls[n] \in PullRows
  BY RowsOf DEF PullsShape
<1>2. pulls'[n] = [pulls[n] EXCEPT !.draft = pulls'[n].draft]
  BY DEF PullsKept
<1> QED
  BY <1>1, <1>2 DEF PullRows

LEMMA OthersSound ==
    ASSUME PullsInv, PullsShape', NEW a, TasksKept(a), DraftsGrow, RunsStoreRevision, PullsKept(a),
           NEW b \in Agents, b # a
    PROVE  Sound(task[b])'
<1>1. PICK t \in Tasks : t = task[b]
  BY DEF PullsInv, PullsShape
<1>2. task'[b] = t /\ Sound(t)
  BY <1>1 DEF PullsInv, TasksKept
<1>3. drafts \in Seq(DraftRows) /\ drafts' \in Seq(DraftRows)
      /\ pulls \in Seq(PullRows) /\ pulls' \in Seq(PullRows)
  BY DEF PullsShape, PullsInv
<1>4. /\ \A d \in DOMAIN drafts : d \in DOMAIN drafts' /\ drafts[d].revision \in Nat
                                  /\ drafts'[d].revision \in Nat
      /\ \A n \in DOMAIN pulls : n \in DOMAIN pulls'
  <2>1. /\ Len(drafts) \in Nat /\ DOMAIN drafts = 1..Len(drafts)
        /\ Len(drafts') \in Nat /\ DOMAIN drafts' = 1..Len(drafts')
        /\ Len(pulls) \in Nat /\ DOMAIN pulls = 1..Len(pulls)
        /\ Len(pulls') \in Nat /\ DOMAIN pulls' = 1..Len(pulls')
    BY <1>3, RowsOf
  <2>2. DOMAIN drafts \subseteq DOMAIN drafts' /\ DOMAIN pulls \subseteq DOMAIN pulls'
    BY <2>1 DEF DraftsGrow, PullsKept
  <2>3. ASSUME NEW d \in DOMAIN drafts PROVE drafts[d].revision \in Nat
    <3>1. drafts[d] \in DraftRows
      BY <1>3, RowsOf
    <3> QED
      BY <3>1 DEF DraftRows
  <2>4. ASSUME NEW d \in DOMAIN drafts' PROVE drafts'[d].revision \in Nat
    <3>1. drafts'[d] \in DraftRows
      BY <1>3, RowsOf
    <3> QED
      BY <3>1 DEF DraftRows
  <2> QED
    BY <2>2, <2>3, <2>4
<1>5. t.does \in Locking =>
         /\ t.pull \in DOMAIN pulls' /\ pulls'[t.pull].status \notin Finished
         /\ pulls'[t.pull].pair = pulls[t.pull].pair
         /\ pulls'[t.pull].source = pulls[t.pull].source
         /\ pulls'[t.pull].target = pulls[t.pull].target
  <2> SUFFICES ASSUME t.does \in Locking
               PROVE  /\ t.pull \in DOMAIN pulls' /\ pulls'[t.pull].status \notin Finished
                      /\ pulls'[t.pull].pair = pulls[t.pull].pair
                      /\ pulls'[t.pull].source = pulls[t.pull].source
                      /\ pulls'[t.pull].target = pulls[t.pull].target
    OBVIOUS
  <2>1. t.pull \in DOMAIN pulls /\ pulls[t.pull].status \notin Finished /\ latch[t.pull] = b
    BY <1>1, <1>2 DEF PullsInv, LatchesOK, Sound
  <2> QED
    BY <1>4, <2>1, KeptFields DEF PullsInv
<1>6. ASSUME NEW d, NEW p, NEW s, NEW k, Fits(d, p, s, k)
      PROVE  /\ d \in DOMAIN drafts' /\ drafts'[d].pair = p
             /\ drafts'[d].source = s /\ drafts'[d].target = k
  BY <1>4, <1>6 DEF Fits, DraftsGrow
<1>7. t.does = "decide" =>
         /\ t.revision <= drafts'[t.draft].revision
         /\ Ran(t.draft)' => t.revision < drafts'[t.draft].revision
  <2> SUFFICES ASSUME t.does = "decide"
               PROVE  /\ t.revision <= drafts'[t.draft].revision
                      /\ Ran(t.draft)' => t.revision < drafts'[t.draft].revision
    OBVIOUS
  <2>1. /\ t.draft \in DOMAIN drafts /\ t.revision \in Nat
        /\ t.revision <= drafts[t.draft].revision
        /\ Ran(t.draft) => t.revision < drafts[t.draft].revision
    BY <1>2, TaskFields DEF Sound
  <2>2. drafts[t.draft].revision <= drafts'[t.draft].revision
    BY <2>1 DEF DraftsGrow
  <2>3. PICK d \in DOMAIN drafts : d = t.draft
    BY <2>1
  <2>4. Ran(d)' => Ran(d) \/ drafts[d].revision < drafts'[d].revision
    BY DEF RunsStoreRevision
  <2>5. drafts[d].revision \in Nat /\ drafts'[d].revision \in Nat
    BY <1>4
  <2> QED
    BY <2>1, <2>2, <2>3, <2>4, <2>5
<1>8. t.does \in {"decide", "commit", "abort"} => t.draft \in DOMAIN drafts'
  BY <1>2, <1>4 DEF Sound
<1>9. t.does = "commit" => Settled(drafts'[t.draft].source, drafts'[t.draft].target, t.choice)
  BY <1>2 DEF Sound, DraftsGrow
<1>10. t.does \in {"decide", "commit"} => t.choice \in Choices
  BY <1>2 DEF Sound
<1>11. t.does = "readiness" /\ t.draft # 0
          => Fits(t.draft, pulls[t.pull].pair, t.source, t.target)'
  BY <1>2, <1>5, <1>6 DEF Sound, Locking, Fits
<1>12. t.does = "merge" => t.draft \in DOMAIN drafts'
  BY <1>2, <1>4 DEF Sound
<1>13. t.does = "merge" /\ t.fresh =>
          /\ Fits(t.draft, pulls[t.pull].pair, pulls[t.pull].source, pulls[t.pull].target)'
          /\ Settled(pulls'[t.pull].source, pulls'[t.pull].target, t.choice)
  BY <1>2, <1>5, <1>6 DEF Sound, Locking, Fits
<1>14. Sound(t)'
  BY <1>5, <1>7, <1>8, <1>9, <1>10, <1>11, <1>12, <1>13 DEF Sound
<1> QED
  BY <1>1, <1>2, <1>14

(***************************************************************************)
(* Latches and the tasks that hold them.                                   *)
(***************************************************************************)
LEMMA TaskBegins ==
    ASSUME PullsInv, NEW a \in Agents, NEW t \in Tasks, t # Idling, Begins(a, t),
           \/ t.does \notin Locking /\ latch' = latch
           \/ t.does \in Locking /\ Locks(a, t.pull)
    PROVE  /\ latch' \in [Numbers -> Agents \cup {Missing}]
           /\ task' \in [Agents -> Tasks]
           /\ LatchesOK' /\ TasksKept(a) /\ task'[a] = t
<1>1. /\ latch \in [Numbers -> Agents \cup {Missing}] /\ task \in [Agents -> Tasks]
      /\ LatchesOK /\ task[a] = Idling /\ Missing \notin Agents
  BY PullAssumption DEF PullsInv, PullsShape, Begins
<1>2. task' \in [Agents -> Tasks] /\ TasksKept(a) /\ task'[a] = t
  BY <1>1 DEF Begins, TasksKept
<1>3. \A n \in Numbers : latch[n] # a
  BY <1>1 DEF LatchesOK, Idling, Locking
<1>4. t.does \in Locking => t.pull \in Numbers
  BY TaskFields
<1>5. latch' \in [Numbers -> Agents \cup {Missing}]
  BY <1>1, <1>4 DEF Locks
<1>6. ASSUME NEW b \in Agents, task'[b].does \in Locking PROVE latch'[task'[b].pull] = b
  <2>1. CASE b = a
    BY <1>1, <1>2, <1>4, <1>6, <2>1 DEF Locks
  <2>2. CASE b # a
    <3>1. task'[b] = task[b] /\ latch[task[b].pull] = b /\ task[b].pull \in Numbers
      BY <1>1, <1>2, <1>6, <2>2, TaskFields DEF LatchesOK, TasksKept
    <3> QED
      BY <1>1, <1>4, <3>1, <2>2 DEF Locks, LatchFree
  <2> QED
    BY <2>1, <2>2
<1>7. ASSUME NEW n \in Numbers, latch'[n] # Missing
      PROVE  task'[latch'[n]].does \in Locking /\ task'[latch'[n]].pull = n
  <2>1. CASE latch'[n] = latch[n]
    <3>1. latch[n] \in Agents \ {a}
      BY <1>1, <1>3, <1>7, <2>1
    <3> QED
      BY <1>1, <1>2, <1>7, <2>1, <3>1 DEF LatchesOK, TasksKept
  <2>2. CASE latch'[n] # latch[n]
    BY <1>1, <1>2, <1>4, <2>2 DEF Locks
  <2> QED
    BY <2>1, <2>2
<1> QED
  BY <1>2, <1>5, <1>6, <1>7 DEF LatchesOK

\* An execution that ends frees the pull request it holds, if it holds one.
LEMMA TaskEnds ==
    ASSUME PullsInv, NEW a \in Agents, DoneWith(a),
           Unlocks(a) \/ (latch' = latch /\ task[a].does \notin Locking)
    PROVE  /\ latch' \in [Numbers -> Agents \cup {Missing}]
           /\ task' \in [Agents -> Tasks]
           /\ LatchesOK' /\ TasksKept(a) /\ task'[a] = Idling /\ Sound(task[a])'
<1>1. /\ latch \in [Numbers -> Agents \cup {Missing}] /\ task \in [Agents -> Tasks]
      /\ LatchesOK /\ Missing \notin Agents /\ Idling \in Tasks
  BY PullAssumption DEF PullsInv, PullsShape, Tasks
<1>2. task' \in [Agents -> Tasks] /\ TasksKept(a) /\ task'[a] = Idling
  BY <1>1 DEF DoneWith, TasksKept
<1>3. latch' \in [Numbers -> Agents \cup {Missing}]
      /\ \A n \in Numbers : latch'[n] = IF latch[n] = a THEN Missing ELSE latch[n]
  BY <1>1 DEF Unlocks, LatchesOK
<1>4. ASSUME NEW b \in Agents, task'[b].does \in Locking PROVE latch'[task'[b].pull] = b
  <2>1. b # a
    BY <1>2, <1>4 DEF Idling, Locking
  <2>2. task'[b] = task[b] /\ latch[task[b].pull] = b /\ task[b].pull \in Numbers
    BY <1>1, <1>2, <1>4, <2>1, TaskFields DEF LatchesOK, TasksKept
  <2> QED
    BY <1>3, <2>1, <2>2
<1>5. ASSUME NEW n \in Numbers, latch'[n] # Missing
      PROVE  task'[latch'[n]].does \in Locking /\ task'[latch'[n]].pull = n
  BY <1>1, <1>2, <1>3, <1>5 DEF LatchesOK, TasksKept
<1>6. Sound(task[a])'
  BY <1>2 DEF Sound, Idling, Locking
<1> QED
  BY <1>2, <1>3, <1>4, <1>5, <1>6 DEF LatchesOK

(***************************************************************************)
(* Commits.                                                                *)
(***************************************************************************)
\* The decision of an executed draft stays.
ChoicesKept == \A d \in DOMAIN drafts : Ran(d) => drafts'[d].choice = drafts[d].choice

LEMMA CommitsKept ==
    ASSUME PullsInv, drafts' \in Seq(DraftRows), UNCHANGED <<commits, tip>>, DraftsGrow, ChoicesKept
    PROVE  CommitsOK' /\ RunsStoreRevision
<1>1. RunsStoreRevision
  BY DEF RunsStoreRevision, Ran
<1>2. \A d \in DOMAIN drafts : d \in DOMAIN drafts'
  BY DraftsStay DEF PullsInv, PullsShape
<1>3. ASSUME NEW c \in DOMAIN commits, NEW d, d = commits[c].draft, d # 0
      PROVE  /\ Fits(d, drafts[d].pair, commits[c].second, commits[c].first)'
             /\ drafts'[d].choice = commits[c].choice
             /\ drafts'[d].status # "pending"
  <2>1. /\ Fits(d, drafts[d].pair, commits[c].second, commits[c].first)
        /\ drafts[d].choice = commits[c].choice /\ drafts[d].status # "pending"
    BY <1>3 DEF PullsInv, CommitsOK
  <2>2. Ran(d) /\ d \in DOMAIN drafts
    BY <1>3, <2>1 DEF Ran, Fits
  <2> QED
    BY <2>1, <2>2, <1>2 DEF DraftsGrow, ChoicesKept, Fits
<1>4. CommitsOK'
  BY <1>3 DEF PullsInv, CommitsOK
<1> QED
  BY <1>1, <1>4

CommitsGrow == \A c \in DOMAIN commits : c \in DOMAIN commits' /\ commits'[c] = commits[c]

\* A draft whose target is the head of a branch has not been executed: the commit
\* that executed it would be the child of that head.
LEMMA NotRanYet ==
    ASSUME PullsInv, NEW b \in Lines, NEW d \in DOMAIN drafts, tip[b] = drafts[d].target
    PROVE  ~Ran(d)
<1>1. d # 0
  <2>1. drafts \in Seq(DraftRows)
    BY DEF PullsInv, PullsShape
  <2> QED
    BY <2>1, RowsOf
<1>2. ASSUME NEW c \in DOMAIN commits, commits[c].draft = d PROVE FALSE
  <2>1. commits[c].first = drafts[d].target
    BY <1>1, <1>2 DEF PullsInv, CommitsOK, Fits
  <2> QED
    BY <2>1 DEF PullsInv, CommitsOK
<1> QED
  BY <1>2 DEF Ran

LEMMA CommitsExtended ==
    ASSUME PullsInv, NEW b \in Lines, NEW row \in CommitRows, Advances(b, row),
           drafts' \in Seq(DraftRows), DraftsGrow, ChoicesKept,
           <<row.second, row.first>> \in Conflicting => row.choice \in Settling,
           row.draft # 0 => /\ Fits(row.draft, drafts[row.draft].pair, row.second, row.first)
                            /\ drafts'[row.draft].choice = row.choice
                            /\ drafts'[row.draft].status # "pending"
                            /\ drafts[row.draft].revision < drafts'[row.draft].revision
    PROVE  /\ commits' \in Seq(CommitRows) /\ Len(commits') <= MaxCommits
           /\ tip' \in [Lines -> DOMAIN commits']
           /\ CommitsOK' /\ RunsStoreRevision /\ CommitsGrow
           /\ Len(commits) + 1 \in DOMAIN commits' /\ commits'[Len(commits) + 1] = row
<1> DEFINE new == Len(commits) + 1
<1>1. /\ commits \in Seq(CommitRows) /\ tip \in [Lines -> DOMAIN commits] /\ MaxCommits \in Nat
      /\ Len(commits) < MaxCommits /\ tip[b] = row.first
      /\ commits' = Append(commits, row) /\ tip' = [tip EXCEPT ![b] = new]
  BY PullAssumption DEF PullsInv, PullsShape, Advances
<1>2. /\ Len(commits) \in Nat /\ DOMAIN commits = 1..Len(commits)
      /\ \A c \in DOMAIN commits : commits[c].first \in Nat
  <2>1. \A c \in DOMAIN commits : commits[c] \in CommitRows
    BY <1>1, RowsOf
  <2> QED
    BY <1>1, <2>1, RowsOf DEF CommitRows
<1>3. /\ commits' \in Seq(CommitRows) /\ Len(commits') = new /\ DOMAIN commits' = 1..new
      /\ commits'[new] = row /\ \A c \in 1..Len(commits) : commits'[c] = commits[c]
  BY <1>1, AppendRow
<1>4. Len(commits') <= MaxCommits
  BY <1>1, <1>2, <1>3
<1>5. DOMAIN commits \subseteq DOMAIN commits' /\ new \in DOMAIN commits' /\ new \notin DOMAIN commits
  BY <1>2, <1>3
<1>6. tip' \in [Lines -> DOMAIN commits']
  BY <1>1, <1>5
<1>7. CommitsGrow /\ \A c \in DOMAIN commits' : c \in DOMAIN commits \/ c = new
  BY <1>2, <1>3 DEF CommitsGrow
<1>8. \A k \in Lines : tip'[k] = IF k = b THEN new ELSE tip[k]
  BY <1>1
<1>9. \A k \in Lines : tip[k] \in Nat /\ tip[k] <= Len(commits)
  BY <1>1, <1>2
<1>10. \A k, l \in Lines : tip'[k] = tip'[l] => k = l
  BY <1>1, <1>5, <1>8 DEF PullsInv, CommitsOK
<1>11. ASSUME NEW c \in DOMAIN commits', NEW k \in Lines
       PROVE  commits'[c].first # tip'[k] /\ commits'[c].first <= Len(commits')
  <2>1. CASE c \in DOMAIN commits
    <3>1. commits'[c] = commits[c] /\ commits[c].first # tip[k] /\ commits[c].first <= Len(commits)
      BY <2>1, <1>7 DEF CommitsGrow, PullsInv, CommitsOK
    <3> QED
      BY <3>1, <2>1, <1>2, <1>3, <1>8
  <2>2. CASE c = new
    <3>1. commits'[c].first = tip[b] /\ tip[b] <= Len(commits)
      BY <2>2, <1>1, <1>3, <1>9
    <3>2. k # b => tip[k] # tip[b]
      BY DEF PullsInv, CommitsOK
    <3> QED
      BY <3>1, <3>2, <1>2, <1>3, <1>8, <1>9
  <2> QED
    BY <2>1, <2>2, <1>7
<1>12. ASSUME NEW c \in DOMAIN commits', NEW k \in DOMAIN commits',
              commits'[c].first # 0, commits'[k].first = commits'[c].first
       PROVE  k = c
  <2>1. \A j \in DOMAIN commits : commits'[j].first # commits'[new].first
    BY <1>1, <1>3, <1>7 DEF CommitsGrow, PullsInv, CommitsOK
  <2>2. CASE c \in DOMAIN commits /\ k \in DOMAIN commits
    BY <2>2, <1>7, <1>12 DEF CommitsGrow, PullsInv, CommitsOK
  <2> QED
    BY <2>1, <2>2, <1>7, <1>12
<1>13. ASSUME NEW c \in DOMAIN commits',
              <<commits'[c].second, commits'[c].first>> \in Conflicting
       PROVE  commits'[c].choice \in Settling
  <2>1. CASE c \in DOMAIN commits
    BY <2>1, <1>7, <1>13 DEF CommitsGrow, PullsInv, CommitsOK
  <2> QED
    BY <2>1, <1>3, <1>7, <1>13
<1>14. \A d \in DOMAIN drafts : d \in DOMAIN drafts'
  BY DraftsStay DEF PullsInv, PullsShape
<1>15. ASSUME NEW c \in DOMAIN commits', NEW d, d = commits'[c].draft, d # 0
       PROVE  /\ Fits(d, drafts[d].pair, commits[c].second, commits[c].first)'
              /\ drafts'[d].choice = commits'[c].choice
              /\ drafts'[d].status # "pending"
  <2>1. CASE c \in DOMAIN commits
    <3>1. /\ Fits(d, drafts[d].pair, commits[c].second, commits[c].first)
          /\ drafts[d].choice = commits[c].choice /\ drafts[d].status # "pending"
          /\ commits'[c] = commits[c] /\ commits[c].draft = d
      BY <1>7, <1>15, <2>1 DEF CommitsGrow, PullsInv, CommitsOK
    <3>2. Ran(d) /\ d \in DOMAIN drafts
      BY <2>1, <3>1 DEF Ran, Fits
    <3> QED
      BY <3>1, <3>2, <1>14 DEF DraftsGrow, ChoicesKept, Fits
  <2>2. CASE c = new
    BY <1>3, <1>14, <1>15, <2>2 DEF DraftsGrow, Fits
  <2> QED
    BY <2>1, <2>2, <1>7
<1>16. CommitsOK'
  BY <1>10, <1>11, <1>12, <1>13, <1>15 DEF CommitsOK
<1>17. RunsStoreRevision
  <2> SUFFICES ASSUME NEW d \in DOMAIN drafts, Ran(d)', ~Ran(d)
               PROVE  drafts[d].revision < drafts'[d].revision
    BY DEF RunsStoreRevision
  <2>1. PICK c \in DOMAIN commits' : commits'[c].draft = d
    BY DEF Ran
  <2>2. c = new
    BY <2>1, <1>7 DEF CommitsGrow, Ran
  <2>3. d # 0
    <3>1. drafts \in Seq(DraftRows)
      BY DEF PullsInv, PullsShape
    <3> QED
      BY <3>1, RowsOf
  <2> QED
    BY <2>1, <2>2, <2>3, <1>3
<1> QED
  BY <1>3, <1>4, <1>5, <1>6, <1>7, <1>16, <1>17

(***************************************************************************)
(* Pull requests.                                                          *)
(***************************************************************************)
LEMMA PullStays ==
    ASSUME PullsInv, drafts' \in Seq(DraftRows), DraftsGrow, CommitsGrow,
           NEW n \in DOMAIN pulls,
           \/ pulls'[n] = pulls[n]
           \/ pulls'[n] = [pulls[n] EXCEPT !.draft = 0]
    PROVE  PullOK(n)' /\ pulls'[n] = [pulls[n] EXCEPT !.draft = pulls'[n].draft]
<1>1. drafts \in Seq(DraftRows) /\ pulls[n] \in PullRows
  BY RowsOf DEF PullsInv, PullsShape
<1>2. \A d \in DOMAIN drafts : d \in DOMAIN drafts'
  BY <1>1, DraftsStay
<1>3. /\ pulls'[n].pair = pulls[n].pair
      /\ pulls'[n].source = pulls[n].source /\ pulls'[n].target = pulls[n].target
      /\ pulls'[n].status = pulls[n].status /\ pulls'[n].merged = pulls[n].merged
      /\ pulls'[n].draft \in {pulls[n].draft, 0}
  BY <1>1 DEF PullRows
<1>4. PullOK(n)
  BY DEF PullsInv
<1>5. PullOK(n)'
  BY <1>2, <1>3, <1>4 DEF PullOK, Fits, DraftsGrow, CommitsGrow
<1>6. [pulls[n] EXCEPT !.draft = pulls[n].draft] = pulls[n]
  BY <1>1, Zenon DEF PullRows
<1> QED
  BY <1>1, <1>5, <1>6 DEF PullRows

\* A pull request that a holds gets a new row; the others stay.
LEMMA PullReplaced ==
    ASSUME PullsInv, drafts' \in Seq(DraftRows), DraftsGrow, CommitsGrow,
           NEW a \in Agents, NEW n \in DOMAIN pulls, NEW row \in PullRows,
           latch[n] = a, pulls[n].status \notin Finished,
           pulls' = [pulls EXCEPT ![n] = row],
           row.draft # 0 => Fits(row.draft, row.pair, row.source, row.target)',
           row.status = "merged" <=> row.merged # 0,
           row.merged # 0 => /\ row.merged \in DOMAIN commits'
                             /\ commits'[row.merged].first = row.target
                             /\ commits'[row.merged].second = row.source
    PROVE  /\ pulls' \in Seq(PullRows) /\ Len(pulls') <= MaxPulls
           /\ PullsKept(a) /\ \A k \in DOMAIN pulls' : PullOK(k)'
<1>1. pulls \in Seq(PullRows) /\ Len(pulls) <= MaxPulls /\ Len(pulls) \in Nat
  BY RowsOf DEF PullsInv, PullsShape
<1>2. /\ pulls' \in Seq(PullRows) /\ Len(pulls') = Len(pulls) /\ DOMAIN pulls' = DOMAIN pulls
      /\ \A k \in DOMAIN pulls : pulls'[k] = IF k = n THEN row ELSE pulls[k]
  BY <1>1, ReplaceRow
<1>3. PullOK(n)'
  BY <1>2 DEF PullOK
<1>4. \A k \in DOMAIN pulls : k # n => PullOK(k)'
                                       /\ pulls'[k] = [pulls[k] EXCEPT !.draft = pulls'[k].draft]
  BY <1>2, PullStays
<1>5. PullsKept(a)
  BY <1>1, <1>2, <1>4 DEF PullsKept
<1> QED
  BY <1>1, <1>2, <1>3, <1>4, <1>5

\* No pull request changes, but for drafts that are gone.
LEMMA PullsStay ==
    ASSUME PullsInv, drafts' \in Seq(DraftRows), DraftsGrow, CommitsGrow, UNCHANGED pulls, NEW a
    PROVE  /\ pulls' \in Seq(PullRows) /\ Len(pulls') <= MaxPulls
           /\ PullsKept(a) /\ \A k \in DOMAIN pulls' : PullOK(k)'
<1>1. pulls \in Seq(PullRows) /\ Len(pulls) <= MaxPulls /\ Len(pulls) \in Nat
  BY RowsOf DEF PullsInv, PullsShape
<1>2. \A k \in DOMAIN pulls : PullOK(k)' /\ pulls'[k] = [pulls[k] EXCEPT !.draft = pulls'[k].draft]
  BY PullStays
<1> QED
  BY <1>1, <1>2 DEF PullsKept

(***************************************************************************)
(* Drafts.                                                                 *)
(***************************************************************************)
LEMMA DraftsSame ==
    ASSUME PullsInv, UNCHANGED drafts
    PROVE  drafts' \in Seq(DraftRows) /\ Len(drafts') <= MaxDrafts /\ DraftsGrow /\ ChoicesKept
<1>1. drafts \in Seq(DraftRows) /\ Len(drafts) <= MaxDrafts /\ Len(drafts) \in Nat
  BY RowsOf DEF PullsInv, PullsShape
<1>2. \A d \in DOMAIN drafts : drafts[d].revision \in Nat
  <2>1. \A d \in DOMAIN drafts : drafts[d] \in DraftRows
    BY <1>1, RowsOf
  <2> QED
    BY <2>1 DEF DraftRows
<1> QED
  BY <1>1, <1>2 DEF DraftsGrow, ChoicesKept

LEMMA DraftReplaced ==
    ASSUME PullsInv, NEW d \in DOMAIN drafts, NEW row \in DraftRows,
           drafts' = [drafts EXCEPT ![d] = row],
           row.pair = drafts[d].pair, row.source = drafts[d].source,
           row.target = drafts[d].target, drafts[d].revision <= row.revision,
           row.status = "pending" => drafts[d].status = "pending",
           row.choice = drafts[d].choice \/ ~Ran(d)
    PROVE  /\ drafts' \in Seq(DraftRows) /\ Len(drafts') <= MaxDrafts
           /\ DraftsGrow /\ ChoicesKept /\ drafts'[d] = row
<1>1. drafts \in Seq(DraftRows) /\ Len(drafts) <= MaxDrafts /\ Len(drafts) \in Nat
  BY RowsOf DEF PullsInv, PullsShape
<1>2. /\ drafts' \in Seq(DraftRows) /\ Len(drafts') = Len(drafts)
      /\ \A k \in DOMAIN drafts : drafts'[k] = IF k = d THEN row ELSE drafts[k]
  BY <1>1, ReplaceRow
<1>3. \A k \in DOMAIN drafts : drafts[k].revision \in Nat
  <2>1. \A k \in DOMAIN drafts : drafts[k] \in DraftRows
    BY <1>1, RowsOf
  <2> QED
    BY <2>1 DEF DraftRows
<1>4. DraftsGrow
  BY <1>1, <1>2, <1>3 DEF DraftsGrow
<1>5. ChoicesKept
  BY <1>2 DEF ChoicesKept
<1> QED
  BY <1>1, <1>2, <1>4, <1>5

LEMMA DraftAppended ==
    ASSUME PullsInv, Len(drafts) < MaxDrafts,
           NEW pair \in Pairs, NEW s \in Commit, NEW t \in Commit,
           NEW d, d = Len(drafts) + 1,
           drafts' = Append(drafts, NewDraft(pair, s, t))
    PROVE  /\ drafts' \in Seq(DraftRows) /\ Len(drafts') <= MaxDrafts
           /\ DraftsGrow /\ ChoicesKept /\ Fits(d, pair, s, t)'
<1>1. drafts \in Seq(DraftRows) /\ Len(drafts) \in Nat /\ MaxDrafts \in Nat
  BY RowsOf, PullAssumption DEF PullsInv, PullsShape
<1>2. NewDraft(pair, s, t) \in DraftRows
  BY DEF NewDraft, DraftRows
<1>3. /\ drafts' \in Seq(DraftRows) /\ Len(drafts') = Len(drafts) + 1
      /\ DOMAIN drafts' = 1..(Len(drafts) + 1)
      /\ \A k \in 1..Len(drafts) : drafts'[k] = drafts[k]
      /\ drafts'[Len(drafts) + 1] = NewDraft(pair, s, t)
  BY <1>1, <1>2, AppendRow
<1>4. \A k \in DOMAIN drafts : drafts[k].revision \in Nat /\ k \in 1..Len(drafts)
  <2>1. \A k \in DOMAIN drafts : drafts[k] \in DraftRows /\ k \in 1..Len(drafts)
    BY <1>1, RowsOf
  <2> QED
    BY <2>1 DEF DraftRows
<1>5. DraftsGrow
  BY <1>1, <1>3, <1>4 DEF DraftsGrow
<1>6. ChoicesKept
  BY <1>3, <1>4 DEF ChoicesKept
<1>7. Fits(d, pair, s, t)'
  BY <1>1, <1>3 DEF Fits, NewDraft
<1> QED
  BY <1>1, <1>3, <1>5, <1>6, <1>7

(***************************************************************************)
(* Steps.                                                                  *)
(***************************************************************************)
FinishedKept ==
    \A n \in DOMAIN pulls :
        pulls[n].status \in Finished => pulls'[n] = [pulls[n] EXCEPT !.draft = pulls'[n].draft]

\* What every step has to show.
LEMMA PullsStep ==
    ASSUME PullsInv, NEW a, PullsShape', LatchesOK', TasksKept(a),
           a \in Agents => Sound(task[a])',
           DraftsGrow, RunsStoreRevision, PullsKept(a), CommitsOK',
           \A n \in DOMAIN pulls' : PullOK(n)'
    PROVE  PullsInv' /\ FinishedKept
<1>1. \A b \in Agents : Sound(task[b])'
  BY OthersSound
<1>2. FinishedKept
  BY DEF FinishedKept, PullsKept
<1> QED
  BY <1>1, <1>2 DEF PullsInv

LEMMA CommitsSame ==
    ASSUME PullsInv, UNCHANGED <<commits, tip>>
    PROVE  /\ commits' \in Seq(CommitRows) /\ Len(commits') <= MaxCommits
           /\ tip' \in [Lines -> DOMAIN commits'] /\ CommitsGrow
BY DEF PullsInv, PullsShape, CommitsGrow

\* An execution begins: it only reads.
LEMMA BeginStep ==
    ASSUME PullsInv, NEW a \in Agents, NEW t \in Tasks, t # Idling, Begins(a, t),
           \/ t.does \notin Locking /\ latch' = latch
           \/ t.does \in Locking /\ Locks(a, t.pull),
           UNCHANGED <<commits, tip, pulls, drafts>>, Sound(t)
    PROVE  PullsInv' /\ FinishedKept
<1>1. /\ latch' \in [Numbers -> Agents \cup {Missing}]
      /\ task' \in [Agents -> Tasks]
      /\ LatchesOK' /\ TasksKept(a) /\ task'[a] = t
  BY TaskBegins
<1>2. drafts' \in Seq(DraftRows) /\ Len(drafts') <= MaxDrafts /\ DraftsGrow /\ ChoicesKept
  BY DraftsSame
<1>3. CommitsOK' /\ RunsStoreRevision
  BY <1>2, CommitsKept
<1>4. /\ pulls' \in Seq(PullRows) /\ Len(pulls') <= MaxPulls
      /\ PullsKept(a) /\ \A k \in DOMAIN pulls' : PullOK(k)'
  BY <1>2, PullsStay, CommitsSame
<1>5. PullsShape'
  BY <1>1, <1>2, <1>4, CommitsSame DEF PullsShape
<1>6. Sound(task[a])'
  BY <1>1 DEF Sound, Fits, Ran
<1> QED
  BY <1>1, <1>2, <1>3, <1>4, <1>5, <1>6, PullsStep

\* An execution ends and touches no commit and no draft.
LEMMA EndStep ==
    ASSUME PullsInv, NEW a \in Agents, DoneWith(a),
           Unlocks(a) \/ (latch' = latch /\ task[a].does \notin Locking),
           UNCHANGED <<commits, tip>>,
           drafts' \in Seq(DraftRows), Len(drafts') <= MaxDrafts, DraftsGrow, ChoicesKept,
           pulls' \in Seq(PullRows), Len(pulls') <= MaxPulls, PullsKept(a),
           \A k \in DOMAIN pulls' : PullOK(k)'
    PROVE  PullsInv' /\ FinishedKept
<1>1. /\ latch' \in [Numbers -> Agents \cup {Missing}]
      /\ task' \in [Agents -> Tasks]
      /\ LatchesOK' /\ TasksKept(a) /\ Sound(task[a])'
  BY TaskEnds
<1>2. CommitsOK' /\ RunsStoreRevision
  BY CommitsKept
<1>3. PullsShape'
  BY <1>1, CommitsSame DEF PullsShape
<1> QED
  BY <1>1, <1>2, <1>3, PullsStep

\* The same for an execution that makes a commit.
LEMMA CommitStep ==
    ASSUME PullsInv, NEW a \in Agents, DoneWith(a),
           Unlocks(a) \/ (latch' = latch /\ task[a].does \notin Locking),
           commits' \in Seq(CommitRows), Len(commits') <= MaxCommits,
           tip' \in [Lines -> DOMAIN commits'], CommitsOK', RunsStoreRevision,
           drafts' \in Seq(DraftRows), Len(drafts') <= MaxDrafts, DraftsGrow,
           pulls' \in Seq(PullRows), Len(pulls') <= MaxPulls, PullsKept(a),
           \A k \in DOMAIN pulls' : PullOK(k)'
    PROVE  PullsInv' /\ FinishedKept
<1>1. /\ latch' \in [Numbers -> Agents \cup {Missing}]
      /\ task' \in [Agents -> Tasks]
      /\ LatchesOK' /\ TasksKept(a) /\ Sound(task[a])'
  BY TaskEnds
<1>2. PullsShape'
  BY <1>1 DEF PullsShape
<1> QED
  BY <1>1, <1>2, PullsStep

(***************************************************************************)
(* Executions that begin.                                                  *)
(***************************************************************************)
LEMMA TipsAreCommits ==
    ASSUME PullsInv, NEW b \in Lines
    PROVE  tip[b] \in Commit /\ tip[b] # 0
<1>1. commits \in Seq(CommitRows) /\ Len(commits) <= MaxCommits /\ tip[b] \in DOMAIN commits
  BY DEF PullsInv, PullsShape
<1>2. Len(commits) \in Nat /\ DOMAIN commits = 1..Len(commits) /\ MaxCommits \in Nat
  BY <1>1, RowsOf, PullAssumption
<1> QED
  BY <1>1, <1>2 DEF Commit

LEMMA PairsAreLines ==
    ASSUME NEW p \in Pairs
    PROVE  p[1] \in Lines /\ p[2] \in Lines /\ p[1] # p[2]
BY PullAssumption

LEMMA BeginPullKeeps ==
    ASSUME PullsInv, NEW a \in Agents, NEW p \in Pairs, BeginPull(a, p)
    PROVE  PullsInv' /\ FinishedKept
<1>1. PICK t : t = [does |-> "open", pair |-> p, source |-> tip[p[1]], target |-> tip[p[2]]]
  OBVIOUS
<1>2. t \in Tasks /\ t # Idling /\ t.does = "open"
  BY <1>1, TipsAreCommits, PairsAreLines DEF Tasks, Idling
<1>3. Sound(t) /\ t.does \notin Locking
  BY <1>2 DEF Sound, Locking
<1> QED
  BY <1>1, <1>2, <1>3, BeginStep DEF BeginPull

LEMMA BeginReadinessKeeps ==
    ASSUME PullsInv, NEW a \in Agents, NEW n \in Numbers, BeginReadiness(a, n)
    PROVE  PullsInv' /\ FinishedKept
<1>1. n \in DOMAIN pulls /\ pulls[n] \in PullRows /\ pulls[n].pair \in Pairs
  <2>1. n \in DOMAIN pulls /\ pulls \in Seq(PullRows)
    BY DEF PullsInv, PullsShape, BeginReadiness
  <2>2. pulls[n] \in PullRows
    BY <2>1, RowsOf
  <2> QED
    BY <2>1, <2>2 DEF PullRows
<1>2. PICK s \in Commit, k \in Commit : s = tip[pulls[n].pair[1]] /\ k = tip[pulls[n].pair[2]]
  BY <1>1, TipsAreCommits, PairsAreLines
<1>3. PICK d \in Reusable(n, s, k) :
         Begins(a, [does |-> "readiness", pull |-> n, source |-> s, target |-> k, draft |-> d])
  BY <1>2 DEF BeginReadiness
<1>4. d = 0 \/ Fits(d, pulls[n].pair, s, k)
  <2>1. CASE s = pulls[n].source /\ k = pulls[n].target /\ pulls[n].draft # 0
    BY <1>1, <2>1 DEF Reusable, PullsInv, PullOK
  <2>2. CASE ~(s = pulls[n].source /\ k = pulls[n].target /\ pulls[n].draft # 0)
    BY <2>2 DEF Reusable, ReviewedDraft, Fits
  <2> QED
    BY <2>1, <2>2
<1>5. d \in 0..MaxDrafts
  <2>1. drafts \in Seq(DraftRows) /\ Len(drafts) <= MaxDrafts
    BY DEF PullsInv, PullsShape
  <2>2. Len(drafts) \in Nat /\ DOMAIN drafts = 1..Len(drafts) /\ MaxDrafts \in Nat
    BY <2>1, RowsOf, PullAssumption
  <2> QED
    BY <1>4, <2>1, <2>2 DEF Fits
<1>6. PICK t : t = [does |-> "readiness", pull |-> n, source |-> s, target |-> k, draft |-> d]
  OBVIOUS
<1>7. /\ t \in Tasks /\ t # Idling /\ t.does = "readiness" /\ t.pull = n /\ t.draft = d
      /\ t.source = s /\ t.target = k
  BY <1>5, <1>6 DEF Tasks, Idling
<1>8. Sound(t) /\ t.does \in Locking /\ Locks(a, t.pull)
  BY <1>1, <1>4, <1>7 DEF Sound, Locking, BeginReadiness
<1> QED
  BY <1>3, <1>6, <1>7, <1>8, BeginStep DEF BeginReadiness

LEMMA BeginCloseKeeps ==
    ASSUME PullsInv, NEW a \in Agents, NEW n \in Numbers, BeginClose(a, n)
    PROVE  PullsInv' /\ FinishedKept
<1>1. PICK t : t = [does |-> "close", pull |-> n]
  OBVIOUS
<1>2. t \in Tasks /\ t # Idling /\ t.does = "close" /\ t.pull = n
  BY <1>1 DEF Tasks, Idling
<1>3. Sound(t) /\ t.does \in Locking /\ Locks(a, t.pull)
  BY <1>2 DEF Sound, Locking, BeginClose
<1> QED
  BY <1>1, <1>2, <1>3, BeginStep DEF BeginClose

LEMMA ChosenIsChoice ==
    ASSUME NEW given \in Choices \cup {Missing}, NEW stored \in Choices \cup {Missing}
    PROVE  Chosen(given, stored) \in Choices
BY PullAssumption DEF Chosen

LEMMA BeginMergeKeeps ==
    ASSUME PullsInv, NEW a \in Agents, NEW n \in Numbers, NEW given \in Choices \cup {Missing},
           BeginMerge(a, n, given)
    PROVE  PullsInv' /\ FinishedKept
<1>1. n \in DOMAIN pulls /\ pulls[n].draft # 0 /\ Locks(a, n)
      /\ pulls[n].status \notin Finished
  BY DEF BeginMerge, Mergeable, Finished
<1>2. Fits(pulls[n].draft, pulls[n].pair, pulls[n].source, pulls[n].target)
  BY <1>1 DEF PullsInv, PullOK
<1>3. PICK d \in DOMAIN drafts : d = pulls[n].draft
  BY <1>2 DEF Fits
<1>4. drafts[d] \in DraftRows /\ d \in DraftIds
  <2>1. drafts \in Seq(DraftRows) /\ Len(drafts) <= MaxDrafts
    BY DEF PullsInv, PullsShape
  <2>2. /\ Len(drafts) \in Nat /\ DOMAIN drafts = 1..Len(drafts) /\ MaxDrafts \in Nat
        /\ drafts[d] \in DraftRows
    BY <2>1, RowsOf, PullAssumption
  <2> QED
    BY <2>1, <2>2 DEF DraftIds
<1>5. drafts[d].choice \in Choices \cup {Missing}
  BY <1>4 DEF DraftRows
<1>6. PICK c \in Choices : c = Chosen(given, drafts[d].choice)
  BY <1>5, ChosenIsChoice
<1>7. PICK fresh \in BOOLEAN : fresh = (tip[pulls[n].pair[1]] = pulls[n].source
                                        /\ tip[pulls[n].pair[2]] = pulls[n].target)
  BY Zenon
<1>8. PICK t : t = [does |-> "merge", pull |-> n, fresh |-> fresh, draft |-> d, choice |-> c]
  OBVIOUS
<1>9. /\ t \in Tasks /\ t # Idling /\ t.does = "merge" /\ t.pull = n /\ t.draft = d
      /\ t.fresh = fresh /\ t.choice = c
  BY <1>4, <1>8 DEF Tasks, Idling
<1>10. Begins(a, t) /\ (fresh => Settled(pulls[n].source, pulls[n].target, c))
  BY <1>3, <1>6, <1>7, <1>8 DEF BeginMerge
<1>11. Sound(t) /\ t.does \in Locking /\ Locks(a, t.pull)
  BY <1>1, <1>2, <1>3, <1>9, <1>10 DEF Sound, Locking
<1> QED
  BY <1>9, <1>10, <1>11, BeginStep DEF BeginMerge

LEMMA BeginOnDraftKeeps ==
    ASSUME PullsInv, NEW a \in Agents, NEW d \in DraftIds, NEW given \in Choices \cup {Missing},
           NEW kind \in {"decide", "commit", "abort"}, BeginOnDraft(a, d, given, kind)
    PROVE  PullsInv' /\ FinishedKept
<1>1. d \in DOMAIN drafts /\ drafts[d].status = "pending"
  BY DEF BeginOnDraft
<1>2. /\ drafts[d].choice \in Choices \cup {Missing} /\ drafts[d].revision \in Nat
  <2>1. drafts \in Seq(DraftRows)
    BY DEF PullsInv, PullsShape
  <2>2. drafts[d] \in DraftRows
    BY <1>1, <2>1, RowsOf
  <2> QED
    BY <2>2 DEF DraftRows
<1>3. PICK r \in Nat : r = IF kind = "decide" THEN drafts[d].revision ELSE 0
  BY <1>2
<1>4. PICK c \in Choices \cup {Missing} :
         c = IF kind = "abort" THEN Missing ELSE Chosen(given, drafts[d].choice)
  BY <1>2, ChosenIsChoice
<1>5. PICK t : t = [does |-> kind, draft |-> d, revision |-> r, choice |-> c]
  OBVIOUS
<1>6. /\ t \in Tasks /\ t # Idling /\ t.does = kind /\ t.draft = d
      /\ t.revision = r /\ t.choice = c
  BY <1>5 DEF Tasks, Idling
<1>7. Begins(a, t) /\ (kind = "commit" => Settled(drafts[d].source, drafts[d].target, c))
  BY <1>3, <1>4, <1>5 DEF BeginOnDraft
<1>8. ~Ran(d)
  <2>1. drafts \in Seq(DraftRows)
    BY DEF PullsInv, PullsShape
  <2>2. d # 0
    BY <1>1, <2>1, RowsOf
  <2> QED
    BY <1>1, <2>2 DEF PullsInv, CommitsOK, Ran
<1>9. kind # "abort" => c \in Choices
  BY <1>2, <1>4, ChosenIsChoice
<1>10. Sound(t) /\ t.does \notin Locking
  BY <1>1, <1>2, <1>3, <1>6, <1>7, <1>8, <1>9 DEF Sound, Locking
<1> QED
  BY <1>6, <1>7, <1>10, BeginStep DEF BeginOnDraft

(***************************************************************************)
(* Executions that end.                                                    *)
(***************************************************************************)
LEMMA OpenPullKeeps ==
    ASSUME PullsInv, NEW a \in Agents, NEW status \in {"draft", "open"}, OpenPull(a, status)
    PROVE  PullsInv' /\ FinishedKept
<1>1. PICK t \in Tasks : t = task[a]
  BY DEF PullsInv, PullsShape
<1>2. /\ t.does = "open" /\ t.pair \in Pairs /\ t.source \in Commit /\ t.target \in Commit
  BY <1>1, TaskFields DEF OpenPull
<1>3. PICK row : row = [status |-> status, pair |-> t.pair, source |-> t.source,
                        target |-> t.target, draft |-> 0, waits |-> "other", merged |-> 0]
  OBVIOUS
<1>4. row \in PullRows /\ row.draft = 0 /\ row.status # "merged" /\ row.merged = 0
  BY <1>2, <1>3, PullAssumption DEF PullRows, Active, Finished
<1>5. pulls' = Append(pulls, row) /\ Len(pulls) < MaxPulls
  BY <1>1, <1>3 DEF OpenPull
<1>6. pulls \in Seq(PullRows) /\ Len(pulls) \in Nat /\ MaxPulls \in Nat
      /\ DOMAIN pulls = 1..Len(pulls)
  BY RowsOf, PullAssumption DEF PullsInv, PullsShape
<1>7. /\ pulls' \in Seq(PullRows) /\ Len(pulls') = Len(pulls) + 1
      /\ DOMAIN pulls' = 1..(Len(pulls) + 1)
      /\ \A k \in 1..Len(pulls) : pulls'[k] = pulls[k]
      /\ pulls'[Len(pulls) + 1] = row
  BY <1>4, <1>5, <1>6, AppendRow
<1>8. drafts' \in Seq(DraftRows) /\ Len(drafts') <= MaxDrafts /\ DraftsGrow /\ ChoicesKept
  BY DraftsSame DEF OpenPull
<1>9. CommitsGrow
  BY CommitsSame DEF OpenPull
<1>10. ASSUME NEW k \in DOMAIN pulls
       PROVE  PullOK(k)' /\ pulls'[k] = [pulls[k] EXCEPT !.draft = pulls'[k].draft]
  BY <1>6, <1>7, <1>8, <1>9, PullStays
<1>11. ASSUME NEW k, k = Len(pulls) + 1 PROVE PullOK(k)'
  BY <1>4, <1>7, <1>11 DEF PullOK
<1>12. \A k \in DOMAIN pulls' : PullOK(k)'
  <2>1. \A k \in DOMAIN pulls' : k \in DOMAIN pulls \/ k = Len(pulls) + 1
    BY <1>6, <1>7
  <2> QED
    BY <2>1, <1>10, <1>11
<1>13. PullsKept(a) /\ Len(pulls') <= MaxPulls
  BY <1>5, <1>6, <1>7, <1>10 DEF PullsKept
<1>14. UNCHANGED <<commits, tip, latch>> /\ DoneWith(a) /\ task[a].does \notin Locking
  BY <1>1, <1>2 DEF OpenPull, Locking
<1> QED
  BY <1>7, <1>8, <1>12, <1>13, <1>14, EndStep

\* The pull request of an execution that holds it.
LEMMA HeldPull ==
    ASSUME PullsInv, NEW a \in Agents, task[a].does \in Locking
    PROVE  /\ task[a].pull \in DOMAIN pulls /\ latch[task[a].pull] = a
           /\ pulls[task[a].pull] \in PullRows /\ pulls[task[a].pull].status \notin Finished
           /\ pulls[task[a].pull].merged = 0 /\ PullOK(task[a].pull)
<1>1. /\ task[a].pull \in DOMAIN pulls /\ latch[task[a].pull] = a
      /\ pulls[task[a].pull].status \notin Finished
  BY DEF PullsInv, LatchesOK, Sound
<1>2. pulls \in Seq(PullRows)
  BY DEF PullsInv, PullsShape
<1>3. pulls[task[a].pull] \in PullRows
  BY <1>1, <1>2, RowsOf
<1>4. PullOK(task[a].pull)
  BY <1>1 DEF PullsInv
<1> QED
  BY <1>1, <1>3, <1>4 DEF PullOK, Finished

LEMMA FinishCloseKeeps ==
    ASSUME PullsInv, NEW a \in Agents, FinishClose(a)
    PROVE  PullsInv' /\ FinishedKept
<1>1. task[a].does \in Locking
  BY DEF FinishClose, Locking
<1>2. PICK n \in DOMAIN pulls : n = task[a].pull
  BY <1>1, HeldPull
<1>3. /\ latch[n] = a /\ pulls[n] \in PullRows /\ pulls[n].status \notin Finished
      /\ pulls[n].merged = 0 /\ PullOK(n)
  BY <1>1, <1>2, HeldPull
<1>4. PICK row : row = [pulls[n] EXCEPT !.status = "closed"]
  OBVIOUS
<1>5. /\ row \in PullRows /\ row.status = "closed" /\ row.merged = 0
      /\ row.draft = pulls[n].draft /\ row.pair = pulls[n].pair
      /\ row.source = pulls[n].source /\ row.target = pulls[n].target
  BY <1>3, <1>4 DEF PullRows, Finished
<1>6. pulls' = [pulls EXCEPT ![n] = row]
  BY <1>2, <1>4 DEF FinishClose
<1>7. drafts' \in Seq(DraftRows) /\ Len(drafts') <= MaxDrafts /\ DraftsGrow /\ ChoicesKept
  BY DraftsSame DEF FinishClose
<1>8. CommitsGrow /\ UNCHANGED <<commits, tip, drafts>>
  BY CommitsSame DEF FinishClose
<1>9. row.draft # 0 => Fits(row.draft, row.pair, row.source, row.target)'
  BY <1>3, <1>5, <1>8 DEF PullOK, Fits
<1>10. /\ pulls' \in Seq(PullRows) /\ Len(pulls') <= MaxPulls
       /\ PullsKept(a) /\ \A k \in DOMAIN pulls' : PullOK(k)'
  BY <1>3, <1>5, <1>6, <1>7, <1>8, <1>9, PullReplaced
<1> QED
  BY <1>7, <1>8, <1>10, EndStep DEF FinishClose

LEMMA RefuseStaleKeeps ==
    ASSUME PullsInv, NEW a \in Agents, RefuseStale(a)
    PROVE  PullsInv' /\ FinishedKept
<1>1. task[a].does \in Locking
  BY DEF RefuseStale, Locking
<1>2. PICK n \in DOMAIN pulls : n = task[a].pull
  BY <1>1, HeldPull
<1>3. /\ latch[n] = a /\ pulls[n] \in PullRows /\ pulls[n].status \notin Finished
      /\ pulls[n].merged = 0
  BY <1>1, <1>2, HeldPull
<1>4. PICK row : row = [pulls[n] EXCEPT !.status = "blocked", !.draft = 0, !.waits = "other"]
  OBVIOUS
<1>5. row \in PullRows /\ row.status = "blocked" /\ row.merged = 0 /\ row.draft = 0
  <2>1. 0 \in 0..MaxDrafts
    BY PullAssumption
  <2> QED
    BY <1>3, <1>4, <2>1 DEF PullRows, Active
<1>6. pulls' = [pulls EXCEPT ![n] = row]
  BY <1>2, <1>4 DEF RefuseStale
<1>7. drafts' \in Seq(DraftRows) /\ Len(drafts') <= MaxDrafts /\ DraftsGrow /\ ChoicesKept
  BY DraftsSame DEF RefuseStale
<1>8. CommitsGrow /\ UNCHANGED <<commits, tip>>
  BY CommitsSame DEF RefuseStale
<1>9. /\ pulls' \in Seq(PullRows) /\ Len(pulls') <= MaxPulls
      /\ PullsKept(a) /\ \A k \in DOMAIN pulls' : PullOK(k)'
  BY <1>3, <1>5, <1>6, <1>7, <1>8, PullReplaced
<1> QED
  BY <1>7, <1>8, <1>9, EndStep DEF RefuseStale

LEMMA ReadinessWrites ==
    ASSUME PullsInv, NEW a \in Agents, task[a].does = "readiness",
           drafts' \in Seq(DraftRows), DraftsGrow, CommitsGrow,
           NEW n, n = task[a].pull, NEW row \in PullRows,
           row.status # "merged", row.merged = 0,
           row.draft # 0 => Fits(row.draft, row.pair, row.source, row.target)',
           pulls' = [pulls EXCEPT ![n] = row]
    PROVE  /\ pulls' \in Seq(PullRows) /\ Len(pulls') <= MaxPulls
           /\ PullsKept(a) /\ \A k \in DOMAIN pulls' : PullOK(k)'
<1>1. task[a].does \in Locking
  BY DEF Locking
<1>2. /\ n \in DOMAIN pulls /\ latch[n] = a /\ pulls[n] \in PullRows
      /\ pulls[n].status \notin Finished
  BY <1>1, HeldPull
<1>3. row.status = "merged" <=> row.merged # 0
  OBVIOUS
<1> QED
  BY <1>2, <1>3, PullReplaced

LEMMA FinishReadinessKeeps ==
    ASSUME PullsInv, NEW a \in Agents, FinishReadiness(a)
    PROVE  PullsInv' /\ FinishedKept
<1>1. PICK t \in Tasks : t = task[a]
  BY DEF PullsInv, PullsShape
<1>2. /\ t.does = "readiness" /\ t.source \in Commit /\ t.target \in Commit
      /\ t.draft \in 0..MaxDrafts /\ task[a].does \in Locking
  BY <1>1, TaskFields DEF FinishReadiness, Locking
<1>3. /\ pulls[t.pull] \in PullRows /\ pulls[t.pull].merged = 0
      /\ \E pair \in Pairs : pair = pulls[t.pull].pair
  BY <1>1, <1>2, HeldPull DEF PullRows
<1> PICK pair \in Pairs : pair = pulls[t.pull].pair
  BY <1>3
<1>4. t.draft # 0 => Fits(t.draft, pair, t.source, t.target)
  BY <1>1, <1>2, <1>3 DEF PullsInv, Sound
<1>5. CommitsGrow /\ UNCHANGED <<commits, tip>> /\ DoneWith(a) /\ Unlocks(a)
  BY CommitsSame DEF FinishReadiness
<1>6. Len(drafts) \in Nat /\ DOMAIN drafts = 1..Len(drafts) /\ MaxDrafts \in Nat
  BY RowsOf, PullAssumption DEF PullsInv, PullsShape
\* A draft that stays, a new one, or none is what the pull request names.
<1>7. ASSUME NEW d \in 0..MaxDrafts, NEW choice, Concludes(t.pull, t, d, choice),
             drafts' \in Seq(DraftRows), Len(drafts') <= MaxDrafts, DraftsGrow, ChoicesKept,
             d # 0 => Fits(d, pair, t.source, t.target)'
      PROVE  PullsInv' /\ FinishedKept
  <2>1. PICK status \in {"ready", "blocked"}, waits \in {"nothing", "decision", "other"} :
           pulls' = [pulls EXCEPT ![t.pull] =
                        [@ EXCEPT !.source = t.source, !.target = t.target, !.draft = d,
                                  !.status = status, !.waits = waits]]
    BY <1>7, Zenon DEF Concludes
  <2>2. PICK row : row = [pulls[t.pull] EXCEPT !.source = t.source, !.target = t.target,
                                               !.draft = d, !.status = status, !.waits = waits]
    OBVIOUS
  <2>3. pulls' = [pulls EXCEPT ![t.pull] = row]
    BY <2>1, <2>2
  <2>4. /\ row \in PullRows /\ row.status # "merged" /\ row.merged = 0 /\ row.draft = d
        /\ row.pair = pair /\ row.source = t.source /\ row.target = t.target
    BY <1>2, <1>3, <2>2 DEF PullRows, Active
  <2>5. row.draft # 0 => Fits(row.draft, row.pair, row.source, row.target)'
    BY <1>7, <2>4 DEF Fits
  <2>6. /\ pulls' \in Seq(PullRows) /\ Len(pulls') <= MaxPulls
        /\ PullsKept(a) /\ \A k \in DOMAIN pulls' : PullOK(k)'
    BY <1>1, <1>2, <1>5, <1>7, <2>3, <2>4, <2>5, ReadinessWrites
  <2> QED
    BY <1>5, <1>7, <2>6, EndStep
<1>8. CASE /\ t.draft # 0 /\ Concludes(t.pull, t, t.draft, drafts[t.draft].choice)
           /\ UNCHANGED drafts
  <2>1. drafts' \in Seq(DraftRows) /\ Len(drafts') <= MaxDrafts /\ DraftsGrow /\ ChoicesKept
    BY <1>8, DraftsSame
  <2>2. Fits(t.draft, pair, t.source, t.target)'
    BY <1>4, <1>8 DEF Fits
  <2> QED
    BY <1>2, <1>7, <1>8, <2>1, <2>2
<1>9. ASSUME t.draft = 0, Len(drafts) < MaxDrafts,
             drafts' = Append(drafts, NewDraft(pulls[t.pull].pair, t.source, t.target)),
             NEW d, d = Len(drafts) + 1
      PROVE  /\ drafts' \in Seq(DraftRows) /\ Len(drafts') <= MaxDrafts
             /\ DraftsGrow /\ ChoicesKept /\ Fits(d, pair, t.source, t.target)'
  BY <1>2, <1>3, <1>9, DraftAppended
<1>10. CASE /\ t.draft = 0 /\ Len(drafts) < MaxDrafts
            /\ drafts' = Append(drafts, NewDraft(pulls[t.pull].pair, t.source, t.target))
            /\ Concludes(t.pull, t, Len(drafts) + 1, Missing)
  <2>1. PICK d \in 0..MaxDrafts : d = Len(drafts) + 1
    BY <1>6, <1>10
  <2>2. /\ drafts' \in Seq(DraftRows) /\ Len(drafts') <= MaxDrafts
        /\ DraftsGrow /\ ChoicesKept /\ Fits(d, pair, t.source, t.target)'
    BY <1>9, <1>10, <2>1
  <2> QED
    BY <1>7, <1>10, <2>1, <2>2
<1>11. CASE /\ pulls' = [pulls EXCEPT ![t.pull] =
                    [@ EXCEPT !.source = t.source, !.target = t.target, !.draft = 0,
                              !.status = "blocked", !.waits = "other"]]
            /\ \/ UNCHANGED drafts
               \/ /\ t.draft = 0 /\ Len(drafts) < MaxDrafts
                  /\ drafts' = Append(drafts, NewDraft(pulls[t.pull].pair, t.source, t.target))
  <2>1. drafts' \in Seq(DraftRows) /\ Len(drafts') <= MaxDrafts /\ DraftsGrow /\ ChoicesKept
    <3>1. PICK d : d = Len(drafts) + 1
      OBVIOUS
    <3> QED
      BY <1>9, <1>11, <3>1, DraftsSame
  <2>2. PICK d \in 0..MaxDrafts : d = 0
    BY <1>6
  <2>3. PICK status \in {"ready", "blocked"}, waits \in {"nothing", "decision", "other"} :
           status = "blocked" /\ waits = "other"
    OBVIOUS
  <2>4. PICK row : row = [pulls[t.pull] EXCEPT !.source = t.source, !.target = t.target,
                                               !.draft = d, !.status = status, !.waits = waits]
    OBVIOUS
  <2>5. pulls' = [pulls EXCEPT ![t.pull] = row]
    BY <1>11, <2>2, <2>3, <2>4
  <2>6. row \in PullRows /\ row.status # "merged" /\ row.merged = 0 /\ row.draft = 0
    BY <1>2, <1>3, <2>2, <2>4 DEF PullRows, Active
  <2>7. /\ pulls' \in Seq(PullRows) /\ Len(pulls') <= MaxPulls
        /\ PullsKept(a) /\ \A k \in DOMAIN pulls' : PullOK(k)'
    BY <1>1, <1>2, <1>5, <2>1, <2>5, <2>6, ReadinessWrites
  <2> QED
    BY <1>5, <2>1, <2>7, EndStep
<1> QED
  BY <1>1, <1>8, <1>10, <1>11 DEF FinishReadiness

LEMMA DraftRow ==
    ASSUME PullsInv, NEW d \in DOMAIN drafts
    PROVE  drafts[d] \in DraftRows /\ d \in DraftIds /\ d # 0
<1>1. drafts \in Seq(DraftRows) /\ Len(drafts) <= MaxDrafts
  BY DEF PullsInv, PullsShape
<1>2. /\ Len(drafts) \in Nat /\ DOMAIN drafts = 1..Len(drafts) /\ MaxDrafts \in Nat
      /\ drafts[d] \in DraftRows
  BY <1>1, RowsOf, PullAssumption
<1> QED
  BY <1>1, <1>2 DEF DraftIds

\* The draft of an execution that makes a commit on the branch b.
LEMMA Execution ==
    ASSUME PullsInv, NEW d \in DOMAIN drafts, NEW c \in Choices, NEW b \in Lines,
           Settled(drafts[d].source, drafts[d].target, c),
           NEW row, row = Made(drafts[d].target, drafts[d].source, d, c),
           Advances(b, row), Executed(d, c)
    PROVE  /\ drafts' \in Seq(DraftRows) /\ Len(drafts') <= MaxDrafts /\ DraftsGrow
           /\ commits' \in Seq(CommitRows) /\ Len(commits') <= MaxCommits
           /\ tip' \in [Lines -> DOMAIN commits']
           /\ CommitsOK' /\ RunsStoreRevision /\ CommitsGrow
           /\ Len(commits) + 1 \in DOMAIN commits' /\ commits'[Len(commits) + 1] = row
<1>1. drafts[d] \in DraftRows /\ d \in DraftIds /\ d # 0
  BY DraftRow
<1>2. /\ row.first = drafts[d].target /\ row.second = drafts[d].source
      /\ row.draft = d /\ row.choice = c
  BY DEF Made
<1>3. ~Ran(d)
  <2>1. tip[b] = drafts[d].target
    BY <1>2 DEF Advances
  <2> QED
    BY <2>1, NotRanYet
<1>4. PICK new : new = [drafts[d] EXCEPT !.choice = c, !.revision = drafts[d].revision + 1,
                                         !.status = "committed"]
  OBVIOUS
<1>5. /\ new \in DraftRows /\ new.pair = drafts[d].pair /\ new.source = drafts[d].source
      /\ new.target = drafts[d].target /\ new.revision = drafts[d].revision + 1
      /\ new.status = "committed" /\ new.choice = c /\ drafts[d].revision \in Nat
  <2>1. PICK old \in DraftRows : old = drafts[d]
    BY <1>1
  <2>2. old.revision \in Nat /\ old.revision + 1 \in Nat
    BY DEF DraftRows
  <2>3. new = [old EXCEPT !.choice = c, !.revision = old.revision + 1, !.status = "committed"]
    BY <1>4, <2>1
  <2>4. /\ new \in DraftRows /\ new.pair = old.pair /\ new.source = old.source
        /\ new.target = old.target /\ new.revision = old.revision + 1
        /\ new.status = "committed" /\ new.choice = c
    BY <2>2, <2>3 DEF DraftRows
  <2> QED
    BY <2>1, <2>2, <2>4
<1>6. drafts' = [drafts EXCEPT ![d] = new]
  <2>1. [Decide(d, c) EXCEPT !.status = "committed"] = new
    BY <1>1, <1>4 DEF Decide, DraftRows
  <2> QED
    BY <2>1 DEF Executed
<1>7. drafts[d].revision <= new.revision /\ (new.status = "pending" => drafts[d].status = "pending")
  BY <1>5
<1>8. /\ drafts' \in Seq(DraftRows) /\ Len(drafts') <= MaxDrafts
      /\ DraftsGrow /\ ChoicesKept /\ drafts'[d] = new
  BY <1>3, <1>5, <1>6, <1>7, DraftReplaced
<1>9. row \in CommitRows
  <2>1. drafts[d].target \in 0..MaxCommits /\ drafts[d].source \in 0..MaxCommits
    <3>1. drafts[d].target \in Commit /\ drafts[d].source \in Commit
      BY <1>1 DEF DraftRows
    <3> QED
      BY <3>1, PullAssumption DEF Commit
  <2>2. d \in 0..MaxDrafts
    BY <1>1, PullAssumption DEF DraftIds
  <2> QED
    BY <2>1, <2>2 DEF Made, CommitRows
<1>10. <<row.second, row.first>> \in Conflicting => row.choice \in Settling
  BY <1>2 DEF Settled
<1>11. Fits(row.draft, drafts[row.draft].pair, row.second, row.first)
  BY <1>2 DEF Fits
<1>12. drafts'[row.draft].choice = row.choice /\ drafts'[row.draft].status # "pending"
       /\ drafts[row.draft].revision < drafts'[row.draft].revision
  BY <1>2, <1>5, <1>8
<1> QED
  BY <1>8, <1>9, <1>10, <1>11, <1>12, CommitsExtended

LEMMA FinishMergeKeeps ==
    ASSUME PullsInv, NEW a \in Agents, FinishMerge(a)
    PROVE  PullsInv' /\ FinishedKept
<1>1. PICK t \in Tasks : t = task[a]
  BY DEF PullsInv, PullsShape
<1>2. t.does = "merge" /\ t.fresh /\ task[a].does \in Locking /\ t.choice \in Choices
  BY <1>1, TaskFields DEF FinishMerge, Locking
<1>3. PICK n \in DOMAIN pulls : n = t.pull
  BY <1>1, <1>2, HeldPull
<1>4. /\ latch[n] = a /\ pulls[n] \in PullRows /\ pulls[n].status \notin Finished
      /\ pulls[n].pair \in Pairs
  BY <1>1, <1>2, <1>3, HeldPull DEF PullRows
<1>5. /\ Fits(t.draft, pulls[n].pair, pulls[n].source, pulls[n].target)
      /\ Settled(pulls[n].source, pulls[n].target, t.choice)
  BY <1>1, <1>2, <1>3 DEF PullsInv, Sound
<1>6. PICK d \in DOMAIN drafts : d = t.draft
  BY <1>5 DEF Fits
<1>7. /\ drafts[d].pair = pulls[n].pair /\ drafts[d].source = pulls[n].source
      /\ drafts[d].target = pulls[n].target
  BY <1>5, <1>6 DEF Fits
<1>8. PICK made : made = Made(drafts[d].target, drafts[d].source, d, t.choice)
  OBVIOUS
<1>9. PICK b \in Lines : b = pulls[n].pair[2]
  BY <1>4, PairsAreLines
<1>10. Advances(b, made) /\ Executed(d, t.choice)
  BY <1>1, <1>3, <1>6, <1>7, <1>8, <1>9 DEF FinishMerge
<1>11. Settled(drafts[d].source, drafts[d].target, t.choice)
  BY <1>5, <1>7
<1>12. /\ drafts' \in Seq(DraftRows) /\ Len(drafts') <= MaxDrafts /\ DraftsGrow
       /\ commits' \in Seq(CommitRows) /\ Len(commits') <= MaxCommits
       /\ tip' \in [Lines -> DOMAIN commits']
       /\ CommitsOK' /\ RunsStoreRevision /\ CommitsGrow
       /\ Len(commits) + 1 \in DOMAIN commits' /\ commits'[Len(commits) + 1] = made
  BY <1>2, <1>8, <1>10, <1>11, Execution
<1>13. PICK m \in DOMAIN commits' : m = Len(commits) + 1
  BY <1>12
<1>14. m \in 0..MaxCommits /\ m # 0
  <2>1. /\ Len(commits') \in Nat /\ DOMAIN commits' = 1..Len(commits')
    BY <1>12, RowsOf
  <2> QED
    BY <1>12, <2>1, PullAssumption
<1>15. PICK row : row = [pulls[n] EXCEPT !.status = "merged", !.merged = m]
  OBVIOUS
<1>16. /\ row \in PullRows /\ row.status = "merged" /\ row.merged = m /\ row.draft = pulls[n].draft
       /\ row.pair = pulls[n].pair /\ row.source = pulls[n].source
       /\ row.target = pulls[n].target
  BY <1>4, <1>14, <1>15 DEF PullRows, Finished
<1>17. pulls' = [pulls EXCEPT ![n] = row]
  BY <1>1, <1>3, <1>13, <1>15 DEF FinishMerge
<1>18. commits'[row.merged].first = row.target /\ commits'[row.merged].second = row.source
  BY <1>7, <1>8, <1>12, <1>13, <1>16 DEF Made
<1>19. row.draft # 0 => Fits(row.draft, row.pair, row.source, row.target)'
  <2> SUFFICES ASSUME row.draft # 0 PROVE Fits(row.draft, row.pair, row.source, row.target)'
    OBVIOUS
  <2>1. Fits(row.draft, row.pair, row.source, row.target)
    BY <1>16 DEF PullsInv, PullOK
  <2>2. row.draft \in DOMAIN drafts'
    BY <1>12, <2>1, DraftsStay DEF PullsInv, PullsShape, Fits
  <2> QED
    BY <1>12, <2>1, <2>2 DEF Fits, DraftsGrow
<1>20. /\ pulls' \in Seq(PullRows) /\ Len(pulls') <= MaxPulls
       /\ PullsKept(a) /\ \A k \in DOMAIN pulls' : PullOK(k)'
  BY <1>4, <1>12, <1>13, <1>14, <1>16, <1>17, <1>18, <1>19, PullReplaced
<1>21. DoneWith(a) /\ Unlocks(a)
  BY DEF FinishMerge
<1> QED
  BY <1>12, <1>20, <1>21, CommitStep

LEMMA CommitDraftKeeps ==
    ASSUME PullsInv, NEW a \in Agents, CommitDraft(a)
    PROVE  PullsInv' /\ FinishedKept
<1>1. PICK t \in Tasks : t = task[a]
  BY DEF PullsInv, PullsShape
<1>2. t.does = "commit" /\ task[a].does \notin Locking
  BY <1>1 DEF CommitDraft, Locking
<1>3. /\ t.draft \in DOMAIN drafts /\ t.choice \in Choices
      /\ Settled(drafts[t.draft].source, drafts[t.draft].target, t.choice)
  BY <1>1, <1>2 DEF PullsInv, Sound
<1>4. PICK d \in DOMAIN drafts : d = t.draft
  BY <1>3
<1>5. PICK b \in Lines : b = drafts[d].pair[2]
  <2>1. drafts[d].pair \in Pairs
    BY DraftRow DEF DraftRows
  <2> QED
    BY <2>1, PairsAreLines
<1>6. PICK made : made = Made(drafts[d].target, drafts[d].source, d, t.choice)
  OBVIOUS
<1>7. Advances(b, made) /\ Executed(d, t.choice)
  BY <1>1, <1>4, <1>5, <1>6 DEF CommitDraft
<1>8. /\ drafts' \in Seq(DraftRows) /\ Len(drafts') <= MaxDrafts /\ DraftsGrow
      /\ commits' \in Seq(CommitRows) /\ Len(commits') <= MaxCommits
      /\ tip' \in [Lines -> DOMAIN commits']
      /\ CommitsOK' /\ RunsStoreRevision /\ CommitsGrow
  BY <1>3, <1>4, <1>6, <1>7, Execution
<1>9. /\ pulls' \in Seq(PullRows) /\ Len(pulls') <= MaxPulls
      /\ PullsKept(a) /\ \A k \in DOMAIN pulls' : PullOK(k)'
  BY <1>8, PullsStay DEF CommitDraft
<1>10. DoneWith(a) /\ latch' = latch
  BY DEF CommitDraft
<1> QED
  BY <1>2, <1>8, <1>9, <1>10, CommitStep

LEMMA StoreDecisionKeeps ==
    ASSUME PullsInv, NEW a \in Agents, StoreDecision(a)
    PROVE  PullsInv' /\ FinishedKept
<1>1. PICK t \in Tasks : t = task[a]
  BY DEF PullsInv, PullsShape
<1>2. t.does = "decide" /\ task[a].does \notin Locking
  BY <1>1 DEF StoreDecision, Locking
<1>3. /\ t.draft \in DOMAIN drafts /\ t.choice \in Choices /\ t.revision \in Nat
      /\ Ran(t.draft) => t.revision < drafts[t.draft].revision
  BY <1>1, <1>2, TaskFields DEF PullsInv, Sound
<1>4. PICK d \in DOMAIN drafts : d = t.draft
  BY <1>3
\* A decision read before an execution names an older revision.
<1>5. ~Ran(d)
  BY <1>1, <1>3, <1>4 DEF StoreDecision, RevisionHolds
<1>6. PICK old \in DraftRows : old = drafts[d]
  BY DraftRow
<1>7. PICK new : new = [old EXCEPT !.choice = t.choice, !.revision = old.revision + 1]
  OBVIOUS
<1>8. /\ new \in DraftRows /\ new.pair = old.pair /\ new.source = old.source
      /\ new.target = old.target /\ old.revision <= new.revision
      /\ new.status = old.status
  <2>1. old.revision \in Nat /\ old.revision + 1 \in Nat
    BY DEF DraftRows
  <2>2. /\ new \in DraftRows /\ new.pair = old.pair /\ new.source = old.source
        /\ new.target = old.target /\ new.revision = old.revision + 1
        /\ new.status = old.status
    BY <1>3, <1>7, <2>1 DEF DraftRows
  <2> QED
    BY <2>1, <2>2
<1>9. drafts' = [drafts EXCEPT ![d] = new]
  BY <1>1, <1>4, <1>6, <1>7 DEF StoreDecision, Decide
<1>10. /\ drafts' \in Seq(DraftRows) /\ Len(drafts') <= MaxDrafts /\ DraftsGrow /\ ChoicesKept
  BY <1>5, <1>6, <1>8, <1>9, DraftReplaced
<1>11. /\ UNCHANGED <<commits, tip>> /\ DoneWith(a) /\ latch' = latch /\ UNCHANGED pulls
       /\ CommitsGrow
  BY CommitsSame DEF StoreDecision
<1>12. /\ pulls' \in Seq(PullRows) /\ Len(pulls') <= MaxPulls
       /\ PullsKept(a) /\ \A k \in DOMAIN pulls' : PullOK(k)'
  BY <1>10, <1>11, PullsStay
<1> QED
  BY <1>2, <1>10, <1>11, <1>12, EndStep

LEMMA StatusRow ==
    ASSUME NEW old \in DraftRows, NEW status \in {"cancelled", "deleted"},
           NEW new, new = [old EXCEPT !.status = status]
    PROVE  /\ new \in DraftRows /\ new.pair = old.pair /\ new.source = old.source
           /\ new.target = old.target /\ new.revision = old.revision /\ new.choice = old.choice
           /\ new.status # "pending" /\ old.revision <= new.revision
<1>1. /\ new \in DraftRows /\ new.pair = old.pair /\ new.source = old.source
      /\ new.target = old.target /\ new.revision = old.revision /\ new.choice = old.choice
      /\ new.status # "pending" /\ old.revision \in Nat
  BY DEF DraftRows
<1> QED
  BY <1>1

LEMMA AbortDraftKeeps ==
    ASSUME PullsInv, NEW a \in Agents, AbortDraft(a)
    PROVE  PullsInv' /\ FinishedKept
<1>1. task[a].does = "abort" /\ task[a].does \notin Locking
  BY DEF AbortDraft, Locking
<1>2. PICK d \in DOMAIN drafts : d = task[a].draft
  BY <1>1 DEF PullsInv, Sound
<1>3. PICK old \in DraftRows : old = drafts[d]
  BY DraftRow
<1>4. PICK status \in {"cancelled", "deleted"} : status = "cancelled"
  OBVIOUS
<1>5. PICK new : new = [old EXCEPT !.status = status]
  OBVIOUS
<1>6. /\ new \in DraftRows /\ new.pair = old.pair /\ new.source = old.source
      /\ new.target = old.target /\ new.choice = old.choice
      /\ new.status # "pending" /\ old.revision <= new.revision
  BY <1>5, StatusRow
<1>7. drafts' = [drafts EXCEPT ![d] = new]
  BY <1>2, <1>3, <1>4, <1>5 DEF AbortDraft
<1>8. /\ drafts' \in Seq(DraftRows) /\ Len(drafts') <= MaxDrafts /\ DraftsGrow /\ ChoicesKept
  BY <1>3, <1>6, <1>7, DraftReplaced
<1>9. /\ UNCHANGED <<commits, tip>> /\ DoneWith(a) /\ latch' = latch /\ UNCHANGED pulls
      /\ CommitsGrow
  BY CommitsSame DEF AbortDraft
<1>10. /\ pulls' \in Seq(PullRows) /\ Len(pulls') <= MaxPulls
       /\ PullsKept(a) /\ \A k \in DOMAIN pulls' : PullOK(k)'
  BY <1>8, <1>9, PullsStay
<1> QED
  BY <1>1, <1>8, <1>9, <1>10, EndStep

LEMMA AbandonKeeps ==
    ASSUME PullsInv, NEW a \in Agents, AbandonTask(a)
    PROVE  PullsInv' /\ FinishedKept
<1>1. /\ UNCHANGED <<commits, tip>> /\ UNCHANGED drafts /\ UNCHANGED pulls
      /\ DoneWith(a) /\ Unlocks(a) /\ CommitsGrow
  BY CommitsSame DEF AbandonTask
<1>2. drafts' \in Seq(DraftRows) /\ Len(drafts') <= MaxDrafts /\ DraftsGrow /\ ChoicesKept
  BY <1>1, DraftsSame
<1>3. /\ pulls' \in Seq(PullRows) /\ Len(pulls') <= MaxPulls
      /\ PullsKept(a) /\ \A k \in DOMAIN pulls' : PullOK(k)'
  BY <1>1, <1>2, PullsStay
<1> QED
  BY <1>1, <1>2, <1>3, EndStep

(***************************************************************************)
(* Steps of nobody's execution.                                            *)
(***************************************************************************)
LEMMA ServiceStep ==
    ASSUME PullsInv, UNCHANGED <<latch, task>>,
           commits' \in Seq(CommitRows), Len(commits') <= MaxCommits,
           tip' \in [Lines -> DOMAIN commits'], CommitsOK', RunsStoreRevision,
           drafts' \in Seq(DraftRows), Len(drafts') <= MaxDrafts, DraftsGrow,
           pulls' \in Seq(PullRows), Len(pulls') <= MaxPulls, PullsKept(Missing),
           \A k \in DOMAIN pulls' : PullOK(k)'
    PROVE  PullsInv' /\ FinishedKept
<1>1. PullsShape' /\ LatchesOK' /\ TasksKept(Missing)
  BY DEF PullsInv, PullsShape, LatchesOK, TasksKept
<1>2. Missing \notin Agents
  BY PullAssumption
<1> QED
  BY <1>1, <1>2, PullsStep

LEMMA AdvanceLineKeeps ==
    ASSUME PullsInv, NEW b \in Lines, AdvanceLine(b)
    PROVE  PullsInv' /\ FinishedKept
<1>1. PICK row : row = Made(tip[b], 0, 0, Missing)
  OBVIOUS
<1>2. row \in CommitRows /\ row.second = 0 /\ row.draft = 0
  <2>1. tip[b] \in 0..MaxCommits /\ 0 \in 0..MaxCommits /\ 0 \in 0..MaxDrafts
    BY TipsAreCommits, PullAssumption DEF Commit
  <2> QED
    BY <1>1, <2>1 DEF Made, CommitRows
<1>3. <<row.second, row.first>> \notin Conflicting
  BY <1>2, PullAssumption
<1>4. drafts' \in Seq(DraftRows) /\ Len(drafts') <= MaxDrafts /\ DraftsGrow /\ ChoicesKept
  BY DraftsSame DEF AdvanceLine
<1>5. Advances(b, row) /\ UNCHANGED pulls /\ UNCHANGED <<latch, task>>
  BY <1>1 DEF AdvanceLine
<1>6. /\ commits' \in Seq(CommitRows) /\ Len(commits') <= MaxCommits
      /\ tip' \in [Lines -> DOMAIN commits']
      /\ CommitsOK' /\ RunsStoreRevision /\ CommitsGrow
  BY <1>2, <1>3, <1>4, <1>5, CommitsExtended
<1>7. /\ pulls' \in Seq(PullRows) /\ Len(pulls') <= MaxPulls
      /\ PullsKept(Missing) /\ \A k \in DOMAIN pulls' : PullOK(k)'
  BY <1>4, <1>5, <1>6, PullsStay
<1> QED
  BY <1>4, <1>5, <1>6, <1>7, ServiceStep

LEMMA CreateDraftKeeps ==
    ASSUME PullsInv, NEW p \in Pairs, CreateDraft(p)
    PROVE  PullsInv' /\ FinishedKept
<1>1. PICK s \in Commit, k \in Commit, d \in Nat :
          s = tip[p[1]] /\ k = tip[p[2]] /\ d = Len(drafts) + 1
  <2>1. Len(drafts) + 1 \in Nat
    BY DEF PullsInv, PullsShape
  <2> QED
    BY <2>1, TipsAreCommits, PairsAreLines
<1>2. drafts' = Append(drafts, NewDraft(p, s, k)) /\ Len(drafts) < MaxDrafts
  BY <1>1 DEF CreateDraft
<1>3. drafts' \in Seq(DraftRows) /\ Len(drafts') <= MaxDrafts /\ DraftsGrow /\ ChoicesKept
  BY <1>1, <1>2, DraftAppended
<1>4. UNCHANGED <<commits, tip>> /\ UNCHANGED pulls /\ UNCHANGED <<latch, task>> /\ CommitsGrow
  BY CommitsSame DEF CreateDraft
<1>5. CommitsOK' /\ RunsStoreRevision
  BY <1>3, <1>4, CommitsKept
<1>6. /\ pulls' \in Seq(PullRows) /\ Len(pulls') <= MaxPulls
      /\ PullsKept(Missing) /\ \A n \in DOMAIN pulls' : PullOK(n)'
  BY <1>3, <1>4, PullsStay
<1> QED
  BY <1>3, <1>4, <1>5, <1>6, CommitsSame, ServiceStep

LEMMA DeleteDraftKeeps ==
    ASSUME PullsInv, NEW d \in DraftIds, DeleteDraft(d)
    PROVE  PullsInv' /\ FinishedKept
<1>1. PICK old \in DraftRows : old = drafts[d]
  BY DraftRow DEF DeleteDraft
<1>2. PICK status \in {"cancelled", "deleted"} : status = "deleted"
  OBVIOUS
<1>3. PICK new : new = [old EXCEPT !.status = status]
  OBVIOUS
<1>4. /\ new \in DraftRows /\ new.pair = old.pair /\ new.source = old.source
      /\ new.target = old.target /\ new.choice = old.choice
      /\ new.status # "pending" /\ old.revision <= new.revision
  BY <1>3, StatusRow
<1>5. d \in DOMAIN drafts /\ drafts' = [drafts EXCEPT ![d] = new]
  BY <1>1, <1>2, <1>3 DEF DeleteDraft
<1>6. /\ drafts' \in Seq(DraftRows) /\ Len(drafts') <= MaxDrafts /\ DraftsGrow /\ ChoicesKept
  BY <1>1, <1>4, <1>5, DraftReplaced
<1>7. UNCHANGED <<commits, tip>> /\ UNCHANGED <<latch, task>> /\ CommitsGrow
  BY CommitsSame DEF DeleteDraft
<1>8. CommitsOK' /\ RunsStoreRevision
  BY <1>6, <1>7, CommitsKept
<1>9. /\ pulls \in Seq(PullRows) /\ Len(pulls) <= MaxPulls /\ Len(pulls) \in Nat
      /\ DOMAIN pulls = 1..Len(pulls) /\ \A n \in DOMAIN pulls : pulls[n] \in PullRows
  BY RowsOf DEF PullsInv, PullsShape
<1>10. ASSUME NEW n \in DOMAIN pulls
       PROVE  /\ pulls'[n] = pulls[n] \/ pulls'[n] = [pulls[n] EXCEPT !.draft = 0]
              /\ pulls'[n] \in PullRows
  <2>1. PICK row \in PullRows : row = pulls[n]
    BY <1>9
  <2>2. pulls'[n] = [row EXCEPT !.draft = IF row.draft = d THEN 0 ELSE row.draft]
    BY <2>1 DEF DeleteDraft
  <2>3. [row EXCEPT !.draft = row.draft] = row
    BY Zenon DEF PullRows
  <2>4. 0 \in 0..MaxDrafts
    BY PullAssumption
  <2> QED
    BY <2>1, <2>2, <2>3, <2>4 DEF PullRows
<1>11. /\ pulls' \in Seq(PullRows) /\ Len(pulls') = Len(pulls) /\ DOMAIN pulls' = DOMAIN pulls
  <2>1. pulls' \in [1..Len(pulls) -> PullRows]
    BY <1>9, <1>10 DEF DeleteDraft
  <2> QED
    BY <1>9, <2>1, SeqDef
<1>12. \A n \in DOMAIN pulls : PullOK(n)' /\ pulls'[n] = [pulls[n] EXCEPT !.draft = pulls'[n].draft]
  BY <1>6, <1>7, <1>10, PullStays
<1>13. PullsKept(Missing) /\ Len(pulls') <= MaxPulls
  BY <1>9, <1>11, <1>12 DEF PullsKept
<1> QED
  BY <1>6, <1>7, <1>8, <1>11, <1>12, <1>13, CommitsSame, ServiceStep

(***************************************************************************)
(* The theorems.                                                           *)
(***************************************************************************)
LEMMA NextPulls ==
    ASSUME PullsInv, [PullsNext]_pullVars
    PROVE  PullsInv' /\ FinishedKept
<1>1. CASE UNCHANGED pullVars
  <2>1. drafts' \in Seq(DraftRows) /\ Len(drafts') <= MaxDrafts /\ DraftsGrow /\ ChoicesKept
    BY <1>1, DraftsSame DEF pullVars
  <2>2. UNCHANGED <<commits, tip>> /\ UNCHANGED pulls /\ UNCHANGED <<latch, task>> /\ CommitsGrow
    BY <1>1, CommitsSame DEF pullVars
  <2>3. CommitsOK' /\ RunsStoreRevision
    BY <2>1, <2>2, CommitsKept
  <2>4. /\ pulls' \in Seq(PullRows) /\ Len(pulls') <= MaxPulls
        /\ PullsKept(Missing) /\ \A k \in DOMAIN pulls' : PullOK(k)'
    BY <2>1, <2>2, PullsStay
  <2> QED
    BY <2>1, <2>2, <2>3, <2>4, CommitsSame, ServiceStep
<1>2. CASE PullsNext
  <2>1. CASE \E b \in Lines : AdvanceLine(b)
    BY <2>1, AdvanceLineKeeps
  <2>2. CASE \E p \in Pairs : CreateDraft(p)
    BY <2>2, CreateDraftKeeps
  <2>3. CASE \E d \in DraftIds : DeleteDraft(d)
    BY <2>3, DeleteDraftKeeps
  <2>4. ASSUME NEW a \in Agents,
               \/ \E p \in Pairs : BeginPull(a, p)
               \/ \E n \in Numbers : BeginReadiness(a, n) \/ BeginClose(a, n)
               \/ \E n \in Numbers, c \in Choices \cup {Missing} : BeginMerge(a, n, c)
               \/ \E d \in DraftIds, c \in Choices \cup {Missing},
                     k \in {"decide", "commit", "abort"} : BeginOnDraft(a, d, c, k)
        PROVE  PullsInv' /\ FinishedKept
    BY <2>4, BeginPullKeeps, BeginReadinessKeeps, BeginCloseKeeps, BeginMergeKeeps,
       BeginOnDraftKeeps
  <2>5. ASSUME NEW a \in Agents,
               \/ \E status \in {"draft", "open"} : OpenPull(a, status)
               \/ FinishReadiness(a) \/ FinishClose(a) \/ RefuseStale(a) \/ FinishMerge(a)
               \/ StoreDecision(a) \/ CommitDraft(a) \/ AbortDraft(a) \/ AbandonTask(a)
        PROVE  PullsInv' /\ FinishedKept
    BY <2>5, OpenPullKeeps, FinishReadinessKeeps, FinishCloseKeeps, RefuseStaleKeeps,
       FinishMergeKeeps, StoreDecisionKeeps, CommitDraftKeeps, AbortDraftKeeps, AbandonKeeps
  <2> QED
    BY <1>2, <2>1, <2>2, <2>3, <2>4, <2>5 DEF PullsNext
<1> QED
  BY <1>1, <1>2

LEMMA InitPulls == PullsInit => PullsInv
<1> SUFFICES ASSUME PullsInit PROVE PullsInv
  OBVIOUS
<1>1. Cardinality(Lines) \in Nat
  BY PullAssumption, FS_CardinalityType
<1>2. Made(0, 0, 0, Missing) \in CommitRows
  BY PullAssumption DEF Made, CommitRows
<1>3. commits \in [1..Cardinality(Lines) -> CommitRows]
  BY <1>2 DEF PullsInit
<1>4. commits \in Seq(CommitRows) /\ Len(commits) = Cardinality(Lines)
      /\ DOMAIN commits = 1..Cardinality(Lines)
  BY <1>1, <1>3, SeqDef
<1>5. \A c \in DOMAIN commits : /\ commits[c].first = 0 /\ commits[c].second = 0
                                /\ commits[c].draft = 0
  BY <1>4 DEF PullsInit, Made
<1>6. tip = FirstOf /\ \A b \in Lines : tip[b] \in DOMAIN commits /\ tip[b] # 0
  BY <1>1, <1>4, PullAssumption DEF PullsInit
<1>7. pulls = <<>> /\ drafts = <<>> /\ DOMAIN pulls = {}
  BY DEF PullsInit
<1>8. PullsShape
  <2>1. Idling \in Tasks
    BY DEF Tasks
  <2>2. Len(<<>>) = 0 /\ 0 <= MaxPulls /\ 0 <= MaxDrafts
    BY PullAssumption
  <2>3. Len(commits) <= MaxCommits /\ tip \in [Lines -> DOMAIN commits]
    BY <1>4, <1>6, PullAssumption
  <2>4. pulls \in Seq(PullRows) /\ drafts \in Seq(DraftRows)
        /\ Len(pulls) <= MaxPulls /\ Len(drafts) <= MaxDrafts
    BY <1>7, <2>2
  <2>5. latch \in [Numbers -> Agents \cup {Missing}] /\ task \in [Agents -> Tasks]
    BY <2>1 DEF PullsInit
  <2> QED
    BY <1>4, <2>3, <2>4, <2>5 DEF PullsShape
<1>9. LatchesOK
  BY DEF PullsInit, LatchesOK, Idling, Locking
<1>10. \A a \in Agents : Sound(task[a])
  BY DEF PullsInit, Sound, Idling, Locking
<1>11. CommitsOK
  <2>1. <<0, 0>> \notin Conflicting
    BY PullAssumption
  <2> QED
    BY <1>1, <1>4, <1>5, <1>6, <2>1, PullAssumption DEF CommitsOK
<1> QED
  BY <1>7, <1>8, <1>9, <1>10, <1>11 DEF PullsInv

\* A pull request is held by an execution under way, names a draft that exists, and
\* is merged exactly when it names its merge commit.
THEOREM PullTypes == PullsSpec => []PullsTypeOK
<1>1. PullsInv => PullsTypeOK
  <2> SUFFICES ASSUME PullsInv PROVE PullsTypeOK
    OBVIOUS
  <2>1. \A n \in Numbers : latch[n] # Missing => task[latch[n]] # Idling
    BY DEF PullsInv, LatchesOK, Locking, Idling
  <2>2. drafts \in Seq(DraftRows)
    BY DEF PullsInv, PullsShape
  <2>3. Len(drafts) \in Nat /\ DOMAIN drafts = 1..Len(drafts)
    BY <2>2, RowsOf
  <2>4. ASSUME NEW n \in DOMAIN pulls
        PROVE  pulls[n].draft \in 0..Len(drafts) /\ (pulls[n].status = "merged" <=> pulls[n].merged # 0)
    BY <2>3 DEF PullsInv, PullOK, Fits
  <2> QED
    BY <2>1, <2>4 DEF PullsInv, PullsShape, PullsTypeOK
<1> QED
  BY <1>1, InitPulls, NextPulls, PTL DEF PullsSpec

\* However merges, draft commits and direct commits race, a merge commit joins the
\* two commits that were reviewed with every conflict decided, once per draft, and
\* histories stay chains.
THEOREM MergesAreReviewed == PullsSpec => []MergedAsReviewed
<1>1. PullsInv => MergedAsReviewed
  <2> SUFFICES ASSUME PullsInv PROVE MergedAsReviewed
    OBVIOUS
  <2>1. \A n \in DOMAIN pulls :
           pulls[n].merged # 0 => /\ commits[pulls[n].merged].first = pulls[n].target
                                  /\ commits[pulls[n].merged].second = pulls[n].source
    BY DEF PullsInv, PullOK
  <2>2. ASSUME NEW c \in DOMAIN commits, NEW k \in DOMAIN commits,
               commits[c].draft # 0, commits[k].draft = commits[c].draft
        PROVE  k = c
    <3>1. PICK d \in DOMAIN drafts :
             /\ d = commits[c].draft
             /\ commits[c].first = drafts[d].target /\ commits[k].first = drafts[d].target
      BY <2>2 DEF PullsInv, CommitsOK, Fits
    <3>2. drafts[d].target # 0
      BY DraftRow DEF DraftRows, Commit
    <3> QED
      BY <3>1, <3>2 DEF PullsInv, CommitsOK
  <2> QED
    BY <2>1, <2>2 DEF PullsInv, CommitsOK, MergedAsReviewed
<1> QED
  BY <1>1, InitPulls, NextPulls, PTL DEF PullsSpec

\* No decision stored around an execution replaces the one that was executed.
THEOREM DecisionsRecorded == PullsSpec => []ExecutedDecisionRecorded
<1>1. PullsInv => ExecutedDecisionRecorded
  BY DEF PullsInv, CommitsOK, ExecutedDecisionRecorded
<1> QED
  BY <1>1, InitPulls, NextPulls, PTL DEF PullsSpec

\* The draft a pull request names was prepared from the commits under review.
THEOREM DraftsMatchSnapshots == PullsSpec => []PreparedForSnapshot
<1>1. PullsInv => PreparedForSnapshot
  BY DEF PullsInv, PullOK, Fits, PreparedForSnapshot
<1> QED
  BY <1>1, InitPulls, NextPulls, PTL DEF PullsSpec

\* No execution that began before brings a closed or merged pull request back.
THEOREM FinishedStays == PullsSpec => FinishedIsFinal
<1>1. ASSUME PullsInv, [PullsNext]_pullVars
      PROVE  [\A n \in DOMAIN pulls :
                 pulls[n].status \in Finished
                 => pulls'[n] = [pulls[n] EXCEPT !.draft = pulls'[n].draft]]_pulls
  BY <1>1, NextPulls DEF FinishedKept
<1> QED
  BY <1>1, InitPulls, NextPulls, PTL DEF PullsSpec, FinishedIsFinal
===============================================================================
