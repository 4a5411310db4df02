------------------------------ MODULE PullRequests ------------------------------
(***************************************************************************)
(* Pull requests of a project, the merge drafts they are prepared in and   *)
(* the commits that merges make (routes/pull-requests.openapi.ts,          *)
(* routes/merge.openapi.ts, queries/merge-drafts.ts, the storage backend   *)
(* of the MCP server).                                                     *)
(*                                                                         *)
(* An agent reads in one step and writes in a later one. Readiness, close  *)
(* and merge are transactions under the advisory lock of the pull request; *)
(* the other operations read outside the transaction that writes. The      *)
(* prepared comparison of a draft is what its two commits determine: it is *)
(* the set Conflicting. Titles, activity and checks are left out, except   *)
(* what the checks leave a merge waiting for.                              *)
(***************************************************************************)
EXTENDS Naturals, Sequences, FiniteSets

CONSTANTS
    Lines,          \* branches
    FirstOf,        \* the commit each branch starts with
    Pairs,          \* the <<source, target>> pairs that pull requests are about
    MaxCommits, MaxPulls, MaxDrafts,    \* bounds on what is created
    MaxDecisions,   \* bound on the decisions stored in a draft before it is executed
    Conflicting,    \* <<source, target>> commits with structural conflicts
    Choices,        \* decisions a reviewer may store or submit
    Settling,       \* those that resolve every conflict
    Default,        \* the decision to keep both sides
    Missing,        \* no decision, or nobody
    Agents          \* concurrent executions

ASSUME PullAssumption ==
    /\ Pairs \subseteq Lines \X Lines /\ \A p \in Pairs : p[1] # p[2]
    /\ IsFiniteSet(Lines) /\ Cardinality(Lines) <= MaxCommits
    /\ FirstOf \in [Lines -> 1..Cardinality(Lines)]
    /\ \A b, c \in Lines : FirstOf[b] = FirstOf[c] => b = c
    /\ MaxCommits \in Nat /\ MaxPulls \in Nat /\ MaxDrafts \in Nat
    /\ MaxDecisions \in Nat
    /\ Conflicting \subseteq (1..MaxCommits) \X (1..MaxCommits)
    /\ Settling \subseteq Choices /\ Default \in Choices \ Settling
    /\ Missing \notin Choices \cup Agents

VARIABLES
    commits,    \* every commit, in the order in which they were made
    tip,        \* the head of each branch
    pulls,      \* pull requests by number
    drafts,     \* merge drafts by id
    latch,      \* the agent that holds the lock of each pull request
    task        \* what each agent is doing, and what it has read

pullVars == <<commits, tip, pulls, drafts, latch, task>>

Commit == 1..MaxCommits
Numbers == 1..MaxPulls
DraftIds == 1..MaxDrafts

Finished == {"merged", "closed"}
Active == {"draft", "open", "ready", "blocked"}

\* A commit: its parents, and the draft and the decision that a merge executed.
Made(first, second, d, c) == [first |-> first, second |-> second, draft |-> d, choice |-> c]
CommitRows ==
    [first: 0..MaxCommits, second: 0..MaxCommits, draft: 0..MaxDrafts, choice: Choices \cup {Missing}]

\* waits: what recordedChecks would leave a merge waiting for.
PullRows ==
    [status: Active \cup Finished, pair: Pairs, source: Commit, target: Commit,
     draft: 0..MaxDrafts, waits: {"nothing", "decision", "other"}, merged: 0..MaxCommits]
DraftRows ==
    [status: {"pending", "committed", "cancelled", "deleted"}, pair: Pairs, source: Commit,
     target: Commit, choice: Choices \cup {Missing}, revision: Nat]

\* What an agent is doing, with what it has read.
Idling == [does |-> "nothing"]
Tasks ==
    {Idling}
    \cup [does: {"open"}, pair: Pairs, source: Commit, target: Commit]
    \cup [does: {"readiness"}, pull: Numbers, source: Commit, target: Commit, draft: 0..MaxDrafts]
    \cup [does: {"close"}, pull: Numbers]
    \cup [does: {"merge"}, pull: Numbers, fresh: BOOLEAN, draft: DraftIds, choice: Choices]
    \cup [does: {"decide", "commit", "abort"}, draft: DraftIds, revision: Nat,
          choice: Choices \cup {Missing}]

PullsTypeOK ==
    /\ commits \in Seq(CommitRows) /\ Len(commits) <= MaxCommits
    /\ tip \in [Lines -> DOMAIN commits]
    /\ pulls \in Seq(PullRows) /\ Len(pulls) <= MaxPulls
    /\ drafts \in Seq(DraftRows) /\ Len(drafts) <= MaxDrafts
    /\ latch \in [Numbers -> Agents \cup {Missing}]
    /\ task \in [Agents -> Tasks]
    /\ \A n \in Numbers : latch[n] # Missing => task[latch[n]] # Idling
    /\ \A n \in DOMAIN pulls :
          /\ pulls[n].draft \in 0..Len(drafts)
          /\ pulls[n].status = "merged" <=> pulls[n].merged # 0

\* Every branch has a commit of its own, as a pull request requires.
PullsInit ==
    /\ commits = [c \in 1..Cardinality(Lines) |-> Made(0, 0, 0, Missing)]
    /\ tip = FirstOf
    /\ pulls = <<>>
    /\ drafts = <<>>
    /\ latch = [n \in Numbers |-> Missing]
    /\ task = [a \in Agents |-> Idling]

(***************************************************************************)
(* Shared parts.                                                           *)
(***************************************************************************)
DoneWith(a) == task' = [task EXCEPT ![a] = Idling]

Begins(a, t) == task[a] = Idling /\ task' = [task EXCEPT ![a] = t]

\* acquirePullRequestLock, until the end of the transaction.
LatchFree_NotAsked(n) == TRUE       \* fault: the transaction takes no lock
LatchFree(n) == latch[n] = Missing
Locks(a, n) == LatchFree(n) /\ latch' = [latch EXCEPT ![n] = a]
Unlocks_Session(a) == latch' = latch     \* fault: the lock belongs to the session
Unlocks(a) == latch' = [n \in Numbers |-> IF latch[n] = a THEN Missing ELSE latch[n]]

\* A new commit on a branch whose head is the first parent: the condition on
\* head_commit_hash of the UPDATE in commitPreparedRepositoryTransition.
Advances_Blind(b, row) ==           \* fault: the head is not compared
    /\ Len(commits) < MaxCommits
    /\ commits' = Append(commits, row)
    /\ tip' = [tip EXCEPT ![b] = Len(commits) + 1]
Advances(b, row) ==
    /\ Len(commits) < MaxCommits
    /\ tip[b] = row.first
    /\ commits' = Append(commits, row)
    /\ tip' = [tip EXCEPT ![b] = Len(commits) + 1]

NewDraft(pair, s, t) ==
    [status |-> "pending", pair |-> pair, source |-> s, target |-> t,
     choice |-> Missing, revision |-> 0]

\* Explicit input wins, then the stored decision, then both sides are kept.
Chosen(given, stored) ==
    IF given # Missing THEN given ELSE IF stored # Missing THEN stored ELSE Default

\* No structural conflict is left without a decision.
Settled(s, t, choice) == <<s, t>> \in Conflicting => choice \in Settling

\* updateMergeDraft with a decision, and commitMergeDraft.
Decide(d, choice) == [drafts[d] EXCEPT !.choice = choice, !.revision = @ + 1]
Executed(d, choice) ==
    drafts' = [drafts EXCEPT ![d] = [Decide(d, choice) EXCEPT !.status = "committed"]]

(***************************************************************************)
(* Commits beside the merges.                                              *)
(***************************************************************************)
AdvanceLine(b) ==
    /\ Advances(b, Made(tip[b], 0, 0, Missing))
    /\ UNCHANGED <<pulls, drafts, latch, task>>

(***************************************************************************)
(* Pull requests.                                                          *)
(***************************************************************************)
Duplicates(pair) == \E n \in DOMAIN pulls : pulls[n].pair = pair /\ pulls[n].status \in Active

\* Heads and duplicates are read without a lock.
BeginPull(a, pair) ==
    /\ ~Duplicates(pair)
    /\ Begins(a, [does |-> "open", pair |-> pair, source |-> tip[pair[1]],
                  target |-> tip[pair[2]]])
    /\ UNCHANGED <<commits, tip, pulls, drafts, latch>>

\* createPullRequest: idx_pull_requests_active_pair refuses a second one.
OpenPull(a, status) ==
    LET t == task[a]
    IN  /\ t.does = "open"
        /\ status \in {"draft", "open"}
        /\ Len(pulls) < MaxPulls
        /\ ~Duplicates(t.pair)
        /\ pulls' = Append(pulls, [status |-> status, pair |-> t.pair, source |-> t.source,
                                   target |-> t.target, draft |-> 0, waits |-> "other",
                                   merged |-> 0])
        /\ DoneWith(a)
        /\ UNCHANGED <<commits, tip, drafts, latch>>

ReviewedDraft(d, pair, s, t) ==
    /\ drafts[d].status = "pending"
    /\ drafts[d].source = s /\ drafts[d].target = t

\* The draft that readiness prepares again: the one the pull request names, if it
\* still matches; without one, a pending draft of the same merge; or none.
Reusable_AsNamed(n, s, t) ==        \* fault: the named draft is not compared
    IF pulls[n].draft # 0 THEN {pulls[n].draft} ELSE {0}
Reusable(n, s, t) ==
    LET row == pulls[n]
        named == IF s = row.source /\ t = row.target THEN row.draft ELSE 0
        found == {d \in DOMAIN drafts : drafts[d].pair = row.pair
                                        /\ ReviewedDraft(d, row.pair, s, t)}
    IN  IF named # 0 THEN (IF ReviewedDraft(named, row.pair, s, t) THEN {named} ELSE {0})
        ELSE IF found # {} THEN found ELSE {0}

BeginReadiness(a, n) ==
    /\ n \in DOMAIN pulls
    /\ pulls[n].status \notin Finished
    /\ Locks(a, n)
    /\ LET s == tip[pulls[n].pair[1]]
           t == tip[pulls[n].pair[2]]
       IN  \E d \in Reusable(n, s, t) :
              Begins(a, [does |-> "readiness", pull |-> n, source |-> s, target |-> t, draft |-> d])
    /\ UNCHANGED <<commits, tip, pulls, drafts>>

\* runPullRequestReadiness commits: the pull request is about the heads that were
\* read, and is ready, or blocked by conflicts, by the checks of the draft and of
\* the Schema (sound), or by a preparation that failed. Nobody sees "checking".
Concludes(n, t, d, choice) ==
    \E sound \in BOOLEAN :
        LET settled == Settled(t.source, t.target, choice)
        IN  pulls' = [pulls EXCEPT ![n] =
                [@ EXCEPT !.source = t.source, !.target = t.target, !.draft = d,
                          !.status = IF settled /\ sound THEN "ready" ELSE "blocked",
                          !.waits = IF ~sound THEN "other"
                                    ELSE IF settled THEN "nothing" ELSE "decision"]]

FinishReadiness(a) ==
    LET t == task[a]
        n == t.pull
    IN  /\ t.does = "readiness"
        /\ \/ /\ t.draft # 0 /\ drafts[t.draft].status # "deleted"
              /\ Concludes(n, t, t.draft, drafts[t.draft].choice)
              /\ UNCHANGED drafts
           \/ /\ t.draft = 0 /\ Len(drafts) < MaxDrafts
              /\ drafts' = Append(drafts, NewDraft(pulls[n].pair, t.source, t.target))
              /\ Concludes(n, t, Len(drafts) + 1, Missing)
           \/ /\ pulls' = [pulls EXCEPT ![n] =
                    [@ EXCEPT !.source = t.source, !.target = t.target, !.draft = 0,
                              !.status = "blocked", !.waits = "other"]]
              /\ \/ UNCHANGED drafts
                 \/ /\ t.draft = 0 /\ Len(drafts) < MaxDrafts
                    /\ drafts' = Append(drafts, NewDraft(pulls[n].pair, t.source, t.target))
        /\ DoneWith(a) /\ Unlocks(a)
        /\ UNCHANGED <<commits, tip>>

BeginClose(a, n) ==
    /\ n \in DOMAIN pulls
    /\ pulls[n].status \notin Finished
    /\ Locks(a, n)
    /\ Begins(a, [does |-> "close", pull |-> n])
    /\ UNCHANGED <<commits, tip, pulls, drafts>>

FinishClose(a) ==
    /\ task[a].does = "close"
    /\ pulls' = [pulls EXCEPT ![task[a].pull].status = "closed"]
    /\ DoneWith(a) /\ Unlocks(a)
    /\ UNCHANGED <<commits, tip, drafts>>

\* Ready, or blocked by nothing but conflicts that the request decides.
Mergeable(row, given) ==
    \/ row.status = "ready"
    \/ row.status = "blocked" /\ row.waits = "decision" /\ given # Missing

\* The request names the snapshot that the client has reviewed: the current one.
BeginMerge(a, n, given) ==
    /\ n \in DOMAIN pulls
    /\ Mergeable(pulls[n], given)
    /\ pulls[n].draft # 0
    /\ Locks(a, n)
    /\ LET row == pulls[n]
           d == drafts[row.draft]
           fresh == tip[row.pair[1]] = row.source /\ tip[row.pair[2]] = row.target
           choice == Chosen(given, d.choice)
       IN  /\ fresh => /\ ReviewedDraft(row.draft, row.pair, row.source, row.target)
                       /\ d.pair = row.pair
                       /\ Settled(row.source, row.target, choice)
           /\ Begins(a, [does |-> "merge", pull |-> n, fresh |-> fresh, draft |-> row.draft,
                         choice |-> choice])
    /\ UNCHANGED <<commits, tip, pulls, drafts>>

\* A head has moved since readiness: the pull request is blocked.
RefuseStale(a) ==
    /\ task[a].does = "merge"
    /\ ~task[a].fresh
    /\ pulls' = [pulls EXCEPT ![task[a].pull] =
            [@ EXCEPT !.status = "blocked", !.draft = 0, !.waits = "other"]]
    /\ DoneWith(a) /\ Unlocks(a)
    /\ UNCHANGED <<commits, tip, drafts>>

\* The decision, the commit, the draft and the pull request are one transaction.
FinishMerge(a) ==
    LET t == task[a]
        row == pulls[t.pull]
    IN  /\ t.does = "merge"
        /\ t.fresh
        /\ drafts[t.draft].status # "deleted"
        /\ Advances(row.pair[2], Made(row.target, row.source, t.draft, t.choice))
        /\ Executed(t.draft, t.choice)
        /\ pulls' = [pulls EXCEPT ![t.pull].status = "merged",
                                  ![t.pull].merged = Len(commits) + 1]
        /\ DoneWith(a) /\ Unlocks(a)

(***************************************************************************)
(* Merge drafts.                                                           *)
(***************************************************************************)
\* POST /v1/merge/drafts creates a draft if it has found none, the MCP server in
\* any case; nothing makes them unique. Clients ask for the heads they see.
CreateDraft(pair) ==
    /\ Len(drafts) < MaxDrafts
    /\ drafts' = Append(drafts, NewDraft(pair, tip[pair[1]], tip[pair[2]]))
    /\ UNCHANGED <<commits, tip, pulls, latch, task>>

\* PATCH, commit and abort find the draft pending in a read of their own.
BeginOnDraft(a, d, given, kind) ==
    /\ d \in DOMAIN drafts
    /\ drafts[d].status = "pending"
    /\ kind = "decide" => given # Missing /\ drafts[d].revision < MaxDecisions
    /\ kind = "commit" => Settled(drafts[d].source, drafts[d].target, Chosen(given, drafts[d].choice))
    /\ kind = "abort" => given = Missing
    /\ Begins(a, [does |-> kind, draft |-> d,
                  revision |-> IF kind = "decide" THEN drafts[d].revision ELSE 0,
                  choice |-> IF kind = "abort" THEN Missing ELSE Chosen(given, drafts[d].choice)])
    /\ UNCHANGED <<commits, tip, pulls, drafts, latch>>

\* A decision is stored under the revision that the client has seen; the status
\* is not compared again.
RevisionHolds_NotAsked(d, revision) == drafts[d].status # "deleted"   \* fault
RevisionHolds(d, revision) == drafts[d].status # "deleted" /\ drafts[d].revision = revision

StoreDecision(a) ==
    LET t == task[a]
    IN  /\ t.does = "decide"
        /\ RevisionHolds(t.draft, t.revision)
        /\ drafts' = [drafts EXCEPT ![t.draft] = Decide(t.draft, t.choice)]
        /\ DoneWith(a)
        /\ UNCHANGED <<commits, tip, pulls, latch>>

CommitDraft(a) ==
    LET t == task[a]
        d == t.draft
    IN  /\ t.does = "commit"
        /\ drafts[d].status # "deleted"
        /\ Advances(drafts[d].pair[2], Made(drafts[d].target, drafts[d].source, d, t.choice))
        /\ Executed(d, t.choice)
        /\ DoneWith(a)
        /\ UNCHANGED <<pulls, latch>>

\* cancelMergeDraft asks nothing of the row.
AbortDraft(a) ==
    LET t == task[a]
    IN  /\ t.does = "abort"
        /\ drafts[t.draft].status # "deleted"
        /\ drafts' = [drafts EXCEPT ![t.draft].status = "cancelled"]
        /\ DoneWith(a)
        /\ UNCHANGED <<commits, tip, pulls, latch>>

\* DELETE, whatever the status; pull requests lose the reference.
DeleteDraft(d) ==
    /\ d \in DOMAIN drafts
    /\ drafts[d].status # "deleted"
    /\ drafts' = [drafts EXCEPT ![d].status = "deleted"]
    /\ pulls' = [n \in DOMAIN pulls |->
                    [pulls[n] EXCEPT !.draft = IF @ = d THEN 0 ELSE @]]
    /\ UNCHANGED <<commits, tip, latch, task>>

\* A refusal or a lost connection: nothing is written.
AbandonTask(a) ==
    /\ task[a] # Idling
    /\ DoneWith(a) /\ Unlocks(a)
    /\ UNCHANGED <<commits, tip, pulls, drafts>>

PullsNext ==
    \/ \E b \in Lines : AdvanceLine(b)
    \/ \E p \in Pairs : CreateDraft(p)
    \/ \E d \in DraftIds : DeleteDraft(d)
    \/ \E a \in Agents :
          \/ \E p \in Pairs : BeginPull(a, p)
          \/ \E status \in {"draft", "open"} : OpenPull(a, status)
          \/ \E n \in Numbers : BeginReadiness(a, n) \/ BeginClose(a, n)
          \/ \E n \in Numbers, c \in Choices \cup {Missing} : BeginMerge(a, n, c)
          \/ \E d \in DraftIds, c \in Choices \cup {Missing}, k \in {"decide", "commit", "abort"} :
                BeginOnDraft(a, d, c, k)
          \/ FinishReadiness(a) \/ FinishClose(a) \/ RefuseStale(a) \/ FinishMerge(a)
          \/ StoreDecision(a) \/ CommitDraft(a) \/ AbortDraft(a)
          \/ AbandonTask(a)

PullsSpec == PullsInit /\ [][PullsNext]_pullVars

(***************************************************************************)
(* Properties.                                                             *)
(***************************************************************************)
\* A closed or merged pull request stays as it is: no readiness or merge that
\* began before brings it back (acquirePullRequestLock; the test "serializes
\* readiness and close so a closed PR cannot remain checking").
FinishedIsFinal ==
    [][\A n \in DOMAIN pulls :
          pulls[n].status \in Finished
          => pulls'[n] = [pulls[n] EXCEPT !.draft = pulls'[n].draft]]_pulls

\* The merge commit of a pull request joins exactly the two commits that were
\* reviewed; a merge leaves no conflict undecided and is the only one of its draft;
\* and no commit of a branch is lost to another one, however merges, draft commits
\* and direct commits race.
MergedAsReviewed ==
    /\ \A n \in DOMAIN pulls :
          LET m == pulls[n].merged
          IN  m # 0 => commits[m].first = pulls[n].target /\ commits[m].second = pulls[n].source
    /\ \A c \in DOMAIN commits :
          LET row == commits[c]
          IN  /\ <<row.second, row.first>> \in Conflicting => row.choice \in Settling
              /\ \A k \in DOMAIN commits :
                    \/ row.draft # 0 /\ commits[k].draft = row.draft
                    \/ row.first # 0 /\ commits[k].first = row.first
                    => k = c

\* merge.openapi.ts: "The exact execution decision is part of the durable draft
\* record". No decision that was stored around the execution replaces it
\* (expectedDecisionRevision).
ExecutedDecisionRecorded ==
    \A c \in DOMAIN commits :
        commits[c].draft # 0 => drafts[commits[c].draft].choice = commits[c].choice

\* The draft a pull request names is one of its branches and of the commits under
\* review, also after readiness has moved to new heads (the filter on the draft
\* that runPullRequestReadiness reuses).
PreparedForSnapshot ==
    \A n \in DOMAIN pulls :
        LET d == pulls[n].draft
        IN  d # 0 => /\ drafts[d].pair = pulls[n].pair
                     /\ drafts[d].source = pulls[n].source
                     /\ drafts[d].target = pulls[n].target
===============================================================================
