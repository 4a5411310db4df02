---------------------------- MODULE MCPullRequests ----------------------------
(***************************************************************************)
(* Small instances of PullRequests.                                        *)
(***************************************************************************)
EXTENDS PullRequests

CONSTANTS feature, trunk, a1, a2

TrunkFirst == [b \in Lines |-> IF b = trunk THEN 1 ELSE 2]
FeatureToTrunk == {<<feature, trunk>>}

\* What agents do in a behaviour about pull requests, with two of them and two
\* drafts, and in one about the draft of a single pull request.
PullTasks == {"nothing", "open", "readiness", "close", "merge"}
DraftTasks == {"nothing", "open", "readiness", "merge", "decide", "commit", "abort"}

PullTraffic == \A a \in Agents : task[a].does \in PullTasks
DraftTraffic ==
    /\ \A a \in Agents : task[a].does \in DraftTasks
    /\ Len(pulls) <= 1 /\ Len(drafts) <= 1

\* The first commits of the two branches conflict.
FirstConflict == {<<2, 1>>}
===============================================================================
