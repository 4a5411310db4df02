------------------------------- MODULE MCProgress -------------------------------
(***************************************************************************)
(* What must eventually happen: a behaviour is one of the control plane,   *)
(* of the runs or of a page, which share no state.                         *)
(***************************************************************************)
EXTENDS MCTransitionLifecycle, RunTimeouts, WorkspaceFeed

CONSTANTS u1, k3, k4, v1

VARIABLE focus      \* the part a behaviour is about

ProgressInit ==
    /\ focus \in {"commands", "runs", "page"}
    /\ Init
    /\ RunsInit
    /\ FeedInit

ProgressNext ==
    /\ \/ focus = "commands" /\ Next /\ UNCHANGED <<runVars, feedVars>>
       \/ focus = "runs" /\ RunsNext /\ UNCHANGED <<vars, feedVars>>
       \/ focus = "page" /\ FeedNext /\ UNCHANGED <<vars, runVars>>
    /\ UNCHANGED focus

progressVars == <<focus, vars, runVars, feedVars>>

\* Commands: the fairness of TransitionLifecycle. Runs: time passes, the timer
\* keeps firing, and the database is not down whenever a run is to be marked.
\* Page: requests end, with an answer or an error.
ProgressSpec ==
    /\ ProgressInit /\ [][ProgressNext]_progressVars
    /\ \A h \in Handlers : WF_vars(focus = "commands" /\ HandlerStep(h))
    /\ \A r \in Requests :
          SF_vars(/\ focus = "commands" /\ answers[r] \subseteq {Refused}
                  /\ \E h \in Handlers : Deliver(h, r))
    /\ \A r \in Runs : WF_runVars(focus = "runs" /\ Age(r))
    /\ \A k \in Scans : WF_runVars(focus = "runs" /\ BeginScan(k))
    /\ \A k \in Scans, r \in Runs : SF_runVars(focus = "runs" /\ Mark(k, r))
    /\ WF_feedVars(focus = "page" /\ \E q \in loads : AnswerLoad(q) /\ q.token = token)
    /\ WF_feedVars(focus = "page" /\ \E q \in loads : ApplyLoad(q) /\ q.token = token)
===============================================================================
