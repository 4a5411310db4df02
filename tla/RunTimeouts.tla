------------------------------ MODULE RunTimeouts ------------------------------
(***************************************************************************)
(* Runs of workflows: the engine creates a run and starts it at the runner *)
(* (routes/runs.openapi.ts), the runner evaluates the callback of the      *)
(* workflow and sends the answer (apps/runner/src/server.ts), and a        *)
(* periodic scan fails the runs that stay running too long                 *)
(* (lib/timeout-checker.ts). No write is conditional on the status.        *)
(*                                                                         *)
(* A step is one statement or one message. Scans are started on a timer    *)
(* and not awaited, so several can be under way. The metadata of a run,    *)
(* its traces and the webhook of its outcome are left out.                 *)
(***************************************************************************)
EXTENDS Naturals

CONSTANTS
    Runs,
    Scans,          \* scans that can be under way at once
    MaxAttempts,    \* deliveries of one answer: fetchWithRetry gives up
    MaxTouches      \* bound on the edits of a run's title, tags, ...

ASSUME RunAssumption == MaxAttempts \in Nat \ {0} /\ MaxTouches \in Nat

VARIABLES
    run,        \* rows of the runs table
    overdue,    \* runs whose updated_at is older than the time limit
    starting,   \* the request that creates each run
    workflow,   \* the workflow of each run, at the runner
    answer,     \* the outcome the runner has evaluated
    sent,       \* deliveries of the answer begun
    arriving,   \* deliveries on their way to the engine
    listed,     \* what each scan has still to mark
    touches,
    ingested,   \* history: the engine has stored an answer of the run
    overtaken   \* history: ... while a scan had the run listed

history == <<ingested, overtaken>>
runVars ==
    <<run, overdue, starting, workflow, answer, sent, arriving, listed, touches, history>>

RunOutcomes == {"completed", "failed"}

RunRows ==
    [status: {"absent", "queued", "running", "deleted"} \cup RunOutcomes,
     result: {"none", "timeout"} \cup RunOutcomes, linked: BOOLEAN]

RunsTypeOK ==
    /\ run \in [Runs -> RunRows]
    /\ overdue \subseteq Runs /\ ingested \subseteq Runs /\ overtaken \subseteq Runs
    /\ starting \in [Runs -> {"not yet", "asked", "replied", "done"}]
    /\ workflow \in [Runs -> {"not yet", "started", "over"}]
    /\ answer \in [Runs -> {"none"} \cup RunOutcomes]
    /\ sent \in [Runs -> 0..MaxAttempts] /\ arriving \in [Runs -> 0..MaxAttempts]
    /\ listed \in [Scans -> SUBSET Runs]
    /\ touches \in 0..MaxTouches

RunsInit ==
    /\ run = [r \in Runs |-> [status |-> "absent", result |-> "none", linked |-> FALSE]]
    /\ overdue = {} /\ ingested = {} /\ overtaken = {}
    /\ starting = [r \in Runs |-> "not yet"]
    /\ workflow = [r \in Runs |-> "not yet"]
    /\ answer = [r \in Runs |-> "none"]
    /\ sent = [r \in Runs |-> 0] /\ arriving = [r \in Runs |-> 0]
    /\ listed = [k \in Scans |-> {}]
    /\ touches = 0

Exists(r) == run[r].status \notin {"absent", "deleted"}

\* Every UPDATE renews updated_at; one of a deleted run changes nothing.
UpdateRun(r, row) ==
    /\ run' = IF Exists(r) THEN [run EXCEPT ![r] = row] ELSE run
    /\ overdue' = overdue \ {r}

(***************************************************************************)
(* Creation: insert, ask the runner, record its answer.                    *)
(***************************************************************************)
CreateRun(r) ==
    /\ starting[r] = "not yet"
    /\ starting' = [starting EXCEPT ![r] = "asked"]
    /\ run' = [run EXCEPT ![r].status = "queued"]
    /\ UNCHANGED <<overdue, workflow, answer, sent, arriving, listed, touches, history>>

\* The runner starts the workflow; its reply may get lost.
StartWorkflow(r) ==
    /\ starting[r] = "asked"
    /\ workflow' = [workflow EXCEPT ![r] = "started"]
    /\ \E reply \in {"replied", "done"} : starting' = [starting EXCEPT ![r] = reply]
    /\ UNCHANGED <<run, overdue, answer, sent, arriving, listed, touches, history>>

\* The runner refuses or is out of reach: the run stays queued.
StartFails(r) ==
    /\ starting[r] = "asked"
    /\ starting' = [starting EXCEPT ![r] = "done"]
    /\ UNCHANGED <<run, overdue, workflow, answer, sent, arriving, listed, touches, history>>

LinkRun(r) ==
    /\ starting[r] = "replied"
    /\ starting' = [starting EXCEPT ![r] = "done"]
    /\ UpdateRun(r, [run[r] EXCEPT !.status = "running", !.linked = TRUE])
    /\ UNCHANGED <<workflow, answer, sent, arriving, listed, touches, history>>

(***************************************************************************)
(* The answer: the runner keeps no runs and finds this one by the id it    *)
(* gave out, evaluates, and delivers with retries.                         *)
(***************************************************************************)
Found_ByRunId(r) == Exists(r)   \* fault: found by run_id, before it is linked
Found(r) == Exists(r) /\ run[r].linked

\* processN8nCallback; an unknown run is dropped.
CallBack(r) ==
    /\ workflow[r] = "started"
    /\ workflow' = [workflow EXCEPT ![r] = "over"]
    /\ IF Found(r)
       THEN \E outcome \in RunOutcomes : answer' = [answer EXCEPT ![r] = outcome]
       ELSE UNCHANGED answer
    /\ UNCHANGED <<run, overdue, starting, sent, arriving, listed, touches, history>>

\* An attempt that timed out may still arrive.
MayRetry_Always(r) == TRUE      \* fault: retries without a limit
MayRetry(r) == sent[r] < MaxAttempts
SendAnswer(r) ==
    /\ answer[r] # "none"
    /\ MayRetry(r)
    /\ sent' = [sent EXCEPT ![r] = @ + 1]
    /\ arriving' = [arriving EXCEPT ![r] = @ + 1]
    /\ UNCHANGED <<run, overdue, starting, workflow, answer, listed, touches, history>>

\* POST /v1/runs/ingest: the answer replaces whatever is there.
Ingest(r) ==
    /\ arriving[r] > 0
    /\ arriving' = [arriving EXCEPT ![r] = @ - 1]
    /\ UpdateRun(r, [run[r] EXCEPT !.status = answer[r], !.result = answer[r]])
    /\ ingested' = IF Exists(r) THEN ingested \cup {r} ELSE ingested
    /\ overtaken' = IF \E k \in Scans : r \in listed[k] THEN overtaken \cup {r} ELSE overtaken
    /\ UNCHANGED <<starting, workflow, answer, sent, listed, touches>>

LoseDelivery(r) ==
    /\ arriving[r] > 0
    /\ arriving' = [arriving EXCEPT ![r] = @ - 1]
    /\ UNCHANGED <<run, overdue, starting, workflow, answer, sent, listed, touches, history>>

(***************************************************************************)
(* The timeout checker.                                                    *)
(***************************************************************************)
Age(r) ==
    /\ Exists(r)
    /\ overdue' = overdue \cup {r}
    /\ UNCHANGED <<run, starting, workflow, answer, sent, arriving, listed, touches, history>>

\* getTimedOutRuns.
TimedOut_Started == {r \in overdue : run[r].status # "queued"}  \* fault: answered runs too
TimedOut_Fresh == {r \in Runs \ overdue : run[r].status = "running"}  \* fault: lt for gt
TimedOut == {r \in overdue : run[r].status = "running"}

BeginScan(k) ==
    /\ listed[k] = {} /\ TimedOut # {}
    /\ listed' = [listed EXCEPT ![k] = TimedOut]
    /\ UNCHANGED <<run, overdue, starting, workflow, answer, sent, arriving, touches, history>>

\* markRunAsTimeout.
Mark(k, r) ==
    /\ r \in listed[k]
    /\ listed' = [listed EXCEPT ![k] = @ \ {r}]
    /\ UpdateRun(r, [run[r] EXCEPT !.status = "failed", !.result = "timeout"])
    /\ UNCHANGED <<starting, workflow, answer, sent, arriving, touches, history>>

\* An error is logged and the scan goes on.
MarkFails(k, r) ==
    /\ r \in listed[k]
    /\ listed' = [listed EXCEPT ![k] = @ \ {r}]
    /\ UNCHANGED <<run, overdue, starting, workflow, answer, sent, arriving, touches, history>>

(***************************************************************************)
(* Everything else that touches a run.                                     *)
(***************************************************************************)
\* PATCH /v1/runs/{id}: updated_at is renewed, so the time limit starts again.
TouchRun(r) ==
    /\ Exists(r)
    /\ touches < MaxTouches
    /\ touches' = touches + 1
    /\ UpdateRun(r, run[r])
    /\ UNCHANGED <<starting, workflow, answer, sent, arriving, listed, history>>

RemoveRun(r) ==
    /\ Exists(r)
    /\ UpdateRun(r, [run[r] EXCEPT !.status = "deleted"])
    /\ UNCHANGED <<starting, workflow, answer, sent, arriving, listed, touches, history>>

\* The API process restarts: its scans and its requests are gone.
RestartEngine ==
    /\ listed' = [k \in Scans |-> {}]
    /\ starting' = [r \in Runs |-> IF starting[r] = "not yet" THEN "not yet" ELSE "done"]
    /\ UNCHANGED <<run, overdue, workflow, answer, sent, arriving, touches, history>>

RunsNext ==
    \/ \E r \in Runs :
          \/ CreateRun(r)
          \/ StartWorkflow(r)
          \/ StartFails(r)
          \/ LinkRun(r)
          \/ CallBack(r)
          \/ SendAnswer(r)
          \/ Ingest(r)
          \/ LoseDelivery(r)
          \/ Age(r)
          \/ TouchRun(r)
          \/ RemoveRun(r)
          \/ \E k \in Scans : Mark(k, r) \/ MarkFails(k, r)
    \/ \E k \in Scans : BeginScan(k)
    \/ RestartEngine

RunsSpec == RunsInit /\ [][RunsNext]_runVars

(***************************************************************************)
(* Properties.                                                             *)
(***************************************************************************)
\* A run that has an outcome is never queued or running again: the write that
\* links a run to the runner cannot come after its answer, because the runner
\* finds no run that is not linked (LinkRun, Found).
OutcomeIsFinal ==
    [][\A r \in Runs :
          run[r].status \in RunOutcomes => run[r].status' \notin {"queued", "running"}]_run

\* However often an answer is delivered and however scans overlap, a run shows
\* the timeout instead of an answer that reached the engine only if a scan had
\* listed the run before the answer came (getTimedOutRuns, markRunAsTimeout).
AnswerLostOnlyToOlderScan ==
    \A r \in ingested : Exists(r) /\ run[r].result = "timeout" => r \in overtaken

\* timeout-checker.ts: it "ensures runs don't stay in 'running' status
\* indefinitely when n8n fails to callback".
RunsEnd == \A r \in Runs : run[r].status = "running" ~> run[r].status # "running"
===============================================================================
