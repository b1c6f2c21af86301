------------------------------ MODULE Workflow ------------------------------
(***************************************************************************)
(* The workflow engine of api/handlers_workflow.go: workflows are created, *)
(* changed and deleted by requests, and run when a request triggers them   *)
(* or, for cron workflows, by a goroutine that waits for its ticker.  A    *)
(* run is a row of workflow_runs; the goroutine that executes it has five  *)
(* minutes, and writes the outcome to the row when it is through.          *)
(*                                                                         *)
(* A query is one action.  What a step does elsewhere is left out; that it *)
(* fails, and that a failure may be ignored, is not.                       *)
(***************************************************************************)
EXTENDS Naturals

CONSTANTS
    Flows,     \* workflow ids
    Runs,      \* run ids, each used once (bound)
    Requests,  \* the requests that run at the same time
    NoFlow,    \* no workflow
    NoRun,     \* no run
    MaxSteps   \* bound: steps of a workflow

ASSUME WorkflowAssumption ==
    /\ NoFlow \notin Flows
    /\ NoRun \notin Runs
    /\ MaxSteps \in Nat

VARIABLES
    flow,     \* the row of a workflow: whether it is there, and enabled
    isCron,   \* workflows.trigger_type is "cron", and the interval is valid
    status,   \* workflow_runs.status; "none" before the insert
    runOf,    \* workflow_runs.workflow_id
    exec,     \* the goroutine in executeWorkflow, with its locals
    loop,     \* the goroutine in runCronWorkflow, and the run it executes
    req,      \* the requests: the query they make next, with their locals
    started,  \* startCronWorkflows has run since the server started
    late      \* history: cron runs created since the workflow was disabled

vars == <<flow, isCron, status, runOf, exec, loop, req, started, late>>

-----------------------------------------------------------------------------

FlowState == {"absent", "enabled", "disabled", "deleted"}

\* proto.WorkflowRunStatus; deleting a workflow deletes the rows of its runs.
RunStatus == {"none", "running", "completed", "failed", "deleted"}

Exec == [at : {"none",
               "stepping",   \* at the top of the loop over the steps
               "saving",     \* the last UpdateWorkflowRun
               "panicking",  \* in the deferred function
               "ended",
               "lost"},      \* the server stopped, or the update failed for
                             \* another reason than the deadline
         left : Nat, failed : BOOLEAN, expired : BOOLEAN, cron : BOOLEAN]

Loop == [at : {"off", "waiting", "creating", "executing"}, run : Runs \cup {NoRun}]

Request == [at : {"idle", "triggering", "updating"}, flow : Flows \cup {NoFlow},
            enabled : BOOLEAN, cron : BOOLEAN]

NoExec == [at |-> "none", left |-> 0, failed |-> FALSE, expired |-> FALSE, cron |-> FALSE]
Off == [at |-> "off", run |-> NoRun]
Waiting == [at |-> "waiting", run |-> NoRun]
Idle == [at |-> "idle", flow |-> NoFlow, enabled |-> FALSE, cron |-> FALSE]

TypeOK ==
    /\ flow \in [Flows -> FlowState]
    /\ isCron \in [Flows -> BOOLEAN]
    /\ status \in [Runs -> RunStatus]
    /\ runOf \in [Runs -> Flows \cup {NoFlow}]
    /\ exec \in [Runs -> Exec]
    /\ loop \in [Flows -> Loop]
    /\ req \in [Requests -> Request]
    /\ started \in BOOLEAN
    /\ late \in [Flows -> Nat]

Init ==
    /\ flow = [w \in Flows |-> "absent"]
    /\ isCron = [w \in Flows |-> FALSE]
    /\ status = [r \in Runs |-> "none"]
    /\ runOf = [r \in Runs |-> NoFlow]
    /\ exec = [r \in Runs |-> NoExec]
    /\ loop = [w \in Flows |-> Off]
    /\ req = [q \in Requests |-> Idle]
    /\ started = FALSE
    /\ late = [w \in Flows |-> 0]

\* A row is there.
Stored(w) == flow[w] \in {"enabled", "disabled"}

\* A goroutine is inside executeWorkflow.
Active(r) == exec[r].at \in {"stepping", "saving", "panicking"}

\* The request ends.
Done(q) == req' = [req EXCEPT ![q] = Idle]

-----------------------------------------------------------------------------
\* Requests

CreateWorkflow(w) ==
    /\ flow[w] = "absent"
    /\ flow' = [flow EXCEPT ![w] = "enabled"]
    /\ \E c \in BOOLEAN : isCron' = [isCron EXCEPT ![w] = c]
    /\ UNCHANGED <<status, runOf, exec, loop, req, started, late>>

\* handleUpdateWorkflow reads the row and puts the fields of the body into its
\* copy: whichever they are, the copy may be enabled or not, and cron or not.
UpdateRead(q, w) ==
    /\ req[q].at = "idle"
    /\ Stored(w)
    /\ \E e, c \in BOOLEAN :
          req' = [req EXCEPT ![q] = [at |-> "updating", flow |-> w, enabled |-> e, cron |-> c]]
    /\ UNCHANGED <<flow, isCron, status, runOf, exec, loop, started, late>>

\* UpdateWorkflow writes all fields of the copy, if the row is still there.
UpdateWrite(q) ==
    /\ req[q].at = "updating"
    /\ LET w == req[q].flow IN
       IF Stored(w)
       THEN /\ flow' = [flow EXCEPT ![w] = IF req[q].enabled THEN "enabled" ELSE "disabled"]
            /\ isCron' = [isCron EXCEPT ![w] = req[q].cron]
            /\ late' = [late EXCEPT ![w] = IF req[q].enabled THEN 0 ELSE @]
       ELSE UNCHANGED <<flow, isCron, late>>
    /\ Done(q)
    /\ UNCHANGED <<status, runOf, exec, loop, started>>

\* One statement, whatever runs; the runs go with the workflow.
DeleteWorkflow(w) ==
    /\ Stored(w)
    /\ flow' = [flow EXCEPT ![w] = "deleted"]
    /\ status' = [r \in Runs |-> IF runOf[r] = w THEN "deleted" ELSE status[r]]
    /\ UNCHANGED <<isCron, runOf, exec, loop, req, started, late>>

\* handleTriggerWorkflow refuses a workflow that is disabled.
TriggerRead(q, w) ==
    /\ req[q].at = "idle"
    /\ flow[w] = "enabled"
    /\ req' = [req EXCEPT ![q] = [Idle EXCEPT !.at = "triggering", !.flow = w]]
    /\ UNCHANGED <<flow, isCron, status, runOf, exec, loop, started, late>>

\* A new row, and executeWorkflow begins.  The steps are those of the copy of
\* the workflow; if they are not steps the run fails at once.
NewRun(r, w, cron) ==
    /\ status[r] = "none"
    /\ status' = [status EXCEPT ![r] = "running"]
    /\ runOf' = [runOf EXCEPT ![r] = w]
    /\ \E n \in 0..MaxSteps, valid \in BOOLEAN :
          exec' = [exec EXCEPT ![r] =
                     [at |-> IF valid THEN "stepping" ELSE "saving", left |-> n,
                      failed |-> ~valid, expired |-> FALSE, cron |-> cron]]

\* CreateWorkflowRun by a request; the workflow may be disabled by now.
TriggerCreate(q, r) ==
    /\ req[q].at = "triggering"
    /\ Stored(req[q].flow)
    /\ NewRun(r, req[q].flow, FALSE)
    /\ Done(q)
    /\ UNCHANGED <<flow, isCron, loop, started, late>>

\* A query fails (the client went away, the workflow was deleted).
RequestFails(q) ==
    /\ req[q].at # "idle"
    /\ Done(q)
    /\ UNCHANGED <<flow, isCron, status, runOf, exec, loop, started, late>>

-----------------------------------------------------------------------------
\* executeWorkflow

\* executeStep: the step succeeds, or fails and is to be continued, or fails and
\* ends the loop.
ExecStep(r) ==
    /\ exec[r].at = "stepping" /\ exec[r].left > 0 /\ ~exec[r].expired
    /\ \/ exec' = [exec EXCEPT ![r].left = @ - 1]
       \/ exec' = [exec EXCEPT ![r].left = @ - 1, ![r].failed = TRUE]
       \/ exec' = [exec EXCEPT ![r].left = @ - 1, ![r].failed = TRUE, ![r].at = "saving"]
    /\ UNCHANGED <<flow, isCron, status, runOf, loop, req, started, late>>

\* The loop ends after the last step or at the deadline; the steps that are
\* left then count as skipped, which is not a failure.
ExecLeave(r) ==
    /\ exec[r].at = "stepping"
    /\ exec[r].left = 0 \/ exec[r].expired
    /\ exec' = [exec EXCEPT ![r].at = "saving"]
    /\ UNCHANGED <<flow, isCron, status, runOf, loop, req, started, late>>

\* Five minutes have passed.
Expire(r) ==
    /\ exec[r].at \in {"stepping", "saving"}
    /\ ~exec[r].expired
    /\ exec' = [exec EXCEPT ![r].expired = TRUE]
    /\ UNCHANGED <<flow, isCron, status, runOf, loop, req, started, late>>

\* The row of a run gets its outcome, if it is still there.
Record(r, outcome) ==
    status' = [status EXCEPT ![r] = IF @ = "deleted" THEN @ ELSE outcome]

\* Mutant: the outcome is saved with a context of its own.
ExecSaveAnyway(r) ==
    /\ exec[r].at = "saving"
    /\ Record(r, IF exec[r].failed THEN "failed" ELSE "completed")
    /\ exec' = [exec EXCEPT ![r].at = "ended"]
    /\ UNCHANGED <<flow, isCron, runOf, loop, req, started, late>>

\* Mutant: the outcome is spelt as that of a task.
ExecSaveDone(r) ==
    /\ exec[r].at = "saving"
    /\ IF exec[r].expired THEN UNCHANGED status
       ELSE Record(r, IF exec[r].failed THEN "failed" ELSE "done")
    /\ exec' = [exec EXCEPT ![r].at = "ended"]
    /\ UNCHANGED <<flow, isCron, runOf, loop, req, started, late>>

\* Mutant: an update that fails is tried again, with the context that has expired.
ExecSaveRetries(r) ==
    /\ exec[r].at = "saving"
    /\ IF exec[r].expired
       THEN exec' = [exec EXCEPT ![r].at = "stepping"] /\ UNCHANGED status
       ELSE /\ exec' = [exec EXCEPT ![r].at = "ended"]
            /\ Record(r, IF exec[r].failed THEN "failed" ELSE "completed")
    /\ UNCHANGED <<flow, isCron, runOf, loop, req, started, late>>

\* UpdateWorkflowRun with the context of the run: it fails once that has
\* expired, and the error is dropped.
ExecSave(r) ==
    /\ exec[r].at = "saving"
    /\ IF exec[r].expired THEN UNCHANGED status
       ELSE Record(r, IF exec[r].failed THEN "failed" ELSE "completed")
    /\ exec' = [exec EXCEPT ![r].at = "ended"]
    /\ UNCHANGED <<flow, isCron, runOf, loop, req, started, late>>

\* A step panics.
Panic(r) ==
    /\ exec[r].at = "stepping" /\ exec[r].left > 0 /\ ~exec[r].expired
    /\ exec' = [exec EXCEPT ![r].at = "panicking", ![r].failed = TRUE]
    /\ UNCHANGED <<flow, isCron, status, runOf, loop, req, started, late>>

\* The deferred function saves the failure without a deadline.
PanicSave(r) ==
    /\ exec[r].at = "panicking"
    /\ Record(r, "failed")
    /\ exec' = [exec EXCEPT ![r].at = "ended"]
    /\ UNCHANGED <<flow, isCron, runOf, loop, req, started, late>>

\* Either update fails for another reason; the error is dropped.
SaveFails(r) ==
    /\ exec[r].at \in {"saving", "panicking"}
    /\ exec' = [exec EXCEPT ![r].at = "lost"]
    /\ UNCHANGED <<flow, isCron, status, runOf, loop, req, started, late>>

-----------------------------------------------------------------------------
\* Cron

\* startCronWorkflows, once after the start of the server: a goroutine for
\* every enabled cron workflow there is, or none when a query fails.
StartCron ==
    /\ ~started
    /\ started' = TRUE
    /\ \E ok \in BOOLEAN :
          loop' = [w \in Flows |-> IF ok /\ flow[w] = "enabled" /\ isCron[w] THEN Waiting ELSE Off]
    /\ UNCHANGED <<flow, isCron, status, runOf, exec, req, late>>

\* Mutant: only the copy of the workflow is looked at, which was enabled.
CronTickStale(w) ==
    /\ loop[w].at = "waiting"
    /\ loop' = [loop EXCEPT ![w].at = "creating"]
    /\ UNCHANGED <<flow, isCron, status, runOf, exec, req, started, late>>

\* A tick: the loop ends unless the workflow can be read and is enabled; it is not
\* looked at whether it is still a cron workflow.
CronTick(w) ==
    /\ loop[w].at = "waiting"
    /\ \/ flow[w] = "enabled" /\ loop' = [loop EXCEPT ![w].at = "creating"]
       \/ loop' = [loop EXCEPT ![w] = Off]
    /\ UNCHANGED <<flow, isCron, status, runOf, exec, req, started, late>>

\* Mutant: executeWorkflow is started as a goroutine.
CronCreateGoes(w, r) ==
    /\ loop[w].at = "creating"
    /\ Stored(w)
    /\ NewRun(r, w, TRUE)
    /\ loop' = [loop EXCEPT ![w] = Waiting]
    /\ late' = [late EXCEPT ![w] = IF flow[w] = "disabled" THEN @ + 1 ELSE @]
    /\ UNCHANGED <<flow, isCron, req, started>>

\* CreateWorkflowRun; the loop executes the run before it waits again.
CronCreate(w, r) ==
    /\ loop[w].at = "creating"
    /\ Stored(w)
    /\ NewRun(r, w, TRUE)
    /\ loop' = [loop EXCEPT ![w] = [at |-> "executing", run |-> r]]
    /\ late' = [late EXCEPT ![w] = IF flow[w] = "disabled" THEN @ + 1 ELSE @]
    /\ UNCHANGED <<flow, isCron, req, started>>

\* CreateWorkflowRun fails: the loop waits for the next tick.
CronCreateFails(w) ==
    /\ loop[w].at = "creating"
    /\ loop' = [loop EXCEPT ![w] = Waiting]
    /\ UNCHANGED <<flow, isCron, status, runOf, exec, req, started, late>>

\* executeWorkflow returns, in whatever way.
CronContinue(w) ==
    /\ loop[w].at = "executing"
    /\ ~Active(loop[w].run)
    /\ loop' = [loop EXCEPT ![w] = Waiting]
    /\ UNCHANGED <<flow, isCron, status, runOf, exec, req, started, late>>

\* The server stops and starts again: the goroutines are gone, the rows stay.
Crash ==
    /\ started
    /\ started' = FALSE
    /\ exec' = [r \in Runs |-> IF Active(r) THEN [exec[r] EXCEPT !.at = "lost"] ELSE exec[r]]
    /\ loop' = [w \in Flows |-> Off]
    /\ req' = [q \in Requests |-> Idle]
    /\ UNCHANGED <<flow, isCron, status, runOf, late>>

-----------------------------------------------------------------------------

RequestStep(q) ==
    \/ \E w \in Flows : UpdateRead(q, w) \/ TriggerRead(q, w)
    \/ UpdateWrite(q)
    \/ \E r \in Runs : TriggerCreate(q, r)
    \/ RequestFails(q)

\* What a running execution does of its own accord.
ExecGoesOn(r) == ExecStep(r) \/ ExecLeave(r) \/ ExecSave(r) \/ PanicSave(r)

ExecStops(r) == Expire(r) \/ Panic(r) \/ SaveFails(r)

CronStep(w) ==
    \/ CronTick(w)
    \/ \E r \in Runs : CronCreate(w, r)
    \/ CronCreateFails(w)
    \/ CronContinue(w)

Next ==
    \/ \E w \in Flows : CreateWorkflow(w) \/ DeleteWorkflow(w) \/ CronStep(w)
    \/ \E q \in Requests : RequestStep(q)
    \/ \E r \in Runs : ExecGoesOn(r) \/ ExecStops(r)
    \/ StartCron
    \/ Crash

Spec == Init /\ [][Next]_vars

\* Goroutines are scheduled: an execution goes on (a step that waits for another
\* server ends at the deadline at the latest), and so does a cron loop.
FairSpec ==
    /\ Spec
    /\ \A r \in Runs : WF_vars(ExecGoesOn(r))
    /\ \A w \in Flows : WF_vars(CronStep(w))

-----------------------------------------------------------------------------
\* The row of a run tells what happened: "completed" that every step was
\* executed and none failed, "failed" that one failed or the steps could not be
\* read.  In particular a run cut short at the deadline, whose missing steps are
\* only "skipped" (handlers_workflow.go: executeWorkflow), never looks completed.
\* "running" tells that the run is being executed, unless the deadline passed, the
\* server stopped or the database failed: whether steps fail, are invalid or panic.
RowTellsOutcome == \A r \in Runs :
    /\ status[r] = "completed" => exec[r].left = 0 /\ ~exec[r].failed
    /\ status[r] = "failed" => exec[r].failed
    /\ status[r] = "running" => Active(r) \/ exec[r].at = "lost" \/ exec[r].expired

\* The cron loop of a workflow does not start a run while the last one it started
\* is being executed (handlers_workflow.go: runCronWorkflow), also over restarts.
CronSequential == \A r, s \in Runs :
    Active(r) /\ exec[r].cron /\ Active(s) /\ exec[s].cron /\ runOf[r] = runOf[s] => r = s

\* Once a workflow is disabled its cron loop creates at most one more run, the one
\* for which the workflow had been read before (handlers_workflow.go:
\* runCronWorkflow reads the workflow again at every tick).
LateCronOnce == \A w \in Flows : late[w] <= 1

\* The loop of a workflow that stays disabled, or is deleted, comes to an end for
\* good (handlers_workflow.go: runCronWorkflow breaks at a tick, and the next start of
\* the server does not begin another).
LoopEnds == \A w \in Flows : <>[](flow[w] # "enabled") => <>[](loop[w].at = "off")

\* Every execution comes to an end (executeWorkflow is called synchronously by the
\* cron loop, which depends on it).
RunsEnd == \A r \in Runs : Active(r) ~> ~Active(r)

\* src/README.md:50: runs are tracked, and executeWorkflow has a "context timeout": a
\* run that reached its deadline has an outcome in the end.  (Violated: the outcome
\* is written with the context that has expired.)
OutcomeRecorded == \A r \in Runs :
    exec[r].at = "ended" => status[r] \in {"completed", "failed", "deleted"}
=============================================================================
