--------------------------- MODULE WorkflowProofs ---------------------------
(***************************************************************************)
(* Theorems about Workflow, for all workflows, runs, requests and numbers  *)
(* of steps.                                                               *)
(***************************************************************************)
EXTENDS Workflow, TLAPS

-----------------------------------------------------------------------------
\* The rows and the locals of the goroutines of handlers_workflow.go keep their types.
THEOREM TypeCorrect == Spec => []TypeOK
<1>0. NoExec \in Exec /\ Off \in Loop /\ Waiting \in Loop /\ Idle \in Request
  BY DEF NoExec, Exec, Off, Waiting, Loop, Idle, Request
<1>1. Init => TypeOK
  <2> SUFFICES ASSUME Init PROVE TypeOK
    OBVIOUS
  <2>1. flow \in [Flows -> FlowState] /\ isCron \in [Flows -> BOOLEAN]
    BY DEF Init, FlowState
  <2>2. status \in [Runs -> RunStatus] /\ runOf \in [Runs -> Flows \cup {NoFlow}]
    BY DEF Init, RunStatus
  <2>3. exec \in [Runs -> Exec] /\ loop \in [Flows -> Loop] /\ req \in [Requests -> Request]
    BY <1>0 DEF Init
  <2>4. started \in BOOLEAN /\ late \in [Flows -> Nat]
    BY DEF Init
  <2> QED BY <2>1, <2>2, <2>3, <2>4 DEF TypeOK
<1>2. TypeOK /\ [Next]_vars => TypeOK'
  <2> SUFFICES ASSUME TypeOK, [Next]_vars PROVE TypeOK'
    OBVIOUS
  <2> USE DEF TypeOK
  <2>a. ASSUME NEW r \in Runs, NEW w \in Flows \cup {NoFlow}, NEW c \in BOOLEAN, NewRun(r, w, c)
        PROVE  /\ status' \in [Runs -> RunStatus] /\ runOf' \in [Runs -> Flows \cup {NoFlow}]
               /\ exec' \in [Runs -> Exec]
    <3>1. PICK n \in 0..MaxSteps, valid \in BOOLEAN :
             exec' = [exec EXCEPT ![r] =
                        [at |-> IF valid THEN "stepping" ELSE "saving", left |-> n,
                         failed |-> ~valid, expired |-> FALSE, cron |-> c]]
      BY <2>a DEF NewRun
    <3>2. n \in Nat
      BY WorkflowAssumption
    <3>3. [at |-> IF valid THEN "stepping" ELSE "saving", left |-> n,
           failed |-> ~valid, expired |-> FALSE, cron |-> c] \in Exec
      BY <3>2 DEF Exec
    <3> QED BY <2>a, <3>1, <3>3 DEF NewRun, RunStatus
  <2>1. ASSUME NEW w \in Flows, CreateWorkflow(w) PROVE TypeOK'
    BY <2>1 DEF CreateWorkflow, FlowState
  <2>2. ASSUME NEW w \in Flows, DeleteWorkflow(w) PROVE TypeOK'
    BY <2>2 DEF DeleteWorkflow, FlowState, RunStatus
  <2>3. ASSUME NEW q \in Requests, RequestStep(q) PROVE TypeOK'
    <3>1. ASSUME NEW w \in Flows, UpdateRead(q, w) PROVE TypeOK'
      <4>1. PICK e, c \in BOOLEAN :
              req' = [req EXCEPT ![q] = [at |-> "updating", flow |-> w, enabled |-> e, cron |-> c]]
        BY <3>1 DEF UpdateRead
      <4>2. [at |-> "updating", flow |-> w, enabled |-> e, cron |-> c] \in Request
        BY DEF Request
      <4> QED BY <3>1, <4>1, <4>2 DEF UpdateRead
    <3>2. ASSUME NEW w \in Flows, TriggerRead(q, w) PROVE TypeOK'
      <4>1. [Idle EXCEPT !.at = "triggering", !.flow = w] \in Request
        BY DEF Idle, Request
      <4> QED BY <3>2, <4>1 DEF TriggerRead
    <3>3. CASE UpdateWrite(q)
      <4>1. req[q].cron \in BOOLEAN
        BY DEF Request
      <4>2. flow' \in [Flows -> FlowState]
        BY <3>3 DEF UpdateWrite, FlowState
      <4>3. isCron' \in [Flows -> BOOLEAN]
        BY <3>3, <4>1 DEF UpdateWrite
      <4>4. late' \in [Flows -> Nat]
        BY <3>3 DEF UpdateWrite
      <4> QED BY <1>0, <3>3, <4>2, <4>3, <4>4 DEF UpdateWrite, Done
    <3>4. ASSUME NEW r \in Runs, TriggerCreate(q, r) PROVE TypeOK'
      <4>1. req[q].flow \in Flows \cup {NoFlow}
        BY DEF Request
      <4>2. NewRun(r, req[q].flow, FALSE)
        BY <3>4 DEF TriggerCreate
      <4> QED BY <1>0, <2>a, <3>4, <4>1, <4>2 DEF TriggerCreate, Done
    <3>5. CASE RequestFails(q)
      BY <1>0, <3>5 DEF RequestFails, Done
    <3> QED BY <2>3, <3>1, <3>2, <3>3, <3>4, <3>5 DEF RequestStep
  <2>4. ASSUME NEW r \in Runs, ExecGoesOn(r) PROVE TypeOK'
    <3>1. CASE ExecStep(r)
      <4>1. exec[r] \in Exec /\ exec[r].left - 1 \in Nat
        BY <3>1 DEF ExecStep, Exec
      <4>2. exec' \in [Runs -> Exec]
        BY <3>1, <4>1 DEF ExecStep, Exec
      <4> QED BY <3>1, <4>2 DEF ExecStep
    <3>2. CASE ExecLeave(r)
      BY <3>2 DEF ExecLeave, Exec
    <3>3. CASE ExecSave(r)
      <4>1. status' \in [Runs -> RunStatus]
        BY <3>3 DEF ExecSave, Record, RunStatus
      <4>2. exec' \in [Runs -> Exec]
        BY <3>3 DEF ExecSave, Exec
      <4> QED BY <3>3, <4>1, <4>2 DEF ExecSave
    <3>4. CASE PanicSave(r)
      BY <3>4 DEF PanicSave, Record, RunStatus, Exec
    <3> QED BY <2>4, <3>1, <3>2, <3>3, <3>4 DEF ExecGoesOn
  <2>5. ASSUME NEW r \in Runs, ExecStops(r) PROVE TypeOK'
    <3>1. CASE Expire(r)
      BY <3>1 DEF Expire, Exec
    <3>2. CASE Panic(r)
      BY <3>2 DEF Panic, Exec
    <3>3. CASE SaveFails(r)
      BY <3>3 DEF SaveFails, Exec
    <3> QED BY <2>5, <3>1, <3>2, <3>3 DEF ExecStops
  <2>6. ASSUME NEW w \in Flows, CronStep(w) PROVE TypeOK'
    <3>1. CASE CronTick(w)
      BY <1>0, <3>1 DEF CronTick, Loop
    <3>2. ASSUME NEW r \in Runs, CronCreate(w, r) PROVE TypeOK'
      <4>1. NewRun(r, w, TRUE)
        BY <3>2 DEF CronCreate
      <4>2. loop' \in [Flows -> Loop]
        BY <3>2 DEF CronCreate, Loop
      <4>3. late' \in [Flows -> Nat]
        BY <3>2 DEF CronCreate
      <4> QED BY <2>a, <3>2, <4>1, <4>2, <4>3 DEF CronCreate
    <3>3. CASE CronCreateFails(w) \/ CronContinue(w)
      BY <1>0, <3>3 DEF CronCreateFails, CronContinue
    <3> QED BY <2>6, <3>1, <3>2, <3>3 DEF CronStep
  <2>7. CASE StartCron
    BY <1>0, <2>7 DEF StartCron
  <2>8. CASE Crash
    BY <1>0, <2>8 DEF Crash, Exec
  <2>9. CASE UNCHANGED vars
    BY <2>9 DEF vars
  <2> QED BY <2>1, <2>2, <2>3, <2>4, <2>5, <2>6, <2>7, <2>8, <2>9 DEF Next
<1> QED BY <1>1, <1>2, PTL DEF Spec

-----------------------------------------------------------------------------
\* What executeStep may do to the locals of the goroutine.
LEMMA StepTaken ==
    ASSUME TypeOK, NEW r \in Runs, ExecStep(r)
    PROVE  /\ exec' = [exec EXCEPT ![r] = exec'[r]]
           /\ exec'[r].at = "stepping" \/ (exec'[r].at = "saving" /\ exec'[r].failed)
           /\ exec'[r].cron = exec[r].cron
           /\ Active(r) /\ UNCHANGED status
<1>1. exec \in [Runs -> Exec] /\ exec[r] \in Exec
  BY DEF TypeOK
<1>2. CASE exec' = [exec EXCEPT ![r].left = @ - 1]
  BY <1>1, <1>2 DEF ExecStep, Exec, Active
<1>3. CASE exec' = [exec EXCEPT ![r].left = @ - 1, ![r].failed = TRUE]
  BY <1>1, <1>3 DEF ExecStep, Exec, Active
<1>4. CASE exec' = [exec EXCEPT ![r].left = @ - 1, ![r].failed = TRUE, ![r].at = "saving"]
  BY <1>1, <1>4 DEF ExecStep, Exec, Active
<1> QED BY <1>2, <1>3, <1>4 DEF ExecStep

-----------------------------------------------------------------------------
\* What a row says, with the two places from which an outcome is written: the last
\* update, which is only reached with steps left when one failed or the deadline
\* passed, and the deferred function.
OutcomeInv == \A r \in Runs :
    /\ status[r] = "completed" => exec[r].at = "ended" /\ exec[r].left = 0 /\ ~exec[r].failed
    /\ status[r] = "failed" => exec[r].at = "ended" /\ exec[r].failed
    /\ exec[r].at = "saving" => exec[r].left = 0 \/ exec[r].failed \/ exec[r].expired
    /\ exec[r].at = "panicking" => exec[r].failed

\* What happens to a row and its execution in a step that does not belong to them.
LEMMA OtherSteps ==
    ASSUME TypeOK, [Next]_vars, NEW r \in Runs,
           ~ExecGoesOn(r), ~ExecStops(r)
    PROVE \/ exec'[r] = exec[r] /\ (status'[r] = status[r] \/ status'[r] = "deleted")
          \/ /\ status[r] = "none" /\ status'[r] = "running"
             /\ \/ exec'[r].at = "stepping"
                \/ exec'[r].at = "saving" /\ exec'[r].failed
          \/ /\ status'[r] = status[r]
             /\ Active(r)
             /\ exec'[r] = [exec[r] EXCEPT !.at = "lost"]
<1> DEFINE G == \/ exec'[r] = exec[r] /\ (status'[r] = status[r] \/ status'[r] = "deleted")
                \/ /\ status[r] = "none" /\ status'[r] = "running"
                   /\ \/ exec'[r].at = "stepping"
                      \/ exec'[r].at = "saving" /\ exec'[r].failed
                \/ /\ status'[r] = status[r]
                   /\ Active(r)
                   /\ exec'[r] = [exec[r] EXCEPT !.at = "lost"]
<1> USE DEF TypeOK
<1>1. ASSUME NEW s \in Runs, NEW w, NEW c, NewRun(s, w, c) PROVE G
  <2>1. PICK n \in 0..MaxSteps, valid \in BOOLEAN :
           exec' = [exec EXCEPT ![s] =
                      [at |-> IF valid THEN "stepping" ELSE "saving", left |-> n,
                       failed |-> ~valid, expired |-> FALSE, cron |-> c]]
    BY <1>1 DEF NewRun
  <2>2. status[s] = "none" /\ status' = [status EXCEPT ![s] = "running"]
    BY <1>1 DEF NewRun
  <2>3. CASE s = r
    BY <2>1, <2>2, <2>3
  <2>4. CASE s # r
    BY <2>1, <2>2, <2>4
  <2> QED BY <2>3, <2>4
<1>2. ASSUME NEW s \in Runs, ExecGoesOn(s) \/ ExecStops(s) PROVE G
  <2>0. s # r
    BY <1>2
  <2>a. CASE ExecStep(s)
    BY <2>0, <2>a, StepTaken
  <2>1. CASE ExecLeave(s) \/ ExecStops(s)
    BY <2>0, <2>1 DEF ExecLeave, ExecStops, Expire, Panic, SaveFails
  <2>2. CASE ExecSave(s)
    BY <2>0, <2>2 DEF ExecSave, Record
  <2>3. CASE PanicSave(s)
    BY <2>0, <2>3 DEF PanicSave, Record
  <2> QED BY <1>2, <2>a, <2>1, <2>2, <2>3 DEF ExecGoesOn
<1>3. ASSUME NEW w \in Flows, CreateWorkflow(w) \/ DeleteWorkflow(w) PROVE G
  BY <1>3 DEF CreateWorkflow, DeleteWorkflow
<1>4. ASSUME NEW q \in Requests, RequestStep(q) PROVE G
  BY <1>1, <1>4 DEF RequestStep, UpdateRead, TriggerRead, UpdateWrite, TriggerCreate, RequestFails
<1>5. ASSUME NEW w \in Flows, CronStep(w) PROVE G
  BY <1>1, <1>5 DEF CronStep, CronTick, CronCreate, CronCreateFails, CronContinue
<1>6. CASE StartCron
  BY <1>6 DEF StartCron
<1>7. CASE Crash
  BY <1>7 DEF Crash
<1>8. CASE UNCHANGED vars
  BY <1>8 DEF vars
<1> QED BY <1>2, <1>3, <1>4, <1>5, <1>6, <1>7, <1>8 DEF Next

\* A row that says "running" is that of a run that is being executed, or that was cut
\* short by the deadline, a restart or a failed update.
RunningRowExplained == \A r \in Runs :
    status[r] = "running" => Active(r) \/ exec[r].at = "lost" \/ exec[r].expired

\* A row stays "running" for no other reasons than the deadline, a restart or a failed
\* update (handlers_workflow.go: executeWorkflow and its deferred function).
LEMMA RunningExplained == Spec => []RunningRowExplained
<1>1. Init => RunningRowExplained
  BY DEF Init, RunningRowExplained
<1>2. TypeOK /\ RunningRowExplained /\ [Next]_vars => RunningRowExplained'
  <2> SUFFICES ASSUME TypeOK, RunningRowExplained, [Next]_vars, NEW r \in Runs,
                      status'[r] = "running"
               PROVE  Active(r)' \/ exec'[r].at = "lost" \/ exec'[r].expired
    BY DEF RunningRowExplained
  <2>0. exec[r] \in Exec /\ exec \in [Runs -> Exec] /\ status \in [Runs -> RunStatus]
    BY DEF TypeOK
  <2>1. CASE ExecGoesOn(r)
    <3>0. CASE ExecStep(r)
      BY <3>0, StepTaken DEF Active
    <3>1. CASE ExecLeave(r)
      BY <2>0, <3>1 DEF ExecLeave, Exec, Active
    <3>2. CASE ExecSave(r)
      BY <2>0, <3>2 DEF RunningRowExplained, ExecSave, Record, Exec, Active
    <3>3. CASE PanicSave(r)
      BY <2>0, <3>3 DEF PanicSave, Record, Exec
    <3> QED BY <2>1, <3>0, <3>1, <3>2, <3>3 DEF ExecGoesOn
  <2>2. CASE ExecStops(r)
    BY <2>0, <2>2 DEF ExecStops, Expire, Panic, SaveFails, Exec, RunStatus, Active
  <2>3. CASE ~ExecGoesOn(r) /\ ~ExecStops(r)
    BY <2>0, <2>3, OtherSteps DEF RunningRowExplained, Active, Exec
  <2> QED BY <2>1, <2>2, <2>3
<1> QED BY <1>1, <1>2, TypeCorrect, PTL DEF Spec

\* Neither the deadline nor a panic, a restart, a deletion or another run makes a row
\* say what did not happen (handlers_workflow.go: executeWorkflow).
THEOREM OutcomeTold == Spec => []RowTellsOutcome
<1>1. Init => OutcomeInv
  BY DEF Init, OutcomeInv, NoExec
<1>2. TypeOK /\ OutcomeInv /\ [Next]_vars => OutcomeInv'
  <2> SUFFICES ASSUME TypeOK, OutcomeInv, [Next]_vars, NEW r \in Runs
               PROVE  /\ status'[r] = "completed" =>
                           exec'[r].at = "ended" /\ exec'[r].left = 0 /\ ~exec'[r].failed
                      /\ status'[r] = "failed" => exec'[r].at = "ended" /\ exec'[r].failed
                      /\ exec'[r].at = "saving" =>
                           exec'[r].left = 0 \/ exec'[r].failed \/ exec'[r].expired
                      /\ exec'[r].at = "panicking" => exec'[r].failed
    BY DEF OutcomeInv
  <2>0. exec[r] \in Exec /\ exec \in [Runs -> Exec] /\ status \in [Runs -> RunStatus]
    BY DEF TypeOK
  <2>1. CASE ExecGoesOn(r)
    <3>0. CASE ExecStep(r)
      BY <2>0, <3>0, StepTaken DEF OutcomeInv, ExecStep
    <3>1. CASE ExecLeave(r)
      BY <2>0, <3>1 DEF OutcomeInv, ExecLeave, Exec
    <3>2. CASE ExecSave(r)
      BY <2>0, <3>2 DEF OutcomeInv, ExecSave, Record, Exec
    <3>3. CASE PanicSave(r)
      BY <2>0, <3>3 DEF OutcomeInv, PanicSave, Record, Exec
    <3> QED BY <2>1, <3>0, <3>1, <3>2, <3>3 DEF ExecGoesOn
  <2>2. CASE ExecStops(r)
    BY <2>0, <2>2 DEF OutcomeInv, ExecStops, Expire, Panic, SaveFails, Exec, RunStatus
  <2>3. CASE ~ExecGoesOn(r) /\ ~ExecStops(r)
    BY <2>0, <2>3, OtherSteps DEF OutcomeInv, Active, Exec
  <2> QED BY <2>1, <2>2, <2>3
<1>3. OutcomeInv /\ RunningRowExplained => RowTellsOutcome
  BY DEF OutcomeInv, RunningRowExplained, RowTellsOutcome
<1> QED BY <1>1, <1>2, <1>3, TypeCorrect, RunningExplained, PTL DEF Spec

-----------------------------------------------------------------------------
\* A run that the cron loop executes is the one the loop waits for, and loops only
\* exist after the start of the server.
CronInv ==
    /\ \A r \in Runs : Active(r) /\ exec[r].cron =>
          /\ runOf[r] \in Flows
          /\ loop[runOf[r]] = [at |-> "executing", run |-> r]
    /\ ~started => \A w \in Flows : loop[w].at = "off"

\* For every number of workflows and runs, and over any number of restarts, no two
\* runs of a workflow's cron loop overlap (handlers_workflow.go: runCronWorkflow).
THEOREM CronRunsInTurn == Spec => []CronSequential
<1>1. Init => CronInv
  BY DEF Init, CronInv, Active, NoExec, Off
<1>2. TypeOK /\ CronInv /\ [Next]_vars => CronInv'
  <2> SUFFICES ASSUME TypeOK, CronInv, [Next]_vars PROVE CronInv'
    OBVIOUS
  <2>0. exec \in [Runs -> Exec] /\ loop \in [Flows -> Loop] /\ status \in [Runs -> RunStatus]
        /\ runOf \in [Runs -> Flows \cup {NoFlow}]
    BY DEF TypeOK
  <2>a. ASSUME UNCHANGED <<runOf, loop, started>>,
               \A r \in Runs : Active(r)' /\ exec'[r].cron => Active(r) /\ exec[r].cron
        PROVE CronInv'
    BY <2>a DEF CronInv
  <2>1. ASSUME NEW w \in Flows, CreateWorkflow(w) \/ DeleteWorkflow(w) PROVE CronInv'
    BY <2>a, <2>1 DEF CreateWorkflow, DeleteWorkflow, Active
  <2>2. ASSUME NEW q \in Requests, RequestStep(q) PROVE CronInv'
    <3>1. ASSUME NEW r \in Runs, TriggerCreate(q, r) PROVE CronInv'
      <4>1. /\ exec' = [exec EXCEPT ![r] = exec'[r]] /\ ~exec'[r].cron
            /\ runOf' = [runOf EXCEPT ![r] = runOf'[r]]
            /\ UNCHANGED <<loop, started>>
        BY <2>0, <3>1 DEF TriggerCreate, NewRun
      <4> QED BY <2>0, <4>1 DEF CronInv, Active
    <3>2. CASE ~\E r \in Runs : TriggerCreate(q, r)
      BY <2>a, <2>2, <3>2 DEF RequestStep, UpdateRead, TriggerRead, UpdateWrite, RequestFails, Active
    <3> QED BY <3>1, <3>2
  <2>3. ASSUME NEW r \in Runs, ExecGoesOn(r) \/ ExecStops(r) PROVE CronInv'
    <3>1. \A s \in Runs : Active(s)' /\ exec'[s].cron => Active(s) /\ exec[s].cron
      <4>1. CASE ExecStep(r)
        BY <2>0, <4>1, StepTaken DEF ExecStep, Active
      <4>2. ASSUME ~ExecStep(r)
            PROVE  /\ Active(r) /\ exec'[r].cron = exec[r].cron
                   /\ exec' = [exec EXCEPT ![r] = exec'[r]]
        <5>1. exec[r] \in Exec
          BY <2>0
        <5>2. CASE ExecLeave(r) \/ ExecSave(r) \/ PanicSave(r)
          BY <2>0, <5>1, <5>2 DEF ExecLeave, ExecSave, PanicSave, Active, Exec
        <5>3. CASE Expire(r) \/ Panic(r) \/ SaveFails(r)
          BY <2>0, <5>1, <5>3 DEF Expire, Panic, SaveFails, Active, Exec
        <5> QED BY <2>3, <4>2, <5>2, <5>3 DEF ExecGoesOn, ExecStops
      <4> QED BY <2>0, <4>1, <4>2 DEF Active
    <3> QED BY <2>a, <2>3, <3>1 DEF ExecGoesOn, ExecStops, ExecStep, ExecLeave, ExecSave,
      PanicSave, Expire, Panic, SaveFails
  <2>4. ASSUME NEW w \in Flows, CronStep(w) PROVE CronInv'
    <3>0. loop[w].at # "off" /\ started
      BY <2>4 DEF CronInv, CronStep, CronTick, CronCreate, CronCreateFails, CronContinue
    <3>1. ASSUME NEW r \in Runs, CronCreate(w, r) PROVE CronInv'
      <4>1. /\ exec' = [exec EXCEPT ![r] = exec'[r]]
            /\ runOf' = [runOf EXCEPT ![r] = w]
            /\ loop' = [loop EXCEPT ![w] = [at |-> "executing", run |-> r]]
            /\ loop[w].at = "creating" /\ started'
        BY <2>0, <3>0, <3>1 DEF CronCreate, NewRun
      <4>2. ASSUME NEW s \in Runs, s # r, Active(s)', exec'[s].cron
            PROVE  runOf'[s] \in Flows /\ loop'[runOf'[s]] = [at |-> "executing", run |-> s]
        <5>1. runOf[s] \in Flows /\ loop[runOf[s]] = [at |-> "executing", run |-> s]
          BY <2>0, <4>1, <4>2 DEF CronInv, Active
        <5>2. runOf[s] # w
          BY <4>1, <5>1
        <5> QED BY <2>0, <4>1, <4>2, <5>1, <5>2
      <4> QED BY <2>0, <4>1, <4>2 DEF CronInv
    <3>2. ASSUME CronTick(w) \/ CronCreateFails(w) \/ CronContinue(w) PROVE CronInv'
      <4>1. /\ UNCHANGED <<exec, runOf, started>>
            /\ loop' = [loop EXCEPT ![w] = loop'[w]]
        BY <2>0, <3>2 DEF CronTick, CronCreateFails, CronContinue
      <4>2. ASSUME NEW s \in Runs, Active(s), exec[s].cron PROVE runOf[s] # w
        <5>1. loop[runOf[s]] = [at |-> "executing", run |-> s]
          BY <4>2 DEF CronInv
        <5> QED BY <3>2, <4>2, <5>1 DEF CronTick, CronCreateFails, CronContinue
      <4> QED BY <2>0, <3>0, <4>1, <4>2 DEF CronInv, Active
    <3> QED BY <2>4, <3>1, <3>2 DEF CronStep
  <2>5. CASE StartCron
    BY <2>0, <2>5 DEF StartCron, CronInv, Active
  <2>6. CASE Crash
    BY <2>0, <2>6 DEF Crash, CronInv, Active, Exec, Off
  <2>7. CASE UNCHANGED vars
    BY <2>a, <2>7 DEF vars, Active
  <2> QED BY <2>1, <2>2, <2>3, <2>4, <2>5, <2>6, <2>7 DEF Next
<1>3. CronInv => CronSequential
  <2> SUFFICES ASSUME CronInv, NEW r \in Runs, NEW s \in Runs, Active(r), exec[r].cron,
                      Active(s), exec[s].cron, runOf[r] = runOf[s]
               PROVE  r = s
    BY DEF CronSequential
  <2>1. loop[runOf[r]] = [at |-> "executing", run |-> r]
    BY Zenon DEF CronInv
  <2>2. loop[runOf[s]] = [at |-> "executing", run |-> s]
    BY Zenon DEF CronInv
  <2> QED BY <2>1, <2>2
<1> QED BY <1>1, <1>2, <1>3, TypeCorrect, PTL DEF Spec

-----------------------------------------------------------------------------
\* The count of late runs is zero as long as the workflow is enabled, and while a
\* loop that found it so has still to create its run.
LateInv == \A w \in Flows :
    /\ late[w] <= 1
    /\ flow[w] \in {"absent", "enabled"} => late[w] = 0
    /\ loop[w].at = "creating" => late[w] = 0

\* A workflow that is disabled starts at most one more cron run, however updates,
\* ticks, runs and restarts interleave (handlers_workflow.go: runCronWorkflow).
THEOREM OneLateCronRun == Spec => []LateCronOnce
<1>1. Init => LateInv
  <2> SUFFICES ASSUME Init, NEW w \in Flows
               PROVE  /\ late[w] <= 1
                      /\ flow[w] \in {"absent", "enabled"} => late[w] = 0
                      /\ loop[w].at = "creating" => late[w] = 0
    BY Zenon DEF LateInv
  <2>1. late[w] = 0
    BY DEF Init
  <2> QED BY <2>1
<1>2. TypeOK /\ LateInv /\ [Next]_vars => LateInv'
  <2> SUFFICES ASSUME TypeOK, LateInv, [Next]_vars PROVE LateInv'
    OBVIOUS
  <2>0. /\ flow \in [Flows -> FlowState] /\ loop \in [Flows -> Loop]
        /\ late \in [Flows -> Nat] /\ req \in [Requests -> Request]
    BY DEF TypeOK
  <2>a. ASSUME UNCHANGED <<flow, loop, late>> PROVE LateInv'
    BY <2>a DEF LateInv
  <2>1. ASSUME NEW w \in Flows, CreateWorkflow(w) \/ DeleteWorkflow(w) PROVE LateInv'
    BY <2>0, <2>1 DEF LateInv, CreateWorkflow, DeleteWorkflow
  <2>2. ASSUME NEW q \in Requests, RequestStep(q) PROVE LateInv'
    <3>1. CASE UpdateWrite(q)
      BY <2>0, <3>1 DEF LateInv, UpdateWrite, Stored, FlowState
    <3>2. CASE ~UpdateWrite(q)
      BY <2>a, <2>2, <3>2 DEF RequestStep, UpdateRead, TriggerRead, TriggerCreate, RequestFails
    <3> QED BY <3>1, <3>2
  <2>3. ASSUME NEW r \in Runs, ExecGoesOn(r) \/ ExecStops(r) PROVE LateInv'
    BY <2>a, <2>3 DEF ExecGoesOn, ExecStops, ExecStep, ExecLeave, ExecSave, PanicSave,
      Expire, Panic, SaveFails
  <2>4. ASSUME NEW w \in Flows, CronStep(w) PROVE LateInv'
    <3>1. CASE CronTick(w)
      BY <2>0, <3>1 DEF LateInv, CronTick, Off
    <3>2. ASSUME NEW r \in Runs, CronCreate(w, r) PROVE LateInv'
      BY <2>0, <3>2 DEF LateInv, CronCreate, Stored
    <3>3. CASE CronCreateFails(w) \/ CronContinue(w)
      BY <2>0, <3>3 DEF LateInv, CronCreateFails, CronContinue, Waiting
    <3> QED BY <2>4, <3>1, <3>2, <3>3 DEF CronStep
  <2>5. CASE StartCron
    BY <2>0, <2>5 DEF LateInv, StartCron, Waiting, Off
  <2>6. CASE Crash
    BY <2>0, <2>6 DEF LateInv, Crash, Off
  <2>7. CASE UNCHANGED vars
    BY <2>a, <2>7 DEF vars
  <2> QED BY <2>1, <2>2, <2>3, <2>4, <2>5, <2>6, <2>7 DEF Next
<1>3. LateInv => LateCronOnce
  BY DEF LateInv, LateCronOnce
<1> QED BY <1>1, <1>2, <1>3, TypeCorrect, PTL DEF Spec
=============================================================================
