------------------------------ MODULE PlanRun ------------------------------
(***************************************************************************)
(* One run of a cycle's stages, and the Stop button: run_plan() of         *)
(* qasight/engine/orchestrator.py, a thread per stage with its process     *)
(* (run_stage() of engine/executor.py), and the stop scope of              *)
(* engine/interrupt.py, which requests of other threads act on.            *)
(*                                                                         *)
(* The run's own thread, pc:                                               *)
(*   next    at the head of the loop over the stages                       *)
(*   fill    starting stages (parallel only)                               *)
(*   wait    blocked until a stage returns                                 *)
(*   sample  the loop is left, about to ask whether the run was stopped    *)
(*   record  redaction, history, reporters and report archive              *)
(*   status  about to answer cancelled or completed                        *)
(*   over                                                                  *)
(* Stage i, step[i]:                                                       *)
(*   idle    not started                                                   *)
(*   launch  submitted, its process does not exist yet                     *)
(*   add     the process runs, the scope does not know it                  *)
(*   check   registered, about to ask whether a stop came meanwhile        *)
(*   wait    in wait(timeout)                                              *)
(*   kill    timed out: SIGTERM was sent, SIGKILL follows                  *)
(*   ask     the process is gone; about to ask whether the run was stopped *)
(*   back    returned to the run                                           *)
(***************************************************************************)
EXTENDS Integers, FiniteSets

CONSTANTS
  StageCount,   \* stages of the plan, in the order 1, 2, ... of the config
  MaxParallel,  \* bound: of max_parallel_stages
  MaxStops,     \* bound: calls of cancel() on the run
  Timed,        \* stages with a timeout_s
  Stubborn      \* stages whose process ignores SIGTERM

ASSUME PlanRunAssumption ==
  /\ StageCount \in Nat
  /\ MaxParallel \in Nat
  /\ MaxStops \in Nat
  /\ Timed \subseteq 1 .. StageCount
  /\ Stubborn \subseteq 1 .. StageCount

Stages == 1 .. StageCount
Requests == 1 .. MaxStops

VARIABLES
  plan,       \* max_parallel_stages and fail_fast
  pc,         \* see above
  step,       \* stage -> see above
  results,    \* stage -> how it ended, for the run; "none" until it knows
  aborted,    \* no more stages are started
  alive,      \* stages whose process runs
  termed,     \* stages whose process was sent SIGTERM
  rc,         \* stage -> how it ended, for its thread
  registered, \* scope._running
  count,      \* scope.count; scope.signum is set once it is not 0
  sending,    \* requests that were counted and have their signals still to send
  recorded,   \* the exit code of the run in the history
  status      \* the status of its execution

stageVars == <<step, alive, termed, rc>>
loopVars == <<pc, results, aborted, recorded, status>>
scopeVars == <<registered, count, sending>>
vars == <<plan, stageVars, loopVars, scopeVars>>

Ends == {"none", "pass", "fail", "missing", "timeout", "stopped", "internal"}
Plans == [parallel : 1 .. MaxParallel, failFast : BOOLEAN]

TypeOK ==
  /\ plan \in Plans
  /\ pc \in {"next", "fill", "wait", "sample", "record", "status", "over"}
  /\ step \in [Stages -> {"idle", "launch", "add", "check", "wait", "kill", "ask", "back"}]
  /\ results \in [Stages -> Ends]
  /\ aborted \in BOOLEAN
  /\ alive \subseteq Stages
  /\ termed \subseteq Stages
  /\ rc \in [Stages -> Ends]
  /\ registered \subseteq Stages
  /\ count \in 0 .. MaxStops
  /\ sending \subseteq Requests
  /\ recorded \in {"none", "success", "domain", "infra", "internal", "stopped"}
  /\ status \in {"running", "completed", "cancelled"}

Init ==
  /\ plan \in Plans
  /\ pc = "next"
  /\ step = [i \in Stages |-> "idle"]
  /\ results = [i \in Stages |-> "none"]
  /\ aborted = FALSE
  /\ alive = {}
  /\ termed = {}
  /\ rc = [i \in Stages |-> "none"]
  /\ registered = {}
  /\ count = 0
  /\ sending = {}
  /\ recorded = "none"
  /\ status = "running"

\* interrupt.requested()
Requested == count > 0

Pending == {i \in Stages : step[i] = "idle"}
Running == {i \in Stages : step[i] # "idle" /\ results[i] = "none"}
Returned == {i \in Running : step[i] = "back"}
FirstPending == CHOOSE i \in Pending : \A j \in Pending : i <= j

Go(p) == pc' = p
StageTo(i, s) == step' = [step EXCEPT ![i] = s]

-----------------------------------------------------------------------------
(* The run: _run_sequential() and _run_parallel(), then run_plan()         *)

Sequential == plan.parallel = 1

SeqStart ==
  /\ Sequential /\ pc = "next"
  /\ Pending # {} /\ ~Requested
  /\ StageTo(FirstPending, "launch")
  /\ Go("wait")
  /\ UNCHANGED <<plan, results, aborted, alive, termed, rc, scopeVars, recorded, status>>

SeqLeave ==
  /\ Sequential /\ pc = "next"
  /\ Pending = {} \/ Requested
  /\ aborted' = (Pending # {})
  /\ Go("sample")
  /\ UNCHANGED <<plan, stageVars, results, scopeVars, recorded, status>>

\* Mistake: only a test failure counts, a stage that timed out or did not start does not.
CollectFailed ==
  /\ results' = [i \in Stages |-> IF i \in Returned THEN rc[i] ELSE results[i]]
  /\ aborted' = (aborted \/ (plan.failFast /\ \E i \in Returned : rc[i] = "fail"))

\* The results of the stages that returned; a failure may end the run.
Collect ==
  /\ results' = [i \in Stages |-> IF i \in Returned THEN rc[i] ELSE results[i]]
  /\ aborted' = (aborted \/ (plan.failFast /\ \E i \in Returned : rc[i] # "pass"))

SeqFinish ==
  /\ Sequential /\ pc = "wait"
  /\ Returned # {}
  /\ Collect
  /\ Go(IF aborted' THEN "sample" ELSE "next")
  /\ UNCHANGED <<plan, stageVars, scopeVars, recorded, status>>

ParCheck ==
  /\ ~Sequential /\ pc = "next"
  /\ Pending # {} \/ Running # {}
  /\ aborted' = (aborted \/ Requested)
  /\ Go("fill")
  /\ UNCHANGED <<plan, stageVars, results, scopeVars, recorded, status>>

\* Mistake: one stage too many.
MayStartMore == Pending # {} /\ ~aborted /\ Cardinality(Running) <= plan.parallel

MayStart == Pending # {} /\ ~aborted /\ Cardinality(Running) < plan.parallel

ParStart ==
  /\ pc = "fill" /\ MayStart
  /\ StageTo(FirstPending, "launch")
  /\ UNCHANGED <<plan, loopVars, alive, termed, rc, scopeVars>>

\* Mistake: an aborted run does not wait for the stages that run.
ParBlockNot ==
  /\ pc = "fill" /\ ~MayStart
  /\ Go(IF aborted \/ Running = {} THEN "sample" ELSE "wait")
  /\ UNCHANGED <<plan, stageVars, results, aborted, scopeVars, recorded, status>>

ParBlock ==
  /\ pc = "fill" /\ ~MayStart
  /\ Go(IF Running = {} THEN "sample" ELSE "wait")
  /\ UNCHANGED <<plan, stageVars, results, aborted, scopeVars, recorded, status>>

ParFinish ==
  /\ ~Sequential /\ pc = "wait"
  /\ Returned # {}
  /\ Collect
  /\ Go("next")
  /\ UNCHANGED <<plan, stageVars, scopeVars, recorded, status>>

ParLeave ==
  /\ ~Sequential /\ pc = "next"
  /\ Pending = {} /\ Running = {}
  /\ Go("sample")
  /\ UNCHANGED <<plan, stageVars, results, aborted, scopeVars, recorded, status>>

\* classify_exit_code()
ExitCode ==
  LET ends == {results[i] : i \in {j \in Stages : results[j] # "none"}} IN
  IF "internal" \in ends \/ ends = {} THEN "internal"
  ELSE IF ends \intersect {"timeout", "missing"} # {} THEN "infra"
  ELSE IF ends = {"pass"} THEN "success" ELSE "domain"

\* Mistake: a run that left no stage out is not taken for stopped.
SampleAborted ==
  /\ pc = "sample"
  /\ recorded' = IF Requested /\ aborted THEN "stopped" ELSE ExitCode
  /\ Go("record")
  /\ UNCHANGED <<plan, stageVars, results, aborted, scopeVars, status>>

\* stopped_by is asked for once, what is recorded follows from it.
Sample ==
  /\ pc = "sample"
  /\ recorded' = IF Requested THEN "stopped" ELSE ExitCode
  /\ Go("record")
  /\ UNCHANGED <<plan, stageVars, results, aborted, scopeVars, status>>

Record ==
  /\ pc = "record"
  /\ Go("status")
  /\ UNCHANGED <<plan, stageVars, results, aborted, scopeVars, recorded, status>>

\* Mistake: the execution gets the word of the run history.
AnswerRecorded ==
  /\ pc = "status"
  /\ status' = IF Requested THEN recorded ELSE "completed"
  /\ Go("over")
  /\ UNCHANGED <<plan, stageVars, results, aborted, scopeVars, recorded>>

\* _run_in_scope() asks again for the status of the execution.
Answer ==
  /\ pc = "status"
  /\ status' = IF Requested THEN "cancelled" ELSE "completed"
  /\ Go("over")
  /\ UNCHANGED <<plan, stageVars, results, aborted, scopeVars, recorded>>

-----------------------------------------------------------------------------
(* A stage: _execute_stage() and run_stage()                               *)

LaunchFails(i) ==
  /\ step[i] = "launch"
  /\ \E end \in {"missing", "internal"} : rc' = [rc EXCEPT ![i] = end]
  /\ StageTo(i, "back")
  /\ UNCHANGED <<plan, alive, termed, loopVars, scopeVars>>

Launch(i) ==
  /\ step[i] = "launch"
  /\ alive' = alive \union {i}
  /\ StageTo(i, "add")
  /\ UNCHANGED <<plan, termed, rc, loopVars, scopeVars>>

Register(i) ==
  /\ step[i] = "add"
  /\ registered' = registered \union {i}
  /\ StageTo(i, "check")
  /\ UNCHANGED <<plan, alive, termed, rc, loopVars, count, sending>>

\* Mistake: nobody asks again after the registration.
CheckNot(i) ==
  /\ step[i] = "check"
  /\ StageTo(i, "wait")
  /\ UNCHANGED <<plan, alive, termed, rc, loopVars, scopeVars>>

\* "the signal came while it was starting"
Check(i) ==
  /\ step[i] = "check"
  /\ termed' = IF Requested THEN termed \union {i} ELSE termed
  /\ StageTo(i, "wait")
  /\ UNCHANGED <<plan, alive, rc, loopVars, scopeVars>>

\* The process ends by itself, well or badly, or because it was told to.
ProcessEnds(i) ==
  /\ i \in alive
  /\ alive' = alive \ {i}
  /\ \E end \in {"pass", "fail"} : rc' = [rc EXCEPT ![i] = end]
  /\ UNCHANGED <<plan, step, termed, loopVars, scopeVars>>

\* wait() returned; the finally clause takes the process off the scope.
Reap(i) ==
  /\ step[i] = "wait" /\ i \notin alive
  /\ registered' = registered \ {i}
  /\ StageTo(i, "ask")
  /\ UNCHANGED <<plan, alive, termed, rc, loopVars, count, sending>>

TimeOut(i) ==
  /\ step[i] = "wait" /\ i \in alive
  /\ i \in Timed
  /\ termed' = termed \union {i}
  /\ StageTo(i, "kill")
  /\ UNCHANGED <<plan, alive, rc, loopVars, scopeVars>>

TimeOutKill(i) ==
  /\ step[i] = "kill"
  /\ alive' = alive \ {i}
  /\ rc' = [rc EXCEPT ![i] = "timeout"]
  /\ registered' = registered \ {i}
  /\ StageTo(i, "ask")
  /\ UNCHANGED <<plan, termed, loopVars, count, sending>>

\* A stage of a stopped run counts as stopped, unless it had timed out.
AskStopped(i) ==
  /\ step[i] = "ask"
  /\ rc' = [rc EXCEPT ![i] = IF Requested /\ @ # "timeout" THEN "stopped" ELSE @]
  /\ StageTo(i, "back")
  /\ UNCHANGED <<plan, alive, termed, loopVars, scopeVars>>

-----------------------------------------------------------------------------
(* A call of cancel(): StopScope.request(), then stop_all()                *)

Request ==
  /\ pc # "over"
  /\ count < MaxStops
  /\ count' = count + 1
  /\ sending' = sending \union {count + 1}
  /\ UNCHANGED <<plan, stageVars, loopVars, registered>>

\* Mistake: the first request only counts.
StopAllKill(k) ==
  /\ k \in sending
  /\ sending' = sending \ {k}
  /\ alive' = IF k >= 2 THEN alive \ registered ELSE alive
  /\ UNCHANGED <<plan, step, termed, rc, loopVars, registered, count>>

\* What is registered now is signalled; from the second request on it is killed.
StopAll(k) ==
  /\ k \in sending
  /\ sending' = sending \ {k}
  /\ IF k >= 2
       THEN /\ alive' = alive \ registered
            /\ rc' = [i \in Stages |-> IF i \in alive \intersect registered THEN "fail" ELSE rc[i]]
            /\ UNCHANGED termed
       ELSE /\ termed' = termed \union registered
            /\ UNCHANGED <<alive, rc>>
  /\ UNCHANGED <<plan, step, loopVars, registered, count>>

-----------------------------------------------------------------------------
Loop ==
  \/ SeqStart \/ SeqLeave \/ SeqFinish
  \/ ParCheck \/ ParStart \/ ParBlock \/ ParFinish \/ ParLeave
  \/ Sample \/ Record \/ Answer
Stage(i) ==
  \/ LaunchFails(i) \/ Launch(i) \/ Register(i) \/ Check(i) \/ Reap(i)
  \/ TimeOutKill(i) \/ AskStopped(i)

Next ==
  \/ Loop
  \/ \E i \in Stages : Stage(i) \/ ProcessEnds(i) \/ TimeOut(i)
  \/ Request
  \/ \E k \in Requests : StopAll(k)

Spec == Init /\ [][Next]_vars

\* Threads are scheduled, and a process that is sent SIGTERM and does not ignore it ends.
\* Nothing else ends a process for sure.
FairSpec ==
  /\ Spec
  /\ WF_vars(Loop)
  /\ \A k \in Requests : WF_vars(StopAll(k))
  /\ \A i \in Stages :
       /\ WF_vars(Stage(i))
       /\ WF_vars(ProcessEnds(i) /\ i \in termed \ Stubborn)

-----------------------------------------------------------------------------
(* Properties                                                              *)

\* No process slips through between its start and a stop that comes meanwhile: once
\* every request has sent its signals, whatever a stage waits for was sent SIGTERM
\* (executor.py:410).
NoneEscapes ==
  Requested /\ sending = {} => \A i \in alive : step[i] = "wait" => i \in termed

\* No more processes than max_parallel_stages run at once (schema.py:140).
AtMostMaxParallel == Cardinality(alive) <= plan.parallel

\* A run that is left has a result for every stage it started and no process of it.
NothingLeftBehind ==
  pc \in {"sample", "record", "status", "over"} => alive = {} /\ registered = {} /\ Running = {}

\* A stage result that says stopped is never in a run that is recorded as anything
\* else, and a run with a stage that did not run or did not pass is never a success.
RecordFits ==
  recorded # "none" =>
    /\ (\E i \in Stages : results[i] = "stopped") => recorded = "stopped"
    /\ recorded = "success" => \A i \in Stages : results[i] = "pass"

\* With fail_fast, no stage starts once the run has seen a stage fail
\* (orchestrator.py:302).
FailFastStops ==
  [][plan.failFast /\ (\E i \in Stages : results[i] \notin {"none", "pass"})
       => {i \in Stages : step'[i] # "idle"} = {i \in Stages : step[i] # "idle"}]_vars

\* A run that is stopped comes to its end, though its processes may hang.
StopEnds == Requested ~> pc = "over"

\* An execution whose status is cancelled is recorded as stopped
\* (cycle_execution_manager.py:356, "the run is still recorded, as stopped").
CancelledIsRecorded == status = "cancelled" => recorded = "stopped"

\* The second call of cancel() ends the run even when processes ignore SIGTERM
\* (cycle_execution_manager.py:355, "a second call kills them").
SecondCallEnds == count >= 2 ~> pc = "over"
=============================================================================
