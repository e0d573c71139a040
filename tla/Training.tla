------------------------------ MODULE Training ------------------------------
(***************************************************************************)
(* tools/training_tools.py and tools/execution_tools.py: background jobs   *)
(* (Jobs) that execute their code on the kernel of one session             *)
(* (KernelClient), beside the event loop, which executes code there too.   *)
(*                                                                         *)
(* A job's worker is a caller of execute like any other.  The session      *)
(* knows nothing of jobs: whoever interrupts it interrupts what its kernel *)
(* happens to run.                                                         *)
(***************************************************************************)
EXTENDS Jobs, Sequences

CONSTANTS Loop,         \* the event loop, as a caller of execute
          MaxRequests,  \* bound: executions in a behaviour
          MaxOutputs    \* bound: outputs of one execution, its error apart

ASSUME LoopAssumption == Loop \notin Job
ASSUME TrainingBounds == MaxRequests \in Nat /\ MaxOutputs \in Nat

VARIABLES owned, connected, shell, current, iopub, emitted, requests, pc, msgId,
          got, lost, fate, stage, behind, former, during

K == INSTANCE KernelClient WITH Caller <- Job \cup {Loop}

kernel == <<owned, connected, shell, current, iopub, emitted, requests, pc, msgId,
            got, lost, fate, stage, behind, former, during>>

tvars == <<vars, kernel>>

TInit == Init /\ K!Init

-----------------------------------------------------------------------------
(* The tools, one call at a time: while the event loop waits in execute or *)
(* in restart it serves no other.                                          *)

Occupied == pc[Loop] = "waiting" \/ stage # "none"

RunTraining(j) == ~Occupied /\ Submit(j) /\ UNCHANGED kernel

CancelJob(j) == ~Occupied /\ CancelCheck(j) /\ UNCHANGED kernel

Free == EventLoopIdle /\ ~Occupied

\* The bound leaves every job its execution.
MayExecute == requests + Cardinality({j \in Job : pc[j] = "new"}) < MaxRequests

\* colab_execute_code, and colab_evaluate_model, which does the same.
ExecuteCode ==
  /\ Free /\ MayExecute
  /\ K!Execute(Loop) \/ K!ExecuteUnavailable(Loop)
  /\ UNCHANGED vars

StopExecution == Free /\ K!Interrupt /\ UNCHANGED vars

RestartRuntime == Free /\ K!RestartKernel /\ UNCHANGED vars

RestartContinues == K!RestartContinues /\ UNCHANGED vars

CloseSession == Free /\ K!Disconnect /\ UNCHANGED vars

\* The interrupt goes to the session the target has recorded, whatever became
\* of the target since; what it raises, colab_stop_training ignores.
StopTraining(j) ==
  /\ Free
  /\ StopInterrupt(j) /\ UNCHANGED worker
  /\ K!Interrupt \/ (~connected /\ UNCHANGED kernel)

CallContinues(j) == (CancelSet(j) \/ StopCancel(j)) /\ UNCHANGED kernel

-----------------------------------------------------------------------------
(* The target of a training job.                                           *)

TargetExecutes(j) ==
  /\ worker[j] = "target" /\ pc[j] = "new"
  /\ K!Execute(j) \/ K!ExecuteUnavailable(j)
  /\ UNCHANGED vars

\* Mutant: an execution that timed out returns what it has so far.
Outcome_Late(j) == IF pc[j] \in {"ok", "timeout"} THEN "returned" ELSE "raised"

\* run raises if execute does, or if the result holds an error.
Outcome(j) == IF pc[j] = "ok" THEN "returned" ELSE "raised"

TargetReturns(j) ==
  /\ pc[j] \notin {"new", "waiting"}
  /\ TargetEnds(j) /\ worker'[j] = Outcome(j)
  /\ UNCHANGED kernel

-----------------------------------------------------------------------------
Waits(c) == K!Wait(c) /\ UNCHANGED vars

Deadline(c) == K!Timeout(c) /\ UNCHANGED vars

TargetStep(j) == TargetExecutes(j) \/ TargetReturns(j)

ThreadStep(j) == (RunnerStep(j) \/ WorkerStarts(j)) /\ UNCHANGED kernel

TNext ==
  \/ \E j \in Job : \/ RunTraining(j) \/ CancelJob(j) \/ StopTraining(j)
                    \/ CallContinues(j) \/ ThreadStep(j) \/ TargetStep(j)
  \/ ExecuteCode \/ StopExecution \/ CloseSession
  \/ RestartRuntime \/ RestartContinues
  \/ \E c \in Job \cup {Loop} : Waits(c)
  \/ K!Kernel /\ UNCHANGED vars

TSpec == TInit /\ [][TNext]_tvars

(***************************************************************************)
(* Threads that can run do run, execute looks at its clock, and a restart  *)
(* returns or raises (wait_for_ready looks at its clock, too).  A worker   *)
(* whose client is swapped again and again still meets its deadline: every *)
(* restart takes its time, and every get ends within a second.  No kernel  *)
(* has to answer, no client has to call.                                   *)
(***************************************************************************)
TFairSpec ==
  /\ TSpec
  /\ WF_tvars(Waits(Loop)) /\ WF_tvars(RestartContinues)
  /\ \A j \in Job : /\ WF_tvars(CallContinues(j))
                    /\ WF_tvars(RunnerStep(j) /\ UNCHANGED kernel)
                    /\ WF_tvars(WorkerStarts(j) /\ UNCHANGED kernel)
                    /\ WF_tvars(TargetStep(j) \/ Waits(j))
                    /\ SF_tvars(Deadline(j))

-----------------------------------------------------------------------------
(* What must hold.                                                         *)

(* A completed job's code was run to its end by the kernel: one that died  *)
(* with a kernel, or whose answer came late, is never completed.  The code *)
(* makes two exceptions: the error message was taken off the shared        *)
(* channel by another caller, or by or in a restart under way as the       *)
(* request was sent; or the kernel dropped the request unexecuted because  *)
(* another one failed before it (kernel_client.py:92-145,                  *)
(* job_manager.py:85-86).                                                  *)
CompletedMeansRan ==
  \A j \in Job :
    status[j] = "completed" =>
      \/ fate[msgId[j]] = "ran"
      \/ fate[msgId[j]] = "raised" /\ msgId[j] \in lost \cup during
      \/ fate[msgId[j]] = "aborted" /\ \E r \in 1..(msgId[j] - 1) : fate[r] = "raised"

(* The worker of a training job ends even if the kernel hangs, is closed   *)
(* or restarted: no job leaves a thread behind for ever.                   *)
TargetsEnd == \A j \in Job : worker[j] = "target" ~> worker[j] \in {"returned", "raised"}


-----------------------------------------------------------------------------
(* What the documents say and the code does not do.                        *)

(* training_tools.py:91: colab_stop_training interrupts a training job.    *)
(* It interrupts whatever the session runs, another job's code while this  *)
(* job's still waits in the kernel's queue, or after this job has ended.   *)
StopHitsOnlyItsJob ==
  [][\A j \in Job : StopTraining(j) => current \in {0, msgId[j]}]_tvars
=============================================================================
