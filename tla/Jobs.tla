-------------------------------- MODULE Jobs --------------------------------
(***************************************************************************)
(* jobs/job_manager.py and jobs/models.py: the background jobs.            *)
(*                                                                         *)
(* Three kinds of threads touch a Job and none of them takes a lock to     *)
(* write its status: the event loop, which serves one tool call at a time  *)
(* (submit, cancel, pause, resume); the job's runner (JobManager._run);    *)
(* and the job's worker (_target_wrapper).  A step of this module is what  *)
(* one thread does between two reads or writes another thread can see.     *)
(***************************************************************************)
EXTENDS Naturals, FiniteSets

CONSTANTS Job,            \* the jobs clients may submit
          MaxJobs,        \* max_concurrent_jobs, the semaphore's initial value
          Timed,          \* jobs submitted with a timeout_seconds
          Pausable,       \* jobs clients pause and resume
          ThreadsMayFail  \* can the OS refuse a thread (Thread.start raises)?

ASSUME MaxJobsAssumption == MaxJobs \in Nat
ASSUME JobAssumption == IsFiniteSet(Job)
ASSUME EnvironmentAssumption ==
  /\ Timed \subseteq Job
  /\ Pausable \subseteq Job
  /\ ThreadsMayFail \in BOOLEAN

VARIABLES
  slots,      \* value of JobManager._semaphore
  status,     \* Job.status; "absent" until submit puts the job in _jobs
  cancelReq,  \* Job.cancel_requested
  output,     \* what Job.result and Job.error hold
  finished,   \* Job.finished_at is set
  runner,     \* where the runner thread stands in _run
  verdict,    \* the branch the runner took after join
  worker,     \* where the worker thread stands in _target_wrapper
  call        \* how far the event loop is in the tool call on this job

vars == <<slots, status, cancelReq, output, finished, runner, verdict, worker,
          call>>

Terminal == {"completed", "failed", "cancelled", "timeout"}
Status == {"absent", "queued", "starting", "running", "paused"} \cup Terminal

\* Before the runner has a slot, while it has one, and after.
Waiting == {"out", "acquire", "refused", "orphan"}
Holding == {"check", "caught", "admit", "spawn", "join", "judge", "write",
            "publish", "leave"}
Ended == {"refused_done", "done", "dead"}

CallSteps == {"idle", "cancel_set", "stop_cancel", "pause_read", "pause_write",
              "resume_write"}

TypeOK ==
  /\ slots \in Nat
  /\ status \in [Job -> Status]
  /\ cancelReq \in [Job -> BOOLEAN]
  /\ output \in [Job -> {"none", "result", "error"}]
  /\ finished \in [Job -> BOOLEAN]
  /\ runner \in [Job -> Waiting \cup Holding \cup Ended]
  /\ verdict \in [Job -> Terminal \cup {"none"}]
  /\ worker \in [Job -> {"none", "begin", "target", "returned", "raised"}]
  /\ call \in [Job -> CallSteps]

Init ==
  /\ slots = MaxJobs
  /\ status = [j \in Job |-> "absent"]
  /\ cancelReq = [j \in Job |-> FALSE]
  /\ output = [j \in Job |-> "none"]
  /\ finished = [j \in Job |-> FALSE]
  /\ runner = [j \in Job |-> "out"]
  /\ verdict = [j \in Job |-> "none"]
  /\ worker = [j \in Job |-> "none"]
  /\ call = [j \in Job |-> "idle"]

Alive(j) == worker[j] \in {"begin", "target"}

RunnerGoes(j, from, to) == /\ runner[j] = from
                           /\ runner' = [runner EXCEPT ![j] = to]

SetStatus(j, s) == status' = [status EXCEPT ![j] = s]

-----------------------------------------------------------------------------
(* The event loop: JobManager.submit, cancel, pause and resume, one call   *)
(* at a time (server/app.py call_tool runs the handler synchronously).     *)

EventLoopIdle == \A k \in Job : call[k] = "idle"

Submit(j) ==
  /\ EventLoopIdle
  /\ RunnerGoes(j, "out", "acquire")
  /\ SetStatus(j, "queued")
  /\ UNCHANGED <<slots, cancelReq, output, finished, verdict, worker, call>>

\* The runner thread cannot be started: submit raises, the job stays listed.
SubmitFails(j) ==
  /\ ThreadsMayFail
  /\ EventLoopIdle
  /\ RunnerGoes(j, "out", "orphan")
  /\ SetStatus(j, "queued")
  /\ UNCHANGED <<slots, cancelReq, output, finished, verdict, worker, call>>

Call(j, step) ==
  /\ EventLoopIdle
  /\ status[j] # "absent"
  /\ call' = [call EXCEPT ![j] = step]

CallGoes(j, from, to) == /\ call[j] = from
                         /\ call' = [call EXCEPT ![j] = to]

CancelCheck(j) ==
  /\ Call(j, "cancel_set")
  /\ status[j] \notin Terminal
  /\ UNCHANGED <<slots, status, cancelReq, output, finished, runner, verdict, worker>>

\* Mutant: cancel writes the status itself, after its check of it.
CancelSet_Writes(j) ==
  /\ CallGoes(j, "cancel_set", "idle")
  /\ cancelReq' = [cancelReq EXCEPT ![j] = TRUE]
  /\ SetStatus(j, "cancelled")
  /\ UNCHANGED <<slots, output, finished, runner, verdict, worker>>

CancelSet(j) ==
  /\ CallGoes(j, "cancel_set", "idle")
  /\ cancelReq' = [cancelReq EXCEPT ![j] = TRUE]
  /\ UNCHANGED <<slots, status, output, finished, runner, verdict, worker>>

\* colab_stop_training interrupts the session a started target has recorded,
\* also after that target has ended.  A target that runs raises at once or goes
\* on for a while (TargetEnds).  Then the tool cancels.  If no session is
\* recorded there is nothing to interrupt and the tool is CancelCheck.
StopInterrupt(j) ==
  /\ Call(j, "stop_cancel")
  /\ worker[j] \notin {"none", "begin"}
  /\ \/ UNCHANGED worker
     \/ worker[j] = "target" /\ worker' = [worker EXCEPT ![j] = "raised"]
  /\ UNCHANGED <<slots, status, cancelReq, output, finished, runner, verdict>>

StopCancel(j) ==
  /\ IF status[j] \in Terminal
       THEN CallGoes(j, "stop_cancel", "idle")
       ELSE CallGoes(j, "stop_cancel", "cancel_set")
  /\ UNCHANGED <<slots, status, cancelReq, output, finished, runner, verdict, worker>>

\* pause_requested is read by no code of the repository and is left out.
PauseCheck(j) ==
  /\ j \in Pausable
  /\ Call(j, "pause_read")
  /\ status[j] \notin Terminal
  /\ UNCHANGED <<slots, status, cancelReq, output, finished, runner, verdict, worker>>

PauseRead(j) ==
  /\ IF status[j] = "running"
       THEN CallGoes(j, "pause_read", "pause_write")
       ELSE CallGoes(j, "pause_read", "idle")
  /\ UNCHANGED <<slots, status, cancelReq, output, finished, runner, verdict, worker>>

PauseWrite(j) ==
  /\ CallGoes(j, "pause_write", "idle")
  /\ SetStatus(j, "paused")
  /\ UNCHANGED <<slots, cancelReq, output, finished, runner, verdict, worker>>

ResumeRead(j) ==
  /\ j \in Pausable
  /\ Call(j, "resume_write")
  /\ status[j] = "paused"
  /\ UNCHANGED <<slots, status, cancelReq, output, finished, runner, verdict, worker>>

ResumeWrite(j) ==
  /\ CallGoes(j, "resume_write", "idle")
  /\ SetStatus(j, "running")
  /\ UNCHANGED <<slots, cancelReq, output, finished, runner, verdict, worker>>

-----------------------------------------------------------------------------
(* The runner: JobManager._run, from the slot to its release.              *)

\* Mutant: the semaphore is decremented without waiting for it.
Acquire_Unguarded(j) ==
  /\ RunnerGoes(j, "acquire", "check")
  /\ slots' = slots - 1
  /\ UNCHANGED <<status, cancelReq, output, finished, verdict, worker, call>>

Acquire(j) ==
  /\ slots > 0
  /\ RunnerGoes(j, "acquire", "check")
  /\ slots' = slots - 1
  /\ UNCHANGED <<status, cancelReq, output, finished, verdict, worker, call>>

\* The wait for a slot always has a deadline (timeout_seconds or 3600) and
\* gives up only while the semaphore is at zero.
Refuse(j) ==
  /\ slots = 0
  /\ RunnerGoes(j, "acquire", "refused")
  /\ SetStatus(j, "timeout")
  /\ UNCHANGED <<slots, cancelReq, output, finished, verdict, worker, call>>

\* Mutant: the release sits in a finally that covers the refusal too.
RefusedEnd_Releases(j) ==
  /\ RunnerGoes(j, "refused", "refused_done")
  /\ finished' = [finished EXCEPT ![j] = TRUE]
  /\ slots' = slots + 1
  /\ UNCHANGED <<status, cancelReq, output, verdict, worker, call>>

RefusedEnd(j) ==
  /\ RunnerGoes(j, "refused", "refused_done")
  /\ finished' = [finished EXCEPT ![j] = TRUE]
  /\ UNCHANGED <<slots, status, cancelReq, output, verdict, worker, call>>

CheckCancel(j) ==
  /\ runner[j] = "check"
  /\ IF cancelReq[j]
       THEN RunnerGoes(j, "check", "caught")
       ELSE RunnerGoes(j, "check", "admit")
  /\ UNCHANGED <<slots, status, cancelReq, output, finished, verdict, worker, call>>

\* Mutant: the return after the cancelled status is missing.
Caught_NoReturn(j) ==
  /\ RunnerGoes(j, "caught", "admit")
  /\ SetStatus(j, "cancelled")
  /\ UNCHANGED <<slots, cancelReq, output, finished, verdict, worker, call>>

Caught(j) ==
  /\ RunnerGoes(j, "caught", "leave")
  /\ SetStatus(j, "cancelled")
  /\ UNCHANGED <<slots, cancelReq, output, finished, verdict, worker, call>>

Admit(j) ==
  /\ RunnerGoes(j, "admit", "spawn")
  /\ SetStatus(j, "starting")
  /\ UNCHANGED <<slots, cancelReq, output, finished, verdict, worker, call>>

Spawn(j) ==
  /\ RunnerGoes(j, "spawn", "join")
  /\ worker' = [worker EXCEPT ![j] = "begin"]
  /\ UNCHANGED <<slots, status, cancelReq, output, finished, verdict, call>>

\* worker.start() is outside the try whose finally releases the slot.
SpawnFails(j) ==
  /\ ThreadsMayFail
  /\ RunnerGoes(j, "spawn", "dead")
  /\ UNCHANGED <<slots, status, cancelReq, output, finished, verdict, worker, call>>

\* Mutant: join() is called without the timeout.
JoinReturns_Untimed(j) ==
  /\ ~Alive(j)
  /\ RunnerGoes(j, "join", "judge")
  /\ UNCHANGED <<slots, status, cancelReq, output, finished, verdict, worker, call>>

JoinReturns(j) ==
  /\ ~Alive(j) \/ j \in Timed
  /\ RunnerGoes(j, "join", "judge")
  /\ UNCHANGED <<slots, status, cancelReq, output, finished, verdict, worker, call>>

\* Mutants: cancel_requested is tested before is_alive, or not at all.
VerdictOf_CancelFirst(j) ==
  IF cancelReq[j] THEN "cancelled"
  ELSE IF Alive(j) THEN "timeout"
  ELSE IF worker[j] = "raised" THEN "failed"
  ELSE "completed"

VerdictOf_NoCancel(j) ==
  IF Alive(j) THEN "timeout"
  ELSE IF worker[j] = "raised" THEN "failed"
  ELSE "completed"

VerdictOf(j) ==
  IF Alive(j) THEN "timeout"
  ELSE IF cancelReq[j] THEN "cancelled"
  ELSE IF worker[j] = "raised" THEN "failed"
  ELSE "completed"

\* is_alive, cancel_requested and error_holder are read before the write of
\* the status they lead to.
Judge(j) ==
  /\ RunnerGoes(j, "judge", "write")
  /\ verdict' = [verdict EXCEPT ![j] = VerdictOf(j)]
  /\ UNCHANGED <<slots, status, cancelReq, output, finished, worker, call>>

WriteVerdict(j) ==
  /\ RunnerGoes(j, "write", "publish")
  /\ SetStatus(j, verdict[j])
  /\ UNCHANGED <<slots, cancelReq, output, finished, verdict, worker, call>>

\* job.result or job.error is assigned after the status.
Publish(j) ==
  /\ RunnerGoes(j, "publish", "leave")
  /\ output' = [output EXCEPT ![j] = IF verdict[j] = "completed" THEN "result"
                                      ELSE IF verdict[j] = "failed" THEN "error"
                                      ELSE @]
  /\ UNCHANGED <<slots, status, cancelReq, finished, verdict, worker, call>>

Leave(j) ==
  /\ RunnerGoes(j, "leave", "done")
  /\ finished' = [finished EXCEPT ![j] = TRUE]
  /\ slots' = slots + 1
  /\ UNCHANGED <<status, cancelReq, output, verdict, worker, call>>

-----------------------------------------------------------------------------
(* The worker: _target_wrapper.                                            *)

WorkerStarts(j) ==
  /\ worker[j] = "begin"
  /\ worker' = [worker EXCEPT ![j] = "target"]
  /\ SetStatus(j, "running")
  /\ UNCHANGED <<slots, cancelReq, output, finished, runner, verdict, call>>

TargetEnds(j) ==
  /\ worker[j] = "target"
  /\ \E how \in {"returned", "raised"} : worker' = [worker EXCEPT ![j] = how]
  /\ UNCHANGED <<slots, status, cancelReq, output, finished, runner, verdict, call>>

-----------------------------------------------------------------------------
ClientStarts(j) == \/ Submit(j) \/ SubmitFails(j)
                   \/ CancelCheck(j) \/ StopInterrupt(j) \/ PauseCheck(j) \/ ResumeRead(j)

ClientContinues(j) == \/ CancelSet(j) \/ StopCancel(j)
                      \/ PauseRead(j) \/ PauseWrite(j) \/ ResumeWrite(j)

RunnerStep(j) ==
  \/ Acquire(j) \/ Refuse(j) \/ RefusedEnd(j)
  \/ CheckCancel(j) \/ Caught(j) \/ Admit(j) \/ Spawn(j) \/ SpawnFails(j)
  \/ JoinReturns(j) \/ Judge(j) \/ WriteVerdict(j) \/ Publish(j) \/ Leave(j)

WorkerStep(j) == WorkerStarts(j) \/ TargetEnds(j)

Next == \E j \in Job : \/ ClientStarts(j) \/ ClientContinues(j)
                       \/ RunnerStep(j) \/ WorkerStep(j)

Spec == Init /\ [][Next]_vars

(***************************************************************************)
(* Threads that can run do run: the runner (its waits have deadlines), the *)
(* started worker up to its target, and the call being served.  A target   *)
(* is assumed to end only when the job has no timeout: a timed job must    *)
(* end even if its target hangs.                                           *)
(***************************************************************************)
Fairness ==
  \A j \in Job : /\ WF_vars(RunnerStep(j))
                 /\ WF_vars(WorkerStarts(j))
                 /\ WF_vars(ClientContinues(j))
                 /\ j \notin Timed => WF_vars(TargetEnds(j))

FairSpec == Spec /\ Fairness

-----------------------------------------------------------------------------
(* What must hold.                                                         *)

(***************************************************************************)
(* The semaphore promises no more than a pool of MaxJobs slots: every path *)
(* through _run takes one slot at most, a refused job takes none, and no   *)
(* path gives a slot back twice.                                           *)
(***************************************************************************)
Phase(j) == IF runner[j] \in Holding THEN "holding"
            ELSE IF runner[j] \in {"refused", "refused_done"} THEN "refused"
            ELSE IF runner[j] = "acquire" THEN "waiting"
            ELSE IF runner[j] = "done" THEN "returned"
            ELSE IF runner[j] = "dead" THEN "lost"
            ELSE "out"

Pool == INSTANCE SlotPool WITH Max <- MaxJobs, free <- slots,
                               phase <- [j \in Job |-> Phase(j)]

(* Every run through _run, crashed worker starts included, is one through  *)
(* the pool.                                                               *)
ImplementsPool == Pool!Safety

\* The runners that took a slot and did not give it back.
Busy == {j \in Job : runner[j] \in Holding \cup {"dead"}}

(* No slot is ever created or forgotten, whichever branch a runner takes   *)
(* (job_manager.py:43-55, 69-92): free slots, runners between acquire and  *)
(* release, and runners that died there add up to MaxJobs.                 *)
SlotAccounting == slots + Cardinality(Busy) = MaxJobs

(* What a job reports is what happened to its target, however the status   *)
(* writes of runner, worker and event loop interleave: a completed or      *)
(* failed job's target really ended that way, a cancelled job was asked to *)
(* be, and a result or an error never belongs to another outcome.          *)
VerdictHonest ==
  \A j \in Job :
    /\ status[j] = "completed" \/ output[j] = "result" => worker[j] = "returned"
    /\ status[j] = "failed" \/ output[j] = "error" => worker[j] = "raised"
    /\ status[j] = "cancelled" => cancelReq[j] /\ ~Alive(j)

(* Targets that run without having been given up by a timeout never exceed *)
(* the slots: a target's thread is alive only while its runner holds a     *)
(* slot, or after that runner judged it too slow (docs/SETUP.md:36-37 says *)
(* MAX_CONCURRENT_JOBS bounds the jobs that run at once, without the       *)
(* exception that job_manager.py:75-77 and 92 make).                       *)
LiveTargetsBounded ==
  Cardinality({j \in Job : Alive(j) /\ verdict[j] # "timeout"}) <= MaxJobs

(* A cancel in time is honoured: one that lands before the runner's check  *)
(* keeps the target from ever starting (the promise of the comment at      *)
(* job_manager.py:107-108, where the code does keep it), and one that      *)
(* lands before the verdict is never answered by completed or failed,      *)
(* whatever the target did (job_manager.py:75-89).                         *)
CancelInTime ==
  \A j \in Job :
    /\ [](cancelReq[j] /\ runner[j] \in {"acquire", "check"} => [](worker[j] = "none"))
    /\ [](cancelReq[j] /\ runner[j] \in Holding \ {"write", "publish", "leave"}
            => [](status[j] \notin {"completed", "failed"}))

\* The OS refused one of the job's threads; submit or nobody was told.
Stranded(j) == runner[j] \in {"orphan", "dead"}

(* A terminal status is only ever overwritten in two ways: by a pause or   *)
(* resume that had checked the status before, and by the worker of a job   *)
(* whose runner gave up waiting for it (job_manager.py:62, 123-124,        *)
(* 131-132).  No cancel, no refusal and no other runner step does it.      *)
TerminalKept ==
  [][\A j \in Job : status[j] \in Terminal /\ status'[j] # status[j]
       => \/ call[j] \in {"pause_write", "resume_write"}
          \/ verdict[j] = "timeout" /\ worker[j] = "begin"]_vars

(***************************************************************************)
(* The documented life of a job (docs/TOOLS.md:116-117), which jobs that   *)
(* have no timeout and are never paused follow, among others that do not.  *)
(***************************************************************************)
Plain == Job \ (Timed \cup Pausable)

Life == INSTANCE JobLifecycle WITH Job <- Plain,
                                   status <- [j \in Plain |-> status[j]]

(* A plain job's status only follows the documented arrows, however cancel *)
(* races with runner and worker.                                           *)
FollowsLifecycle == Life!Safety

(* Every job gets its finished_at, whether or not its target ever ends,    *)
(* and a plain job a terminal status with it: nobody waits for a slot, for *)
(* the target or for a cancel for ever (job_manager.py:43-48, 72-92).      *)
Finishes ==
  \A j \in Job :
    status[j] = "queued"
      ~> \/ finished[j] /\ (j \in Plain => status[j] \in Terminal)
         \/ Stranded(j)
=============================================================================
