----------------------------- MODULE JobsProofs -----------------------------
(***************************************************************************)
(* Proofs about Jobs, for any finite set of jobs, any number of slots, any *)
(* timeouts and any mix of client calls; and, at the end, about Training,  *)
(* where the targets are executions on a kernel.                           *)
(***************************************************************************)
EXTENDS Training, FiniteSetTheorems, TLAPS

KP == INSTANCE KernelClientProofs WITH Caller <- Job \cup {Loop}

(***************************************************************************)
(* The inductive invariant.  Stage says how far the worker and the verdict *)
(* may be, given where the runner stands: a worker exists only from join   *)
(* on, and a runner that leaves without a verdict never had one.           *)
(***************************************************************************)
Stage(j) ==
  /\ worker[j] # "none" =>
       runner[j] \in {"join", "judge", "write", "publish", "leave", "done"}
  /\ runner[j] \in {"join", "judge", "write", "publish"} => worker[j] # "none"
  /\ verdict[j] # "none" => runner[j] \in {"write", "publish", "leave", "done"}
  /\ runner[j] \in {"write", "publish"} => verdict[j] # "none"
  /\ runner[j] \in {"leave", "done"} /\ verdict[j] = "none" => worker[j] = "none"
  /\ runner[j] = "caught" => cancelReq[j]

(* A verdict is about a target that ended, unless it is a timeout.         *)
VerdictRight(j) ==
  /\ verdict[j] = "completed" => worker[j] = "returned"
  /\ verdict[j] = "failed" => worker[j] = "raised"
  /\ verdict[j] = "cancelled" => cancelReq[j] /\ worker[j] \in {"returned", "raised"}

(* Nobody but the runner writes completed, failed or cancelled, and only   *)
(* at its end.                                                             *)
StatusRight(j) ==
  /\ status[j] = "completed" => verdict[j] = "completed"
  /\ status[j] = "failed" => verdict[j] = "failed"
  /\ status[j] = "cancelled" =>
       /\ verdict[j] \in {"cancelled", "none"}
       /\ cancelReq[j]
       /\ runner[j] \in {"publish", "leave", "done"}
  /\ output[j] = "result" => verdict[j] = "completed"
  /\ output[j] = "error" => verdict[j] = "failed"

JobRight(j) == Stage(j) /\ VerdictRight(j) /\ StatusRight(j)

JobInv == \A j \in Job : JobRight(j)

(* A step keeps every variable in its type: the only write that could not  *)
(* be one is that of an absent verdict, which Stage excludes.              *)
LEMMA TypeStep == TypeOK /\ JobInv /\ [Next]_vars => TypeOK'
<1> SUFFICES ASSUME TypeOK, JobInv, [Next]_vars PROVE TypeOK'
  OBVIOUS
<1> USE DEF TypeOK, Status, Terminal, Waiting, Holding, Ended, CallSteps,
            RunnerGoes, SetStatus, Call, CallGoes
<1>1. ASSUME NEW j \in Job, Submit(j) PROVE TypeOK'
  BY <1>1 DEF Submit
<1>2. ASSUME NEW j \in Job, SubmitFails(j) PROVE TypeOK'
  BY <1>2 DEF SubmitFails
<1>3. ASSUME NEW j \in Job, CancelCheck(j) PROVE TypeOK'
  BY <1>3 DEF CancelCheck
<1>4. ASSUME NEW j \in Job, CancelSet(j) PROVE TypeOK'
  BY <1>4 DEF CancelSet
<1>5. ASSUME NEW j \in Job, StopInterrupt(j) PROVE TypeOK'
  BY <1>5 DEF StopInterrupt
<1>6. ASSUME NEW j \in Job, StopCancel(j) PROVE TypeOK'
  BY <1>6 DEF StopCancel
<1>7. ASSUME NEW j \in Job, PauseCheck(j) PROVE TypeOK'
  BY <1>7 DEF PauseCheck
<1>8. ASSUME NEW j \in Job, PauseRead(j) PROVE TypeOK'
  BY <1>8 DEF PauseRead
<1>9. ASSUME NEW j \in Job, PauseWrite(j) PROVE TypeOK'
  BY <1>9 DEF PauseWrite
<1>10. ASSUME NEW j \in Job, ResumeRead(j) PROVE TypeOK'
  BY <1>10 DEF ResumeRead
<1>11. ASSUME NEW j \in Job, ResumeWrite(j) PROVE TypeOK'
  BY <1>11 DEF ResumeWrite
<1>12. ASSUME NEW j \in Job, Acquire(j) PROVE TypeOK'
  BY <1>12 DEF Acquire
<1>13. ASSUME NEW j \in Job, Refuse(j) PROVE TypeOK'
  BY <1>13 DEF Refuse
<1>14. ASSUME NEW j \in Job, RefusedEnd(j) PROVE TypeOK'
  BY <1>14 DEF RefusedEnd
<1>15. ASSUME NEW j \in Job, CheckCancel(j) PROVE TypeOK'
  BY <1>15 DEF CheckCancel
<1>16. ASSUME NEW j \in Job, Caught(j) PROVE TypeOK'
  BY <1>16 DEF Caught
<1>17. ASSUME NEW j \in Job, Admit(j) PROVE TypeOK'
  BY <1>17 DEF Admit
<1>18. ASSUME NEW j \in Job, Spawn(j) PROVE TypeOK'
  BY <1>18 DEF Spawn
<1>19. ASSUME NEW j \in Job, SpawnFails(j) PROVE TypeOK'
  BY <1>19 DEF SpawnFails
<1>20. ASSUME NEW j \in Job, JoinReturns(j) PROVE TypeOK'
  BY <1>20 DEF JoinReturns
<1>21. ASSUME NEW j \in Job, Judge(j) PROVE TypeOK'
  BY <1>21 DEF Judge, VerdictOf
<1>22. ASSUME NEW j \in Job, WriteVerdict(j) PROVE TypeOK'
  BY <1>22 DEF WriteVerdict, JobInv, JobRight, Stage
<1>23. ASSUME NEW j \in Job, Publish(j) PROVE TypeOK'
  BY <1>23 DEF Publish
<1>24. ASSUME NEW j \in Job, Leave(j) PROVE TypeOK'
  BY <1>24 DEF Leave
<1>25. ASSUME NEW j \in Job, WorkerStarts(j) PROVE TypeOK'
  BY <1>25 DEF WorkerStarts
<1>26. ASSUME NEW j \in Job, TargetEnds(j) PROVE TypeOK'
  BY <1>26 DEF TargetEnds
<1>27. CASE UNCHANGED vars
  BY <1>27 DEF vars
<1>28. QED
  BY <1>1, <1>2, <1>3, <1>4, <1>5, <1>6, <1>7, <1>8, <1>9, <1>10, <1>11,
     <1>12, <1>13, <1>14, <1>15, <1>16, <1>17, <1>18, <1>19, <1>20, <1>21,
     <1>22, <1>23, <1>24, <1>25, <1>26, <1>27
  DEF Next, ClientStarts, ClientContinues, RunnerStep, WorkerStep

(* A step keeps each job's stage, verdict and status consistent.           *)
LEMMA JobStep == TypeOK /\ JobInv /\ [Next]_vars => JobInv'
<1> SUFFICES ASSUME TypeOK, JobInv, [Next]_vars, NEW k \in Job
             PROVE  JobRight(k)'
  BY DEF JobInv
<1>0. JobRight(k)
  BY DEF JobInv
<1> USE <1>0 DEF TypeOK, JobRight, Stage, VerdictRight, StatusRight,
            RunnerGoes, SetStatus
<1>1. ASSUME NEW j \in Job, Submit(j) PROVE JobRight(k)'
  BY <1>1 DEF Submit
<1>2. ASSUME NEW j \in Job, SubmitFails(j) PROVE JobRight(k)'
  BY <1>2 DEF SubmitFails
<1>3. ASSUME NEW j \in Job, CancelCheck(j) PROVE JobRight(k)'
  BY <1>3 DEF CancelCheck
<1>4. ASSUME NEW j \in Job, CancelSet(j) PROVE JobRight(k)'
  BY <1>4 DEF CancelSet
<1>5. ASSUME NEW j \in Job, StopInterrupt(j) PROVE JobRight(k)'
  BY <1>5 DEF StopInterrupt
<1>6. ASSUME NEW j \in Job, StopCancel(j) PROVE JobRight(k)'
  BY <1>6 DEF StopCancel
<1>7. ASSUME NEW j \in Job, PauseCheck(j) PROVE JobRight(k)'
  BY <1>7 DEF PauseCheck
<1>8. ASSUME NEW j \in Job, PauseRead(j) PROVE JobRight(k)'
  BY <1>8 DEF PauseRead
<1>9. ASSUME NEW j \in Job, PauseWrite(j) PROVE JobRight(k)'
  BY <1>9 DEF PauseWrite
<1>10. ASSUME NEW j \in Job, ResumeRead(j) PROVE JobRight(k)'
  BY <1>10 DEF ResumeRead
<1>11. ASSUME NEW j \in Job, ResumeWrite(j) PROVE JobRight(k)'
  BY <1>11 DEF ResumeWrite
<1>12. ASSUME NEW j \in Job, Acquire(j) PROVE JobRight(k)'
  BY <1>12 DEF Acquire
<1>13. ASSUME NEW j \in Job, Refuse(j) PROVE JobRight(k)'
  BY <1>13 DEF Refuse
<1>14. ASSUME NEW j \in Job, RefusedEnd(j) PROVE JobRight(k)'
  BY <1>14 DEF RefusedEnd
<1>15. ASSUME NEW j \in Job, CheckCancel(j) PROVE JobRight(k)'
  BY <1>15 DEF CheckCancel
<1>16. ASSUME NEW j \in Job, Caught(j) PROVE JobRight(k)'
  BY <1>16 DEF Caught
<1>17. ASSUME NEW j \in Job, Admit(j) PROVE JobRight(k)'
  BY <1>17 DEF Admit
<1>18. ASSUME NEW j \in Job, Spawn(j) PROVE JobRight(k)'
  BY <1>18 DEF Spawn
<1>19. ASSUME NEW j \in Job, SpawnFails(j) PROVE JobRight(k)'
  BY <1>19 DEF SpawnFails
<1>20. ASSUME NEW j \in Job, JoinReturns(j) PROVE JobRight(k)'
  BY <1>20 DEF JoinReturns
<1>21. ASSUME NEW j \in Job, Judge(j) PROVE JobRight(k)'
  BY <1>21 DEF Judge, VerdictOf, Alive
<1>22. ASSUME NEW j \in Job, WriteVerdict(j) PROVE JobRight(k)'
  BY <1>22 DEF WriteVerdict
<1>23. ASSUME NEW j \in Job, Publish(j) PROVE JobRight(k)'
  BY <1>23 DEF Publish
<1>24. ASSUME NEW j \in Job, Leave(j) PROVE JobRight(k)'
  BY <1>24 DEF Leave
<1>25. ASSUME NEW j \in Job, WorkerStarts(j) PROVE JobRight(k)'
  BY <1>25 DEF WorkerStarts
<1>26. ASSUME NEW j \in Job, TargetEnds(j) PROVE JobRight(k)'
  BY <1>26 DEF TargetEnds
<1>27. CASE UNCHANGED vars
  BY <1>27 DEF vars
<1>28. QED
  BY <1>1, <1>2, <1>3, <1>4, <1>5, <1>6, <1>7, <1>8, <1>9, <1>10, <1>11,
     <1>12, <1>13, <1>14, <1>15, <1>16, <1>17, <1>18, <1>19, <1>20, <1>21,
     <1>22, <1>23, <1>24, <1>25, <1>26, <1>27
  DEF Next, ClientStarts, ClientContinues, RunnerStep, WorkerStep

LEMMA Inductive == Spec => [](TypeOK /\ JobInv)
<1>1. Init => TypeOK /\ JobInv
  BY MaxJobsAssumption DEF Init, TypeOK, Status, Terminal, Waiting, Holding,
     Ended, CallSteps, JobInv, JobRight, Stage, VerdictRight,
     StatusRight
<1>2. QED
  BY <1>1, TypeStep, JobStep, PTL DEF Spec

(* Every variable keeps its type.  That slots never exceeds MaxJobs is not *)
(* part of it: it follows from SlotAccounting.                             *)
THEOREM TypeCorrect == Spec => []TypeOK
BY Inductive, PTL

(* Whatever cancel, pause, resume, timeouts and late workers do, a job     *)
(* that reports completed, failed or cancelled tells the truth.            *)
THEOREM VerdictsAreHonest == Spec => []VerdictHonest
<1>1. TypeOK /\ JobInv => VerdictHonest
  BY DEF TypeOK, JobInv, JobRight, Stage, VerdictRight, StatusRight,
     VerdictHonest, Alive
<1>2. QED
  BY <1>1, Inductive, PTL

-----------------------------------------------------------------------------
(* The slots.                                                              *)

LEMMA BusyFinite == IsFiniteSet(Busy) /\ Cardinality(Busy) \in Nat
BY JobAssumption, FS_Subset, FS_CardinalityType DEF Busy

(* Taking a slot adds the taker to Busy, giving it back removes it, and no *)
(* other step changes either side.                                         *)
LEMMA SlotStep == TypeOK /\ SlotAccounting /\ [Next]_vars => SlotAccounting'
<1> SUFFICES ASSUME TypeOK, SlotAccounting, [Next]_vars PROVE SlotAccounting'
  OBVIOUS
<1> USE DEF TypeOK, RunnerGoes, Holding
<1>a. ASSUME Busy' = Busy, slots' = slots PROVE SlotAccounting'
  BY <1>a DEF SlotAccounting
<1>1. ASSUME NEW j \in Job, Submit(j) PROVE SlotAccounting'
  BY <1>1, <1>a DEF Submit, Busy
<1>2. ASSUME NEW j \in Job, SubmitFails(j) PROVE SlotAccounting'
  BY <1>2, <1>a DEF SubmitFails, Busy
<1>3. ASSUME NEW j \in Job, CancelCheck(j) PROVE SlotAccounting'
  BY <1>3, <1>a DEF CancelCheck, Busy
<1>4. ASSUME NEW j \in Job, CancelSet(j) PROVE SlotAccounting'
  BY <1>4, <1>a DEF CancelSet, Busy
<1>5. ASSUME NEW j \in Job, StopInterrupt(j) PROVE SlotAccounting'
  BY <1>5, <1>a DEF StopInterrupt, Busy
<1>6. ASSUME NEW j \in Job, StopCancel(j) PROVE SlotAccounting'
  BY <1>6, <1>a DEF StopCancel, Busy
<1>7. ASSUME NEW j \in Job, PauseCheck(j) PROVE SlotAccounting'
  BY <1>7, <1>a DEF PauseCheck, Busy
<1>8. ASSUME NEW j \in Job, PauseRead(j) PROVE SlotAccounting'
  BY <1>8, <1>a DEF PauseRead, Busy
<1>9. ASSUME NEW j \in Job, PauseWrite(j) PROVE SlotAccounting'
  BY <1>9, <1>a DEF PauseWrite, Busy
<1>10. ASSUME NEW j \in Job, ResumeRead(j) PROVE SlotAccounting'
  BY <1>10, <1>a DEF ResumeRead, Busy
<1>11. ASSUME NEW j \in Job, ResumeWrite(j) PROVE SlotAccounting'
  BY <1>11, <1>a DEF ResumeWrite, Busy
<1>12. ASSUME NEW j \in Job, Acquire(j) PROVE SlotAccounting'
  <2>1. j \notin Busy /\ Busy' = Busy \cup {j}
    BY <1>12 DEF Acquire, Busy
  <2>2. Cardinality(Busy') = Cardinality(Busy) + 1
    BY <2>1, BusyFinite, FS_AddElement
  <2>3. QED
    BY <1>12, <2>2, BusyFinite, MaxJobsAssumption DEF Acquire,
       SlotAccounting
<1>13. ASSUME NEW j \in Job, Refuse(j) PROVE SlotAccounting'
  BY <1>13, <1>a DEF Refuse, Busy
<1>14. ASSUME NEW j \in Job, RefusedEnd(j) PROVE SlotAccounting'
  BY <1>14, <1>a DEF RefusedEnd, Busy
<1>15. ASSUME NEW j \in Job, CheckCancel(j) PROVE SlotAccounting'
  BY <1>15, <1>a DEF CheckCancel, Busy
<1>16. ASSUME NEW j \in Job, Caught(j) PROVE SlotAccounting'
  BY <1>16, <1>a DEF Caught, Busy
<1>17. ASSUME NEW j \in Job, Admit(j) PROVE SlotAccounting'
  BY <1>17, <1>a DEF Admit, Busy
<1>18. ASSUME NEW j \in Job, Spawn(j) PROVE SlotAccounting'
  BY <1>18, <1>a DEF Spawn, Busy
<1>19. ASSUME NEW j \in Job, SpawnFails(j) PROVE SlotAccounting'
  BY <1>19, <1>a DEF SpawnFails, Busy
<1>20. ASSUME NEW j \in Job, JoinReturns(j) PROVE SlotAccounting'
  BY <1>20, <1>a DEF JoinReturns, Busy
<1>21. ASSUME NEW j \in Job, Judge(j) PROVE SlotAccounting'
  BY <1>21, <1>a DEF Judge, Busy
<1>22. ASSUME NEW j \in Job, WriteVerdict(j) PROVE SlotAccounting'
  BY <1>22, <1>a DEF WriteVerdict, Busy
<1>23. ASSUME NEW j \in Job, Publish(j) PROVE SlotAccounting'
  BY <1>23, <1>a DEF Publish, Busy
<1>24. ASSUME NEW j \in Job, Leave(j) PROVE SlotAccounting'
  <2>1. j \in Busy /\ Busy' = Busy \ {j}
    BY <1>24 DEF Leave, Busy
  <2>2. Cardinality(Busy') = Cardinality(Busy) - 1
    BY <2>1, BusyFinite, FS_RemoveElement
  <2>3. QED
    BY <1>24, <2>2, BusyFinite, MaxJobsAssumption DEF Leave, SlotAccounting
<1>25. ASSUME NEW j \in Job, WorkerStarts(j) PROVE SlotAccounting'
  BY <1>25, <1>a DEF WorkerStarts, Busy
<1>26. ASSUME NEW j \in Job, TargetEnds(j) PROVE SlotAccounting'
  BY <1>26, <1>a DEF TargetEnds, Busy
<1>27. CASE UNCHANGED vars
  BY <1>27, <1>a DEF vars, Busy
<1>28. QED
  BY <1>1, <1>2, <1>3, <1>4, <1>5, <1>6, <1>7, <1>8, <1>9, <1>10, <1>11,
     <1>12, <1>13, <1>14, <1>15, <1>16, <1>17, <1>18, <1>19, <1>20, <1>21,
     <1>22, <1>23, <1>24, <1>25, <1>26, <1>27
  DEF Next, ClientStarts, ClientContinues, RunnerStep, WorkerStep

(* Free slots and slots taken always add up to MaxJobs.                    *)
THEOREM SlotsConserved == Spec => []SlotAccounting
<1>1. Init => SlotAccounting
  <2> SUFFICES ASSUME Init PROVE SlotAccounting
    OBVIOUS
  <2>1. Busy = {}
    BY DEF Init, Busy, Holding
  <2>2. QED
    BY <2>1, FS_EmptySet, MaxJobsAssumption DEF Init, SlotAccounting
<1>2. QED
  BY <1>1, SlotStep, TypeCorrect, PTL DEF Spec

(* No more than MaxJobs targets run that no timeout has given up: each of  *)
(* them has a runner that holds a slot.                                    *)
THEOREM LiveTargetsAreBounded == Spec => []LiveTargetsBounded
<1>1. TypeOK /\ JobInv /\ SlotAccounting => LiveTargetsBounded
  <2> SUFFICES ASSUME TypeOK, JobInv, SlotAccounting PROVE LiveTargetsBounded
    OBVIOUS
  <2> DEFINE Live == {j \in Job : Alive(j) /\ verdict[j] # "timeout"}
  <2>1. Live \subseteq Busy
    BY DEF TypeOK, JobInv, JobRight, Stage, VerdictRight, Alive, Busy,
       Holding, Terminal
  <2>2. IsFiniteSet(Live) /\ Cardinality(Live) <= Cardinality(Busy)
    BY <2>1, BusyFinite, FS_Subset
  <2>3. Cardinality(Live) \in Nat
    BY <2>2, FS_CardinalityType
  <2>4. Cardinality(Live) <= MaxJobs
    BY <2>2, <2>3, BusyFinite, MaxJobsAssumption DEF SlotAccounting, TypeOK
  <2>5. QED
    BY <2>4 DEF LiveTargetsBounded
<1>2. QED
  BY <1>1, Inductive, SlotsConserved, PTL

-----------------------------------------------------------------------------
(* Jobs implements SlotPool.                                               *)

(* Acquire gives, Refuse refuses, Leave returns and a failed Spawn loses a *)
(* slot; every other step of a job is invisible to the pool.               *)
LEMMA PoolStep == TypeOK /\ [Next]_vars => [Pool!Next]_(Pool!vars)
<1> SUFFICES ASSUME TypeOK, [Next]_vars PROVE [Pool!Next]_(Pool!vars)
  OBVIOUS
<1> USE DEF TypeOK, RunnerGoes, Waiting, Holding, Ended
<1> DEFINE Phases == [j \in Job |-> Phase(j)]
<1>a. ASSUME Phases' = Phases, slots' = slots PROVE [Pool!Next]_(Pool!vars)
  BY <1>a DEF Pool!vars
<1>1. ASSUME NEW j \in Job, Submit(j) PROVE [Pool!Next]_(Pool!vars)
  <2>1. Phases' = [Phases EXCEPT ![j] = "waiting"]
    BY <1>1 DEF Submit, Phase
  <2>2. Pool!Ask(j)
    BY <1>1, <2>1 DEF Submit, Phase, Pool!Ask, Pool!Become
  <2>3. QED
    BY <2>2 DEF Pool!Next
<1>2. ASSUME NEW j \in Job, SubmitFails(j) PROVE [Pool!Next]_(Pool!vars)
  BY <1>2, <1>a DEF SubmitFails, Phase
<1>3. ASSUME NEW j \in Job, CancelCheck(j) PROVE [Pool!Next]_(Pool!vars)
  BY <1>3, <1>a DEF CancelCheck, Phase
<1>4. ASSUME NEW j \in Job, CancelSet(j) PROVE [Pool!Next]_(Pool!vars)
  BY <1>4, <1>a DEF CancelSet, Phase
<1>5. ASSUME NEW j \in Job, StopInterrupt(j) PROVE [Pool!Next]_(Pool!vars)
  BY <1>5, <1>a DEF StopInterrupt, Phase
<1>6. ASSUME NEW j \in Job, StopCancel(j) PROVE [Pool!Next]_(Pool!vars)
  BY <1>6, <1>a DEF StopCancel, Phase
<1>7. ASSUME NEW j \in Job, PauseCheck(j) PROVE [Pool!Next]_(Pool!vars)
  BY <1>7, <1>a DEF PauseCheck, Phase
<1>8. ASSUME NEW j \in Job, PauseRead(j) PROVE [Pool!Next]_(Pool!vars)
  BY <1>8, <1>a DEF PauseRead, Phase
<1>9. ASSUME NEW j \in Job, PauseWrite(j) PROVE [Pool!Next]_(Pool!vars)
  BY <1>9, <1>a DEF PauseWrite, Phase
<1>10. ASSUME NEW j \in Job, ResumeRead(j) PROVE [Pool!Next]_(Pool!vars)
  BY <1>10, <1>a DEF ResumeRead, Phase
<1>11. ASSUME NEW j \in Job, ResumeWrite(j) PROVE [Pool!Next]_(Pool!vars)
  BY <1>11, <1>a DEF ResumeWrite, Phase
<1>12. ASSUME NEW j \in Job, Acquire(j) PROVE [Pool!Next]_(Pool!vars)
  <2>1. Phases' = [Phases EXCEPT ![j] = "holding"]
    BY <1>12 DEF Acquire, Phase
  <2>2. Pool!Give(j)
    BY <1>12, <2>1 DEF Acquire, Phase, Pool!Give, Pool!Become
  <2>3. QED
    BY <2>2 DEF Pool!Next
<1>13. ASSUME NEW j \in Job, Refuse(j) PROVE [Pool!Next]_(Pool!vars)
  <2>1. Phases' = [Phases EXCEPT ![j] = "refused"]
    BY <1>13 DEF Refuse, Phase
  <2>2. Pool!Refuse(j)
    BY <1>13, <2>1 DEF Refuse, Phase, Pool!Refuse, Pool!Become
  <2>3. QED
    BY <2>2 DEF Pool!Next
<1>14. ASSUME NEW j \in Job, RefusedEnd(j) PROVE [Pool!Next]_(Pool!vars)
  BY <1>14, <1>a DEF RefusedEnd, Phase
<1>15. ASSUME NEW j \in Job, CheckCancel(j) PROVE [Pool!Next]_(Pool!vars)
  BY <1>15, <1>a DEF CheckCancel, Phase
<1>16. ASSUME NEW j \in Job, Caught(j) PROVE [Pool!Next]_(Pool!vars)
  BY <1>16, <1>a DEF Caught, Phase
<1>17. ASSUME NEW j \in Job, Admit(j) PROVE [Pool!Next]_(Pool!vars)
  BY <1>17, <1>a DEF Admit, Phase
<1>18. ASSUME NEW j \in Job, Spawn(j) PROVE [Pool!Next]_(Pool!vars)
  BY <1>18, <1>a DEF Spawn, Phase
<1>19. ASSUME NEW j \in Job, SpawnFails(j) PROVE [Pool!Next]_(Pool!vars)
  <2>1. Phases' = [Phases EXCEPT ![j] = "lost"]
    BY <1>19 DEF SpawnFails, Phase
  <2>2. Pool!Lose(j)
    BY <1>19, <2>1 DEF SpawnFails, Phase, Pool!Lose, Pool!Become
  <2>3. QED
    BY <2>2 DEF Pool!Next
<1>20. ASSUME NEW j \in Job, JoinReturns(j) PROVE [Pool!Next]_(Pool!vars)
  BY <1>20, <1>a DEF JoinReturns, Phase
<1>21. ASSUME NEW j \in Job, Judge(j) PROVE [Pool!Next]_(Pool!vars)
  BY <1>21, <1>a DEF Judge, Phase
<1>22. ASSUME NEW j \in Job, WriteVerdict(j) PROVE [Pool!Next]_(Pool!vars)
  BY <1>22, <1>a DEF WriteVerdict, Phase
<1>23. ASSUME NEW j \in Job, Publish(j) PROVE [Pool!Next]_(Pool!vars)
  BY <1>23, <1>a DEF Publish, Phase
<1>24. ASSUME NEW j \in Job, Leave(j) PROVE [Pool!Next]_(Pool!vars)
  <2>1. Phases' = [Phases EXCEPT ![j] = "returned"]
    BY <1>24 DEF Leave, Phase
  <2>2. Pool!Return(j)
    BY <1>24, <2>1 DEF Leave, Phase, Pool!Return, Pool!Become
  <2>3. QED
    BY <2>2 DEF Pool!Next
<1>25. ASSUME NEW j \in Job, WorkerStarts(j) PROVE [Pool!Next]_(Pool!vars)
  BY <1>25, <1>a DEF WorkerStarts, Phase
<1>26. ASSUME NEW j \in Job, TargetEnds(j) PROVE [Pool!Next]_(Pool!vars)
  BY <1>26, <1>a DEF TargetEnds, Phase
<1>27. CASE UNCHANGED vars
  BY <1>27, <1>a DEF vars, Phase
<1>28. QED
  BY <1>1, <1>2, <1>3, <1>4, <1>5, <1>6, <1>7, <1>8, <1>9, <1>10, <1>11,
     <1>12, <1>13, <1>14, <1>15, <1>16, <1>17, <1>18, <1>19, <1>20, <1>21,
     <1>22, <1>23, <1>24, <1>25, <1>26, <1>27
  DEF Next, ClientStarts, ClientContinues, RunnerStep, WorkerStep

(* Every behaviour of the job manager is one of the pool of slots.         *)
THEOREM JobsImplementPool == Spec => ImplementsPool
<1>1. Init => Pool!Init
  BY DEF Init, Pool!Init, Phase, Holding
<1>2. QED
  BY <1>1, PoolStep, TypeCorrect, PTL DEF Spec, ImplementsPool, Pool!Safety

-----------------------------------------------------------------------------
(***************************************************************************)
(* The life of a job's status.                                             *)
(***************************************************************************)

(* The steps that write a status are these nine, each that of its own job. *)
Writes(k) == \/ Submit(k) \/ SubmitFails(k) \/ PauseWrite(k) \/ ResumeWrite(k)
             \/ Refuse(k) \/ Caught(k) \/ Admit(k) \/ WriteVerdict(k) \/ WorkerStarts(k)

LEMMA Writers ==
  ASSUME TypeOK, [Next]_vars, NEW k \in Job, status'[k] # status[k]
  PROVE  Writes(k)
<1>1. ASSUME NEW j \in Job, ClientStarts(j) \/ ClientContinues(j)
      PROVE  \/ Submit(j) \/ SubmitFails(j) \/ PauseWrite(j) \/ ResumeWrite(j)
             \/ status' = status
  BY <1>1 DEF ClientStarts, ClientContinues, CancelCheck, CancelSet, StopInterrupt,
     StopCancel, PauseCheck, PauseRead, ResumeRead
<1>2. ASSUME NEW j \in Job, RunnerStep(j) \/ WorkerStep(j)
      PROVE  \/ Refuse(j) \/ Caught(j) \/ Admit(j) \/ WriteVerdict(j) \/ WorkerStarts(j)
             \/ status' = status
  BY <1>2 DEF RunnerStep, WorkerStep, Acquire, RefusedEnd, CheckCancel, Spawn,
     SpawnFails, JoinReturns, Judge, Publish, Leave, TargetEnds
<1>3. PICK j \in Job : Writes(j)
  BY <1>1, <1>2 DEF Next, Writes, vars
<1>4. \E s : status' = [status EXCEPT ![j] = s]
  BY <1>3 DEF Writes, Submit, SubmitFails, PauseWrite, ResumeWrite, Refuse, Caught,
     Admit, WriteVerdict, WorkerStarts, SetStatus
<1>5. j = k
  BY <1>4 DEF TypeOK
<1>6. QED
  BY <1>3, <1>5

(* A terminal status means that the runner has given up or is at its end.  *)
StatusOver(j) == status[j] \in Terminal =>
                   runner[j] \in {"refused", "refused_done", "publish", "leave", "done"}

(* What the status of a job without timeout and pauses says at each stage. *)
PlainRight(j) ==
  /\ call[j] \notin {"pause_read", "pause_write", "resume_write"}
  /\ runner[j] = "out" => status[j] = "absent"
  /\ runner[j] \in {"acquire", "check", "caught", "admit"} => status[j] = "queued"
  /\ runner[j] = "spawn" => status[j] = "starting"
  /\ worker[j] = "begin" => runner[j] = "join" /\ status[j] = "starting"
  /\ runner[j] \in {"join", "judge", "write"} /\ worker[j] # "begin" =>
       status[j] = "running"
  /\ runner[j] \in {"judge", "write"} => worker[j] \in {"returned", "raised"}

LifeInv == \A j \in Job : StatusOver(j) /\ (j \in Plain => PlainRight(j))

LEMMA LifeStep == TypeOK /\ JobInv /\ LifeInv /\ [Next]_vars => LifeInv'
<1> SUFFICES ASSUME TypeOK, JobInv, LifeInv, [Next]_vars, NEW k \in Job
             PROVE  StatusOver(k)' /\ (k \in Plain => PlainRight(k)')
  BY DEF LifeInv
<1>0. StatusOver(k) /\ (k \in Plain => PlainRight(k)) /\ Stage(k)
  BY DEF LifeInv, JobInv, JobRight
<1> USE <1>0 DEF TypeOK, StatusOver, PlainRight, Stage, Terminal, RunnerGoes, SetStatus,
            Call, CallGoes, Plain
<1>1. ASSUME NEW j \in Job, Submit(j) PROVE StatusOver(k)' /\ (k \in Plain => PlainRight(k)')
  BY <1>1 DEF Submit
<1>2. ASSUME NEW j \in Job, SubmitFails(j) PROVE StatusOver(k)' /\ (k \in Plain => PlainRight(k)')
  BY <1>2 DEF SubmitFails
<1>3. ASSUME NEW j \in Job, CancelCheck(j) PROVE StatusOver(k)' /\ (k \in Plain => PlainRight(k)')
  BY <1>3 DEF CancelCheck
<1>4. ASSUME NEW j \in Job, CancelSet(j) PROVE StatusOver(k)' /\ (k \in Plain => PlainRight(k)')
  BY <1>4 DEF CancelSet
<1>5. ASSUME NEW j \in Job, StopInterrupt(j) PROVE StatusOver(k)' /\ (k \in Plain => PlainRight(k)')
  BY <1>5 DEF StopInterrupt
<1>6. ASSUME NEW j \in Job, StopCancel(j) PROVE StatusOver(k)' /\ (k \in Plain => PlainRight(k)')
  BY <1>6 DEF StopCancel
<1>7. ASSUME NEW j \in Job, PauseCheck(j) PROVE StatusOver(k)' /\ (k \in Plain => PlainRight(k)')
  BY <1>7 DEF PauseCheck
<1>8. ASSUME NEW j \in Job, PauseRead(j) PROVE StatusOver(k)' /\ (k \in Plain => PlainRight(k)')
  BY <1>8 DEF PauseRead
<1>9. ASSUME NEW j \in Job, PauseWrite(j) PROVE StatusOver(k)' /\ (k \in Plain => PlainRight(k)')
  BY <1>9 DEF PauseWrite
<1>10. ASSUME NEW j \in Job, ResumeRead(j) PROVE StatusOver(k)' /\ (k \in Plain => PlainRight(k)')
  BY <1>10 DEF ResumeRead
<1>11. ASSUME NEW j \in Job, ResumeWrite(j) PROVE StatusOver(k)' /\ (k \in Plain => PlainRight(k)')
  BY <1>11 DEF ResumeWrite
<1>12. ASSUME NEW j \in Job, Acquire(j) PROVE StatusOver(k)' /\ (k \in Plain => PlainRight(k)')
  BY <1>12 DEF Acquire
<1>13. ASSUME NEW j \in Job, Refuse(j) PROVE StatusOver(k)' /\ (k \in Plain => PlainRight(k)')
  BY <1>13 DEF Refuse
<1>14. ASSUME NEW j \in Job, RefusedEnd(j) PROVE StatusOver(k)' /\ (k \in Plain => PlainRight(k)')
  BY <1>14 DEF RefusedEnd
<1>15. ASSUME NEW j \in Job, CheckCancel(j) PROVE StatusOver(k)' /\ (k \in Plain => PlainRight(k)')
  BY <1>15 DEF CheckCancel
<1>16. ASSUME NEW j \in Job, Caught(j) PROVE StatusOver(k)' /\ (k \in Plain => PlainRight(k)')
  BY <1>16 DEF Caught
<1>17. ASSUME NEW j \in Job, Admit(j) PROVE StatusOver(k)' /\ (k \in Plain => PlainRight(k)')
  BY <1>17 DEF Admit
<1>18. ASSUME NEW j \in Job, Spawn(j) PROVE StatusOver(k)' /\ (k \in Plain => PlainRight(k)')
  BY <1>18 DEF Spawn
<1>19. ASSUME NEW j \in Job, SpawnFails(j) PROVE StatusOver(k)' /\ (k \in Plain => PlainRight(k)')
  BY <1>19 DEF SpawnFails
<1>20. ASSUME NEW j \in Job, JoinReturns(j) PROVE StatusOver(k)' /\ (k \in Plain => PlainRight(k)')
  BY <1>20 DEF JoinReturns, Alive
<1>21. ASSUME NEW j \in Job, Judge(j) PROVE StatusOver(k)' /\ (k \in Plain => PlainRight(k)')
  BY <1>21 DEF Judge
<1>22. ASSUME NEW j \in Job, WriteVerdict(j) PROVE StatusOver(k)' /\ (k \in Plain => PlainRight(k)')
  BY <1>22 DEF WriteVerdict
<1>23. ASSUME NEW j \in Job, Publish(j) PROVE StatusOver(k)' /\ (k \in Plain => PlainRight(k)')
  BY <1>23 DEF Publish
<1>24. ASSUME NEW j \in Job, Leave(j) PROVE StatusOver(k)' /\ (k \in Plain => PlainRight(k)')
  BY <1>24 DEF Leave
<1>25. ASSUME NEW j \in Job, WorkerStarts(j) PROVE StatusOver(k)' /\ (k \in Plain => PlainRight(k)')
  BY <1>25 DEF WorkerStarts
<1>26. ASSUME NEW j \in Job, TargetEnds(j) PROVE StatusOver(k)' /\ (k \in Plain => PlainRight(k)')
  BY <1>26 DEF TargetEnds
<1>27. CASE UNCHANGED vars
  BY <1>27 DEF vars
<1>28. QED
  BY <1>1, <1>2, <1>3, <1>4, <1>5, <1>6, <1>7, <1>8, <1>9, <1>10, <1>11,
     <1>12, <1>13, <1>14, <1>15, <1>16, <1>17, <1>18, <1>19, <1>20, <1>21,
     <1>22, <1>23, <1>24, <1>25, <1>26, <1>27
  DEF Next, ClientStarts, ClientContinues, RunnerStep, WorkerStep

LEMMA LifeAlways == Spec => [](TypeOK /\ JobInv /\ LifeInv)
<1>1. Init => LifeInv
  BY DEF Init, LifeInv, StatusOver, PlainRight, Terminal
<1>2. QED
  BY <1>1, LifeStep, Inductive, PTL DEF Spec

(* A terminal status is only overwritten by a pause or resume that had     *)
(* checked it before, and by the worker of a job whose runner gave up      *)
(* waiting for it (job_manager.py:62, 123-124, 131-132).                   *)
THEOREM TerminalStays == Spec => TerminalKept
<1> DEFINE Kept(j) == status[j] \in Terminal /\ status'[j] # status[j]
                        => \/ call[j] \in {"pause_write", "resume_write"}
                           \/ verdict[j] = "timeout" /\ worker[j] = "begin"
<1>1. ASSUME TypeOK, JobInv, LifeInv, [Next]_vars, NEW j \in Job PROVE Kept(j)
  <2>1. SUFFICES ASSUME status[j] \in Terminal, status'[j] # status[j]
                 PROVE  \/ call[j] \in {"pause_write", "resume_write"}
                        \/ verdict[j] = "timeout" /\ worker[j] = "begin"
    OBVIOUS
  <2>2. Writes(j)
    BY <1>1, <2>1, Writers
  <2>3. runner[j] \in {"refused", "refused_done", "publish", "leave", "done"}
    BY <1>1, <2>1 DEF LifeInv, StatusOver
  <2>4. \/ PauseWrite(j) \/ ResumeWrite(j) \/ WorkerStarts(j)
    BY <2>2, <2>3 DEF Writes, Submit, SubmitFails, Refuse, Caught, Admit, WriteVerdict,
       RunnerGoes
  <2>5. CASE WorkerStarts(j)
    BY <1>1, <2>3, <2>5 DEF WorkerStarts, TypeOK, JobInv, JobRight, Stage, VerdictRight,
       Terminal
  <2>6. QED
    BY <2>4, <2>5 DEF PauseWrite, ResumeWrite, CallGoes
<1>2. TypeOK /\ JobInv /\ LifeInv /\ [Next]_vars => [\A j \in Job : Kept(j)]_vars
  BY <1>1
<1>3. QED
  BY <1>2, LifeAlways, PTL DEF Spec, TerminalKept

(* The status of a job that has no timeout and is never paused only        *)
(* follows the documented arrows (docs/TOOLS.md:116-117).                  *)
THEOREM PlainJobsFollowLifecycle == Spec => FollowsLifecycle
<1> DEFINE S == [j \in Plain |-> status[j]]
<1>1. Init => Life!Init
  BY DEF Init, Life!Init, Plain
<1>2. ASSUME TypeOK, JobInv, LifeInv, [Next]_vars PROVE [Life!Next]_S
  <2>1. CASE S' = S
    BY <2>1
  <2>2. ASSUME NEW k \in Plain, status'[k] # status[k] PROVE Life!Next
    <3>1. k \in Job /\ Writes(k) /\ PlainRight(k) /\ Stage(k)
      BY <1>2, <2>2, Writers DEF Plain, LifeInv, JobInv, JobRight
    <3>2. <<status[k], status'[k]>> \in Life!Arrows
      BY <1>2, <3>1
      DEF Writes, Submit, SubmitFails, PauseWrite, ResumeWrite, Refuse, Caught, Admit,
          WriteVerdict, WorkerStarts, RunnerGoes, CallGoes, SetStatus, TypeOK, PlainRight,
          Stage, Terminal, Life!Arrows, Life!Terminal
    <3>3. \E s : status' = [status EXCEPT ![k] = s]
      BY <3>1 DEF Writes, Submit, SubmitFails, PauseWrite, ResumeWrite, Refuse, Caught,
         Admit, WriteVerdict, WorkerStarts, SetStatus
    <3>4. S' = [S EXCEPT ![k] = status'[k]]
      BY <1>2, <3>1, <3>3 DEF TypeOK, Plain
    <3>5. Life!Follow(k)
      BY <2>2, <3>2, <3>4 DEF Life!Follow
    <3>6. QED
      BY <2>2, <3>5 DEF Life!Next
  <2>3. QED
    BY <2>1, <2>2
<1>3. QED
  BY <1>1, <1>2, LifeAlways, PTL DEF Spec, FollowsLifecycle, Life!Safety

-----------------------------------------------------------------------------
(***************************************************************************)
(* A cancel in time.  What it comes to stays so: a cancel is never taken   *)
(* back, a runner that it catches before the start makes no worker, and    *)
(* one that judges after it judges neither completed nor failed.           *)
(***************************************************************************)
Stopped(j) ==
  /\ cancelReq[j] /\ worker[j] = "none"
  /\ runner[j] \in {"acquire", "check", "caught", "leave", "done", "refused", "refused_done"}

Overtaken(j) == cancelReq[j] /\ verdict[j] \notin {"completed", "failed"}

LEMMA CancelStays ==
  ASSUME TypeOK, [Next]_vars, NEW k \in Job, cancelReq[k]
  PROVE  /\ Stopped(k) => Stopped(k)'
         /\ Overtaken(k) => Overtaken(k)'
<1> USE DEF Stopped, Overtaken, TypeOK, RunnerGoes, Call
<1>1. ASSUME NEW j \in Job, ClientStarts(j) \/ ClientContinues(j)
      PROVE  /\ runner[k] # "out" => runner'[k] = runner[k]
             /\ verdict' = verdict /\ cancelReq'[k]
             /\ worker[k] = "none" => worker'[k] = "none"
  BY <1>1 DEF ClientStarts, ClientContinues, Submit, SubmitFails, CancelCheck, CancelSet,
     StopInterrupt, StopCancel, PauseCheck, PauseRead, PauseWrite, ResumeRead, ResumeWrite
<1>2. ASSUME NEW j \in Job, WorkerStep(j)
      PROVE  /\ UNCHANGED <<runner, verdict, cancelReq>>
             /\ worker[k] = "none" => worker'[k] = "none"
  BY <1>2 DEF WorkerStep, WorkerStarts, TargetEnds
<1>3. ASSUME NEW j \in Job, RunnerStep(j), Stopped(k)
      PROVE  Stopped(k)'
  BY <1>3 DEF RunnerStep, Acquire, Refuse, RefusedEnd, CheckCancel, Caught, Admit,
     Spawn, SpawnFails, JoinReturns, Judge, WriteVerdict, Publish, Leave
<1>4. ASSUME NEW j \in Job, RunnerStep(j), Overtaken(k)
      PROVE  Overtaken(k)'
  BY <1>4 DEF RunnerStep, Acquire, Refuse, RefusedEnd, CheckCancel, Caught, Admit,
     Spawn, SpawnFails, JoinReturns, Judge, VerdictOf, WriteVerdict, Publish, Leave
<1>5. CASE UNCHANGED vars
  BY <1>5 DEF vars
<1>6. QED
  BY <1>1, <1>2, <1>3, <1>4, <1>5 DEF Next

(* A cancel that lands before the runner's check keeps the target from     *)
(* ever starting, and one that lands before the verdict is never answered  *)
(* by completed or failed (job_manager.py:50-54, 75-89).                   *)
THEOREM CancelsHonoured == Spec => CancelInTime
<1>1. ASSUME NEW j \in Job
      PROVE  Spec => [](cancelReq[j] /\ runner[j] \in {"acquire", "check"}
                          => [](worker[j] = "none"))
  <2>1. TypeOK /\ JobInv /\ cancelReq[j] /\ runner[j] \in {"acquire", "check"} => Stopped(j)
    BY DEF JobInv, JobRight, Stage, Stopped, TypeOK
  <2>2. TypeOK /\ Stopped(j) /\ [Next]_vars => Stopped(j)'
    BY CancelStays DEF Stopped
  <2>3. Stopped(j) => worker[j] = "none"
    BY DEF Stopped
  <2>4. QED
    BY <2>1, <2>2, <2>3, Inductive, PTL DEF Spec
<1>2. ASSUME NEW j \in Job
      PROVE  Spec => [](cancelReq[j] /\ runner[j] \in Holding \ {"write", "publish", "leave"}
                          => [](status[j] \notin {"completed", "failed"}))
  <2>1. TypeOK /\ JobInv /\ cancelReq[j]
        /\ runner[j] \in Holding \ {"write", "publish", "leave"} => Overtaken(j)
    BY DEF JobInv, JobRight, Stage, Overtaken, TypeOK, Holding
  <2>2. TypeOK /\ Overtaken(j) /\ [Next]_vars => Overtaken(j)'
    BY CancelStays DEF Overtaken
  <2>3. JobInv /\ Overtaken(j) => status[j] \notin {"completed", "failed"}
    BY DEF JobInv, JobRight, StatusRight, Overtaken
  <2>4. QED
    BY <2>1, <2>2, <2>3, Inductive, PTL DEF Spec
<1>3. QED
  BY <1>1, <1>2 DEF CancelInTime

-----------------------------------------------------------------------------
(***************************************************************************)
(* Training: every step of the composition is a step of Jobs and one of    *)
(* KernelClient (or none), so that what is proved of the parts holds of    *)
(* the whole, for any jobs, any timeouts and any bounds.                   *)
(***************************************************************************)
LEMMA JobsPart == [TNext]_tvars => [Next]_vars
<1>1. SUFFICES ASSUME [TNext]_tvars PROVE [Next]_vars
  OBVIOUS
<1>2. ASSUME NEW j \in Job,
             \/ RunTraining(j) \/ CancelJob(j) \/ StopTraining(j)
             \/ CallContinues(j) \/ ThreadStep(j) \/ TargetReturns(j)
      PROVE  Next
  BY <1>2 DEF RunTraining, CancelJob, StopTraining, CallContinues, ThreadStep,
     TargetReturns, Next, ClientStarts, ClientContinues, WorkerStep
<1>3. ASSUME NEW j \in Job, TargetExecutes(j) PROVE UNCHANGED vars
  BY <1>3 DEF TargetExecutes
<1>4. ASSUME \/ ExecuteCode \/ StopExecution \/ CloseSession
             \/ RestartRuntime \/ RestartContinues
             \/ \E c \in Job \cup {Loop} : Waits(c)
             \/ K!Kernel /\ UNCHANGED vars
             \/ UNCHANGED tvars
      PROVE  UNCHANGED vars
  BY <1>4 DEF ExecuteCode, StopExecution, RestartRuntime, RestartContinues, CloseSession,
     Waits, tvars
<1>5. QED
  BY <1>1, <1>2, <1>3, <1>4 DEF TNext, TargetStep

LEMMA KernelPart == [TNext]_tvars => [K!Next]_(K!vars)
<1>1. SUFFICES ASSUME [TNext]_tvars PROVE [K!Next]_(K!vars)
  OBVIOUS
<1>2. ASSUME UNCHANGED kernel PROVE UNCHANGED K!vars
  BY <1>2 DEF kernel, K!vars
<1>3. ASSUME NEW j \in Job,
             \/ RunTraining(j) \/ CancelJob(j) \/ CallContinues(j) \/ ThreadStep(j)
             \/ TargetReturns(j)
      PROVE  UNCHANGED kernel
  BY <1>3 DEF RunTraining, CancelJob, CallContinues, ThreadStep, TargetReturns
<1>4. ASSUME NEW j \in Job, StopTraining(j) PROVE K!Interrupt \/ UNCHANGED kernel
  BY <1>4 DEF StopTraining
<1>5. ASSUME NEW j \in Job, TargetExecutes(j) PROVE K!Execute(j) \/ K!ExecuteUnavailable(j)
  BY <1>5 DEF TargetExecutes
<1>6. CASE ExecuteCode
  BY <1>6 DEF ExecuteCode, K!Next
<1>7. CASE StopExecution \/ CloseSession \/ RestartRuntime \/ RestartContinues
  BY <1>7 DEF StopExecution, CloseSession, RestartRuntime, RestartContinues, K!Next
<1>8. ASSUME NEW c \in Job \cup {Loop}, Waits(c) PROVE K!Wait(c)
  BY <1>8 DEF Waits
<1>9. UNCHANGED tvars => UNCHANGED kernel
  BY DEF tvars
<1>10. QED
  BY <1>1, <1>2, <1>3, <1>4, <1>5, <1>6, <1>7, <1>8, <1>9 DEF TNext, TargetStep, K!Next

\* Both instances are the same kernel.
LEMMA SameKernel == (K!Init => KP!Init) /\ ([K!Next]_(K!vars) => [KP!Next]_(KP!vars))
<1> USE DEF K!restart, KP!restart
<1>1. K!Init => KP!Init
  BY DEF K!Init, KP!Init, K!Request, KP!Request
<1>2. ASSUME NEW messages, K!Publish(messages) PROVE KP!Publish(messages)
  BY <1>2 DEF K!Publish, KP!Publish
<1>3. /\ \A kind : K!Output(kind) = KP!Output(kind)
      /\ \A r : K!IdleStatus(r) = KP!IdleStatus(r)
      /\ K!Request = KP!Request
  BY DEF K!Output, KP!Output, K!IdleStatus, KP!IdleStatus, K!Request, KP!Request
<1>4. ASSUME NEW waiting, K!Aborts(waiting) PROVE KP!Aborts(waiting)
  BY <1>2, <1>3, <1>4 DEF K!Aborts, KP!Aborts
<1>5. K!KernelRaises => KP!KernelRaises
  BY <1>4 DEF K!KernelRaises, KP!KernelRaises
<1>6. K!Kernel => KP!Kernel
  <2>1. K!KernelStarts => KP!KernelStarts
    BY DEF K!KernelStarts, KP!KernelStarts
  <2>2. K!KernelPublishes => KP!KernelPublishes
    BY <1>2, <1>3 DEF K!KernelPublishes, KP!KernelPublishes
  <2>3. K!KernelFinishes => KP!KernelFinishes
    BY <1>2, <1>3 DEF K!KernelFinishes, KP!KernelFinishes
  <2>4. K!KernelFails => KP!KernelFails
    BY <1>5 DEF K!KernelFails, KP!KernelFails
  <2>5. QED
    BY <2>1, <2>2, <2>3, <2>4 DEF K!Kernel, KP!Kernel
<1>7. ASSUME NEW c, K!Execute(c) \/ K!ExecuteUnavailable(c)
      PROVE  KP!Execute(c) \/ KP!ExecuteUnavailable(c)
  BY <1>7 DEF K!Execute, KP!Execute, K!ExecuteUnavailable, KP!ExecuteUnavailable
<1>8. ASSUME NEW c, NEW m, K!Handle(c, m) PROVE KP!Handle(c, m)
  BY <1>8 DEF K!Handle, KP!Handle, K!Keep, KP!Keep, K!Finish, KP!Finish, K!Failed, KP!Failed
<1>9. ASSUME NEW c, K!Wait(c) PROVE KP!Wait(c)
  <2>1. K!Receive(c) => KP!Receive(c)
    BY <1>8 DEF K!Receive, KP!Receive, K!Take, KP!Take
  <2>2. K!ReceiveFormer(c) => KP!ReceiveFormer(c)
    BY <1>8 DEF K!ReceiveFormer, KP!ReceiveFormer, K!Leave, KP!Leave
  <2>3. K!FormerSilent(c) => KP!FormerSilent(c)
    BY DEF K!FormerSilent, KP!FormerSilent, K!Leave, KP!Leave
  <2>4. K!Timeout(c) => KP!Timeout(c)
    BY DEF K!Timeout, KP!Timeout, K!EndCall, KP!EndCall
  <2>5. K!ChannelGone(c) => KP!ChannelGone(c)
    BY DEF K!ChannelGone, KP!ChannelGone, K!EndCall, KP!EndCall
  <2>6. QED
    BY <1>9, <2>1, <2>2, <2>3, <2>4, <2>5 DEF K!Wait, KP!Wait
<1>10. K!Interrupt => KP!Interrupt
  BY <1>5 DEF K!Interrupt, KP!Interrupt, K!Called, KP!Called
<1>11. /\ K!RestartKernel => KP!RestartKernel
       /\ K!RestartContinues => KP!RestartContinues
       /\ K!Disconnect => KP!Disconnect
  BY DEF K!RestartKernel, KP!RestartKernel, K!RestartContinues, KP!RestartContinues,
     K!SwapClient, KP!SwapClient, K!Drain, KP!Drain, K!RestartEnds, KP!RestartEnds,
     K!Disconnect, KP!Disconnect, K!Called, KP!Called
<1>12. K!Next => KP!Next
  BY <1>6, <1>7, <1>9, <1>10, <1>11 DEF K!Next, KP!Next
<1>13. UNCHANGED K!vars => UNCHANGED KP!vars
  BY DEF K!vars, KP!vars
<1>14. QED
  BY <1>1, <1>12, <1>13

(* Training is Jobs and KernelClient put together: it adds steps to        *)
(* neither (training_tools.py:21-33, 37-46).                              *)
THEOREM PartsAreKept == TSpec => Spec /\ K!Spec
<1>1. TInit => Init /\ K!Init
  BY DEF TInit
<1>2. QED
  BY <1>1, JobsPart, KernelPart, PTL DEF TSpec, Spec, K!Spec

-----------------------------------------------------------------------------
(***************************************************************************)
(* What a completed training job means.                                    *)
(***************************************************************************)

\* A target returns only when its execution has ended well.
Returned == \A j \in Job : worker[j] = "returned" => pc[j] = "ok"

KInv == KP!TypeOK /\ KP!Inv /\ KP!RestartInv /\ KP!FateInv

LEMMA KernelInv == K!Spec => []KInv
<1>1. K!Init => KInv
  BY SameKernel, TrainingBounds, KP!StartsRight, KP!FateStarts DEF KInv, KP!BoundAssumption
<1>2. KInv /\ [K!Next]_(K!vars) => KInv'
  BY SameKernel, TrainingBounds, KP!StepKeeps, KP!RestartStep, KP!FateStep
  DEF KInv, KP!BoundAssumption
<1>3. QED
  BY <1>1, <1>2, PTL DEF K!Spec

\* An execution that has ended well is not begun again by its job.
LEMMA EndKept ==
  ASSUME KInv, [TNext]_tvars, NEW j \in Job, pc[j] = "ok"
  PROVE  pc'[j] = "ok"
<1> USE LoopAssumption DEF KInv, KP!TypeOK
<1>1. ASSUME NEW c \in Job \cup {Loop}, c # j, NEW m, K!Handle(c, m)
      PROVE  pc'[j] = pc[j]
  BY <1>1 DEF K!Handle, K!Keep, K!Finish
<1>2. ASSUME NEW c \in Job \cup {Loop}, c # j, K!Wait(c)
      PROVE  pc'[j] = pc[j]
  BY <1>1, <1>2 DEF K!Wait, K!Receive, K!ReceiveFormer, K!FormerSilent, K!Timeout,
     K!ChannelGone, K!EndCall
<1>3. ASSUME NEW c \in Job \cup {Loop}, c # j, K!Execute(c) \/ K!ExecuteUnavailable(c)
      PROVE  pc'[j] = pc[j]
  BY <1>3 DEF K!Execute, K!ExecuteUnavailable
<1>4. j \notin behind /\ ~TargetExecutes(j)
  BY DEF KP!RestartInv, KP!LeftBehind, TargetExecutes
<1>5. ~K!Wait(j)
  BY <1>4 DEF K!Wait, K!Receive, K!Take, K!ReceiveFormer, K!FormerSilent, K!Timeout,
     K!ChannelGone, K!EndCall
<1>6. CASE ExecuteCode
  BY <1>3, <1>6 DEF ExecuteCode
<1>7. CASE StopExecution \/ CloseSession \/ RestartRuntime \/ RestartContinues
  BY <1>7 DEF StopExecution, CloseSession, RestartRuntime, RestartContinues, K!Interrupt,
     K!Disconnect, K!RestartKernel, K!RestartContinues, K!SwapClient, K!Drain, K!RestartEnds
<1>8. ASSUME NEW c \in Job \cup {Loop}, Waits(c) PROVE pc'[j] = pc[j]
  BY <1>2, <1>5, <1>8 DEF Waits
<1>9. ASSUME NEW k \in Job, TargetExecutes(k) PROVE pc'[j] = pc[j]
  BY <1>3, <1>4, <1>9 DEF TargetExecutes
<1>10. ASSUME NEW k \in Job,
              \/ RunTraining(k) \/ CancelJob(k) \/ CallContinues(k) \/ ThreadStep(k)
              \/ TargetReturns(k) \/ StopTraining(k)
       PROVE  pc' = pc
  BY <1>10 DEF RunTraining, CancelJob, CallContinues, ThreadStep, TargetReturns,
     StopTraining, K!Interrupt, kernel
<1>11. CASE K!Kernel
  BY <1>11 DEF K!Kernel, K!KernelStarts, K!KernelPublishes, K!KernelFinishes, K!KernelFails
<1>12. UNCHANGED tvars => pc' = pc
  BY DEF tvars, kernel
<1>13. QED
  BY <1>6, <1>7, <1>8, <1>9, <1>10, <1>11, <1>12 DEF TNext, TargetStep

LEMMA ReturnedStep == TypeOK /\ KInv /\ Returned /\ [TNext]_tvars => Returned'
<1>1. SUFFICES ASSUME TypeOK, KInv, Returned, [TNext]_tvars, NEW j \in Job,
                      worker'[j] = "returned"
               PROVE  pc'[j] = "ok"
  BY DEF Returned
<1>2. CASE worker[j] = "returned"
  BY <1>1, <1>2, EndKept DEF Returned
<1>3. CASE worker[j] # "returned"
  <2>1. ASSUME NEW k \in Job,
               \/ RunTraining(k) \/ CancelJob(k) \/ CallContinues(k) \/ StopTraining(k)
               \/ TargetExecutes(k)
        PROVE  worker' = worker
    BY <2>1 DEF RunTraining, Submit, CancelJob, CancelCheck, CallContinues, CancelSet,
       StopCancel, StopTraining, TargetExecutes, vars
  <2>2. ASSUME NEW k \in Job, ThreadStep(k) PROVE worker'[j] \in {worker[j], "begin", "target"}
    BY <1>1, <2>2 DEF ThreadStep, RunnerStep, Acquire, Refuse, RefusedEnd, CheckCancel,
       Caught, Admit, Spawn, SpawnFails, JoinReturns, Judge, WriteVerdict, Publish, Leave,
       WorkerStarts, TypeOK
  <2>3. \/ ExecuteCode \/ StopExecution \/ CloseSession
        \/ RestartRuntime \/ RestartContinues
        \/ \E c \in Job \cup {Loop} : Waits(c)
        \/ K!Kernel /\ UNCHANGED vars
        \/ UNCHANGED tvars
        => worker' = worker
    BY DEF ExecuteCode, StopExecution, RestartRuntime, RestartContinues, CloseSession,
       Waits, tvars, vars
  <2>4. PICK k \in Job : TargetReturns(k)
    BY <1>1, <1>3, <2>1, <2>2, <2>3 DEF TNext, TargetStep
  <2>5. k = j
    BY <1>1, <1>3, <2>4 DEF TargetReturns, TargetEnds, TypeOK
  <2>6. QED
    BY <1>1, <2>4, <2>5 DEF TargetReturns, Outcome, kernel
<1>4. QED
  BY <1>2, <1>3

(* A completed job's code was run to its end by the kernel, or its error   *)
(* message was taken off the shared channel by another caller, or lost in  *)
(* a restart under way as it was sent, or the kernel dropped it behind     *)
(* another request that failed (kernel_client.py:92-145,                   *)
(* job_manager.py:85-86).                                                  *)
THEOREM CompletedHasRun == TSpec => []CompletedMeansRan
<1>1. ASSUME KInv, Returned, VerdictHonest PROVE CompletedMeansRan
  <2>1. SUFFICES ASSUME NEW j \in Job, status[j] = "completed"
                 PROVE  \/ fate[msgId[j]] = "ran"
                        \/ fate[msgId[j]] = "raised" /\ msgId[j] \in lost \cup during
                        \/ fate[msgId[j]] = "aborted" /\ \E r \in 1..(msgId[j] - 1) : fate[r] = "raised"
    BY DEF CompletedMeansRan
  <2>2. pc[j] = "ok"
    BY <1>1, <2>1 DEF Returned, VerdictHonest
  <2>3. \/ fate[msgId[j]] \in {"ran", "aborted"}
        \/ fate[msgId[j]] = "raised" /\ msgId[j] \in lost \cup during
    BY <1>1, <2>2 DEF KInv, KP!Inv, KP!OnlyOthersLoseOutput, KP!Disturbed
  <2>4. msgId[j] \in 1..MaxRequests
    BY <1>1, <2>2, TrainingBounds DEF KInv, KP!TypeOK, KP!Inv, KP!NumberedOnce
  <2>5. fate[msgId[j]] = "aborted" => \E r \in 1..(msgId[j] - 1) : fate[r] = "raised"
    BY <1>1, <2>4 DEF KInv, KP!FateInv, KP!AbortedBehindRaised, KP!Request
  <2>6. QED
    BY <2>3, <2>5
<1>2. TInit => Returned
  BY DEF TInit, Init, Returned
<1>3. Spec => [](TypeOK /\ VerdictHonest)
  BY TypeCorrect, VerdictsAreHonest, PTL
<1>4. QED
  BY <1>1, <1>2, <1>3, PartsAreKept, KernelInv, ReturnedStep, PTL DEF TSpec
=============================================================================
