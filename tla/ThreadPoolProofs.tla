--------------------------- MODULE ThreadPoolProofs ---------------------------
(***************************************************************************)
(* Theorems about ThreadPool, for every number of threads, every set of    *)
(* clients and jobs and every choice of the calls they make.               *)
(*                                                                         *)
(* The inductive invariant is IInv.  TypeOK alone is not inductive: that   *)
(* the decrement of _totalJobsCount stays in Nat needs Accounting, which   *)
(* needs LocalsOK (where in its loop a worker holds a job).  That no       *)
(* worker sleeps through the destruction needs the ownership of the mutex  *)
(* (MutexOK) and the order in which ~Impl writes and notifies (RunningOK). *)
(* That no job waits beside a sleeping worker needs BlockOK: a worker      *)
(* about to block, or blocked, is where its pc says, and the queue it      *)
(* found empty cannot fill before it has released the mutex.               *)
(***************************************************************************)
EXTENDS ThreadPool, QueueLemmas

IInv ==
  /\ TypeOK
  /\ LocalsOK
  /\ Accounting
  /\ MutexOK
  /\ RunningOK
  /\ ShutdownWakesAll
  /\ NoStrandedWaiter
  /\ BlockOK
  /\ WorkConserving

-----------------------------------------------------------------------------
(* The constants.                                                          *)

\* Impl::Impl never leaves the pool without a worker.
LEMMA ThreadCountPositive == ThreadCount \in Nat /\ ThreadCount >= 1
  BY ThreadsAssumption DEF ThreadCount

\* A worker is not the unlocked mutex, and the workers are finitely many.
LEMMA WorkersFinite ==
  /\ IsFiniteSet(Workers)
  /\ Workers \subseteq Nat \ {Unlocked}
<1>1. IsFiniteSet(1 .. ThreadCount)
  BY ThreadCountPositive, FS_Interval
<1> QED
  BY <1>1, ThreadCountPositive DEF Workers, Unlocked

\* The threads that call the pool are finitely many.
LEMMA CallersFinite == IsFiniteSet(Callers)
  BY WorkersFinite, PoolAssumption, FS_Union DEF Callers

\* A batch of fresh jobs is a sequence of fresh jobs.
LEMMA FreshBatch ==
  ASSUME NEW batch \in Batches PROVE batch \in Seq(FreshJobs)
<1>1. PICK n \in 0 .. Cardinality(Jobs) : batch \in [1 .. n -> FreshJobs]
  BY DEF Batches
<1>2. n \in Nat
  OBVIOUS
<1> QED
  BY <1>1, <1>2, SeqDef

\* A batch is a sequence of jobs.
LEMMA BatchIsSeq == ASSUME NEW batch \in Batches PROVE batch \in Seq(Jobs)
<1>1. FreshJobs \subseteq Jobs
  BY DEF FreshJobs
<1> QED
  BY <1>1, FreshBatch, SeqMonotonic

-----------------------------------------------------------------------------
(* The sets that are counted.                                              *)

\* The workers counted by Accounting are finitely many.
LEMMA ProcessingFinite ==
  IsFiniteSet(Processing) /\ Cardinality(Processing) \in Nat
<1>1. IsFiniteSet(Processing)
  BY WorkersFinite, FS_Subset DEF Processing
<1> QED
  BY <1>1, FS_CardinalityType

\* So are those that are awake ...
LEMMA AwakeFinite == IsFiniteSet(Awake) /\ Cardinality(Awake) \in Nat
<1>1. IsFiniteSet(Awake)
  BY WorkersFinite, FS_Subset DEF Awake
<1> QED
  BY <1>1, FS_CardinalityType

\* ... and the callers about to notify.
LEMMA NotifyingOneFinite ==
  IsFiniteSet(NotifyingOne) /\ Cardinality(NotifyingOne) \in Nat
<1>1. IsFiniteSet(NotifyingOne)
  BY CallersFinite, FS_Subset DEF NotifyingOne
<1> QED
  BY <1>1, FS_CardinalityType

-----------------------------------------------------------------------------
(* The steps of the inductive invariant, one lemma per part.               *)

\* Every step keeps the types; the decrement needs Accounting.
LEMMA TypeStep ==
  ASSUME TypeOK, Accounting, [Next]_vars
  PROVE  TypeOK'
<1> USE DEF Callers
<1>1. ASSUME NEW w \in Workers, Spawn(w) PROVE TypeOK'
  BY <1>1 DEF Spawn, TypeOK, poolVars, cvVars
<1>2. ASSUME NEW w \in Workers, SpinTest(w) PROVE TypeOK'
  BY <1>2 DEF SpinTest, Goto, TypeOK, poolVars, cvVars
<1>3. ASSUME NEW w \in Workers, LockAndReduce(w) PROVE TypeOK'
  <2>1. CASE reduceJobs[w]
    <3>1. w \in Processing
      BY <2>1 DEF Processing
    <3>2. totalJobsCount - 1 \in Nat
      BY <3>1, ProcessingFinite, FS_EmptySet DEF Accounting, TypeOK
    <3> QED
      BY <2>1, <3>2, <1>3 DEF LockAndReduce, NotifyWaiters, Goto, TypeOK
  <2>2. CASE ~reduceJobs[w]
    BY <2>2, <1>3 DEF LockAndReduce, Goto, TypeOK
  <2> QED
    BY <2>1, <2>2
<1>4. ASSUME NEW w \in Workers, TestFails(w) PROVE TypeOK'
  BY <1>4 DEF TestFails, Goto, TypeOK, poolVars, cvVars
<1>5. ASSUME NEW w \in Workers, Block(w) PROVE TypeOK'
  BY <1>5 DEF Block, Goto, TypeOK, poolVars
<1>6. ASSUME NEW w \in Workers, Relock(w) PROVE TypeOK'
  BY <1>6 DEF Relock, Goto, TypeOK, poolVars, cvVars
<1>7. ASSUME NEW w \in Workers, RetrieveNothing(w) PROVE TypeOK'
  BY <1>7 DEF RetrieveNothing, Goto, TypeOK, poolVars, cvVars
<1>8. ASSUME NEW w \in Workers, RetrieveJob(w) PROVE TypeOK'
  <2>1. Head(jobs) \in Jobs /\ Tail(jobs) \in Seq(Jobs)
    BY <1>8 DEF RetrieveJob, TypeOK
  <2> QED
    BY <2>1, <1>8 DEF RetrieveJob, QueuePopped, Goto, TypeOK, cvVars
<1>9. ASSUME NEW w \in Workers, StartJob(w) PROVE TypeOK'
  BY <1>9 DEF StartJob, Goto, TypeOK, poolVars, cvVars
<1>10. ASSUME NEW w \in Workers, SkipJob(w) PROVE TypeOK'
  BY <1>10 DEF SkipJob, Goto, TypeOK, poolVars, cvVars
<1>11. ASSUME NEW w \in Workers, FinishJob(w) PROVE TypeOK'
  BY <1>11 DEF FinishJob, Goto, TypeOK, poolVars, cvVars
<1>12. ASSUME NEW t \in Callers, NotifyOne(t) PROVE TypeOK'
  BY <1>12 DEF NotifyOne, TypeOK, poolVars, workerVars
<1>13. ASSUME NEW t \in Callers, NotifyAll(t) PROVE TypeOK'
  BY <1>13 DEF NotifyAll, TypeOK, poolVars, workerVars
<1>14. ASSUME NEW t \in Callers, WaitRetry(t) PROVE TypeOK'
  BY <1>14 DEF WaitRetry, TypeOK, poolVars, workerVars
<1>15. ASSUME NEW t \in Callers, WaitTimeout(t) PROVE TypeOK'
  BY <1>15 DEF WaitTimeout, TypeOK, poolVars, workerVars
<1>16. ASSUME NEW t \in Callers, EnqueueStash(t) PROVE TypeOK'
  BY <1>16 DEF EnqueueStash, LockedEnqueue, Counted, TypeOK, workerVars, cvVars
<1>17. ASSUME NEW t \in Callers, Clear(t) PROVE TypeOK'
  BY <1>17 DEF Clear, TypeOK, workerVars, cvVars
<1>18. ASSUME NEW t \in Callers, DequeueAll(t) PROVE TypeOK'
  BY <1>18 DEF DequeueAll, TypeOK, workerVars, cvVars
<1>19. ASSUME NEW t \in Callers, NEW job \in Jobs, Enqueue(t, job)
     PROVE TypeOK'
  BY <1>19 DEF Enqueue, LockedEnqueue, Counted, TypeOK, workerVars, cvVars
<1>20. ASSUME NEW t \in Callers, NEW batch \in Batches, EnqueueMany(t, batch)
     PROVE TypeOK'
  <2>1. batch \in Seq(Jobs)
    BY BatchIsSeq
  <2> QED
    BY <2>1, <1>20
    DEF EnqueueMany, LockedEnqueue, Counted, TypeOK, workerVars, cvVars
<1>21. ASSUME NEW t \in Callers, NEW op \in {"wait", "wait_for"}, Wait(t, op)
     PROVE TypeOK'
  BY <1>21 DEF Wait, TypeOK, poolVars, workerVars
<1>22. CASE SpuriousWakeup
  BY <1>22 DEF SpuriousWakeup, TypeOK, poolVars, workerVars
<1>23. CASE DestructorSignal
  BY <1>23 DEF DestructorSignal, TypeOK, poolVars, workerVars, cvVars
<1>24. CASE DestructorNotify
  BY <1>24 DEF DestructorNotify, TypeOK, poolVars, workerVars
<1>25. CASE DestructorJoin
  BY <1>25 DEF DestructorJoin, TypeOK, poolVars, workerVars, cvVars
<1>26. CASE UNCHANGED vars
  BY <1>26 DEF vars, TypeOK, cvVars, poolVars, workerVars
<1> QED
  BY <1>1, <1>2, <1>3, <1>4, <1>5, <1>6, <1>7, <1>8, <1>9, <1>10, <1>11, <1>12,
     <1>13, <1>14, <1>15, <1>16, <1>17, <1>18, <1>19, <1>20, <1>21, <1>22,
     <1>23, <1>24, <1>25, <1>26
  DEF Next, WorkerStep, CallStep, Destroyed

\* Every step keeps what a worker's locals hold at each point of its loop.
LEMMA LocalsStep ==
  ASSUME TypeOK, LocalsOK, [Next]_vars
  PROVE  LocalsOK'
<1>1. ASSUME NEW w \in Workers, Spawn(w) PROVE LocalsOK'
  BY <1>1 DEF Spawn, LocalsOK, TypeOK
<1>2. ASSUME NEW w \in Workers, SpinTest(w) PROVE LocalsOK'
  BY <1>2 DEF SpinTest, Goto, LocalsOK, TypeOK
<1>3. ASSUME NEW w \in Workers, LockAndReduce(w) PROVE LocalsOK'
  BY <1>3 DEF LockAndReduce, Goto, LocalsOK, TypeOK
<1>4. ASSUME NEW w \in Workers, TestFails(w) PROVE LocalsOK'
  BY <1>4 DEF TestFails, Goto, LocalsOK, TypeOK
<1>5. ASSUME NEW w \in Workers, Block(w) PROVE LocalsOK'
  BY <1>5 DEF Block, Goto, LocalsOK, TypeOK
<1>6. ASSUME NEW w \in Workers, Relock(w) PROVE LocalsOK'
  BY <1>6 DEF Relock, Goto, LocalsOK, TypeOK
<1>7. ASSUME NEW w \in Workers, RetrieveNothing(w) PROVE LocalsOK'
  BY <1>7 DEF RetrieveNothing, Goto, LocalsOK, TypeOK
<1>8. ASSUME NEW w \in Workers, RetrieveJob(w) PROVE LocalsOK'
  BY <1>8 DEF RetrieveJob, Goto, LocalsOK, TypeOK
<1>9. ASSUME NEW w \in Workers, StartJob(w) PROVE LocalsOK'
  BY <1>9 DEF StartJob, Goto, LocalsOK, TypeOK
<1>10. ASSUME NEW w \in Workers, SkipJob(w) PROVE LocalsOK'
  BY <1>10 DEF SkipJob, Goto, LocalsOK, TypeOK
<1>11. ASSUME NEW w \in Workers, FinishJob(w) PROVE LocalsOK'
  BY <1>11 DEF FinishJob, Goto, LocalsOK, TypeOK
<1>12. ASSUME NEW t \in Callers, NotifyOne(t) PROVE LocalsOK'
  BY <1>12 DEF NotifyOne, LocalsOK, TypeOK, workerVars
<1>13. ASSUME NEW t \in Callers, NotifyAll(t) PROVE LocalsOK'
  BY <1>13 DEF NotifyAll, LocalsOK, TypeOK, workerVars
<1>14. ASSUME NEW t \in Callers, WaitRetry(t) PROVE LocalsOK'
  BY <1>14 DEF WaitRetry, LocalsOK, TypeOK, workerVars
<1>15. ASSUME NEW t \in Callers, WaitTimeout(t) PROVE LocalsOK'
  BY <1>15 DEF WaitTimeout, LocalsOK, TypeOK, workerVars
<1>16. ASSUME NEW t \in Callers, EnqueueStash(t) PROVE LocalsOK'
  BY <1>16 DEF EnqueueStash, LockedEnqueue, LocalsOK, TypeOK, workerVars
<1>17. ASSUME NEW t \in Callers, Clear(t) PROVE LocalsOK'
  BY <1>17 DEF Clear, LocalsOK, TypeOK, workerVars
<1>18. ASSUME NEW t \in Callers, DequeueAll(t) PROVE LocalsOK'
  BY <1>18 DEF DequeueAll, LocalsOK, TypeOK, workerVars
<1>19. ASSUME NEW t \in Callers, NEW job \in Jobs, Enqueue(t, job)
     PROVE LocalsOK'
  BY <1>19 DEF Enqueue, LockedEnqueue, LocalsOK, TypeOK, workerVars
<1>20. ASSUME NEW t \in Callers, NEW batch \in Batches, EnqueueMany(t, batch)
     PROVE LocalsOK'
  BY <1>20 DEF EnqueueMany, LockedEnqueue, LocalsOK, TypeOK, workerVars
<1>21. ASSUME NEW t \in Callers, NEW op \in {"wait", "wait_for"}, Wait(t, op)
     PROVE LocalsOK'
  BY <1>21 DEF Wait, LocalsOK, TypeOK, workerVars
<1>22. CASE SpuriousWakeup
  BY <1>22 DEF SpuriousWakeup, LocalsOK, TypeOK, workerVars
<1>23. CASE DestructorSignal
  BY <1>23 DEF DestructorSignal, LocalsOK, TypeOK, workerVars
<1>24. CASE DestructorNotify
  BY <1>24 DEF DestructorNotify, LocalsOK, TypeOK, workerVars
<1>25. CASE DestructorJoin
  BY <1>25 DEF DestructorJoin, LocalsOK, TypeOK, workerVars
<1>26. CASE UNCHANGED vars
  BY <1>26 DEF vars, LocalsOK, TypeOK, workerVars
<1> QED
  BY <1>1, <1>2, <1>3, <1>4, <1>5, <1>6, <1>7, <1>8, <1>9, <1>10, <1>11, <1>12,
     <1>13, <1>14, <1>15, <1>16, <1>17, <1>18, <1>19, <1>20, <1>21, <1>22,
     <1>23, <1>24, <1>25, <1>26
  DEF Next, WorkerStep, CallStep, Destroyed

\* Every step moves as much as it counts.
LEMMA AccountingStep ==
  ASSUME TypeOK, LocalsOK, Accounting, [Next]_vars
  PROVE  Accounting'
<1>1. ASSUME NEW w \in Workers, Spawn(w) PROVE Accounting'
  BY <1>1 DEF Spawn, Accounting, Processing, poolVars
<1>2. ASSUME NEW w \in Workers, SpinTest(w) PROVE Accounting'
  BY <1>2 DEF SpinTest, Accounting, Processing, poolVars
<1>3. ASSUME NEW w \in Workers, LockAndReduce(w) PROVE Accounting'
  <2>1. CASE reduceJobs[w]
    <3>1. w \in Processing /\ Processing' = Processing \ {w}
      BY <2>1, <1>3 DEF LockAndReduce, Goto, Processing, LocalsOK, TypeOK
    <3>2. Cardinality(Processing') = Cardinality(Processing) - 1
      BY <3>1, ProcessingFinite, FS_RemoveElement
    <3> QED
      BY <2>1, <3>2, ProcessingFinite, <1>3
      DEF LockAndReduce, Accounting, TypeOK
  <2>2. CASE ~reduceJobs[w]
    <3>1. Processing' = Processing
      BY <2>2, <1>3 DEF LockAndReduce, Processing, TypeOK
    <3> QED
      BY <2>2, <3>1, <1>3 DEF LockAndReduce, Accounting
  <2> QED
    BY <2>1, <2>2
<1>4. ASSUME NEW w \in Workers, TestFails(w) PROVE Accounting'
  BY <1>4 DEF TestFails, Accounting, Processing, poolVars
<1>5. ASSUME NEW w \in Workers, Block(w) PROVE Accounting'
  BY <1>5 DEF Block, Accounting, Processing, poolVars
<1>6. ASSUME NEW w \in Workers, Relock(w) PROVE Accounting'
  BY <1>6 DEF Relock, Accounting, Processing, poolVars
<1>7. ASSUME NEW w \in Workers, RetrieveNothing(w) PROVE Accounting'
  BY <1>7 DEF RetrieveNothing, Accounting, Processing, poolVars
<1>8. ASSUME NEW w \in Workers, RetrieveJob(w) PROVE Accounting'
  <2>1. /\ Head(jobs) \in Jobs /\ Len(Tail(jobs)) = Len(jobs) - 1
        /\ Len(jobs) \in Nat
    BY <1>8 DEF RetrieveJob, TypeOK
  <2>2. w \notin Processing /\ Processing' = Processing \cup {w}
    BY <2>1, <1>8, PoolAssumption
    DEF RetrieveJob, Goto, Processing, LocalsOK, TypeOK
  <2>3. Cardinality(Processing') = Cardinality(Processing) + 1
    BY <2>2, ProcessingFinite, FS_AddElement
  <2> QED
    BY <2>1, <2>3, ProcessingFinite, <1>8
    DEF RetrieveJob, QueuePopped, Accounting, TypeOK
<1>9. ASSUME NEW w \in Workers, StartJob(w) PROVE Accounting'
  BY <1>9 DEF StartJob, Accounting, Processing, poolVars
<1>10. ASSUME NEW w \in Workers, SkipJob(w) PROVE Accounting'
  <2>1. CASE callback[w] = NoJob
    <3>1. Processing' = Processing
      BY <2>1, <1>10 DEF SkipJob, Processing, TypeOK
    <3> QED
      BY <2>1, <3>1, <1>10 DEF SkipJob, Accounting, poolVars
  <2>2. CASE callback[w] # NoJob
    <3>1. w \in Processing /\ Processing' = Processing \ {w}
      BY <2>2, <1>10 DEF SkipJob, Goto, Processing, LocalsOK, TypeOK
    <3>2. Cardinality(Processing') = Cardinality(Processing) - 1
      BY <3>1, ProcessingFinite, FS_RemoveElement
    <3> QED
      BY <2>2, <3>2, ProcessingFinite, <1>10
      DEF SkipJob, Accounting, poolVars, TypeOK
  <2> QED
    BY <2>1, <2>2
<1>11. ASSUME NEW w \in Workers, FinishJob(w) PROVE Accounting'
  <2>1. Processing' = Processing
    BY <1>11 DEF FinishJob, Goto, Processing, LocalsOK, TypeOK
  <2> QED
    BY <2>1, <1>11 DEF FinishJob, Accounting, poolVars
<1>12. ASSUME NEW t \in Callers, NotifyOne(t) PROVE Accounting'
  BY <1>12 DEF NotifyOne, Accounting, Processing, poolVars, workerVars
<1>13. ASSUME NEW t \in Callers, NotifyAll(t) PROVE Accounting'
  BY <1>13 DEF NotifyAll, Accounting, Processing, poolVars, workerVars
<1>14. ASSUME NEW t \in Callers, WaitRetry(t) PROVE Accounting'
  BY <1>14 DEF WaitRetry, Accounting, Processing, poolVars, workerVars
<1>15. ASSUME NEW t \in Callers, WaitTimeout(t) PROVE Accounting'
  BY <1>15 DEF WaitTimeout, Accounting, Processing, poolVars, workerVars
<1>16. ASSUME NEW t \in Callers, EnqueueStash(t) PROVE Accounting'
  <2>1. /\ Len(jobs \o stash) = Len(jobs) + Len(stash) /\ Len(jobs) \in Nat
        /\ Len(stash) \in Nat
    BY ConcatProperties, LenProperties DEF TypeOK
  <2>2. Processing' = Processing
    BY <1>16 DEF EnqueueStash, LockedEnqueue, Processing, workerVars
  <2> QED
    BY <2>1, <2>2, ProcessingFinite, <1>16
    DEF EnqueueStash, LockedEnqueue, Counted, Accounting, TypeOK
<1>17. ASSUME NEW t \in Callers, Clear(t) PROVE Accounting'
  <2>1. Processing' = Processing
    BY <1>17 DEF Clear, Processing, workerVars
  <2>2. Len(jobs) \in Nat /\ Len(<<>>) = 0
    BY LenProperties DEF TypeOK
  <2> QED
    BY <2>1, <2>2, ProcessingFinite, <1>17 DEF Clear, Accounting, TypeOK
<1>18. ASSUME NEW t \in Callers, DequeueAll(t) PROVE Accounting'
  <2>1. Processing' = Processing
    BY <1>18 DEF DequeueAll, Processing, workerVars
  <2>2. Len(jobs) \in Nat /\ Len(<<>>) = 0
    BY LenProperties DEF TypeOK
  <2> QED
    BY <2>1, <2>2, ProcessingFinite, <1>18 DEF DequeueAll, Accounting, TypeOK
<1>19. ASSUME NEW t \in Callers, NEW job \in Jobs, Enqueue(t, job)
     PROVE Accounting'
  <2>1. /\ Len(jobs \o <<job>>) = Len(jobs) + Len(<<job>>)
        /\ Len(jobs) \in Nat /\ Len(<<job>>) \in Nat
    BY ConcatProperties, LenProperties DEF TypeOK
  <2>2. Processing' = Processing
    BY <1>19 DEF Enqueue, LockedEnqueue, Processing, workerVars
  <2> QED
    BY <2>1, <2>2, ProcessingFinite, <1>19
    DEF Enqueue, LockedEnqueue, Counted, Accounting, TypeOK
<1>20. ASSUME NEW t \in Callers, NEW batch \in Batches, EnqueueMany(t, batch)
     PROVE Accounting'
  <2>1. /\ Len(jobs \o batch) = Len(jobs) + Len(batch) /\ Len(jobs) \in Nat
        /\ Len(batch) \in Nat
    BY BatchIsSeq, ConcatProperties, LenProperties DEF TypeOK
  <2>2. Processing' = Processing
    BY <1>20 DEF EnqueueMany, LockedEnqueue, Processing, workerVars
  <2> QED
    BY <2>1, <2>2, ProcessingFinite, <1>20
    DEF EnqueueMany, LockedEnqueue, Counted, Accounting, TypeOK
<1>21. ASSUME NEW t \in Callers, NEW op \in {"wait", "wait_for"}, Wait(t, op)
     PROVE Accounting'
  BY <1>21 DEF Wait, Accounting, Processing, poolVars, workerVars
<1>22. CASE SpuriousWakeup
  BY <1>22 DEF SpuriousWakeup, Accounting, Processing, poolVars, workerVars
<1>23. CASE DestructorSignal
  BY <1>23 DEF DestructorSignal, Accounting, Processing, poolVars, workerVars
<1>24. CASE DestructorNotify
  BY <1>24 DEF DestructorNotify, Accounting, Processing, poolVars, workerVars
<1>25. CASE DestructorJoin
  BY <1>25 DEF DestructorJoin, Accounting, Processing, poolVars, workerVars
<1>26. CASE UNCHANGED vars
  BY <1>26 DEF vars, Accounting, Processing, poolVars, workerVars
<1> QED
  BY <1>1, <1>2, <1>3, <1>4, <1>5, <1>6, <1>7, <1>8, <1>9, <1>10, <1>11, <1>12,
     <1>13, <1>14, <1>15, <1>16, <1>17, <1>18, <1>19, <1>20, <1>21, <1>22,
     <1>23, <1>24, <1>25, <1>26
  DEF Next, WorkerStep, CallStep, Destroyed

\* Every step keeps one owner of the mutex.
LEMMA MutexStep ==
  ASSUME TypeOK, MutexOK, [Next]_vars
  PROVE  MutexOK'
<1>1. ASSUME NEW w \in Workers, Spawn(w) PROVE MutexOK'
  BY WorkersFinite, <1>1 DEF Spawn, MutexOK, TypeOK
<1>2. ASSUME NEW w \in Workers, SpinTest(w) PROVE MutexOK'
  BY WorkersFinite, <1>2 DEF SpinTest, Goto, MutexOK, TypeOK
<1>3. ASSUME NEW w \in Workers, LockAndReduce(w) PROVE MutexOK'
  BY WorkersFinite, <1>3 DEF LockAndReduce, Goto, MutexOK, TypeOK
<1>4. ASSUME NEW w \in Workers, TestFails(w) PROVE MutexOK'
  BY WorkersFinite, <1>4 DEF TestFails, Goto, MutexOK, TypeOK
<1>5. ASSUME NEW w \in Workers, Block(w) PROVE MutexOK'
  BY WorkersFinite, <1>5 DEF Block, Goto, MutexOK, TypeOK
<1>6. ASSUME NEW w \in Workers, Relock(w) PROVE MutexOK'
  BY WorkersFinite, <1>6 DEF Relock, Goto, MutexOK, TypeOK
<1>7. ASSUME NEW w \in Workers, RetrieveNothing(w) PROVE MutexOK'
  BY WorkersFinite, <1>7 DEF RetrieveNothing, Goto, MutexOK, TypeOK
<1>8. ASSUME NEW w \in Workers, RetrieveJob(w) PROVE MutexOK'
  BY WorkersFinite, <1>8 DEF RetrieveJob, Goto, MutexOK, TypeOK
<1>9. ASSUME NEW w \in Workers, StartJob(w) PROVE MutexOK'
  BY WorkersFinite, <1>9 DEF StartJob, Goto, MutexOK, TypeOK
<1>10. ASSUME NEW w \in Workers, SkipJob(w) PROVE MutexOK'
  BY WorkersFinite, <1>10 DEF SkipJob, Goto, MutexOK, TypeOK
<1>11. ASSUME NEW w \in Workers, FinishJob(w) PROVE MutexOK'
  BY WorkersFinite, <1>11 DEF FinishJob, Goto, MutexOK, TypeOK
<1>12. ASSUME NEW t \in Callers, NotifyOne(t) PROVE MutexOK'
  BY WorkersFinite, <1>12 DEF NotifyOne, MutexOK, TypeOK, workerVars
<1>13. ASSUME NEW t \in Callers, NotifyAll(t) PROVE MutexOK'
  BY WorkersFinite, <1>13 DEF NotifyAll, MutexOK, TypeOK, workerVars
<1>14. ASSUME NEW t \in Callers, WaitRetry(t) PROVE MutexOK'
  BY WorkersFinite, <1>14 DEF WaitRetry, MutexOK, TypeOK, workerVars
<1>15. ASSUME NEW t \in Callers, WaitTimeout(t) PROVE MutexOK'
  BY WorkersFinite, <1>15 DEF WaitTimeout, MutexOK, TypeOK, workerVars
<1>16. ASSUME NEW t \in Callers, EnqueueStash(t) PROVE MutexOK'
  BY WorkersFinite, <1>16
  DEF EnqueueStash, LockedEnqueue, MutexOK, TypeOK, workerVars
<1>17. ASSUME NEW t \in Callers, Clear(t) PROVE MutexOK'
  BY WorkersFinite, <1>17 DEF Clear, MutexOK, TypeOK, workerVars
<1>18. ASSUME NEW t \in Callers, DequeueAll(t) PROVE MutexOK'
  BY WorkersFinite, <1>18 DEF DequeueAll, MutexOK, TypeOK, workerVars
<1>19. ASSUME NEW t \in Callers, NEW job \in Jobs, Enqueue(t, job)
     PROVE MutexOK'
  BY WorkersFinite, <1>19
  DEF Enqueue, LockedEnqueue, MutexOK, TypeOK, workerVars
<1>20. ASSUME NEW t \in Callers, NEW batch \in Batches, EnqueueMany(t, batch)
     PROVE MutexOK'
  BY WorkersFinite, <1>20
  DEF EnqueueMany, LockedEnqueue, MutexOK, TypeOK, workerVars
<1>21. ASSUME NEW t \in Callers, NEW op \in {"wait", "wait_for"}, Wait(t, op)
     PROVE MutexOK'
  BY WorkersFinite, <1>21 DEF Wait, MutexOK, TypeOK, workerVars
<1>22. CASE SpuriousWakeup
  BY WorkersFinite, <1>22 DEF SpuriousWakeup, MutexOK, TypeOK, workerVars
<1>23. CASE DestructorSignal
  BY WorkersFinite, <1>23 DEF DestructorSignal, MutexOK, TypeOK, workerVars
<1>24. CASE DestructorNotify
  BY WorkersFinite, <1>24 DEF DestructorNotify, MutexOK, TypeOK, workerVars
<1>25. CASE DestructorJoin
  BY WorkersFinite, <1>25 DEF DestructorJoin, MutexOK, TypeOK, workerVars
<1>26. CASE UNCHANGED vars
  BY <1>26 DEF vars, MutexOK, TypeOK, workerVars
<1> QED
  BY <1>1, <1>2, <1>3, <1>4, <1>5, <1>6, <1>7, <1>8, <1>9, <1>10, <1>11, <1>12,
     <1>13, <1>14, <1>15, <1>16, <1>17, <1>18, <1>19, <1>20, <1>21, <1>22,
     <1>23, <1>24, <1>25, <1>26
  DEF Next, WorkerStep, CallStep, Destroyed

\* Only the destructor writes _running, and it does so first.
LEMMA RunningStep ==
  ASSUME TypeOK, RunningOK, [Next]_vars
  PROVE  RunningOK'
<1>1. ASSUME NEW w \in Workers, Spawn(w) PROVE RunningOK'
  BY <1>1 DEF Spawn, RunningOK
<1>2. ASSUME NEW w \in Workers, SpinTest(w) PROVE RunningOK'
  BY <1>2 DEF SpinTest, RunningOK
<1>3. ASSUME NEW w \in Workers, LockAndReduce(w) PROVE RunningOK'
  BY <1>3 DEF LockAndReduce, RunningOK
<1>4. ASSUME NEW w \in Workers, TestFails(w) PROVE RunningOK'
  BY <1>4 DEF TestFails, RunningOK
<1>5. ASSUME NEW w \in Workers, Block(w) PROVE RunningOK'
  BY <1>5 DEF Block, RunningOK
<1>6. ASSUME NEW w \in Workers, Relock(w) PROVE RunningOK'
  BY <1>6 DEF Relock, RunningOK
<1>7. ASSUME NEW w \in Workers, RetrieveNothing(w) PROVE RunningOK'
  BY <1>7 DEF RetrieveNothing, RunningOK
<1>8. ASSUME NEW w \in Workers, RetrieveJob(w) PROVE RunningOK'
  BY <1>8 DEF RetrieveJob, RunningOK
<1>9. ASSUME NEW w \in Workers, StartJob(w) PROVE RunningOK'
  BY <1>9 DEF StartJob, RunningOK
<1>10. ASSUME NEW w \in Workers, SkipJob(w) PROVE RunningOK'
  BY <1>10 DEF SkipJob, RunningOK
<1>11. ASSUME NEW w \in Workers, FinishJob(w) PROVE RunningOK'
  BY <1>11 DEF FinishJob, RunningOK
<1>12. ASSUME NEW t \in Callers, NotifyOne(t) PROVE RunningOK'
  BY <1>12 DEF NotifyOne, RunningOK
<1>13. ASSUME NEW t \in Callers, NotifyAll(t) PROVE RunningOK'
  BY <1>13 DEF NotifyAll, RunningOK
<1>14. ASSUME NEW t \in Callers, WaitRetry(t) PROVE RunningOK'
  BY <1>14 DEF WaitRetry, RunningOK
<1>15. ASSUME NEW t \in Callers, WaitTimeout(t) PROVE RunningOK'
  BY <1>15 DEF WaitTimeout, RunningOK
<1>16. ASSUME NEW t \in Callers, EnqueueStash(t) PROVE RunningOK'
  BY <1>16 DEF EnqueueStash, LockedEnqueue, RunningOK
<1>17. ASSUME NEW t \in Callers, Clear(t) PROVE RunningOK'
  BY <1>17 DEF Clear, RunningOK
<1>18. ASSUME NEW t \in Callers, DequeueAll(t) PROVE RunningOK'
  BY <1>18 DEF DequeueAll, RunningOK
<1>19. ASSUME NEW t \in Callers, NEW job \in Jobs, Enqueue(t, job)
     PROVE RunningOK'
  BY <1>19 DEF Enqueue, LockedEnqueue, RunningOK
<1>20. ASSUME NEW t \in Callers, NEW batch \in Batches, EnqueueMany(t, batch)
     PROVE RunningOK'
  BY <1>20 DEF EnqueueMany, LockedEnqueue, RunningOK
<1>21. ASSUME NEW t \in Callers, NEW op \in {"wait", "wait_for"}, Wait(t, op)
     PROVE RunningOK'
  BY <1>21 DEF Wait, RunningOK
<1>22. CASE SpuriousWakeup
  BY <1>22 DEF SpuriousWakeup, RunningOK
<1>23. CASE DestructorSignal
  BY <1>23 DEF DestructorSignal, RunningOK
<1>24. CASE DestructorNotify
  BY <1>24 DEF DestructorNotify, RunningOK
<1>25. CASE DestructorJoin
  BY <1>25 DEF DestructorJoin, RunningOK
<1>26. CASE UNCHANGED vars
  BY <1>26 DEF vars, RunningOK
<1> QED
  BY <1>1, <1>2, <1>3, <1>4, <1>5, <1>6, <1>7, <1>8, <1>9, <1>10, <1>11, <1>12,
     <1>13, <1>14, <1>15, <1>16, <1>17, <1>18, <1>19, <1>20, <1>21, <1>22,
     <1>23, <1>24, <1>25, <1>26
  DEF Next, WorkerStep, CallStep, Destroyed

\* Once the destructor has notified, no step puts a worker to sleep.
LEMMA ShutdownStep ==
  ASSUME TypeOK, MutexOK, RunningOK, ShutdownWakesAll, [Next]_vars
  PROVE  ShutdownWakesAll'
<1>1. ASSUME NEW w \in Workers, Spawn(w) PROVE ShutdownWakesAll'
  BY <1>1 DEF Spawn, ShutdownWakesAll, TypeOK, cvVars
<1>2. ASSUME NEW w \in Workers, SpinTest(w) PROVE ShutdownWakesAll'
  BY <1>2 DEF SpinTest, Goto, ShutdownWakesAll, TypeOK, cvVars
<1>3. ASSUME NEW w \in Workers, LockAndReduce(w) PROVE ShutdownWakesAll'
  BY <1>3 DEF LockAndReduce, Goto, ShutdownWakesAll, TypeOK
<1>4. ASSUME NEW w \in Workers, TestFails(w) PROVE ShutdownWakesAll'
  BY <1>4 DEF TestFails, Goto, RunningOK, ShutdownWakesAll, TypeOK, cvVars
<1>5. ASSUME NEW w \in Workers, Block(w) PROVE ShutdownWakesAll'
  BY <1>5 DEF Block, Goto, ShutdownWakesAll, TypeOK
<1>6. ASSUME NEW w \in Workers, Relock(w) PROVE ShutdownWakesAll'
  BY <1>6 DEF Relock, Goto, ShutdownWakesAll, TypeOK, cvVars
<1>7. ASSUME NEW w \in Workers, RetrieveNothing(w) PROVE ShutdownWakesAll'
  BY <1>7 DEF RetrieveNothing, Goto, ShutdownWakesAll, TypeOK, cvVars
<1>8. ASSUME NEW w \in Workers, RetrieveJob(w) PROVE ShutdownWakesAll'
  BY <1>8 DEF RetrieveJob, Goto, ShutdownWakesAll, TypeOK, cvVars
<1>9. ASSUME NEW w \in Workers, StartJob(w) PROVE ShutdownWakesAll'
  BY <1>9 DEF StartJob, Goto, ShutdownWakesAll, TypeOK, cvVars
<1>10. ASSUME NEW w \in Workers, SkipJob(w) PROVE ShutdownWakesAll'
  BY <1>10 DEF SkipJob, Goto, ShutdownWakesAll, TypeOK, cvVars
<1>11. ASSUME NEW w \in Workers, FinishJob(w) PROVE ShutdownWakesAll'
  BY <1>11 DEF FinishJob, Goto, ShutdownWakesAll, TypeOK, cvVars
<1>12. ASSUME NEW t \in Callers, NotifyOne(t) PROVE ShutdownWakesAll'
  BY <1>12 DEF NotifyOne, ShutdownWakesAll, TypeOK, workerVars
<1>13. ASSUME NEW t \in Callers, NotifyAll(t) PROVE ShutdownWakesAll'
  BY <1>13 DEF NotifyAll, ShutdownWakesAll, TypeOK, workerVars
<1>14. ASSUME NEW t \in Callers, WaitRetry(t) PROVE ShutdownWakesAll'
  BY <1>14 DEF WaitRetry, ShutdownWakesAll, TypeOK, workerVars
<1>15. ASSUME NEW t \in Callers, WaitTimeout(t) PROVE ShutdownWakesAll'
  BY <1>15 DEF WaitTimeout, ShutdownWakesAll, TypeOK, workerVars
<1>16. ASSUME NEW t \in Callers, EnqueueStash(t) PROVE ShutdownWakesAll'
  BY <1>16
  DEF EnqueueStash, LockedEnqueue, ShutdownWakesAll, TypeOK, workerVars, cvVars
<1>17. ASSUME NEW t \in Callers, Clear(t) PROVE ShutdownWakesAll'
  BY <1>17 DEF Clear, ShutdownWakesAll, TypeOK, workerVars, cvVars
<1>18. ASSUME NEW t \in Callers, DequeueAll(t) PROVE ShutdownWakesAll'
  BY <1>18 DEF DequeueAll, ShutdownWakesAll, TypeOK, workerVars, cvVars
<1>19. ASSUME NEW t \in Callers, NEW job \in Jobs, Enqueue(t, job)
     PROVE ShutdownWakesAll'
  BY <1>19
  DEF Enqueue, LockedEnqueue, ShutdownWakesAll, TypeOK, workerVars, cvVars
<1>20. ASSUME NEW t \in Callers, NEW batch \in Batches, EnqueueMany(t, batch)
     PROVE ShutdownWakesAll'
  BY <1>20
  DEF EnqueueMany, LockedEnqueue, ShutdownWakesAll, TypeOK, workerVars, cvVars
<1>21. ASSUME NEW t \in Callers, NEW op \in {"wait", "wait_for"}, Wait(t, op)
     PROVE ShutdownWakesAll'
  BY <1>21 DEF Wait, ShutdownWakesAll, TypeOK, workerVars
<1>22. CASE SpuriousWakeup
  BY <1>22 DEF SpuriousWakeup, ShutdownWakesAll, TypeOK, workerVars
<1>23. CASE DestructorSignal
  BY <1>23 DEF DestructorSignal, ShutdownWakesAll, TypeOK, workerVars, cvVars
<1>24. CASE DestructorNotify
  <2>1. \A w \in Workers : pc[w] # "block"
    BY WorkersFinite, <1>24 DEF DestructorNotify, MutexOK
  <2> QED
    BY <2>1, <1>24 DEF DestructorNotify, ShutdownWakesAll, workerVars
<1>25. CASE DestructorJoin
  BY <1>25 DEF DestructorJoin, ShutdownWakesAll, TypeOK, workerVars, cvVars
<1>26. CASE UNCHANGED vars
  BY <1>26 DEF vars, ShutdownWakesAll, TypeOK, cvVars, workerVars
<1> QED
  BY <1>1, <1>2, <1>3, <1>4, <1>5, <1>6, <1>7, <1>8, <1>9, <1>10, <1>11, <1>12,
     <1>13, <1>14, <1>15, <1>16, <1>17, <1>18, <1>19, <1>20, <1>21, <1>22,
     <1>23, <1>24, <1>25, <1>26
  DEF Next, WorkerStep, CallStep, Destroyed

\* A waiter blocks on a positive count, and the step that brings it to zero
\* wakes every waiter.
LEMMA WaiterStep ==
  ASSUME TypeOK, NoStrandedWaiter, [Next]_vars
  PROVE  NoStrandedWaiter'
<1>1. ASSUME NEW w \in Workers, Spawn(w) PROVE NoStrandedWaiter'
  BY <1>1 DEF Spawn, NoStrandedWaiter, poolVars, cvVars
<1>2. ASSUME NEW w \in Workers, SpinTest(w) PROVE NoStrandedWaiter'
  BY <1>2 DEF SpinTest, NoStrandedWaiter, poolVars, cvVars
<1>3. ASSUME NEW w \in Workers, LockAndReduce(w) PROVE NoStrandedWaiter'
  BY <1>3 DEF LockAndReduce, NotifyWaiters, NoStrandedWaiter
<1>4. ASSUME NEW w \in Workers, TestFails(w) PROVE NoStrandedWaiter'
  BY <1>4 DEF TestFails, NoStrandedWaiter, poolVars, cvVars
<1>5. ASSUME NEW w \in Workers, Block(w) PROVE NoStrandedWaiter'
  BY <1>5 DEF Block, NoStrandedWaiter, poolVars
<1>6. ASSUME NEW w \in Workers, Relock(w) PROVE NoStrandedWaiter'
  BY <1>6 DEF Relock, NoStrandedWaiter, poolVars, cvVars
<1>7. ASSUME NEW w \in Workers, RetrieveNothing(w) PROVE NoStrandedWaiter'
  BY <1>7 DEF RetrieveNothing, NoStrandedWaiter, poolVars, cvVars
<1>8. ASSUME NEW w \in Workers, RetrieveJob(w) PROVE NoStrandedWaiter'
  BY <1>8 DEF RetrieveJob, NoStrandedWaiter, cvVars
<1>9. ASSUME NEW w \in Workers, StartJob(w) PROVE NoStrandedWaiter'
  BY <1>9 DEF StartJob, NoStrandedWaiter, poolVars, cvVars
<1>10. ASSUME NEW w \in Workers, SkipJob(w) PROVE NoStrandedWaiter'
  BY <1>10 DEF SkipJob, NoStrandedWaiter, poolVars, cvVars
<1>11. ASSUME NEW w \in Workers, FinishJob(w) PROVE NoStrandedWaiter'
  BY <1>11 DEF FinishJob, NoStrandedWaiter, poolVars, cvVars
<1>12. ASSUME NEW t \in Callers, NotifyOne(t) PROVE NoStrandedWaiter'
  BY <1>12 DEF NotifyOne, NoStrandedWaiter, poolVars
<1>13. ASSUME NEW t \in Callers, NotifyAll(t) PROVE NoStrandedWaiter'
  BY <1>13 DEF NotifyAll, NoStrandedWaiter, poolVars
<1>14. ASSUME NEW t \in Callers, WaitRetry(t) PROVE NoStrandedWaiter'
  BY <1>14 DEF WaitRetry, WaitPredicate, NoStrandedWaiter, poolVars
<1>15. ASSUME NEW t \in Callers, WaitTimeout(t) PROVE NoStrandedWaiter'
  BY <1>15 DEF WaitTimeout, NoStrandedWaiter, poolVars
<1>16. ASSUME NEW t \in Callers, EnqueueStash(t) PROVE NoStrandedWaiter'
  <2>1. Len(stash) \in Nat
    BY LenProperties DEF TypeOK
  <2> QED
    BY <2>1, <1>16
    DEF EnqueueStash, LockedEnqueue, Counted, NoStrandedWaiter, TypeOK, cvVars
<1>17. ASSUME NEW t \in Callers, Clear(t) PROVE NoStrandedWaiter'
  BY <1>17 DEF Clear, NoStrandedWaiter, cvVars
<1>18. ASSUME NEW t \in Callers, DequeueAll(t) PROVE NoStrandedWaiter'
  BY <1>18 DEF DequeueAll, NoStrandedWaiter, cvVars
<1>19. ASSUME NEW t \in Callers, NEW job \in Jobs, Enqueue(t, job)
     PROVE NoStrandedWaiter'
  <2>1. Len(<<job>>) \in Nat
    BY LenProperties DEF TypeOK
  <2> QED
    BY <2>1, <1>19
    DEF Enqueue, LockedEnqueue, Counted, NoStrandedWaiter, TypeOK, cvVars
<1>20. ASSUME NEW t \in Callers, NEW batch \in Batches, EnqueueMany(t, batch)
     PROVE NoStrandedWaiter'
  <2>1. Len(batch) \in Nat
    BY BatchIsSeq, LenProperties DEF TypeOK
  <2> QED
    BY <2>1, <1>20
    DEF EnqueueMany, LockedEnqueue, Counted, NoStrandedWaiter, TypeOK, cvVars
<1>21. ASSUME NEW t \in Callers, NEW op \in {"wait", "wait_for"}, Wait(t, op)
     PROVE NoStrandedWaiter'
  BY <1>21 DEF Wait, WaitPredicate, NoStrandedWaiter, poolVars
<1>22. CASE SpuriousWakeup
  BY <1>22 DEF SpuriousWakeup, NoStrandedWaiter, poolVars
<1>23. CASE DestructorSignal
  BY <1>23 DEF DestructorSignal, NoStrandedWaiter, poolVars, cvVars
<1>24. CASE DestructorNotify
  BY <1>24 DEF DestructorNotify, NoStrandedWaiter, poolVars
<1>25. CASE DestructorJoin
  BY <1>25 DEF DestructorJoin, NoStrandedWaiter, poolVars, cvVars
<1>26. CASE UNCHANGED vars
  BY <1>26 DEF vars, NoStrandedWaiter, cvVars, poolVars
<1> QED
  BY <1>1, <1>2, <1>3, <1>4, <1>5, <1>6, <1>7, <1>8, <1>9, <1>10, <1>11, <1>12,
     <1>13, <1>14, <1>15, <1>16, <1>17, <1>18, <1>19, <1>20, <1>21, <1>22,
     <1>23, <1>24, <1>25, <1>26
  DEF Next, WorkerStep, CallStep, Destroyed

\* The mutex keeps the queue empty between a failed predicate and the block.
LEMMA BlockStep ==
  ASSUME TypeOK, MutexOK, BlockOK, [Next]_vars
  PROVE  BlockOK'
<1>1. ASSUME NEW w \in Workers, Spawn(w) PROVE BlockOK'
  BY <1>1 DEF Spawn, BlockOK, TypeOK, poolVars, cvVars
<1>2. ASSUME NEW w \in Workers, SpinTest(w) PROVE BlockOK'
  BY <1>2 DEF SpinTest, Goto, BlockOK, TypeOK, poolVars, cvVars
<1>3. ASSUME NEW w \in Workers, LockAndReduce(w) PROVE BlockOK'
  BY <1>3 DEF LockAndReduce, Goto, BlockOK, TypeOK
<1>4. ASSUME NEW w \in Workers, TestFails(w) PROVE BlockOK'
  BY <1>4 DEF TestFails, Goto, BlockOK, TypeOK, poolVars, cvVars
<1>5. ASSUME NEW w \in Workers, Block(w) PROVE BlockOK'
  BY <1>5 DEF Block, Goto, BlockOK, TypeOK, poolVars
<1>6. ASSUME NEW w \in Workers, Relock(w) PROVE BlockOK'
  BY <1>6 DEF Relock, Goto, BlockOK, TypeOK, poolVars, cvVars
<1>7. ASSUME NEW w \in Workers, RetrieveNothing(w) PROVE BlockOK'
  BY <1>7 DEF RetrieveNothing, Goto, BlockOK, TypeOK, poolVars, cvVars
<1>8. ASSUME NEW w \in Workers, RetrieveJob(w) PROVE BlockOK'
  BY <1>8 DEF RetrieveJob, Goto, BlockOK, TypeOK, cvVars
<1>9. ASSUME NEW w \in Workers, StartJob(w) PROVE BlockOK'
  BY <1>9 DEF StartJob, Goto, BlockOK, TypeOK, poolVars, cvVars
<1>10. ASSUME NEW w \in Workers, SkipJob(w) PROVE BlockOK'
  BY <1>10 DEF SkipJob, Goto, BlockOK, TypeOK, poolVars, cvVars
<1>11. ASSUME NEW w \in Workers, FinishJob(w) PROVE BlockOK'
  BY <1>11 DEF FinishJob, Goto, BlockOK, TypeOK, poolVars, cvVars
<1>12. ASSUME NEW t \in Callers, NotifyOne(t) PROVE BlockOK'
  BY <1>12 DEF NotifyOne, BlockOK, TypeOK, poolVars, workerVars
<1>13. ASSUME NEW t \in Callers, NotifyAll(t) PROVE BlockOK'
  BY <1>13 DEF NotifyAll, BlockOK, TypeOK, poolVars, workerVars
<1>14. ASSUME NEW t \in Callers, WaitRetry(t) PROVE BlockOK'
  BY <1>14 DEF WaitRetry, BlockOK, TypeOK, poolVars, workerVars
<1>15. ASSUME NEW t \in Callers, WaitTimeout(t) PROVE BlockOK'
  BY <1>15 DEF WaitTimeout, BlockOK, TypeOK, poolVars, workerVars
<1>16. ASSUME NEW t \in Callers, EnqueueStash(t) PROVE BlockOK'
  BY WorkersFinite, <1>16
  DEF EnqueueStash, MayCall, LockedEnqueue, MutexOK, BlockOK, workerVars,
      cvVars
<1>17. ASSUME NEW t \in Callers, Clear(t) PROVE BlockOK'
  BY <1>17 DEF Clear, BlockOK, TypeOK, workerVars, cvVars
<1>18. ASSUME NEW t \in Callers, DequeueAll(t) PROVE BlockOK'
  BY <1>18 DEF DequeueAll, BlockOK, TypeOK, workerVars, cvVars
<1>19. ASSUME NEW t \in Callers, NEW job \in Jobs, Enqueue(t, job)
     PROVE BlockOK'
  BY WorkersFinite, <1>19
  DEF Enqueue, MayCall, LockedEnqueue, MutexOK, BlockOK, workerVars, cvVars
<1>20. ASSUME NEW t \in Callers, NEW batch \in Batches, EnqueueMany(t, batch)
     PROVE BlockOK'
  BY WorkersFinite, <1>20
  DEF EnqueueMany, MayCall, LockedEnqueue, MutexOK, BlockOK, workerVars, cvVars
<1>21. ASSUME NEW t \in Callers, NEW op \in {"wait", "wait_for"}, Wait(t, op)
     PROVE BlockOK'
  BY <1>21 DEF Wait, BlockOK, TypeOK, poolVars, workerVars
<1>22. CASE SpuriousWakeup
  BY <1>22 DEF SpuriousWakeup, BlockOK, TypeOK, poolVars, workerVars
<1>23. CASE DestructorSignal
  BY <1>23 DEF DestructorSignal, BlockOK, TypeOK, poolVars, workerVars, cvVars
<1>24. CASE DestructorNotify
  BY <1>24 DEF DestructorNotify, BlockOK, TypeOK, poolVars, workerVars
<1>25. CASE DestructorJoin
  BY <1>25 DEF DestructorJoin, BlockOK, TypeOK, poolVars, workerVars, cvVars
<1>26. CASE UNCHANGED vars
  BY <1>26 DEF vars, BlockOK, TypeOK, cvVars, poolVars, workerVars
<1> QED
  BY <1>1, <1>2, <1>3, <1>4, <1>5, <1>6, <1>7, <1>8, <1>9, <1>10, <1>11, <1>12,
     <1>13, <1>14, <1>15, <1>16, <1>17, <1>18, <1>19, <1>20, <1>21, <1>22,
     <1>23, <1>24, <1>25, <1>26
  DEF Next, WorkerStep, CallStep, Destroyed

\* What a step adds to the queue it also adds to the threads that will look at
\* it or wake one that will.
LEMMA WorkStep ==
  ASSUME TypeOK, BlockOK, WorkConserving, [Next]_vars
  PROVE  WorkConserving'
<1>a. IsFiniteSet(Awake') /\ Cardinality(Awake') \in Nat
  <2>1. IsFiniteSet(Awake')
    BY WorkersFinite, FS_Subset DEF Awake
  <2> QED
    BY <2>1, FS_CardinalityType
<1>b. Cardinality(NotifyingOne') \in Nat
  <2>1. IsFiniteSet(NotifyingOne')
    BY CallersFinite, FS_Subset DEF NotifyingOne
  <2> QED
    BY <2>1, FS_CardinalityType
<1>1. ASSUME NEW w \in Workers, Spawn(w) PROVE WorkConserving'
  <2>1. Awake \subseteq Awake' /\ NotifyingOne' = NotifyingOne
    BY <1>1 DEF Spawn, Awake, NotifyingOne, TypeOK, cvVars
  <2>2. Cardinality(Awake) <= Cardinality(Awake')
    BY <2>1, <1>a, FS_Subset
  <2> QED
    BY <2>1, <2>2, AwakeFinite, <1>a, NotifyingOneFinite, <1>1
    DEF Spawn, WorkConserving, TypeOK, poolVars, cvVars
<1>2. ASSUME NEW w \in Workers, SpinTest(w) PROVE WorkConserving'
  <2>1. CASE running
    <3>1. Awake' = Awake /\ NotifyingOne' = NotifyingOne
      BY <2>1, <1>2 DEF SpinTest, Goto, Awake, NotifyingOne, TypeOK, cvVars
    <3> QED
      BY <3>1, <1>2 DEF SpinTest, WorkConserving, poolVars, cvVars
  <2>2. CASE ~running
    BY <2>2, <1>2 DEF SpinTest, WorkConserving
  <2> QED
    BY <2>1, <2>2
<1>3. ASSUME NEW w \in Workers, LockAndReduce(w) PROVE WorkConserving'
  <2>1. Awake' = Awake /\ NotifyingOne' = NotifyingOne
    BY <1>3 DEF LockAndReduce, Goto, Awake, NotifyingOne, TypeOK, cvVars
  <2> QED
    BY <2>1, <1>3 DEF LockAndReduce, WorkConserving
<1>4. ASSUME NEW w \in Workers, TestFails(w) PROVE WorkConserving'
  <2>1. NotifyingOne' = NotifyingOne /\ Len(<<>>) = 0
    BY <1>4 DEF TestFails, NotifyingOne
  <2> QED
    BY <2>1, <1>a, NotifyingOneFinite, <1>4
    DEF TestFails, WorkConserving, poolVars, cvVars
<1>5. ASSUME NEW w \in Workers, Block(w) PROVE WorkConserving'
  <2>1. jobs = <<>> /\ NotifyingOne' = NotifyingOne /\ Len(<<>>) = 0
    BY <1>5 DEF Block, Goto, BlockOK, NotifyingOne
  <2> QED
    BY <2>1, <1>a, NotifyingOneFinite, <1>5
    DEF Block, WorkConserving, poolVars
<1>6. ASSUME NEW w \in Workers, Relock(w) PROVE WorkConserving'
  <2>1. Awake' = Awake /\ NotifyingOne' = NotifyingOne
    BY <1>6 DEF Relock, Goto, Awake, NotifyingOne, TypeOK, cvVars
  <2> QED
    BY <2>1, <1>6 DEF Relock, WorkConserving, poolVars, cvVars
<1>7. ASSUME NEW w \in Workers, RetrieveNothing(w) PROVE WorkConserving'
  BY <1>7 DEF RetrieveNothing, WorkConserving
<1>8. ASSUME NEW w \in Workers, RetrieveJob(w) PROVE WorkConserving'
  <2>1. Len(Tail(jobs)) = Len(jobs) - 1 /\ Len(jobs) \in Nat
    BY <1>8 DEF RetrieveJob, TypeOK
  <2>2. /\ w \in Awake /\ Awake' = Awake \ {w}
       /\ NotifyingOne' = NotifyingOne
    BY <1>8 DEF RetrieveJob, Goto, Awake, NotifyingOne, BlockOK, TypeOK, cvVars
  <2>3. Cardinality(Awake') = Cardinality(Awake) - 1
    BY <2>2, AwakeFinite, FS_RemoveElement
  <2> QED
    BY <2>1, <2>2, <2>3, AwakeFinite, NotifyingOneFinite, <1>8
    DEF RetrieveJob, QueuePopped, WorkConserving, cvVars
<1>9. ASSUME NEW w \in Workers, StartJob(w) PROVE WorkConserving'
  <2>1. Awake' = Awake /\ NotifyingOne' = NotifyingOne
    BY <1>9 DEF StartJob, Goto, Awake, NotifyingOne, TypeOK, cvVars
  <2> QED
    BY <2>1, <1>9 DEF StartJob, WorkConserving, poolVars, cvVars
<1>10. ASSUME NEW w \in Workers, SkipJob(w) PROVE WorkConserving'
  <2>1. Awake \subseteq Awake' /\ NotifyingOne' = NotifyingOne
    BY <1>10 DEF SkipJob, Goto, Awake, NotifyingOne, TypeOK, cvVars
  <2>2. Cardinality(Awake) <= Cardinality(Awake')
    BY <2>1, <1>a, FS_Subset
  <2> QED
    BY <2>1, <2>2, AwakeFinite, <1>a, NotifyingOneFinite, <1>10
    DEF SkipJob, WorkConserving, TypeOK, poolVars, cvVars
<1>11. ASSUME NEW w \in Workers, FinishJob(w) PROVE WorkConserving'
  <2>1. Awake \subseteq Awake' /\ NotifyingOne' = NotifyingOne
    BY <1>11 DEF FinishJob, Goto, Awake, NotifyingOne, TypeOK, cvVars
  <2>2. Cardinality(Awake) <= Cardinality(Awake')
    BY <2>1, <1>a, FS_Subset
  <2> QED
    BY <2>1, <2>2, AwakeFinite, <1>a, NotifyingOneFinite, <1>11
    DEF FinishJob, WorkConserving, TypeOK, poolVars, cvVars
<1>12. ASSUME NEW t \in Callers, NotifyOne(t) PROVE WorkConserving'
  <2>1. CASE jobsCv = {}
    BY <2>1, <1>12 DEF NotifyOne, WorkConserving
  <2>2. CASE jobsCv # {}
    <3>1. PICK w \in jobsCv : jobsCv' = jobsCv \ {w}
      BY <2>2, <1>12 DEF NotifyOne
    <3>2. w \notin Awake /\ Awake' = Awake \cup {w}
      BY <3>1, <1>12 DEF NotifyOne, Awake, BlockOK, TypeOK, workerVars
    <3>3. t \in NotifyingOne /\ NotifyingOne' = NotifyingOne \ {t}
      BY <1>12 DEF NotifyOne, NotifyingOne, TypeOK
    <3>4. Cardinality(Awake') = Cardinality(Awake) + 1
      BY <3>2, AwakeFinite, FS_AddElement
    <3>5. Cardinality(NotifyingOne') = Cardinality(NotifyingOne) - 1
      BY <3>3, NotifyingOneFinite, FS_RemoveElement
    <3>6. (\E u \in Callers : call[u] = "notify_all")
          => (\E u \in Callers : call'[u] = "notify_all")
      BY <1>12 DEF NotifyOne, TypeOK
    <3> QED
      BY <2>2, <3>1, <3>4, <3>5, <3>6, AwakeFinite, NotifyingOneFinite, <1>12
      DEF NotifyOne, WorkConserving, poolVars
  <2> QED
    BY <2>1, <2>2
<1>13. ASSUME NEW t \in Callers, NotifyAll(t) PROVE WorkConserving'
  BY <1>13 DEF NotifyAll, WorkConserving
<1>14. ASSUME NEW t \in Callers, WaitRetry(t) PROVE WorkConserving'
  <2>1. Awake' = Awake /\ NotifyingOne' = NotifyingOne
    BY <1>14 DEF WaitRetry, Awake, NotifyingOne, TypeOK, workerVars
  <2>2. (\E u \in Callers : call[u] = "notify_all")
        => (\E u \in Callers : call'[u] = "notify_all")
    BY <1>14 DEF WaitRetry, TypeOK
  <2> QED
    BY <2>1, <2>2, <1>14 DEF WaitRetry, WorkConserving, poolVars
<1>15. ASSUME NEW t \in Callers, WaitTimeout(t) PROVE WorkConserving'
  <2>1. Awake' = Awake /\ NotifyingOne' = NotifyingOne
    BY <1>15 DEF WaitTimeout, Awake, NotifyingOne, TypeOK, workerVars
  <2>2. (\E u \in Callers : call[u] = "notify_all")
        => (\E u \in Callers : call'[u] = "notify_all")
    BY <1>15 DEF WaitTimeout, TypeOK
  <2> QED
    BY <2>1, <2>2, <1>15 DEF WaitTimeout, WorkConserving, poolVars
<1>16. ASSUME NEW t \in Callers, EnqueueStash(t) PROVE WorkConserving'
  <2>1. call'[t] = "notify_all"
    BY <1>16 DEF EnqueueStash, LockedEnqueue, TypeOK
  <2> QED
    BY <2>1 DEF WorkConserving
<1>17. ASSUME NEW t \in Callers, Clear(t) PROVE WorkConserving'
  <2>1. Len(<<>>) = 0
    OBVIOUS
  <2> QED
    BY <2>1, <1>a, <1>b, <1>17
    DEF Clear, WorkConserving
<1>18. ASSUME NEW t \in Callers, DequeueAll(t) PROVE WorkConserving'
  <2>1. Len(<<>>) = 0
    OBVIOUS
  <2> QED
    BY <2>1, <1>a, <1>b, <1>18
    DEF DequeueAll, WorkConserving
<1>19. ASSUME NEW t \in Callers, NEW job \in Jobs, Enqueue(t, job)
     PROVE WorkConserving'
  <2>1. Len(jobs \o <<job>>) = Len(jobs) + 1 /\ Len(jobs) \in Nat
    BY ConcatProperties, LenProperties DEF TypeOK
  <2>2. /\ Awake' = Awake
       /\ t \notin NotifyingOne /\ NotifyingOne' = NotifyingOne \cup {t}
    BY <1>19
    DEF Enqueue, MayCall, LockedEnqueue, Awake, NotifyingOne, TypeOK,
        workerVars, cvVars
  <2>3. Cardinality(NotifyingOne') = Cardinality(NotifyingOne) + 1
    BY <2>2, NotifyingOneFinite, FS_AddElement
  <2>4. (\E u \in Callers : call[u] = "notify_all")
        => (\E u \in Callers : call'[u] = "notify_all")
    BY <1>19 DEF Enqueue, MayCall, LockedEnqueue, TypeOK
  <2> QED
    BY <2>1, <2>2, <2>3, <2>4, AwakeFinite, NotifyingOneFinite, <1>19
    DEF Enqueue, LockedEnqueue, WorkConserving, cvVars
<1>20. ASSUME NEW t \in Callers, NEW batch \in Batches, EnqueueMany(t, batch)
     PROVE WorkConserving'
  <2>1. call'[t] = "notify_all"
    BY <1>20 DEF EnqueueMany, LockedEnqueue, TypeOK
  <2> QED
    BY <2>1 DEF WorkConserving
<1>21. ASSUME NEW t \in Callers, NEW op \in {"wait", "wait_for"}, Wait(t, op)
     PROVE WorkConserving'
  <2>1. Awake' = Awake /\ NotifyingOne' = NotifyingOne
    BY <1>21 DEF Wait, MayCall, Awake, NotifyingOne, TypeOK, workerVars
  <2>2. (\E u \in Callers : call[u] = "notify_all")
        => (\E u \in Callers : call'[u] = "notify_all")
    BY <1>21 DEF Wait, MayCall, TypeOK
  <2> QED
    BY <2>1, <2>2, <1>21 DEF Wait, WorkConserving, poolVars
<1>22. CASE SpuriousWakeup
  <2>1. Awake \subseteq Awake' /\ NotifyingOne' = NotifyingOne
    BY <1>22 DEF SpuriousWakeup, Awake, NotifyingOne, workerVars
  <2>2. Cardinality(Awake) <= Cardinality(Awake')
    BY <2>1, <1>a, FS_Subset
  <2>3. jobsCv' \subseteq jobsCv
    BY <1>22 DEF SpuriousWakeup
  <2> QED
    BY <2>1, <2>2, <2>3, AwakeFinite, <1>a, NotifyingOneFinite,
       <1>22
    DEF SpuriousWakeup, WorkConserving, TypeOK, poolVars
<1>23. CASE DestructorSignal
  BY <1>23 DEF DestructorSignal, WorkConserving
<1>24. CASE DestructorNotify
  BY <1>24 DEF DestructorNotify, WorkConserving
<1>25. CASE DestructorJoin
  <2>1. Awake' = Awake /\ NotifyingOne' = NotifyingOne
    BY <1>25 DEF DestructorJoin, Awake, NotifyingOne, workerVars, cvVars
  <2> QED
    BY <2>1, <1>25 DEF DestructorJoin, WorkConserving, poolVars, cvVars
<1>26. CASE UNCHANGED vars
  <2>1. Awake' = Awake /\ NotifyingOne' = NotifyingOne
    BY <1>26 DEF vars, Awake, NotifyingOne, workerVars, cvVars
  <2> QED
    BY <2>1, <1>26 DEF vars, WorkConserving, poolVars, cvVars
<1> QED
  BY <1>1, <1>2, <1>3, <1>4, <1>5, <1>6, <1>7, <1>8, <1>9, <1>10, <1>11, <1>12,
     <1>13, <1>14, <1>15, <1>16, <1>17, <1>18, <1>19, <1>20, <1>21, <1>22,
     <1>23, <1>24, <1>25, <1>26
  DEF Next, WorkerStep, CallStep, Destroyed

-----------------------------------------------------------------------------
(* The theorems.                                                           *)

\* The invariant holds of a pool about to spawn its workers ...
LEMMA InitInvariant == Init => IInv
<1> SUFFICES ASSUME Init PROVE IInv
  OBVIOUS
<1>1. TypeOK
  BY DEF Init, TypeOK
<1>2. LocalsOK
  BY DEF Init, LocalsOK
<1>3. Accounting
  <2>1. Processing = {}
    BY DEF Init, Processing
  <2> QED
    BY <2>1, FS_EmptySet DEF Init, Accounting
<1>4. MutexOK
  BY WorkersFinite DEF Init, MutexOK
<1>5. RunningOK /\ ShutdownWakesAll /\ NoStrandedWaiter
  BY DEF Init, RunningOK, ShutdownWakesAll, NoStrandedWaiter
<1>6. BlockOK /\ WorkConserving
  BY DEF Init, BlockOK, WorkConserving
<1> QED
  BY <1>1, <1>2, <1>3, <1>4, <1>5, <1>6 DEF IInv

\* ... every step keeps it ...
LEMMA StepInvariant == IInv /\ [Next]_vars => IInv'
  BY TypeStep, LocalsStep, AccountingStep, MutexStep, RunningStep,
     ShutdownStep, WaiterStep, BlockStep, WorkStep
  DEF IInv

\* ... and so it always holds.
LEMMA Inductive == Spec => []IInv
  BY InitInvariant, StepInvariant, PTL DEF Spec

(* Every variable keeps its shape; in particular the unsigned              *)
(* _totalJobsCount is never decremented below zero (threadpool.cxx:156).   *)
THEOREM TypeCorrect == Spec => []TypeOK
<1>1. IInv => TypeOK
  BY DEF IInv
<1> QED
  BY <1>1, Inductive, PTL

(* _totalJobsCount counts what is queued, what is in progress and what     *)
(* clear, dequeueAll, null jobs and the destruction left behind.           *)
THEOREM CountIsExact == Spec => []Accounting
<1>1. IInv => Accounting
  BY DEF IInv
<1> QED
  BY <1>1, Inductive, PTL

(* wait() does not return early: while the pool runs, its predicate holds  *)
(* only when nothing is queued and no worker has a job.                    *)
THEOREM WaitNeverEarly == Spec => []WaitIsSound
<1>1. IInv => WaitIsSound
  <2> SUFFICES ASSUME IInv, running, WaitPredicate
               PROVE  jobs = <<>> /\ \A w \in Workers : callback[w] = NoJob
    BY DEF WaitIsSound
  <2>1. totalJobsCount = 0 /\ jobs \in Seq(Jobs) /\ leaked \in Nat
    BY DEF IInv, TypeOK, WaitPredicate
  <2>2. Len(jobs) = 0 /\ Cardinality(Processing) = 0
    BY <2>1, ProcessingFinite, LenProperties DEF IInv, Accounting
  <2>3. jobs = <<>> /\ Processing = {}
    BY <2>1, <2>2, EmptySeq, ProcessingFinite, FS_EmptySet
  <2> QED
    BY <2>3 DEF Processing
<1> QED
  BY <1>1, Inductive, PTL

(* No thread sleeps in wait() once the count is zero.                      *)
THEOREM NoWaiterLeftBehind == Spec => []NoStrandedWaiter
<1>1. IInv => NoStrandedWaiter
  BY DEF IInv
<1> QED
  BY <1>1, Inductive, PTL

(* After the destructor's notification no worker sleeps or is about to:    *)
(* locking the mutex after the unlocked write of _running is enough.       *)
THEOREM ShutdownReachesEveryWorker == Spec => []ShutdownWakesAll
<1>1. IInv => ShutdownWakesAll
  BY DEF IInv
<1> QED
  BY <1>1, Inductive, PTL

(* No job stays queued beside a sleeping worker without an awake worker or *)
(* a notification for it: notify_one for one job is enough (enqueue).      *)
THEOREM NoJobBesideSleepers == Spec => []WorkConserving
<1>1. IInv => WorkConserving
  BY DEF IInv
<1> QED
  BY <1>1, Inductive, PTL

-----------------------------------------------------------------------------
(* When the count is what the documentation says.                          *)

\* Nobody calls clear or dequeueAll, and no job is an empty std::function.
NothingIsRemoved ==
  /\ NullJobs = {}
  /\ (ClientCalls \cup JobCalls) \cap {"clear", "dequeueAll"} = {}

\* Then nothing counted disappears before the destruction drops it.
LEMMA NothingLeaks ==
  ASSUME NothingIsRemoved, running => leaked = 0, [Next]_vars
  PROVE  (running => leaked = 0)'
<1> USE DEF NothingIsRemoved
<1>1. ASSUME NEW w \in Workers, Spawn(w) \/ WorkerStep(w) \/ LockAndReduce(w)
                                \/ Relock(w) \/ FinishJob(w)
      PROVE  (running => leaked = 0)'
  BY <1>1 DEF Spawn, WorkerStep, SpinTest, LockAndReduce, TestFails, Block,
              Relock, RetrieveNothing, RetrieveJob, StartJob, SkipJob,
              FinishJob
<1>2. ASSUME NEW t \in Callers, CallStep(t)
      PROVE  (running => leaked = 0)'
  BY <1>2 DEF CallStep, Enqueue, EnqueueMany, EnqueueStash, LockedEnqueue,
              Clear, DequeueAll, Wait, MayCall
<1>3. ASSUME NEW t \in Callers, NotifyOne(t) \/ NotifyAll(t) \/ WaitRetry(t)
                                \/ WaitTimeout(t)
      PROVE  (running => leaked = 0)'
  BY <1>3 DEF NotifyOne, NotifyAll, WaitRetry, WaitTimeout
<1>4. CASE \/ SpuriousWakeup \/ DestructorSignal \/ DestructorNotify
           \/ DestructorJoin \/ Destroyed \/ UNCHANGED vars
  BY <1>4 DEF SpuriousWakeup, DestructorSignal, DestructorNotify,
              DestructorJoin, Destroyed, vars
<1> QED
  BY <1>1, <1>2, <1>3, <1>4 DEF Next

(* Of a pool nobody clears or pauses and nobody gives an empty function,   *)
(* totalJobCount() is what is queued and in progress, as threadpool.hxx    *)
(* says, until the destruction drops the rest.  Removals and null jobs are *)
(* the only causes of the difference the runs pool_pause_hangs_wait and    *)
(* pool_null_job_hangs_wait end in.                                        *)
THEOREM CountWithoutRemovals ==
  ASSUME NothingIsRemoved
  PROVE  Spec => []CountAsDocumented
<1>1. Init => (running => leaked = 0)
  BY DEF Init
<1>2. (running => leaked = 0) /\ [Next]_vars => (running => leaked = 0)'
  BY NothingLeaks
<1>3. Spec => [](running => leaked = 0)
  BY <1>1, <1>2, PTL DEF Spec
<1>4. IInv /\ (running => leaked = 0) => CountAsDocumented
  <2> SUFFICES ASSUME IInv, running, leaked = 0
               PROVE  totalJobsCount = Len(jobs) + Cardinality(Processing)
    BY DEF CountAsDocumented, TotalJobCount, QueueCount
  <2>1. Len(jobs) \in Nat /\ Cardinality(Processing) \in Nat
    BY ProcessingFinite, FS_CardinalityType, LenProperties DEF IInv, TypeOK
  <2> QED
    BY <2>1 DEF IInv, Accounting
<1> QED
  BY <1>3, <1>4, Inductive, PTL
==============================================================================
