-------------------------- MODULE WrappedTimerProofs --------------------------
(***************************************************************************)
(* Theorems about a Timer whose callback submits jobs to a ThreadPool, for *)
(* every number of workers, every set of jobs, delays and intervals.       *)
(*                                                                         *)
(* The composed system behaves, as far as each component can see, as the   *)
(* component alone does: every step of it is a step of the pool or does    *)
(* not show to it, and the same for the timer.  So what is proved of       *)
(* either holds of it inside the composition.  The two properties of the   *)
(* composition itself need the order of the destructions and the history   *)
(* of the callback in progress (DestructionOrder, LateOK).                 *)
(***************************************************************************)
EXTENDS WrappedTimer, JobPoolProofs

-----------------------------------------------------------------------------
(* The components.                                                         *)

\* The timer's thread is one of the pool's callers.
LEMMA TimerThreadCalls == TimerThread \in Clients /\ TimerThread \in Callers
  BY WrapAssumption DEF Callers

\* Every step of the composition is a step of the pool or does not show to it.
LEMMA StepIsPoolStep == ASSUME [NextAll]_allVars PROVE [Next]_vars
<1>1. CASE ConstructTimer
  BY <1>1 DEF ConstructTimer
<1>2. CASE TimerStep
  BY <1>2 DEF TimerStep
<1>3. CASE CallPool
  <2>1. PICK job \in Jobs : Enqueue(TimerThread, job)
    BY <1>3 DEF CallPool
  <2> QED
    BY <2>1, TimerThreadCalls DEF Next, CallStep
<1>4. CASE CallThread \/ DetachedEnds \/ Return
  BY <1>4 DEF CallThread, DetachedEnds, Return
<1>5. CASE PoolStep
  BY <1>5, TimerThreadCalls DEF PoolStep, Next
<1>6. CASE UNCHANGED allVars
  BY <1>6 DEF allVars
<1> QED
  BY <1>1, <1>2, <1>3, <1>4, <1>5, <1>6 DEF NextAll

\* Every step of the composition is a step of the timer or does not show to it.
LEMMA StepIsTimerStep ==
  ASSUME [NextAll]_allVars PROVE [Wrapped!Next]_Wrapped!vars
<1> USE DEF Wrapped!vars, Wrapped!timerVars, Wrapped!threadVars,
            Wrapped!historyVars
<1>1. CASE ConstructTimer
  <2>1. PICK wrapper \in {PoolWrap, ThreadWrap} :
          Wrapped!SetCallback(User, wrapper)
    BY <1>1 DEF ConstructTimer
  <2> QED
    BY <2>1 DEF Wrapped!Next, Wrapped!CallStep, Wrapped!Callers
<1>2. CASE TimerStep
  BY <1>2 DEF TimerStep, Wrapped!Next, Wrapped!CallStep, Wrapped!Callers
<1>3. CASE Return
  BY <1>3 DEF Return, Wrapped!Next
<1>4. CASE CallPool \/ CallThread \/ DetachedEnds \/ PoolStep
  BY <1>4 DEF CallPool, CallThread, DetachedEnds, PoolStep, timerVars
<1>5. CASE UNCHANGED allVars
  BY <1>5 DEF allVars, timerVars
<1> QED
  BY <1>1, <1>2, <1>3, <1>4, <1>5 DEF NextAll

(* The pool a wrapped timer submits to is a ThreadPool: what is proved of  *)
(* ThreadPool holds of it, whatever the timer does.                        *)
THEOREM PoolInside == SpecAll => Spec
<1>1. InitAll => Init
  BY DEF InitAll
<1> QED
  BY <1>1, StepIsPoolStep, PTL DEF SpecAll, Spec

(* The timer with a wrapper for a callback is a Timer: what is proved of   *)
(* Timer holds of it, whatever the pool does.                              *)
THEOREM TimerInside == SpecAll => Wrapped!Spec
<1>1. InitAll => Wrapped!Init
  BY DEF InitAll
<1> QED
  BY <1>1, StepIsTimerStep, PTL DEF SpecAll, Wrapped!Spec

(* In particular no job submitted by the timer's thread is lost or run     *)
(* twice, and the pool does for it what JobPool says.                      *)
THEOREM SubmittedJobsKept == SpecAll => []Conservation /\ ImplementsJobPool
  BY PoolInside, NoJobLostOrDuplicated, PoolImplementsJobPool

-----------------------------------------------------------------------------
(* The steps of the timer's thread, as the wrapper sees them.              *)

\* The timer on its own never returns from a callback, chooses one only while
\* it runs, runs only when armed, and once destroyed does not move.
LEMMA TimerMoves ==
  ASSUME TimerStep, LateOK, DestructionOrder
  PROVE  /\ timerRunning' => armed'
         /\ timerPc = "callback" => timerPc' = "callback"
         /\ CallAhead' /\ ~CallAhead => armed
         /\ late' = IF armed' THEN 0 ELSE late
         /\ timerDestructor' = "done" => timerPc' = "exit"
         /\ timerDestructor = "done" => timerDestructor' = "done"
         /\ UNCHANGED <<vars, called>>
<1> USE DEF TimerStep, LateOK, DestructionOrder, CallAhead,
            Wrapped!timerVars, Wrapped!threadVars, Wrapped!historyVars
<1>1. CASE Wrapped!Tick
  BY <1>1 DEF Wrapped!Tick
<1>2. CASE Wrapped!SpinTest
  BY <1>2 DEF Wrapped!SpinTest
<1>3. CASE Wrapped!Sleep
  BY <1>3 DEF Wrapped!Sleep
<1>4. CASE Wrapped!SleepOn
  BY <1>4 DEF Wrapped!SleepOn
<1>5. CASE Wrapped!NotYet
  BY <1>5 DEF Wrapped!NotYet, Wrapped!WaitForReturns
<1>6. CASE Wrapped!Idle
  BY <1>6 DEF Wrapped!Idle, Wrapped!WaitForReturns
<1>7. CASE Wrapped!Expire
  BY <1>7 DEF Wrapped!Expire, Wrapped!WaitForReturns
<1>8. CASE Wrapped!CallOrSkip
  BY <1>8 DEF Wrapped!CallOrSkip
<1>9. CASE Wrapped!StartCall(User)
  BY <1>9 DEF Wrapped!StartCall, Wrapped!Start, Wrapped!MayCall,
              Wrapped!Changed
<1>10. CASE Wrapped!Stop(User)
  BY <1>10 DEF Wrapped!Stop, Wrapped!MayCall
<1>11. CASE Wrapped!Notify(User)
  BY <1>11 DEF Wrapped!Notify
<1>12. CASE Wrapped!ThreadStop
  BY <1>12 DEF Wrapped!ThreadStop
<1>13. CASE Wrapped!Join
  BY <1>13 DEF Wrapped!Join
<1> QED
  BY <1>1, <1>2, <1>3, <1>4, <1>5, <1>6, <1>7, <1>8, <1>9, <1>10, <1>11,
     <1>12, <1>13
  DEF Wrapped!ThreadStep

-----------------------------------------------------------------------------
(* The invariant of the composition.                                       *)

CompositionInv == DestructionOrder /\ LateOK /\ WrappedCallFindsPool

\* At first nothing is destroyed and no call is ahead.
LEMMA InitComposition == InitAll => CompositionInv
  BY DEF InitAll, Init, Wrapped!Init, CompositionInv, DestructionOrder, LateOK,
         CallAhead, WrappedCallFindsPool

\* A call, of the pool or of a thread, is the one call of its callback.
LEMMA CallKeepsLate ==
  ASSUME LateOK, NEW wrapper, Calling(wrapper), called' = TRUE,
         late' = (IF armed THEN 0 ELSE late + 1),
         UNCHANGED <<armed, timerRunning, timerPc>>
  PROVE  LateOK'
  BY DEF LateOK, Calling, CallAhead

\* The pool does not move the destruction back, and touches the call of the
\* timer's thread only to end it.
LEMMA PoolMoves ==
  ASSUME PoolStep, DestructionOrder, WrappedCallFindsPool
  PROVE  DestructionOrder' /\ WrappedCallFindsPool'
<1> USE TimerThreadCalls
    DEF DestructionOrder, WrappedCallFindsPool, timerVars, wrapVars
<1>0. UNCHANGED <<timerVars, wrapVars>>
  BY DEF PoolStep
<1>1. ASSUME NEW w \in Workers,
             \/ Spawn(w) \/ WorkerStep(w)
             \/ LockAndReduce(w) \/ Relock(w) \/ FinishJob(w)
      PROVE  UNCHANGED <<destructor, call>>
  BY <1>1 DEF Spawn, WorkerStep, SpinTest, TestFails, Block, RetrieveNothing,
              RetrieveJob, StartJob, SkipJob, LockAndReduce, Relock, FinishJob
<1>2. CASE \E w \in Workers : \/ Spawn(w) \/ WorkerStep(w)
                              \/ LockAndReduce(w) \/ Relock(w) \/ FinishJob(w)
  BY <1>0, <1>1, <1>2
<1>3. CASE NotifyOne(TimerThread)
  BY <1>0, <1>3 DEF NotifyOne
<1>4. CASE DestructorSignal /\ timerDestructor = "done"
  BY <1>0, <1>4 DEF DestructorSignal
<1>5. CASE DestructorNotify \/ DestructorJoin
  BY <1>0, <1>5 DEF DestructorNotify, DestructorJoin
<1> QED
  BY <1>2, <1>3, <1>4, <1>5 DEF PoolStep

\* No step of timer, pool or wrapper breaks the invariant.
LEMMA StepComposition ==
  ASSUME CompositionInv, [NextAll]_allVars
  PROVE  CompositionInv'
<1>0. DestructionOrder /\ LateOK /\ WrappedCallFindsPool
  BY DEF CompositionInv
<1>1. CASE ConstructTimer
  <2>1. /\ UNCHANGED <<vars, wrapVars>>
        /\ UNCHANGED <<timerPc, timerDestructor, timerRunning, armed>>
    BY <1>1 DEF ConstructTimer, Wrapped!SetCallback, Wrapped!Changed,
                Wrapped!historyVars
  <2> QED
    BY <1>0, <2>1 DEF CompositionInv, DestructionOrder, LateOK, CallAhead,
                      WrappedCallFindsPool, vars, wrapVars
<1>2. CASE TimerStep
  <2>1. DestructionOrder'
    BY <1>0, <1>2, TimerMoves DEF DestructionOrder, vars
  <2>2. LateOK'
    BY <1>0, <1>2, TimerMoves DEF LateOK, CallAhead
  <2>3. WrappedCallFindsPool'
    BY <1>0, <1>2, <2>1, TimerMoves
    DEF DestructionOrder, WrappedCallFindsPool, vars
  <2> QED
    BY <2>1, <2>2, <2>3 DEF CompositionInv
<1>3. CASE CallPool
  <2>1. LateOK'
    BY <1>0, <1>3, CallKeepsLate DEF CallPool, timerVars
  <2>2. DestructionOrder' /\ WrappedCallFindsPool'
    <3>1. destructor = "none" /\ destructor' = destructor
      BY <1>0, <1>3 DEF CallPool, Calling, WrappedCallFindsPool, Enqueue,
                        LockedEnqueue
    <3> QED
      BY <1>0, <1>3, <3>1
      DEF CallPool, timerVars, DestructionOrder, WrappedCallFindsPool
  <2> QED
    BY <2>1, <2>2 DEF CompositionInv
<1>4. CASE CallThread
  <2>1. LateOK'
    BY <1>0, <1>4, CallKeepsLate DEF CallThread, timerVars
  <2> QED
    BY <1>0, <1>4, <2>1
    DEF CallThread, timerVars, vars, CompositionInv, DestructionOrder,
        WrappedCallFindsPool
<1>5. CASE DetachedEnds
  BY <1>0, <1>5
  DEF DetachedEnds, vars, timerVars, CompositionInv, DestructionOrder, LateOK,
      CallAhead, WrappedCallFindsPool
<1>6. CASE Return
  BY <1>0, <1>6
  DEF Return, Wrapped!CallbackReturns, Wrapped!timerVars, Wrapped!historyVars,
      vars, CompositionInv, DestructionOrder, LateOK, CallAhead,
      WrappedCallFindsPool
<1>7. CASE PoolStep
  <2>1. LateOK'
    BY <1>0, <1>7 DEF PoolStep, LateOK, CallAhead, timerVars, wrapVars
  <2> QED
    BY <1>0, <1>7, <2>1, PoolMoves DEF CompositionInv
<1>8. CASE UNCHANGED allVars
  BY <1>0, <1>8
  DEF allVars, vars, timerVars, wrapVars, CompositionInv, DestructionOrder,
      LateOK, CallAhead, WrappedCallFindsPool
<1> QED
  BY <1>1, <1>2, <1>3, <1>4, <1>5, <1>6, <1>7, <1>8 DEF NextAll

\* So it always holds.
LEMMA CompositionInductive == SpecAll => []CompositionInv
  BY InitComposition, StepComposition, PTL DEF SpecAll

(* No wrapped call is made, or about to be made, once the destruction of   *)
(* the pool has begun: declaring the pool before the timer is enough.      *)
THEOREM WrappedCallInTime == SpecAll => []WrappedCallFindsPool
<1>1. CompositionInv => WrappedCallFindsPool
  BY DEF CompositionInv
<1> QED
  BY <1>1, CompositionInductive, PTL

(* After stop() or the destructor has taken effect at most one more job is *)
(* submitted, that of the callback the thread had chosen before.           *)
THEOREM AtMostOneLateJob == SpecAll => []OneJobAfterStop
<1>1. CompositionInv => OneJobAfterStop
  BY DEF CompositionInv, LateOK, OneJobAfterStop
<1> QED
  BY <1>1, CompositionInductive, PTL
=============================================================================
