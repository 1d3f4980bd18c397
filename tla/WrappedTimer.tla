----------------------------- MODULE WrappedTimer -----------------------------
(***************************************************************************)
(* A Timer whose callback is what ThreadPool::wrap or thread_wrap returned *)
(* (timer.hxx: "If you need to have the next callback called when the      *)
(* previous is not finished you should create a wrapper callback that      *)
(* places the job on a thread pool or starts the work in (detached)        *)
(* std::thread").                                                          *)
(*                                                                         *)
(* The pool is the one of the extended module, whose only client is the    *)
(* timer's thread.  The program declares the pool before the timer, so     *)
(* that the timer is destroyed first.  No job is obliged to return, on the *)
(* pool or on a thread of its own.                                         *)
(***************************************************************************)
EXTENDS ThreadPool

CONSTANTS
  User,         \* the thread that uses and destroys the timer
  TimerThread,  \* the timer's thread, a client of the pool
  PoolWrap,     \* what pool.wrap(job) returned
  ThreadWrap,   \* what thread_wrap(job) returned
  NoCallback, Delays, Intervals, Day,
  MaxDetached   \* bound on the threads detached at a time

ASSUME WrapAssumption ==
  /\ Clients = {TimerThread}
  /\ MaxDetached \in Nat

VARIABLES
  \* The timer:
  untilNext, interval, timerCallback, reliability, timerRunning, threadRunning,
  changedState, timerPc, callBack, sleep, blocked, notifying, timerDestructor,
  armed, shots, due,
  \* The wrapped calls:
  called,     \* whether the callback in progress has made its call
  detached,   \* threads started by thread_wrap that have not ended
  late        \* jobs submitted since the timer was last stopped or destroyed

timerVars == <<untilNext, interval, timerCallback, reliability, timerRunning,
               threadRunning, changedState, timerPc, callBack, sleep, blocked,
               notifying, timerDestructor, armed, shots, due>>
wrapVars == <<called, detached, late>>
allVars == <<vars, timerVars, wrapVars>>

Wrapped == INSTANCE Timer WITH
  Clients         <- {User},
  Callbacks       <- {PoolWrap, ThreadWrap},
  Reliabilities   <- {},
  MaxReliability  <- 1,
  ClientCalls     <- {"start", "setCallback", "stop"},
  CallbackCalls   <- {},
  SpuriousWakeups <- FALSE,
  callback        <- timerCallback,
  running         <- timerRunning,
  pc              <- timerPc,
  destructor      <- timerDestructor

ASSUME WrappedTimerAssumption == Wrapped!TimerAssumption

InitAll ==
  /\ Init
  /\ Wrapped!Init
  /\ called = FALSE
  /\ detached = 0
  /\ late = 0

-----------------------------------------------------------------------------
\* Timer(wrapper), once the pool is there: the constructor sets the callback.
ConstructTimer ==
  /\ Constructed
  /\ timerCallback = NoCallback
  /\ \E wrapper \in {PoolWrap, ThreadWrap} : Wrapped!SetCallback(User, wrapper)
  /\ UNCHANGED <<vars, wrapVars>>

\* The timer on its own; a callback is left to the actions below.
TimerStep ==
  /\ timerCallback # NoCallback
  /\ \/ Wrapped!Tick
     \/ Wrapped!ThreadStep
     \/ Wrapped!StartCall(User)
     \/ Wrapped!Stop(User)
     \/ Wrapped!Notify(User)
     \/ Wrapped!ThreadStop
     \/ Wrapped!Join
  /\ late' = IF armed' THEN 0 ELSE late
  /\ UNCHANGED <<vars, called, detached>>

\* The callback that is about to make its call.
Calling(wrapper) == timerPc = "callback" /\ callBack = wrapper /\ ~called

\* The lambda of ThreadPool::wrap: enqueue(job), on the timer's thread.
CallPool ==
  /\ Calling(PoolWrap)
  /\ \E job \in Jobs : Enqueue(TimerThread, job)
  /\ called' = TRUE
  /\ late' = IF armed THEN 0 ELSE late + 1
  /\ UNCHANGED <<timerVars, detached>>

\* The lambda of thread_wrap: start a thread and detach it.
CallThread ==
  /\ Calling(ThreadWrap)
  /\ detached < MaxDetached
  /\ detached' = detached + 1
  /\ called' = TRUE
  /\ late' = IF armed THEN 0 ELSE late + 1
  /\ UNCHANGED <<vars, timerVars>>

DetachedEnds ==
  /\ detached > 0
  /\ detached' = detached - 1
  /\ UNCHANGED <<vars, timerVars, called, late>>

\* Beyond the bounds on jobs and on detached threads a call does nothing.
BeyondBounds == \/ callBack = PoolWrap /\ FreshJobs = {}
                \/ callBack = ThreadWrap /\ detached = MaxDetached

\* Fault: the wrapper waits until no job is left in progress.
ReturnWhenIdle ==
  /\ called \/ BeyondBounds
  /\ call[TimerThread] = "none"
  /\ totalJobsCount = 0 /\ detached = 0
  /\ Wrapped!CallbackReturns
  /\ called' = FALSE
  /\ UNCHANGED <<vars, detached, late>>

\* The call has returned, and with it the callback.
Return ==
  /\ called \/ BeyondBounds
  /\ call[TimerThread] = "none"
  /\ Wrapped!CallbackReturns
  /\ called' = FALSE
  /\ UNCHANGED <<vars, detached, late>>

\* The pool on its own; it is destroyed after the timer.
PoolStep ==
  /\ \/ \E w \in Workers : \/ Spawn(w) \/ WorkerStep(w)
                           \/ LockAndReduce(w) \/ Relock(w) \/ FinishJob(w)
     \/ NotifyOne(TimerThread)
     \/ DestructorSignal /\ timerDestructor = "done"
     \/ DestructorNotify
     \/ DestructorJoin
  /\ UNCHANGED <<timerVars, wrapVars>>

NextAll ==
  \/ ConstructTimer
  \/ TimerStep \/ CallPool \/ CallThread \/ DetachedEnds \/ Return \/ PoolStep

SpecAll == InitAll /\ [][NextAll]_allVars

(* The threads of both are scheduled and time passes; the enqueue of a     *)
(* callback gets the mutex in the end, which the pool's workers hold for   *)
(* moments only (SF).  Jobs and detached threads may run for ever.         *)
FairSpecAll ==
  /\ SpecAll
  /\ ThreadsAreScheduled
  /\ WF_allVars(TimerStep /\ Wrapped!Tick)
  /\ WF_allVars(TimerStep /\ Wrapped!ThreadStep)
  /\ WF_allVars(TimerStep /\ Wrapped!Notify(User))
  /\ WF_allVars(TimerStep /\ Wrapped!Join)
  /\ SF_allVars(CallPool) /\ WF_allVars(CallThread) /\ WF_allVars(Return)

-----------------------------------------------------------------------------
(* Properties.                                                             *)

(* threadpool.hxx on wrap: "The threadpool must exist when the returned    *)
(* lambda function is invoked".  Destroying the timer first is enough,     *)
(* although the timer's thread calls outside the mutex a callback it may   *)
(* have chosen before stop() or the destructor: ~Timer joins the thread.   *)
WrappedCallFindsPool ==
  destructor # "none" =>
    timerPc \notin {"chosen", "callback"} /\ call[TimerThread] = "none"

(* stop() does not wait for a callback that was chosen before it, and the  *)
(* destructor does not cancel it: one job may still be submitted after     *)
(* either has taken effect, and never two (threadSpinner copies the        *)
(* callback and calls it outside the mutex).                               *)
OneJobAfterStop == late <= 1

(* What the two rest on (see WrappedTimerProofs): the timer is destroyed    *)
(* first and its thread has left its loop when it is; a timer that runs is *)
(* armed; a wrapper calls once in a callback, which was chosen before the  *)
(* timer was stopped.                                                      *)
DestructionOrder ==
  /\ destructor # "none" => timerDestructor = "done"
  /\ timerDestructor = "done" => timerPc = "exit"

\* The thread has chosen a callback and not yet made its call.
CallAhead == timerPc = "chosen" \/ (timerPc = "callback" /\ ~called)

LateOK ==
  /\ timerRunning => armed
  /\ called => timerPc = "callback"
  /\ late \in {0, 1}
  /\ armed \/ CallAhead => late = 0

(* A job that takes long, or for ever, neither delays the timer: while it  *)
(* is armed it goes on expiring (timer.hxx, on wrapper callbacks) ...      *)
ExpiresBesideLongJobs == Wrapped!StartedTimerExpires

(* ... nor keeps its destructor waiting, as a plain callback would.        *)
TimerDestructorReturns == Wrapped!DestructorReturns
=============================================================================
