-------------------------------- MODULE Timer --------------------------------
(***************************************************************************)
(* ccol::thread::Timer: one thread that sleeps on a condition variable     *)
(* until the next deadline and calls a callback.                           *)
(*                                                                         *)
(* Every critical section is one action: the only access to the state      *)
(* outside the mutex is the head of the thread's loop, an action of its    *)
(* own.  start, setReliability and setCallback notify after they have      *)
(* released the mutex; stop does not notify.                               *)
(*                                                                         *)
(* The code compares time points with the clock and never stores a         *)
(* duration, so the model keeps the time left: untilNext is _nextInterval  *)
(* minus now (0 once it is reached), sleep the time left of the timed      *)
(* wait.  Tick lets one unit pass, at any moment: a thread may be late.    *)
(***************************************************************************)
EXTENDS Naturals

CONSTANTS
  Clients,          \* threads of the program that call the timer
  TimerThread,      \* the timer's thread, as the caller of what callbacks call
  Callbacks,        \* the callables set as callback
  NoCallback,       \* an empty std::function
  Delays,           \* first arguments of start
  Intervals,        \* second arguments of start, 0 for a single shot
  Reliabilities,    \* arguments of setReliability
  MaxReliability,   \* the most setReliability accepts (1000 ms)
  Day,              \* the 24 hours of an idle timer
  ClientCalls,      \* operations the clients use
  CallbackCalls,    \* operations callbacks call on their own timer
  SpuriousWakeups   \* whether a wait may wake without a notification

Operations == {"start", "setReliability", "setCallback", "stop"}
Callers == Clients \cup {TimerThread}

ASSUME TimerAssumption ==
  /\ TimerThread \notin Clients
  /\ NoCallback \notin Callbacks
  /\ Delays \subseteq Nat
  /\ Intervals \subseteq Nat
  /\ Reliabilities \subseteq Nat
  /\ MaxReliability \in Nat \ {0}
  /\ Day \in Nat
  /\ ClientCalls \subseteq Operations
  /\ CallbackCalls \subseteq Operations
  /\ SpuriousWakeups \in BOOLEAN

VARIABLES
  untilNext,      \* time left until _nextInterval
  interval,       \* _interval
  callback,       \* _callBack
  reliability,    \* _reliablity
  running,        \* _running
  threadRunning,  \* _threadRunning
  changedState,   \* _changedState
  pc,             \* where the thread is in threadSpinner
  callBack,       \* the thread's local callBack
  sleep,          \* time left of its wait_for
  blocked,        \* whether it is blocked on _stateChanged
  notifying,      \* callers between a critical section and its notify_all
  destructor,     \* progress of ~Impl
  \* History:
  armed,          \* start was called, and no stop or destructor since
  shots,          \* expirations since the last start, 2 for more than one
  due             \* time left of the delay or interval the program asked for

timerVars   == <<untilNext, interval, callback, reliability, running>>
threadVars  == <<callBack, sleep, blocked>>
historyVars == <<armed, shots, due>>
vars == <<timerVars, threadRunning, changedState, pc, threadVars, notifying,
          destructor, historyVars>>

\* _interval is not initialised; nothing reads it before start.
Init ==
  /\ untilNext = Day
  /\ interval \in Intervals
  /\ callback = NoCallback
  /\ reliability = 1
  /\ running = FALSE
  /\ threadRunning = TRUE
  /\ changedState = FALSE
  /\ pc = "loop"
  /\ callBack = NoCallback
  /\ sleep = 0
  /\ blocked = FALSE
  /\ notifying = {}
  /\ destructor = "none"
  /\ armed = FALSE
  /\ shots = 0
  /\ due = 0

-----------------------------------------------------------------------------
(* The clock.                                                              *)

Minus(time, less) == IF time > less THEN time - less ELSE 0

Tick ==
  /\ untilNext' = Minus(untilNext, 1)
  /\ sleep' = Minus(sleep, 1)
  /\ due' = Minus(due, 1)
  /\ UNCHANGED <<interval, callback, reliability, running, threadRunning,
                 changedState, pc, callBack, blocked, notifying, destructor,
                 armed, shots>>

-----------------------------------------------------------------------------
(* threadSpinner.                                                          *)

\* Fault: while (true)
SpinForever ==
  /\ pc = "loop"
  /\ pc' = "lock"
  /\ UNCHANGED <<timerVars, threadRunning, changedState, threadVars, notifying,
                 destructor, historyVars>>

\* while (_threadRunning), read without the mutex
SpinTest ==
  /\ pc = "loop"
  /\ pc' = IF threadRunning THEN "lock" ELSE "exit"
  /\ UNCHANGED <<timerVars, threadRunning, changedState, threadVars, notifying,
                 destructor, historyVars>>

\* The wait's predicate is ShuttingDown \/ changedState; the fault is a
\* predicate that only asks for a changed state.
ShutdownUnseen == FALSE
ShuttingDown == ~threadRunning

\* Lock, _changedState = false, and block until shortly before the deadline.
Sleep ==
  /\ pc = "lock"
  /\ ~ShuttingDown
  /\ pc' = "wait"
  /\ changedState' = FALSE
  /\ sleep' = Minus(untilNext, reliability)
  /\ blocked' = TRUE
  /\ UNCHANGED <<timerVars, threadRunning, callBack, notifying, destructor,
                 historyVars>>

\* Woken, but neither is the predicate true nor the time over.
SleepOn ==
  /\ pc = "wait"
  /\ ~blocked
  /\ ~changedState /\ ~ShuttingDown
  /\ sleep > 0
  /\ blocked' = TRUE
  /\ UNCHANGED <<timerVars, threadRunning, changedState, pc, callBack, sleep,
                 notifying, destructor, historyVars>>

\* wait_for returns: at once when the predicate is true, else on a wakeup
\* that finds it true or on its timeout.
WaitForReturns(next) ==
  /\ \/ pc = "lock" /\ ShuttingDown /\ changedState' = FALSE
     \/ /\ pc = "wait"
        /\ sleep = 0 \/ (~blocked /\ (changedState \/ ShuttingDown))
        /\ UNCHANGED changedState
  /\ pc' = next
  /\ sleep' = 0
  /\ blocked' = FALSE

\* "extra check to improve accuracy"; the fault is to do without it.
DeadlineAssumed == TRUE
DeadlineReached == untilNext = 0

\* if (_nextInterval > now) continue
NotYet ==
  /\ WaitForReturns("loop")
  /\ ~DeadlineReached
  /\ UNCHANGED <<timerVars, threadRunning, callBack, notifying, destructor,
                 historyVars>>

\* if (!_running): look again in 24 hours.
Idle ==
  /\ WaitForReturns("loop")
  /\ DeadlineReached
  /\ ~running
  /\ untilNext' = Day
  /\ UNCHANGED <<interval, callback, reliability, running, threadRunning,
                 callBack, notifying, destructor, historyVars>>

\* What becomes of _running when an expiration is chosen; the fault leaves a
\* single shot running.
StayRunning == running
RunningAfterExpiry == interval > 0

\* The deadline is reached: copy the callback and set the next deadline, or
\* stop after a single shot.
Expire ==
  /\ WaitForReturns("chosen")
  /\ DeadlineReached
  /\ running
  /\ callBack' = callback
  /\ untilNext' = IF interval > 0 THEN interval ELSE untilNext
  /\ running' = RunningAfterExpiry
  /\ shots' = IF shots = 0 THEN 1 ELSE 2
  /\ due' = interval
  /\ UNCHANGED <<interval, callback, reliability, threadRunning, notifying,
                 destructor, armed>>

\* if (callBack != nullptr) callBack(), outside the mutex
CallOrSkip ==
  /\ pc = "chosen"
  /\ pc' = IF callBack # NoCallback THEN "callback" ELSE "loop"
  /\ UNCHANGED <<timerVars, threadRunning, changedState, threadVars, notifying,
                 destructor, historyVars>>

\* Fault: a single shot is stopped after its callback, not before.
CallbackReturnsThenStops ==
  /\ pc = "callback"
  /\ TimerThread \notin notifying
  /\ pc' = "loop"
  /\ running' = (running /\ interval > 0)
  /\ UNCHANGED <<untilNext, interval, callback, reliability, threadRunning,
                 changedState, threadVars, notifying, destructor, historyVars>>

CallbackReturns ==
  /\ pc = "callback"
  /\ TimerThread \notin notifying
  /\ pc' = "loop"
  /\ UNCHANGED <<timerVars, threadRunning, changedState, threadVars, notifying,
                 destructor, historyVars>>

SpuriousWakeup ==
  /\ SpuriousWakeups
  /\ blocked
  /\ blocked' = FALSE
  /\ UNCHANGED <<timerVars, threadRunning, changedState, pc, callBack, sleep,
                 notifying, destructor, historyVars>>

-----------------------------------------------------------------------------
(* Calls, from clients and from the callback.                              *)

MayCall(t, op) ==
  /\ \/ t \in Clients /\ op \in ClientCalls /\ destructor = "none"
     \/ t = TimerThread /\ op \in CallbackCalls /\ pc = "callback"
  /\ t \notin notifying

\* What every setter does last; the notification follows the unlock.
Changed(t) ==
  /\ changedState' = TRUE
  /\ notifying' = notifying \cup {t}
  /\ UNCHANGED <<threadRunning, pc, threadVars, destructor>>

\* Fault: the notification of start is left out, as it is in stop.
StartSilently(t, delay, every) ==
  /\ MayCall(t, "start")
  /\ interval' = every
  /\ untilNext' = delay
  /\ running' = TRUE
  /\ armed' = TRUE
  /\ shots' = 0
  /\ due' = delay
  /\ changedState' = TRUE
  /\ UNCHANGED <<callback, reliability, threadRunning, pc, threadVars,
                 notifying, destructor>>

\* start(delay, interval); start(interval) and startSingleshot(delay) are
\* start(interval, interval) and start(delay, 0).
Start(t, delay, every) ==
  /\ MayCall(t, "start")
  /\ interval' = every
  /\ untilNext' = delay
  /\ running' = TRUE
  /\ armed' = TRUE
  /\ shots' = 0
  /\ due' = delay
  /\ Changed(t)
  /\ UNCHANGED <<callback, reliability>>

\* std::min(reliability, 1000u); the fault takes what it is given.
Unlimited(value) == value
Limited(value) == IF value < MaxReliability THEN value ELSE MaxReliability

SetReliability(t, value) ==
  /\ MayCall(t, "setReliability")
  /\ reliability' = Limited(value)
  /\ Changed(t)
  /\ UNCHANGED <<untilNext, interval, callback, running, historyVars>>

SetCallback(t, function) ==
  /\ MayCall(t, "setCallback")
  /\ callback' = function
  /\ Changed(t)
  /\ UNCHANGED <<untilNext, interval, reliability, running, historyVars>>

\* Fault: stop only marks a changed state.
StopStillRunning(t) ==
  /\ MayCall(t, "stop")
  /\ changedState' = TRUE
  /\ armed' = FALSE
  /\ UNCHANGED <<untilNext, interval, callback, reliability, running,
                 threadRunning, pc, threadVars, notifying, destructor, shots,
                 due>>

\* stop: no notification, the thread sleeps on.
Stop(t) ==
  /\ MayCall(t, "stop")
  /\ running' = FALSE
  /\ changedState' = TRUE
  /\ armed' = FALSE
  /\ UNCHANGED <<untilNext, interval, callback, reliability, threadRunning, pc,
                 threadVars, notifying, destructor, shots, due>>

\* _stateChanged.notify_all(), after the mutex is released
Notify(t) ==
  /\ t \in notifying
  /\ notifying' = notifying \ {t}
  /\ blocked' = FALSE
  /\ UNCHANGED <<timerVars, threadRunning, changedState, pc, callBack, sleep,
                 destructor, historyVars>>

\* Fault: threadStop leaves _running as it is.
ThreadStopStillRunning ==
  /\ destructor = "none"
  /\ notifying \cap Clients = {}
  /\ threadRunning' = FALSE
  /\ changedState' = TRUE
  /\ blocked' = FALSE
  /\ destructor' = "join"
  /\ armed' = FALSE
  /\ UNCHANGED <<timerVars, pc, callBack, sleep, notifying, shots, due>>

\* ~Impl, threadStop: state and notification in one critical section.
ThreadStop ==
  /\ destructor = "none"
  /\ notifying \cap Clients = {}
  /\ running' = FALSE
  /\ threadRunning' = FALSE
  /\ changedState' = TRUE
  /\ blocked' = FALSE
  /\ destructor' = "join"
  /\ armed' = FALSE
  /\ UNCHANGED <<untilNext, interval, callback, reliability, pc, callBack,
                 sleep, notifying, shots, due>>

\* Fault: the thread is detached instead of joined.
DetachThread ==
  /\ destructor = "join"
  /\ destructor' = "done"
  /\ UNCHANGED <<timerVars, threadRunning, changedState, pc, threadVars,
                 notifying, historyVars>>

\* _thread.join() returns.
Join ==
  /\ destructor = "join"
  /\ pc = "exit"
  /\ destructor' = "done"
  /\ UNCHANGED <<timerVars, threadRunning, changedState, pc, threadVars,
                 notifying, historyVars>>

-----------------------------------------------------------------------------
\* The steps the thread takes on its own.
ThreadStep ==
  SpinTest \/ Sleep \/ SleepOn \/ NotYet \/ Idle \/ Expire \/ CallOrSkip

StartCall(t) ==
  \E delay \in Delays, every \in Intervals : Start(t, delay, every)

CallStep(t) ==
  \/ StartCall(t)
  \/ \E value \in Reliabilities : SetReliability(t, value)
  \/ \E function \in Callbacks \cup {NoCallback} : SetCallback(t, function)
  \/ Stop(t)

Next ==
  \/ Tick
  \/ ThreadStep
  \/ CallbackReturns
  \/ SpuriousWakeup
  \/ \E t \in Callers : CallStep(t) \/ Notify(t)
  \/ ThreadStop
  \/ Join

Spec == Init /\ [][Next]_vars

(* Time passes and a thread that can go on does (WF); a callback ends,     *)
(* whatever calls it makes (SF).  Nobody is obliged to call.               *)
Fairness ==
  /\ WF_vars(Tick)
  /\ WF_vars(ThreadStep)
  /\ SF_vars(CallbackReturns)
  /\ \A t \in Callers : WF_vars(Notify(t))
  /\ WF_vars(Join)

FairSpec == Spec /\ Fairness

-----------------------------------------------------------------------------
(* Properties.                                                             *)

\* Type invariant; setReliability keeps the busy loop within its limit.
TypeOK ==
  /\ untilNext \in Nat
  /\ interval \in Intervals
  /\ callback \in Callbacks \cup {NoCallback}
  /\ reliability \in 0 .. MaxReliability
  /\ running \in BOOLEAN
  /\ threadRunning \in BOOLEAN
  /\ changedState \in BOOLEAN
  /\ pc \in {"loop", "lock", "wait", "chosen", "callback", "exit"}
  /\ callBack \in Callbacks \cup {NoCallback}
  /\ sleep \in Nat
  /\ blocked \in BOOLEAN
  /\ notifying \subseteq Callers
  /\ destructor \in {"none", "join", "done"}
  /\ armed \in BOOLEAN
  /\ shots \in 0 .. 2
  /\ due \in Nat

(* No expiration is chosen before the delay, or the interval, the program  *)
(* last asked for has passed: neither a wakeup by a setter, nor the early  *)
(* wakeup of the reliability, nor an old timeout fires a new deadline      *)
(* (threadSpinner's "extra check").                                        *)
NeverEarly == [][pc # "chosen" /\ pc' = "chosen" => due = 0]_vars

(* A single shot expires at most once per start, although the deadline it  *)
(* reached stays in the past (threadSpinner).                              *)
SingleShotOnce == interval = 0 => shots <= 1

(* While the timer runs its thread never sleeps past the deadline, unless  *)
(* it is about to be woken: whatever start interrupts (an idle day, the    *)
(* sleep towards a later deadline or one left over from a stop) it is told.*)
NoOversleep ==
  pc = "wait" /\ running =>
    \/ sleep <= untilNext
    \/ changedState /\ (~blocked \/ notifying # {})

(* Once the destructor has signalled, the thread is not asleep and does    *)
(* not fall asleep: join() never waits for a deadline (threadStop).        *)
ShutdownIsPrompt == destructor # "none" => ~blocked

(* Once the destructor has signalled no expiration is chosen, also when a  *)
(* deadline has been reached that the thread has not seen, or the last     *)
(* callback started the timer again (threadStop).                          *)
ShutdownChoosesNothing ==
  [][pc # "chosen" /\ pc' = "chosen" => destructor = "none"]_vars

-----------------------------------------------------------------------------
(* What the properties above rest on (the proofs need it; see TimerProofs).*)

\* A running timer looks again no earlier than the program asked for.
DueOK == running => due <= untilNext

\* A single shot that is still running has not expired.
ShotOK == running /\ interval = 0 => shots = 0

\* The destructor stops the timer and the thread together, and only a
\* callback still running could start the timer again.
ShutdownOK ==
  /\ destructor = "none" <=> threadRunning
  /\ ~threadRunning /\ pc \in {"lock", "wait"} => ~running

-----------------------------------------------------------------------------
(* Liveness.                                                               *)

(* A started timer expires, and a periodic one goes on expiring, until it  *)
(* is stopped or destroyed; clients that restart it for ever postpone it   *)
(* for ever.  A start made by the callback counts (threadSpinner clears    *)
(* _running of a single shot before it calls).                             *)
StartedTimerExpires ==
  \/ []<><<\E t \in Clients : StartCall(t)>>_vars
  \/ armed /\ (interval > 0 \/ shots = 0)
       ~> pc = "chosen" \/ ~armed \/ destructor # "none"

(* The destructor returns, provided the callback does.                     *)
DestructorReturns == destructor = "join" ~> destructor = "done"
==============================================================================
