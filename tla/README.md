# A TLA+ model of ccopenlib

ccopenlib is a C++ library of small concurrent building blocks: a thread pool,
a timer, an event queue, a callback queue built on it, and cancellation tokens.
Nothing is persisted and nothing crosses a process boundary. What is hard in it
is the interleaving of threads around mutexes, condition variables and a few
flags that are read or written outside them.

The project holds one module per component, modules that compose components the
way programs do, an abstract job pool two of them implement, the instances TLC
checks, and the TLAPS proofs. Source paths below are relative to the repository (`src/...` and
`include/...`).

## 1. The system

| component | state | operations | who calls it |
|---|---|---|---|
| `thread::ThreadPool` | `_stateMutex`, `_jobs`, `_totalJobsCount`, `_jobsCv`, `_totalReducedCountCv`, `_running` (volatile, not atomic), the worker threads | constructor, `enqueue` (one job, a vector, a queue), `clear`, `dequeueAll`, `wait`, `wait_for`, `totalJobCount`, `queueCount`, `wrap`, destructor | any thread, and the jobs it runs |
| `event::EventQueue` | `_stateMutex`, `_stateCv`, `_events`, `_callbacks`, `_maxQueueSize`, `_running` (a plain bool) | `enqueue`, `setCallbackForType`, `setCallbacks`, `run`, `isRunning`, `stop`, destructor | any thread, and the handlers it runs |
| `event::CallbackEventQueue` | an `EventQueue` with one handler | `enqueue`, `wrap`, `run`, `isRunning`, `stop` | any thread |
| `thread::Timer` | `_stateLock`, `_stateChanged`, `_nextInterval`, `_interval`, `_callBack`, `_reliablity`, `_running`, `_threadRunning`, `_changedState`, one thread | `start`, `startSingleshot`, `setCallback`, `setReliability`, `stop`, destructor | any thread, and the callback |
| `util::CancellationTokenSource`, `CancellationToken` | one shared atomic flag | `cancel`, `token`, `isCancelled`, the source's destructor | the owner of the jobs; the jobs |
| `thread::thread_wrap` | none | returns a callable that starts a detached thread | any thread |
| `BaseEvent`, data events, `CallbackEvent` | an immutable value or callable | construction, `invoke` | producers and handlers |
| `version`, `always_false` | none | compile time | – |

How they interact:

- The components do not know each other. The program connects them with
  callables: `ThreadPool::wrap` and `CallbackEventQueue::wrap` return a function
  that enqueues a job on a given pool or queue. A timer whose callback is such a
  function submits to it from the timer's thread.
- A callable may call back into the component that runs it: a pool's job calls
  the pool on a worker, a handler calls its queue on the thread in `run()`, a
  timer's callback calls the timer on the timer's thread. All of them run outside
  the component's mutex.
- Destruction orders components. A pool's and a timer's destructor join their
  threads; an event queue's destructor only calls `stop()`; a cancellation
  source cancels when it is destroyed.

What is hard, and what makes each component correct:

- **ThreadPool.** `_totalJobsCount` is raised in `enqueue` and lowered by the
  worker the *next* time it takes the mutex, two critical sections later; `wait`
  is only as good as that count. Notifications are sent after the mutex is
  released. The destructor writes `_running` without the mutex. Correct: the count
  is exact, no job is lost or run twice, `wait` never returns early, no waiter and
  no worker sleeps for ever, the destructor returns.
- **EventQueue.** `run()` tests and sets `_running` without the mutex, reads it
  twice inside and once outside. Correct: accepted events leave once and in order,
  the limit holds, no wakeup is lost, `stop` ends the loop.
- **Timer.** The deadline is compared with the clock before and after a timed
  wait; `stop` does not notify; a single shot clears `_running` before its callback.
  Correct: a callback runs only for a deadline that was reached and not stopped
  before it, `start` during a callback is not lost, the destructor joins.
- **CallbackEventQueue.** Functions submitted by `enqueue` and by wrapped lambdas are
  called one at a time, in order, once; the queue may be full, a function may stop
  the queue or throw. Destruction does not wait for `run()`. Correct: it behaves as a
  job pool of one thread, and the documented way to end it (schedule a function that
  calls `stop`, join, destroy) always comes to its end.
- **Cancellation.** The header advises it because a running job blocks the pool's
  destruction. Correct: whenever the source goes, the jobs that hold its tokens let
  the destructor through.
- **Wrapped callbacks.** A timer that hands its jobs to a pool or to a detached thread
  crosses two lifetimes. Correct: no call finds the pool destroyed, long jobs hold up
  neither the timer nor its destructor, and after `stop()` at most one more job comes.

`PROJECT.json` lists the hazards one by one, each with the line where it bites and
the properties that cover it.

## 2. Modules

| module | what it is |
|---|---|
| `ThreadPool.tla` | the pool: `threadpool.cxx` whole, except `threadCreateCallback` |
| `JobPool.tla` | what the pool promises, without threads, mutex or counters; `ThreadPool` and `CallbackEventQueue` implement it |
| `CancellableJobs.tla` | `ThreadPool` with `CancellationTokenSource`, `CancellationToken` and jobs that poll their tokens |
| `WrappedTimer.tla` | `ThreadPool` and `Timer` joined by `ThreadPool::wrap` and `thread_wrap` |
| `MCThreadPool.tla`, `MCCancellableJobs.tla`, `MCWrappedTimer.tla`, `Pool*.cfg`, `TimerOnPool.cfg` | their instances |
| `ThreadPoolProofs.tla` | the pool's count, its notifications, its shutdown |
| `JobPoolProofs.tla` | what becomes of the pool's jobs: `Conservation`, the refinement of `JobPool` |
| `CancellableJobsProofs.tla`, `WrappedTimerProofs.tla` | the theorems of the two compositions over the pool |
| `EventQueue.tla` | the event queue: `eventqueue.cxx` whole, except destruction |
| `CallbackEventQueue.tla` | `callbackeventqueue.cxx` and `callbackevent.cxx` over `EventQueue`, with the program around them |
| `MCEventQueue.tla`, `MCCallbackEventQueue.tla`, `Queue*.cfg`, `CallbackQueue.cfg` | their instances |
| `EventQueueProofs.tla` | the queue's theorems |
| `CallbackEventQueueProofs.tla` | the callback queue's: the refinement of `JobPool`, and that the queue inside is an `EventQueue` |
| `Timer.tla` | the timer: `timer.cxx` whole, except `threadCreateCallback` |
| `MCTimer.tla`, `Timer.cfg` | its instance |
| `TimerProofs.tla` | the timer's theorems |
| `QueueLemmas.tla` | facts about sequences without repetition and what moving their contents does, used by the proofs about queues |

Conventions common to all:

- Variables and actions have the names of the members and methods they model.
- A **critical section** is one action when nothing outside the mutex can be seen
  to interleave with it; it is then guarded by `stateMutex = Unlocked`. The sections
  of the threads that loop (a pool's worker, a queue's `run()`) are split where
  another thread's unlocked access could fall between, and `stateMutex` holds the
  owner meanwhile.
- A **condition variable** is the set of threads blocked on it. `notify_all`
  empties it, `notify_one` removes any one member, `wait` releases the mutex and
  enters the set in one step. A removed thread has to take the mutex and evaluate
  its predicate again. `SpuriousWakeup` removes a member without a notification.
- An **unlocked access** to `_running` (`_threadRunning` in the timer) is an action of its own. Each is modelled
  as reading or writing the current value; the data race is otherwise the
  interleaving of these actions.
- A **call** by a client and the same call made by a job or handler are one
  action, `MayCall` saying who may make it and when.
- Some definitions are preceded by a variant of themselves marked *Fault*
  (`EnqueueSilently`, `StopUnlocked`, ...). No specification uses them: they are
  the bugs the properties are shown to catch (`mutants` in `PROJECT.json`).

### ThreadPool

| code | model |
|---|---|
| `Impl::Impl` (threadpool.cxx:130) | `ThreadCount`, `Workers`, `Spawn`; workers run as soon as they are spawned, clients call once construction ended |
| `threadSpinner` (:167) | `SpinTest` → `LockAndReduce` → ... → `StartJob` or `SkipJob` → `FinishJob` |
| `threadRetrieveCallback` (:150) | `LockAndReduce`, then the wait of :159 as `TestFails`/`Block`/`Relock`, then `RetrieveNothing` or `RetrieveJob` |
| `lockedEnqueue`, `enqueue` (:180–251) | `LockedEnqueue` under `Enqueue`, `EnqueueMany`, `EnqueueStash`; the notification, after the unlock, is `NotifyOne` or `NotifyAll` |
| `clear`, `dequeueAll` (:83–95) | `Clear`, `DequeueAll`; what `dequeueAll` returns is `stash`, which `EnqueueStash` may submit again |
| `wait`, `wait_for` (:97–111) | `Wait`, `WaitRetry`, `WaitTimeout` over `WaitPredicate` |
| `~Impl` (:253) | `DestructorSignal` (unlocked write), `DestructorNotify`, `DestructorJoin` |

`fate` and `leaked` are history: what became of each job, and how many jobs are
still counted in `_totalJobsCount` although they are in no queue and no worker.
`ThreadCount` is also what `threadCount()` returns. An empty `std::function` is a
member of `NullJobs`. A job is submitted once;
`Jobs` is therefore also the bound on submissions.

### EventQueue

| code | model |
|---|---|
| `run` (eventqueue.cxx:125) | `RunEnter` (:127), `RunStart` (:128), `WhileTest` (:129), `Lock`, the wait as `PredicateHolds`/`PredicateFails`/`Block`/`Relock`, `Break` (:137), `Pop` or `PopNothing` (:138), `HandlerReturns` or `HandlerThrows` |
| `enqueue` (:75) | `Enqueue`, guarded by `~Full`; a full queue returns `false` and changes nothing |
| `setCallbackForType`, `setCallbacks` (:97–123) | actions of the same name |
| `stop` (:159), `~EventQueue` (:223) | `Stop`; both it and `enqueue` owe a `Notify` |
| `isRunning` (:153) | `IsRunning` |

A null event (`NullEvents`) is accepted by `enqueue`; `PopNull` is the loop's
`typeid(*event)`. On an empty `shared_ptr` that is undefined: the model has the outcome
in which it throws `bad_typeid` after the event has left the queue. In the other one
the process ends there, which the model needs no action for: what is checked with null
events is safety, and it holds up to that point.

`PopNothing` is not dead code: another thread's `RunStart` may set `_running`
after the predicate was satisfied by `!_running` and before :137 reads it.
`accepted`, `taken` and `stopped` are history.

### Timer

| code | model |
|---|---|
| `threadSpinner` (timer.cxx:84) | `SpinTest` (:87, unlocked), `Sleep` and `SleepOn` (the timed wait of :92), then one of `NotYet` (:95), `Idle` (:98), `Expire` (:102), and `CallOrSkip`, `CallbackReturns` outside the mutex |
| `start` in its three forms (:116, :222–235) | `Start`, with an interval of 0 for a single shot |
| `setReliability`, `setCallback`, `stop` (:130–167) | actions of the same name; all but `stop` owe a `Notify` |
| `threadStop`, `~Impl` (:169–186) | `ThreadStop`, `Join` |

Time is logical. The code compares time points with `steady_clock::now()` and stores
no duration, so the model keeps the time *left*: `untilNext` is `_nextInterval` minus
now and `sleep` is what is left of the timed wait; `Tick` takes one unit off each.
That keeps the state finite without a bound on time. A tick may come between any two
steps, so every step may be late; the time between reading the clock and
blocking is part of that lateness. `armed`, `shots` and `due` are history: what
the program asked for.

### JobPool, and how it is implemented

`queue`, `taken`, `started` and `status` are all a user sees: jobs are taken in the
order of submission, at most `Capacity` are in progress, none passes the last check
before its call (`_running`, threadpool.cxx:173) once the pool is closing, none is in
progress when it is closed. It does not say, and the code does not give, that jobs
are *called* in that order: workers that took one each may call them in any order,
since the mutex is released in between, and a job past the check may be called after
the destructor has begun. With one thread taking and calling coincide.

`ThreadPool!Abstract` maps `queue` to `jobs`, `taken` to what workers at `check` hold,
`started` to what workers past it hold until the job returns, `status` to the
destructor's progress. `CallbackEventQueue!Abstract` has
capacity 1: the one thread that calls `run()`. Jobs are withdrawn by `clear` and
`dequeueAll`; the order of submission includes what `dequeueAll` gave back.

### CallbackEventQueue

| code | model |
|---|---|
| both constructors (callbackeventqueue.cxx:52–61) | `Construct`: `SetCallbackForType` of the queue, with the one handler |
| `enqueue`, the lambda of `wrap` (:63–71, :88–93) | `Submit`, under `Enqueue` and `ScheduleStop`: a new event per call, refused when the queue is full |
| `callback` (:44), `CallbackEvent::invoke` (callbackevent.cxx:55) | `Invoke` starts the function, `Leave` is its return or its exception; an empty function is skipped |
| `run`, `stop`, `~CallbackEventQueue` (:73–98) | `RunQueue`, `Stop`, `Destroy` |

The module adds the program: one thread calls `run()` once and catches what escapes
it; producers and functions submit and stop; the owner schedules a function that
calls `stop` (`ScheduleStop`, tried again when the queue is full), joins every other
thread and destroys the queue. It is `event/EXAMPLES.md`'s protocol.

### CancellableJobs

`cancellationVariable` is the flag a source shares with its tokens, `token` what each
polling job captured before it was submitted (`NoSource` for a default constructed
token, which is always cancelled). `Token`, `Cancel`, `DestroySource` and
`IsCancelled` are the methods. `PoolStep` is any step of `ThreadPool`, except that a
polling job returns only if its token is cancelled; fairness of a job's end
(`JobsReturn`) is weakened accordingly.

### WrappedTimer

`ThreadPool` extended, with `Wrapped == INSTANCE Timer` beside it. The timer's thread is
the pool's only client. `CallPool` is the lambda of `ThreadPool::wrap`
(threadpool.cxx:353), `CallThread` that of `thread_wrap` (thread_wrap.cxx:43),
`Return` the end of the callback. The pool is destroyed after the timer, as the order
of declaration makes it. `late` is history: submissions since the timer was last
stopped. Jobs and detached threads need not end.

## 3. Properties and runs

ThreadPool:

- `Accounting`: `_totalJobsCount` = queued + in progress + leaked. So it never
  underflows, and every discrepancy has one of four causes: `clear`,
  `dequeueAll`, a null job, a job dropped at shutdown.
- `WaitIsSound`: while the pool runs, `wait` finds its predicate true only with
  nothing queued and no worker holding a job.
- `Conservation`: a submitted job is in exactly one place until it ran or was
  removed.
- `WorkConserving`: while a worker sleeps, every queued job has an awake worker
  or a notification on its way. One `notify_one` per job, sent outside the mutex,
  is enough.
- `NoStrandedWaiter`: nobody sleeps in `wait` with a count of zero.
- `ShutdownWakesAll`: after the destructor's notification no worker sleeps or is
  about to.
- `QueuedJobIsTaken`, `WaitReturns`, `DestructorReturns`: liveness.
- `ImplementsJobPool`: every step is a step of the abstract pool or invisible to it.
  Among other things no retrieved job passes the check of `_running` before its call
  once the destructor has written it.
- `CountAsDocumented` is proved under its conditions and in no run: with `clear`,
  `dequeueAll` or null jobs it is false (section 4).
- `DestructorReturnsOnceCancelled` (`CancellableJobs`): destroyed sources and a pool
  being destroyed, in whichever order, lead to a destroyed pool. `NobodyHoldsThePool`
  and `CancelledForGood`, which are proved, are the safety behind it.
- `QueuedJobTakenOnceCancelled`: until then the queue is worked off once the sources
  are gone, whatever jobs wait for their own pool, and also where
  `hardware_concurrency()` is 0 (a pool without workers would still be destroyed).

EventQueue:

- `QueueBounded`: the limit holds however many threads enqueue.
- `DeliveryOrder`: `accepted = taken \o events`, across stops, restarts and
  several threads in `run()`.
- `NoLostWakeup`: a thread asleep in `run()` beside an event or a stop has a
  notification coming.

CallbackEventQueue:

- `ImplementsJobPool`: a job pool of one thread.
- `ScheduledStopReturns`: a stop that is accepted as an event ends `run()`, also when a
  direct `stop()` would have been lost.
- `FullQueueDrains`: a full queue has room again unless `run()` has returned, so that
  trying again helps until then. After that a refused stop is refused for ever; the
  owner has nothing left to stop.
- `OwnerDestroys`: once the owner's stop is accepted the protocol ends with the queue
  destroyed, although other threads may stop it first and functions may throw. That
  the stop is accepted is not part of it: nobody is obliged to try again.
- `FunctionIsCalled`, `LoopStops`: an accepted function is called unless the queue
  stops first; a stop that finds the loop past its start ends it.

Timer:

- `NeverEarly`: no expiration is chosen before the delay or interval last asked for has
  passed, although every setter, the reliability and a spurious wakeup wake the
  thread early.
- `SingleShotOnce`: one expiration per `startSingleshot`, although its deadline stays
  in the past.
- `NoOversleep`: while the timer runs the thread does not sleep past the deadline
  without a wakeup on its way.
- `ShutdownIsPrompt`, `ShutdownChoosesNothing`: after the destructor has signalled, the
  thread does not sleep and chooses no expiration, even if the last callback
  starts the timer again.
- `StartedTimerExpires`, `DestructorReturns`: liveness. Clients that restart the timer
  for ever postpone it for ever, so the first says so.

WrappedTimer:

- `WrappedCallFindsPool`: no callback is chosen or in progress once the pool's
  destruction has begun, because `~Timer` joined its thread.
- `OneJobAfterStop`: the callback is called outside the mutex, so a job may still be
  submitted after `stop()` has returned or the destructor has signalled: one, not two.
- `ExpiresBesideLongJobs`, `TimerDestructorReturns`: the timer's own liveness
  properties, with jobs that may run for ever.

| run | instance | what it shows |
|---|---|---|
| `pool_safety` | 2 workers, 2 clients, 3 jobs (one null), all operations, spurious wakeups; 255,608 states | all safety invariants, refinement of `JobPool` |
| `pool_reentrant` | `ThreadPool(0)` where the hardware's concurrency is unknown, so one worker; jobs submit, clear and `wait_for` on their own pool, two of three poll a token; 33,428 states | `wait` is never early under re-entrance, and the destructor returns once the source is gone, even if a job is inside `wait_for`; until then queued jobs are taken |
| `pool_liveness` | 2 workers (`hardware_concurrency`), 2 clients, 2 jobs; 10,516 states | liveness, and no deadlock |
| `timer_on_pool` | 1 worker, 2 jobs, 1 detached thread at a time, a timer with a delay of 1 and intervals of 0 and 1; 56,472 states | the composition of timer, wrappers and pool |
| `timer` | 2 clients and a callback, all operations, delays of 0 and 3, intervals of 0 to 2, a day of 4, reliabilities of 0 and above the limit of 2, spurious wakeups; 51,468 states | all properties of the timer |
| `queue_safety` | 2 threads in `run()` and a client, 3 events of 2 types, one of them null, a limit of 2, handlers that enqueue, stop and throw, spurious wakeups; 92,376 states | all safety invariants |
| `callback_queue` | 1 thread in `run()`, the owner, 1 producer, 2 ordinary functions, an empty one and one that stops, a limit of 2, spurious wakeups; 8,188 states | refinement of `JobPool`, and liveness, at a full queue too |

**Bounds.** `MaxTotalJobs` bounds `_totalJobsCount`, which grows without limit when
jobs are removed and added again; beside it only `MaxDetached` (`WrappedTimer`) and
the number of `Jobs` and `Events` bound a guard, and a wrapped call beyond them does
nothing (`BeyondBounds`). The smallest
instance that shows each hazard is: two workers (one asleep, one busy) and two
waiters for the notifications; three jobs, so that a batch can meet a full set of
workers and leave one over; two runners for the races on `_running`; three
events against a limit of two; for the timer a delay longer and an interval
shorter than the reliability, and a day barely longer than both, so that an idle
wakeup meets a start. The theorems of
section 5 remove these bounds for the properties they cover.

**Symmetry** is used in the two safety runs only, over clients and ordinary
jobs, and over clients and runners.

**Deadlock** is checked in every passing run (in the timer's two it cannot occur: time
can always pass, and their liveness properties stand in for it). The only terminal states of
the pool and of the callback queue are `Destroyed`, a stuttering step. Three violation runs turn it off: they show a
thread that waits for ever, and TLC would report the same state first as a
deadlock.

### Fairness

`Spec` has none; safety is checked and proved under it. `FairSpec` adds
(`ThreadsAreScheduled` and `JobsReturn` in `ThreadPool`):

- weak fairness of the steps a thread can take on its own (a thread that can go on
  does), including the notification it owes;
- strong fairness of taking the mutex: a thread that finds it free again and
  again takes it in the end. `std::mutex` promises no order, and C++ leaves
  progress to the implementation; the schedulers it is used on provide it;
- strong fairness of a job's and a handler's end: a job returns, whatever calls it
  makes on the way. It is the program's obligation: `join()` waits for a job that
  does not return;
- the timeout of `wait_for` elapses; for the timer, time passes (weak fairness of
  `Tick`). Its critical sections are single actions, so weak fairness of the
  thread's steps stands for a mutex that is handed over in the end.

In `CancellableJobs` a polling job returns only once its token is cancelled
(`JobsReturnWhenCancelled`), and in `WrappedTimer` no job has to return at all:
`JobsReturn` is left out. In `CallbackEventQueue` the program calls `run()`, and the
owner that has scheduled the stop joins and destroys.

Nobody else is obliged to call, to enqueue, to cancel, to stop or to destroy.

## 4. Where the code disagrees with its documentation

Each is a `violation` run whose property quotes the header; the counterexample is
the scenario below.

- `pool_pause_hangs_wait`: `dequeueAll()` "returns them for re-adding them later".
  The re-added jobs are counted a second time, the count never reaches zero, and
  `wait()` blocks with every job processed.
- `pool_null_job_hangs_wait`: an empty `std::function` is counted in and skipped
  without being counted down; `wait()` never returns.
- `pool_wait_in_job`: a job in `wait()` on its own pool is not woken by the
  destructor (it notifies `_jobsCv` only), although the predicate has
  `|| !_running` for that; `join()` never returns. The header has executing jobs block
  the destruction until they are completed; this one could complete and is not told.
- `queue_stop_lost`: a `stop()` between `run()`'s test of `_running` and its
  assignment is overwritten; `run()` does not return.
- `queue_throw_keeps_running`: an exception from a handler leaves `run()` with
  `_running` true; `isRunning()` says so, and a later `run()` returns at once.

The unlocked test and assignment of `run()` also let two threads into the loop at once,
and with two threads in `run()` even `LoopStops` fails: the second assigns `_running` after
a `stop()` and before the first has read it. To reproduce that, give `QueueStopLost.cfg`
a second runner and the property `LoopStops`. That is why `callback_queue` lets one
thread call `run()`, and why `LoopStops` is about a stop that finds the loop past its start.

`totalJobCount()` is documented as "Currently processing + jobs in queue";
`clear()` drops the queue and leaves the count, as `dequeueAll` does. It has no run of
its own: `Accounting` counts the difference (`leaked`), and `pool_pause_hangs_wait`
shows the same omission at its worst.

`wait_for` returns its predicate, which is also true while the pool is being
destroyed: a job that gets `true` from its own pool cannot tell completion from
shutdown, although the header says "True when all jobs are processed".

## 5. Proofs

The theorems hold for every value of the constants that satisfies the named
assumptions. TLC evaluates each assumption in the runs of its module.

| assumption | says |
|---|---|
| `PoolAssumption`, `EventQueueAssumption`, `TimerAssumption` | finitely many clients of a pool; clients, workers and sentinel values distinct; the operations threads may call are operations; limits and durations natural numbers |
| `WrapAssumption`, `WrappedTimerAssumption` | the timer's thread is the pool's only client; the constants of the timer inside are a timer's |
| `QueueAssumption` | the constants of the queue inside are a queue's; the owner is not the thread in `run()` |
| `SourcesAssumption` | "no flag" is not a source; the polling jobs are jobs, and not empty functions |

Each component has an inductive invariant, proved by one lemma per conjunct and, in
it, one step per action. TLC checked every conjunct on the instances of section 3
before it was proved.

**The pool and its count** (`ThreadPoolProofs`)

| theorem | states |
|---|---|
| `TypeCorrect` | `Spec => []TypeOK` |
| `CountIsExact` | `Spec => []Accounting` |
| `WaitNeverEarly` | `Spec => []WaitIsSound` |
| `NoWaiterLeftBehind` | `Spec => []NoStrandedWaiter` |
| `ShutdownReachesEveryWorker` | `Spec => []ShutdownWakesAll` |
| `NoJobBesideSleepers` | `Spec => []WorkConserving` |
| `CountWithoutRemovals` | `Spec => []CountAsDocumented`, if nobody calls `clear` or `dequeueAll` and no job is null |

`TypeOK` alone is not inductive: that decrementing `_totalJobsCount`
stays in `Nat` needs `Accounting`, which needs `LocalsOK` (where in its loop a worker
holds a job). `ShutdownWakesAll` needs `MutexOK` (who owns the mutex: the destructor
cannot notify while a worker is between its failed predicate and its block) and
`RunningOK` (nothing else clears `_running`). `WorkConserving` needs `BlockOK` (a
worker about to block has an empty queue). `ThreadCountPositive` covers the
constructor: the pool always has a worker. `CountWithoutRemovals` says how far the
findings of section 4 reach: `totalJobCount()` is what its documentation says
until the destruction begins, if only workers take jobs out and every job is a function.

**The pool and its jobs** (`JobPoolProofs`)

| theorem | states |
|---|---|
| `NoJobLostOrDuplicated` | `Spec => []Conservation` |
| `PoolImplementsJobPool` | `Spec => ImplementsJobPool` |

`Conservation` counts the places a job is in, and the counts are not inductive: that
the front of `_jobs` is nowhere else when a worker takes it is a fact about places.
`PlacesOK` says it (no place holds a job twice, no two hold the same) and `FateOK` says
which jobs are in a place. From both, `Conservation` follows by counting. The
refinement has one lemma per visible step (`SubmitMaps`, ..., `FinishMaps`); all other
steps leave `jobs`, `HeldAt` and the status alone. It needs `PlacesOK` (a job leaves the
abstract set when its worker lets go of it), `RunningOK` (a worker that sees `_running`
true is in an open pool), `ExitOK` (a destroyed pool has no worker in its loop), and
that the jobs held are no more than the workers, which are `ThreadCount` many.

**The event queue** (`EventQueueProofs`)

| theorem | states |
|---|---|
| `TypeCorrect` | `Spec => []TypeOK` |
| `NoWakeupIsLost` | `Spec => []NoLostWakeup` |
| `DeliveredInOrder` | `Spec => []DeliveryOrder` |
| `QueueStaysBounded` | `Spec => []QueueBounded` |
| `RunningUnlessThrown` | `Spec => []RunningMeansLoop`, if no handler throws and no event is null |

`NoLostWakeup` needs `MutexOK` and `BlockOK`: what made the predicate
fail still holds when the thread blocks, as `enqueue` and `stop` need the mutex.
The argument does not depend on how many threads are in `run()`: the unlocked
assignment of `_running` can only make the predicate false. `RunningUnlessThrown` is
the other side of `queue_throw_keeps_running`: the races on `_running` may revive a
loop, but only an exception leaves `_running` true with nobody in one.

**The callback queue** (`CallbackEventQueueProofs`)

| theorem | states |
|---|---|
| `QueueInside` | `Init /\ [][Next]_vars => Queue!Spec` |
| `QueueImplementsJobPool` | `Init /\ [][Next]_vars => ImplementsJobPool` |

The refinement rests on `EventsOK` (an event is queued once, and never again after it was
called) and `RunnerOK` (the runner holds an event only in its handler, and stays out
once its `run()` has returned, which the owner waits for before it destroys).

**The timer** (`TimerProofs`)

| theorem | states |
|---|---|
| `TypeCorrect` | `Spec => []TypeOK` |
| `SingleShotExpiresOnce` | `Spec => []SingleShotOnce` |
| `NeverOversleeps` | `Spec => []NoOversleep` |
| `PromptShutdown` | `Spec => []ShutdownIsPrompt` |
| `ExpiresOnTime` | `Spec => NeverEarly` |
| `NothingAfterShutdown` | `Spec => ShutdownChoosesNothing` |

`NeverEarly` needs `DueOK`: the deadline the code keeps is never before the
one asked for while the timer runs (when it is idle, the 24-hour wakeup moves it).
`SingleShotOnce` needs `ShotOK`: a single shot still running has not expired.
`ShutdownChoosesNothing` needs `ShutdownOK`: with `_threadRunning` false and the thread
past its test, only a callback could have set `_running` again, and a callback
returns to the test. The two action properties follow from the invariant in the
state before the step, and from `OnlyExpireChooses`.

**The wrapped timer** (`WrappedTimerProofs`)

| theorem | states |
|---|---|
| `PoolInside`, `TimerInside` | `SpecAll => Spec`, `SpecAll => Wrapped!Spec` |
| `SubmittedJobsKept` | `SpecAll => []Conservation /\ ImplementsJobPool` |
| `WrappedCallInTime` | `SpecAll => []WrappedCallFindsPool` |
| `AtMostOneLateJob` | `SpecAll => []OneJobAfterStop` |

The first two say that the composition gives neither component a step it does not have
alone. The properties of the composition need `DestructionOrder` (the pool goes after
the timer, whose thread has left its loop by then) and `LateOK` (a timer that runs is
armed; a callback still to make its call was chosen before the stop).

**Cancellable jobs** (`CancellableJobsProofs`)

| theorem | states |
|---|---|
| `PoolInside` | `SpecWithTokens => Spec` |
| `WaitNeverEarlyWithTokens` | `SpecWithTokens => []WaitIsSound` |
| `CancelledJobsKept` | `SpecWithTokens => []Conservation /\ ImplementsJobPool` |
| `DestroyedSourcesFreeThePool` | `SpecWithTokens => []NobodyHoldsThePool` |
| `CancellingIsFinal` | `SpecWithTokens => CancelledForGood` |

`NobodyHoldsThePool` (once no source is left, every polling job may return) is what
`DestructorReturnsOnceCancelled` rests on; it follows from `TokensOK`: no source goes
without its flag set, and every token has a source or no flag at all.

**Inside an instance.** `ThreadPool` is extended by its compositions, so its theorems
are cited there. `Timer` and `EventQueue` are instantiated, and this prover cannot cite
a theorem through `INSTANCE`. `TimerInside` and `QueueInside`, with
`WrappedTimerAssumption` and `QueueAssumption`, are what carries the theorems of
`TimerProofs` and `EventQueueProofs` over; that last step is left to the reader.

**Only model-checked.** Every invariant, every action property and every refinement of
the passing runs is proved. What remains with TLC is liveness, which needs fairness and
`ENABLED` and is out of the prover's reach: `QueuedJobIsTaken`, `WaitReturns`,
`DestructorReturns` (pool and timer), `DestructorReturnsOnceCancelled`,
`StartedTimerExpires`, `ExpiresBesideLongJobs`, `TimerDestructorReturns`, `LoopStops`,
`FunctionIsCalled`, `FullQueueDrains`, `ScheduledStopReturns`, `OwnerDestroys`,
`QueuedJobTakenOnceCancelled`. So do the violations.

## 6. Not modelled, and why

- `threadCreateCallback`: runs on the constructing thread and touches no state of
  the pool.
- A job or a timer's callback that throws: nothing catches it on its thread, and the
  process terminates. So does a callback that destroys its own timer (`join` throws).
- Durations that overflow the clock, and 24 hours less the reliability as anything but
  `Day`.
- A handler that calls `run()` on its own queue: it returns at once unless
  something stopped the queue before.
- The destruction of an event queue somebody is still using: undefined, and no
  document allows it. `CallbackEventQueue` models the destruction that is allowed,
  after the join of every user, pending notifications included.
- A second call of `run()` on a callback queue, and memory orders weaker than the
  default for `cancel` and `isCancelled`.
- The same callable submitted twice: jobs and events are identities here.
- Weak memory: an unlocked access sees the latest value. The queue's
  `_running` and the timer's `_threadRunning` are plain members and formally data
  races; a build may in principle hoist such a read (the pool's `_running` is volatile).
- `BaseEvent`, the data events, `version`, `always_false`: nothing that changes after
  construction. What an `EventQueue` sees of an event is its identity, its type and
  whether it is null, and these are `Events`, `TypeOf` and `NullEvents`.

## 7. Plan

Done: `ThreadPool`, `EventQueue`, `Timer`; `JobPool` and its two refinements; the
compositions `CallbackEventQueue`, `CancellableJobs` and `WrappedTimer`; the proofs of
every safety property the passing runs check. Left, all of it proof:

1. The safety each liveness property rests on, as `NobodyHoldsThePool` is for the
   cancelled pool: what a thread blocked in `wait`, in `run()` or in a timed wait is
   owed, in one invariant per component.
2. Action properties of the queue and the pool: that `taken` and `fate` only ever move
   forward.
3. An abstract timer (armed, due, expired) that `Timer` implements.
