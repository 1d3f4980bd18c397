------------------------------ MODULE ThreadPool ------------------------------
(***************************************************************************)
(* ccol::thread::ThreadPool: a fixed set of worker threads, one job queue, *)
(* one mutex and two condition variables.                                  *)
(*                                                                         *)
(* A critical section is one action when nothing outside the mutex can be  *)
(* seen to interleave with it.  The worker's section is split, because the *)
(* destructor writes _running without the mutex and a worker may sit       *)
(* between testing its wait predicate and blocking.  Every unlocked read   *)
(* or write of _running (it is volatile, not atomic) is a step of its own. *)
(*                                                                         *)
(* A condition variable is the set of threads blocked on it.  Notifying    *)
(* removes threads from the set; a removed thread still has to take the    *)
(* mutex again and to re-evaluate its predicate.                           *)
(***************************************************************************)
EXTENDS Naturals, Sequences, FiniteSets, Functions

CONSTANTS
  Threads,              \* constructor argument "threads"
  HardwareConcurrency,  \* what std::thread::hardware_concurrency() returns
  Clients,              \* threads of the program that call the pool
  Jobs,                 \* the callables the program submits
  NullJobs,             \* those of them that are empty std::function objects
  ClientCalls,          \* operations the clients use
  JobCalls,             \* operations running jobs call on their own pool
  SpuriousWakeups,      \* whether a wait may wake without a notification
  MaxTotalJobs,         \* bound on _totalJobsCount, the one unbounded counter
  NoJob                 \* a null std::function returned by the retrieve step

Operations ==
  {"enqueue", "enqueueMany", "clear", "dequeueAll", "wait", "wait_for"}

\* Fault: the hardware's number is taken as it is.
ThreadCountReported == IF Threads # 0 THEN Threads ELSE HardwareConcurrency

\* Impl::Impl: 0 asks for the hardware's number, which itself may be unknown.
ThreadCount ==
  IF Threads # 0 THEN Threads
  ELSE IF HardwareConcurrency # 0 THEN HardwareConcurrency
  ELSE 1

Workers == 1 .. ThreadCount
Callers == Clients \cup Workers
Unlocked == 0

ASSUME ThreadsAssumption ==
  /\ Threads \in Nat
  /\ HardwareConcurrency \in Nat

ASSUME PoolAssumption ==
  /\ IsFiniteSet(Clients)
  /\ Clients \cap Workers = {}
  /\ NullJobs \subseteq Jobs
  /\ NoJob \notin Jobs
  /\ ClientCalls \subseteq Operations
  /\ JobCalls \subseteq Operations
  /\ SpuriousWakeups \in BOOLEAN
  /\ MaxTotalJobs \in Nat

VARIABLES
  running,              \* _running
  stateMutex,           \* owner of _stateMutex, or Unlocked
  jobs,                 \* _jobs
  totalJobsCount,       \* _totalJobsCount
  jobsCv,               \* workers blocked on _jobsCv
  totalReducedCountCv,  \* callers blocked on _totalReducedCountCv
  pc,                   \* where each worker is in threadSpinner
  callback,             \* the worker's local callback
  reduceJobs,           \* the worker's local reduceJobs
  call,                 \* what is left of the pool call each thread is in
  destructor,           \* progress of ~Impl
  \* What the program holds, and history:
  stash,                \* jobs handed back by dequeueAll
  fate,                 \* what became of each job
  leaked                \* jobs counted in totalJobsCount but no longer there

poolVars   == <<jobs, totalJobsCount, stash>>
workerVars == <<pc, callback, reduceJobs>>
cvVars     == <<jobsCv, totalReducedCountCv>>
vars == <<running, stateMutex, poolVars, cvVars, workerVars, call, destructor,
          fate, leaked>>

Init ==
  /\ running = TRUE
  /\ stateMutex = Unlocked
  /\ jobs = <<>>
  /\ totalJobsCount = 0
  /\ jobsCv = {}
  /\ totalReducedCountCv = {}
  /\ pc = [w \in Workers |-> "unborn"]
  /\ callback = [w \in Workers |-> NoJob]
  /\ reduceJobs = [w \in Workers |-> FALSE]
  /\ call = [t \in Callers |-> "none"]
  /\ destructor = "none"
  /\ stash = <<>>
  /\ fate = [j \in Jobs |-> "new"]
  /\ leaked = 0

-----------------------------------------------------------------------------
(* The constructor starts the workers one by one; each runs at once.       *)

Constructed == \A w \in Workers : pc[w] # "unborn"

Spawn(w) ==
  /\ pc[w] = "unborn"
  /\ \A v \in Workers : v < w => pc[v] # "unborn"
  /\ pc' = [pc EXCEPT ![w] = "loop"]
  /\ UNCHANGED <<running, stateMutex, poolVars, cvVars, callback, reduceJobs,
                 call, destructor, fate, leaked>>

-----------------------------------------------------------------------------
(* A worker: threadSpinner and threadRetrieveCallback.                     *)

Goto(w, from, to) == /\ pc[w] = from
                     /\ pc' = [pc EXCEPT ![w] = to]

\* while (_running)
SpinTest(w) ==
  /\ Goto(w, "loop", IF running THEN "lock" ELSE "exit")
  /\ UNCHANGED <<running, stateMutex, poolVars, cvVars, callback, reduceJobs,
                 call, destructor, fate, leaked>>

\* _totalReducedCountCv.notify_all(); the fault wakes a single waiter.
NotifyOneWaiter ==
  IF totalReducedCountCv = {} THEN UNCHANGED totalReducedCountCv
  ELSE \E t \in totalReducedCountCv :
         totalReducedCountCv' = totalReducedCountCv \ {t}
NotifyWaiters == totalReducedCountCv' = {}

\* Lock _stateMutex; account for the job just finished and wake the waiters.
LockAndReduce(w) ==
  /\ Goto(w, "lock", "test")
  /\ stateMutex = Unlocked
  /\ stateMutex' = w
  /\ IF reduceJobs[w]
     THEN /\ totalJobsCount' = totalJobsCount - 1
          /\ NotifyWaiters
     ELSE UNCHANGED <<totalJobsCount, totalReducedCountCv>>
  /\ reduceJobs' = [reduceJobs EXCEPT ![w] = FALSE]
  /\ UNCHANGED <<running, jobs, stash, jobsCv, callback, call, destructor,
                 fate, leaked>>

\* The predicate is false: go on to block, still holding the mutex.
TestFails(w) ==
  /\ Goto(w, "test", "block")
  /\ running
  /\ jobs = <<>>
  /\ UNCHANGED <<running, stateMutex, poolVars, cvVars, callback, reduceJobs,
                 call, destructor, fate, leaked>>

\* condition_variable::wait: release the mutex and block in one step.
Block(w) ==
  /\ Goto(w, "block", "wait")
  /\ stateMutex' = Unlocked
  /\ jobsCv' = jobsCv \cup {w}
  /\ UNCHANGED <<running, poolVars, totalReducedCountCv, callback, reduceJobs,
                 call, destructor, fate, leaked>>

\* A notified worker returns from the wait with the mutex.
Relock(w) ==
  /\ Goto(w, "wait", "test")
  /\ w \notin jobsCv
  /\ stateMutex = Unlocked
  /\ stateMutex' = w
  /\ UNCHANGED <<running, poolVars, cvVars, callback, reduceJobs, call,
                 destructor, fate, leaked>>

\* if (!_running) return nullptr
RetrieveNothing(w) ==
  /\ Goto(w, "test", "check")
  /\ ~running
  /\ stateMutex' = Unlocked
  /\ UNCHANGED <<running, poolVars, cvVars, callback, reduceJobs, call,
                 destructor, fate, leaked>>

\* _jobs.pop(); the fault moves the front job out and leaves its slot.
QueueUnpopped(queue) == queue
QueuePopped(queue) == Tail(queue)

\* The front job moves to the worker.
RetrieveJob(w) ==
  /\ Goto(w, "test", "check")
  /\ running
  /\ jobs # <<>>
  /\ stateMutex' = Unlocked
  /\ callback' = [callback EXCEPT ![w] = Head(jobs)]
  /\ jobs' = QueuePopped(jobs)
  /\ UNCHANGED <<running, totalJobsCount, stash, cvVars, reduceJobs, call,
                 destructor, fate, leaked>>

\* Fault: if (callback != nullptr)
StartJobUnchecked(w) ==
  /\ Goto(w, "check", "callback")
  /\ callback[w] \notin NullJobs \cup {NoJob}
  /\ UNCHANGED <<running, stateMutex, poolVars, cvVars, callback, reduceJobs,
                 call, destructor, fate, leaked>>

\* if (_running && callback != nullptr) holds: nothing is read between this
\* test and the call, which may come later; the step stands for both.
StartJob(w) ==
  /\ Goto(w, "check", "callback")
  /\ running
  /\ callback[w] \notin NullJobs \cup {NoJob}
  /\ UNCHANGED <<running, stateMutex, poolVars, cvVars, callback, reduceJobs,
                 call, destructor, fate, leaked>>

\* ... or fails: what was retrieved is destroyed and never counted down.
SkipJob(w) ==
  /\ Goto(w, "check", "loop")
  /\ ~running \/ callback[w] \in NullJobs \cup {NoJob}
  /\ callback' = [callback EXCEPT ![w] = NoJob]
  /\ IF callback[w] = NoJob
     THEN UNCHANGED <<fate, leaked>>
     ELSE /\ fate' = [fate EXCEPT ![callback[w]] = "gone"]
          /\ leaked' = leaked + 1
  /\ UNCHANGED <<running, stateMutex, poolVars, cvVars, reduceJobs, call,
                 destructor>>

\* callback() returned; reduceJobs = true.
FinishJob(w) ==
  /\ Goto(w, "callback", "loop")
  /\ call[w] = "none"
  /\ reduceJobs' = [reduceJobs EXCEPT ![w] = TRUE]
  /\ callback' = [callback EXCEPT ![w] = NoJob]
  /\ fate' = [fate EXCEPT ![callback[w]] = "ran"]
  /\ UNCHANGED <<running, stateMutex, poolVars, cvVars, call, destructor,
                 leaked>>

-----------------------------------------------------------------------------
(* Calls.  A client calls between construction and destruction; a running  *)
(* job calls, through ThreadPool::wrap for instance, on its worker.        *)

MayCall(t, op) ==
  /\ call[t] = "none"
  /\ \/ /\ t \in Clients
        /\ op \in ClientCalls
        /\ Constructed
        /\ destructor = "none"
     \/ /\ t \in Workers
        /\ op \in JobCalls
        /\ pc[t] = "callback"
  /\ stateMutex = Unlocked

\* _totalJobsCount += jobs.size(); the fault counts a batch as one job.
CountedOnce(batch) == 1
Counted(batch) == Len(batch)

\* lockedEnqueue: count the jobs and append them; the notification comes
\* after the mutex is released.
LockedEnqueue(t, batch, notification) ==
  /\ totalJobsCount + Counted(batch) <= MaxTotalJobs
  /\ totalJobsCount' = totalJobsCount + Counted(batch)
  /\ jobs' = jobs \o batch
  /\ call' = [call EXCEPT ![t] = notification]
  /\ fate' = [j \in Jobs |-> IF j \in Range(batch) THEN "live" ELSE fate[j]]
  /\ UNCHANGED <<running, stateMutex, cvVars, workerVars, destructor, leaked>>

FreshJobs == {j \in Jobs : fate[j] = "new"}

\* Fault: enqueue(job) without its notification.
EnqueueSilently(t, job) ==
  /\ MayCall(t, "enqueue")
  /\ job \in FreshJobs
  /\ LockedEnqueue(t, <<job>>, "none")
  /\ UNCHANGED stash

\* enqueue(job)
Enqueue(t, job) ==
  /\ MayCall(t, "enqueue")
  /\ job \in FreshJobs
  /\ LockedEnqueue(t, <<job>>, "notify_one")
  /\ UNCHANGED stash

\* Fault: enqueue(std::vector) wakes one worker, as enqueue(job) does.
EnqueueManyNotifyOne(t, batch) ==
  /\ MayCall(t, "enqueueMany")
  /\ IsInjective(batch)
  /\ LockedEnqueue(t, batch, "notify_one")
  /\ UNCHANGED stash

\* enqueue(std::vector)
EnqueueMany(t, batch) ==
  /\ MayCall(t, "enqueueMany")
  /\ IsInjective(batch)
  /\ LockedEnqueue(t, batch, "notify_all")
  /\ UNCHANGED stash

\* enqueue(std::queue) with what dequeueAll returned.
EnqueueStash(t) ==
  /\ MayCall(t, "dequeueAll")
  /\ stash # <<>>
  /\ LockedEnqueue(t, stash, "notify_all")
  /\ stash' = <<>>

\* _jobsCv.notify_one()
NotifyOne(t) ==
  /\ call[t] = "notify_one"
  /\ call' = [call EXCEPT ![t] = "none"]
  /\ IF jobsCv = {} THEN UNCHANGED jobsCv
     ELSE \E w \in jobsCv : jobsCv' = jobsCv \ {w}
  /\ UNCHANGED <<running, stateMutex, poolVars, totalReducedCountCv,
                 workerVars, destructor, fate, leaked>>

\* _jobsCv.notify_all()
NotifyAll(t) ==
  /\ call[t] = "notify_all"
  /\ call' = [call EXCEPT ![t] = "none"]
  /\ jobsCv' = {}
  /\ UNCHANGED <<running, stateMutex, poolVars, totalReducedCountCv,
                 workerVars, destructor, fate, leaked>>

\* clear: the queue is replaced, totalJobsCount is not touched.
Clear(t) ==
  /\ MayCall(t, "clear")
  /\ jobs # <<>>
  /\ jobs' = <<>>
  /\ fate' = [j \in Jobs |-> IF j \in Range(jobs) THEN "gone" ELSE fate[j]]
  /\ leaked' = leaked + Len(jobs)
  /\ UNCHANGED <<running, stateMutex, totalJobsCount, stash, cvVars,
                 workerVars, call, destructor>>

\* dequeueAll: the queue moves to the caller, totalJobsCount is not touched.
DequeueAll(t) ==
  /\ MayCall(t, "dequeueAll")
  /\ jobs # <<>>
  /\ stash' = stash \o jobs
  /\ jobs' = <<>>
  /\ leaked' = leaked + Len(jobs)
  /\ UNCHANGED <<running, stateMutex, totalJobsCount, cvVars, workerVars, call,
                 destructor, fate>>

\* The fault waits for an empty queue and forgets the jobs being run.
WaitForEmptyQueue == jobs = <<>> \/ ~running
WaitPredicate == totalJobsCount = 0 \/ ~running

\* wait, wait_for: the predicate is false and the caller blocks (a call that
\* finds it true returns without touching the pool).
Wait(t, op) ==
  /\ op \in {"wait", "wait_for"}
  /\ MayCall(t, op)
  /\ ~WaitPredicate
  /\ call' = [call EXCEPT ![t] = op]
  /\ totalReducedCountCv' = totalReducedCountCv \cup {t}
  /\ UNCHANGED <<running, stateMutex, poolVars, jobsCv, workerVars, destructor,
                 fate, leaked>>

\* A woken waiter retakes the mutex and returns or blocks again.
WaitRetry(t) ==
  /\ call[t] \in {"wait", "wait_for"}
  /\ t \notin totalReducedCountCv
  /\ stateMutex = Unlocked
  /\ IF WaitPredicate
     THEN /\ call' = [call EXCEPT ![t] = "none"]
          /\ UNCHANGED totalReducedCountCv
     ELSE /\ totalReducedCountCv' = totalReducedCountCv \cup {t}
          /\ UNCHANGED call
  /\ UNCHANGED <<running, stateMutex, poolVars, jobsCv, workerVars, destructor,
                 fate, leaked>>

\* The timeout of wait_for: it returns whatever the predicate now is.
WaitTimeout(t) ==
  /\ call[t] = "wait_for"
  /\ stateMutex = Unlocked
  /\ call' = [call EXCEPT ![t] = "none"]
  /\ totalReducedCountCv' = totalReducedCountCv \ {t}
  /\ UNCHANGED <<running, stateMutex, poolVars, jobsCv, workerVars, destructor,
                 fate, leaked>>

SpuriousWakeup ==
  /\ SpuriousWakeups
  /\ \/ /\ \E w \in jobsCv : jobsCv' = jobsCv \ {w}
        /\ UNCHANGED totalReducedCountCv
     \/ /\ \E t \in totalReducedCountCv :
             totalReducedCountCv' = totalReducedCountCv \ {t}
        /\ UNCHANGED jobsCv
  /\ UNCHANGED <<running, stateMutex, poolVars, workerVars, call, destructor,
                 fate, leaked>>

\* totalJobCount and queueCount lock, read and return.
TotalJobCount == totalJobsCount
QueueCount == Len(jobs)

-----------------------------------------------------------------------------
(* The destructor.  The object may only be destroyed once its clients have *)
(* left it; jobs may still be running.                                     *)

\* _running = false, without the mutex
DestructorSignal ==
  /\ destructor = "none"
  /\ Constructed
  /\ \A t \in Clients : call[t] = "none"
  /\ running' = FALSE
  /\ destructor' = "notify"
  /\ UNCHANGED <<stateMutex, poolVars, cvVars, workerVars, call, fate, leaked>>

\* Fault: _jobsCv.notify_all() without taking the mutex.
DestructorNotifyUnlocked ==
  /\ destructor = "notify"
  /\ jobsCv' = {}
  /\ destructor' = "join"
  /\ UNCHANGED <<running, stateMutex, poolVars, totalReducedCountCv,
                 workerVars, call, fate, leaked>>

\* Lock, _jobsCv.notify_all(), unlock.
DestructorNotify ==
  /\ destructor = "notify"
  /\ stateMutex = Unlocked
  /\ jobsCv' = {}
  /\ destructor' = "join"
  /\ UNCHANGED <<running, stateMutex, poolVars, totalReducedCountCv,
                 workerVars, call, fate, leaked>>

\* Every join() has returned.
DestructorJoin ==
  /\ destructor = "join"
  /\ \A w \in Workers : pc[w] = "exit"
  /\ destructor' = "done"
  /\ UNCHANGED <<running, stateMutex, poolVars, cvVars, workerVars, call, fate,
                 leaked>>

\* Nothing is left to do once the pool is destroyed.
Destroyed == destructor = "done" /\ UNCHANGED vars

-----------------------------------------------------------------------------
\* The steps a worker takes on its own, the mutex permitting.
WorkerStep(w) ==
  \/ SpinTest(w) \/ TestFails(w) \/ Block(w) \/ RetrieveNothing(w)
  \/ RetrieveJob(w) \/ StartJob(w) \/ SkipJob(w)

Batches == UNION {[1 .. n -> FreshJobs] : n \in 0 .. Cardinality(Jobs)}

CallStep(t) ==
  \/ \E job \in Jobs : Enqueue(t, job)
  \/ \E batch \in Batches : EnqueueMany(t, batch)
  \/ EnqueueStash(t)
  \/ Clear(t)
  \/ DequeueAll(t)
  \/ \E op \in {"wait", "wait_for"} : Wait(t, op)

Next ==
  \/ \E w \in Workers : \/ Spawn(w)
                        \/ WorkerStep(w)
                        \/ LockAndReduce(w)
                        \/ Relock(w)
                        \/ FinishJob(w)
  \/ \E t \in Callers : \/ CallStep(t)
                        \/ NotifyOne(t)
                        \/ NotifyAll(t)
                        \/ WaitRetry(t)
                        \/ WaitTimeout(t)
  \/ SpuriousWakeup
  \/ DestructorSignal
  \/ DestructorNotify
  \/ DestructorJoin
  \/ Destroyed

Spec == Init /\ [][Next]_vars

(* A thread that can go on does (WF); a thread that keeps finding the      *)
(* mutex free takes it in the end (SF); the timeout of a wait_for elapses. *)
(* Nothing obliges a client to call, or the owner to destroy the pool.     *)
ThreadsAreScheduled ==
  /\ \A w \in Workers : /\ WF_vars(Spawn(w) \/ WorkerStep(w))
                        /\ SF_vars(LockAndReduce(w) \/ Relock(w))
  /\ \A t \in Callers : /\ WF_vars(NotifyOne(t) \/ NotifyAll(t))
                        /\ SF_vars(WaitRetry(t) \/ WaitTimeout(t))
  /\ SF_vars(DestructorNotify)
  /\ WF_vars(DestructorJoin)

\* A job returns, whatever calls it makes.
JobsReturn == \A w \in Workers : SF_vars(FinishJob(w))

FairSpec == Spec /\ ThreadsAreScheduled /\ JobsReturn

-----------------------------------------------------------------------------
(* Properties.                                                             *)

\* Type invariant: every variable keeps its shape.
TypeOK ==
  /\ running \in BOOLEAN
  /\ stateMutex \in Workers \cup {Unlocked}
  /\ jobs \in Seq(Jobs)
  /\ totalJobsCount \in Nat
  /\ jobsCv \subseteq Workers
  /\ totalReducedCountCv \subseteq Callers
  /\ pc \in [Workers -> {"unborn", "loop", "lock", "test", "block", "wait",
                         "check", "callback", "exit"}]
  /\ callback \in [Workers -> Jobs \cup {NoJob}]
  /\ reduceJobs \in [Workers -> BOOLEAN]
  /\ call \in [Callers ->
       {"none", "notify_one", "notify_all", "wait", "wait_for"}]
  /\ destructor \in {"none", "notify", "join", "done"}
  /\ stash \in Seq(Jobs)
  /\ fate \in [Jobs -> {"new", "live", "ran", "gone"}]
  /\ leaked \in Nat

\* Workers that hold a job or have finished one they have not counted down.
Processing == {w \in Workers : callback[w] # NoJob \/ reduceJobs[w]}

(* _totalJobsCount is exact up to the jobs clear, dequeueAll, null jobs    *)
(* and shutdown leave behind: it never drops below what is queued and in   *)
(* progress, so it cannot underflow and wait() cannot return early         *)
(* (threadRetrieveCallback, lockedEnqueue).                                *)
Accounting == totalJobsCount = Len(jobs) + Cardinality(Processing) + leaked

(* While the pool runs, wait() finds its predicate true only when nothing  *)
(* is queued and no worker holds a job or is inside one (wait: "Wait until *)
(* all jobs are processed").                                               *)
WaitIsSound ==
  running /\ WaitPredicate => /\ jobs = <<>>
                              /\ \A w \in Workers : callback[w] = NoJob

(* A job submitted is in exactly one place until it has run or been        *)
(* removed: nothing is lost in a retrieve, run twice or run after clear.   *)
Conservation ==
  \A j \in Jobs :
    Cardinality({i \in DOMAIN jobs : jobs[i] = j})
    + Cardinality({i \in DOMAIN stash : stash[i] = j})
    + Cardinality({w \in Workers : callback[w] = j})
    = IF fate[j] = "live" THEN 1 ELSE 0

\* Workers that will look at the queue before they can block.
Awake ==
  {w \in Workers : pc[w] \in {"loop", "lock", "test", "wait"}} \ jobsCv

\* Threads that have queued one job and not yet notified.
NotifyingOne == {t \in Callers : call[t] = "notify_one"}

(* While a worker sleeps, every queued job has an awake worker or a        *)
(* notification on its way: notify_one for one job and notify_all for      *)
(* several never leave a job waiting next to an idle worker (enqueue).     *)
WorkConserving ==
  running /\ jobsCv # {} =>
    \/ \E t \in Callers : call[t] = "notify_all"
    \/ Len(jobs) <= Cardinality(Awake) + Cardinality(NotifyingOne)

(* threadpool.hxx on totalJobCount: "Currently processing + jobs in        *)
(* queue".  It holds of pools whose queue is only ever emptied by workers  *)
(* (CountWithoutRemovals in ThreadPoolProofs).                             *)
CountAsDocumented ==
  running => TotalJobCount = QueueCount + Cardinality(Processing)

(* No thread sleeps in wait() with nothing left to count down: the last    *)
(* reduction wakes every waiter (threadRetrieveCallback).                  *)
NoStrandedWaiter == totalJobsCount = 0 => totalReducedCountCv = {}

(* After the destructor's notification no worker sleeps or is about to,    *)
(* so join() cannot hang on a lost wakeup: this is why ~Impl takes the     *)
(* mutex after its unlocked write of _running.                             *)
ShutdownWakesAll ==
  destructor \in {"join", "done"} =>
    \A w \in Workers : pc[w] # "block" /\ w \notin jobsCv

-----------------------------------------------------------------------------
(* The pool implements JobPool.                                            *)

\* The jobs held by the workers that are at a place in their loop.
HeldAt(place) == {callback[w] : w \in {v \in Workers : pc[v] = place}} \ {NoJob}

\* How far the destruction is, as a user of the pool sees it.
PoolStatus == IF destructor = "none" THEN "open"
              ELSE IF destructor = "done" THEN "closed"
              ELSE "closing"

Abstract == INSTANCE JobPool WITH
  Capacity <- ThreadCount,
  queue    <- jobs,
  taken    <- HeldAt("check"),
  started  <- HeldAt("callback"),
  status   <- PoolStatus

(* Every step of workers, callers and destructor is a step of the abstract *)
(* pool or invisible to it: jobs are taken in the order of submission,     *)
(* no more than ThreadCount are in progress, none passes threadSpinner's   *)
(* second test of _running once that is false, and when the destructor has *)
(* returned none is left running (threadpool.hxx: "Any job that is still   *)
(* executing will block destruction until it is completed").               *)
ImplementsJobPool == Abstract!Spec

-----------------------------------------------------------------------------
(* What the invariants above rest on (the proofs need it; see              *)
(* ThreadPoolProofs).                                                      *)

\* A worker holds a job from its retrieval to its end, and has something to
\* count down only between a job's end and the next critical section.
LocalsOK ==
  \A w \in Workers :
    /\ callback[w] # NoJob => pc[w] \in {"check", "callback"}
    /\ pc[w] = "callback" => callback[w] # NoJob
    /\ reduceJobs[w] => pc[w] \in {"loop", "lock", "exit"}

\* The mutex has the owner it says it has.
MutexOK == \A w \in Workers : pc[w] \in {"test", "block"} <=> stateMutex = w

\* A worker about to block has an empty queue; the blocked ones are where
\* they say they are.
BlockOK ==
  \A w \in Workers : /\ pc[w] = "block" => jobs = <<>>
                     /\ w \in jobsCv => pc[w] = "wait"

\* Only the destructor's first step makes _running false.
RunningOK == running <=> destructor = "none"

\* A job queued, handed back or held by a worker is nowhere else.
PlacesOK ==
  /\ IsInjective(jobs)
  /\ IsInjective(stash)
  /\ Range(jobs) \cap Range(stash) = {}
  /\ \A w \in Workers : callback[w] \notin Range(jobs) \cup Range(stash)
  /\ \A v, w \in Workers :
       callback[v] = callback[w] => v = w \/ callback[v] = NoJob

\* A pool that is destroyed has no worker left in its loop.
ExitOK == destructor = "done" => \A w \in Workers : pc[w] = "exit"

\* The live jobs are those in one of these places.
FateOK ==
  \A j \in Jobs :
    fate[j] = "live" <=> \/ j \in Range(jobs) \cup Range(stash)
                        \/ \E w \in Workers : callback[w] = j

-----------------------------------------------------------------------------
(* Liveness, and what the documentation says.                              *)

(* A queued job is taken, removed or overtaken by the destruction.         *)
QueuedJobIsTaken ==
  \A j \in Jobs : j \in Range(jobs) ~> (j \notin Range(jobs) \/ ~running)

(* wait() returns once the jobs it waits for are processed, when nothing   *)
(* was removed from the queue.                                             *)
WaitReturns == \A t \in Clients : call[t] = "wait" ~> call[t] = "none"

(* dequeueAll: "Removes all jobs from the queue, and returns them for      *)
(* re-adding them later."  Once everything is re-added, wait() returns.    *)
WaitReturnsWhenResumed ==
  \A t \in Clients :
    call[t] = "wait" /\ stash = <<>> ~> call[t] = "none" \/ stash # <<>>

(* The destructor returns, provided running jobs do.                       *)
DestructorReturns == destructor = "notify" ~> destructor = "done"
=============================================================================
