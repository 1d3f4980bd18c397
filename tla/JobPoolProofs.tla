----------------------------- MODULE JobPoolProofs -----------------------------
(***************************************************************************)
(* What becomes of the jobs of a ThreadPool, for every value of the        *)
(* constants: none is lost or duplicated (Conservation), and the pool      *)
(* implements JobPool.                                                     *)
(*                                                                         *)
(* Conservation counts, for each job, the places it is in.  Its steps do   *)
(* not follow from the counts: that the front of _jobs is nowhere else     *)
(* when it moves to a worker is a fact about the places, not about their   *)
(* number.  The inductive invariant says it directly: no place holds a job *)
(* twice and no two hold the same (PlacesOK), and the jobs in a place are  *)
(* those that are live (FateOK).  Conservation follows by counting.        *)
(*                                                                         *)
(* The abstract queue is _jobs.  A job is taken while its worker stands    *)
(* between the retrieval and the second test of _running, started once     *)
(* that test has let its worker through, until the job returns.  Most      *)
(* steps do not show; the proof has one lemma for each step that does.  It *)
(* needs that no two workers hold the same job (PlacesOK), so that a job   *)
(* leaves the abstract sets when its worker lets go of it; that a worker   *)
(* without a job may stand at "check" (LocalsOK); that _running tells      *)
(* whether destruction began (RunningOK); and that a destroyed pool has no *)
(* worker left (ExitOK).                                                   *)
(***************************************************************************)
EXTENDS ThreadPoolProofs

PlacesInv == PlacesOK /\ FateOK

-----------------------------------------------------------------------------
(* Where the jobs are: the steps of PlacesInv.                             *)

\* A step that moves no job and ends none keeps every job in its place.
LEMMA NothingMoves ==
  ASSUME PlacesInv, UNCHANGED <<jobs, stash, callback, fate>>
  PROVE  PlacesInv'
  BY DEF PlacesInv, PlacesOK, FateOK

\* The front of the queue moves to a worker that holds nothing.
LEMMA RetrievePlaces ==
  ASSUME TypeOK, LocalsOK, PlacesInv, NEW w \in Workers, RetrieveJob(w)
  PROVE  PlacesInv'
<1>1. /\ jobs' = Tail(jobs) /\ jobs # <<>> /\ jobs \in Seq(Jobs)
      /\ callback' = [callback EXCEPT ![w] = Head(jobs)]
      /\ callback \in [Workers -> Jobs \cup {NoJob}]
      /\ stash' = stash /\ fate' = fate
  BY DEF RetrieveJob, QueuePopped, TypeOK
<1>2. callback[w] = NoJob
  BY DEF RetrieveJob, Goto, LocalsOK
<1>3. /\ Head(jobs) \in Range(jobs)
      /\ IsInjective(jobs')
      /\ Range(jobs') = Range(jobs) \ {Head(jobs)}
  BY <1>1, TailPlace DEF PlacesInv, PlacesOK
<1>4. Head(jobs) \in Jobs /\ Head(jobs) # NoJob
  BY <1>1, HeadTailProperties, PoolAssumption
<1>5. callback' \in [Workers -> Jobs \cup {NoJob}]
  BY <1>1, <1>4
<1>6. PlacesOK'
  BY <1>1, <1>2, <1>3, <1>4 DEF PlacesInv, PlacesOK
<1>7. FateOK'
  <2> SUFFICES ASSUME NEW j \in Jobs
               PROVE  fate[j] = "live" <=>
                        \/ j \in Range(jobs') \cup Range(stash)
                        \/ \E v \in Workers : callback'[v] = j
    BY <1>1 DEF FateOK
  <2>1. CASE j = Head(jobs)
    <3>1. fate[j] = "live"
      BY <2>1, <1>3 DEF PlacesInv, FateOK
    <3>2. callback'[w] = j
      BY <2>1, <1>1
    <3> QED
      BY <3>1, <3>2
  <2>2. CASE j # Head(jobs)
    <3>1. \A v \in Workers : callback'[v] = j <=> callback[v] = j
      BY <2>2, <1>1, <1>2, PoolAssumption
    <3>2. j \in Range(jobs') <=> j \in Range(jobs)
      BY <2>2, <1>3
    <3> QED
      BY <3>1, <3>2 DEF PlacesInv, FateOK
  <2> QED
    BY <2>1, <2>2
<1> QED
  BY <1>6, <1>7 DEF PlacesInv

\* A worker lets go of its job, which is then no longer live.
LEMMA ReleasePlaces ==
  ASSUME TypeOK, PlacesInv, NEW w \in Workers, callback[w] # NoJob,
         NEW end \in {"ran", "gone"},
         callback' = [callback EXCEPT ![w] = NoJob],
         fate' = [fate EXCEPT ![callback[w]] = end],
         UNCHANGED <<jobs, stash>>
  PROVE  PlacesInv'
<1>1. /\ callback \in [Workers -> Jobs \cup {NoJob}]
      /\ fate \in [Jobs -> {"new", "live", "ran", "gone"}]
      /\ callback[w] \in Jobs
  BY DEF TypeOK
<1>2. NoJob \notin Range(jobs) \cup Range(stash)
  BY PlaceSubset, PoolAssumption DEF TypeOK
<1>3. PlacesOK'
  BY <1>1, <1>2 DEF PlacesInv, PlacesOK
<1>4. FateOK'
  <2> SUFFICES ASSUME NEW j \in Jobs
               PROVE  fate'[j] = "live" <=>
                        \/ j \in Range(jobs) \cup Range(stash)
                        \/ \E v \in Workers : callback'[v] = j
    BY DEF FateOK
  <2>1. CASE j = callback[w]
    <3>1. fate'[j] # "live"
      BY <2>1, <1>1
    <3>2. j \notin Range(jobs) \cup Range(stash)
      BY <2>1 DEF PlacesInv, PlacesOK
    <3>3. \A v \in Workers : callback'[v] # j
      BY <2>1, <1>1 DEF PlacesInv, PlacesOK
    <3> QED
      BY <3>1, <3>2, <3>3
  <2>2. CASE j # callback[w]
    <3>1. \A v \in Workers : callback'[v] = j <=> callback[v] = j
      BY <2>2, <1>1, PoolAssumption
    <3>2. fate'[j] = fate[j]
      BY <2>2, <1>1
    <3> QED
      BY <3>1, <3>2 DEF PlacesInv, FateOK
  <2> QED
    BY <2>1, <2>2
<1> QED
  BY <1>3, <1>4 DEF PlacesInv

\* Jobs that were in no place join the queue and become live.
LEMMA SubmitPlaces ==
  ASSUME TypeOK, PlacesInv, NEW t \in Callers, NEW batch \in Seq(FreshJobs),
         NEW notification, IsInjective(batch),
         LockedEnqueue(t, batch, notification), UNCHANGED stash
  PROVE  PlacesInv'
<1>1. /\ jobs' = jobs \o batch /\ callback' = callback /\ stash' = stash
      /\ fate' = [j \in Jobs |-> IF j \in Range(batch) THEN "live" ELSE fate[j]]
  BY DEF LockedEnqueue, workerVars
<1>2. Range(batch) \subseteq FreshJobs /\ FreshJobs \subseteq Jobs
  BY PlaceSubset DEF FreshJobs
<1>3. batch \in Seq(Jobs) /\ jobs \in Seq(Jobs)
  BY <1>2, SeqMonotonic DEF TypeOK
<1>4. /\ Range(batch) \cap (Range(jobs) \cup Range(stash)) = {}
      /\ \A w \in Workers : callback[w] \notin Range(batch)
  BY <1>2 DEF PlacesInv, FateOK, FreshJobs
<1>5. /\ IsInjective(jobs')
      /\ Range(jobs') = Range(jobs) \cup Range(batch)
  BY <1>1, <1>3, <1>4, ConcatPlace DEF PlacesInv, PlacesOK
<1>6. PlacesOK'
  BY <1>1, <1>4, <1>5 DEF PlacesInv, PlacesOK
<1>7. FateOK'
  BY <1>1, <1>2, <1>5 DEF PlacesInv, FateOK
<1> QED
  BY <1>6, <1>7 DEF PlacesInv

\* What dequeueAll handed back joins the queue again.
LEMMA ResubmitPlaces ==
  ASSUME TypeOK, PlacesInv, NEW t \in Callers, EnqueueStash(t)
  PROVE  PlacesInv'
<1>1. /\ jobs' = jobs \o stash /\ callback' = callback /\ stash' = <<>>
      /\ fate' = [j \in Jobs |-> IF j \in Range(stash) THEN "live" ELSE fate[j]]
  BY DEF EnqueueStash, LockedEnqueue, workerVars
<1>2. /\ IsInjective(jobs')
      /\ Range(jobs') = Range(jobs) \cup Range(stash)
  BY <1>1, ConcatPlace DEF PlacesInv, PlacesOK, TypeOK
<1>3. IsInjective(stash') /\ Range(stash') = {}
  BY <1>1, EmptyPlace
<1>4. PlacesOK'
  BY <1>1, <1>2, <1>3 DEF PlacesInv, PlacesOK
<1>5. FateOK'
  BY <1>1, <1>2, <1>3 DEF PlacesInv, FateOK
<1> QED
  BY <1>4, <1>5 DEF PlacesInv

\* clear ends the queued jobs.
LEMMA ClearPlaces ==
  ASSUME TypeOK, PlacesInv, NEW t \in Callers, Clear(t)
  PROVE  PlacesInv'
<1>1. /\ jobs' = <<>> /\ callback' = callback /\ stash' = stash
      /\ fate' = [j \in Jobs |-> IF j \in Range(jobs) THEN "gone" ELSE fate[j]]
  BY DEF Clear, workerVars
<1>2. IsInjective(jobs') /\ Range(jobs') = {}
  BY <1>1, EmptyPlace
<1>3. PlacesOK'
  BY <1>1, <1>2 DEF PlacesInv, PlacesOK
<1>4. FateOK'
  BY <1>1, <1>2 DEF PlacesInv, PlacesOK, FateOK
<1> QED
  BY <1>3, <1>4 DEF PlacesInv

\* dequeueAll hands the queued jobs back.
LEMMA DequeuePlaces ==
  ASSUME TypeOK, PlacesInv, NEW t \in Callers, DequeueAll(t)
  PROVE  PlacesInv'
<1>1. /\ jobs' = <<>> /\ callback' = callback /\ stash' = stash \o jobs
      /\ fate' = fate
  BY DEF DequeueAll, workerVars
<1>2. /\ IsInjective(stash')
      /\ Range(stash') = Range(jobs) \cup Range(stash)
  BY <1>1, ConcatPlace DEF PlacesInv, PlacesOK, TypeOK
<1>3. IsInjective(jobs') /\ Range(jobs') = {}
  BY <1>1, EmptyPlace
<1>4. PlacesOK'
  BY <1>1, <1>2, <1>3 DEF PlacesInv, PlacesOK
<1>5. FateOK'
  BY <1>1, <1>2, <1>3 DEF PlacesInv, FateOK
<1> QED
  BY <1>4, <1>5 DEF PlacesInv

\* Every step keeps the places of the jobs.
LEMMA PlacesStep ==
  ASSUME TypeOK, LocalsOK, PlacesInv, [Next]_vars
  PROVE  PlacesInv'
<1>1. ASSUME NEW w \in Workers, Spawn(w) PROVE PlacesInv'
  BY <1>1, NothingMoves DEF Spawn, poolVars
<1>2. ASSUME NEW w \in Workers, SpinTest(w) PROVE PlacesInv'
  BY <1>2, NothingMoves DEF SpinTest, poolVars
<1>3. ASSUME NEW w \in Workers, LockAndReduce(w) PROVE PlacesInv'
  BY <1>3, NothingMoves DEF LockAndReduce
<1>4. ASSUME NEW w \in Workers, TestFails(w) PROVE PlacesInv'
  BY <1>4, NothingMoves DEF TestFails, poolVars
<1>5. ASSUME NEW w \in Workers, Block(w) PROVE PlacesInv'
  BY <1>5, NothingMoves DEF Block, poolVars
<1>6. ASSUME NEW w \in Workers, Relock(w) PROVE PlacesInv'
  BY <1>6, NothingMoves DEF Relock, poolVars
<1>7. ASSUME NEW w \in Workers, RetrieveNothing(w) PROVE PlacesInv'
  BY <1>7, NothingMoves DEF RetrieveNothing, poolVars
<1>8. ASSUME NEW w \in Workers, StartJob(w) PROVE PlacesInv'
  BY <1>8, NothingMoves DEF StartJob, poolVars
<1>9. ASSUME NEW t \in Callers, NotifyOne(t) PROVE PlacesInv'
  BY <1>9, NothingMoves DEF NotifyOne, poolVars, workerVars
<1>10. ASSUME NEW t \in Callers, NotifyAll(t) PROVE PlacesInv'
  BY <1>10, NothingMoves DEF NotifyAll, poolVars, workerVars
<1>11. ASSUME NEW t \in Callers, WaitRetry(t) PROVE PlacesInv'
  BY <1>11, NothingMoves DEF WaitRetry, poolVars, workerVars
<1>12. ASSUME NEW t \in Callers, WaitTimeout(t) PROVE PlacesInv'
  BY <1>12, NothingMoves DEF WaitTimeout, poolVars, workerVars
<1>13. ASSUME NEW t \in Callers, NEW op \in {"wait", "wait_for"}, Wait(t, op)
     PROVE PlacesInv'
  BY <1>13, NothingMoves DEF Wait, poolVars, workerVars
<1>14. CASE SpuriousWakeup
  BY <1>14, NothingMoves DEF SpuriousWakeup, poolVars, workerVars
<1>15. CASE DestructorSignal
  BY <1>15, NothingMoves DEF DestructorSignal, poolVars, workerVars
<1>16. CASE DestructorNotify
  BY <1>16, NothingMoves DEF DestructorNotify, poolVars, workerVars
<1>17. CASE DestructorJoin
  BY <1>17, NothingMoves DEF DestructorJoin, poolVars, workerVars
<1>18. CASE UNCHANGED vars
  BY <1>18, NothingMoves DEF vars, poolVars, workerVars
<1>19. ASSUME NEW w \in Workers, RetrieveJob(w) PROVE PlacesInv'
  BY <1>19, RetrievePlaces
<1>20. ASSUME NEW w \in Workers, SkipJob(w) PROVE PlacesInv'
  <2>1. CASE callback[w] = NoJob
    <3>1. callback' = callback
      BY <2>1, <1>20 DEF SkipJob, TypeOK
    <3> QED
      BY <2>1, <3>1, <1>20, NothingMoves DEF SkipJob, poolVars
  <2>2. CASE callback[w] # NoJob
    BY <2>2, <1>20, ReleasePlaces DEF SkipJob, poolVars
  <2> QED
    BY <2>1, <2>2
<1>21. ASSUME NEW w \in Workers, FinishJob(w) PROVE PlacesInv'
  <2>1. callback[w] # NoJob
    BY <1>21 DEF FinishJob, Goto, LocalsOK
  <2> QED
    BY <2>1, <1>21, ReleasePlaces DEF FinishJob, poolVars
<1>22. ASSUME NEW t \in Callers, EnqueueStash(t) PROVE PlacesInv'
  BY <1>22, ResubmitPlaces
<1>23. ASSUME NEW t \in Callers, Clear(t) PROVE PlacesInv'
  BY <1>23, ClearPlaces
<1>24. ASSUME NEW t \in Callers, DequeueAll(t) PROVE PlacesInv'
  BY <1>24, DequeuePlaces
<1>25. ASSUME NEW t \in Callers, NEW job \in Jobs, Enqueue(t, job)
     PROVE PlacesInv'
  <2>1. <<job>> \in Seq(FreshJobs) /\ IsInjective(<<job>>)
    BY <1>25, SingletonPlace DEF Enqueue
  <2> QED
    BY <2>1, <1>25, SubmitPlaces DEF Enqueue
<1>26. ASSUME NEW t \in Callers, NEW batch \in Batches, EnqueueMany(t, batch)
     PROVE PlacesInv'
  <2>1. batch \in Seq(FreshJobs)
    BY FreshBatch
  <2> QED
    BY <2>1, <1>26, SubmitPlaces DEF EnqueueMany
<1> QED
  BY <1>1, <1>2, <1>3, <1>4, <1>5, <1>6, <1>7, <1>8, <1>9, <1>10,
     <1>11, <1>12, <1>13, <1>14, <1>15, <1>16, <1>17, <1>18, <1>19,
     <1>20, <1>21, <1>22, <1>23, <1>24, <1>25, <1>26
  DEF Next, WorkerStep, CallStep, Destroyed

\* No job is anywhere at first.
LEMMA InitPlaces == Init => PlacesInv
<1> SUFFICES ASSUME Init PROVE PlacesInv
  OBVIOUS
<1>1. IsInjective(jobs) /\ Range(jobs) = {} /\ IsInjective(stash) /\ Range(stash) = {}
  BY EmptyPlace DEF Init
<1>2. \A w \in Workers : callback[w] = NoJob
  BY DEF Init
<1>3. \A j \in Jobs : fate[j] = "new" /\ j # NoJob
  BY PoolAssumption DEF Init
<1> QED
  BY <1>1, <1>2, <1>3 DEF PlacesInv, PlacesOK, FateOK

\* Every reachable state has each job in its place.
LEMMA PlacesInductive == Spec => [](IInv /\ PlacesInv)
<1>1. Init => IInv /\ PlacesInv
  BY InitInvariant, InitPlaces
<1>2. IInv /\ PlacesInv /\ [Next]_vars => (IInv /\ PlacesInv)'
  BY StepInvariant, PlacesStep DEF IInv
<1> QED
  BY <1>1, <1>2, PTL DEF Spec

-----------------------------------------------------------------------------
(* Conservation.                                                           *)

(* A submitted job is in exactly one place, the queue, the program's hands *)
(* or one worker, until it has run or was removed: retrieve, clear,        *)
(* dequeueAll and shutdown neither lose nor duplicate a job.               *)
THEOREM NoJobLostOrDuplicated == Spec => []Conservation
<1>1. IInv /\ PlacesInv => Conservation
  <2> SUFFICES ASSUME IInv, PlacesInv, NEW j \in Jobs
               PROVE  Cardinality({i \in DOMAIN jobs : jobs[i] = j})
                        + Cardinality({i \in DOMAIN stash : stash[i] = j})
                        + Cardinality({w \in Workers : callback[w] = j})
                        = IF fate[j] = "live" THEN 1 ELSE 0
    BY DEF Conservation
  <2>1. Cardinality({i \in DOMAIN jobs : jobs[i] = j})
          = IF j \in Range(jobs) THEN 1 ELSE 0
    BY Occurrences DEF PlacesInv, PlacesOK
  <2>2. Cardinality({i \in DOMAIN stash : stash[i] = j})
          = IF j \in Range(stash) THEN 1 ELSE 0
    BY Occurrences DEF PlacesInv, PlacesOK
  <2>3. Cardinality({w \in Workers : callback[w] = j})
          = IF \E w \in Workers : callback[w] = j THEN 1 ELSE 0
    <3>1. CASE \E w \in Workers : callback[w] = j
      <4>1. PICK w \in Workers : callback[w] = j
        BY <3>1
      <4>2. {v \in Workers : callback[v] = j} = {w}
        BY <4>1, PoolAssumption DEF PlacesInv, PlacesOK
      <4> QED
        BY <3>1, <4>2, FS_Singleton
    <3>2. CASE ~\E w \in Workers : callback[w] = j
      <4>1. {v \in Workers : callback[v] = j} = {}
        BY <3>2
      <4> QED
        BY <3>2, <4>1, FS_EmptySet
    <3> QED
      BY <3>1, <3>2
  <2>4. /\ ~(j \in Range(jobs) /\ j \in Range(stash))
        /\ j \in Range(jobs) \cup Range(stash) =>
             ~\E w \in Workers : callback[w] = j
        /\ fate[j] = "live" <=> \/ j \in Range(jobs) \cup Range(stash)
                                \/ \E w \in Workers : callback[w] = j
    BY DEF PlacesInv, PlacesOK, FateOK
  <2> QED
    BY <2>1, <2>2, <2>3, <2>4
<1> QED
  BY <1>1, PlacesInductive, PTL

-----------------------------------------------------------------------------
(* The invariant of the refinement.                                        *)

RefinementInv == IInv /\ PlacesInv /\ ExitOK

-----------------------------------------------------------------------------
(* The mapping.                                                            *)

\* Every job held at a place is a job.
LEMMA HeldJobs ==
  ASSUME TypeOK, NEW place
  PROVE  HeldAt(place) \subseteq Jobs /\ NoJob \notin HeldAt(place)
  BY DEF HeldAt, TypeOK

\* The jobs held at a place change only when a worker comes, goes or lets go.
LEMMA HeldUnchanged ==
  ASSUME NEW place, UNCHANGED callback,
         \A v \in Workers : pc'[v] = place <=> pc[v] = place
  PROVE  UNCHANGED HeldAt(place)
<1>1. {v \in Workers : pc'[v] = place} = {v \in Workers : pc[v] = place}
  OBVIOUS
<1> QED
  BY <1>1 DEF HeldAt

\* A worker that comes to a place brings its job.
LEMMA HeldArrives ==
  ASSUME NEW from, NEW to, NEW w \in Workers, from # to, Goto(w, from, to),
         TypeOK, UNCHANGED callback
  PROVE  HeldAt(to)' = HeldAt(to) \cup ({callback[w]} \ {NoJob})
<1>1. {v \in Workers : pc'[v] = to} = {v \in Workers : pc[v] = to} \cup {w}
  BY DEF Goto, TypeOK
<1>2. HeldAt(to)' = {callback[v] : v \in {u \in Workers : pc[u] = to} \cup {w}}
                      \ {NoJob}
  BY <1>1 DEF HeldAt
<1> QED
  BY <1>2 DEF HeldAt

\* A worker that leaves a place takes its job from there, and no other's.
LEMMA HeldLeaves ==
  ASSUME NEW from, NEW to, NEW w \in Workers, from # to, Goto(w, from, to),
         TypeOK, PlacesOK,
         \A v \in Workers \ {w} : callback'[v] = callback[v]
  PROVE  HeldAt(from)' = HeldAt(from) \ {callback[w]}
<1>1. {v \in Workers : pc'[v] = from} = {v \in Workers : pc[v] = from} \ {w}
  BY DEF Goto, TypeOK
<1>2. HeldAt(from)' =
        {callback[v] : v \in {u \in Workers : pc[u] = from} \ {w}} \ {NoJob}
  BY <1>1 DEF HeldAt
<1>3. \A v \in Workers \ {w} :
        callback[v] # NoJob => callback[v] # callback[w]
  BY DEF PlacesOK
<1> QED
  BY <1>2, <1>3 DEF HeldAt

\* A step that leaves the queue, the jobs' workers and the destructor alone
\* does not show.
LEMMA Invisible ==
  ASSUME UNCHANGED <<jobs, callback, destructor>>,
         \A v \in Workers : /\ pc'[v] = "check" <=> pc[v] = "check"
                            /\ pc'[v] = "callback" <=> pc[v] = "callback"
  PROVE  UNCHANGED Abstract!vars
  BY HeldUnchanged DEF Abstract!vars, PoolStatus

\* While some worker has not left its loop, the pool is not closed.
LEMMA NotClosed ==
  ASSUME ExitOK, NEW w \in Workers, pc[w] # "exit"
  PROVE  PoolStatus # "closed"
  BY DEF ExitOK, PoolStatus

\* A thread that may call finds the pool not closed.
LEMMA CallersFindPool ==
  ASSUME ExitOK, NEW t \in Callers, NEW op, MayCall(t, op)
  PROVE  PoolStatus # "closed"
  BY NotClosed DEF MayCall, PoolStatus

-----------------------------------------------------------------------------
(* The steps that show.                                                    *)

\* Enqueuing jobs submits them; an empty batch does not show.
LEMMA SubmitMaps ==
  ASSUME TypeOK, ExitOK, NEW t \in Callers, NEW op, MayCall(t, op),
         NEW batch \in Seq(Jobs), NEW notification,
         LockedEnqueue(t, batch, notification)
  PROVE  [Abstract!Next]_Abstract!vars
<1>1. /\ jobs' = jobs \o batch /\ jobs \in Seq(Jobs)
      /\ UNCHANGED <<HeldAt("check"), HeldAt("callback"), PoolStatus>>
  BY HeldUnchanged DEF LockedEnqueue, workerVars, PoolStatus, TypeOK
<1>2. CASE batch = <<>>
  BY <1>1, <1>2, ConcatEmptySeq DEF Abstract!vars
<1>3. CASE batch # <<>>
  <2>1. /\ Len(jobs') > Len(jobs)
        /\ SubSeq(jobs', 1, Len(jobs)) = jobs
    BY <1>1, <1>3, ExtendedQueue
  <2>2. Abstract!Submit
    BY <1>1, <2>1, CallersFindPool DEF Abstract!Submit
  <2> QED
    BY <2>2 DEF Abstract!Next
<1> QED
  BY <1>2, <1>3

\* clear and dequeueAll withdraw the queue.
LEMMA WithdrawMaps ==
  ASSUME ExitOK, NEW t \in Callers, NEW op, MayCall(t, op),
         jobs' = <<>>, UNCHANGED <<pc, callback, destructor>>
  PROVE  Abstract!Next
<1>1. UNCHANGED <<HeldAt("check"), HeldAt("callback"), PoolStatus>>
  BY HeldUnchanged DEF PoolStatus
<1> QED
  BY <1>1, CallersFindPool DEF Abstract!Next, Abstract!Withdraw

\* The abstract pool counts as the module FiniteSets does.
LEMMA SameCount == \A S : Abstract!Cardinality(S) = Cardinality(S)
  BY DEF Abstract!Cardinality, Cardinality

\* Fewer than ThreadCount jobs are in progress when a worker holds none.
LEMMA RoomForOne ==
  ASSUME TypeOK, NEW w \in Workers, callback[w] = NoJob
  PROVE  Cardinality(HeldAt("check") \cup HeldAt("callback")) < ThreadCount
<1> DEFINE Others == Workers \ {w}
           Theirs == {callback[v] : v \in Others}
           f == [v \in Others |-> callback[v]]
<1>1. IsFiniteSet(Others) /\ Cardinality(Others) = ThreadCount - 1
  <2>1. IsFiniteSet(Workers) /\ Cardinality(Workers) = ThreadCount
    BY ThreadCountPositive, FS_Interval DEF Workers
  <2> QED
    BY <2>1, FS_RemoveElement
<1>2. f \in Surjection(Others, Theirs)
  BY DEF Surjection
<1>3. /\ IsFiniteSet(Theirs)
      /\ Cardinality(Theirs) <= Cardinality(Others)
  BY <1>1, <1>2, FS_Surjection
<1>4. HeldAt("check") \cup HeldAt("callback") \in SUBSET Theirs
  BY DEF HeldAt
<1>5. Cardinality(HeldAt("check") \cup HeldAt("callback"))
        <= Cardinality(Theirs)
  BY <1>3, <1>4, FS_Subset
<1> QED
  BY <1>1, <1>3, <1>4, <1>5, ThreadCountPositive, FS_CardinalityType, FS_Subset

\* A retrieval takes the oldest job.
LEMMA RetrieveMaps ==
  ASSUME RefinementInv, NEW w \in Workers, RetrieveJob(w)
  PROVE  Abstract!Next
<1>1. /\ TypeOK /\ LocalsOK /\ RunningOK /\ PlacesOK /\ ExitOK
  BY DEF RefinementInv, IInv, PlacesInv
<1>2. /\ jobs # <<>> /\ jobs' = Tail(jobs) /\ destructor' = destructor
      /\ pc[w] = "test" /\ pc' = [pc EXCEPT ![w] = "check"]
      /\ callback' = [callback EXCEPT ![w] = Head(jobs)]
      /\ destructor = "none"
  BY <1>1 DEF RetrieveJob, QueuePopped, Goto, RunningOK
<1>3. callback[w] = NoJob
  BY <1>1, <1>2 DEF LocalsOK
<1>4. Head(jobs) # NoJob
  BY <1>1, <1>2, PoolAssumption, HeadTailProperties DEF TypeOK
<1>5. HeldAt("check")' = HeldAt("check") \cup {Head(jobs)}
  <2>1. {v \in Workers : pc'[v] = "check"}
          = {v \in Workers : pc[v] = "check"} \cup {w}
    BY <1>1, <1>2 DEF TypeOK
  <2>2. /\ callback'[w] = Head(jobs)
        /\ \A v \in Workers : pc[v] = "check" => callback'[v] = callback[v]
    BY <1>1, <1>2 DEF TypeOK
  <2> QED
    BY <2>1, <2>2, <1>4 DEF HeldAt
<1>6. HeldAt("callback")' = HeldAt("callback")
  <2>1. {v \in Workers : pc'[v] = "callback"}
          = {v \in Workers : pc[v] = "callback"}
    BY <1>1, <1>2 DEF TypeOK
  <2>2. \A v \in Workers : pc[v] = "callback" => callback'[v] = callback[v]
    BY <1>1, <1>2 DEF TypeOK
  <2> QED
    BY <2>1, <2>2 DEF HeldAt
<1>7. Abstract!Take
  BY <1>1, <1>2, <1>3, <1>5, <1>6, RoomForOne, SameCount
  DEF Abstract!Take, PoolStatus
<1> QED
  BY <1>7 DEF Abstract!Next

\* A job starts that was taken, while the pool is open.
LEMMA StartMaps ==
  ASSUME RefinementInv, NEW w \in Workers, StartJob(w)
  PROVE  Abstract!Next
<1>1. TypeOK /\ PlacesOK /\ RunningOK
  BY DEF RefinementInv, IInv, PlacesInv
<1>2. /\ Goto(w, "check", "callback") /\ running /\ callback' = callback
      /\ callback[w] # NoJob /\ callback[w] \notin NullJobs
      /\ jobs' = jobs /\ destructor' = destructor
  BY DEF StartJob, poolVars
<1>3. /\ HeldAt("check")' = HeldAt("check") \ {callback[w]}
      /\ HeldAt("callback")' = HeldAt("callback") \cup {callback[w]}
  BY <1>1, <1>2, HeldLeaves, HeldArrives
<1>4. callback[w] \in HeldAt("check")
  BY <1>2 DEF HeldAt, Goto
<1>5. Abstract!Start(callback[w])
  BY <1>1, <1>2, <1>3, <1>4 DEF Abstract!Start, PoolStatus, RunningOK
<1> QED
  BY <1>4, <1>5 DEF Abstract!Next

\* A job is dropped that was taken, when it is null or the pool is closing.
LEMMA SkipMaps ==
  ASSUME RefinementInv, NEW w \in Workers, SkipJob(w)
  PROVE  [Abstract!Next]_Abstract!vars
<1>1. TypeOK /\ PlacesOK /\ RunningOK
  BY DEF RefinementInv, IInv, PlacesInv
<1>2. /\ Goto(w, "check", "loop") /\ jobs' = jobs
      /\ destructor' = destructor
      /\ ~running \/ callback[w] \in NullJobs \cup {NoJob}
      /\ callback' = [callback EXCEPT ![w] = NoJob]
  BY DEF SkipJob, poolVars
<1>3. \A v \in Workers \ {w} : callback'[v] = callback[v]
  BY <1>1, <1>2 DEF TypeOK
<1>4. HeldAt("check")' = HeldAt("check") \ {callback[w]}
  BY <1>1, <1>2, <1>3, HeldLeaves
<1>5. HeldAt("callback")' = HeldAt("callback")
  <2>1. {v \in Workers : pc'[v] = "callback"}
          = {v \in Workers : pc[v] = "callback"}
    BY <1>1, <1>2 DEF TypeOK, Goto
  <2>2. \A v \in Workers : pc[v] = "callback" => callback'[v] = callback[v]
    BY <1>2, <1>3 DEF Goto
  <2> QED
    BY <2>1, <2>2 DEF HeldAt
<1>6. PoolStatus' = PoolStatus
  BY <1>2 DEF PoolStatus
<1>7. CASE callback[w] = NoJob
  <2>1. HeldAt("check")' = HeldAt("check")
    BY <1>4, <1>7 DEF HeldAt
  <2> QED
    BY <2>1, <1>2, <1>5, <1>6 DEF Abstract!vars
<1>8. CASE callback[w] # NoJob
  <2>1. callback[w] \in HeldAt("check")
    BY <1>2, <1>8 DEF HeldAt, Goto
  <2>2. callback[w] \in NullJobs \/ PoolStatus # "open"
    BY <1>1, <1>2, <1>8 DEF RunningOK, PoolStatus
  <2>3. Abstract!Drop(callback[w])
    BY <2>1, <2>2, <1>2, <1>4, <1>5, <1>6 DEF Abstract!Drop
  <2> QED
    BY <2>1, <2>3 DEF Abstract!Next
<1> QED
  BY <1>7, <1>8

\* A job finishes that was started.
LEMMA FinishMaps ==
  ASSUME RefinementInv, NEW w \in Workers, FinishJob(w)
  PROVE  Abstract!Next
<1>1. TypeOK /\ PlacesOK /\ LocalsOK
  BY DEF RefinementInv, IInv, PlacesInv
<1>2. /\ Goto(w, "callback", "loop") /\ jobs' = jobs
      /\ destructor' = destructor
      /\ callback' = [callback EXCEPT ![w] = NoJob]
  BY DEF FinishJob, poolVars
<1>3. \A v \in Workers \ {w} : callback'[v] = callback[v]
  BY <1>1, <1>2 DEF TypeOK
<1>4. HeldAt("callback")' = HeldAt("callback") \ {callback[w]}
  BY <1>1, <1>2, <1>3, HeldLeaves
<1>5. HeldAt("check")' = HeldAt("check")
  <2>1. {v \in Workers : pc'[v] = "check"}
          = {v \in Workers : pc[v] = "check"}
    BY <1>1, <1>2 DEF TypeOK, Goto
  <2>2. \A v \in Workers : pc[v] = "check" => callback'[v] = callback[v]
    BY <1>2, <1>3 DEF Goto
  <2> QED
    BY <2>1, <2>2 DEF HeldAt
<1>6. callback[w] \in HeldAt("callback")
  BY <1>1, <1>2 DEF HeldAt, Goto, LocalsOK
<1>7. Abstract!Finish(callback[w])
  BY <1>2, <1>4, <1>5, <1>6 DEF Abstract!Finish, PoolStatus
<1> QED
  BY <1>6, <1>7 DEF Abstract!Next

-----------------------------------------------------------------------------
(* The refinement.                                                         *)

\* Once the joins have returned no worker moves again.
LEMMA ExitStep ==
  ASSUME TypeOK, ExitOK, [Next]_vars
  PROVE  ExitOK'
<1>1. ASSUME NEW w \in Workers, Spawn(w) PROVE ExitOK'
  BY <1>1 DEF Spawn, Goto, ExitOK, TypeOK
<1>2. ASSUME NEW w \in Workers, SpinTest(w) PROVE ExitOK'
  BY <1>2 DEF SpinTest, Goto, ExitOK, TypeOK
<1>3. ASSUME NEW w \in Workers, LockAndReduce(w) PROVE ExitOK'
  BY <1>3 DEF LockAndReduce, Goto, ExitOK, TypeOK
<1>4. ASSUME NEW w \in Workers, TestFails(w) PROVE ExitOK'
  BY <1>4 DEF TestFails, Goto, ExitOK, TypeOK
<1>5. ASSUME NEW w \in Workers, Block(w) PROVE ExitOK'
  BY <1>5 DEF Block, Goto, ExitOK, TypeOK
<1>6. ASSUME NEW w \in Workers, Relock(w) PROVE ExitOK'
  BY <1>6 DEF Relock, Goto, ExitOK, TypeOK
<1>7. ASSUME NEW w \in Workers, RetrieveNothing(w) PROVE ExitOK'
  BY <1>7 DEF RetrieveNothing, Goto, ExitOK, TypeOK
<1>8. ASSUME NEW w \in Workers, RetrieveJob(w) PROVE ExitOK'
  BY <1>8 DEF RetrieveJob, Goto, ExitOK, TypeOK
<1>9. ASSUME NEW w \in Workers, StartJob(w) PROVE ExitOK'
  BY <1>9 DEF StartJob, Goto, ExitOK, TypeOK
<1>10. ASSUME NEW w \in Workers, SkipJob(w) PROVE ExitOK'
  BY <1>10 DEF SkipJob, Goto, ExitOK, TypeOK
<1>11. ASSUME NEW w \in Workers, FinishJob(w) PROVE ExitOK'
  BY <1>11 DEF FinishJob, Goto, ExitOK, TypeOK
<1>12. ASSUME NEW t \in Callers, NotifyOne(t) PROVE ExitOK'
  BY <1>12 DEF NotifyOne, ExitOK, workerVars
<1>13. ASSUME NEW t \in Callers, NotifyAll(t) PROVE ExitOK'
  BY <1>13 DEF NotifyAll, ExitOK, workerVars
<1>14. ASSUME NEW t \in Callers, WaitRetry(t) PROVE ExitOK'
  BY <1>14 DEF WaitRetry, ExitOK, workerVars
<1>15. ASSUME NEW t \in Callers, WaitTimeout(t) PROVE ExitOK'
  BY <1>15 DEF WaitTimeout, ExitOK, workerVars
<1>16. ASSUME NEW t \in Callers, EnqueueStash(t) PROVE ExitOK'
  BY <1>16 DEF EnqueueStash, LockedEnqueue, ExitOK, workerVars
<1>17. ASSUME NEW t \in Callers, Clear(t) PROVE ExitOK'
  BY <1>17 DEF Clear, ExitOK, workerVars
<1>18. ASSUME NEW t \in Callers, DequeueAll(t) PROVE ExitOK'
  BY <1>18 DEF DequeueAll, ExitOK, workerVars
<1>19. ASSUME NEW t \in Callers, NEW job \in Jobs, Enqueue(t, job)
     PROVE ExitOK'
  BY <1>19 DEF Enqueue, LockedEnqueue, ExitOK, workerVars
<1>20. ASSUME NEW t \in Callers, NEW batch \in Batches, EnqueueMany(t, batch)
     PROVE ExitOK'
  BY <1>20 DEF EnqueueMany, LockedEnqueue, ExitOK, workerVars
<1>21. ASSUME NEW t \in Callers, NEW op \in {"wait", "wait_for"}, Wait(t, op)
     PROVE ExitOK'
  BY <1>21 DEF Wait, ExitOK, workerVars
<1>22. CASE SpuriousWakeup
  BY <1>22 DEF SpuriousWakeup, ExitOK, workerVars
<1>23. CASE DestructorSignal
  BY <1>23 DEF DestructorSignal, ExitOK, workerVars
<1>24. CASE DestructorNotify
  BY <1>24 DEF DestructorNotify, ExitOK, workerVars
<1>25. CASE DestructorJoin
  BY <1>25 DEF DestructorJoin, ExitOK, workerVars
<1>26. CASE UNCHANGED vars
  BY <1>26 DEF vars, ExitOK, workerVars
<1> QED
  BY <1>1, <1>2, <1>3, <1>4, <1>5, <1>6, <1>7, <1>8, <1>9, <1>10,
     <1>11, <1>12, <1>13, <1>14, <1>15, <1>16, <1>17, <1>18, <1>19,
     <1>20, <1>21, <1>22, <1>23, <1>24, <1>25, <1>26
  DEF Next, WorkerStep, CallStep, Destroyed

\* Every reachable state has what the maps of the steps assume.
LEMMA RefinementInductive == Spec => []RefinementInv
<1>1. Init => RefinementInv
  BY InitInvariant, InitPlaces DEF RefinementInv, Init, ExitOK
<1>2. RefinementInv /\ [Next]_vars => RefinementInv'
  BY StepInvariant, PlacesStep, ExitStep DEF RefinementInv, IInv
<1> QED
  BY <1>1, <1>2, PTL DEF Spec

\* A pool under construction is an empty abstract pool.
LEMMA InitMaps == Init => Abstract!Init
<1> SUFFICES ASSUME Init PROVE Abstract!Init
  OBVIOUS
<1>1. HeldAt("check") = {} /\ HeldAt("callback") = {}
  BY DEF Init, HeldAt
<1> QED
  BY <1>1 DEF Init, Abstract!Init, PoolStatus

\* Every step of the pool is a step of the abstract pool, or does not show.
LEMMA StepMaps ==
  ASSUME RefinementInv, [Next]_vars
  PROVE  [Abstract!Next]_Abstract!vars
<1>0. TypeOK /\ LocalsOK /\ ExitOK
  BY DEF RefinementInv, IInv
<1>1. ASSUME NEW w \in Workers, Spawn(w) PROVE UNCHANGED Abstract!vars
  BY <1>1, <1>0, Invisible DEF Spawn, Goto, TypeOK, poolVars
<1>2. ASSUME NEW w \in Workers, SpinTest(w) PROVE UNCHANGED Abstract!vars
  BY <1>2, <1>0, Invisible DEF SpinTest, Goto, TypeOK, poolVars
<1>3. ASSUME NEW w \in Workers, LockAndReduce(w) PROVE UNCHANGED Abstract!vars
  BY <1>3, <1>0, Invisible DEF LockAndReduce, Goto, TypeOK, poolVars
<1>4. ASSUME NEW w \in Workers, TestFails(w) PROVE UNCHANGED Abstract!vars
  BY <1>4, <1>0, Invisible DEF TestFails, Goto, TypeOK, poolVars
<1>5. ASSUME NEW w \in Workers, Block(w) PROVE UNCHANGED Abstract!vars
  BY <1>5, <1>0, Invisible DEF Block, Goto, TypeOK, poolVars
<1>6. ASSUME NEW w \in Workers, Relock(w) PROVE UNCHANGED Abstract!vars
  BY <1>6, <1>0, Invisible DEF Relock, Goto, TypeOK, poolVars
<1>7. ASSUME NEW w \in Workers, RetrieveNothing(w)
     PROVE UNCHANGED Abstract!vars
  <2>1. /\ Goto(w, "test", "check") /\ callback[w] = NoJob
        /\ UNCHANGED <<jobs, callback, destructor>>
    BY <1>7, <1>0 DEF RetrieveNothing, Goto, LocalsOK, poolVars
  <2>2. HeldAt("check")' = HeldAt("check")
    BY <2>1, <1>0, HeldArrives
  <2>3. HeldAt("callback")' = HeldAt("callback")
    BY <2>1, <1>0, HeldUnchanged DEF Goto, TypeOK
  <2> QED
    BY <2>1, <2>2, <2>3 DEF Abstract!vars, PoolStatus
<1>8. ASSUME NEW w \in Workers, RetrieveJob(w)
     PROVE  [Abstract!Next]_Abstract!vars
  BY <1>8, RetrieveMaps
<1>9. ASSUME NEW w \in Workers, StartJob(w)
     PROVE  [Abstract!Next]_Abstract!vars
  BY <1>9, StartMaps
<1>10. ASSUME NEW w \in Workers, SkipJob(w)
     PROVE  [Abstract!Next]_Abstract!vars
  BY <1>10, SkipMaps
<1>11. ASSUME NEW w \in Workers, FinishJob(w)
     PROVE  [Abstract!Next]_Abstract!vars
  BY <1>11, FinishMaps
<1>12. ASSUME NEW t \in Callers, NotifyOne(t) PROVE UNCHANGED Abstract!vars
  BY <1>12, Invisible DEF NotifyOne, poolVars, workerVars
<1>13. ASSUME NEW t \in Callers, NotifyAll(t) PROVE UNCHANGED Abstract!vars
  BY <1>13, Invisible DEF NotifyAll, poolVars, workerVars
<1>14. ASSUME NEW t \in Callers, WaitRetry(t) PROVE UNCHANGED Abstract!vars
  BY <1>14, Invisible DEF WaitRetry, poolVars, workerVars
<1>15. ASSUME NEW t \in Callers, WaitTimeout(t) PROVE UNCHANGED Abstract!vars
  BY <1>15, Invisible DEF WaitTimeout, poolVars, workerVars
<1>16. ASSUME NEW t \in Callers, EnqueueStash(t)
     PROVE  [Abstract!Next]_Abstract!vars
  BY <1>16, <1>0, SubmitMaps DEF EnqueueStash, TypeOK
<1>17. ASSUME NEW t \in Callers, Clear(t) PROVE Abstract!Next
  BY <1>17, <1>0, WithdrawMaps DEF Clear, workerVars
<1>18. ASSUME NEW t \in Callers, DequeueAll(t) PROVE Abstract!Next
  BY <1>18, <1>0, WithdrawMaps DEF DequeueAll, workerVars
<1>19. ASSUME NEW t \in Callers, NEW job \in Jobs, Enqueue(t, job)
     PROVE  [Abstract!Next]_Abstract!vars
  <2>1. <<job>> \in Seq(Jobs)
    OBVIOUS
  <2> QED
    BY <2>1, <1>19, <1>0, SubmitMaps DEF Enqueue
<1>20. ASSUME NEW t \in Callers, NEW batch \in Batches, EnqueueMany(t, batch)
     PROVE  [Abstract!Next]_Abstract!vars
  BY <1>20, <1>0, BatchIsSeq, SubmitMaps DEF EnqueueMany
<1>21. ASSUME NEW t \in Callers, NEW op \in {"wait", "wait_for"}, Wait(t, op)
     PROVE  UNCHANGED Abstract!vars
  BY <1>21, Invisible DEF Wait, poolVars, workerVars
<1>22. CASE SpuriousWakeup
  BY <1>22, Invisible DEF SpuriousWakeup, poolVars, workerVars
<1>23. CASE DestructorSignal
  <2>1. /\ destructor = "none" /\ destructor' = "notify" /\ jobs' = jobs
        /\ UNCHANGED <<HeldAt("check"), HeldAt("callback")>>
    BY <1>23, HeldUnchanged DEF DestructorSignal, poolVars, workerVars
  <2>2. Abstract!Close
    BY <2>1 DEF Abstract!Close, PoolStatus
  <2> QED
    BY <2>2 DEF Abstract!Next
<1>24. CASE DestructorNotify
  <2>1. /\ destructor = "notify" /\ destructor' = "join" /\ jobs' = jobs
        /\ UNCHANGED <<HeldAt("check"), HeldAt("callback")>>
    BY <1>24, HeldUnchanged DEF DestructorNotify, poolVars, workerVars
  <2> QED
    BY <2>1 DEF Abstract!vars, PoolStatus
<1>25. CASE DestructorJoin
  <2>1. /\ destructor = "join" /\ destructor' = "done" /\ jobs' = jobs
        /\ \A w \in Workers : pc[w] = "exit"
        /\ UNCHANGED <<HeldAt("check"), HeldAt("callback")>>
    BY <1>25, HeldUnchanged DEF DestructorJoin, poolVars, workerVars
  <2>2. HeldAt("check") \cup HeldAt("callback") = {}
    BY <2>1 DEF HeldAt
  <2>3. Abstract!Closed
    BY <2>1, <2>2 DEF Abstract!Closed, PoolStatus
  <2> QED
    BY <2>3 DEF Abstract!Next
<1>26. CASE UNCHANGED vars
  BY <1>26, Invisible DEF vars, poolVars, workerVars
<1> QED
  BY <1>1, <1>2, <1>3, <1>4, <1>5, <1>6, <1>7, <1>8, <1>9, <1>10,
     <1>11, <1>12, <1>13, <1>14, <1>15, <1>16, <1>17, <1>18, <1>19,
     <1>20, <1>21, <1>22, <1>23, <1>24, <1>25, <1>26
  DEF Next, WorkerStep, CallStep, Destroyed

(* Jobs are taken in the order of their submission, at most ThreadCount    *)
(* are in progress at once, none passes the second test of _running in     *)
(* threadSpinner (threadpool.cxx:173) once ~Impl has made it false, and    *)
(* none is left running when ~Impl has returned, whatever the threads, the *)
(* calls and the schedule.  In which order the jobs taken by different     *)
(* workers are called, and whether a call begins before ~Impl does, is     *)
(* neither promised by JobPool nor by the code.                            *)
THEOREM PoolImplementsJobPool == Spec => ImplementsJobPool
  BY RefinementInductive, InitMaps, StepMaps, PTL
  DEF Spec, ImplementsJobPool, Abstract!Spec
=============================================================================
