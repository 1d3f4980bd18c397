----------------------- MODULE CallbackEventQueueProofs -----------------------
(***************************************************************************)
(* Theorems about CallbackEventQueue, for any threads, events, functions   *)
(* and limit of the queue: it implements a JobPool of one thread, and the  *)
(* queue inside it is an EventQueue.                                       *)
(*                                                                         *)
(* A job is taken when the runner has popped its event, started when its   *)
(* function was called.  The inductive invariant is CallInv: an event is   *)
(* queued once and never again after it was called (EventsOK), the runner  *)
(* holds none outside its handler, and once its run() has returned, which  *)
(* the owner waits for, it stays out (RunnerOK).  Each lemma shows of one  *)
(* step that it keeps CallInv and what the abstract pool sees of it.       *)
(***************************************************************************)
EXTENDS CallbackEventQueue, QueueLemmas

CallInv == ShapeOK /\ RunnerOK /\ EventsOK

\* What a step has to show.
Maps == CallInv' /\ [Abstract!Next]_Abstract!vars

-----------------------------------------------------------------------------
(* The mapping.                                                            *)

\* The abstract pool counts as the module FiniteSets does.
LEMMA SameCount == \A S : Abstract!Cardinality(S) = Cardinality(S)
  BY DEF Abstract!Cardinality, Cardinality

\* An event that does not exist is not among the events.
LEMMA NoEventOutside == NoEvent \notin Events
  BY QueueAssumption DEF Queue!EventQueueAssumption

\* A step that moves no event and calls nothing does not show.
LEMMA NothingCalled ==
  ASSUME CallInv, UNCHANGED <<events, accepted, event, invoked, pc>>,
         UNCHANGED QueueStatus,
         returned' = returned, owner' = "destroyed" => returned
  PROVE  Maps
<1>1. CallInv'
  BY DEF CallInv, ShapeOK, RunnerOK, EventsOK, Holding
<1>2. UNCHANGED Abstract!vars
  BY DEF Abstract!vars, Holding
<1> QED
  BY <1>1, <1>2 DEF Maps

\* The runner moves through its loop without an event in its hands.
LEMMA RunnerMoves ==
  ASSUME CallInv, NEW from, NEW to, Queue!Goto(Runner, from, to),
         from # "handle", from = "out" => ~returned, Constructed,
         UNCHANGED <<events, accepted, event, invoked, owner>>,
         returned' = (returned \/ pc'[Runner] = "out")
  PROVE  Maps
<1>1. /\ pc[Runner] = from /\ pc'[Runner] = to /\ Runner \in DOMAIN pc'
      /\ event[Runner] = NoEvent
  BY DEF Queue!Goto, CallInv, ShapeOK, RunnerOK
<1>2. ~returned
  BY <1>1 DEF CallInv, RunnerOK
<1>3. ShapeOK' /\ RunnerOK'
  BY <1>1, <1>2 DEF CallInv, ShapeOK, RunnerOK, Constructed
<1>4. EventsOK'
  BY DEF CallInv, EventsOK, Holding
<1>5. UNCHANGED QueueStatus
  BY DEF QueueStatus, Constructed
<1>6. UNCHANGED Abstract!vars
  BY <1>5 DEF Abstract!vars, Holding
<1> QED
  BY <1>3, <1>4, <1>6 DEF Maps, CallInv

-----------------------------------------------------------------------------
(* The steps that show.                                                    *)

\* The runner takes the oldest event.
LEMMA PopMaps ==
  ASSUME CallInv, Constructed, Queue!Pop(Runner),
         returned' = (returned \/ pc'[Runner] = "out"),
         UNCHANGED <<invoked, owner>>
  PROVE  Maps
<1>1. /\ pc[Runner] = "test" /\ pc'[Runner] = "handle"
      /\ Runner \in DOMAIN pc' /\ Runner \in DOMAIN event'
      /\ event[Runner] = NoEvent /\ event'[Runner] = Head(events)
      /\ events # <<>> /\ events' = Tail(events) /\ accepted' = accepted
  BY DEF Queue!Pop, Queue!Goto, Queue!QueuePopped, CallInv, ShapeOK, RunnerOK
<1>2. events \in Seq(Events) /\ IsInjective(events)
  BY DEF CallInv, ShapeOK, EventsOK
<1>3. /\ Head(events) \in Events /\ Tail(events) \in Seq(Events)
      /\ Head(events) \in Range(events)
      /\ IsInjective(events')
      /\ Range(events') = Range(events) \ {Head(events)}
  BY <1>1, <1>2, TailPlace, HeadTailProperties
<1>4. Holding = {} /\ Holding' = {Head(events)} /\ Head(events) \notin invoked
  BY <1>1, <1>3, NoEventOutside DEF Holding, CallInv, EventsOK
<1>5. ~returned /\ ~returned'
  BY <1>1 DEF CallInv, RunnerOK
<1>6. ShapeOK' /\ RunnerOK'
  BY <1>1, <1>3, <1>5 DEF CallInv, ShapeOK, RunnerOK, Constructed
<1>7. EventsOK'
  BY <1>1, <1>3, <1>4 DEF CallInv, EventsOK
<1>8. Abstract!Take
  <2>1. Cardinality((Holding \ invoked) \cup (Holding \cap invoked)) = 0
    BY <1>4, FS_EmptySet
  <2>2. QueueStatus' = QueueStatus /\ QueueStatus # "closed"
    BY DEF QueueStatus, Constructed
  <2> QED
    BY <1>1, <1>4, <2>1, <2>2, SameCount DEF Abstract!Take
<1> QED
  BY <1>6, <1>7, <1>8 DEF Maps, CallInv, Abstract!Next

\* The function of the event taken is called: the job starts.
LEMMA InvokeMaps == ASSUME CallInv, Invoke PROVE Maps
<1> DEFINE e == event[Runner]
<1>1. /\ pc[Runner] = "handle" /\ e \in Events \ invoked
      /\ FunctionOf[e] # NullFunction
      /\ invoked' = invoked \cup {e}
      /\ UNCHANGED <<events, accepted, event, pc, returned, owner>>
  BY DEF Invoke, HasFunction, InFunction, queueVars, programVars, CallInv,
         ShapeOK, Queue!Stop, Queue!queueVars, Queue!localVars
<1>2. Holding = {e} /\ Holding' = {e}
  BY <1>1, NoEventOutside DEF Holding
<1>3. ShapeOK' /\ RunnerOK'
  BY <1>1 DEF CallInv, ShapeOK, RunnerOK
<1>4. EventsOK'
  BY <1>1, <1>2 DEF CallInv, EventsOK
<1>5. QueueStatus = "open" /\ QueueStatus' = "open"
  BY <1>1 DEF QueueStatus, CallInv, RunnerOK
<1>6. Abstract!Start(e) /\ e \in Holding \ invoked
  BY <1>1, <1>2, <1>5 DEF Abstract!Start
<1> QED
  BY <1>3, <1>4, <1>6 DEF Maps, CallInv, Abstract!Next

\* The handler is left, by its end or by an exception: a job that was started
\* finishes, an empty function is dropped.
LEMMA LeaveMaps == ASSUME CallInv, Leave PROVE Maps
<1> DEFINE e == event[Runner]
<1>1. /\ pc[Runner] = "handle" /\ pc'[Runner] \in {"while", "out"}
      /\ Runner \in DOMAIN pc' /\ Runner \in DOMAIN event'
      /\ event'[Runner] = NoEvent
      /\ returned' = (returned \/ pc'[Runner] = "out")
      /\ HasFunction => InFunction
      /\ UNCHANGED <<events, accepted, invoked, owner, notifying>>
  BY DEF Leave, Queue!HandlerReturns, Queue!HandlerThrows, Queue!Goto,
         Queue!DropLocals, Queue!queueVars, CallInv, ShapeOK
<1>2. ~returned /\ owner # "destroyed"
  BY <1>1 DEF CallInv, RunnerOK
<1>3. Holding' = {}
  BY <1>1 DEF Holding
<1>4. ShapeOK' /\ RunnerOK'
  BY <1>1, <1>2 DEF CallInv, ShapeOK, RunnerOK
<1>5. EventsOK'
  BY <1>1, <1>3 DEF CallInv, EventsOK
<1>6. QueueStatus' = QueueStatus
  BY <1>1 DEF QueueStatus
<1>7. CASE e = NoEvent
  <2>1. UNCHANGED Abstract!vars
    BY <1>1, <1>3, <1>6, <1>7 DEF Abstract!vars, Holding
  <2> QED
    BY <2>1, <1>4, <1>5 DEF Maps, CallInv
<1>8. CASE e # NoEvent /\ e \in invoked
  <2>1. Abstract!Finish(e) /\ e \in Holding \cap invoked
    BY <1>1, <1>3, <1>6, <1>8 DEF Abstract!Finish, Holding
  <2> QED
    BY <2>1, <1>4, <1>5 DEF Maps, CallInv, Abstract!Next
<1>9. CASE e # NoEvent /\ e \notin invoked
  <2>1. e \in Events /\ FunctionOf[e] = NullFunction
    BY <1>1, <1>9 DEF HasFunction, InFunction, CallInv, ShapeOK
  <2>2. Abstract!Drop(e) /\ e \in Holding \ invoked
    BY <1>1, <1>3, <1>6, <1>9, <2>1 DEF Abstract!Drop, Holding
  <2> QED
    BY <2>2, <1>4, <1>5 DEF Maps, CallInv, Abstract!Next
<1> QED
  BY <1>7, <1>8, <1>9

\* An event that enqueue accepts is new, and submits its function.
LEMMA SubmitMaps ==
  ASSUME CallInv, Constructed, NEW t, NEW function, Submit(t, function),
         owner' \in {owner, "joining"}, UNCHANGED <<invoked, returned>>
  PROVE  Maps
<1>1. PICK e : e \in Fresh(function) /\ Queue!Enqueue(t, e)
  BY Zenon DEF Submit
<1>2. /\ e \in Events \ Range(accepted)
      /\ events' = Append(events, e) /\ accepted' = Append(accepted, e)
      /\ UNCHANGED <<event, pc>>
  BY <1>1 DEF Fresh, Queue!Enqueue, Queue!localVars
<1>3. /\ events \in Seq(Events) /\ accepted \in Seq(Events)
      /\ IsInjective(events) /\ e \notin Range(events)
  BY <1>2 DEF CallInv, ShapeOK, EventsOK
<1>4. /\ events' \in Seq(Events)
      /\ IsInjective(events')
      /\ Range(events') = Range(events) \cup {e}
      /\ Len(events') > Len(events)
      /\ SubSeq(events', 1, Len(events)) = events
  BY <1>2, <1>3, AppendPlace
<1>5. accepted' \in Seq(Events) /\ Range(accepted') = Range(accepted) \cup {e}
  BY <1>2, <1>3, AppendedRange
<1>6. Holding' = Holding /\ e \notin Holding \cup invoked
  BY <1>2 DEF Holding, CallInv, EventsOK
<1>7. ShapeOK' /\ RunnerOK'
  BY <1>2, <1>4, <1>5 DEF CallInv, ShapeOK, RunnerOK, Constructed
<1>8. EventsOK'
  BY <1>2, <1>4, <1>5, <1>6 DEF CallInv, EventsOK
<1>9. QueueStatus = "open" /\ QueueStatus' = "open"
  BY DEF QueueStatus, Constructed
<1>10. Abstract!Submit
  BY <1>4, <1>6, <1>9 DEF Abstract!Submit
<1> QED
  BY <1>7, <1>8, <1>10 DEF Maps, CallInv, Abstract!Next

\* The destructor begins with a stop.
LEMMA DestroyMaps == ASSUME CallInv, Destroy PROVE Maps
<1>1. /\ owner = "joining" /\ owner' = "destroyed" /\ returned
      /\ notifying' # {}
      /\ UNCHANGED <<events, accepted, event, invoked, pc, returned>>
  BY DEF Destroy, Queue!Stop, Queue!queueVars, Queue!localVars
<1>2. CallInv' /\ Holding' = Holding
  BY <1>1 DEF CallInv, ShapeOK, RunnerOK, EventsOK, Holding
<1>3. Abstract!Close
  BY <1>1, <1>2 DEF Abstract!Close, QueueStatus
<1> QED
  BY <1>2, <1>3 DEF Maps, Abstract!Next

\* The destructor ends with its last notification: nothing is in progress.
LEMMA NotifyMaps == ASSUME CallInv, NEW t, Notify(t) PROVE Maps
<1>1. UNCHANGED <<events, accepted, event, invoked, pc, returned, owner>>
  BY DEF Notify, Queue!Notify, Queue!queueVars, Queue!localVars, programVars
<1>2. CASE QueueStatus' = QueueStatus
  BY <1>1, <1>2, NothingCalled DEF CallInv, RunnerOK
<1>3. CASE QueueStatus' # QueueStatus
  <2>1. /\ owner = "destroyed" /\ notifying # {} /\ notifying' = {}
    BY <1>1, <1>3 DEF QueueStatus, Notify, Queue!Notify
  <2>2. Holding = {} /\ Holding' = Holding
    BY <1>1, <2>1 DEF Holding, CallInv, RunnerOK
  <2>3. CallInv'
    BY <1>1, <2>2 DEF CallInv, ShapeOK, RunnerOK, EventsOK
  <2>4. Abstract!Closed
    BY <1>1, <2>1, <2>2 DEF Abstract!Closed, QueueStatus
  <2> QED
    BY <2>3, <2>4 DEF Maps, Abstract!Next
<1> QED
  BY <1>2, <1>3

\* Every step of the thread that runs the queue.
LEMMA RunMaps == ASSUME CallInv, RunQueue PROVE Maps
<1>1. /\ Constructed
      /\ returned' = (returned \/ pc'[Runner] = "out")
      /\ UNCHANGED <<invoked, owner>>
  BY DEF RunQueue
<1> USE DEF Queue!queueVars, Queue!localVars
<1>2. CASE Queue!RunEnter(Runner) /\ ~returned
  BY <1>1, <1>2, RunnerMoves DEF Queue!RunEnter
<1>3. CASE Queue!RunStart(Runner)
  BY <1>1, <1>3, RunnerMoves DEF Queue!RunStart
<1>4. CASE Queue!WhileTest(Runner)
  BY <1>1, <1>4, RunnerMoves DEF Queue!WhileTest
<1>5. CASE Queue!PredicateHolds(Runner)
  BY <1>1, <1>5, RunnerMoves DEF Queue!PredicateHolds
<1>6. CASE Queue!PredicateFails(Runner)
  BY <1>1, <1>6, RunnerMoves DEF Queue!PredicateFails
<1>7. CASE Queue!Block(Runner)
  BY <1>1, <1>7, RunnerMoves DEF Queue!Block
<1>8. CASE Queue!Break(Runner)
  BY <1>1, <1>8, RunnerMoves DEF Queue!Break
<1>9. CASE Queue!Pop(Runner)
  BY <1>1, <1>9, PopMaps
<1>10. CASE Queue!PopNull(Runner)
  BY <1>10 DEF Queue!PopNull
<1>11. CASE Queue!PopNothing(Runner)
  BY <1>1, <1>11, RunnerMoves DEF Queue!PopNothing
<1>12. CASE Queue!Lock(Runner)
  BY <1>1, <1>12, RunnerMoves DEF Queue!Lock
<1>13. CASE Queue!Relock(Runner)
  BY <1>1, <1>13, RunnerMoves DEF Queue!Relock
<1> QED
  BY <1>2, <1>3, <1>4, <1>5, <1>6, <1>7, <1>8, <1>9, <1>10, <1>11, <1>12, <1>13
  DEF RunQueue, Queue!RunStep

-----------------------------------------------------------------------------
(* The refinement.                                                         *)

\* Every step keeps CallInv and is a step of the abstract pool, or does not
\* show to it.
LEMMA StepMaps == ASSUME CallInv, [Next]_vars PROVE Maps
<1>1. CASE Construct
  <2>1. /\ UNCHANGED <<events, accepted, event, invoked, pc, returned>>
        /\ UNCHANGED QueueStatus /\ owner' = "using"
    BY <1>1 DEF Construct, Queue!SetCallbackForType, Queue!queueVars,
                Queue!localVars, QueueStatus
  <2> QED
    BY <2>1, NothingCalled
<1>2. CASE RunQueue
  BY <1>2, RunMaps
<1>3. CASE Invoke
  BY <1>3, InvokeMaps
<1>4. CASE Leave
  BY <1>4, LeaveMaps
<1>5. ASSUME NEW t, NEW function, Enqueue(t, function) PROVE Maps
  BY <1>5, SubmitMaps DEF Enqueue, MayCall, programVars
<1>6. ASSUME NEW t, Stop(t) PROVE Maps
  <2>1. /\ UNCHANGED <<events, accepted, event, invoked, pc, returned>>
        /\ UNCHANGED QueueStatus /\ owner' # "destroyed"
    BY <1>6 DEF Stop, MayCall, Constructed, Queue!Stop, Queue!queueVars,
                Queue!localVars, QueueStatus, programVars
  <2> QED
    BY <2>1, NothingCalled
<1>7. ASSUME NEW t, Notify(t) PROVE Maps
  BY <1>7, NotifyMaps
<1>8. CASE SpuriousWakeup
  <2>1. /\ UNCHANGED <<events, accepted, event, invoked, pc, returned, owner>>
        /\ UNCHANGED QueueStatus
    BY <1>8 DEF SpuriousWakeup, Queue!SpuriousWakeup, Queue!queueVars,
                Queue!localVars, QueueStatus, programVars
  <2> QED
    BY <2>1, NothingCalled DEF CallInv, RunnerOK
<1>9. CASE ScheduleStop
  BY <1>9, SubmitMaps DEF ScheduleStop, Constructed
<1>10. CASE Destroy
  BY <1>10, DestroyMaps
<1>11. CASE UNCHANGED vars
  <2>1. /\ UNCHANGED <<events, accepted, event, invoked, pc, returned, owner>>
        /\ UNCHANGED QueueStatus
    BY <1>11 DEF vars, queueVars, programVars, QueueStatus
  <2> QED
    BY <2>1, NothingCalled DEF CallInv, RunnerOK
<1> QED
  BY <1>1, <1>2, <1>3, <1>4, <1>5, <1>6, <1>7, <1>8, <1>9, <1>10, <1>11
  DEF Next, Destroyed

\* A queue that is being constructed is an empty pool.
LEMMA InitMaps == Init => CallInv /\ Abstract!Init
<1> SUFFICES ASSUME Init PROVE CallInv /\ Abstract!Init
  OBVIOUS
<1>1. /\ events = <<>> /\ accepted = <<>> /\ invoked = {}
      /\ returned = FALSE /\ owner = "constructing"
      /\ Runner \in DOMAIN pc /\ pc[Runner] = "out"
      /\ Runner \in DOMAIN event /\ event[Runner] = NoEvent
  BY DEF Init, Queue!Init
<1>2. IsInjective(events) /\ Range(events) = {} /\ events \in Seq(Events)
  BY <1>1, EmptyPlace
<1>3. Holding = {}
  BY <1>1 DEF Holding
<1>4. CallInv
  BY <1>1, <1>2, <1>3 DEF CallInv, ShapeOK, RunnerOK, EventsOK
<1>5. Abstract!Init
  BY <1>1, <1>3 DEF Abstract!Init, QueueStatus
<1> QED
  BY <1>4, <1>5

(* Functions are taken, and so called, one at a time, in the order in      *)
(* which enqueue and the wrapped lambdas accepted them, each at most once, *)
(* an empty one not at all, and none once the destructor has begun.        *)
THEOREM QueueImplementsJobPool == Init /\ [][Next]_vars => ImplementsJobPool
<1>1. CallInv /\ [Next]_vars => CallInv' /\ [Abstract!Next]_Abstract!vars
  BY StepMaps DEF Maps
<1> QED
  BY InitMaps, <1>1, PTL DEF ImplementsJobPool, Abstract!Spec

-----------------------------------------------------------------------------
(* The queue inside.                                                       *)

\* Every step of the composition is a step of the event queue or does not
\* show to it.
LEMMA StepIsQueueStep ==
  ASSUME [Next]_vars PROVE [Queue!Next]_Queue!vars
<1> USE DEF Queue!Next, Queue!CallStep
<1>1. CASE Construct
  BY <1>1 DEF Construct
<1>2. CASE RunQueue
  BY <1>2 DEF RunQueue
<1>3. CASE Invoke
  BY <1>3 DEF Invoke, queueVars, Queue!vars, Queue!queueVars, Queue!localVars
<1>4. CASE Leave
  BY <1>4 DEF Leave
<1>5. ASSUME NEW t \in {Owner, Runner} \cup Producers, NEW function,
             Submit(t, function)
      PROVE  Queue!Next
  <2>1. PICK e \in Events : Queue!Enqueue(t, e)
    BY <1>5, Zenon DEF Submit, Fresh
  <2> QED
    BY <2>1
<1>6. ASSUME NEW t \in {Owner, Runner} \cup Producers,
             Queue!Stop(t) \/ Queue!Notify(t)
      PROVE  Queue!Next
  BY <1>6
<1>7. CASE SpuriousWakeup
  BY <1>7 DEF SpuriousWakeup
<1>8. CASE UNCHANGED vars
  BY <1>8 DEF vars, queueVars, Queue!vars, Queue!queueVars, Queue!localVars
<1> QED
  BY <1>1, <1>2, <1>3, <1>4, <1>5, <1>6, <1>7, <1>8
  DEF Next, Enqueue, Stop, Notify, ScheduleStop, Destroy, Destroyed

(* The queue inside a CallbackEventQueue is an EventQueue whose only       *)
(* handler is the one its constructor sets: what is proved of EventQueue   *)
(* holds of it.                                                            *)
THEOREM QueueInside == Init /\ [][Next]_vars => Queue!Spec
<1>1. Init => Queue!Init
  BY DEF Init
<1> QED
  BY <1>1, StepIsQueueStep, PTL DEF Queue!Spec
=============================================================================
