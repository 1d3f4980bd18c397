------------------------------ MODULE EventQueue ------------------------------
(***************************************************************************)
(* ccol::event::EventQueue: a bounded queue of events, a table of handlers *)
(* by event type, and run(), the loop that takes events and calls their    *)
(* handlers on the thread that called it.                                  *)
(*                                                                         *)
(* enqueue, setCallbackForType, setCallbacks and stop change the state in  *)
(* one critical section each and are one action, followed by the           *)
(* notification sent after the mutex is released.  run() reads and writes  *)
(* _running without the mutex at its start and at the head of its loop,    *)
(* and reads it twice in one critical section, so run() is split at each   *)
(* of these accesses.                                                      *)
(***************************************************************************)
EXTENDS Naturals, Sequences, FiniteSets, Functions

CONSTANTS
  Threads,            \* threads of the program
  Runners,            \* those of them that call run()
  Events,             \* the events submitted, each once
  NullEvents,         \* those of them that are empty shared pointers
  Types,              \* dynamic types of the events
  TypeOf,             \* typeid(*event)
  Handlers,           \* the callables registered as handlers
  MaxQueueSize,       \* constructor argument "maxQueueSize", 0 for no limit
  ThreadCalls,        \* operations threads use outside run()
  HandlerCalls,       \* operations handlers use on their own queue
  HandlersThrow,      \* whether a handler may leave by an exception
  SpuriousWakeups,    \* whether a wait may wake without a notification
  Unlocked, NoEvent, NoHandler

Operations == {"enqueue", "setCallbackForType", "setCallbacks", "stop"}

ASSUME EventQueueAssumption ==
  /\ Runners \subseteq Threads
  /\ NullEvents \subseteq Events
  /\ TypeOf \in [Events -> Types]
  /\ MaxQueueSize \in Nat
  /\ ThreadCalls \subseteq Operations
  /\ HandlerCalls \subseteq Operations
  /\ HandlersThrow \in BOOLEAN
  /\ SpuriousWakeups \in BOOLEAN
  /\ Unlocked \notin Threads
  /\ NoEvent \notin Events
  /\ NoHandler \notin Handlers

VARIABLES
  running,       \* _running
  stateMutex,    \* owner of _stateMutex, or Unlocked
  events,        \* _events
  callbacks,     \* _callbacks; NoHandler for no entry or an empty function
  stateCv,       \* threads blocked on _stateCv
  pc,            \* where each thread is in run(); "out" when it is not in it
  event,         \* the loop's local event
  callback,      \* the loop's local callback
  notifying,     \* threads between a critical section and its notify_all
  \* History:
  accepted,      \* events for which enqueue returned true, in order
  taken,         \* events removed from the queue by run(), in order
  stopped        \* threads inside run() since stop() was called

queueVars   == <<events, accepted, taken>>
localVars   == <<event, callback>>
vars == <<running, stateMutex, queueVars, callbacks, stateCv, pc, localVars,
          notifying, stopped>>

Init ==
  /\ running = FALSE
  /\ stateMutex = Unlocked
  /\ events = <<>>
  /\ callbacks = [type \in Types |-> NoHandler]
  /\ stateCv = {}
  /\ pc = [t \in Threads |-> "out"]
  /\ event = [t \in Threads |-> NoEvent]
  /\ callback = [t \in Threads |-> NoHandler]
  /\ notifying = {}
  /\ accepted = <<>>
  /\ taken = <<>>
  /\ stopped = {}

-----------------------------------------------------------------------------
(* run().                                                                  *)

Goto(t, from, to) == /\ pc[t] = from
                     /\ pc' = [pc EXCEPT ![t] = to]

\* if (_running) return, read without the mutex (the return is a stutter)
RunEnter(t) ==
  /\ t \in Runners
  /\ t \notin notifying
  /\ Goto(t, "out", "starting")
  /\ ~running
  /\ UNCHANGED <<running, stateMutex, queueVars, callbacks, stateCv, localVars,
                 notifying, stopped>>

\* _running = true, written without the mutex
RunStart(t) ==
  /\ Goto(t, "starting", "while")
  /\ running' = TRUE
  /\ UNCHANGED <<stateMutex, queueVars, callbacks, stateCv, localVars,
                 notifying, stopped>>

\* while (_running), read without the mutex
WhileTest(t) ==
  /\ Goto(t, "while", IF running THEN "lock" ELSE "out")
  /\ stopped' = IF running THEN stopped ELSE stopped \ {t}
  /\ UNCHANGED <<running, stateMutex, queueVars, callbacks, stateCv, localVars,
                 notifying>>

Lock(t) ==
  /\ Goto(t, "lock", "predicate")
  /\ stateMutex = Unlocked
  /\ stateMutex' = t
  /\ UNCHANGED <<running, queueVars, callbacks, stateCv, localVars, notifying,
                 stopped>>

\* The wait's predicate holds: go on, still holding the mutex ...
PredicateHolds(t) ==
  /\ Goto(t, "predicate", "test")
  /\ events # <<>> \/ ~running
  /\ UNCHANGED <<running, stateMutex, queueVars, callbacks, stateCv, localVars,
                 notifying, stopped>>

\* Fault: a wait without its predicate blocks whatever the state is.
BlockRegardless(t) ==
  /\ Goto(t, "predicate", "block")
  /\ UNCHANGED <<running, stateMutex, queueVars, callbacks, stateCv, localVars,
                 notifying, stopped>>

\* ... or fails: go on to block.
PredicateFails(t) ==
  /\ Goto(t, "predicate", "block")
  /\ events = <<>> /\ running
  /\ UNCHANGED <<running, stateMutex, queueVars, callbacks, stateCv, localVars,
                 notifying, stopped>>

\* condition_variable::wait: release the mutex and block in one step.
Block(t) ==
  /\ Goto(t, "block", "wait")
  /\ stateMutex' = Unlocked
  /\ stateCv' = stateCv \cup {t}
  /\ UNCHANGED <<running, queueVars, callbacks, localVars, notifying, stopped>>

\* A notified thread takes the mutex and evaluates the predicate again.
Relock(t) ==
  /\ Goto(t, "wait", "predicate")
  /\ t \notin stateCv
  /\ stateMutex = Unlocked
  /\ stateMutex' = t
  /\ UNCHANGED <<running, queueVars, callbacks, stateCv, localVars, notifying,
                 stopped>>

\* if (!_running) break
Break(t) ==
  /\ Goto(t, "test", "out")
  /\ ~running
  /\ stateMutex' = Unlocked
  /\ stopped' = stopped \ {t}
  /\ UNCHANGED <<running, queueVars, callbacks, stateCv, localVars, notifying>>

\* _events.pop(); the fault copies the front event and leaves it there.
QueueUnpopped(queue) == queue
QueuePopped(queue) == Tail(queue)

\* Take the front event and copy the handler registered for its type.
Pop(t) ==
  /\ Goto(t, "test", "handle")
  /\ running
  /\ events # <<>> /\ Head(events) \notin NullEvents
  /\ stateMutex' = Unlocked
  /\ event' = [event EXCEPT ![t] = Head(events)]
  /\ callback' = [callback EXCEPT ![t] = callbacks[TypeOf[Head(events)]]]
  /\ events' = QueuePopped(events)
  /\ taken' = Append(taken, Head(events))
  /\ UNCHANGED <<running, accepted, callbacks, stateCv, notifying, stopped>>

\* typeid(*event) of an empty pointer.  The standard leaves it undefined, as
\* * is an operator of shared_ptr: a build throws std::bad_typeid, as it does
\* for a plain pointer, or ends the process.  This is the throw: the event is
\* gone, and run() is left without resetting _running.
PopNull(t) ==
  /\ Goto(t, "test", "out")
  /\ running
  /\ events # <<>> /\ Head(events) \in NullEvents
  /\ stateMutex' = Unlocked
  /\ events' = QueuePopped(events)
  /\ taken' = Append(taken, Head(events))
  /\ stopped' = stopped \ {t}
  /\ UNCHANGED <<running, accepted, callbacks, stateCv, localVars, notifying>>

\* Nothing to take: another thread set _running after the predicate was read.
PopNothing(t) ==
  /\ Goto(t, "test", "handle")
  /\ running
  /\ events = <<>>
  /\ stateMutex' = Unlocked
  /\ UNCHANGED <<running, queueVars, callbacks, stateCv, localVars, notifying,
                 stopped>>

\* The locals of the loop body end with it; the fault declares them outside.
KeepLocals(t) == UNCHANGED localVars
DropLocals(t) ==
  /\ event' = [event EXCEPT ![t] = NoEvent]
  /\ callback' = [callback EXCEPT ![t] = NoHandler]

\* No handler, or the handler has returned: back to the head of the loop.
HandlerReturns(t) ==
  /\ Goto(t, "handle", "while")
  /\ t \notin notifying
  /\ DropLocals(t)
  /\ UNCHANGED <<running, stateMutex, queueVars, callbacks, stateCv, notifying,
                 stopped>>

\* An exception leaves run() through the handler; _running stays as it is.
HandlerThrows(t) ==
  /\ HandlersThrow
  /\ callback[t] # NoHandler
  /\ Goto(t, "handle", "out")
  /\ t \notin notifying
  /\ DropLocals(t)
  /\ stopped' = stopped \ {t}
  /\ UNCHANGED <<running, stateMutex, queueVars, callbacks, stateCv,
                 notifying>>

-----------------------------------------------------------------------------
(* Calls, from threads outside run() and from handlers.                    *)

MayCall(t, op) ==
  /\ \/ pc[t] = "out" /\ op \in ThreadCalls
     \/ pc[t] = "handle" /\ callback[t] # NoHandler /\ op \in HandlerCalls
  /\ t \notin notifying
  /\ stateMutex = Unlocked

\* The queue is at its limit; the fault admits one event more.
FullTooLate == MaxQueueSize > 0 /\ Len(events) > MaxQueueSize
Full == MaxQueueSize > 0 /\ Len(events) >= MaxQueueSize

\* Fault: enqueue without its notification.
EnqueueSilently(t, e) ==
  /\ MayCall(t, "enqueue")
  /\ e \notin Range(accepted)
  /\ ~Full
  /\ events' = Append(events, e)
  /\ accepted' = Append(accepted, e)
  /\ UNCHANGED <<running, stateMutex, taken, callbacks, stateCv, pc, localVars,
                 notifying, stopped>>

\* enqueue; when the queue is full it returns false and changes nothing.
Enqueue(t, e) ==
  /\ MayCall(t, "enqueue")
  /\ e \notin Range(accepted)
  /\ ~Full
  /\ events' = Append(events, e)
  /\ accepted' = Append(accepted, e)
  /\ notifying' = notifying \cup {t}
  /\ UNCHANGED <<running, stateMutex, taken, callbacks, stateCv, pc, localVars,
                 stopped>>

SetCallbackForType(t, type, handler) ==
  /\ MayCall(t, "setCallbackForType")
  /\ callbacks' = [callbacks EXCEPT ![type] = handler]
  /\ UNCHANGED <<running, stateMutex, queueVars, stateCv, pc, localVars,
                 notifying, stopped>>

\* setCallbacks: several types at once; other entries keep their handler.
SetCallbacks(t, entries) ==
  /\ MayCall(t, "setCallbacks")
  /\ callbacks' = [type \in Types |->
       IF type \in DOMAIN entries THEN entries[type] ELSE callbacks[type]]
  /\ UNCHANGED <<running, stateMutex, queueVars, stateCv, pc, localVars,
                 notifying, stopped>>

\* Fault: _running is written without the mutex.
StopUnlocked(t) ==
  /\ "stop" \in ThreadCalls
  /\ pc[t] = "out"
  /\ t \notin notifying
  /\ running' = FALSE
  /\ notifying' = notifying \cup {t}
  /\ stopped' = {r \in Threads : pc[r] # "out"}
  /\ UNCHANGED <<stateMutex, queueVars, callbacks, stateCv, pc, localVars>>

\* stop, which is also all ~EventQueue does.
Stop(t) ==
  /\ MayCall(t, "stop")
  /\ running' = FALSE
  /\ notifying' = notifying \cup {t}
  /\ stopped' = {r \in Threads : pc[r] # "out"}
  /\ UNCHANGED <<stateMutex, queueVars, callbacks, stateCv, pc, localVars>>

\* _stateCv.notify_all(), after the mutex is released
Notify(t) ==
  /\ t \in notifying
  /\ notifying' = notifying \ {t}
  /\ stateCv' = {}
  /\ UNCHANGED <<running, stateMutex, queueVars, callbacks, pc, localVars,
                 stopped>>

SpuriousWakeup ==
  /\ SpuriousWakeups
  /\ \E t \in stateCv : stateCv' = stateCv \ {t}
  /\ UNCHANGED <<running, stateMutex, queueVars, callbacks, pc, localVars,
                 notifying, stopped>>

IsRunning == running

-----------------------------------------------------------------------------
\* The steps run() takes on its own once it has started.
RunStep(t) ==
  \/ RunStart(t) \/ WhileTest(t)
  \/ PredicateHolds(t) \/ PredicateFails(t) \/ Block(t)
  \/ Break(t) \/ Pop(t) \/ PopNull(t) \/ PopNothing(t)

CallStep(t) ==
  \/ \E e \in Events : Enqueue(t, e)
  \/ \E type \in Types, handler \in Handlers \cup {NoHandler} :
       SetCallbackForType(t, type, handler)
  \/ \E types \in SUBSET Types :
       \E entries \in [types -> Handlers \cup {NoHandler}] :
         SetCallbacks(t, entries)
  \/ Stop(t)

Next ==
  \/ \E t \in Threads : \/ RunEnter(t)
                        \/ RunStep(t)
                        \/ Lock(t)
                        \/ Relock(t)
                        \/ HandlerReturns(t)
                        \/ HandlerThrows(t)
                        \/ CallStep(t)
                        \/ Notify(t)
  \/ SpuriousWakeup

Spec == Init /\ [][Next]_vars

(* A thread that can go on does (WF); one that keeps finding the mutex     *)
(* free takes it in the end (SF); a handler ends, whatever calls it makes  *)
(* (SF).  Nobody is obliged to call run(), enqueue or stop.                *)
Fairness ==
  \A t \in Threads : /\ WF_vars(RunStep(t))
                     /\ SF_vars(Lock(t) \/ Relock(t))
                     /\ SF_vars(HandlerReturns(t) \/ HandlerThrows(t))
                     /\ WF_vars(Notify(t))

FairSpec == Spec /\ Fairness

-----------------------------------------------------------------------------
(* Properties.                                                             *)

\* Threads in the loop of run(), past the assignment of _running.
Loop == {t \in Threads : pc[t] \notin {"out", "starting"}}

\* Type invariant; the loop's locals hold nothing outside an iteration.
TypeOK ==
  /\ running \in BOOLEAN
  /\ stateMutex \in Threads \cup {Unlocked}
  /\ events \in Seq(Events)
  /\ callbacks \in [Types -> Handlers \cup {NoHandler}]
  /\ stateCv \subseteq Threads
  /\ pc \in [Threads -> {"out", "starting", "while", "lock", "predicate",
                         "block", "wait", "test", "handle"}]
  /\ event \in [Threads -> Events \cup {NoEvent}]
  /\ callback \in [Threads -> Handlers \cup {NoHandler}]
  /\ \A t \in Threads :
       pc[t] # "handle" => event[t] = NoEvent /\ callback[t] = NoHandler
  /\ notifying \subseteq Threads
  /\ accepted \in Seq(Events)
  /\ taken \in Seq(Events)
  /\ stopped \subseteq Threads

\* The queue never exceeds its limit, however many threads enqueue at once
\* (enqueue: "false when queue is full").
QueueBounded == MaxQueueSize > 0 => Len(events) <= MaxQueueSize

(* Events leave the queue once each and in the order enqueue accepted      *)
(* them, across stops, restarts and several threads in run(): nothing      *)
(* accepted is lost, duplicated or overtaken.                              *)
DeliveryOrder == accepted = taken \o events

(* A thread asleep in run() while there is an event or a stop request has  *)
(* a notification coming: enqueue and stop change the state under the      *)
(* mutex, so neither falls between a predicate that failed and the block.  *)
NoLostWakeup ==
  \A t \in stateCv : events # <<>> \/ ~running => notifying # {}

-----------------------------------------------------------------------------
(* What NoLostWakeup rests on (the proofs need it; see EventQueueProofs).  *)

\* The mutex has the owner it says it has.
MutexOK ==
  \A t \in Threads :
    pc[t] \in {"predicate", "block", "test"} <=> stateMutex = t

\* What made the predicate fail still holds when the thread blocks.
BlockOK == \A t \in Threads : pc[t] = "block" => events = <<>> /\ running

-----------------------------------------------------------------------------
(* Liveness, and what the documentation says.                              *)

(* With one thread calling run(), a stop that finds it in its loop makes   *)
(* it return.                                                              *)
LoopStops ==
  \A t \in Threads : ~running /\ t \in Loop ~> pc[t] = "out"

(* eventqueue.hxx on stop: "The run method will return after this call."   *)
StopIsHonoured == \A t \in Threads : t \in stopped ~> t \notin stopped

(* eventqueue.hxx on isRunning: "true when the event queue is running."    *)
RunningMeansLoop == IsRunning => Loop # {}
=============================================================================
