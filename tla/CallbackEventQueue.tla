------------------------- MODULE CallbackEventQueue -------------------------
(***************************************************************************)
(* ccol::event::CallbackEventQueue: an EventQueue whose events carry the   *)
(* function to call, and whose only handler calls it.  A function given to *)
(* enqueue, or to a lambda returned by wrap, becomes a new event at every  *)
(* call.                                                                   *)
(*                                                                         *)
(* The program around it follows the documented protocol (event/           *)
(* EXAMPLES.md: "Stop must be called from another thread or scheduled as   *)
(* an event"): one thread calls run() once, others submit and stop, and    *)
(* the owner schedules a function that calls stop, joins the thread that   *)
(* runs and the threads that call, and destroys the queue.                 *)
(***************************************************************************)
EXTENDS Naturals, Sequences, FiniteSets, Functions

CONSTANTS
  Owner, Runner, Producers,   \* the threads of the program
  Events,                     \* the CallbackEvent objects that may be created
  FunctionOf,                 \* the callable each of them holds
  NullFunction,               \* an empty std::function
  StopFunction,               \* a callable that calls stop on its queue
  MaxQueueSize, SpuriousWakeups, Unlocked, NoEvent

VARIABLES
  \* _eventQueue:
  running, stateMutex, events, callbacks, stateCv, pc, event, callback,
  notifying, accepted, taken, stopped,
  \* The functions called, and the progress of the program's protocol:
  invoked,       \* events whose function was called
  returned,      \* the runner's call of run() has returned
  owner          \* "using", then "joining", then "destroyed"

queueVars == <<running, stateMutex, events, callbacks, stateCv, pc, event,
               callback, notifying, accepted, taken, stopped>>
programVars == <<returned, owner>>
vars == <<queueVars, invoked, programVars>>

Queue == INSTANCE EventQueue WITH
  Threads       <- {Owner, Runner} \cup Producers,
  Runners       <- {Runner},
  NullEvents    <- {},
  Types         <- {"CallbackEvent"},
  TypeOf        <- [e \in Events |-> "CallbackEvent"],
  Handlers      <- {"callback"},
  NoHandler     <- "nullptr",
  ThreadCalls   <- {"setCallbackForType", "enqueue", "stop"},
  HandlerCalls  <- {"enqueue", "stop"},
  HandlersThrow <- TRUE

\* What EventQueue asks of its constants; the owner waits for the others.
ASSUME QueueAssumption ==
  /\ Queue!EventQueueAssumption
  /\ Owner # Runner

Init ==
  /\ Queue!Init
  /\ invoked = {}
  /\ returned = FALSE
  /\ owner = "constructing"

\* Both constructors register the one handler.
Construct ==
  /\ owner = "constructing"
  /\ Queue!SetCallbackForType(Owner, "CallbackEvent", "callback")
  /\ owner' = "using"
  /\ UNCHANGED <<invoked, returned>>

Constructed == owner \in {"using", "joining"}

-----------------------------------------------------------------------------
(* The thread that runs the queue.                                         *)

RunQueue ==
  /\ Constructed
  /\ \/ Queue!RunEnter(Runner) /\ ~returned
     \/ Queue!RunStep(Runner)
     \/ Queue!Lock(Runner)
     \/ Queue!Relock(Runner)
  /\ returned' = (returned \/ pc'[Runner] = "out")
  /\ UNCHANGED <<invoked, owner>>

\* if (_callback!=nullptr); the fault calls without looking.
CallRegardless == event[Runner] # NoEvent
HasFunction ==
  event[Runner] # NoEvent /\ FunctionOf[event[Runner]] # NullFunction
InFunction == pc[Runner] = "handle" /\ event[Runner] \in invoked

\* callback, CallbackEvent::invoke: call the function, if there is one.  What
\* a stop function does is call stop.
Invoke ==
  /\ pc[Runner] = "handle"
  /\ callback[Runner] = "callback"
  /\ HasFunction /\ ~InFunction
  /\ invoked' = invoked \cup {event[Runner]}
  /\ IF FunctionOf[event[Runner]] = StopFunction
     THEN Queue!Stop(Runner)
     ELSE UNCHANGED queueVars
  /\ UNCHANGED programVars

\* The handler is done when the function has returned, or thrown; the program
\* catches the exception outside run().
Leave ==
  /\ \/ Queue!HandlerReturns(Runner) /\ (HasFunction => InFunction)
     \/ Queue!HandlerThrows(Runner) /\ InFunction
  /\ returned' = (returned \/ pc'[Runner] = "out")
  /\ UNCHANGED <<invoked, owner>>

-----------------------------------------------------------------------------
(* Calls.                                                                  *)

MayCall(t) ==
  /\ Constructed
  /\ t = Runner => InFunction
  /\ t = Owner => owner = "using"

Fresh(function) ==
  {e \in Events \ Range(accepted) : FunctionOf[e] = function}

\* enqueue(function), and a call of what wrap(function) returned: a new event;
\* false, and nothing else, when the queue is full.
Submit(t, function) ==
  /\ Fresh(function) # {}
  /\ Queue!Enqueue(t, CHOOSE e \in Fresh(function) : TRUE)

Enqueue(t, function) ==
  /\ MayCall(t)
  /\ Submit(t, function)
  /\ UNCHANGED <<invoked, programVars>>

Stop(t) ==
  /\ MayCall(t)
  /\ t # Runner
  /\ Queue!Stop(t)
  /\ UNCHANGED <<invoked, programVars>>

Notify(t) ==
  /\ Queue!Notify(t)
  /\ UNCHANGED <<invoked, programVars>>

SpuriousWakeup ==
  /\ Queue!SpuriousWakeup
  /\ UNCHANGED <<invoked, programVars>>

\* Fault: stop is called at once instead of being scheduled.
StopDirectly ==
  /\ owner = "using"
  /\ Queue!Stop(Owner)
  /\ owner' = "joining"
  /\ UNCHANGED <<invoked, returned>>

\* The owner schedules the last function; when it is refused it tries again.
ScheduleStop ==
  /\ owner = "using"
  /\ Submit(Owner, StopFunction)
  /\ owner' = "joining"
  /\ UNCHANGED <<invoked, returned>>

\* ~CallbackEventQueue, after the join of every thread that uses the queue: it
\* calls stop, and the destructor of its member calls it again.
Destroy ==
  /\ owner = "joining"
  /\ returned
  /\ notifying = {}
  /\ Queue!Stop(Owner)
  /\ owner' = "destroyed"
  /\ UNCHANGED <<invoked, returned>>

Destroyed == owner = "destroyed" /\ notifying = {} /\ UNCHANGED vars

-----------------------------------------------------------------------------
Next ==
  \/ Construct
  \/ RunQueue
  \/ Invoke
  \/ Leave
  \/ \E t \in {Owner, Runner} \cup Producers :
       \/ \E function \in Range(FunctionOf) : Enqueue(t, function)
       \/ Stop(t)
       \/ Notify(t)
  \/ SpuriousWakeup
  \/ ScheduleStop
  \/ Destroy
  \/ Destroyed

(* The thread that runs the queue goes on when it can (WF) and takes a     *)
(* mutex that keeps becoming free (SF); a function returns, whatever it    *)
(* submits (SF); the owner, once it waits for the others, destroys the     *)
(* queue.  The program calls run() (RunQueue); nobody is obliged to submit *)
(* or to stop.                                                             *)
Fairness ==
  /\ WF_vars(Construct)
  /\ SF_vars(RunQueue)
  /\ SF_vars(Invoke)
  /\ SF_vars(Leave)
  /\ \A t \in {Owner, Runner} \cup Producers : WF_vars(Notify(t))
  /\ SF_vars(Destroy)

FairSpec == Init /\ [][Next]_vars /\ Fairness

-----------------------------------------------------------------------------
(* Properties.                                                             *)

Holding == IF event[Runner] = NoEvent THEN {} ELSE {event[Runner]}

\* How far the destruction is, as a user of the queue sees it.
QueueStatus == IF owner # "destroyed" THEN "open"
               ELSE IF notifying # {} THEN "closing"
               ELSE "closed"

Abstract == INSTANCE JobPool WITH
  NullJobs <- {e \in Events : FunctionOf[e] = NullFunction},
  Capacity <- 1,
  queue    <- events,
  taken    <- Holding \ invoked,
  started  <- Holding \cap invoked,
  status   <- QueueStatus

(* A callback queue is a job pool of one thread: functions are taken in    *)
(* the order enqueue and the wrapped lambdas accepted them and, being one  *)
(* at a time, called in that order, each once, an empty one not at all,    *)
(* and none after the destructor.                                          *)
ImplementsJobPool == Abstract!Spec

(* What this rests on (see CallbackEventQueueProofs).                      *)

\* The shape of the state the pool is seen in.
ShapeOK ==
  /\ events \in Seq(Events)
  /\ accepted \in Seq(Events)
  /\ Runner \in DOMAIN pc
  /\ Runner \in DOMAIN event
  /\ event[Runner] \in Events \cup {NoEvent}

\* The runner holds an event only while it handles it; once its run() has
\* returned it stays out, and the owner destroys the queue after that.
RunnerOK ==
  /\ pc[Runner] # "handle" => event[Runner] = NoEvent
  /\ returned => pc[Runner] = "out"
  /\ owner = "destroyed" => returned

\* An event accepted is queued, in the runner's hands, called or gone; it is
\* queued once, and not after it was called.
EventsOK ==
  /\ IsInjective(events)
  /\ Range(events) \cap (Holding \cup invoked) = {}
  /\ Range(events) \cup Holding \cup invoked \subseteq Range(accepted)
  /\ \A e \in invoked : FunctionOf[e] # NullFunction

(* event/EXAMPLES.md: "Stop must be called from another thread or          *)
(* scheduled as an event before calling run()".  A stop that was scheduled *)
(* ends run(), whenever run() is called and whatever other threads do: it  *)
(* cannot be overwritten as a direct call of stop can (queue_stop_lost).   *)
ScheduledStopReturns ==
  (\E e \in Range(events) : FunctionOf[e] = StopFunction) /\ ~returned
    ~> returned

(* A full queue has room again, unless run() has returned and nobody is    *)
(* left to take anything: an owner or a producer that is refused may try   *)
(* again while run() has not returned (enqueue: "false when queue is       *)
(* full").                                                                 *)
FullQueueDrains == Queue!Full ~> ~Queue!Full \/ returned

(* The documented protocol comes to its end: the owner whose scheduled     *)
(* stop was accepted gets to destroy the queue.                            *)
OwnerDestroys == owner = "joining" ~> owner = "destroyed"

(* A function accepted while the queue runs is called, unless it is empty, *)
(* or the queue is stopped before.                                         *)
FunctionIsCalled ==
  \A e \in Events :
    e \in Range(events) /\ running /\ FunctionOf[e] # NullFunction
      ~> e \in invoked \/ ~running \/ returned

(* A stop that finds the thread in its loop makes run() return.            *)
LoopStops == Queue!LoopStops
=============================================================================
