--------------------------- MODULE EventQueueProofs ---------------------------
(***************************************************************************)
(* Theorems about EventQueue, for any number of threads in run(), any      *)
(* events, types and handlers, and any limit of the queue.                 *)
(*                                                                         *)
(* The inductive invariant is IInv.  NoLostWakeup is not inductive: a      *)
(* thread about to block must still find the queue empty and the loop      *)
(* running (BlockOK), which holds because enqueue and stop take the mutex  *)
(* that thread owns (MutexOK), although _running is also written without   *)
(* it, by run() itself.                                                    *)
(***************************************************************************)
EXTENDS EventQueue, QueueLemmas

IInv ==
  /\ TypeOK
  /\ MutexOK
  /\ BlockOK
  /\ NoLostWakeup
  /\ DeliveryOrder
  /\ QueueBounded

\* Appending to the second of two queues appends to both.
LEMMA AppendSecond ==
  ASSUME NEW s \in Seq(Events), NEW q \in Seq(Events), NEW x \in Events
  PROVE  Append(s \o q, x) = s \o Append(q, x)
<1>1. s \o q \in Seq(Events) /\ <<x>> \in Seq(Events)
  BY ConcatProperties
<1>2. Append(s \o q, x) = (s \o q) \o <<x>>
  BY <1>1, AppendIsConcat
<1>3. Append(q, x) = q \o <<x>>
  BY AppendIsConcat
<1> QED
  BY <1>1, <1>2, <1>3, ConcatAssociative

-----------------------------------------------------------------------------
(* The steps of the inductive invariant, one lemma per part.               *)

\* Every step keeps the types.
LEMMA TypeStep ==
  ASSUME TypeOK, [Next]_vars
  PROVE  TypeOK'
<1>1. ASSUME NEW t \in Threads, RunEnter(t) PROVE TypeOK'
  BY <1>1 DEF RunEnter, Goto, TypeOK, queueVars, localVars
<1>2. ASSUME NEW t \in Threads, RunStart(t) PROVE TypeOK'
  BY <1>2 DEF RunStart, Goto, TypeOK, queueVars, localVars
<1>3. ASSUME NEW t \in Threads, WhileTest(t) PROVE TypeOK'
  BY <1>3 DEF WhileTest, Goto, TypeOK, queueVars, localVars
<1>4. ASSUME NEW t \in Threads, Lock(t) PROVE TypeOK'
  BY <1>4 DEF Lock, Goto, TypeOK, queueVars, localVars
<1>5. ASSUME NEW t \in Threads, PredicateHolds(t) PROVE TypeOK'
  BY <1>5 DEF PredicateHolds, Goto, TypeOK, queueVars, localVars
<1>6. ASSUME NEW t \in Threads, PredicateFails(t) PROVE TypeOK'
  BY <1>6 DEF PredicateFails, Goto, TypeOK, queueVars, localVars
<1>7. ASSUME NEW t \in Threads, Block(t) PROVE TypeOK'
  BY <1>7 DEF Block, Goto, TypeOK, queueVars, localVars
<1>8. ASSUME NEW t \in Threads, Relock(t) PROVE TypeOK'
  BY <1>8 DEF Relock, Goto, TypeOK, queueVars, localVars
<1>9. ASSUME NEW t \in Threads, Break(t) PROVE TypeOK'
  BY <1>9 DEF Break, Goto, TypeOK, queueVars, localVars
<1>10. ASSUME NEW t \in Threads, Pop(t) PROVE TypeOK'
  <2>1. Head(events) \in Events /\ Tail(events) \in Seq(Events)
    BY <1>10 DEF Pop, TypeOK
  <2>2. callbacks[TypeOf[Head(events)]] \in Handlers \cup {NoHandler}
    BY <2>1, EventQueueAssumption DEF TypeOK
  <2>3. Append(taken, Head(events)) \in Seq(Events)
    BY <2>1 DEF TypeOK
  <2> QED
    BY <2>1, <2>2, <2>3, <1>10 DEF Pop, Goto, QueuePopped, TypeOK
<1>11. ASSUME NEW t \in Threads, PopNothing(t) PROVE TypeOK'
  BY <1>11 DEF PopNothing, Goto, TypeOK, queueVars, localVars
<1>12. ASSUME NEW t \in Threads, HandlerReturns(t) PROVE TypeOK'
  BY <1>12 DEF HandlerReturns, Goto, DropLocals, TypeOK, queueVars
<1>13. ASSUME NEW t \in Threads, HandlerThrows(t) PROVE TypeOK'
  BY <1>13 DEF HandlerThrows, Goto, DropLocals, TypeOK, queueVars
<1>14. ASSUME NEW t \in Threads, Stop(t) PROVE TypeOK'
  BY <1>14 DEF Stop, TypeOK, queueVars, localVars
<1>15. ASSUME NEW t \in Threads, Notify(t) PROVE TypeOK'
  BY <1>15 DEF Notify, TypeOK, queueVars, localVars
<1>16. ASSUME NEW t \in Threads, NEW e \in Events, Enqueue(t, e) PROVE TypeOK'
  BY <1>16 DEF Enqueue, TypeOK, localVars
<1>17. ASSUME NEW t \in Threads, NEW type \in Types,
            NEW handler \in Handlers \cup {NoHandler},
            SetCallbackForType(t, type, handler)
     PROVE TypeOK'
  BY <1>17 DEF SetCallbackForType, TypeOK, queueVars, localVars
<1>18. ASSUME NEW t \in Threads, NEW types \in SUBSET Types,
            NEW entries \in [types -> Handlers \cup {NoHandler}],
            SetCallbacks(t, entries)
     PROVE TypeOK'
  BY <1>18 DEF SetCallbacks, TypeOK, queueVars, localVars
<1>19. CASE SpuriousWakeup
  BY <1>19 DEF SpuriousWakeup, TypeOK, queueVars, localVars
<1>20. CASE UNCHANGED vars
  BY <1>20 DEF vars, TypeOK, queueVars, localVars
<1>21. ASSUME NEW t \in Threads, PopNull(t) PROVE TypeOK'
  <2>1. Head(events) \in Events /\ Tail(events) \in Seq(Events)
    BY <1>21 DEF PopNull, TypeOK
  <2>2. Append(taken, Head(events)) \in Seq(Events)
    BY <2>1 DEF TypeOK
  <2> QED
    BY <2>1, <2>2, <1>21 DEF PopNull, Goto, QueuePopped, TypeOK, localVars
<1> QED
  BY <1>1, <1>2, <1>3, <1>4, <1>5, <1>6, <1>7, <1>8, <1>9, <1>10, <1>11, <1>12,
     <1>13, <1>14, <1>15, <1>16, <1>17, <1>18, <1>19, <1>20,
     <1>21
  DEF Next, RunStep, CallStep

\* Every step keeps one owner of the mutex.
LEMMA MutexStep ==
  ASSUME TypeOK, MutexOK, [Next]_vars
  PROVE  MutexOK'
<1>1. ASSUME NEW t \in Threads, RunEnter(t) PROVE MutexOK'
  BY EventQueueAssumption, <1>1 DEF RunEnter, Goto, MutexOK, TypeOK
<1>2. ASSUME NEW t \in Threads, RunStart(t) PROVE MutexOK'
  BY EventQueueAssumption, <1>2 DEF RunStart, Goto, MutexOK, TypeOK
<1>3. ASSUME NEW t \in Threads, WhileTest(t) PROVE MutexOK'
  BY EventQueueAssumption, <1>3 DEF WhileTest, Goto, MutexOK, TypeOK
<1>4. ASSUME NEW t \in Threads, Lock(t) PROVE MutexOK'
  BY EventQueueAssumption, <1>4 DEF Lock, Goto, MutexOK, TypeOK
<1>5. ASSUME NEW t \in Threads, PredicateHolds(t) PROVE MutexOK'
  BY EventQueueAssumption, <1>5 DEF PredicateHolds, Goto, MutexOK, TypeOK
<1>6. ASSUME NEW t \in Threads, PredicateFails(t) PROVE MutexOK'
  BY EventQueueAssumption, <1>6 DEF PredicateFails, Goto, MutexOK, TypeOK
<1>7. ASSUME NEW t \in Threads, Block(t) PROVE MutexOK'
  BY EventQueueAssumption, <1>7 DEF Block, Goto, MutexOK, TypeOK
<1>8. ASSUME NEW t \in Threads, Relock(t) PROVE MutexOK'
  BY EventQueueAssumption, <1>8 DEF Relock, Goto, MutexOK, TypeOK
<1>9. ASSUME NEW t \in Threads, Break(t) PROVE MutexOK'
  BY EventQueueAssumption, <1>9 DEF Break, Goto, MutexOK, TypeOK
<1>10. ASSUME NEW t \in Threads, Pop(t) PROVE MutexOK'
  BY EventQueueAssumption, <1>10 DEF Pop, Goto, MutexOK, TypeOK
<1>11. ASSUME NEW t \in Threads, PopNothing(t) PROVE MutexOK'
  BY EventQueueAssumption, <1>11 DEF PopNothing, Goto, MutexOK, TypeOK
<1>12. ASSUME NEW t \in Threads, HandlerReturns(t) PROVE MutexOK'
  BY EventQueueAssumption, <1>12 DEF HandlerReturns, Goto, MutexOK, TypeOK
<1>13. ASSUME NEW t \in Threads, HandlerThrows(t) PROVE MutexOK'
  BY EventQueueAssumption, <1>13 DEF HandlerThrows, Goto, MutexOK, TypeOK
<1>14. ASSUME NEW t \in Threads, Stop(t) PROVE MutexOK'
  BY EventQueueAssumption, <1>14 DEF Stop, MutexOK, TypeOK
<1>15. ASSUME NEW t \in Threads, Notify(t) PROVE MutexOK'
  BY EventQueueAssumption, <1>15 DEF Notify, MutexOK, TypeOK
<1>16. ASSUME NEW t \in Threads, NEW e \in Events, Enqueue(t, e) PROVE MutexOK'
  BY EventQueueAssumption, <1>16 DEF Enqueue, MutexOK, TypeOK
<1>17. ASSUME NEW t \in Threads, NEW type \in Types,
            NEW handler \in Handlers \cup {NoHandler},
            SetCallbackForType(t, type, handler)
     PROVE MutexOK'
  BY EventQueueAssumption, <1>17 DEF SetCallbackForType, MutexOK, TypeOK
<1>18. ASSUME NEW t \in Threads, NEW types \in SUBSET Types,
            NEW entries \in [types -> Handlers \cup {NoHandler}],
            SetCallbacks(t, entries)
     PROVE MutexOK'
  BY EventQueueAssumption, <1>18 DEF SetCallbacks, MutexOK, TypeOK
<1>19. CASE SpuriousWakeup
  BY EventQueueAssumption, <1>19 DEF SpuriousWakeup, MutexOK, TypeOK
<1>20. CASE UNCHANGED vars
  BY <1>20 DEF vars, MutexOK, TypeOK
<1>21. ASSUME NEW t \in Threads, PopNull(t) PROVE MutexOK'
  BY EventQueueAssumption, <1>21 DEF PopNull, Goto, MutexOK, TypeOK
<1> QED
  BY <1>1, <1>2, <1>3, <1>4, <1>5, <1>6, <1>7, <1>8, <1>9, <1>10, <1>11, <1>12,
     <1>13, <1>14, <1>15, <1>16, <1>17, <1>18, <1>19, <1>20,
     <1>21
  DEF Next, RunStep, CallStep

\* No step fills the queue or stops the loop under a thread about to block.
LEMMA BlockStep ==
  ASSUME TypeOK, MutexOK, BlockOK, [Next]_vars
  PROVE  BlockOK'
<1>1. ASSUME NEW t \in Threads, RunEnter(t) PROVE BlockOK'
  BY <1>1 DEF RunEnter, Goto, BlockOK, TypeOK, queueVars
<1>2. ASSUME NEW t \in Threads, RunStart(t) PROVE BlockOK'
  BY <1>2 DEF RunStart, Goto, BlockOK, TypeOK, queueVars
<1>3. ASSUME NEW t \in Threads, WhileTest(t) PROVE BlockOK'
  BY <1>3 DEF WhileTest, Goto, BlockOK, TypeOK, queueVars
<1>4. ASSUME NEW t \in Threads, Lock(t) PROVE BlockOK'
  BY <1>4 DEF Lock, Goto, BlockOK, TypeOK, queueVars
<1>5. ASSUME NEW t \in Threads, PredicateHolds(t) PROVE BlockOK'
  BY <1>5 DEF PredicateHolds, Goto, BlockOK, TypeOK, queueVars
<1>6. ASSUME NEW t \in Threads, PredicateFails(t) PROVE BlockOK'
  BY <1>6 DEF PredicateFails, Goto, BlockOK, TypeOK, queueVars
<1>7. ASSUME NEW t \in Threads, Block(t) PROVE BlockOK'
  BY <1>7 DEF Block, Goto, BlockOK, TypeOK, queueVars
<1>8. ASSUME NEW t \in Threads, Relock(t) PROVE BlockOK'
  BY <1>8 DEF Relock, Goto, BlockOK, TypeOK, queueVars
<1>9. ASSUME NEW t \in Threads, Break(t) PROVE BlockOK'
  BY <1>9 DEF Break, Goto, BlockOK, TypeOK, queueVars
<1>10. ASSUME NEW t \in Threads, Pop(t) PROVE BlockOK'
  BY EventQueueAssumption, <1>10 DEF Pop, Goto, MutexOK, BlockOK, TypeOK
<1>11. ASSUME NEW t \in Threads, PopNothing(t) PROVE BlockOK'
  BY <1>11 DEF PopNothing, Goto, BlockOK, TypeOK, queueVars
<1>12. ASSUME NEW t \in Threads, HandlerReturns(t) PROVE BlockOK'
  BY <1>12 DEF HandlerReturns, Goto, BlockOK, TypeOK, queueVars
<1>13. ASSUME NEW t \in Threads, HandlerThrows(t) PROVE BlockOK'
  BY <1>13 DEF HandlerThrows, Goto, BlockOK, TypeOK, queueVars
<1>14. ASSUME NEW t \in Threads, Stop(t) PROVE BlockOK'
  BY EventQueueAssumption, <1>14 DEF Stop, MayCall, MutexOK, BlockOK
<1>15. ASSUME NEW t \in Threads, Notify(t) PROVE BlockOK'
  BY <1>15 DEF Notify, BlockOK, TypeOK, queueVars
<1>16. ASSUME NEW t \in Threads, NEW e \in Events, Enqueue(t, e) PROVE BlockOK'
  BY EventQueueAssumption, <1>16 DEF Enqueue, MayCall, MutexOK, BlockOK
<1>17. ASSUME NEW t \in Threads, NEW type \in Types,
            NEW handler \in Handlers \cup {NoHandler},
            SetCallbackForType(t, type, handler)
     PROVE BlockOK'
  BY <1>17 DEF SetCallbackForType, BlockOK, TypeOK, queueVars
<1>18. ASSUME NEW t \in Threads, NEW types \in SUBSET Types,
            NEW entries \in [types -> Handlers \cup {NoHandler}],
            SetCallbacks(t, entries)
     PROVE BlockOK'
  BY <1>18 DEF SetCallbacks, BlockOK, TypeOK, queueVars
<1>19. CASE SpuriousWakeup
  BY <1>19 DEF SpuriousWakeup, BlockOK, TypeOK, queueVars
<1>20. CASE UNCHANGED vars
  BY <1>20 DEF vars, BlockOK, TypeOK, queueVars
<1>21. ASSUME NEW t \in Threads, PopNull(t) PROVE BlockOK'
  BY EventQueueAssumption, <1>21 DEF PopNull, Goto, MutexOK, BlockOK, TypeOK
<1> QED
  BY <1>1, <1>2, <1>3, <1>4, <1>5, <1>6, <1>7, <1>8, <1>9, <1>10, <1>11, <1>12,
     <1>13, <1>14, <1>15, <1>16, <1>17, <1>18, <1>19, <1>20,
     <1>21
  DEF Next, RunStep, CallStep

\* No step leaves a sleeper beside an event or a stop without a notification.
LEMMA WakeupStep ==
  ASSUME TypeOK, BlockOK, NoLostWakeup, [Next]_vars
  PROVE  NoLostWakeup'
<1>1. ASSUME NEW t \in Threads, RunEnter(t) PROVE NoLostWakeup'
  BY <1>1 DEF RunEnter, NoLostWakeup, queueVars
<1>2. ASSUME NEW t \in Threads, RunStart(t) PROVE NoLostWakeup'
  BY <1>2 DEF RunStart, NoLostWakeup, queueVars
<1>3. ASSUME NEW t \in Threads, WhileTest(t) PROVE NoLostWakeup'
  BY <1>3 DEF WhileTest, NoLostWakeup, queueVars
<1>4. ASSUME NEW t \in Threads, Lock(t) PROVE NoLostWakeup'
  BY <1>4 DEF Lock, NoLostWakeup, queueVars
<1>5. ASSUME NEW t \in Threads, PredicateHolds(t) PROVE NoLostWakeup'
  BY <1>5 DEF PredicateHolds, NoLostWakeup, queueVars
<1>6. ASSUME NEW t \in Threads, PredicateFails(t) PROVE NoLostWakeup'
  BY <1>6 DEF PredicateFails, NoLostWakeup, queueVars
<1>7. ASSUME NEW t \in Threads, Block(t) PROVE NoLostWakeup'
  BY <1>7 DEF Block, Goto, BlockOK, NoLostWakeup, queueVars
<1>8. ASSUME NEW t \in Threads, Relock(t) PROVE NoLostWakeup'
  BY <1>8 DEF Relock, NoLostWakeup, queueVars
<1>9. ASSUME NEW t \in Threads, Break(t) PROVE NoLostWakeup'
  BY <1>9 DEF Break, NoLostWakeup, queueVars
<1>10. ASSUME NEW t \in Threads, Pop(t) PROVE NoLostWakeup'
  BY <1>10 DEF Pop, NoLostWakeup
<1>11. ASSUME NEW t \in Threads, PopNothing(t) PROVE NoLostWakeup'
  BY <1>11 DEF PopNothing, NoLostWakeup, queueVars
<1>12. ASSUME NEW t \in Threads, HandlerReturns(t) PROVE NoLostWakeup'
  BY <1>12 DEF HandlerReturns, NoLostWakeup, queueVars
<1>13. ASSUME NEW t \in Threads, HandlerThrows(t) PROVE NoLostWakeup'
  BY <1>13 DEF HandlerThrows, NoLostWakeup, queueVars
<1>14. ASSUME NEW t \in Threads, Stop(t) PROVE NoLostWakeup'
  BY <1>14 DEF Stop, NoLostWakeup, queueVars
<1>15. ASSUME NEW t \in Threads, Notify(t) PROVE NoLostWakeup'
  BY <1>15 DEF Notify, NoLostWakeup, queueVars
<1>16. ASSUME NEW t \in Threads, NEW e \in Events, Enqueue(t, e)
     PROVE NoLostWakeup'
  BY <1>16 DEF Enqueue, NoLostWakeup
<1>17. ASSUME NEW t \in Threads, NEW type \in Types,
            NEW handler \in Handlers \cup {NoHandler},
            SetCallbackForType(t, type, handler)
     PROVE NoLostWakeup'
  BY <1>17 DEF SetCallbackForType, NoLostWakeup, queueVars
<1>18. ASSUME NEW t \in Threads, NEW types \in SUBSET Types,
            NEW entries \in [types -> Handlers \cup {NoHandler}],
            SetCallbacks(t, entries)
     PROVE NoLostWakeup'
  BY <1>18 DEF SetCallbacks, NoLostWakeup, queueVars
<1>19. CASE SpuriousWakeup
  BY <1>19 DEF SpuriousWakeup, NoLostWakeup, queueVars
<1>20. CASE UNCHANGED vars
  BY <1>20 DEF vars, NoLostWakeup, queueVars
<1>21. ASSUME NEW t \in Threads, PopNull(t) PROVE NoLostWakeup'
  BY <1>21 DEF PopNull, NoLostWakeup
<1> QED
  BY <1>1, <1>2, <1>3, <1>4, <1>5, <1>6, <1>7, <1>8, <1>9, <1>10, <1>11, <1>12,
     <1>13, <1>14, <1>15, <1>16, <1>17, <1>18, <1>19, <1>20,
     <1>21
  DEF Next, RunStep, CallStep

\* Events enter at the back and leave at the front.
LEMMA OrderStep ==
  ASSUME TypeOK, DeliveryOrder, [Next]_vars
  PROVE  DeliveryOrder'
<1>1. ASSUME NEW t \in Threads, RunEnter(t) PROVE DeliveryOrder'
  BY <1>1 DEF RunEnter, DeliveryOrder, queueVars
<1>2. ASSUME NEW t \in Threads, RunStart(t) PROVE DeliveryOrder'
  BY <1>2 DEF RunStart, DeliveryOrder, queueVars
<1>3. ASSUME NEW t \in Threads, WhileTest(t) PROVE DeliveryOrder'
  BY <1>3 DEF WhileTest, DeliveryOrder, queueVars
<1>4. ASSUME NEW t \in Threads, Lock(t) PROVE DeliveryOrder'
  BY <1>4 DEF Lock, DeliveryOrder, queueVars
<1>5. ASSUME NEW t \in Threads, PredicateHolds(t) PROVE DeliveryOrder'
  BY <1>5 DEF PredicateHolds, DeliveryOrder, queueVars
<1>6. ASSUME NEW t \in Threads, PredicateFails(t) PROVE DeliveryOrder'
  BY <1>6 DEF PredicateFails, DeliveryOrder, queueVars
<1>7. ASSUME NEW t \in Threads, Block(t) PROVE DeliveryOrder'
  BY <1>7 DEF Block, DeliveryOrder, queueVars
<1>8. ASSUME NEW t \in Threads, Relock(t) PROVE DeliveryOrder'
  BY <1>8 DEF Relock, DeliveryOrder, queueVars
<1>9. ASSUME NEW t \in Threads, Break(t) PROVE DeliveryOrder'
  BY <1>9 DEF Break, DeliveryOrder, queueVars
<1>10. ASSUME NEW t \in Threads, Pop(t) PROVE DeliveryOrder'
  <2>1. taken \o events = Append(taken, Head(events)) \o Tail(events)
    BY MoveHead, <1>10 DEF Pop, TypeOK
  <2> QED
    BY <2>1, <1>10 DEF Pop, QueuePopped, DeliveryOrder
<1>11. ASSUME NEW t \in Threads, PopNothing(t) PROVE DeliveryOrder'
  BY <1>11 DEF PopNothing, DeliveryOrder, queueVars
<1>12. ASSUME NEW t \in Threads, HandlerReturns(t) PROVE DeliveryOrder'
  BY <1>12 DEF HandlerReturns, DeliveryOrder, queueVars
<1>13. ASSUME NEW t \in Threads, HandlerThrows(t) PROVE DeliveryOrder'
  BY <1>13 DEF HandlerThrows, DeliveryOrder, queueVars
<1>14. ASSUME NEW t \in Threads, Stop(t) PROVE DeliveryOrder'
  BY <1>14 DEF Stop, DeliveryOrder, queueVars
<1>15. ASSUME NEW t \in Threads, Notify(t) PROVE DeliveryOrder'
  BY <1>15 DEF Notify, DeliveryOrder, queueVars
<1>16. ASSUME NEW t \in Threads, NEW e \in Events, Enqueue(t, e)
     PROVE DeliveryOrder'
  <2>1. taken \in Seq(Events) /\ events \in Seq(Events)
    BY DEF TypeOK
  <2>2. Append(taken \o events, e) = taken \o Append(events, e)
    BY <2>1, AppendSecond
  <2> QED
    BY <2>2, <1>16 DEF Enqueue, DeliveryOrder
<1>17. ASSUME NEW t \in Threads, NEW type \in Types,
            NEW handler \in Handlers \cup {NoHandler},
            SetCallbackForType(t, type, handler)
     PROVE DeliveryOrder'
  BY <1>17 DEF SetCallbackForType, DeliveryOrder, queueVars
<1>18. ASSUME NEW t \in Threads, NEW types \in SUBSET Types,
            NEW entries \in [types -> Handlers \cup {NoHandler}],
            SetCallbacks(t, entries)
     PROVE DeliveryOrder'
  BY <1>18 DEF SetCallbacks, DeliveryOrder, queueVars
<1>19. CASE SpuriousWakeup
  BY <1>19 DEF SpuriousWakeup, DeliveryOrder, queueVars
<1>20. CASE UNCHANGED vars
  BY <1>20 DEF vars, DeliveryOrder, queueVars
<1>21. ASSUME NEW t \in Threads, PopNull(t) PROVE DeliveryOrder'
  <2>1. taken \o events = Append(taken, Head(events)) \o Tail(events)
    BY MoveHead, <1>21 DEF PopNull, TypeOK
  <2> QED
    BY <2>1, <1>21 DEF PopNull, QueuePopped, DeliveryOrder
<1> QED
  BY <1>1, <1>2, <1>3, <1>4, <1>5, <1>6, <1>7, <1>8, <1>9, <1>10, <1>11, <1>12,
     <1>13, <1>14, <1>15, <1>16, <1>17, <1>18, <1>19, <1>20,
     <1>21
  DEF Next, RunStep, CallStep

\* enqueue tests the limit and pushes in one critical section.
LEMMA BoundStep ==
  ASSUME TypeOK, QueueBounded, [Next]_vars
  PROVE  QueueBounded'
<1>1. ASSUME NEW t \in Threads, RunEnter(t) PROVE QueueBounded'
  BY <1>1 DEF RunEnter, QueueBounded, queueVars
<1>2. ASSUME NEW t \in Threads, RunStart(t) PROVE QueueBounded'
  BY <1>2 DEF RunStart, QueueBounded, queueVars
<1>3. ASSUME NEW t \in Threads, WhileTest(t) PROVE QueueBounded'
  BY <1>3 DEF WhileTest, QueueBounded, queueVars
<1>4. ASSUME NEW t \in Threads, Lock(t) PROVE QueueBounded'
  BY <1>4 DEF Lock, QueueBounded, queueVars
<1>5. ASSUME NEW t \in Threads, PredicateHolds(t) PROVE QueueBounded'
  BY <1>5 DEF PredicateHolds, QueueBounded, queueVars
<1>6. ASSUME NEW t \in Threads, PredicateFails(t) PROVE QueueBounded'
  BY <1>6 DEF PredicateFails, QueueBounded, queueVars
<1>7. ASSUME NEW t \in Threads, Block(t) PROVE QueueBounded'
  BY <1>7 DEF Block, QueueBounded, queueVars
<1>8. ASSUME NEW t \in Threads, Relock(t) PROVE QueueBounded'
  BY <1>8 DEF Relock, QueueBounded, queueVars
<1>9. ASSUME NEW t \in Threads, Break(t) PROVE QueueBounded'
  BY <1>9 DEF Break, QueueBounded, queueVars
<1>10. ASSUME NEW t \in Threads, Pop(t) PROVE QueueBounded'
  <2>1. Len(Tail(events)) = Len(events) - 1 /\ Len(events) \in Nat
    BY <1>10 DEF Pop, TypeOK
  <2> QED
    BY <2>1, EventQueueAssumption, <1>10 DEF Pop, QueuePopped, QueueBounded
<1>11. ASSUME NEW t \in Threads, PopNothing(t) PROVE QueueBounded'
  BY <1>11 DEF PopNothing, QueueBounded, queueVars
<1>12. ASSUME NEW t \in Threads, HandlerReturns(t) PROVE QueueBounded'
  BY <1>12 DEF HandlerReturns, QueueBounded, queueVars
<1>13. ASSUME NEW t \in Threads, HandlerThrows(t) PROVE QueueBounded'
  BY <1>13 DEF HandlerThrows, QueueBounded, queueVars
<1>14. ASSUME NEW t \in Threads, Stop(t) PROVE QueueBounded'
  BY <1>14 DEF Stop, QueueBounded, queueVars
<1>15. ASSUME NEW t \in Threads, Notify(t) PROVE QueueBounded'
  BY <1>15 DEF Notify, QueueBounded, queueVars
<1>16. ASSUME NEW t \in Threads, NEW e \in Events, Enqueue(t, e)
     PROVE QueueBounded'
  <2>1. Len(Append(events, e)) = Len(events) + 1 /\ Len(events) \in Nat
    BY AppendProperties DEF TypeOK
  <2> QED
    BY <2>1, EventQueueAssumption, <1>16 DEF Enqueue, Full, QueueBounded
<1>17. ASSUME NEW t \in Threads, NEW type \in Types,
            NEW handler \in Handlers \cup {NoHandler},
            SetCallbackForType(t, type, handler)
     PROVE QueueBounded'
  BY <1>17 DEF SetCallbackForType, QueueBounded, queueVars
<1>18. ASSUME NEW t \in Threads, NEW types \in SUBSET Types,
            NEW entries \in [types -> Handlers \cup {NoHandler}],
            SetCallbacks(t, entries)
     PROVE QueueBounded'
  BY <1>18 DEF SetCallbacks, QueueBounded, queueVars
<1>19. CASE SpuriousWakeup
  BY <1>19 DEF SpuriousWakeup, QueueBounded, queueVars
<1>20. CASE UNCHANGED vars
  BY <1>20 DEF vars, QueueBounded, queueVars
<1>21. ASSUME NEW t \in Threads, PopNull(t) PROVE QueueBounded'
  <2>1. Len(Tail(events)) = Len(events) - 1 /\ Len(events) \in Nat
    BY <1>21 DEF PopNull, TypeOK
  <2> QED
    BY <2>1, EventQueueAssumption, <1>21 DEF PopNull, QueuePopped, QueueBounded
<1> QED
  BY <1>1, <1>2, <1>3, <1>4, <1>5, <1>6, <1>7, <1>8, <1>9, <1>10, <1>11, <1>12,
     <1>13, <1>14, <1>15, <1>16, <1>17, <1>18, <1>19, <1>20,
     <1>21
  DEF Next, RunStep, CallStep

-----------------------------------------------------------------------------
(* The theorems.                                                           *)

\* The invariant holds of a queue just constructed ...
LEMMA InitInvariant == Init => IInv
<1> SUFFICES ASSUME Init PROVE IInv
  OBVIOUS
<1>1. TypeOK
  <2>1. /\ pc \in [Threads -> {"out"}]
        /\ event \in [Threads -> {NoEvent}]
        /\ callback \in [Threads -> {NoHandler}]
    BY DEF Init
  <2>2. \A t \in Threads : event[t] = NoEvent /\ callback[t] = NoHandler
    BY DEF Init
  <2>3. <<>> \in Seq(Events)
    OBVIOUS
  <2>4. callbacks \in [Types -> Handlers \cup {NoHandler}]
    BY DEF Init
  <2> QED
    BY <2>1, <2>2, <2>3, <2>4 DEF Init, TypeOK
<1>2. MutexOK /\ BlockOK /\ NoLostWakeup
  BY EventQueueAssumption DEF Init, MutexOK, BlockOK, NoLostWakeup
<1>3. DeliveryOrder
  BY DEF Init, DeliveryOrder
<1>4. QueueBounded
  <2>1. Len(<<>>) = 0
    OBVIOUS
  <2> QED
    BY <2>1, EventQueueAssumption DEF Init, QueueBounded
<1> QED
  BY <1>1, <1>2, <1>3, <1>4 DEF IInv

\* ... every step keeps it ...
LEMMA StepInvariant == IInv /\ [Next]_vars => IInv'
  BY TypeStep, MutexStep, BlockStep, WakeupStep, OrderStep, BoundStep
  DEF IInv

\* ... and so it always holds.
LEMMA Inductive == Spec => []IInv
  BY InitInvariant, StepInvariant, PTL DEF Spec

(* Every variable keeps its shape, and the loop's locals are empty outside *)
(* an iteration (run).                                                     *)
THEOREM TypeCorrect == Spec => []TypeOK
<1>1. IInv => TypeOK
  BY DEF IInv
<1> QED
  BY <1>1, Inductive, PTL

(* However many threads are in run(), none sleeps through an event or a    *)
(* stop request whose notification has been sent (run, enqueue, stop).     *)
THEOREM NoWakeupIsLost == Spec => []NoLostWakeup
<1>1. IInv => NoLostWakeup
  BY DEF IInv
<1> QED
  BY <1>1, Inductive, PTL

(* Every accepted event leaves the queue once, in the order of acceptance, *)
(* whatever stops, restarts and concurrent loops occur (enqueue, run).     *)
THEOREM DeliveredInOrder == Spec => []DeliveryOrder
<1>1. IInv => DeliveryOrder
  BY DEF IInv
<1> QED
  BY <1>1, Inductive, PTL

(* The queue never exceeds maxQueueSize (enqueue).                         *)
THEOREM QueueStaysBounded == Spec => []QueueBounded
<1>1. IInv => QueueBounded
  BY DEF IInv
<1> QED
  BY <1>1, Inductive, PTL

-----------------------------------------------------------------------------
(* When isRunning() tells the truth.                                       *)

\* A thread leaves the loop of run() only with _running false, unless an
\* exception takes it out.
LEMMA LoopIsKept ==
  ASSUME ~HandlersThrow, NullEvents = {},
         TypeOK, RunningMeansLoop, [Next]_vars
  PROVE  RunningMeansLoop'
<1> USE DEF RunningMeansLoop, IsRunning, Loop, TypeOK, Goto
<1> SUFFICES ASSUME running'
             PROVE  \E r \in Threads : pc'[r] \notin {"out", "starting"}
  OBVIOUS
<1>1. CASE \E t \in Threads : RunStart(t)
  BY <1>1 DEF RunStart
<1>2. CASE /\ running
           /\ \A r \in Threads : pc[r] \notin {"out", "starting"}
                                => pc'[r] \notin {"out", "starting"}
  BY <1>2
<1>3. ASSUME NEW t \in Threads, RunEnter(t) \/ Lock(t) \/ Relock(t)
                                \/ RunStep(t) \/ HandlerReturns(t)
      PROVE  RunStart(t) \/ /\ running
                            /\ \A r \in Threads :
                                 pc[r] \notin {"out", "starting"}
                                 => pc'[r] \notin {"out", "starting"}
  BY <1>3 DEF RunEnter, Lock, Relock, RunStep, WhileTest, PredicateHolds,
              PredicateFails, Block, Break, Pop, PopNull, PopNothing,
              HandlerReturns
<1>4. ASSUME NEW t \in Threads, CallStep(t) \/ Notify(t)
      PROVE  running /\ pc' = pc
  BY <1>4 DEF CallStep, Enqueue, SetCallbackForType, SetCallbacks, Stop, Notify
<1>5. CASE SpuriousWakeup \/ UNCHANGED vars
  BY <1>2, <1>5 DEF SpuriousWakeup, vars
<1> QED
  BY <1>1, <1>2, <1>3, <1>4, <1>5 DEF Next, HandlerThrows

(* isRunning() is true only while a thread is in the loop of run(), for    *)
(* any number of threads in it and any stops, as long as no exception      *)
(* leaves run(): neither a handler's, nor the bad_typeid of a null event.  *)
(* The exception of run queue_throw_keeps_running is the only way for      *)
(* _running to be left behind (run, isRunning).                            *)
THEOREM RunningUnlessThrown ==
  ASSUME ~HandlersThrow, NullEvents = {}
  PROVE  Spec => []RunningMeansLoop
<1>1. Init => RunningMeansLoop
  BY DEF Init, RunningMeansLoop, IsRunning
<1>2. TypeOK /\ RunningMeansLoop /\ [Next]_vars => RunningMeansLoop'
  BY LoopIsKept
<1> QED
  BY <1>1, <1>2, TypeCorrect, PTL DEF Spec
=============================================================================
