----------------------------- MODULE TimerProofs -----------------------------
(***************************************************************************)
(* Theorems about Timer, for every set of clients, delays and intervals.   *)
(*                                                                         *)
(* The inductive invariant is IInv.  That no expiration is early needs     *)
(* DueOK: _nextInterval is never nearer than what the program asked for    *)
(* while the timer runs, although idle days move it too.  That a single    *)
(* shot expires once needs ShotOK.  That the destructor chooses no more    *)
(* expirations and waits for no deadline needs ShutdownOK: where the       *)
(* thread can be when _threadRunning is false.                             *)
(***************************************************************************)
EXTENDS Timer, TLAPS

IInv ==
  /\ TypeOK
  /\ DueOK
  /\ ShotOK
  /\ SingleShotOnce
  /\ NoOversleep
  /\ ShutdownOK
  /\ ShutdownIsPrompt

-----------------------------------------------------------------------------
\* Time left never drops below zero, and never grows.
LEMMA MinusBounds ==
  ASSUME NEW a \in Nat, NEW b \in Nat
  PROVE  Minus(a, b) \in Nat /\ Minus(a, b) <= a
  BY DEF Minus

\* Passing time keeps the order of two deadlines.
LEMMA MinusMonotone ==
  ASSUME NEW a \in Nat, NEW b \in Nat, a <= b
  PROVE  Minus(a, 1) <= Minus(b, 1)
  BY DEF Minus

-----------------------------------------------------------------------------
(* One lemma for each part of the invariant, one step for each action.     *)

\* Every step keeps the shape of the state.
LEMMA TypeStep ==
  ASSUME TypeOK, [Next]_vars
  PROVE  TypeOK'
<1>1. CASE Tick
  BY <1>1, MinusBounds, MinusMonotone
  DEF Tick, TypeOK, timerVars, threadVars, historyVars
<1>2. CASE SpinTest
  BY <1>2, TimerAssumption
  DEF SpinTest, TypeOK, timerVars, threadVars, historyVars
<1>3. CASE Sleep
  <2>1. reliability \in Nat
    BY TimerAssumption DEF TypeOK
  <2>2. sleep' \in Nat
    BY <1>3, <2>1, MinusBounds DEF Sleep, TypeOK
  <2> QED
    BY <1>3, <2>2 DEF Sleep, TypeOK, timerVars, historyVars
<1>4. CASE SleepOn
  BY <1>4, TimerAssumption
  DEF SleepOn, ShuttingDown, TypeOK, timerVars, threadVars, historyVars
<1>5. CASE NotYet
  BY <1>5, TimerAssumption
  DEF NotYet, WaitForReturns, DeadlineReached, TypeOK, timerVars,
      threadVars, historyVars
<1>6. CASE Idle
  BY <1>6, TimerAssumption
  DEF Idle, WaitForReturns, DeadlineReached, TypeOK, timerVars,
      threadVars, historyVars
<1>7. CASE Expire
  <2>1. interval \in Nat
    BY TimerAssumption DEF TypeOK
  <2>2. running' \in BOOLEAN
    BY <1>7 DEF Expire, RunningAfterExpiry
  <2>3. untilNext' \in Nat /\ due' \in Nat /\ sleep' \in Nat
    BY <1>7, <2>1 DEF Expire, WaitForReturns, TypeOK
  <2>4. shots' \in 0 .. 2
    BY <1>7 DEF Expire
  <2>5. changedState' \in BOOLEAN /\ blocked' \in BOOLEAN /\ pc' = "chosen"
    BY <1>7 DEF Expire, WaitForReturns, TypeOK
  <2> QED
    BY <1>7, <2>2, <2>3, <2>4, <2>5 DEF Expire, TypeOK
<1>8. CASE CallOrSkip
  BY <1>8, TimerAssumption
  DEF CallOrSkip, TypeOK, timerVars, threadVars, historyVars
<1>9. CASE CallbackReturns
  BY <1>9, TimerAssumption
  DEF CallbackReturns, TypeOK, timerVars, threadVars, historyVars
<1>10. CASE SpuriousWakeup
  BY <1>10, TimerAssumption
  DEF SpuriousWakeup, TypeOK, timerVars, threadVars, historyVars
<1>11. ASSUME NEW t \in Callers, NEW delay \in Delays, NEW every \in Intervals,
            Start(t, delay, every)
     PROVE  TypeOK'
  BY <1>11, TimerAssumption
  DEF Start, Changed, MayCall, TypeOK, timerVars, threadVars, historyVars
<1>12. ASSUME NEW t \in Callers, NEW value \in Reliabilities,
            SetReliability(t, value)
     PROVE  TypeOK'
  BY <1>12, TimerAssumption
  DEF SetReliability, Changed, Limited, TypeOK, timerVars, threadVars,
      historyVars
<1>13. ASSUME NEW t \in Callers, NEW function \in Callbacks \cup {NoCallback},
            SetCallback(t, function)
     PROVE  TypeOK'
  BY <1>13, TimerAssumption
  DEF SetCallback, Changed, TypeOK, timerVars, threadVars, historyVars
<1>14. ASSUME NEW t \in Callers,
            Stop(t)
     PROVE  TypeOK'
  BY <1>14, TimerAssumption
  DEF Stop, TypeOK, timerVars, threadVars, historyVars
<1>15. ASSUME NEW t \in Callers,
            Notify(t)
     PROVE  TypeOK'
  BY <1>15, TimerAssumption
  DEF Notify, TypeOK, timerVars, threadVars, historyVars
<1>16. CASE ThreadStop
  BY <1>16, TimerAssumption
  DEF ThreadStop, TypeOK, timerVars, threadVars, historyVars
<1>17. CASE Join
  BY <1>17, TimerAssumption
  DEF Join, TypeOK, timerVars, threadVars, historyVars
<1>18. CASE UNCHANGED vars
  BY <1>18 DEF vars, TypeOK, timerVars, threadVars, historyVars
<1> QED
  BY <1>1, <1>2, <1>3, <1>4, <1>5, <1>6, <1>7, <1>8, <1>9, <1>10, <1>11,
     <1>12, <1>13, <1>14, <1>15, <1>16, <1>17, <1>18
  DEF Next, ThreadStep, CallStep, StartCall

\* The deadline a running timer looks at is not before the one asked for.
LEMMA DueStep ==
  ASSUME TypeOK, DueOK, [Next]_vars
  PROVE  DueOK'
<1>1. CASE Tick
  BY <1>1, MinusBounds, MinusMonotone
  DEF Tick, DueOK, TypeOK, timerVars, threadVars, historyVars
<1>2. CASE SpinTest
  BY <1>2, TimerAssumption
  DEF SpinTest, DueOK, TypeOK, timerVars, threadVars, historyVars
<1>3. CASE Sleep
  BY <1>3, MinusBounds, TimerAssumption
  DEF Sleep, ShuttingDown, DueOK, TypeOK, timerVars, threadVars, historyVars
<1>4. CASE SleepOn
  BY <1>4, TimerAssumption
  DEF SleepOn, ShuttingDown, DueOK, TypeOK, timerVars, threadVars, historyVars
<1>5. CASE NotYet
  BY <1>5, TimerAssumption
  DEF NotYet, WaitForReturns, DeadlineReached, DueOK, TypeOK, timerVars,
      threadVars, historyVars
<1>6. CASE Idle
  BY <1>6, TimerAssumption
  DEF Idle, WaitForReturns, DeadlineReached, DueOK, TypeOK, timerVars,
      threadVars, historyVars
<1>7. CASE Expire
  BY <1>7, TimerAssumption
  DEF Expire, WaitForReturns, DeadlineReached, RunningAfterExpiry,
      ShuttingDown, DueOK, TypeOK, timerVars, threadVars, historyVars
<1>8. CASE CallOrSkip
  BY <1>8, TimerAssumption
  DEF CallOrSkip, DueOK, TypeOK, timerVars, threadVars, historyVars
<1>9. CASE CallbackReturns
  BY <1>9, TimerAssumption
  DEF CallbackReturns, DueOK, TypeOK, timerVars, threadVars, historyVars
<1>10. CASE SpuriousWakeup
  BY <1>10, TimerAssumption
  DEF SpuriousWakeup, DueOK, TypeOK, timerVars, threadVars, historyVars
<1>11. ASSUME NEW t \in Callers, NEW delay \in Delays, NEW every \in Intervals,
            Start(t, delay, every)
     PROVE  DueOK'
  BY <1>11, TimerAssumption
  DEF Start, Changed, MayCall, DueOK, TypeOK, timerVars, threadVars,
      historyVars
<1>12. ASSUME NEW t \in Callers, NEW value \in Reliabilities,
            SetReliability(t, value)
     PROVE  DueOK'
  BY <1>12, TimerAssumption
  DEF SetReliability, Changed, Limited, DueOK, TypeOK, timerVars,
      threadVars, historyVars
<1>13. ASSUME NEW t \in Callers, NEW function \in Callbacks \cup {NoCallback},
            SetCallback(t, function)
     PROVE  DueOK'
  BY <1>13, TimerAssumption
  DEF SetCallback, Changed, DueOK, TypeOK, timerVars, threadVars, historyVars
<1>14. ASSUME NEW t \in Callers,
            Stop(t)
     PROVE  DueOK'
  BY <1>14, TimerAssumption
  DEF Stop, DueOK, TypeOK, timerVars, threadVars, historyVars
<1>15. ASSUME NEW t \in Callers,
            Notify(t)
     PROVE  DueOK'
  BY <1>15, TimerAssumption
  DEF Notify, DueOK, TypeOK, timerVars, threadVars, historyVars
<1>16. CASE ThreadStop
  BY <1>16, TimerAssumption
  DEF ThreadStop, DueOK, TypeOK, timerVars, threadVars, historyVars
<1>17. CASE Join
  BY <1>17, TimerAssumption
  DEF Join, DueOK, TypeOK, timerVars, threadVars, historyVars
<1>18. CASE UNCHANGED vars
  BY <1>18 DEF vars, DueOK, TypeOK, timerVars, threadVars, historyVars
<1> QED
  BY <1>1, <1>2, <1>3, <1>4, <1>5, <1>6, <1>7, <1>8, <1>9, <1>10, <1>11,
     <1>12, <1>13, <1>14, <1>15, <1>16, <1>17, <1>18
  DEF Next, ThreadStep, CallStep, StartCall

\* A single shot stops running when it expires.
LEMMA ShotStep ==
  ASSUME TypeOK, ShotOK, SingleShotOnce, [Next]_vars
  PROVE  (ShotOK /\ SingleShotOnce)'
<1>1. CASE Tick
  BY <1>1, MinusBounds, MinusMonotone
  DEF Tick, ShotOK, SingleShotOnce, TypeOK, timerVars, threadVars, historyVars
<1>2. CASE SpinTest
  BY <1>2, TimerAssumption
  DEF SpinTest, ShotOK, SingleShotOnce, TypeOK, timerVars, threadVars,
      historyVars
<1>3. CASE Sleep
  BY <1>3, MinusBounds, TimerAssumption
  DEF Sleep, ShuttingDown, ShotOK, SingleShotOnce, TypeOK, timerVars,
      threadVars, historyVars
<1>4. CASE SleepOn
  BY <1>4, TimerAssumption
  DEF SleepOn, ShuttingDown, ShotOK, SingleShotOnce, TypeOK, timerVars,
      threadVars, historyVars
<1>5. CASE NotYet
  BY <1>5, TimerAssumption
  DEF NotYet, WaitForReturns, DeadlineReached, ShotOK, SingleShotOnce,
      TypeOK, timerVars, threadVars, historyVars
<1>6. CASE Idle
  BY <1>6, TimerAssumption
  DEF Idle, WaitForReturns, DeadlineReached, ShotOK, SingleShotOnce,
      TypeOK, timerVars, threadVars, historyVars
<1>7. CASE Expire
  <2>1. interval \in Nat /\ interval' = interval
    BY <1>7, TimerAssumption DEF Expire, TypeOK
  <2>2. CASE interval > 0
    BY <1>7, <2>1, <2>2 DEF ShotOK, SingleShotOnce
  <2>3. CASE interval = 0
    <3>1. ~RunningAfterExpiry
      BY <2>3 DEF RunningAfterExpiry
    <3>2. ~running'
      BY <1>7, <3>1 DEF Expire
    <3>3. shots' = 1
      BY <1>7, <2>3 DEF Expire, ShotOK
    <3> QED
      BY <3>2, <3>3 DEF ShotOK, SingleShotOnce
  <2> QED
    BY <2>1, <2>2, <2>3
<1>8. CASE CallOrSkip
  BY <1>8, TimerAssumption
  DEF CallOrSkip, ShotOK, SingleShotOnce, TypeOK, timerVars, threadVars,
      historyVars
<1>9. CASE CallbackReturns
  BY <1>9, TimerAssumption
  DEF CallbackReturns, ShotOK, SingleShotOnce, TypeOK, timerVars,
      threadVars, historyVars
<1>10. CASE SpuriousWakeup
  BY <1>10, TimerAssumption
  DEF SpuriousWakeup, ShotOK, SingleShotOnce, TypeOK, timerVars,
      threadVars, historyVars
<1>11. ASSUME NEW t \in Callers, NEW delay \in Delays, NEW every \in Intervals,
            Start(t, delay, every)
     PROVE  (ShotOK /\ SingleShotOnce)'
  BY <1>11, TimerAssumption
  DEF Start, Changed, MayCall, ShotOK, SingleShotOnce, TypeOK, timerVars,
      threadVars, historyVars
<1>12. ASSUME NEW t \in Callers, NEW value \in Reliabilities,
            SetReliability(t, value)
     PROVE  (ShotOK /\ SingleShotOnce)'
  BY <1>12, TimerAssumption
  DEF SetReliability, Changed, Limited, ShotOK, SingleShotOnce, TypeOK,
      timerVars, threadVars, historyVars
<1>13. ASSUME NEW t \in Callers, NEW function \in Callbacks \cup {NoCallback},
            SetCallback(t, function)
     PROVE  (ShotOK /\ SingleShotOnce)'
  BY <1>13, TimerAssumption
  DEF SetCallback, Changed, ShotOK, SingleShotOnce, TypeOK, timerVars,
      threadVars, historyVars
<1>14. ASSUME NEW t \in Callers,
            Stop(t)
     PROVE  (ShotOK /\ SingleShotOnce)'
  BY <1>14, TimerAssumption
  DEF Stop, ShotOK, SingleShotOnce, TypeOK, timerVars, threadVars, historyVars
<1>15. ASSUME NEW t \in Callers,
            Notify(t)
     PROVE  (ShotOK /\ SingleShotOnce)'
  BY <1>15, TimerAssumption
  DEF Notify, ShotOK, SingleShotOnce, TypeOK, timerVars, threadVars,
      historyVars
<1>16. CASE ThreadStop
  BY <1>16, TimerAssumption
  DEF ThreadStop, ShotOK, SingleShotOnce, TypeOK, timerVars, threadVars,
      historyVars
<1>17. CASE Join
  BY <1>17, TimerAssumption
  DEF Join, ShotOK, SingleShotOnce, TypeOK, timerVars, threadVars, historyVars
<1>18. CASE UNCHANGED vars
  BY <1>18 DEF vars, ShotOK, SingleShotOnce, TypeOK, timerVars,
     threadVars, historyVars
<1> QED
  BY <1>1, <1>2, <1>3, <1>4, <1>5, <1>6, <1>7, <1>8, <1>9, <1>10, <1>11,
     <1>12, <1>13, <1>14, <1>15, <1>16, <1>17, <1>18
  DEF Next, ThreadStep, CallStep, StartCall

\* Only start moves a deadline towards a sleeping thread, and it wakes it.
LEMMA OversleepStep ==
  ASSUME TypeOK, NoOversleep, [Next]_vars
  PROVE  NoOversleep'
<1>1. CASE Tick
  BY <1>1, MinusBounds, MinusMonotone
  DEF Tick, NoOversleep, TypeOK, timerVars, threadVars, historyVars
<1>2. CASE SpinTest
  BY <1>2, TimerAssumption
  DEF SpinTest, NoOversleep, TypeOK, timerVars, threadVars, historyVars
<1>3. CASE Sleep
  BY <1>3, MinusBounds, TimerAssumption
  DEF Sleep, ShuttingDown, NoOversleep, TypeOK, timerVars, threadVars,
      historyVars
<1>4. CASE SleepOn
  BY <1>4, TimerAssumption
  DEF SleepOn, ShuttingDown, NoOversleep, TypeOK, timerVars, threadVars,
      historyVars
<1>5. CASE NotYet
  BY <1>5, TimerAssumption
  DEF NotYet, WaitForReturns, DeadlineReached, NoOversleep, TypeOK,
      timerVars, threadVars, historyVars
<1>6. CASE Idle
  BY <1>6, TimerAssumption
  DEF Idle, WaitForReturns, DeadlineReached, NoOversleep, TypeOK,
      timerVars, threadVars, historyVars
<1>7. CASE Expire
  BY <1>7, TimerAssumption
  DEF Expire, WaitForReturns, DeadlineReached, RunningAfterExpiry,
      ShuttingDown, NoOversleep, TypeOK, timerVars, threadVars, historyVars
<1>8. CASE CallOrSkip
  BY <1>8, TimerAssumption
  DEF CallOrSkip, NoOversleep, TypeOK, timerVars, threadVars, historyVars
<1>9. CASE CallbackReturns
  BY <1>9, TimerAssumption
  DEF CallbackReturns, NoOversleep, TypeOK, timerVars, threadVars, historyVars
<1>10. CASE SpuriousWakeup
  BY <1>10, TimerAssumption
  DEF SpuriousWakeup, NoOversleep, TypeOK, timerVars, threadVars, historyVars
<1>11. ASSUME NEW t \in Callers, NEW delay \in Delays, NEW every \in Intervals,
            Start(t, delay, every)
     PROVE  NoOversleep'
  BY <1>11, TimerAssumption
  DEF Start, Changed, MayCall, NoOversleep, TypeOK, timerVars, threadVars,
      historyVars
<1>12. ASSUME NEW t \in Callers, NEW value \in Reliabilities,
            SetReliability(t, value)
     PROVE  NoOversleep'
  BY <1>12, TimerAssumption
  DEF SetReliability, Changed, Limited, NoOversleep, TypeOK, timerVars,
      threadVars, historyVars
<1>13. ASSUME NEW t \in Callers, NEW function \in Callbacks \cup {NoCallback},
            SetCallback(t, function)
     PROVE  NoOversleep'
  BY <1>13, TimerAssumption
  DEF SetCallback, Changed, NoOversleep, TypeOK, timerVars, threadVars,
      historyVars
<1>14. ASSUME NEW t \in Callers,
            Stop(t)
     PROVE  NoOversleep'
  BY <1>14, TimerAssumption
  DEF Stop, NoOversleep, TypeOK, timerVars, threadVars, historyVars
<1>15. ASSUME NEW t \in Callers,
            Notify(t)
     PROVE  NoOversleep'
  BY <1>15, TimerAssumption
  DEF Notify, NoOversleep, TypeOK, timerVars, threadVars, historyVars
<1>16. CASE ThreadStop
  BY <1>16, TimerAssumption
  DEF ThreadStop, NoOversleep, TypeOK, timerVars, threadVars, historyVars
<1>17. CASE Join
  BY <1>17, TimerAssumption
  DEF Join, NoOversleep, TypeOK, timerVars, threadVars, historyVars
<1>18. CASE UNCHANGED vars
  BY <1>18 DEF vars, NoOversleep, TypeOK, timerVars, threadVars, historyVars
<1> QED
  BY <1>1, <1>2, <1>3, <1>4, <1>5, <1>6, <1>7, <1>8, <1>9, <1>10, <1>11,
     <1>12, <1>13, <1>14, <1>15, <1>16, <1>17, <1>18
  DEF Next, ThreadStep, CallStep, StartCall

\* After threadStop the thread leaves its loop without sleeping.
LEMMA ShutdownStep ==
  ASSUME TypeOK, ShutdownOK, ShutdownIsPrompt, [Next]_vars
  PROVE  (ShutdownOK /\ ShutdownIsPrompt)'
<1>1. CASE Tick
  BY <1>1, MinusBounds, MinusMonotone
  DEF Tick, ShutdownOK, ShutdownIsPrompt, TypeOK, timerVars, threadVars,
      historyVars
<1>2. CASE SpinTest
  BY <1>2, TimerAssumption
  DEF SpinTest, ShutdownOK, ShutdownIsPrompt, TypeOK, timerVars,
      threadVars, historyVars
<1>3. CASE Sleep
  BY <1>3, MinusBounds, TimerAssumption
  DEF Sleep, ShuttingDown, ShutdownOK, ShutdownIsPrompt, TypeOK,
      timerVars, threadVars, historyVars
<1>4. CASE SleepOn
  BY <1>4, TimerAssumption
  DEF SleepOn, ShuttingDown, ShutdownOK, ShutdownIsPrompt, TypeOK,
      timerVars, threadVars, historyVars
<1>5. CASE NotYet
  BY <1>5, TimerAssumption
  DEF NotYet, WaitForReturns, DeadlineReached, ShutdownOK,
      ShutdownIsPrompt, TypeOK, timerVars, threadVars, historyVars
<1>6. CASE Idle
  BY <1>6, TimerAssumption
  DEF Idle, WaitForReturns, DeadlineReached, ShutdownOK, ShutdownIsPrompt,
      TypeOK, timerVars, threadVars, historyVars
<1>7. CASE Expire
  BY <1>7, TimerAssumption
  DEF Expire, WaitForReturns, DeadlineReached, RunningAfterExpiry,
      ShuttingDown, ShutdownOK, ShutdownIsPrompt, TypeOK, timerVars,
      threadVars, historyVars
<1>8. CASE CallOrSkip
  BY <1>8, TimerAssumption
  DEF CallOrSkip, ShutdownOK, ShutdownIsPrompt, TypeOK, timerVars,
      threadVars, historyVars
<1>9. CASE CallbackReturns
  BY <1>9, TimerAssumption
  DEF CallbackReturns, ShutdownOK, ShutdownIsPrompt, TypeOK, timerVars,
      threadVars, historyVars
<1>10. CASE SpuriousWakeup
  BY <1>10, TimerAssumption
  DEF SpuriousWakeup, ShutdownOK, ShutdownIsPrompt, TypeOK, timerVars,
      threadVars, historyVars
<1>11. ASSUME NEW t \in Callers, NEW delay \in Delays, NEW every \in Intervals,
            Start(t, delay, every)
     PROVE  (ShutdownOK /\ ShutdownIsPrompt)'
  BY <1>11, TimerAssumption
  DEF Start, Changed, MayCall, ShutdownOK, ShutdownIsPrompt, TypeOK,
      timerVars, threadVars, historyVars
<1>12. ASSUME NEW t \in Callers, NEW value \in Reliabilities,
            SetReliability(t, value)
     PROVE  (ShutdownOK /\ ShutdownIsPrompt)'
  BY <1>12, TimerAssumption
  DEF SetReliability, Changed, Limited, ShutdownOK, ShutdownIsPrompt,
      TypeOK, timerVars, threadVars, historyVars
<1>13. ASSUME NEW t \in Callers, NEW function \in Callbacks \cup {NoCallback},
            SetCallback(t, function)
     PROVE  (ShutdownOK /\ ShutdownIsPrompt)'
  BY <1>13, TimerAssumption
  DEF SetCallback, Changed, ShutdownOK, ShutdownIsPrompt, TypeOK,
      timerVars, threadVars, historyVars
<1>14. ASSUME NEW t \in Callers,
            Stop(t)
     PROVE  (ShutdownOK /\ ShutdownIsPrompt)'
  BY <1>14, TimerAssumption
  DEF Stop, ShutdownOK, ShutdownIsPrompt, TypeOK, timerVars, threadVars,
      historyVars
<1>15. ASSUME NEW t \in Callers,
            Notify(t)
     PROVE  (ShutdownOK /\ ShutdownIsPrompt)'
  BY <1>15, TimerAssumption
  DEF Notify, ShutdownOK, ShutdownIsPrompt, TypeOK, timerVars, threadVars,
      historyVars
<1>16. CASE ThreadStop
  BY <1>16, TimerAssumption
  DEF ThreadStop, ShutdownOK, ShutdownIsPrompt, TypeOK, timerVars,
      threadVars, historyVars
<1>17. CASE Join
  BY <1>17, TimerAssumption
  DEF Join, ShutdownOK, ShutdownIsPrompt, TypeOK, timerVars, threadVars,
      historyVars
<1>18. CASE UNCHANGED vars
  BY <1>18 DEF vars, ShutdownOK, ShutdownIsPrompt, TypeOK, timerVars,
     threadVars, historyVars
<1> QED
  BY <1>1, <1>2, <1>3, <1>4, <1>5, <1>6, <1>7, <1>8, <1>9, <1>10, <1>11,
     <1>12, <1>13, <1>14, <1>15, <1>16, <1>17, <1>18
  DEF Next, ThreadStep, CallStep, StartCall

-----------------------------------------------------------------------------
(* The theorems.                                                           *)

\* The timer starts idle.
LEMMA InitInvariant == Init => IInv
<1> SUFFICES ASSUME Init PROVE IInv
  OBVIOUS
<1>1. TypeOK
  <2>1. 1 \in 0 .. MaxReliability
    BY TimerAssumption
  <2>2. untilNext \in Nat /\ interval \in Intervals /\ sleep \in Nat
    BY TimerAssumption DEF Init
  <2>3. reliability \in 0 .. MaxReliability
    BY <2>1 DEF Init
  <2>4. shots \in 0 .. 2 /\ due \in Nat
    BY DEF Init
  <2>5. /\ callback \in Callbacks \cup {NoCallback}
        /\ callBack \in Callbacks \cup {NoCallback}
        /\ notifying \subseteq Callers
    BY DEF Init
  <2> QED
    BY <2>2, <2>3, <2>4, <2>5 DEF Init, TypeOK
<1>2. DueOK /\ ShotOK /\ SingleShotOnce
  BY DEF Init, DueOK, ShotOK, SingleShotOnce
<1>3. NoOversleep /\ ShutdownOK /\ ShutdownIsPrompt
  BY DEF Init, NoOversleep, ShutdownOK, ShutdownIsPrompt
<1> QED
  BY <1>1, <1>2, <1>3 DEF IInv

\* Every step keeps the invariant.
LEMMA StepInvariant == IInv /\ [Next]_vars => IInv'
  BY TypeStep, DueStep, ShotStep, OversleepStep, ShutdownStep DEF IInv

\* The invariant holds in every behaviour of the timer.
LEMMA Inductive == Spec => []IInv
  BY InitInvariant, StepInvariant, PTL DEF Spec

(* Every variable keeps its shape, and setReliability its limit.           *)
THEOREM TypeCorrect == Spec => []TypeOK
<1>1. IInv => TypeOK
  BY DEF IInv
<1> QED
  BY <1>1, Inductive, PTL

(* A single shot expires at most once per start (threadSpinner).           *)
THEOREM SingleShotExpiresOnce == Spec => []SingleShotOnce
<1>1. IInv => SingleShotOnce
  BY DEF IInv
<1> QED
  BY <1>1, Inductive, PTL

(* The thread of a running timer never sleeps past its deadline without a  *)
(* wakeup on its way, whatever is called while it sleeps (start).          *)
THEOREM NeverOversleeps == Spec => []NoOversleep
<1>1. IInv => NoOversleep
  BY DEF IInv
<1> QED
  BY <1>1, Inductive, PTL

(* The destructor never waits for a deadline (threadStop).                 *)
THEOREM PromptShutdown == Spec => []ShutdownIsPrompt
<1>1. IInv => ShutdownIsPrompt
  BY DEF IInv
<1> QED
  BY <1>1, Inductive, PTL

\* Expire is the only step that chooses an expiration.
LEMMA OnlyExpireChooses ==
  ASSUME TypeOK, [Next]_vars, pc # "chosen", pc' = "chosen"
  PROVE  Expire
<1>1. CASE ThreadStep
  BY <1>1 DEF ThreadStep, SpinTest, Sleep, SleepOn, NotYet, Idle, CallOrSkip,
              WaitForReturns
<1>2. ASSUME NEW t \in Callers, CallStep(t) \/ Notify(t)
      PROVE  FALSE
  BY <1>2 DEF CallStep, StartCall, Start, SetReliability, SetCallback, Stop,
              Notify, Changed
<1>3. CASE Tick \/ CallbackReturns \/ SpuriousWakeup \/ ThreadStop \/ Join
  BY <1>3 DEF Tick, CallbackReturns, SpuriousWakeup, ThreadStop, Join
<1>4. CASE UNCHANGED vars
  BY <1>4 DEF vars
<1> QED
  BY <1>1, <1>2, <1>3, <1>4 DEF Next

(* No expiration is chosen before the delay or interval asked for has      *)
(* passed (threadSpinner's extra check).                                   *)
THEOREM ExpiresOnTime == Spec => NeverEarly
<1>1. ASSUME IInv, [Next]_vars
      PROVE  [pc # "chosen" /\ pc' = "chosen" => due = 0]_vars
  <2> SUFFICES ASSUME pc # "chosen", pc' = "chosen" PROVE due = 0
    OBVIOUS
  <2>1. Expire
    BY <1>1, OnlyExpireChooses DEF IInv
  <2> QED
    BY <1>1, <2>1 DEF Expire, DeadlineReached, IInv, DueOK, TypeOK
<1> QED
  BY <1>1, Inductive, PTL DEF Spec, NeverEarly

(* After the destructor has signalled no expiration is chosen              *)
(* (threadStop).                                                           *)
THEOREM NothingAfterShutdown == Spec => ShutdownChoosesNothing
<1>1. ASSUME IInv, [Next]_vars
      PROVE  [pc # "chosen" /\ pc' = "chosen" => destructor = "none"]_vars
  <2> SUFFICES ASSUME pc # "chosen", pc' = "chosen" PROVE destructor = "none"
    OBVIOUS
  <2>1. Expire
    BY <1>1, OnlyExpireChooses DEF IInv
  <2>2. pc \in {"lock", "wait"} /\ running
    BY <2>1 DEF Expire, WaitForReturns
  <2> QED
    BY <1>1, <2>2 DEF IInv, ShutdownOK
<1> QED
  BY <1>1, Inductive, PTL DEF Spec, ShutdownChoosesNothing
==============================================================================
