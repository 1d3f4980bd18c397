------------------------ MODULE CancellableJobsProofs ------------------------
(***************************************************************************)
(* Theorems about a ThreadPool whose jobs poll CancellationTokens, for     *)
(* every number of workers, sources and jobs.                              *)
(*                                                                         *)
(* The pool is a ThreadPool, so what is proved of one holds of it.  That   *)
(* destroyed sources free its jobs follows from TokensOK: tokens are       *)
(* handed out by living sources only, and a flag, once set, stays set.     *)
(***************************************************************************)
EXTENDS CancellableJobs, JobPoolProofs

-----------------------------------------------------------------------------
(* The pool.                                                               *)

\* Every step with tokens is a step of the pool or does not show to it.
LEMMA StepIsPoolStep == ASSUME [NextWithTokens]_allVars PROVE [Next]_vars
  BY DEF NextWithTokens, PoolStep, Token, Cancel, DestroySource, allVars

(* A pool whose jobs are cancelled through tokens is a ThreadPool: a       *)
(* polling job only ends later than it might.                              *)
THEOREM PoolInside == SpecWithTokens => Spec
<1>1. InitWithTokens => Init
  BY DEF InitWithTokens
<1> QED
  BY <1>1, StepIsPoolStep, PTL DEF SpecWithTokens, Spec

(* wait and wait_for return early under no interleaving of jobs that call  *)
(* their own pool, of tokens and of sources that cancel (threadpool.cxx,   *)
(* Impl::wait).                                                            *)
THEOREM WaitNeverEarlyWithTokens == SpecWithTokens => []WaitIsSound
  BY PoolInside, WaitNeverEarly, PTL

(* Jobs that are cancelled are neither lost nor run twice, and the pool    *)
(* still does what JobPool says.                                           *)
THEOREM CancelledJobsKept == SpecWithTokens => []Conservation /\ ImplementsJobPool
  BY PoolInside, NoJobLostOrDuplicated, PoolImplementsJobPool, PTL

-----------------------------------------------------------------------------
(* The tokens.                                                             *)

\* No source is destroyed and no token handed out at first.
LEMMA TokensInit == ASSUME InitWithTokens PROVE TokensOK
  BY DEF InitWithTokens, TokensOK

\* Only sources that live are handed out, cancelled or destroyed, and a source
\* that is destroyed cancels first.
LEMMA TokensStep ==
  ASSUME TokensOK, [NextWithTokens]_allVars
  PROVE  TokensOK'
<1> USE DEF TokensOK
<1>1. CASE PoolStep \/ UNCHANGED allVars
  BY <1>1 DEF PoolStep, allVars, tokenVars
<1>2. ASSUME NEW s \in Sources, NEW job \in PollingJobs, Token(s, job)
      PROVE  TokensOK'
  BY <1>2 DEF Token
<1>3. ASSUME NEW s \in Sources, Cancel(s)
      PROVE  TokensOK'
  BY <1>3 DEF Cancel
<1>4. ASSUME NEW s \in Sources, DestroySource(s)
      PROVE  TokensOK'
  BY <1>4 DEF DestroySource
<1> QED
  BY <1>1, <1>2, <1>3, <1>4 DEF NextWithTokens

(* A source that is gone has left its flag set (~CancellationTokenSource). *)
THEOREM TokensInductive == SpecWithTokens => []TokensOK
  BY TokensInit, TokensStep, PTL DEF SpecWithTokens

(* Once the last source is destroyed, every job that polls a token may     *)
(* return, so that only scheduling stands between ~Impl's join and its     *)
(* end (~CancellationTokenSource; the safety half of                       *)
(* DestructorReturnsOnceCancelled).                                        *)
THEOREM DestroyedSourcesFreeThePool == SpecWithTokens => []NobodyHoldsThePool
<1>1. ASSUME TokensOK
      PROVE  NobodyHoldsThePool
  <2> SUFFICES ASSUME alive = {},
                      NEW w \in Workers, callback[w] \in PollingJobs
               PROVE  IsCancelled(callback[w])
    BY DEF NobodyHoldsThePool, MayFinish
  <2>1. token[callback[w]] \in Sources \cup {NoSource}
    BY <1>1 DEF TokensOK
  <2>2. \A s \in Sources : cancellationVariable[s]
    BY <1>1 DEF TokensOK
  <2> QED
    BY <2>1, <2>2 DEF IsCancelled
<1> QED
  BY <1>1, TokensInductive, PTL

(* Cancelling is final for a job that was submitted (CancellationToken::   *)
(* isCancelled): no step of the pool, of another job or of a source        *)
(* clears the flag its token shares, and its token is not replaced.        *)
THEOREM CancellingIsFinal == SpecWithTokens => CancelledForGood
<1>1. ASSUME TokensOK, [NextWithTokens]_allVars,
             NEW job \in PollingJobs, fate[job] # "new", IsCancelled(job)
      PROVE  IsCancelled(job)'
  <2> USE <1>1 DEF TokensOK
  <2>1. token'[job] = token[job]
    <3>1. CASE \E s \in Sources, other \in PollingJobs : Token(s, other)
      <4>1. PICK s \in Sources, other \in PollingJobs : Token(s, other)
        BY <3>1
      <4>2. other # job
        BY <4>1 DEF Token
      <4> QED
        BY <4>1, <4>2 DEF Token
    <3>2. CASE ~ \E s \in Sources, other \in PollingJobs : Token(s, other)
      BY <3>2 DEF NextWithTokens, PoolStep, Cancel, DestroySource, allVars,
                  tokenVars
    <3> QED
      BY <3>1, <3>2
  <2>2. ASSUME NEW s \in Sources, cancellationVariable[s]
        PROVE  cancellationVariable'[s]
    BY <2>2 DEF NextWithTokens, PoolStep, Token, Cancel, DestroySource,
                allVars, tokenVars
  <2> QED
    BY <2>1, <2>2 DEF IsCancelled
<1>2. TokensOK /\ [NextWithTokens]_allVars
      => [\A job \in PollingJobs :
            fate[job] # "new" /\ IsCancelled(job) => IsCancelled(job)']_allVars
  BY <1>1
<1> QED
  BY <1>2, TokensInductive, PTL DEF SpecWithTokens, CancelledForGood
=============================================================================
