--------------------------- MODULE CancellableJobs ---------------------------
(***************************************************************************)
(* Jobs of a ThreadPool that work until their CancellationToken is         *)
(* cancelled: the "cancelation mechanism" threadpool.hxx asks for, because *)
(* "Any job that is still executing will block destruction".  A token      *)
(* shares one atomic flag with its CancellationTokenSource and outlives    *)
(* it; the source sets the flag in cancel() and when it is destroyed.      *)
(***************************************************************************)
EXTENDS ThreadPool

CONSTANTS
  Sources,       \* CancellationTokenSource objects
  NoSource,      \* no flag: a default constructed token
  PollingJobs    \* the jobs that return only once their token is cancelled

ASSUME SourcesAssumption ==
  /\ NoSource \notin Sources
  /\ PollingJobs \subseteq Jobs \ NullJobs

VARIABLES
  cancellationVariable,   \* the flag each source shares with its tokens
  alive,                  \* the sources that are not destroyed
  token                   \* the source of the token each polling job holds

tokenVars == <<cancellationVariable, alive, token>>
allVars == <<vars, tokenVars>>

InitWithTokens ==
  /\ Init
  /\ cancellationVariable = [s \in Sources |-> FALSE]
  /\ alive = Sources
  /\ token = [j \in PollingJobs |-> NoSource]

\* token(), for a job that has not been submitted yet
Token(s, job) ==
  /\ s \in alive
  /\ token[job] = NoSource
  /\ fate[job] = "new"
  /\ token' = [token EXCEPT ![job] = s]
  /\ UNCHANGED <<vars, cancellationVariable, alive>>

\* cancel(), by any thread that can reach the source, running jobs included
Cancel(s) ==
  /\ s \in alive
  /\ cancellationVariable' = [cancellationVariable EXCEPT ![s] = TRUE]
  /\ UNCHANGED <<vars, alive, token>>

\* Fault: the source goes and leaves the flag to its tokens as it is.
DestroySourceQuietly(s) ==
  /\ s \in alive
  /\ alive' = alive \ {s}
  /\ UNCHANGED <<vars, cancellationVariable, token>>

\* ~CancellationTokenSource
DestroySource(s) ==
  /\ s \in alive
  /\ cancellationVariable' = [cancellationVariable EXCEPT ![s] = TRUE]
  /\ alive' = alive \ {s}
  /\ UNCHANGED <<vars, token>>

\* isCancelled(): a token without a flag is cancelled.
IsCancelled(job) ==
  token[job] \in {NoSource} \cup {s \in Sources : cancellationVariable[s]}

MayFinish(w) == callback[w] \in PollingJobs => IsCancelled(callback[w])

\* The pool goes on as ever, but a polling job does not return before its
\* token is cancelled.
PoolStep ==
  /\ Next
  /\ \A w \in Workers : pc[w] = "callback" /\ pc'[w] = "loop" => MayFinish(w)
  /\ UNCHANGED tokenVars

NextWithTokens ==
  \/ PoolStep
  \/ \E s \in Sources : \/ \E job \in PollingJobs : Token(s, job)
                        \/ Cancel(s)
                        \/ DestroySource(s)

SpecWithTokens == InitWithTokens /\ [][NextWithTokens]_allVars

\* A job that may return does; nobody is obliged to cancel.
JobsReturnWhenCancelled ==
  \A w \in Workers :
    SF_allVars(FinishJob(w) /\ MayFinish(w) /\ UNCHANGED tokenVars)

FairSpecWithTokens ==
  /\ SpecWithTokens
  /\ ThreadsAreScheduled
  /\ JobsReturnWhenCancelled

-----------------------------------------------------------------------------
(* Properties.                                                             *)

(* Whenever the last source is destroyed, before the pool is or while its  *)
(* destructor is already blocked by a job, the destructor returns: every   *)
(* token of every job, queued or running, is cancelled with its source     *)
(* (~CancellationTokenSource, ~Impl).                                      *)
DestructorReturnsOnceCancelled ==
  destructor # "none" /\ alive = {} ~> destructor = "done"

(* And until it is destroyed the pool goes on working: with every source   *)
(* gone no job stays queued behind jobs that wait for their token or for   *)
(* the pool itself.  It takes a worker, also where the hardware reports    *)
(* none (Impl::Impl).                                                      *)
QueuedJobTakenOnceCancelled ==
  \A j \in Jobs :
    j \in Range(jobs) /\ alive = {} ~> j \notin Range(jobs) \/ ~running

(* What these rest on: with every source gone no job is kept from returning, *)
(* whichever tokens the jobs hold and whenever they were submitted.        *)
NobodyHoldsThePool == alive = {} => \A w \in Workers : MayFinish(w)

(* A job that was submitted and finds its token cancelled finds it so ever *)
(* after: a later look of the same job, or of a thread that waits for it,  *)
(* does not take it back.                                                  *)
CancelledForGood ==
  [][\A job \in PollingJobs :
       fate[job] # "new" /\ IsCancelled(job) => IsCancelled(job)']_allVars

-----------------------------------------------------------------------------
(* What these rest on.                                                     *)

\* Every variable keeps its shape, and no source goes without its flag set.
TokensOK ==
  /\ cancellationVariable \in [Sources -> BOOLEAN]
  /\ alive \subseteq Sources
  /\ token \in [PollingJobs -> Sources \cup {NoSource}]
  /\ \A s \in Sources \ alive : cancellationVariable[s]
=============================================================================
