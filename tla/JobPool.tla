------------------------------- MODULE JobPool -------------------------------
(***************************************************************************)
(* What ccol::thread::ThreadPool promises its users, without threads,      *)
(* mutex, condition variables or counters: jobs are taken in the order     *)
(* they were submitted, at most Capacity of them are in progress at a      *)
(* time, no job passes the last check before its call once the pool is     *)
(* closing, and none is in progress when it is closed.                     *)
(*                                                                         *)
(* Jobs taken by different threads pass that check, and are called, in any *)
(* order; only a pool of one thread calls them in the order of submission. *)
(* A job that has passed may be called after the closing has begun.        *)
(* ThreadPool implements it, and CallbackEventQueue with one thread.       *)
(***************************************************************************)
EXTENDS Naturals, Sequences, FiniteSets

CONSTANTS
  NullJobs,   \* jobs that are empty std::function objects
  Capacity    \* how many jobs run at the same time

VARIABLES
  queue,      \* jobs submitted and not yet taken, in order
  taken,      \* jobs that have left the queue and not passed the check
  started,    \* jobs that have passed it and not returned
  status      \* "open", "closing" once destruction begins, "closed" after it

vars == <<queue, taken, started, status>>

Init ==
  /\ queue = <<>>
  /\ taken = {}
  /\ started = {}
  /\ status = "open"

\* The queue is extended at its back, by one job or by several.
Submit ==
  /\ status # "closed"
  /\ Len(queue') > Len(queue)
  /\ SubSeq(queue', 1, Len(queue)) = queue
  /\ UNCHANGED <<taken, started, status>>

\* The queued jobs are thrown away or handed back.
Withdraw ==
  /\ status # "closed"
  /\ queue' = <<>>
  /\ UNCHANGED <<taken, started, status>>

\* The oldest job leaves the queue for a free thread.
Take ==
  /\ status # "closed"
  /\ queue # <<>>
  /\ Cardinality(taken \cup started) < Capacity
  /\ queue' = Tail(queue)
  /\ taken' = taken \cup {Head(queue)}
  /\ UNCHANGED <<started, status>>

\* Any of the jobs taken passes the check while the pool is open ...
Start(job) ==
  /\ status = "open"
  /\ job \in taken \ NullJobs
  /\ taken' = taken \ {job}
  /\ started' = started \cup {job}
  /\ UNCHANGED <<queue, status>>

\* ... or is dropped when it is null or the pool is closing.
Drop(job) ==
  /\ job \in taken
  /\ job \in NullJobs \/ status # "open"
  /\ taken' = taken \ {job}
  /\ UNCHANGED <<queue, started, status>>

Finish(job) ==
  /\ job \in started
  /\ started' = started \ {job}
  /\ UNCHANGED <<queue, taken, status>>

Close ==
  /\ status = "open"
  /\ status' = "closing"
  /\ UNCHANGED <<queue, taken, started>>

Closed ==
  /\ status = "closing"
  /\ taken \cup started = {}
  /\ status' = "closed"
  /\ UNCHANGED <<queue, taken, started>>

Next ==
  \/ Submit
  \/ Withdraw
  \/ Take
  \/ \E job \in taken : Start(job) \/ Drop(job)
  \/ \E job \in started : Finish(job)
  \/ Close
  \/ Closed

Spec == Init /\ [][Next]_vars
=============================================================================
