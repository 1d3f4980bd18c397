----------------------------- MODULE MCThreadPool -----------------------------
(* Instances of ThreadPool for TLC. *)
EXTENDS ThreadPool, TLC

\* Clients and non-null jobs are interchangeable (safety runs only).
Symmetry == Permutations(Clients) \cup Permutations(Jobs \ NullJobs)
=============================================================================
