----------------------------- MODULE MCWorkerPool -----------------------------
(***************************************************************************)
(* An instance of WorkerPool for TLC: two workers, and two jobs that meet  *)
(* in the queue of the second.                                             *)
(***************************************************************************)
EXTENDS WorkerPool

MCJobs == {"a", "b"}
MCId   == [j \in MCJobs |-> IF j = "a" THEN 1 ELSE 3]
=============================================================================
