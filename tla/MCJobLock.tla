----------------------------- MODULE MCJobLock -----------------------------
(* Instances of JobLock for TLC: worker processes are interchangeable.     *)
EXTENDS JobLock, TLC

WorkerSymmetry == Permutations(Worker)
============================================================================
