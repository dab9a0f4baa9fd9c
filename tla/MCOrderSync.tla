---------------------------- MODULE MCOrderSync ----------------------------
(* Instances of OrderSync for TLC.                                         *)
EXTENDS OrderSync, TLC

Interchangeable == Permutations(Line)
============================================================================
