--------------------------- MODULE MCOrderCreate ---------------------------
(* Instances of OrderCreate for TLC.  Requests are interchangeable, and so *)
(* are lines, in the runs without liveness.                                *)
EXTENDS OrderCreate, TLC

Interchangeable == Permutations(Request) \cup Permutations(Line)
============================================================================
