--------------------------- MODULE MCOrderChange ---------------------------
(* Instances of OrderChange for TLC: requests are interchangeable, and so  *)
(* are lines.                                                              *)
EXTENDS OrderChange, TLC

Interchangeable == Permutations(Request) \cup Permutations(Line)
============================================================================
