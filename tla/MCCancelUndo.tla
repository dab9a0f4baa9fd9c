---------------------------- MODULE MCCancelUndo ----------------------------
(* Instances of CancelUndo for TLC.                                        *)
EXTENDS CancelUndo, TLC

Interchangeable == Permutations(Line) \cup Permutations(Request)
============================================================================
