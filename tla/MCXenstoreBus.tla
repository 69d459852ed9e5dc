--------------------------- MODULE MCXenstoreBus ---------------------------
(***************************************************************************)
(* XenstoreBus for TLC.  Tasks are interchangeable, and so are handles.    *)
(***************************************************************************)
EXTENDS XenstoreBus, TLC

Symmetry == Permutations(Callers) \cup Permutations(Handles)
=============================================================================
