---------------------------- MODULE MCThreadPool ----------------------------
(***************************************************************************)
(* Instances of ThreadPool for TLC.                                        *)
(***************************************************************************)
EXTENDS ThreadPool, TLC

Symmetry == Permutations(Callers) \cup Permutations(Workers)
=============================================================================
