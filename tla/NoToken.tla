------------------------------ MODULE NoToken ------------------------------
(***************************************************************************)
(* The value that stands for "no token" in the dictionary, in its hash     *)
(* tables and in its automata.                                             *)
(***************************************************************************)
EXTENDS Naturals

CONSTANT UINT32_MAX   \* larger than every token id

ASSUME Uint32MaxAssumption == UINT32_MAX \in Nat
=============================================================================
