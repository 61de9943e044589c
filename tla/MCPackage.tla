----------------------------- MODULE MCPackage -----------------------------
(***************************************************************************)
(* The Python side for TLC: one process with two threads and one with a    *)
(* single thread, which either get tokenizers or run batches.  (A batch    *)
(* takes the tokenizer as it is, and the calls share nothing but the GIL.) *)
(***************************************************************************)
EXTENDS PrecomputedTables, GlobalPool

CONSTANTS t1, t2, t3, p1, p2

TwoAndOne == [t \in Threads |-> IF t = t3 THEN p2 ELSE p1]

VARIABLE part  \* what the behaviour is about

Init ==
  /\ InitThreads /\ InitTables /\ InitPool
  /\ part \in {"tables", "pool"}

Next ==
  \/ part = "tables" /\ NextTables /\ UNCHANGED <<part, poolVars>>
  \/ part = "pool" /\ NextPool /\ UNCHANGED <<part, tableVars>>

Spec ==
  /\ Init /\ [][Next]_<<part, pc, gil, tableVars, poolVars>>
  /\ FairTables /\ FairPool

-----------------------------------------------------------------------------
(***************************************************************************)
(* "could assert p - blob == blob_len" (bpe_core.c:791): every tokenizer   *)
(* made from the file uses exactly the bytes that were read.               *)
(***************************************************************************)
CouldAssert == \A p \in Processes : \A i \in DOMAIN built[p] : built[p][i].exact
=============================================================================
