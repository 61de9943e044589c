---------------------------- MODULE BatchService ----------------------------
(***************************************************************************)
(* What parallel.h and threadpool.h promise a caller, whatever runs the    *)
(* items: a batch is submitted, each of its items is done once, in any     *)
(* order, and the call returns after the last one.                         *)
(***************************************************************************)
EXTENDS Naturals

CONSTANTS Callers, MaxBatch

VARIABLES
  call,   \* "idle", "open" or "returned", for each caller
  size,   \* number of items of its batch
  done    \* indices of the items that are done

vars == <<call, size, done>>

Init ==
  /\ call = [c \in Callers |-> "idle"]
  /\ size = [c \in Callers |-> 0]
  /\ done = [c \in Callers |-> {}]

Submit(c) ==
  /\ call[c] = "idle"
  /\ call' = [call EXCEPT ![c] = "open"]
  /\ \E n \in 0 .. MaxBatch : size' = [size EXCEPT ![c] = n]
  /\ UNCHANGED done

Do(c, i) ==
  /\ call[c] = "open"
  /\ i \notin done[c]
  /\ done' = [done EXCEPT ![c] = @ \cup {i}]
  /\ UNCHANGED <<call, size>>

Return(c) ==
  /\ call[c] = "open"
  /\ done[c] = 1 .. size[c]
  /\ call' = [call EXCEPT ![c] = "returned"]
  /\ UNCHANGED <<size, done>>

Next ==
  \E c \in Callers :
    \/ Submit(c)
    \/ \E i \in 1 .. size[c] : Do(c, i)
    \/ Return(c)

(* What may happen ... *)
Steps == Init /\ [][Next]_vars

(* ... and what must: every submitted batch is worked off and returned from. *)
Spec ==
  /\ Steps
  /\ \A c \in Callers : WF_vars(\/ \E i \in 1 .. size[c] : Do(c, i)
                                \/ Return(c))
=============================================================================
