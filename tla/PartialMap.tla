----------------------------- MODULE PartialMap -----------------------------
(***************************************************************************)
(* What a hash map promises: a partial function from keys to values, to    *)
(* which entries are added.                                                *)
(***************************************************************************)
CONSTANTS Keys, Values

VARIABLE map

Init == DOMAIN map = {}

Put(key, value) ==
  /\ key \notin DOMAIN map
  /\ map' = [k \in DOMAIN map \cup {key} |-> IF k = key THEN value ELSE map[k]]

Next == \E key \in Keys, value \in Values : Put(key, value)

Spec == Init /\ [][Next]_map
=============================================================================
