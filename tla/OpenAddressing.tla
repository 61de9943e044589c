--------------------------- MODULE OpenAddressing ---------------------------
(***************************************************************************)
(* The two maps of include/fnv_hash.h as operators on their slots.  Both   *)
(* are arrays probed from the home slot of a hash to the first empty one;  *)
(* nothing is ever removed.  A BytesMap is the case where the key is the   *)
(* hash itself and the array never grows.                                  *)
(***************************************************************************)
EXTENDS NoToken, Integers, FiniteSets

CONSTANT MinCapacity   \* capacity of the smallest map: 16

ASSUME CapacityAssumption == MinCapacity \in Nat \ {0, 1}

Slot(key, value) == [key |-> key, value |-> value]
IsEmpty(slot)    == slot.value = UINT32_MAX

(* MinCapacity, doubled until it is twice the initial number of entries *)
NewCapacity(initial_cap) ==
  LET cap[n \in 0 .. initial_cap] == IF n = 0 THEN MinCapacity ELSE 2 * cap[n - 1]
      Enough(n) == cap[n] >= 2 * initial_cap
  IN  cap[CHOOSE n \in 0 .. initial_cap : Enough(n) /\ \A m \in 0 .. n - 1 : ~Enough(m)]

NewSlots(capacity) == [i \in 0 .. capacity - 1 |-> Slot(0, UINT32_MAX)]

SlotsOf(slots) == Cardinality(DOMAIN slots)

(* the probe stays in the last slot when it gets there *)
Probe_NotAround(slots, hash, stops) ==
  LET last  == SlotsOf(slots) - 1
      steps == {i \in hash % SlotsOf(slots) .. last : i \in stops}
  IN  CHOOSE i \in steps \cup {last} : \A j \in steps : i <= j

(***************************************************************************)
(* The probe for a hash: the first of the places stops from the home slot  *)
(* of the hash on, around the end of the array.  If stops is empty the     *)
(* loop of the code never ends; this operator then has no value.           *)
(***************************************************************************)
Probe(slots, hash, stops) ==
  LET At(d) == (hash + d) % SlotsOf(slots)
      steps == {d \in 0 .. SlotsOf(slots) - 1 : At(d) \in stops}
  IN  At(CHOOSE d \in steps : \A e \in steps : d <= e)

EmptyPlaces(slots) == {i \in DOMAIN slots : IsEmpty(slots[i])}

(* bytesmap_insert, pairmap_insert: equal keys are not looked for *)
WithEntry(slots, hash, key, value) ==
  [slots EXCEPT ![Probe(slots, hash, EmptyPlaces(slots))] = Slot(key, value)]

(* bytesmap_get, pairmap_get *)
Get(slots, hash, key) ==
  LET stops == {i \in DOMAIN slots : IsEmpty(slots[i]) \/ slots[i].key = key}
  IN  slots[Probe(slots, hash, stops)].value

(***************************************************************************)
(* pairmap_grow: twice the slots, and every entry is inserted again, in    *)
(* the order of the old slots.                                             *)
(***************************************************************************)
Doubled(slots, hash_of) ==
  LET moved[n \in 0 .. SlotsOf(slots)] ==
        IF n = 0 THEN NewSlots(2 * SlotsOf(slots))
        ELSE LET old == slots[n - 1]
             IN  IF IsEmpty(old) THEN moved[n - 1]
                 ELSE WithEntry(moved[n - 1], hash_of[old.key], old.key, old.value)
  IN  moved[SlotsOf(slots)]
=============================================================================
