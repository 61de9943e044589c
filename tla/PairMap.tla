------------------------------ MODULE PairMap ------------------------------
(***************************************************************************)
(* The PairMap of include/fnv_hash.h under any hash function: a caller     *)
(* inserts new keys, in any order, and the map grows before it is more     *)
(* than half full.  A key stands for a pair of token ids.                  *)
(***************************************************************************)
EXTENDS OpenAddressing

CONSTANTS
  Keys,      \* the keys callers insert
  Hashes,    \* the values of pairmap_hash
  FirstCaps  \* the arguments of pairmap_new

ASSUME KeysAssumption ==
  /\ IsFiniteSet(Keys) /\ Cardinality(Keys) <= UINT32_MAX   \* values are ids below it
  /\ Hashes \subseteq Nat
  /\ FirstCaps \subseteq Nat

VARIABLES
  pairmap_hash,  \* the hash function
  slots,         \* m->slots; their number is m->capacity
  count          \* m->count

pairMap == <<pairmap_hash, slots, count>>

InitPairs ==
  /\ pairmap_hash \in [Keys -> Hashes]
  /\ \E cap \in FirstCaps : slots = NewSlots(NewCapacity(cap))
  /\ count = 0

(* UINT32_MAX if the key is not found *)
PairGet(key) == Get(slots, pairmap_hash[key], key)

TooFull == count * 2 >= SlotsOf(slots)

PairInsert(key, value) ==
  /\ PairGet(key) = UINT32_MAX
  /\ LET room == IF TooFull THEN Doubled(slots, pairmap_hash) ELSE slots
     IN  slots' = WithEntry(room, pairmap_hash[key], key, value)
  /\ count' = count + 1
  /\ UNCHANGED pairmap_hash

(* bpe_from_dictionary inserts token ids in rising order *)
NextPairs == \E key \in Keys : PairInsert(key, count)

SpecPairs == InitPairs /\ [][NextPairs]_pairMap

-----------------------------------------------------------------------------
(* what pairmap_get finds *)
Lookups == [key \in {k \in Keys : PairGet(k) # UINT32_MAX} |-> PairGet(key)]

Abstract == INSTANCE PartialMap WITH
  map <- Lookups, Values <- 0 .. Cardinality(Keys) - 1

(***************************************************************************)
(* The map is a map, whatever keys collide: every insertion, also one that *)
(* moves all entries to a larger array, adds its own entry to what         *)
(* pairmap_get finds and changes no other.  No probe runs for ever: there  *)
(* is an empty slot.  (No step is a stuttering step of PartialMap, so this *)
(* is stronger than Abstract!Spec.  The test of pairMap' says nothing new; *)
(* it spares TLC an evaluation.)                                           *)
(***************************************************************************)
ImplementsMap ==
  /\ Abstract!Init
  /\ [][pairMap' # pairMap => Abstract!Next]_pairMap
  /\ [](EmptyPlaces(slots) # {})
=============================================================================
