---------------------------- MODULE MCDictionary ----------------------------
(***************************************************************************)
(* What bpe_from_dictionary builds, for TLC: an automaton, a pair map      *)
(* under an arbitrary hash function, or the hash tables and merges of a    *)
(* dictionary.  A behaviour is about one of them.                          *)
(***************************************************************************)
EXTENDS AhoCorasick, PairMap, SmallDictionaries

LOCAL INSTANCE SequencesExt

CONSTANTS Dictionaries, Factors           \* of HashedDictionary

VARIABLES
  part,                                   \* what the behaviour is about
  vocab, factor, next_id, hash_to_token,  \* of HashedDictionary, which
  pair_lookup, pairs, split, checked      \* shares pc with AhoCorasick

(***************************************************************************)
(* A hash of 64 values: the bytes as digits, times the factor.  Multiples  *)
(* of 2 as factors make more and more tokens collide.                      *)
(***************************************************************************)
HashBytes(bytes, multiplier) ==
  (FoldLeft(LAMBDA h, byte : 3 * h + (IF byte = "a" THEN 1 ELSE 2), 0, bytes) * multiplier) % 64

HashPair(pair) == 5 * pair[1] + 3 * pair[2]

Tables == INSTANCE HashedDictionary

automatonVars == <<words, added, build, state, read>>
tableVars     == <<vocab, factor, next_id, hash_to_token, pair_lookup, pairs, split, checked>>

NoAutomaton ==
  /\ words = <<>> /\ added = 0
  /\ trie = <<>> /\ fail = <<>> /\ output = <<>> /\ outputs = <<>> /\ queue = <<>>
  /\ base = <<>> /\ check = <<>> /\ slot = <<>> /\ next_base = 0 /\ cells = <<>>
  /\ state = 0 /\ read = <<>>

NoPairs == pairmap_hash = [k \in Keys |-> 0] /\ slots = NewSlots(MinCapacity) /\ count = 0

NoTables ==
  /\ vocab = <<>> /\ factor = 1 /\ next_id = 0 /\ hash_to_token = <<>> /\ pair_lookup = <<>>
  /\ pairs = 0 /\ split = <<>> /\ checked = FALSE

AllInit ==
  \/ part = "automaton" /\ Init /\ NoPairs /\ NoTables
  \/ part = "pairs" /\ InitPairs /\ NoAutomaton /\ NoTables /\ pc = "none"
  \/ part = "tables" /\ Tables!Init /\ NoAutomaton /\ NoPairs

AllNext ==
  \/ /\ part = "automaton"
     /\ Next
     /\ UNCHANGED <<part, pairMap, tableVars>>
  \/ /\ part = "pairs"
     /\ NextPairs
     /\ UNCHANGED <<part, pc, automatonVars, tableVars>>
  \/ /\ part = "tables"
     /\ Tables!Next
     /\ UNCHANGED <<part, automatonVars, pairMap>>

AllSpec == AllInit /\ [][AllNext]_<<part, pc, automatonVars, pairMap, tableVars>>

(* Lists of three tokens over the bytes 0 and 3, equal ones included;      *)
(* texts also have the byte 2.  The array starts with so few slots that it *)
(* has to grow.                                                            *)
ShortWords == UNION {[1 .. n -> {0, 3}] : n \in 1 .. 3}
Triples == {[id \in 0 .. 2 |-> IF id = 0 THEN u ELSE IF id = 1 THEN v ELSE w] :
              u, v, w \in ShortWords}

-----------------------------------------------------------------------------
(***************************************************************************)
(* A hash multiplier without collisions, or one that bpe_self_check has    *)
(* passed, gives the exact dictionary (see HashedDictionary).              *)
(***************************************************************************)
SelfCheckIsEnough == part = "tables" => Tables!SelfCheckIsEnough
=============================================================================
