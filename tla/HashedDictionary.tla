-------------------------- MODULE HashedDictionary --------------------------
(***************************************************************************)
(* bpe_from_dictionary with its two hash tables, and bpe_self_check.       *)
(* Module BytePairEncoding describes the dictionary as if a lookup always  *)
(* answered; here two tokens may have the same 32-bit hash, and of these   *)
(* the table finds only the one inserted first.                            *)
(***************************************************************************)
EXTENDS BytePairEncoding, OpenAddressing

CONSTANTS
  Dictionaries,    \* the token lists callers pass
  Factors,         \* the hash_factor callers pass
  HashBytes(_, _), \* bpe_hash_bytes
  HashPair(_)      \* pairmap_hash

VARIABLES
  vocab,          \* all_tokens and token_starts
  factor,         \* bpe->hash_factor
  pc,             \* "put", "merge", "built", "checked"
  next_id,        \* the loop variable
  hash_to_token,  \* slots of the BytesMap; the key is the hash
  pair_lookup,    \* slots of the PairMap
  pairs,          \* pair_lookup.count
  split,          \* split_left and split_right
  checked         \* what bpe_self_check returned

vars == <<vocab, factor, pc, next_id, hash_to_token, pair_lookup, pairs, split, checked>>

Ids       == DOMAIN vocab
NumTokens == Cardinality(Ids)

Init ==
  /\ vocab \in Dictionaries
  /\ \E hash_factor \in Factors : factor = IF hash_factor = 0 THEN 1 ELSE hash_factor
  /\ pc = "put"
  /\ next_id = 0
  /\ hash_to_token = NewSlots(NewCapacity(2 * NumTokens))
  /\ pair_lookup = <<>>
  /\ pairs = 0
  /\ split = [left |-> <<>>, right |-> <<>>]
  /\ checked = FALSE

PutToken ==
  /\ pc = "put"
  /\ next_id < NumTokens
  /\ LET hash == HashBytes(vocab[next_id], factor)
     IN  hash_to_token' = WithEntry(hash_to_token, hash, hash, next_id)
  /\ next_id' = next_id + 1
  /\ UNCHANGED <<vocab, factor, pc, pair_lookup, pairs, split, checked>>

(* every token starts as a primitive one *)
StartMerges ==
  /\ pc = "put"
  /\ next_id = NumTokens
  /\ pc' = "merge"
  /\ next_id' = 0
  /\ pair_lookup' = NewSlots(NewCapacity(2 * NumTokens))
  /\ split' = [left |-> [id \in Ids |-> id], right |-> [id \in Ids |-> id]]
  /\ UNCHANGED <<vocab, factor, hash_to_token, pairs, checked>>

(* the bytes of the token that is found are not compared *)
FindToken_NotVerified(bytes) ==
  LET hash == HashBytes(bytes, factor) IN Get(hash_to_token, hash, hash)

(* bpe_find_token_by_bytes *)
FindToken(bytes) ==
  LET hash == HashBytes(bytes, factor)
      id   == Get(hash_to_token, hash, hash)
  IN  IF id # UINT32_MAX /\ vocab[id] = bytes THEN id ELSE UINT32_MAX

(* pair_lookup as pairmap_get answers *)
PairLookup ==
  LET Found(pair) == Get(pair_lookup, HashPair(pair), pair)
  IN  [pair \in {p \in Ids \X Ids : Found(p) # UINT32_MAX} |-> Found(pair)]

(***************************************************************************)
(* The body of the loop over the ids.  The tokens on the chain of prefixes *)
(* are tried from the longest to the shortest.                             *)
(***************************************************************************)
MergeToken ==
  /\ pc = "merge"
  /\ next_id < NumTokens
  /\ LET id     == next_id
         prefix == NextPrefixMatch(vocab)
         chain[t \in Ids \cup {UINT32_MAX}] ==
           IF t = UINT32_MAX THEN {} ELSE {t} \cup chain[prefix[t]]
         Rest(t) == FindToken(SubSeq(vocab[id], Len(vocab[t]) + 1, Len(vocab[id])))
         token1s == {t \in chain[prefix[id]] :
                       /\ Rest(t) # UINT32_MAX /\ t < id /\ Rest(t) < id
                       /\ IsValidTokenPair(split.left, split.right, PairLookup, t, Rest(t))}
         token1  == CHOOSE t \in token1s : \A u \in token1s : Len(vocab[u]) <= Len(vocab[t])
         pair    == <<token1, Rest(token1)>>
         hash_of == [p \in Ids \X Ids |-> HashPair(p)]
         room    == IF pairs * 2 >= SlotsOf(pair_lookup) THEN Doubled(pair_lookup, hash_of)
                    ELSE pair_lookup
     IN  IF token1s = {} THEN UNCHANGED <<pair_lookup, pairs, split>>
         ELSE /\ pair_lookup' = WithEntry(room, HashPair(pair), pair, id)
              /\ pairs' = pairs + 1
              /\ split' = [left  |-> [split.left  EXCEPT ![id] = pair[1]],
                           right |-> [split.right EXCEPT ![id] = pair[2]]]
  /\ next_id' = next_id + 1
  /\ UNCHANGED <<vocab, factor, pc, hash_to_token, checked>>

EndMerges ==
  /\ pc = "merge"
  /\ next_id = NumTokens
  /\ pc' = "built"
  /\ UNCHANGED <<vocab, factor, next_id, hash_to_token, pair_lookup, pairs, split, checked>>

-----------------------------------------------------------------------------
(***************************************************************************)
(* What bpe_encode_via_bitfield may return: as long as two neighbours join *)
(* to a token that is found, the one of lowest rank is joined; of equal    *)
(* ranks any may come out of the heap first (module BitfieldEncoder has    *)
(* the heap).  A part that is not found yields UINT32_MAX.                 *)
(***************************************************************************)
JoinsOf(parts) ==
  LET Joined(i) == parts[i] \o parts[i + 1]
      joins     == {i \in 1 .. Len(parts) - 1 : FindToken(Joined(i)) # UINT32_MAX}
      lowest    == {i \in joins : \A j \in joins : FindToken(Joined(i)) <= FindToken(Joined(j))}
  IN  IF joins = {} THEN {parts}
      ELSE {SubSeq(parts, 1, i - 1) \o <<Joined(i)>> \o SubSeq(parts, i + 2, Len(parts)) :
              i \in lowest}

BitfieldEncodings(bytes) ==
  LET after[n \in 0 .. Len(bytes)] ==
        IF n = 0 THEN {[i \in 1 .. Len(bytes) |-> <<bytes[i]>>]}
        ELSE UNION {JoinsOf(parts) : parts \in after[n - 1]}
  IN  {[i \in DOMAIN parts |-> FindToken(parts[i])] : parts \in after[Len(bytes)]}

EncodesToItself(encoding, id) == encoding = <<id>>

(* bpe_self_check: every token has to pass *)
SelfCheck ==
  /\ pc = "built"
  /\ pc' = "checked"
  /\ LET Passes(id) == {EncodesToItself(e, id) : e \in BitfieldEncodings(vocab[id])}
     IN  \/ /\ \A id \in Ids : TRUE \in Passes(id)
            /\ checked' = TRUE
         \/ /\ \E id \in Ids : FALSE \in Passes(id)
            /\ checked' = FALSE
  /\ UNCHANGED <<vocab, factor, next_id, hash_to_token, pair_lookup, pairs, split>>

Next == PutToken \/ StartMerges \/ MergeToken \/ EndMerges \/ SelfCheck

Spec == Init /\ [][Next]_vars

-----------------------------------------------------------------------------
(* the hash_factor that bpe.h asks for *)
CollisionFree ==
  \A id, other \in Ids :
    id # other => HashBytes(vocab[id], factor) # HashBytes(vocab[other], factor)

(* the tables answer as module BytePairEncoding says *)
TablesExact ==
  LET exact == FromDictionary(vocab)
  IN  /\ split = [left |-> exact.split_left, right |-> exact.split_right]
      /\ PairLookup = exact.pair_lookup
      /\ \A id, other \in Ids :
           LET bytes == vocab[id] \o vocab[other]
           IN  /\ FindToken(vocab[id]) = id
               /\ FindToken(bytes) = FindTokenByBytes(vocab, bytes)

(***************************************************************************)
(* A hash multiplier without collisions gives the exact dictionary; and if *)
(* in doubt, bpe_self_check tells: a dictionary that passes is exact.      *)
(* Strings that are not tokens but have the hash of one do no harm.        *)
(***************************************************************************)
SelfCheckIsEnough ==
  /\ pc = "built" /\ CollisionFree => TablesExact
  /\ pc = "checked" /\ checked => TablesExact
=============================================================================
