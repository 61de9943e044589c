-------------------------- MODULE BytePairEncoding --------------------------
(***************************************************************************)
(* The dictionary of src/bpe_core.c and the pure functions on it: what     *)
(* bpe_from_dictionary builds and what every encoder of the file calls.    *)
(*                                                                         *)
(* A vocabulary is a function from the token ids 0 .. num_tokens-1 to the  *)
(* byte sequence of each token.  Text positions are the C ones (0-based);  *)
(* byte number p of a text is text[p + 1].  The hash tables are modelled   *)
(* by the lookups they implement, the Aho-Corasick automaton by the search *)
(* it performs.                                                            *)
(***************************************************************************)
EXTENDS NoToken, Integers, Sequences, FiniteSets

(***************************************************************************)
(* word is found at byte pos of text and ends no later than byte end.      *)
(***************************************************************************)
OccursAt(word, text, pos, end) ==
  /\ pos + Len(word) <= end
  /\ \A k \in 1 .. Len(word) : text[pos + k] = word[k]

(***************************************************************************)
(* bpe_next_match on text[from .. to): among the matches that start first, *)
(* the longest; UINT32_MAX if no token occurs in the slice.                *)
(***************************************************************************)
NextMatch(vocab, text, from, to) ==
  LET At(s)  == {id \in DOMAIN vocab : OccursAt(vocab[id], text, s, to)}
      starts == {s \in from .. to - 1 : At(s) # {}}
      first  == CHOOSE s \in starts : \A t \in starts : s <= t
  IN  IF starts = {} THEN UINT32_MAX
      ELSE CHOOSE id \in At(first) :
             \A other \in At(first) : Len(vocab[other]) <= Len(vocab[id])

(***************************************************************************)
(* next_prefix_match: the longest token that is a proper prefix of a token.*)
(* It is computed by NextMatch on the token without its last byte, so it   *)
(* is a prefix only if the first byte of the token is itself a token.      *)
(***************************************************************************)
NextPrefixMatch(vocab) ==
  [id \in DOMAIN vocab |->
     NextMatch(vocab, vocab[id], 0, IF Len(vocab[id]) > 1 THEN Len(vocab[id]) - 1 ELSE 0)]

(***************************************************************************)
(* bpe_find_token_by_bytes: the id of exactly these bytes.                 *)
(***************************************************************************)
FindTokenByBytes(vocab, bytes) ==
  IF \E id \in DOMAIN vocab : vocab[id] = bytes
  THEN CHOOSE id \in DOMAIN vocab : vocab[id] = bytes
  ELSE UINT32_MAX

(* the limit for the undone right token is one too low *)
IsValidTokenPair_LimitTooLow(split_left, split_right, pair_lookup, token1, token2) ==
  LET ids == DOMAIN split_left
      valid[x \in ids \X ids \X (0 .. UINT32_MAX)] ==
        LET t1         == x[1]
            t2         == x[2]
            limit      == x[3]
            combined   == IF <<t1, t2>> \in DOMAIN pair_lookup
                          THEN pair_lookup[<<t1, t2>>] ELSE UINT32_MAX
            primitive1 == split_right[t1] = t1
            primitive2 == split_left[t2] = t2
            undoFirst  == ~primitive1 /\ (t1 > t2 \/ primitive2)
        IN  /\ ~(combined # UINT32_MAX /\ combined < limit)
            /\ ~(primitive1 /\ primitive2) =>
                 IF undoFirst THEN valid[<<split_right[t1], t2, t1>>]
                              ELSE valid[<<t1, split_left[t2], t2>>]
  IN  valid[<<token1, token2, UINT32_MAX>>]

(***************************************************************************)
(* bpe_is_valid_token_pair.  The loop undoes merges, always of the token   *)
(* with the higher rank, and looks at every pair that was adjacent to the  *)
(* boundary between the tokens on the way: had one of them been a merge of *)
(* rank below limit, it would have been applied, and the boundary would    *)
(* not exist.                                                              *)
(***************************************************************************)
IsValidTokenPair(split_left, split_right, pair_lookup, token1, token2) ==
  LET ids == DOMAIN split_left
      valid[x \in ids \X ids \X (0 .. UINT32_MAX)] ==
        LET t1         == x[1]
            t2         == x[2]
            limit      == x[3]
            combined   == IF <<t1, t2>> \in DOMAIN pair_lookup
                          THEN pair_lookup[<<t1, t2>>] ELSE UINT32_MAX
            primitive1 == split_right[t1] = t1
            primitive2 == split_left[t2] = t2
            undoFirst  == ~primitive1 /\ (t1 > t2 \/ primitive2)
        IN  /\ ~(combined # UINT32_MAX /\ combined < limit)
            /\ ~(primitive1 /\ primitive2) =>
                 IF undoFirst THEN valid[<<split_right[t1], t2, t1>>]
                              ELSE valid[<<t1, split_left[t2], t2 + 1>>]
  IN  valid[<<token1, token2, UINT32_MAX>>]

(***************************************************************************)
(* The tail of bpe_from_dictionary: for each id in turn, the first token1  *)
(* on its chain of prefixes such that the rest of its bytes is a token2,   *)
(* both have lower ranks and the pair is valid under the merges found so   *)
(* far.  An id without such a pair keeps split_left = split_right = id.    *)
(***************************************************************************)
AddMerge(vocab, prefix, merges, id) ==
  LET chain[t \in DOMAIN vocab \cup {UINT32_MAX}] ==
        IF t = UINT32_MAX THEN {} ELSE {t} \cup chain[prefix[t]]
      Rest(t1)   == FindTokenByBytes(vocab, SubSeq(vocab[id], Len(vocab[t1]) + 1, Len(vocab[id])))
      candidates == {t1 \in chain[prefix[id]] :
                       /\ Rest(t1) # UINT32_MAX
                       /\ t1 < id
                       /\ Rest(t1) < id
                       /\ IsValidTokenPair(merges.left, merges.right, merges.pairs, t1, Rest(t1))}
      token1     == CHOOSE t1 \in candidates :
                      \A other \in candidates : Len(vocab[other]) <= Len(vocab[t1])
      token2     == Rest(token1)
  IN  IF candidates = {} THEN merges
      ELSE [left  |-> [merges.left  EXCEPT ![id] = token1],
            right |-> [merges.right EXCEPT ![id] = token2],
            pairs |-> [p \in DOMAIN merges.pairs \cup {<<token1, token2>>} |->
                         IF p = <<token1, token2>> THEN id ELSE merges.pairs[p]]]

Merges(vocab, prefix) ==
  LET primitive == [id \in DOMAIN vocab |-> id]
      upto[n \in 0 .. Cardinality(DOMAIN vocab)] ==
        IF n = 0
        THEN [left |-> primitive, right |-> primitive, pairs |-> <<>>]
        ELSE AddMerge(vocab, prefix, upto[n - 1], n - 1)
  IN  upto[Cardinality(DOMAIN vocab)]

(***************************************************************************)
(* bpe_from_dictionary.                                                    *)
(***************************************************************************)
FromDictionary(vocab) ==
  LET prefix == NextPrefixMatch(vocab)
      merges == Merges(vocab, prefix)
  IN  [vocab             |-> vocab,
       next_prefix_match |-> prefix,
       split_left        |-> merges.left,
       split_right       |-> merges.right,
       pair_lookup       |-> merges.pairs]

ValidPair(bpe, token1, token2) ==
  IsValidTokenPair(bpe.split_left, bpe.split_right, bpe.pair_lookup, token1, token2)

TokenLen(bpe, id) == Len(bpe.vocab[id])

(* every byte of the word is a token by itself ("complete vocabulary",       *)
(* bpe_core.c:161)                                                         *)
Complete(vocab, word) == \A k \in 1 .. Len(word) : \E id \in DOMAIN vocab : vocab[id] = <<word[k]>>

-----------------------------------------------------------------------------
(***************************************************************************)
(* The reference: byte pair encoding as tiktoken defines it.  The text     *)
(* starts as single bytes; as long as two neighbours join to a token, the  *)
(* pair whose token has the lowest rank is joined, the leftmost one of     *)
(* equals.  The parts are byte sequences; at most Len(text) - 1 joins.     *)
(***************************************************************************)
JoinLowest(vocab, parts) ==
  LET Joined(i) == parts[i] \o parts[i + 1]
      pairs     == {i \in 1 .. Len(parts) - 1 : \E id \in DOMAIN vocab : vocab[id] = Joined(i)}
      Rank(i)   == FindTokenByBytes(vocab, Joined(i))
      lowest    == CHOOSE i \in pairs : \A j \in pairs :
                     Rank(i) < Rank(j) \/ (Rank(i) = Rank(j) /\ i <= j)
  IN  IF pairs = {} THEN parts
      ELSE SubSeq(parts, 1, lowest - 1) \o <<Joined(lowest)>>
           \o SubSeq(parts, lowest + 2, Len(parts))

ReferenceEncoding(vocab, text) ==
  LET parts[n \in 0 .. Len(text)] ==
        IF n = 0 THEN [i \in 1 .. Len(text) |-> <<text[i]>>]
        ELSE JoinLowest(vocab, parts[n - 1])
      final == parts[Len(text)]
  IN  [i \in 1 .. Len(final) |-> FindTokenByBytes(vocab, final[i])]

(***************************************************************************)
(* A vocabulary the encoders are meant for: the precondition that          *)
(* bpe_self_check states, every token encodes to itself.                   *)
(***************************************************************************)
SelfEncoding(vocab) ==
  \A id \in DOMAIN vocab : ReferenceEncoding(vocab, vocab[id]) = <<id>>

(***************************************************************************)
(* A dictionary that byte pair encoding can build: no two tokens have the  *)
(* same bytes, and bpe_from_dictionary finds a merge for every token of    *)
(* more than one byte.                                                     *)
(***************************************************************************)
Mergeable(vocab) ==
  /\ \A s, t \in DOMAIN vocab : vocab[s] = vocab[t] => s = t
  /\ \A t \in DOMAIN vocab : Len(vocab[t]) > 1 => FromDictionary(vocab).split_left[t] # t
=============================================================================
