----------------------- MODULE BacktrackEncoderProofs -----------------------
(***************************************************************************)
(* Proofs about BacktrackEncoder, for every dictionary, text, limit and    *)
(* word size that satisfy the assumptions of that module: it stays inside  *)
(* its arrays, every backtrack retires a boundary, and what it has on the  *)
(* stack, and returns, is the reference encoding.                          *)
(***************************************************************************)
EXTENDS BacktrackEncoder, CommonLemmas

-----------------------------------------------------------------------------
(* The dictionary.                                                         *)

(***************************************************************************)
(* The assumptions on one vocabulary.                                      *)
(***************************************************************************)
LEMMA VocabularyFacts ==
  ASSUME NEW vocab \in Vocabularies
  PROVE  /\ UINT32_MAX \notin DOMAIN vocab
         /\ \A id \in DOMAIN vocab :
              Len(vocab[id]) \in Nat /\ Len(vocab[id]) > 0 /\ Complete(vocab, vocab[id])
         /\ \A t \in Texts \cup {<<>>} : Len(t) \in Nat /\ Complete(vocab, t)
<1>1. PICK n \in 0 .. UINT32_MAX : DOMAIN vocab = 0 .. n - 1
  BY VocabularyAssumption
<1>2. UINT32_MAX \notin DOMAIN vocab
  BY <1>1, Uint32MaxAssumption
<1>3. ASSUME NEW id \in DOMAIN vocab
      PROVE  Len(vocab[id]) \in Nat /\ Len(vocab[id]) > 0 /\ Complete(vocab, vocab[id])
  <2>1. Len(vocab[id]) > 0 /\ Complete(vocab, vocab[id])
    BY VocabularyAssumption
  <2>2. vocab[id] \in Seq({vocab[id][k] : k \in 1 .. Len(vocab[id])})
    BY VocabularyAssumption
  <2> QED BY <2>1, <2>2, LenProperties
<1>4. ASSUME NEW t \in Texts \cup {<<>>}
      PROVE  Len(t) \in Nat /\ Complete(vocab, t)
  <2>1. CASE t = <<>>
    BY <2>1 DEF Complete
  <2>2. CASE t \in Texts
    <3>1. t \in Seq({t[k] : k \in 1 .. Len(t)})
      BY <2>2, VocabularyAssumption
    <3>2. Complete(vocab, t)
      BY <2>2, VocabularyAssumption
    <3> QED BY <3>1, <3>2, LenProperties
  <2> QED BY <2>1, <2>2
<1> QED BY <1>2, <1>3, <1>4

(***************************************************************************)
(* next_prefix_match of a token is a shorter token with the same first     *)
(* bytes; a single byte has none.                                          *)
(***************************************************************************)
LEMMA PrefixIsPrefix ==
  ASSUME NEW vocab \in Vocabularies, NEW id \in DOMAIN vocab
  PROVE  LET prefix == NextPrefixMatch(vocab)[id]
         IN  \/ prefix = UINT32_MAX
             \/ prefix \in DOMAIN vocab /\ OccursAt(vocab[prefix], vocab[id], 0, Len(vocab[id]))
<1> DEFINE to == IF Len(vocab[id]) > 1 THEN Len(vocab[id]) - 1 ELSE 0
<1>1. Len(vocab[id]) \in Nat /\ Complete(vocab, vocab[id])
  BY VocabularyFacts
<1>2. to \in Nat /\ to <= Len(vocab[id])
  BY <1>1
<1>3. NextPrefixMatch(vocab)[id] = NextMatch(vocab, vocab[id], 0, to)
  BY DEF NextPrefixMatch
<1> DEFINE prefix == NextMatch(vocab, vocab[id], 0, to)
<1>4. IF 0 = to THEN prefix = UINT32_MAX
      ELSE prefix \in DOMAIN vocab /\ OccursAt(vocab[prefix], vocab[id], 0, to)
  <2> HIDE DEF to
  <2> QED BY <1>1, <1>2, VocabularyFacts, NextMatchComplete
<1>5. \A w : OccursAt(w, vocab[id], 0, to) /\ Len(w) \in Nat => OccursAt(w, vocab[id], 0, Len(vocab[id]))
  BY <1>1, <1>2 DEF OccursAt
<1>6. \A other \in DOMAIN vocab : Len(vocab[other]) \in Nat
  BY VocabularyFacts
<1> HIDE DEF to
<1> QED BY <1>3, <1>4, <1>5, <1>6

-----------------------------------------------------------------------------
(* The inductive invariant.                                                *)

(***************************************************************************)
(* Segmentation is not inductive alone.  It needs: the dictionary is one   *)
(* that bpe_from_dictionary built; the candidate token is what the text    *)
(* has at pos, so that accepting it extends the segmentation; and the      *)
(* boundaries rise, so that clearing the bit of pos clears no other one.   *)
(***************************************************************************)
BpeOK ==
  /\ bpe.vocab \in Vocabularies
  /\ bpe.next_prefix_match = NextPrefixMatch(bpe.vocab)

CandidateFits ==
  /\ pc # "idle" /\ next_token # NoToken =>
       OccursAt(bpe.vocab[next_token], text, pos, Len(text))
  /\ pc = "step" =>
       /\ token # NoToken
       /\ OccursAt(bpe.vocab[token], text, pos, Len(text))

BoundariesRise ==
  /\ pos <= Len(text)
  /\ \A i, j \in 1 .. Len(ends) : i < j => ends[i] < ends[j]

BitsCover == pc # "idle" => Len(text) < nwords * WordBits

Inv ==
  TypeOK /\ BpeOK /\ CandidateFits /\ BoundariesRise /\ BitsCover /\ Segmentation

LEMMA DictionaryFacts ==
  ASSUME NEW vocab \in Vocabularies
  PROVE  /\ FromDictionary(vocab).vocab = vocab
         /\ FromDictionary(vocab).next_prefix_match = NextPrefixMatch(vocab)
         /\ NextPrefixMatch(vocab) \in [DOMAIN vocab -> DOMAIN vocab \cup {NoToken}]
<1>1. FromDictionary(vocab).vocab = vocab
  BY DEF FromDictionary
<1>2. FromDictionary(vocab).next_prefix_match = NextPrefixMatch(vocab)
  BY DEF FromDictionary
<1>3. \A id \in DOMAIN vocab : NextPrefixMatch(vocab)[id] \in DOMAIN vocab \cup {NoToken}
  BY PrefixIsPrefix DEF NoToken
<1> QED BY <1>1, <1>2, <1>3 DEF NextPrefixMatch

LEMMA InitInv == Init => Inv
<1> SUFFICES ASSUME Init PROVE Inv
  OBVIOUS
<1>1. PICK vocab \in Vocabularies : bpe = FromDictionary(vocab)
  BY DEF Init, Dictionaries
<1>2. BpeOK
  BY <1>1, DictionaryFacts DEF BpeOK
<1>3. bpe.next_prefix_match \in [DOMAIN bpe.vocab -> DOMAIN bpe.vocab \cup {NoToken}]
  BY <1>2, DictionaryFacts DEF BpeOK
<1>4. TypeOK
  BY <1>3 DEF Init, TypeOK
<1>5. CandidateFits /\ BoundariesRise /\ BitsCover /\ Segmentation
  BY DEF Init, CandidateFits, BoundariesRise, BitsCover, Segmentation
<1> QED BY <1>2, <1>4, <1>5 DEF Inv

(***************************************************************************)
(* The words of a bit field of n bits have at least n bits.                *)
(***************************************************************************)
LEMMA WordsCover ==
  ASSUME NEW n \in Nat
  PROVE  /\ Words(n) \in Nat
         /\ Words(n) * WordBits >= n
         /\ NewBits(n) \subseteq Nat
<1>1. Words(n) \in Nat
  BY ConstantsAssumption DEF Words
<1>2. Words(n) * WordBits >= n
  BY ConstantsAssumption, Z3 DEF Words
<1>3. NewBits(n) \subseteq Nat
  <2> Words(n) * WordBits - 1 \in Int
    BY <1>1, ConstantsAssumption
  <2> QED BY DEF NewBits
<1> QED BY <1>1, <1>2, <1>3

(***************************************************************************)
(* What the invariant says of the dictionary and the text in a state.      *)
(***************************************************************************)
LEMMA StateFacts ==
  ASSUME Inv
  PROVE  /\ NoToken \notin DOMAIN bpe.vocab
         /\ \A id \in DOMAIN bpe.vocab : TokenLen(bpe, id) \in Nat /\ TokenLen(bpe, id) > 0
         /\ Len(text) \in Nat
         /\ Complete(bpe.vocab, text)
  BY VocabularyFacts DEF Inv, BpeOK, TypeOK, TokenLen, NoToken

LEMMA CallInv ==
  ASSUME Inv, NEW o \in Ops, NEW t \in Texts, NEW l \in Limits, Call(o, t, l)
  PROVE  Inv'
<1>1. Len(t) \in Nat /\ Complete(bpe.vocab, t)
  BY VocabularyFacts DEF Inv, BpeOK
<1>2. IF Len(t) = 0 THEN next_token' = NoToken
      ELSE /\ next_token' \in DOMAIN bpe.vocab
           /\ OccursAt(bpe.vocab[next_token'], t, 0, Len(t))
  BY <1>1, VocabularyFacts, NextMatchComplete DEF Inv, BpeOK, Call, NoToken
<1>3. bitfield' \subseteq Nat /\ nwords' \in Nat
  <2>1. NewBits(Len(t) + 1) \subseteq Nat /\ Words(Len(t) + 1) \in Nat
    BY <1>1, WordsCover
  <2>2. ResetBits(scratch.bits, Len(t) + 1) \subseteq Nat
    BY <2>1 DEF Inv, TypeOK, ResetBits
  <2>3. Larger(scratch.nwords, Words(Len(t) + 1)) \in Nat
    BY <2>1 DEF Inv, TypeOK, Larger
  <2> QED BY <2>1, <2>2, <2>3 DEF Call
<1>4. TypeOK'
  BY <1>2, <1>3, ConstantsAssumption DEF Inv, TypeOK, Call
<1>5. BpeOK'
  BY DEF Inv, BpeOK, Call
<1>6. CandidateFits'
  BY <1>1, <1>2 DEF Inv, CandidateFits, Call
<1>7. BoundariesRise' /\ Segmentation'
  BY <1>1, <1>2 DEF Inv, BoundariesRise, Segmentation, Call
<1>8. BitsCover'
  <2>1. Words(Len(t) + 1) \in Nat /\ Words(Len(t) + 1) * WordBits >= Len(t) + 1
    BY <1>1, WordsCover
  <2>2. \A n \in Nat : n >= Words(Len(t) + 1) => n * WordBits >= Len(t) + 1
    BY <1>1, <2>1, ConstantsAssumption, Z3
  <2>3. nwords' \in Nat /\ nwords' >= Words(Len(t) + 1)
    BY <2>1 DEF Inv, TypeOK, Call, Larger
  <2>4. nwords' * WordBits >= Len(t) + 1
    BY <2>2, <2>3
  <2>5. nwords' * WordBits \in Int
    BY <2>3, ConstantsAssumption
  <2> QED BY <1>1, <2>4, <2>5 DEF BitsCover, Call
<1> QED BY <1>4, <1>5, <1>6, <1>7, <1>8 DEF Inv

LEMMA AcceptInv == ASSUME Inv, Accept PROVE Inv'
<1> USE DEF Accept
<1>1. /\ token \in DOMAIN bpe.vocab
      /\ OccursAt(bpe.vocab[token], text, pos, Len(text))
      /\ EndPos \in bitfield
      /\ tokens # <<>> => ValidPair(bpe, tokens[Len(tokens)], token)
  <2>1. tokens # <<>> => Last(tokens) = tokens[Len(tokens)] /\ Last(tokens) # NoToken
    BY StateFacts DEF Inv, TypeOK, Last
  <2> QED BY <2>1 DEF Inv, TypeOK, CandidateFits, Acceptable
<1>2. EndPos \in Nat /\ pos < EndPos /\ EndPos <= Len(text) /\ EndPos = pos + TokenLen(bpe, token)
  BY <1>1, StateFacts DEF Inv, TypeOK, EndPos, OccursAt, TokenLen
<1>3. IF EndPos = Len(text) THEN next_token' = NoToken
      ELSE /\ next_token' \in DOMAIN bpe.vocab
           /\ OccursAt(bpe.vocab[next_token'], text, EndPos, Len(text))
  <2>1. next_token' = NextMatch(bpe.vocab, text, EndPos, Len(text))
    BY DEF NextToken
  <2>2. bpe.vocab \in Vocabularies /\ Complete(bpe.vocab, text) /\ Len(text) \in Nat
    BY StateFacts DEF Inv, BpeOK
  <2> HIDE DEF Accept
  <2>3. CASE EndPos = Len(text)
    BY <1>2, <2>1, <2>2, <2>3, NextMatchNone DEF NoToken
  <2>4. CASE EndPos < Len(text)
    BY <1>2, <2>1, <2>2, <2>4, VocabularyFacts, NextMatchComplete
  <2> QED BY <1>2, <2>2, <2>3, <2>4
<1>4. TypeOK'
  BY <1>1, <1>2, <1>3 DEF Inv, TypeOK
<1>5. BpeOK' /\ BitsCover'
  BY DEF Inv, BpeOK, BitsCover
<1>6. CandidateFits'
  BY <1>3 DEF Inv, CandidateFits
<1>7. /\ Len(ends') = Len(ends) + 1
      /\ ends'[Len(ends')] = EndPos
      /\ \A i \in 1 .. Len(ends) : ends'[i] = ends[i]
      /\ ends[Len(ends)] = pos /\ Len(ends) = Len(tokens) + 1
  BY <1>2 DEF Inv, TypeOK, Segmentation
<1>8. BoundariesRise'
  <2> SUFFICES ASSUME NEW i \in 1 .. Len(ends'), NEW j \in 1 .. Len(ends'), i < j
               PROVE  ends'[i] < ends'[j]
    BY <1>2 DEF BoundariesRise
  <2>1. CASE j <= Len(ends)
    BY <1>7, <2>1 DEF Inv, BoundariesRise
  <2>2. CASE j = Len(ends')
    <3>1. i \in 1 .. Len(ends) /\ Len(ends) \in 1 .. Len(ends)
      BY <1>7, <2>2 DEF Inv, TypeOK
    <3>2. ends[i] <= pos /\ ends[i] \in Nat
      <4> HIDE DEF Accept
      <4>1. ends[i] \in Nat /\ pos \in Nat
        BY <3>1 DEF Inv, TypeOK
      <4>2. i < Len(ends) => ends[i] < ends[Len(ends)]
        BY <3>1 DEF Inv, BoundariesRise
      <4> QED BY <1>7, <3>1, <4>1, <4>2
    <3>3. ends'[i] = ends[i] /\ ends'[j] = EndPos
      BY <1>7, <2>2, <3>1
    <3>4. pos \in Nat
      BY DEF Inv, TypeOK
    <3> QED BY <1>2, <3>2, <3>3, <3>4
  <2> QED BY <1>7, <2>1, <2>2 DEF Inv, TypeOK
<1>9. Segmentation'
  <2>1. /\ Len(ends') = Len(tokens') + 1
        /\ ends'[1] = 0
        /\ ends'[Len(ends')] = pos'
    BY <1>1, <1>7 DEF Inv, TypeOK, Segmentation
  <2>2. next_token' = NoToken => pos' = Len(text)
    BY <1>3, StateFacts
  <2>3. ASSUME NEW i \in 1 .. Len(tokens')
        PROVE  /\ ends'[i + 1] = ends'[i] + TokenLen(bpe, tokens'[i])
               /\ OccursAt(bpe.vocab[tokens'[i]], text, ends'[i], Len(text))
               /\ i > 1 => ValidPair(bpe, tokens'[i - 1], tokens'[i])
               /\ ends'[i + 1] \in bitfield
    <3>1. CASE i <= Len(tokens)
      <4>1. /\ tokens'[i] = tokens[i] /\ (i > 1 => tokens'[i - 1] = tokens[i - 1])
            /\ ends'[i] = ends[i] /\ ends'[i + 1] = ends[i + 1]
        BY <1>7, <3>1 DEF Inv, TypeOK
      <4> QED BY <3>1, <4>1 DEF Inv, Segmentation
    <3>2. CASE i = Len(tokens) + 1
      <4>1. /\ tokens'[i] = token /\ ends'[i] = pos /\ ends'[i + 1] = EndPos
            /\ i > 1 => tokens # <<>> /\ tokens'[i - 1] = tokens[Len(tokens)]
        BY <1>7, <3>2 DEF Inv, TypeOK
      <4> QED BY <1>1, <1>2, <4>1
    <3>3. Len(tokens) \in Nat /\ Len(tokens') = Len(tokens) + 1
      BY <1>1 DEF Inv, TypeOK
    <3>4. i <= Len(tokens) \/ i = Len(tokens) + 1
      BY <3>3
    <3> QED BY <3>1, <3>2, <3>4
  <2> QED BY <2>1, <2>2, <2>3 DEF Segmentation
<1> QED BY <1>4, <1>5, <1>6, <1>8, <1>9 DEF Inv

LEMMA TryShorterInv == ASSUME Inv, TryShorter PROVE Inv'
<1> USE DEF TryShorter
<1>1. token \in DOMAIN bpe.vocab /\ OccursAt(bpe.vocab[token], text, pos, Len(text))
  BY DEF Inv, TypeOK, CandidateFits
<1>2. /\ token' \in DOMAIN bpe.vocab
      /\ OccursAt(bpe.vocab[token'], bpe.vocab[token], 0, Len(bpe.vocab[token]))
  BY <1>1, PrefixIsPrefix DEF Inv, BpeOK, NoToken
<1>3. OccursAt(bpe.vocab[token'], text, pos, Len(text))
  <2>1. /\ Len(bpe.vocab[token]) \in Nat /\ Len(bpe.vocab[token']) \in Nat
        /\ Len(text) \in Nat /\ pos \in Nat
    BY <1>1, <1>2, StateFacts DEF TokenLen, Inv, TypeOK
  <2>2. Len(bpe.vocab[token']) <= Len(bpe.vocab[token])
    BY <1>2, <2>1 DEF OccursAt
  <2>3. ASSUME NEW k \in 1 .. Len(bpe.vocab[token'])
        PROVE  text[pos + k] = bpe.vocab[token'][k]
    <3>1. k \in 1 .. Len(bpe.vocab[token])
      BY <2>1, <2>2
    <3>2. bpe.vocab[token][0 + k] = bpe.vocab[token'][k]
      BY <1>2 DEF OccursAt
    <3>3. text[pos + k] = bpe.vocab[token][k]
      BY <1>1, <3>1 DEF OccursAt
    <3> QED BY <3>2, <3>3, <2>1
  <2>4. pos + Len(bpe.vocab[token']) <= Len(text)
    BY <1>1, <2>1, <2>2 DEF OccursAt
  <2> QED BY <2>3, <2>4 DEF OccursAt
<1>4. TypeOK' /\ BpeOK' /\ BoundariesRise' /\ BitsCover' /\ Segmentation'
  BY <1>2 DEF Inv, TypeOK, BpeOK, BoundariesRise, BitsCover, Segmentation
<1>5. CandidateFits'
  BY <1>2, <1>3, StateFacts DEF Inv, CandidateFits
<1> QED BY <1>4, <1>5 DEF Inv

LEMMA PopFacts ==
  ASSUME NEW S, NEW s \in Seq(S), s # <<>>
  PROVE  /\ Pop(s) \in Seq(S)
         /\ Len(Pop(s)) = Len(s) - 1
         /\ \A i \in 1 .. Len(s) - 1 : Pop(s)[i] = s[i]
<1>1. Len(s) \in Nat \ {0}
  BY EmptySeq, LenProperties
<1>2. \A i \in 1 .. Len(s) - 1 : s[i] \in S
  BY <1>1, ElementOfSeq
<1>3. 1 \in Int /\ Len(s) - 1 \in Int /\ 1 <= Len(s)
  BY <1>1
<1> DEFINE n == Len(s) - 1
<1>4. /\ SubSeq(s, 1, n) \in Seq(S)
      /\ Len(SubSeq(s, 1, n)) = IF 1 <= n THEN n - 1 + 1 ELSE 0
      /\ \A i \in 1 .. n - 1 + 1 : SubSeq(s, 1, n)[i] = s[1 + i - 1]
  <2> HIDE DEF n
  <2>1. n \in Int /\ \A i \in 1 .. n : s[i] \in S
    BY <1>2, <1>3 DEF n
  <2> QED BY <2>1, SubSeqProperties
<1>5. n \in Nat /\ Pop(s) = SubSeq(s, 1, n)
  BY <1>1 DEF Pop
<1> HIDE DEF n
<1>6. Len(Pop(s)) = n
  BY <1>4, <1>5
<1>7. ASSUME NEW i \in 1 .. n PROVE Pop(s)[i] = s[i]
  <2>1. i \in 1 .. n - 1 + 1 /\ 1 + i - 1 = i
    BY <1>5
  <2> QED BY <1>4, <1>5, <2>1
<1> QED BY <1>4, <1>5, <1>6, <1>7 DEF n

(***************************************************************************)
(* What a backtrack with accepted tokens undoes.                           *)
(***************************************************************************)
LEMMA BacktrackPops ==
  ASSUME Inv, Backtrack, tokens # <<>>
  PROVE  /\ Len(tokens) \in Nat \ {0}
         /\ Last(tokens) = tokens[Len(tokens)] /\ Last(tokens) \in DOMAIN bpe.vocab
         /\ pos = ends[Len(tokens) + 1]
         /\ pos' = ends[Len(tokens)] /\ pos' \in Nat /\ pos' < pos
         /\ OccursAt(bpe.vocab[Last(tokens)], text, pos', Len(text))
         /\ pos \in bitfield
         /\ tokens' \in Seq(DOMAIN bpe.vocab) /\ ends' \in Seq(Nat)
         /\ Len(tokens') = Len(tokens) - 1 /\ Len(ends') = Len(tokens)
         /\ \A i \in 1 .. Len(tokens') : tokens'[i] = tokens[i]
         /\ \A i \in 1 .. Len(ends') : ends'[i] = ends[i]
<1>1. Len(tokens) \in Nat \ {0} /\ Len(ends) = Len(tokens) + 1
  BY DEF Inv, TypeOK, Segmentation
<1>2. Last(tokens) = tokens[Len(tokens)] /\ Last(tokens) \in DOMAIN bpe.vocab
  BY <1>1 DEF Inv, TypeOK, Last
<1>3. pos = ends[Len(tokens) + 1] /\ pos \in Nat /\ ends[Len(tokens)] \in Nat
  BY <1>1 DEF Inv, TypeOK, Segmentation
<1>4. /\ ends[Len(tokens) + 1] = ends[Len(tokens)] + TokenLen(bpe, Last(tokens))
      /\ OccursAt(bpe.vocab[Last(tokens)], text, ends[Len(tokens)], Len(text))
      /\ pos \in bitfield
  <2>1. Len(tokens) \in 1 .. Len(tokens)
    BY <1>1
  <2> QED BY <1>2, <1>3, <2>1 DEF Inv, Segmentation, Backtrack, Retired
<1>5. TokenLen(bpe, Last(tokens)) \in Nat /\ TokenLen(bpe, Last(tokens)) > 0
  BY <1>2, StateFacts
<1>6. pos' = ends[Len(tokens)] /\ pos' < pos
  BY <1>3, <1>4, <1>5 DEF Backtrack, Retreat
<1>7. /\ tokens' \in Seq(DOMAIN bpe.vocab)
      /\ Len(tokens') = Len(tokens) - 1
      /\ \A i \in 1 .. Len(tokens') : tokens'[i] = tokens[i]
  <2>1. tokens \in Seq(DOMAIN bpe.vocab) /\ tokens' = Pop(tokens)
    BY DEF Backtrack, Inv, TypeOK
  <2>2. /\ Pop(tokens) \in Seq(DOMAIN bpe.vocab)
        /\ Len(Pop(tokens)) = Len(tokens) - 1
        /\ \A i \in 1 .. Len(tokens) - 1 : Pop(tokens)[i] = tokens[i]
    BY <2>1, PopFacts
  <2> QED BY <2>1, <2>2
<1>8. /\ ends' \in Seq(Nat)
      /\ Len(ends') = Len(tokens)
      /\ \A i \in 1 .. Len(ends') : ends'[i] = ends[i]
  <2>1. ends \in Seq(Nat) /\ ends # <<>> /\ ends' = Pop(ends)
    BY <1>1 DEF Backtrack, Inv, TypeOK
  <2>2. /\ Pop(ends) \in Seq(Nat)
        /\ Len(Pop(ends)) = Len(ends) - 1
        /\ \A i \in 1 .. Len(ends) - 1 : Pop(ends)[i] = ends[i]
    BY <2>1, PopFacts
  <2> QED BY <1>1, <2>1, <2>2
<1> QED BY <1>1, <1>2, <1>3, <1>4, <1>6, <1>7, <1>8

LEMMA BacktrackInv == ASSUME Inv, Backtrack PROVE Inv'
<1>1. BpeOK' /\ BitsCover'
  BY DEF Inv, BpeOK, BitsCover, Backtrack
<1>2. CASE tokens = <<>>
  <2>1. TypeOK' /\ CandidateFits' /\ BoundariesRise'
    BY <1>2 DEF Inv, TypeOK, CandidateFits, BoundariesRise, Backtrack, Retired
  <2>2. Segmentation'
    <3>1. UNCHANGED <<bpe, text, tokens, pos, ends>>
      BY <1>2 DEF Backtrack
    <3>2. /\ tokens' = <<>> /\ Len(tokens) = 0
          /\ Len(ends) = 1 /\ ends[1] = 0 /\ ends[Len(ends)] = pos
      BY <1>2, <3>1 DEF Inv, Segmentation
    <3> QED BY <3>1, <3>2 DEF Segmentation
  <2> QED BY <1>1, <2>1, <2>2 DEF Inv
<1>3. CASE tokens # <<>>
  <2>1. TypeOK'
    <3>1. bitfield' \subseteq Nat
      BY DEF Inv, TypeOK, Backtrack, Retired
    <3> QED BY <1>3, <3>1, BacktrackPops DEF Inv, TypeOK, Backtrack
  <2>2. CandidateFits'
    BY <1>3, BacktrackPops DEF CandidateFits, Backtrack
  <2>3. BoundariesRise'
    <3>1. pos' <= Len(text)
      <4>1. pos' \in Nat /\ pos \in Nat /\ Len(text) \in Nat /\ pos <= Len(text)
        BY <1>3, BacktrackPops, StateFacts DEF Inv, TypeOK, BoundariesRise
      <4> QED BY <1>3, <4>1, BacktrackPops DEF Backtrack
    <3>2. \A i \in 1 .. Len(ends') : i \in 1 .. Len(ends) /\ ends'[i] = ends[i]
      BY <1>3, BacktrackPops DEF Inv, Segmentation
    <3> QED BY <3>1, <3>2 DEF Inv, BoundariesRise, Backtrack
  <2>4. Segmentation'
    <3>1. /\ Len(ends') = Len(tokens') + 1 /\ ends'[1] = 0 /\ ends'[Len(ends')] = pos'
      BY <1>3, BacktrackPops DEF Inv, Segmentation
    <3>2. next_token' # NoToken
      BY <1>3, BacktrackPops, StateFacts DEF Backtrack
    <3>3. ASSUME NEW i \in 1 .. Len(tokens')
          PROVE  /\ ends'[i + 1] = ends'[i] + TokenLen(bpe, tokens'[i])
                 /\ OccursAt(bpe.vocab[tokens'[i]], text, ends'[i], Len(text))
                 /\ i > 1 => ValidPair(bpe, tokens'[i - 1], tokens'[i])
                 /\ ends'[i + 1] \in bitfield'
      <4>1. /\ i \in 1 .. Len(tokens) /\ i + 1 < Len(tokens) + 1
            /\ tokens'[i] = tokens[i] /\ (i > 1 => tokens'[i - 1] = tokens[i - 1])
            /\ ends'[i] = ends[i] /\ ends'[i + 1] = ends[i + 1]
        <5>1. Len(tokens) \in Nat /\ Len(tokens') = Len(tokens) - 1 /\ Len(ends') = Len(tokens)
          BY <1>3, BacktrackPops
        <5>2. /\ \A k \in 1 .. Len(tokens') : tokens'[k] = tokens[k]
              /\ \A k \in 1 .. Len(ends') : ends'[k] = ends[k]
          BY <1>3, BacktrackPops
        <5> QED BY <5>1, <5>2
      <4>2. ends[i + 1] < ends[Len(tokens) + 1]
        <5>1. i + 1 \in 1 .. Len(ends) /\ Len(tokens) + 1 \in 1 .. Len(ends)
          BY <4>1 DEF Inv, TypeOK, Segmentation
        <5> QED BY <4>1, <5>1 DEF Inv, BoundariesRise
      <4>3. ends[i + 1] # pos
        <5>1. pos = ends[Len(tokens) + 1] /\ pos \in Nat
          BY <1>3, BacktrackPops DEF Inv, TypeOK
        <5> QED BY <4>2, <5>1
      <4>4. ends[i + 1] \in bitfield'
        BY <4>1, <4>3 DEF Inv, Segmentation, Backtrack, Retired
      <4> QED BY <4>1, <4>4 DEF Inv, Segmentation
    <3>4. UNCHANGED <<bpe, text>>
      BY DEF Backtrack
    <3> QED BY <3>1, <3>2, <3>3, <3>4 DEF Segmentation
  <2> QED BY <1>1, <2>1, <2>2, <2>3, <2>4 DEF Inv
<1> QED BY <1>2, <1>3

(***************************************************************************)
(* The actions that leave the encoder's state alone.                       *)
(***************************************************************************)
LEMMA LoopInv ==
  ASSUME Inv, BeginStep \/ GiveUp \/ Return
  PROVE  Inv'
<1>1. CASE BeginStep
  <2>1. TypeOK' /\ BpeOK' /\ BoundariesRise' /\ BitsCover' /\ Segmentation'
    BY <1>1 DEF Inv, TypeOK, BpeOK, BoundariesRise, BitsCover, Segmentation, BeginStep
  <2>2. CandidateFits'
    BY <1>1 DEF Inv, CandidateFits, BeginStep
  <2> QED BY <2>1, <2>2 DEF Inv
<1>2. CASE GiveUp
  <2>1. TypeOK'
    BY <1>2 DEF Inv, TypeOK, GiveUp
  <2>2. BpeOK' /\ BoundariesRise' /\ BitsCover' /\ Segmentation' /\ CandidateFits'
    BY <1>2 DEF Inv, BpeOK, BoundariesRise, BitsCover, Segmentation, CandidateFits, GiveUp
  <2> QED BY <2>1, <2>2 DEF Inv
<1>3. CASE Return
  <2>1. result'.tokens \in Seq(DOMAIN bpe.vocab) /\ result'.count \in Nat
        /\ result'.exceeded \in BOOLEAN
    <3>1. /\ result'.tokens = IF op \in {"encode", "piece"} THEN tokens ELSE <<>>
          /\ result'.count = Len(tokens)
          /\ result'.exceeded = (op = "limit" /\ Len(tokens) > limit)
      BY <1>3 DEF Return
    <3>2. (op = "limit" /\ Len(tokens) > limit) \in BOOLEAN
      OBVIOUS
    <3>3. tokens \in Seq(DOMAIN bpe.vocab) /\ <<>> \in Seq(DOMAIN bpe.vocab)
      BY DEF Inv, TypeOK
    <3>4. result'.tokens \in Seq(DOMAIN bpe.vocab)
      BY <3>1, <3>3
    <3>5. result'.count \in Nat
      BY <3>1, <3>3
    <3> QED BY <3>1, <3>2, <3>4, <3>5
  <2>2. scratch'.bits \subseteq Nat /\ scratch'.nwords \in Nat
    BY <1>3 DEF Inv, TypeOK, Return
  <2>3. TypeOK'
    BY <1>3, <2>1, <2>2 DEF Inv, TypeOK, Return
  <2>4. BpeOK' /\ BoundariesRise' /\ BitsCover' /\ Segmentation' /\ CandidateFits'
    BY <1>3 DEF Inv, BpeOK, BoundariesRise, BitsCover, Segmentation, CandidateFits, Return
  <2> QED BY <2>3, <2>4 DEF Inv
<1> QED BY <1>1, <1>2, <1>3

LEMMA StutterInv == ASSUME Inv, UNCHANGED vars PROVE Inv'
  BY DEF vars, Inv, TypeOK, BpeOK, CandidateFits, BoundariesRise, BitsCover, Segmentation

LEMMA NextInv == Inv /\ [Next]_vars => Inv'
<1> SUFFICES ASSUME Inv, [Next]_vars PROVE Inv'
  OBVIOUS
<1>1. CASE \E o \in Ops, t \in Texts, l \in Limits : Call(o, t, l)
  BY <1>1, CallInv
<1>2. CASE Step
  BY <1>2, LoopInv, AcceptInv, TryShorterInv, BacktrackInv DEF Step
<1>3. CASE UNCHANGED vars
  BY <1>3, StutterInv
<1> QED BY <1>1, <1>2, <1>3 DEF Next

(***************************************************************************)
(* Every step of btenc_step and of its drivers keeps the invariant.        *)
(***************************************************************************)
THEOREM Invariance == Spec => []Inv
  BY InitInv, NextInv, PTL DEF Spec

-----------------------------------------------------------------------------
(* The theorems.                                                           *)

(***************************************************************************)
(* Type correctness of the encoder of bpe_core.c.                          *)
(***************************************************************************)
THEOREM TypeCorrect == Spec => []TypeOK
<1>1. Inv => TypeOK
  BY DEF Inv
<1> QED BY <1>1, Invariance, PTL

(***************************************************************************)
(* For every dictionary with all bytes and every text: btenc_step reads    *)
(* and writes inside the text and inside the bit field.                    *)
(***************************************************************************)
THEOREM AccessesInBounds == Spec => []InBounds
<1>1. Inv => InBounds
  <2> SUFFICES ASSUME Inv, pc = "step" PROVE EndPos <= Len(text) /\ Len(text) < nwords * WordBits
    BY DEF InBounds
  <2> QED BY DEF Inv, CandidateFits, OccursAt, BitsCover, EndPos, TokenLen
<1> QED BY <1>1, Invariance, PTL

(***************************************************************************)
(* For every dictionary with all bytes and every text: the token stack     *)
(* segments the text before pos into valid neighbours, and the loop stops  *)
(* only at the end of the text or with no token accepted.                  *)
(***************************************************************************)
THEOREM AlwaysSegmentation == Spec => []Segmentation
<1>1. Inv => Segmentation
  BY DEF Inv
<1> QED BY <1>1, Invariance, PTL

(***************************************************************************)
(* Every backtrack to an earlier token clears a bit that was set and moves *)
(* to a smaller position, so a call backtracks at most once per position.  *)
(***************************************************************************)
THEOREM BacktracksRetire == Spec => BacktrackRetires
<1> DEFINE Retires == pc = "step" /\ next_token' # NoToken /\ Len(tokens') < Len(tokens)
                        => pos \in bitfield /\ bitfield' = bitfield \ {pos} /\ pos' < pos
<1>1. Inv /\ [Next]_vars => [Retires]_vars
  <2> SUFFICES ASSUME Inv, Next, pc = "step", next_token' # NoToken, Len(tokens') < Len(tokens)
               PROVE  pos \in bitfield /\ bitfield' = bitfield \ {pos} /\ pos' < pos
    OBVIOUS
  <2>0. tokens \in Seq(DOMAIN bpe.vocab) /\ Len(tokens) \in Nat
    BY DEF Inv, TypeOK
  <2>1. Accept \/ TryShorter \/ Backtrack
    BY DEF Next, Step, Call, BeginStep, GiveUp, Return
  <2>2. ~TryShorter
    BY <2>0 DEF TryShorter
  <2>3. ~Accept
    <3>1. Accept => Len(tokens') = Len(tokens) + 1
      BY <2>0 DEF Accept, Inv, TypeOK
    <3> QED BY <2>0, <3>1
  <2>4. Backtrack /\ tokens # <<>>
    BY <2>1, <2>2, <2>3 DEF Backtrack
  <2>5. pos \in bitfield /\ pos' < pos
    BY <2>4, BacktrackPops
  <2> QED BY <2>4, <2>5 DEF Backtrack, Retired
<1> QED BY <1>1, Invariance, PTL DEF Spec, BacktrackRetires

-----------------------------------------------------------------------------
(* Exactness.                                                              *)

(* The dictionaries are those that byte pair encoding can build. *)
LEMMA VocabularyUsable ==
  ASSUME NEW vocab \in Vocabularies
  PROVE  Usable(vocab) /\ \A t \in Texts \cup {<<>>} : IsSeq(t) /\ Complete(vocab, t)
<1>1. \E n \in 0 .. UINT32_MAX : DOMAIN vocab = 0 .. n - 1
  BY VocabularyAssumption
<1>2. ASSUME NEW id \in DOMAIN vocab
      PROVE  IsSeq(vocab[id]) /\ Len(vocab[id]) > 0 /\ Complete(vocab, vocab[id])
  <2>1. vocab[id] \in Seq({vocab[id][k] : k \in 1 .. Len(vocab[id])})
    BY VocabularyAssumption
  <2>2. IsSeq(vocab[id])
    BY <2>1 DEF IsSeq
  <2> QED BY <2>2, VocabularyFacts
<1>3. Mergeable(vocab)
  BY MergeableAssumption
<1>4. ASSUME NEW t \in Texts \cup {<<>>} PROVE IsSeq(t) /\ Complete(vocab, t)
  <2>1. CASE t = <<>>
    <3>1. <<>> \in Seq({})
      OBVIOUS
    <3> QED BY <2>1, <3>1, VocabularyFacts DEF IsSeq
  <2>2. CASE t \in Texts
    <3>1. t \in Seq({t[k] : k \in 1 .. Len(t)})
      BY <2>2, VocabularyAssumption
    <3> QED BY <3>1, VocabularyFacts DEF IsSeq
  <2> QED BY <2>1, <2>2
<1> QED BY <1>1, <1>2, <1>3, <1>4 DEF Usable

(* The dictionary is what bpe_from_dictionary built. *)
DictionaryBuilt == bpe = FromDictionary(bpe.vocab)

(* What the stack says of the text before pos. *)
LEMMA StateUsable ==
  ASSUME Inv, DictionaryBuilt
  PROVE  /\ Usable(bpe.vocab) /\ IsSeq(text) /\ Complete(bpe.vocab, text)
         /\ IsSeq(tokens) /\ Len(tokens) \in Nat /\ pos \in 0 .. Len(text)
         /\ ValidCut(bpe.vocab, SubSeq(text, 1, pos), tokens, ends, Len(tokens))
         /\ tokens = ReferenceEncoding(bpe.vocab, SubSeq(text, 1, pos))
<1> DEFINE v == bpe.vocab
           n == Len(tokens)
<1>1. Usable(v) /\ IsSeq(text) /\ Complete(v, text)
  BY VocabularyUsable DEF Inv, BpeOK, TypeOK
<1>2. IsSeq(tokens) /\ n \in Nat /\ tokens \in Seq(DOMAIN v)
  BY DEF Inv, TypeOK, IsSeq
<1>3. pos \in 0 .. Len(text)
  BY SeqFacts, <1>1 DEF Inv, TypeOK, BoundariesRise
<1>4. ASSUME NEW i \in 1 .. n
      PROVE  /\ tokens[i] \in DOMAIN v
             /\ ends[i + 1] = ends[i] + Len(v[tokens[i]])
             /\ OccursAt(v[tokens[i]], text, ends[i], Len(text))
             /\ i > 1 => ValidPair(FromDictionary(v), tokens[i - 1], tokens[i])
  <2>1. tokens[i] \in DOMAIN v
    BY <1>2
  <2>2. /\ ends[i + 1] = ends[i] + TokenLen(bpe, tokens[i])
        /\ OccursAt(v[tokens[i]], text, ends[i], Len(text))
        /\ i > 1 => ValidPair(bpe, tokens[i - 1], tokens[i])
    BY DEF Inv, Segmentation
  <2> QED BY <2>1, <2>2 DEF TokenLen, DictionaryBuilt
<1>5. ends[1] = 0 /\ ends[n + 1] = pos
  BY DEF Inv, Segmentation
<1> HIDE DEF v, n
<1>6. ValidCut(v, SubSeq(text, 1, pos), tokens, ends, n)
  BY <1>1, <1>2, <1>3, <1>4, <1>5, StackCut
<1>7. IsSeq(SubSeq(text, 1, pos))
  BY <1>1, <1>3, PrefixFacts
<1>8. tokens = ReferenceEncoding(v, SubSeq(text, 1, pos))
  BY <1>1, <1>2, <1>6, <1>7, ValidIsReference DEF n
<1> QED BY <1>1, <1>2, <1>3, <1>6, <1>8 DEF v, n

(* No step changes the dictionary. *)
LEMMA BuiltStep == DictionaryBuilt /\ [Next]_vars => DictionaryBuilt'
<1> SUFFICES ASSUME DictionaryBuilt, [Next]_vars PROVE DictionaryBuilt'
  OBVIOUS
<1>1. bpe' = bpe
  BY DEF Next, Step, Call, BeginStep, GiveUp, Accept, TryShorter, Backtrack, Return, vars
<1> QED BY <1>1 DEF DictionaryBuilt

(* It is what bpe_from_dictionary built. *)
LEMMA BuiltInit == Init => DictionaryBuilt
<1> SUFFICES ASSUME Init PROVE DictionaryBuilt
  OBVIOUS
<1>1. PICK vocab \in Vocabularies : bpe = FromDictionary(vocab)
  BY DEF Init, Dictionaries
<1>2. bpe.vocab = vocab
  BY <1>1, DictionaryFacts
<1> QED BY <1>1, <1>2 DEF DictionaryBuilt

(***************************************************************************)
(* At every moment the token stack is the reference encoding of the text   *)
(* before pos, for every dictionary byte pair encoding can build.          *)
(***************************************************************************)
THEOREM StackAlwaysExact == Spec => []StackIsEncoding
<1>1. Inv /\ DictionaryBuilt => StackIsEncoding
  BY StateUsable DEF StackIsEncoding
<1>2. Spec => []DictionaryBuilt
  BY BuiltInit, BuiltStep, PTL DEF Spec
<1> QED BY <1>1, <1>2, Invariance, PTL

-----------------------------------------------------------------------------
(* The tokens that the search has turned down.                             *)

(* a token that was not accepted: its end is ruled out, or the pair is not valid *)
Fails(b, bits, prev, p, t) ==
  ~(p + Len(b.vocab[t]) \in bits /\ (prev # NoToken => ValidPair(b, prev, t)))

LongerFail(b, s, bits, prev, p, len) ==
  \A t \in DOMAIN b.vocab :
    OccursAt(b.vocab[t], s, p, Len(s)) /\ Len(b.vocab[t]) > len => Fails(b, bits, prev, p, t)

Before(i) == IF i = 1 THEN NoToken ELSE tokens[i - 1]

StackTried ==
  \A i \in 1 .. Len(tokens) :
    LongerFail(bpe, text, bitfield, Before(i), ends[i], Len(bpe.vocab[tokens[i]]))

NextTried ==
  pc = "loop" /\ next_token # NoToken =>
    LongerFail(bpe, text, bitfield, Last(tokens), pos, Len(bpe.vocab[next_token]))

TokenTried ==
  pc = "step" => LongerFail(bpe, text, bitfield, Last(tokens), pos, Len(bpe.vocab[token]))

EndReached == next_token = NoToken => pos = Len(text)

Tried == pc \in {"loop", "step"} => StackTried /\ NextTried /\ TokenTried /\ EndReached

(* With fewer places left, the longer tokens still fail. *)
LEMMA FailKeeps ==
  ASSUME NEW b, NEW s, NEW bits, NEW bits2, bits2 \subseteq bits, NEW prev, NEW p, NEW len,
         LongerFail(b, s, bits, prev, p, len)
  PROVE  LongerFail(b, s, bits2, prev, p, len)
  BY DEF LongerFail, Fails

(* the longest match has no longer one *)
LEMMA MatchIsLongest ==
  ASSUME NEW vocab \in Vocabularies, NEW s \in Texts \cup {<<>>}, NEW p \in Nat, p < Len(s),
         NEW b, b.vocab = vocab, NEW bits, NEW prev
  PROVE  LongerFail(b, s, bits, prev, p, Len(vocab[NextMatch(vocab, s, p, Len(s))]))
<1> DEFINE m == NextMatch(vocab, s, p, Len(s))
<1>1. /\ \A id \in DOMAIN vocab : Len(vocab[id]) \in Nat
      /\ Len(s) \in Nat /\ Complete(vocab, s)
  BY VocabularyFacts
<1>2. ASSUME NEW t \in DOMAIN vocab, OccursAt(vocab[t], s, p, Len(s))
      PROVE  m \in DOMAIN vocab /\ Len(vocab[t]) <= Len(vocab[m])
  <2> HIDE DEF m
  <2> QED BY <1>1, <1>2, NextMatchFound DEF m
<1> HIDE DEF m
<1>3. ASSUME NEW t \in DOMAIN vocab, OccursAt(vocab[t], s, p, Len(s)), Len(vocab[t]) > Len(vocab[m])
      PROVE  FALSE
  <2>1. Len(vocab[t]) \in Nat /\ Len(vocab[m]) \in Nat /\ Len(vocab[t]) <= Len(vocab[m])
    BY <1>1, <1>2, <1>3
  <2> QED BY <1>3, <2>1
<1>4. LongerFail(b, s, bits, prev, p, Len(vocab[m]))
  BY <1>3 DEF LongerFail
<1> QED BY <1>4 DEF m

(* Boundaries, for any dictionary. *)
BoundariesIn(b, encoding) ==
  LET end[n \in 0 .. Len(encoding)] ==
        IF n = 0 THEN 0 ELSE end[n - 1] + TokenLen(b, encoding[n])
  IN  {end[n] : n \in 0 .. Len(encoding)}

(* AnswerSurvives, with the state as parameters. *)
LEMMA SurvivesMeans ==
  /\ AnswerSurvives <=> (pc \in {"loop", "step"} =>
       BoundariesIn(bpe, ReferenceEncoding(bpe.vocab, text)) \subseteq bitfield)
  /\ AnswerSurvives' <=> (pc' \in {"loop", "step"} =>
       BoundariesIn(bpe', ReferenceEncoding(bpe'.vocab, text')) \subseteq bitfield')
  /\ \A x : Boundaries(x) = BoundariesIn(bpe, x)
<1>1. AnswerSurvives <=> (pc \in {"loop", "step"} =>
       BoundariesIn(bpe, ReferenceEncoding(bpe.vocab, text)) \subseteq bitfield)
  BY DEF AnswerSurvives, BoundariesIn, Boundaries
<1>2. AnswerSurvives' <=> (pc' \in {"loop", "step"} =>
       BoundariesIn(bpe', ReferenceEncoding(bpe'.vocab, text')) \subseteq bitfield')
  BY DEF AnswerSurvives, BoundariesIn, Boundaries
<1>3. \A x : Boundaries(x) = BoundariesIn(bpe, x)
  BY DEF BoundariesIn, Boundaries
<1> QED BY <1>1, <1>2, <1>3

(***************************************************************************)
(* The boundaries of an encoding are its cuts.                             *)
(***************************************************************************)
LEMMA BoundaryFacts ==
  ASSUME NEW b, NEW encoding, Len(encoding) \in Nat, NEW e, e[1] = 0,
         \A i \in 1 .. Len(encoding) : e[i + 1] = e[i] + TokenLen(b, encoding[i])
  PROVE  BoundariesIn(b, encoding) = {e[m + 1] : m \in 0 .. Len(encoding)}
<1> DEFINE n == Len(encoding)
           B(f) == [m \in 0 .. n |-> IF m = 0 THEN 0 ELSE f[m - 1] + TokenLen(b, encoding[m])]
           end  == CHOOSE f : f = B(f)
           g    == [m \in 0 .. n |-> e[m + 1]]
<1>1. BoundariesIn(b, encoding) = {end[m] : m \in 0 .. n}
  BY DEF BoundariesIn
<1>2. g = B(g)
  <2>1. \A m \in 0 .. n : e[m + 1] = IF m = 0 THEN 0 ELSE g[m - 1] + TokenLen(b, encoding[m])
    <3> TAKE m \in 0 .. n
    <3>1. CASE m = 0
      BY <3>1
    <3>2. CASE m # 0
      <4>1. m \in 1 .. n /\ m - 1 \in 0 .. n /\ (m - 1) + 1 = m
        BY <3>2
      <4>2. g[m - 1] = e[m]
        BY <4>1
      <4> QED BY <3>2, <4>1, <4>2
    <3> QED BY <3>1, <3>2
  <2> QED BY <2>1
<1>3. end = B(end)
  <2> HIDE DEF B, g
  <2> QED BY <1>2
<1>4. \A m \in 0 .. n : end[m] = IF m = 0 THEN 0 ELSE end[m - 1] + TokenLen(b, encoding[m])
  <2> HIDE DEF end
  <2> QED BY <1>3
<1> HIDE DEF end
<1> DEFINE Good == {m \in Nat : m <= n => end[m] = e[m + 1]}
<1>5. 0 \in Good
  BY <1>4
<1>6. ASSUME NEW m \in Nat, m \in Good PROVE m + 1 \in Good
  <2> SUFFICES ASSUME m + 1 <= n PROVE end[m + 1] = e[m + 1 + 1]
    OBVIOUS
  <2> DEFINE j == m + 1
  <2>1. j \in 1 .. n /\ j \in 0 .. n /\ j # 0 /\ j - 1 = m /\ end[m] = e[j]
    BY <1>6
  <2> HIDE DEF j
  <2>2. end[j] = e[j] + TokenLen(b, encoding[j]) /\ e[j + 1] = e[j] + TokenLen(b, encoding[j])
    BY <1>4, <2>1
  <2>3. end[j] = e[j + 1]
    BY <2>2
  <2> QED BY <2>3 DEF j
<1>7. \A m \in Nat : m \in Good
  <2> HIDE DEF Good
  <2> QED BY <1>5, <1>6, SetInduction
<1>8. \A m \in 0 .. n : end[m] = e[m + 1]
  BY <1>7
<1> HIDE DEF Good
<1> QED BY <1>1, <1>8

(* Every token that is a candidate at pos and no longer than the current   *)
(* one is the current one or is no longer than its longest prefix.         *)
LEMMA ShorterFound ==
  ASSUME Inv, DictionaryBuilt, pc = "step", NEW t \in DOMAIN bpe.vocab,
         OccursAt(bpe.vocab[t], text, pos, Len(text)),
         Len(bpe.vocab[t]) <= Len(bpe.vocab[token])
  PROVE  \/ t = token
         \/ /\ bpe.next_prefix_match[token] \in DOMAIN bpe.vocab
            /\ Len(bpe.vocab[t]) <= Len(bpe.vocab[bpe.next_prefix_match[token]])
<1> DEFINE v == bpe.vocab
           w == v[token]
           u == v[t]
<1>1. Usable(v) /\ IsSeq(text)
  BY StateUsable
<1>2. token \in DOMAIN v /\ OccursAt(w, text, pos, Len(text)) /\ pos \in Nat
  BY DEF Inv, TypeOK, CandidateFits
<1>3. /\ IsSeq(u) /\ IsSeq(w) /\ Len(u) \in Nat \ {0} /\ Len(w) \in Nat \ {0}
      /\ \A id \in DOMAIN v : Len(v[id]) \in Nat
  BY <1>1, <1>2, UsableFacts
<1>4. (\A k \in 1 .. Len(w) : text[pos + k] = w[k]) /\ (\A k \in 1 .. Len(u) : text[pos + k] = u[k])
  BY <1>2 DEF OccursAt
<1>5. Len(u) <= Len(w)
  OBVIOUS
<1>6. bpe.next_prefix_match = NextPrefixMatch(v)
  BY DEF Inv, BpeOK
<1> HIDE DEF v, w, u
<1>7. \A k \in 1 .. Len(u) : k \in 1 .. Len(w) /\ w[k] = u[k]
  BY <1>3, <1>4, <1>5
<1>8. CASE Len(u) = Len(w)
  <2>1. u = w
    BY <1>3, <1>7, <1>8, SameSeq
  <2>2. \A x, y \in DOMAIN v : v[x] = v[y] => x = y
    BY <1>1 DEF Usable, Mergeable
  <2> QED BY <1>2, <2>1, <2>2 DEF u, w, v
<1>9. CASE Len(u) < Len(w)
  <2> DEFINE to == Len(w) - 1
             m  == NextMatch(v, w, 0, to)
  <2>1. to \in Nat /\ 0 < to /\ Len(u) <= to /\ Len(w) > 1
    BY <1>3, <1>9
  <2>2. m = NextPrefixMatch(v)[token]
    BY <1>2, <2>1 DEF NextPrefixMatch, w
  <2>3. OccursAt(u, w, 0, to)
    <3>1. 0 + Len(u) <= to /\ \A k \in 1 .. Len(u) : w[0 + k] = u[k]
      BY <1>3, <1>7, <2>1
    <3> QED BY <3>1 DEF OccursAt
  <2> HIDE DEF to
  <2>4. m \in DOMAIN v /\ \A other \in DOMAIN v : OccursAt(v[other], w, 0, to) => Len(v[other]) <= Len(v[m])
    <3>1. t \in DOMAIN v /\ OccursAt(v[t], w, 0, to)
      BY <2>3 DEF u, v
    <3> QED BY <1>3, <2>1, <3>1, NextMatchFound
  <2> HIDE DEF m
  <2>5. Len(u) <= Len(v[m])
    BY <2>3, <2>4 DEF u, v
  <2> QED BY <1>6, <2>2, <2>4, <2>5 DEF u, v
<1> QED BY <1>3, <1>5, <1>8, <1>9

(***************************************************************************)
(* btenc_step takes a token back only when every token that the text has   *)
(* at pos has been turned down.                                            *)
(***************************************************************************)
LEMMA AllFail ==
  ASSUME Inv, DictionaryBuilt, TokenTried, Backtrack, NEW t \in DOMAIN bpe.vocab,
         OccursAt(bpe.vocab[t], text, pos, Len(text))
  PROVE  Fails(bpe, bitfield, Last(tokens), pos, t)
<1> DEFINE a == Len(bpe.vocab[t])
           b == Len(bpe.vocab[token])
<1>1. pc = "step" /\ ~Acceptable /\ bpe.next_prefix_match[token] = NoToken
  BY DEF Backtrack
<1>2. token \in DOMAIN bpe.vocab
  BY <1>1 DEF Inv, TypeOK, CandidateFits
<1>3. a \in Nat /\ b \in Nat
  BY <1>2, StateUsable, UsableFacts
<1>4. CASE a > b
  BY <1>1, <1>4 DEF TokenTried, LongerFail
<1>5. CASE a <= b
  <2>1. NoToken \notin DOMAIN bpe.vocab
    BY StateFacts
  <2>2. t = token
    BY <1>1, <1>5, <2>1, ShorterFound
  <2> QED BY <1>1, <2>2 DEF Acceptable, Fails, EndPos, TokenLen
<1> HIDE DEF a, b
<1> QED BY <1>3, <1>4, <1>5

(***************************************************************************)
(* The boundaries of an encoding are 0, its end and those between.         *)
(***************************************************************************)
LEMMA EncodingCuts ==
  ASSUME NEW b, Usable(b.vocab), NEW s, IsSeq(s), Complete(b.vocab, s)
  PROVE  LET R == ReferenceEncoding(b.vocab, s)
         IN  /\ IsSeq(R) /\ Len(R) \in Nat
             /\ \E e : /\ ValidCut(b.vocab, s, R, e, Len(R))
                       /\ BoundariesIn(b, R) = {e[m + 1] : m \in 0 .. Len(R)}
<1> DEFINE R == ReferenceEncoding(b.vocab, s)
<1>1. IsSeq(R)
  BY ReferenceIsValid
<1>2. PICK e : ValidCut(b.vocab, s, R, e, Len(R))
  BY ReferenceIsValid
<1> HIDE DEF R
<1>3. /\ Len(R) \in Nat /\ e[1] = 0
      /\ \A i \in 1 .. Len(R) : R[i] \in DOMAIN b.vocab /\ e[i + 1] = e[i] + Len(b.vocab[R[i]])
  BY <1>2, CutStack
<1>4. \A i \in 1 .. Len(R) : e[i + 1] = e[i] + TokenLen(b, R[i])
  BY <1>3 DEF TokenLen
<1>5. BoundariesIn(b, R) = {e[m + 1] : m \in 0 .. Len(R)}
  BY <1>3, <1>4, BoundaryFacts
<1> QED BY <1>1, <1>2, <1>3, <1>5 DEF R

(***************************************************************************)
(* The boundary that a backtrack rules out is not one of the answer: the   *)
(* answer's token at pos would follow the tokens on the stack, which are   *)
(* the answer's tokens before pos, and it has been turned down.            *)
(***************************************************************************)
LEMMA NotABoundary ==
  ASSUME Inv, DictionaryBuilt, TokenTried, AnswerSurvives, Backtrack
  PROVE  pos \notin BoundariesIn(bpe, ReferenceEncoding(bpe.vocab, text))
<1> DEFINE v == bpe.vocab
           R == ReferenceEncoding(v, text)
           n == Len(R)
<1>1. IsSeq(R) /\ n \in Nat
  BY StateUsable, EncodingCuts
<1>2. PICK e : ValidCut(v, text, R, e, n) /\ BoundariesIn(bpe, R) = {e[m + 1] : m \in 0 .. n}
  BY StateUsable, EncodingCuts
<1>3. /\ Usable(v) /\ IsSeq(text) /\ IsSeq(tokens) /\ Len(tokens) \in Nat
      /\ tokens = ReferenceEncoding(v, SubSeq(text, 1, pos))
  BY StateUsable
<1>4. BoundariesIn(bpe, R) \subseteq bitfield /\ pc = "step"
  BY SurvivesMeans DEF Backtrack
<1>5. pos < Len(text) /\ pos \in Nat /\ Len(text) \in Nat
  <2>1. token \in DOMAIN v /\ OccursAt(v[token], text, pos, Len(text)) /\ pos \in Nat
    BY <1>4 DEF Inv, TypeOK, CandidateFits
  <2>2. Len(v[token]) \in Nat \ {0} /\ Len(text) \in Nat
    BY <1>3, <2>1, UsableFacts, SeqFacts
  <2>3. pos + Len(v[token]) <= Len(text)
    BY <2>1 DEF OccursAt
  <2> HIDE DEF v
  <2> QED BY <2>1, <2>2, <2>3
<1> HIDE DEF R, v, n
<1>6. /\ e[n + 1] = Len(text)
      /\ \A i \in 1 .. n :
           /\ R[i] \in DOMAIN v
           /\ e[i + 1] = e[i] + Len(v[R[i]])
           /\ OccursAt(v[R[i]], text, e[i], Len(text))
           /\ i > 1 => ValidPair(FromDictionary(v), R[i - 1], R[i])
  BY <1>2, <1>3, CutStack
<1> SUFFICES ASSUME NEW m \in 0 .. n, pos = e[m + 1] PROVE FALSE
  BY <1>2 DEF R, v
<1>7. m \in 0 .. n - 1
  BY <1>1, <1>5, <1>6
<1> DEFINE x == m + 1
           t == R[x]
<1>8. x \in 1 .. n /\ m \in Nat /\ x - 1 = m
  BY <1>1, <1>7
<1> HIDE DEF x
<1>9. t \in DOMAIN v /\ OccursAt(v[t], text, pos, Len(text)) /\ e[x + 1] = pos + Len(v[t])
  BY <1>6, <1>8 DEF x
<1>10. e[x + 1] \in bitfield
  <2>1. x \in 0 .. n
    BY <1>8, <1>1
  <2> QED BY <1>2, <1>4, <2>1
<1>11. tokens = SubSeq(R, 1, m)
  <2>1. SubSeq(R, 1, m) = ReferenceEncoding(v, SubSeq(text, 1, e[m + 1]))
    BY <1>1, <1>2, <1>3, PrefixIsReference DEF n
  <2> QED BY <1>3, <2>1
<1>12. Len(tokens) = m /\ \A y \in 1 .. m : tokens[y] = R[y]
  BY <1>1, <1>11, PrefixFacts DEF n
<1>13. Last(tokens) # NoToken => ValidPair(bpe, Last(tokens), t)
  <2> SUFFICES ASSUME tokens # <<>> PROVE ValidPair(bpe, Last(tokens), t)
    BY DEF Last
  <2>1. m # 0
    BY <1>3, <1>12, EmptySeq DEF IsSeq
  <2>2. Last(tokens) = R[m] /\ x > 1
    <3>1. m \in 1 .. m
      BY <1>8, <2>1
    <3> QED BY <1>8, <1>12, <2>1, <3>1 DEF Last
  <2>3. ValidPair(FromDictionary(v), R[x - 1], R[x])
    BY <1>6, <1>8, <2>2
  <2> QED BY <1>8, <2>2, <2>3 DEF DictionaryBuilt, v
<1>14. Fails(bpe, bitfield, Last(tokens), pos, t)
  BY <1>9, AllFail DEF v
<1> QED BY <1>9, <1>10, <1>13, <1>14 DEF Fails, v

(***************************************************************************)
(* So btenc_step always has a token to take back.                          *)
(***************************************************************************)
LEMMA SomethingToTakeBack ==
  ASSUME Inv, DictionaryBuilt, TokenTried, AnswerSurvives, Backtrack
  PROVE  tokens # <<>>
<1> DEFINE R == ReferenceEncoding(bpe.vocab, text)
<1>1. Len(R) \in Nat
  BY StateUsable, EncodingCuts
<1>2. PICK e : ValidCut(bpe.vocab, text, R, e, Len(R)) /\ BoundariesIn(bpe, R) = {e[m + 1] : m \in 0 .. Len(R)}
  BY StateUsable, EncodingCuts
<1>3. e[1] = 0
  <2>1. Usable(bpe.vocab) /\ IsSeq(text)
    BY StateUsable
  <2> HIDE DEF R
  <2> QED BY <1>2, <2>1, CutStack
<1> HIDE DEF R
<1>4. 0 \in BoundariesIn(bpe, R)
  <2>1. 0 \in 0 .. Len(R) /\ 0 + 1 = 1
    BY <1>1
  <2> QED BY <1>2, <1>3, <2>1
<1>5. tokens = <<>> => pos = 0
  BY DEF Inv, Segmentation
<1> QED BY <1>4, <1>5, NotABoundary DEF R


-----------------------------------------------------------------------------
(* Exactness of what is returned.                                          *)

(***************************************************************************)
(* The inductive invariant: the stack is exact, everything longer than a   *)
(* token in hand has been turned down, and the answer's boundaries are     *)
(* still allowed.                                                          *)
(***************************************************************************)
ExactInv == Inv /\ DictionaryBuilt /\ Tried /\ AnswerSurvives /\ ResultExact

(* The bit field of a new call allows every position of its text.          *)
LEMMA NewBitsCover ==
  ASSUME NEW n \in Nat, NEW old
  PROVE  0 .. n \subseteq NewBits(n + 1) /\ 0 .. n \subseteq ResetBits(old, n + 1)
<1>1. Words(n + 1) \in Nat /\ Words(n + 1) * WordBits >= n + 1
  BY WordsCover
<1>2. Words(n + 1) * WordBits \in Int
  BY <1>1, ConstantsAssumption
<1> DEFINE w == Words(n + 1) * WordBits
<1>3. NewBits(n + 1) = 0 .. w - 1
  BY DEF NewBits
<1> HIDE DEF w
<1>4. 0 .. n \subseteq 0 .. w - 1
  BY <1>1, <1>2 DEF w
<1> QED BY <1>3, <1>4 DEF ResetBits

(* A new call. *)
LEMMA CallExact ==
  ASSUME ExactInv, NEW o \in Ops, NEW t \in Texts, NEW l \in Limits, Call(o, t, l)
  PROVE  Tried' /\ AnswerSurvives' /\ ResultExact'
<1> DEFINE v == bpe.vocab
<1>1. Inv /\ DictionaryBuilt /\ v \in Vocabularies
  BY DEF ExactInv, Inv, BpeOK
<1>2. Usable(v) /\ IsSeq(t) /\ Complete(v, t) /\ Len(t) \in Nat
  BY <1>1, VocabularyUsable, VocabularyFacts
<1>3. /\ bpe' = bpe /\ text' = t /\ tokens' = <<>> /\ pos' = 0 /\ ends' = <<0>> /\ pc' = "loop"
      /\ next_token' = NextMatch(v, t, 0, Len(t))
      /\ bitfield' = ResetBits(scratch.bits, Len(t) + 1) \/ bitfield' = NewBits(Len(t) + 1)
  BY DEF Call
<1>4. StackTried' /\ TokenTried'
  BY <1>3 DEF StackTried, TokenTried
<1>5. NextTried'
  <2> SUFFICES ASSUME next_token' # NoToken
               PROVE  LongerFail(bpe, t, bitfield', Last(tokens'), 0, Len(v[next_token']))
    BY <1>3 DEF NextTried
  <2>1. 0 < Len(t)
    BY <1>2, <1>3, NextMatchNone DEF NoToken
  <2> QED BY <1>1, <1>3, <2>1, MatchIsLongest
<1>6. EndReached'
  <2> SUFFICES ASSUME next_token' = NoToken, Len(t) # 0 PROVE FALSE
    BY <1>2, <1>3 DEF EndReached
  <2>1. 0 < Len(t)
    BY <1>2
  <2>2. next_token' \in DOMAIN v
    BY <1>1, <1>2, <1>3, <2>1, VocabularyFacts, NextMatchComplete
  <2> QED BY <1>1, <2>2, StateFacts
<1>7. AnswerSurvives'
  <2> DEFINE R == ReferenceEncoding(v, t)
  <2>1. Len(R) \in Nat
    BY <1>2, EncodingCuts
  <2>2. PICK e : ValidCut(v, t, R, e, Len(R)) /\ BoundariesIn(bpe, R) = {e[m + 1] : m \in 0 .. Len(R)}
    BY <1>2, EncodingCuts
  <2> HIDE DEF R, v
  <2>3. \A i \in 1 .. Len(R) + 1 : e[i] \in 0 .. Len(t)
    BY <1>2, <2>2, CutStack
  <2>4. \A m \in 0 .. Len(R) : e[m + 1] \in 0 .. Len(t)
    <3> TAKE m \in 0 .. Len(R)
    <3>1. m + 1 \in 1 .. Len(R) + 1
      BY <2>1
    <3> QED BY <2>3, <3>1
  <2>5. 0 .. Len(t) \subseteq bitfield'
    BY <1>2, <1>3, NewBitsCover
  <2>6. BoundariesIn(bpe, R) \subseteq bitfield'
    BY <2>2, <2>4, <2>5
  <2> QED BY <1>3, <2>6, SurvivesMeans DEF R, v
<1>8. ResultExact'
  BY <1>3 DEF ResultExact
<1> QED BY <1>4, <1>5, <1>6, <1>7, <1>8 DEF Tried

(* The token is accepted. *)
LEMMA AcceptExact == ASSUME ExactInv, Accept PROVE Tried' /\ AnswerSurvives' /\ ResultExact'
<1> DEFINE v == bpe.vocab
           n == Len(tokens)
<1>1. Inv /\ DictionaryBuilt /\ v \in Vocabularies /\ text \in Texts \cup {<<>>} /\ AnswerSurvives
  BY DEF ExactInv, Inv, BpeOK, TypeOK
<1>2. /\ bpe' = bpe /\ text' = text /\ bitfield' = bitfield /\ pc' = "loop" /\ pc = "step"
      /\ tokens' = Append(tokens, token) /\ ends' = Append(ends, EndPos) /\ pos' = EndPos
      /\ next_token' = NextMatch(v, text, EndPos, Len(text))
  BY DEF Accept, NextToken
<1>3. StackTried /\ TokenTried
  BY <1>2 DEF ExactInv, Tried
<1>4. n \in Nat /\ Len(ends) = n + 1 /\ ends[n + 1] = pos /\ ends \in Seq(Nat) /\ tokens \in Seq(DOMAIN v)
  BY <1>1 DEF Inv, TypeOK, Segmentation
<1>5. /\ Len(tokens') = n + 1 /\ tokens'[n + 1] = token
      /\ \A i \in 1 .. n : tokens'[i] = tokens[i]
      /\ \A i \in 1 .. n + 1 : ends'[i] = ends[i]
  <2>1. IsSeq(tokens) /\ IsSeq(ends)
    BY <1>4 DEF IsSeq
  <2> QED BY <1>2, <1>4, <2>1, AppendFacts
<1>6. EndPos \in Nat /\ EndPos <= Len(text) /\ Len(text) \in Nat
  <2>1. Inv'
    BY <1>1, AcceptInv
  <2> QED BY <1>1, <1>2, <2>1, StateFacts DEF Inv, TypeOK, BoundariesRise
<1>7. StackTried'
  <2> SUFFICES ASSUME NEW i \in 1 .. n + 1
               PROVE  LongerFail(bpe, text, bitfield,
                                 IF i = 1 THEN NoToken ELSE tokens'[i - 1],
                                 ends'[i], Len(v[tokens'[i]]))
    BY <1>2, <1>5 DEF StackTried, Before
  <2>1. CASE i \in 1 .. n
    <3>1. LongerFail(bpe, text, bitfield, Before(i), ends[i], Len(v[tokens[i]]))
      BY <1>3, <2>1 DEF StackTried
    <3>2. i # 1 => i - 1 \in 1 .. n
      BY <1>4, <2>1
    <3> QED BY <1>5, <2>1, <3>1, <3>2 DEF Before
  <2>2. CASE i = n + 1
    <3>1. LongerFail(bpe, text, bitfield, Last(tokens), pos, Len(v[token]))
      BY <1>2, <1>3 DEF TokenTried
    <3>2. Last(tokens) = IF i = 1 THEN NoToken ELSE tokens'[i - 1]
      <4>1. CASE n = 0
        <5>1. tokens = <<>>
          BY <1>4, <4>1, EmptySeq
        <5> QED BY <2>2, <4>1, <5>1 DEF Last
      <4>2. CASE n # 0
        <5>1. tokens # <<>> /\ i # 1 /\ i - 1 = n /\ n \in 1 .. n
          BY <1>4, <2>2, <4>2
        <5> QED BY <1>5, <5>1 DEF Last
      <4> QED BY <4>1, <4>2
    <3> QED BY <1>4, <1>5, <2>2, <3>1, <3>2
  <2> QED BY <1>4, <2>1, <2>2
<1>8. NextTried'
  <2> SUFFICES ASSUME next_token' # NoToken
               PROVE  LongerFail(bpe, text, bitfield, Last(tokens'), EndPos, Len(v[next_token']))
    BY <1>2 DEF NextTried
  <2>1. EndPos < Len(text)
    BY <1>2, <1>6, NextMatchNone DEF NoToken
  <2> QED BY <1>1, <1>2, <1>6, <2>1, MatchIsLongest
<1>9. EndReached'
  <2> SUFFICES ASSUME next_token' = NoToken, EndPos # Len(text) PROVE FALSE
    BY <1>2 DEF EndReached
  <2>1. EndPos < Len(text)
    BY <1>6
  <2>2. next_token' \in DOMAIN v
    <3> DEFINE to == Len(text)
               p  == EndPos
    <3>1. /\ Complete(v, text) /\ p \in Nat /\ to \in Nat /\ p < to /\ to <= Len(text)
          /\ \A id \in DOMAIN v : Len(v[id]) \in Nat
      BY <1>1, <1>6, <2>1, VocabularyFacts
    <3>2. next_token' = NextMatch(v, text, p, to)
      BY <1>2
    <3> HIDE DEF v, p, to
    <3> QED BY <3>1, <3>2, NextMatchComplete
  <2> QED BY <1>1, <2>2, StateFacts
<1>10. TokenTried' /\ ResultExact'
  BY <1>2 DEF TokenTried, ResultExact
<1>11. AnswerSurvives'
  BY <1>1, <1>2, SurvivesMeans
<1> QED BY <1>7, <1>8, <1>9, <1>10, <1>11 DEF Tried

(* The token does not fit, the next shorter one is tried. *)
LEMMA TryShorterExact == ASSUME ExactInv, TryShorter PROVE Tried' /\ AnswerSurvives' /\ ResultExact'
<1> DEFINE v == bpe.vocab
           w == v[bpe.next_prefix_match[token]]
<1>1. Inv /\ DictionaryBuilt /\ AnswerSurvives
  BY DEF ExactInv
<1>2. /\ UNCHANGED <<bpe, text, bitfield, pc, tokens, ends, pos, next_token>>
      /\ pc = "step" /\ ~Acceptable /\ token' = bpe.next_prefix_match[token] /\ token' # NoToken
  BY DEF TryShorter
<1>3. StackTried /\ TokenTried /\ EndReached
  BY <1>2 DEF ExactInv, Tried
<1>4. StackTried' /\ NextTried' /\ EndReached' /\ ResultExact'
  BY <1>2, <1>3 DEF StackTried, Before, NextTried, EndReached, ResultExact
<1>5. ASSUME NEW t \in DOMAIN v, OccursAt(v[t], text, pos, Len(text)), Len(v[t]) > Len(w)
      PROVE  Fails(bpe, bitfield, Last(tokens), pos, t)
  <2> DEFINE a == Len(v[t])
             b == Len(v[token])
             c == Len(w)
  <2>1. token \in DOMAIN v /\ token' \in DOMAIN v
    <3>1. Inv'
      BY <1>1, TryShorterInv
    <3> QED BY <1>1, <1>2, <3>1 DEF Inv, TypeOK, CandidateFits
  <2>2. a \in Nat /\ b \in Nat /\ c \in Nat
    BY <1>1, <1>2, <2>1, StateUsable, UsableFacts
  <2>3. CASE a > b
    BY <1>2, <1>3, <1>5, <2>3 DEF TokenTried, LongerFail
  <2>4. CASE a <= b
    <3>1. t = token \/ a <= c
      BY <1>1, <1>2, <1>5, <2>4, ShorterFound
    <3>2. t = token
      <4> HIDE DEF a, c
      <4>1. a > c
        BY <1>5 DEF a, c
      <4> QED BY <2>2, <3>1, <4>1
    <3> QED BY <1>2, <3>2 DEF Acceptable, Fails, EndPos, TokenLen
  <2> HIDE DEF a, b, c
  <2> QED BY <2>2, <2>3, <2>4
<1>6. TokenTried'
  <2>1. LongerFail(bpe, text, bitfield, Last(tokens), pos, Len(w))
    BY <1>5 DEF LongerFail
  <2> QED BY <1>2, <2>1 DEF TokenTried
<1>7. AnswerSurvives'
  BY <1>1, <1>2, SurvivesMeans
<1> QED BY <1>4, <1>6, <1>7 DEF Tried

(* No token fits, the last one accepted is given back. *)
LEMMA BacktrackExact == ASSUME ExactInv, Backtrack PROVE Tried' /\ AnswerSurvives' /\ ResultExact'
<1> DEFINE v == bpe.vocab
           n == Len(tokens)
           last == Last(tokens)
<1>1. Inv /\ DictionaryBuilt /\ AnswerSurvives /\ pc = "step"
  BY DEF ExactInv, Backtrack
<1>2. StackTried /\ TokenTried
  BY <1>1 DEF ExactInv, Tried
<1>3. tokens # <<>>
  BY <1>1, <1>2, SomethingToTakeBack
<1>4. /\ UNCHANGED <<bpe, text>> /\ pc' = "loop" /\ next_token' = last
      /\ bitfield' = bitfield \ {pos} /\ bitfield' \subseteq bitfield
  BY <1>3 DEF Backtrack, Retired
<1>5. /\ n \in Nat \ {0} /\ last = tokens[n] /\ last \in DOMAIN v
      /\ pos' = ends[n]
      /\ Len(tokens') = n - 1 /\ Len(ends') = n
      /\ \A i \in 1 .. n - 1 : tokens'[i] = tokens[i]
      /\ \A i \in 1 .. n : ends'[i] = ends[i]
      /\ tokens' \in Seq(DOMAIN v)
  BY <1>1, <1>3, BacktrackPops
<1>6. ASSUME NEW i \in 1 .. n
      PROVE  LongerFail(bpe, text, bitfield', Before(i), ends[i], Len(v[tokens[i]]))
  BY <1>2, <1>4, FailKeeps DEF StackTried
<1> HIDE DEF n, last
<1>7. StackTried'
  <2> SUFFICES ASSUME NEW i \in 1 .. n - 1
               PROVE  LongerFail(bpe, text, bitfield',
                                 IF i = 1 THEN NoToken ELSE tokens'[i - 1],
                                 ends'[i], Len(v[tokens'[i]]))
    BY <1>4, <1>5 DEF StackTried, Before
  <2>1. i \in 1 .. n /\ (i # 1 => i - 1 \in 1 .. n - 1)
    BY <1>5
  <2> QED BY <1>5, <1>6, <2>1 DEF Before
<1>8. NextTried'
  <2>1. Last(tokens') = Before(n)
    <3>1. CASE n = 1
      <4>1. tokens' = <<>>
        BY <1>5, <3>1, EmptySeq
      <4> QED BY <3>1, <4>1 DEF Last, Before
    <3>2. CASE n # 1
      <4>1. n - 1 \in 1 .. n - 1 /\ tokens' # <<>>
        BY <1>5, <3>2
      <4> QED BY <1>5, <3>2, <4>1 DEF Last, Before
    <3> QED BY <3>1, <3>2
  <2>2. n \in 1 .. n
    BY <1>5
  <2>3. LongerFail(bpe, text, bitfield', Last(tokens'), pos', Len(v[next_token']))
    BY <1>4, <1>5, <1>6, <2>1, <2>2
  <2> QED BY <1>4, <2>3 DEF NextTried
<1>9. EndReached'
  <2>1. NoToken \notin DOMAIN v
    BY <1>1, StateFacts
  <2> QED BY <1>4, <1>5, <2>1 DEF EndReached
<1>10. TokenTried' /\ ResultExact'
  BY <1>4 DEF TokenTried, ResultExact
<1>11. AnswerSurvives'
  <2>1. BoundariesIn(bpe, ReferenceEncoding(v, text)) \subseteq bitfield
    BY <1>1, SurvivesMeans
  <2>2. pos \notin BoundariesIn(bpe, ReferenceEncoding(v, text))
    BY <1>1, <1>2, NotABoundary
  <2> QED BY <1>4, <2>1, <2>2, SurvivesMeans
<1> QED BY <1>7, <1>8, <1>9, <1>10, <1>11 DEF Tried

(* The steps of the loop that try nothing. *)
LEMMA LoopExact ==
  ASSUME ExactInv, BeginStep \/ GiveUp \/ Return
  PROVE  Tried' /\ AnswerSurvives' /\ ResultExact'
<1>1. Inv /\ DictionaryBuilt /\ AnswerSurvives
  BY DEF ExactInv
<1>2. CASE BeginStep
  <2>1. /\ UNCHANGED <<bpe, text, tokens, pos, next_token, bitfield, ends>>
        /\ pc = "loop" /\ pc' = "step" /\ next_token # NoToken /\ token' = next_token
    BY <1>2 DEF BeginStep
  <2>2. StackTried /\ NextTried /\ EndReached
    BY <2>1 DEF ExactInv, Tried
  <2>3. StackTried' /\ NextTried' /\ TokenTried' /\ EndReached'
    BY <2>1, <2>2 DEF StackTried, Before, NextTried, TokenTried, EndReached
  <2>4. AnswerSurvives'
    BY <1>1, <2>1, SurvivesMeans
  <2>5. ResultExact'
    BY <2>1 DEF ResultExact
  <2> QED BY <2>3, <2>4, <2>5 DEF Tried
<1>3. CASE GiveUp
  <2>1. /\ pc' = "idle" /\ UNCHANGED <<bpe, text, op, limit>> /\ op = "limit"
        /\ result'.exceeded = TRUE
        /\ Len(tokens) > LimitBuf
    BY <1>3 DEF GiveUp, OverLimit
  <2>2. pos \in 0 .. Len(text) /\ TokensOfBeginning(pos) > LimitBuf
    BY <1>1, <2>1, StateUsable DEF TokensOfBeginning
  <2>3. (\E n \in 0 .. Len(text) : TokensOfBeginning(n) > LimitBuf)'
    BY <2>1, <2>2 DEF TokensOfBeginning, LimitBuf
  <2>4. ResultExact'
    BY <2>1, <2>3 DEF ResultExact
  <2> QED BY <2>1, <2>4, SurvivesMeans DEF Tried
<1>4. CASE Return
  <2>1. /\ UNCHANGED <<bpe, text, op, limit>> /\ pc = "loop" /\ pc' = "idle" /\ next_token = NoToken
        /\ result'.tokens = IF op \in {"encode", "piece"} THEN tokens ELSE <<>>
        /\ result'.count = Len(tokens)
        /\ result'.exceeded = (op = "limit" /\ Len(tokens) > limit)
    BY <1>4 DEF Return
  <2>2. pos = Len(text)
    BY <2>1 DEF ExactInv, Tried, EndReached
  <2>3. tokens = Answer
    BY <1>1, <2>2, StateUsable, WholeSeq DEF Answer
  <2>4. Len(tokens) \in Nat /\ limit \in Nat
    BY <1>1 DEF Inv, TypeOK
  <2>5. Answer' = Answer
    BY <2>1 DEF Answer
  <2>6. result'.exceeded <=> op = "limit" /\ Len(Answer) > limit
    BY <2>1, <2>3
  <2>7. ResultExact'
    BY <2>1, <2>3, <2>4, <2>5, <2>6 DEF ResultExact
  <2> QED BY <2>1, <2>7, SurvivesMeans DEF Tried
<1> QED BY <1>2, <1>3, <1>4

(* The invariant holds at first. *)
LEMMA InitExact == Init => ExactInv
<1> SUFFICES ASSUME Init PROVE ExactInv
  OBVIOUS
<1>1. Inv /\ DictionaryBuilt
  BY InitInv, BuiltInit
<1>2. /\ pc = "idle" /\ op = "none" /\ text = <<>> /\ pos = 0 /\ tokens = <<>>
      /\ result = [tokens |-> <<>>, count |-> 0, exceeded |-> FALSE]
  BY DEF Init
<1>3. Tried /\ AnswerSurvives
  BY <1>2 DEF Tried, AnswerSurvives
<1>4. tokens = Answer
  <2>1. pos = Len(text)
    BY <1>2
  <2> QED BY <1>1, <2>1, StateUsable, WholeSeq DEF Answer
<1>5. Len(Answer) = 0
  BY <1>2, <1>4
<1>6. ResultExact
  BY <1>2, <1>5 DEF ResultExact
<1> QED BY <1>1, <1>3, <1>6 DEF ExactInv

(* Every step keeps it. *)
LEMMA NextExact == ExactInv /\ [Next]_vars => ExactInv'
<1> SUFFICES ASSUME ExactInv, [Next]_vars PROVE ExactInv'
  OBVIOUS
<1>1. Inv' /\ DictionaryBuilt'
  BY NextInv, BuiltStep DEF ExactInv
<1>2. Tried' /\ AnswerSurvives' /\ ResultExact'
  <2>1. CASE \E o \in Ops, t \in Texts, l \in Limits : Call(o, t, l)
    BY <2>1, CallExact
  <2>2. CASE Step
    BY <2>2, LoopExact, AcceptExact, TryShorterExact, BacktrackExact DEF Step
  <2>3. CASE UNCHANGED vars
    <3>1. /\ UNCHANGED <<bpe, pc, op, limit, text, tokens, pos, next_token, token, bitfield, result, ends>>
          /\ Tried /\ AnswerSurvives /\ ResultExact
      BY <2>3 DEF vars, ExactInv
    <3>2. Tried'
      BY <3>1 DEF Tried, StackTried, Before, NextTried, TokenTried, EndReached
    <3>3. ResultExact'
      BY <3>1 DEF ResultExact, Answer, TokensOfBeginning, LimitBuf
    <3>4. AnswerSurvives'
      BY <3>1, SurvivesMeans
    <3> QED BY <3>2, <3>3, <3>4
  <2> QED BY <2>1, <2>2, <2>3 DEF Next
<1> QED BY <1>1, <1>2 DEF ExactInv

(***************************************************************************)
(* While bpe_encode_via_backtracking runs, the tokens on its stack are the *)
(* reference encoding of the text so far, and what failed at a position    *)
(* cannot follow them.                                                     *)
(***************************************************************************)
THEOREM ExactInvariance == Spec => []ExactInv
  BY InitExact, NextExact, PTL DEF Spec

(***************************************************************************)
(* For every dictionary byte pair encoding can build, every text and every *)
(* history of the scratch buffer: no backtrack clears a bit at a boundary  *)
(* of the reference encoding.                                              *)
(***************************************************************************)
THEOREM AnswerAlwaysSurvives == Spec => []AnswerSurvives
<1>1. ExactInv => AnswerSurvives
  BY DEF ExactInv
<1> QED BY <1>1, ExactInvariance, PTL

(***************************************************************************)
(* For every such dictionary: bpe_encode_via_backtracking and              *)
(* bpe_encode_piece return the reference encoding; bpe_count,              *)
(* bpe_count_piece and bpe_count_till_limit, unless it returns SIZE_MAX,   *)
(* its length; and bpe_count_till_limit returns SIZE_MAX only if this      *)
(* length exceeds the limit or that of the encoding of some beginning of   *)
(* the text exceeds limit_buf.  The limit may be any size_t.               *)
(***************************************************************************)
THEOREM ResultsAlwaysExact == Spec => []ResultExact
<1>1. ExactInv => ResultExact
  BY DEF ExactInv
<1> QED BY <1>1, ExactInvariance, PTL
=============================================================================
