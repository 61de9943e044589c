-------------------------- MODULE TokenizerProofs --------------------------
(***************************************************************************)
(* Proofs about PieceIterator and Tokenizer.  Both splitters move on at    *)
(* every offset, for any text, so the pieces cover the text; and if the    *)
(* splitters find what their patterns find, the loops over the pieces give *)
(* the reference's tokens and their number, for any dictionary, text,      *)
(* limit and first capacity.                                               *)
(***************************************************************************)
EXTENDS Tokenizer, CommonLemmas

-----------------------------------------------------------------------------
(* Where a run ends.                                                       *)

LEMMA RunEnds ==
  ASSUME NEW t \in Seq(Chars), NEW p \in 0 .. Len(t), NEW class
  PROVE  /\ RunEnd(t, p, class) \in p .. Len(t)
         /\ IsAt(t, p, class) => RunEnd(t, p, class) # p
         /\ ~IsAt(t, p, class) => RunEnd(t, p, class) = p
<1> DEFINE Q == {q \in p .. Len(t) : ~IsAt(t, q, class)}
<1>1. Len(t) \in Nat
  BY LenProperties
<1>2. Len(t) \in Q /\ Q \in SUBSET Nat
  BY <1>1 DEF IsAt
<1>3. PICK q \in Q : \A k \in Q : q <= k
  <2> HIDE DEF Q
  <2> QED BY <1>2, LeastExists
<1>4. \E e \in p .. Len(t) : (\A k \in p .. e - 1 : IsAt(t, k, class)) /\ ~IsAt(t, e, class)
  <2>1. \A k \in p .. q - 1 : IsAt(t, k, class)
    BY <1>1, <1>3
  <2> QED BY <1>3, <2>1
<1>5. /\ RunEnd(t, p, class) \in p .. Len(t)
      /\ \A k \in p .. RunEnd(t, p, class) - 1 : IsAt(t, k, class)
      /\ ~IsAt(t, RunEnd(t, p, class), class)
  BY <1>4 DEF RunEnd
<1> QED BY <1>1, <1>5

-----------------------------------------------------------------------------
(* The alternatives: none ends before it starts or behind the text, and    *)
(* one that can start at p does not end there.                             *)

(* where an alternative that is tried at p may end *)
Ends(t, p) == p .. Len(t)

LEMMA ContractionEnds ==
  ASSUME NEW t \in Seq(Chars), NEW p \in 0 .. Len(t)
  PROVE  Contraction(t, p) \in Ends(t, p)
<1>1. Len(t) \in Nat
  BY LenProperties
<1> QED BY <1>1 DEF Contraction, IsAt, Ends

LEMMA LettersEnds ==
  ASSUME NEW t \in Seq(Chars), NEW p \in 0 .. Len(t)
  PROVE  /\ Letters(t, p) \in Ends(t, p)
         /\ IsAt(t, p, Letter) => Letters(t, p) # p
<1> DEFINE start == IF IsAt(t, p, WordPrefix) /\ IsAt(t, p + 1, Letter) THEN p + 1 ELSE p
<1>1. Len(t) \in Nat
  BY LenProperties
<1>2. start \in p .. Len(t) /\ start \in 0 .. Len(t)
  BY <1>1 DEF IsAt
<1>3. IsAt(t, p, Letter) => start = p
  BY DEF IsAt, WordPrefix
<1>4. Letters(t, p) = RunEnd(t, start, Letter)
  BY DEF Letters
<1> HIDE DEF start
<1>5. RunEnd(t, start, Letter) \in start .. Len(t)
  BY <1>2, RunEnds
<1>6. ASSUME IsAt(t, p, Letter)
      PROVE  RunEnd(t, p, Letter) # p
  BY <1>6, RunEnds
<1> QED BY <1>1, <1>2, <1>3, <1>4, <1>5, <1>6 DEF Ends

LEMMA NumbersEnds ==
  ASSUME NEW t \in Seq(Chars), NEW p \in 0 .. Len(t)
  PROVE  /\ Numbers(t, p) \in Ends(t, p)
         /\ IsAt(t, p, Number) => Numbers(t, p) # p
<1>1. Len(t) \in Nat
  BY LenProperties
<1>2. /\ RunEnd(t, p, Number) \in p .. Len(t)
      /\ IsAt(t, p, Number) => RunEnd(t, p, Number) # p
  BY RunEnds
<1> QED BY <1>1, <1>2 DEF Numbers, Ends

LEMMA PunctEnds ==
  ASSUME NEW t \in Seq(Chars), NEW p \in 0 .. Len(t), NEW tail
  PROVE  /\ Punct(t, p, tail) \in Ends(t, p)
         /\ IsAt(t, p, Other) => Punct(t, p, tail) # p
<1> DEFINE start == IF IsAt(t, p, {" "}) /\ IsAt(t, p + 1, Other) THEN p + 1 ELSE p
           end   == RunEnd(t, start, Other)
<1>1. Len(t) \in Nat
  BY LenProperties
<1>2. start \in p .. Len(t) /\ start \in 0 .. Len(t)
  <2> DEFINE prefixed == IsAt(t, p, {" "}) /\ IsAt(t, p + 1, Other)
  <2>1. prefixed => p < Len(t)
    BY Zenon DEF IsAt
  <2>2. start = IF prefixed THEN p + 1 ELSE p
    OBVIOUS
  <2> HIDE DEF start, prefixed, end
  <2> QED BY <1>1, <2>1, <2>2
<1>3. IsAt(t, p, Other) => start = p
  BY DEF IsAt, Other, Whitespace
<1>4. Punct(t, p, tail) = IF end = start THEN p ELSE RunEnd(t, end, tail)
  BY DEF Punct
<1>5. /\ end \in start .. Len(t)
      /\ IsAt(t, start, Other) => end # start
  <2> HIDE DEF start
  <2> QED BY <1>2, RunEnds
<1> HIDE DEF start, end
<1>6. end \in 0 .. Len(t)
  BY <1>1, <1>2, <1>5
<1>7. RunEnd(t, end, tail) \in end .. Len(t)
  BY <1>6, RunEnds
<1> QED BY <1>1, <1>2, <1>3, <1>4, <1>5, <1>7 DEF Ends

(* The words of o200k: the prefix, the run of the first class, the rest.   *)
LEMMA WordEnds ==
  ASSUME NEW t \in Seq(Chars), NEW p \in 0 .. Len(t)
  PROVE  /\ Camel(t, p) \in Ends(t, p)
         /\ AllCaps(t, p) \in Ends(t, p)
         /\ IsAt(t, p, Letter) => Camel(t, p) # p \/ AllCaps(t, p) # p
<1> DEFINE first == IF IsAt(t, p, WordPrefix) THEN p + 1 ELSE p
           lower == RunEnd(t, first, UpperClass)
           end   == RunEnd(t, lower, LowerClass)
<1>1. Len(t) \in Nat
  BY LenProperties
<1>2. first \in p .. Len(t) /\ first \in 0 .. Len(t)
  BY <1>1 DEF IsAt
<1>3. IsAt(t, p, Letter) => first = p
  BY DEF IsAt, WordPrefix
<1>4. IsAt(t, p, Letter) => IsAt(t, p, UpperClass) \/ IsAt(t, p, LowerClass)
  BY DEF IsAt, Letter, UpperClass, LowerClass
<1>5. /\ Camel(t, p) = IF end = lower THEN p ELSE Contraction(t, end)
      /\ AllCaps(t, p) = IF lower = first THEN p ELSE Contraction(t, end)
  BY DEF Camel, AllCaps
<1>6. /\ lower \in first .. Len(t)
      /\ IsAt(t, first, UpperClass) => lower # first
  <2> HIDE DEF first
  <2> QED BY <1>2, RunEnds
<1> HIDE DEF first
<1>7. lower \in 0 .. Len(t)
  BY <1>1, <1>2, <1>6
<1>8. /\ end \in lower .. Len(t)
      /\ IsAt(t, lower, LowerClass) => end # lower
  <2> HIDE DEF lower
  <2> QED BY <1>7, RunEnds
<1> HIDE DEF lower, end
<1>9. end \in 0 .. Len(t)
  BY <1>1, <1>7, <1>8
<1>10. Contraction(t, end) \in end .. Len(t)
  BY <1>9, ContractionEnds DEF Ends
<1>11. Camel(t, p) \in Ends(t, p) /\ AllCaps(t, p) \in Ends(t, p)
  BY <1>1, <1>2, <1>5, <1>6, <1>8, <1>10 DEF Ends
<1>12. ASSUME IsAt(t, p, Letter)
       PROVE  Camel(t, p) # p \/ AllCaps(t, p) # p
  <2>1. CASE lower # first
    BY <1>1, <1>2, <1>5, <1>6, <1>8, <1>10, <2>1
  <2>2. CASE lower = first
    <3>1. IsAt(t, lower, LowerClass)
      BY <1>3, <1>4, <1>6, <1>12, <2>2
    <3> QED BY <1>1, <1>2, <1>3, <1>5, <1>6, <1>8, <1>10, <1>12, <3>1
  <2> QED BY <2>1, <2>2
<1> QED BY <1>11, <1>12

LEMMA BlankEnds ==
  ASSUME NEW t \in Seq(Chars), NEW p \in 0 .. Len(t)
  PROVE  /\ WsNewlines(t, p) \in Ends(t, p)
         /\ TrailingWs(t, p) \in Ends(t, p)
         /\ WsLookahead(t, p) \in Ends(t, p)
         /\ WsLookahead(t, p) # p => WsLookahead(t, p) > p + 1
         /\ Ws(t, p) \in Ends(t, p)
         /\ IsAt(t, p, Whitespace) => Ws(t, p) # p
<1> DEFINE blank == RunEnd(t, p, Whitespace \ Newline)
<1>1. Len(t) \in Nat
  BY LenProperties
<1>2. /\ RunEnd(t, p, Whitespace) \in p .. Len(t)
      /\ IsAt(t, p, Whitespace) => RunEnd(t, p, Whitespace) # p
  BY RunEnds
<1>3. blank \in p .. Len(t)
  BY RunEnds
<1>4. WsNewlines(t, p) = IF IsAt(t, blank, Newline) THEN RunEnd(t, blank, Newline) ELSE p
  BY DEF WsNewlines
<1> HIDE DEF blank
<1>5. RunEnd(t, blank, Newline) \in blank .. Len(t)
  <2>1. blank \in 0 .. Len(t)
    BY <1>1, <1>3
  <2> QED BY <2>1, RunEnds
<1>6. WsNewlines(t, p) \in Ends(t, p)
  BY <1>1, <1>3, <1>4, <1>5 DEF Ends
<1> QED BY <1>1, <1>2, <1>6 DEF TrailingWs, WsLookahead, Ws, Ends

-----------------------------------------------------------------------------
(* The first match.                                                        *)

(* What a match looks like if something matches: it ends behind p, and one *)
(* that gives a character back ends two behind it.                         *)
MovesOn(match, p, t) ==
  /\ match.end \in p + 1 .. Len(t)
  /\ match.lookahead \in BOOLEAN
  /\ match.lookahead => match.end > p + 1

LEMMA FirstMatchMovesOn ==
  ASSUME NEW t \in Seq(Chars), NEW p \in 0 .. Len(t),
         NEW first \in Ends(t, p),
         NEW lookahead \in Ends(t, p), lookahead # p => lookahead > p + 1,
         NEW last \in Ends(t, p),
         first # p \/ last # p
  PROVE  MovesOn(FirstMatch(p, first, lookahead, last), p, t)
<1> DEFINE match == FirstMatch(p, first, lookahead, last)
           back  == first = p /\ lookahead # p
           end   == Else(p, first, Else(p, lookahead, last))
<1>1. Len(t) \in Nat
  BY LenProperties
<1>2. /\ match.end = end
      /\ match.lookahead = back
      /\ back \in BOOLEAN
  <2>1. match = [end |-> end, lookahead |-> back]
    BY Zenon DEF FirstMatch
  <2> HIDE DEF match, end, back
  <2>2. match.end = end /\ match.lookahead = back
    BY <2>1
  <2> QED BY <2>2, Zenon DEF back
<1>3. end \in p + 1 .. Len(t) /\ (back => end > p + 1)
  BY <1>1 DEF Else, Ends
<1> HIDE DEF match, end, back
<1>4. MovesOn(match, p, t)
  BY <1>2, <1>3 DEF MovesOn
<1> QED BY <1>4 DEF match

-----------------------------------------------------------------------------
(* The splitters.                                                          *)

(* whatever is at p, an alternative takes it *)
LEMMA SomethingIsAt ==
  ASSUME NEW t \in Seq(Chars), NEW p \in 0 .. Len(t), p < Len(t)
  PROVE  \/ IsAt(t, p, Letter)
         \/ IsAt(t, p, Number)
         \/ IsAt(t, p, Other)
         \/ IsAt(t, p, Whitespace)
<1>1. t[p + 1] \in Chars
  <2>1. Len(t) \in Nat /\ p + 1 \in 1 .. Len(t)
    BY LenProperties
  <2> QED BY <2>1, ElementOfSeq
<1>2. t[p + 1] \in Letter \cup Number \cup Other \cup Whitespace
  BY <1>1 DEF Other
<1> QED BY <1>2 DEF IsAt

LEMMA NoWordEnds ==
  ASSUME NEW t \in Seq(Chars), NEW p \in 0 .. Len(t), NEW tail
  PROVE  /\ NoWord(t, p, tail) \in Ends(t, p)
         /\ IsAt(t, p, Number) \/ IsAt(t, p, Other) => NoWord(t, p, tail) # p
<1> DEFINE places == Ends(t, p)
           numbers  == Numbers(t, p)
           punct    == Punct(t, p, tail)
           newlines == WsNewlines(t, p)
           trailing == TrailingWs(t, p)
<1>1. /\ numbers \in places /\ punct \in places
      /\ newlines \in places /\ trailing \in places
  BY NumbersEnds, PunctEnds, BlankEnds
<1>2. IsAt(t, p, Number) \/ IsAt(t, p, Other) => numbers # p \/ punct # p
  BY NumbersEnds, PunctEnds
<1>3. NoWord(t, p, tail) = Else(p, numbers, Else(p, punct, Else(p, newlines, trailing)))
  BY Zenon DEF NoWord
<1> HIDE DEF places, numbers, punct, newlines, trailing
<1>4. NoWord(t, p, tail) \in places
  BY <1>1, <1>3 DEF Else
<1>5. numbers # p \/ punct # p => NoWord(t, p, tail) # p
  BY <1>3 DEF Else
<1> QED BY <1>2, <1>4, <1>5 DEF places

(* both splitters: two alternatives for words, then the rest *)
LEMMA SplitterMovesOn ==
  ASSUME NEW t \in Seq(Chars), NEW p \in 0 .. Len(t), p < Len(t), NEW tail,
         NEW word1 \in Ends(t, p), NEW word2 \in Ends(t, p),
         IsAt(t, p, Letter) => word1 # p \/ word2 # p
  PROVE  MovesOn(FirstMatch(p, Else(p, word1, Else(p, word2, NoWord(t, p, tail))),
                            WsLookahead(t, p), Ws(t, p)), p, t)
<1> DEFINE places == Ends(t, p)
           noword == NoWord(t, p, tail)
           first  == Else(p, word1, Else(p, word2, noword))
<1>1. /\ WsLookahead(t, p) \in Ends(t, p)
      /\ WsLookahead(t, p) # p => WsLookahead(t, p) > p + 1
      /\ Ws(t, p) \in Ends(t, p)
  BY BlankEnds
<1>2. noword \in places /\ word1 \in places /\ word2 \in places
  BY NoWordEnds
<1>3. word1 # p \/ word2 # p \/ noword # p \/ Ws(t, p) # p
  BY SomethingIsAt, NoWordEnds, BlankEnds
<1>4. first \in places /\ (first # p \/ Ws(t, p) # p)
  <2> HIDE DEF places, noword
  <2> QED BY <1>2, <1>3 DEF Else
<1> HIDE DEF first
<1>5. MovesOn(FirstMatch(p, first, WsLookahead(t, p), Ws(t, p)), p, t)
  BY <1>1, <1>4, FirstMatchMovesOn
<1> QED BY <1>5 DEF first

LEMMA NativeMovesOn ==
  ASSUME NEW name, NEW t \in Seq(Chars), NEW p \in 0 .. Len(t), p < Len(t)
  PROVE  MovesOn(Native(name, t, p), p, t)
<1>1. MovesOn(Cl100k(t, p), p, t)
  <2>1. /\ Contraction(t, p) \in Ends(t, p)
        /\ Letters(t, p) \in Ends(t, p)
        /\ IsAt(t, p, Letter) => Letters(t, p) # p
    BY ContractionEnds, LettersEnds
  <2> QED BY <2>1, SplitterMovesOn DEF Cl100k
<1>2. MovesOn(O200k(t, p), p, t)
  <2> DEFINE tail == Newline \cup {"/"}
  <2>1. O200k(t, p)
          = FirstMatch(p, Else(p, Camel(t, p), Else(p, AllCaps(t, p), NoWord(t, p, tail))),
                       WsLookahead(t, p), Ws(t, p))
    BY Zenon DEF O200k
  <2> HIDE DEF tail
  <2> QED BY <2>1, WordEnds, SplitterMovesOn
<1> QED BY <1>1, <1>2 DEF Native

-----------------------------------------------------------------------------
(* The iterator.                                                           *)

(***************************************************************************)
(* The next piece starts inside the text or at its end; the last piece has *)
(* a character at least; the iteration is over only at the end.            *)
(***************************************************************************)
IterInv ==
  /\ text \in Seq(Chars)
  /\ offset \in 0 .. Len(text)
  /\ PiecesCoverText

(***************************************************************************)
(* Every splitter, on every text over the classes of code points, keeps    *)
(* the invariant: the loop of pretok_iter_next always moves on.            *)
(***************************************************************************)
THEOREM IterInvariance == SpecIter => []IterInv
<1>1. InitIter => IterInv
  <2> SUFFICES ASSUME InitIter PROVE IterInv
    OBVIOUS
  <2>1. text \in Seq(Chars) /\ Len(text) \in Nat
    BY TextsAssumption, LenProperties DEF InitIter
  <2> QED BY <2>1 DEF InitIter, IterInv, PiecesCoverText
<1>2. IterInv /\ [NextIter]_iter => IterInv'
  <2> SUFFICES ASSUME IterInv, [NextIter]_iter PROVE IterInv'
    OBVIOUS
  <2>1. text \in Seq(Chars) /\ Len(text) \in Nat /\ offset \in 0 .. Len(text)
    BY LenProperties DEF IterInv
  <2>2. offset < Len(text) => MovesOn(Native(fn, text, offset), offset, text)
    BY <2>1, NativeMovesOn
  <2>3. CASE Piece
    <3>1. offset < Len(text)
      BY <2>1, <2>3 DEF Piece, NoMore
    <3>2. NextEnd \in offset + 1 .. Len(text)
      <4> DEFINE match == Native(fn, text, offset)
      <4>1. /\ match.end \in offset + 1 .. Len(text)
            /\ match.lookahead => match.end > offset + 1
        BY <2>2, <3>1 DEF MovesOn
      <4>2. NextEnd = match.end - (IF match.lookahead THEN 1 ELSE 0)
        BY Zenon DEF NextEnd, PieceEnd
      <4> HIDE DEF match
      <4> QED BY <2>1, <4>1, <4>2
    <3>3. /\ text' = text /\ offset' = NextEnd /\ piece' = <<offset, NextEnd>>
          /\ ended' = ended /\ ~ended
      BY <2>3 DEF Piece
    <3> QED BY <2>1, <3>2, <3>3 DEF IterInv, PiecesCoverText
  <2>4. CASE End
    <3>1. offset = Len(text)
      <4>1. CASE offset < Len(text)
        BY <2>1, <2>2, <2>4, <4>1 DEF End, NoMore, MovesOn
      <4> QED BY <2>1, <4>1
    <3> QED BY <2>1, <2>4, <3>1 DEF End, IterInv, PiecesCoverText
  <2>5. CASE UNCHANGED iter
    BY <2>5 DEF iter, IterInv, PiecesCoverText
  <2> QED BY <2>3, <2>4, <2>5 DEF NextIter
<1> QED BY <1>1, <1>2, PTL DEF SpecIter

(***************************************************************************)
(* pretok_iter_next reports the end of a text only at its end, whatever    *)
(* the text: no splitter gives up in the middle and loses the rest.        *)
(***************************************************************************)
THEOREM PiecesCover == SpecIter => []PiecesCoverText
<1>1. IterInv => PiecesCoverText
  BY DEF IterInv
<1> QED BY <1>1, IterInvariance, PTL

-----------------------------------------------------------------------------
(* The loops over the pieces.                                              *)

(* what a buffer may hold *)
Ids == (UNION {DOMAIN v : v \in Vocabularies}) \cup {UINT32_MAX}

-----------------------------------------------------------------------------
(* Sequences.                                                              *)

LEMMA FunctionIsSeq ==
  ASSUME NEW S, NEW n \in Nat, NEW f \in [1 .. n -> S]
  PROVE  f \in Seq(S) /\ Len(f) = n
OBVIOUS

LEMMA Prefix ==
  ASSUME NEW S, NEW s \in Seq(S), NEW n \in 0 .. Len(s)
  PROVE  /\ SubSeq(s, 1, n) \in Seq(S)
         /\ Len(SubSeq(s, 1, n)) = n
         /\ \A i \in 1 .. n : SubSeq(s, 1, n)[i] = s[i]
<1>1. Len(s) \in Nat /\ \A i \in 1 .. n : s[i] \in S
  BY LenProperties, ElementOfSeq
<1>2. /\ SubSeq(s, 1, n) \in Seq(S)
      /\ Len(SubSeq(s, 1, n)) = IF 1 <= n THEN n - 1 + 1 ELSE 0
      /\ \A i \in 1 .. n - 1 + 1 : SubSeq(s, 1, n)[i] = s[1 + i - 1]
  BY <1>1, SubSeqProperties
<1> QED BY <1>1, <1>2

-----------------------------------------------------------------------------
(* The reference encoding of a text has no more tokens than the text has   *)
(* characters.                                                             *)

(* the parts of a text of n characters *)
Parts(n) == {p \in Seq(Seq(Chars)) : Len(p) <= n}

LEMMA FoundIsId ==
  ASSUME NEW v \in Vocabularies, NEW bytes
  PROVE  FindTokenByBytes(v, bytes) \in Ids
BY DEF FindTokenByBytes, Ids

LEMMA JoinKeepsParts ==
  ASSUME NEW v \in Vocabularies, NEW n \in Nat, NEW p \in Parts(n)
  PROVE  JoinLowest(v, p) \in Parts(n)
<1> DEFINE Joined(i) == p[i] \o p[i + 1]
           pairs     == {i \in 1 .. Len(p) - 1 : \E id \in DOMAIN v : v[id] = Joined(i)}
           Rank(i)   == FindTokenByBytes(v, Joined(i))
           Lowest(i) == \A j \in pairs : Rank(i) < Rank(j) \/ (Rank(i) = Rank(j) /\ i <= j)
           lowest    == CHOOSE i \in pairs : Lowest(i)
           joined    == SubSeq(p, 1, lowest - 1) \o <<Joined(lowest)>>
                        \o SubSeq(p, lowest + 2, Len(p))
<1>1. p \in Seq(Seq(Chars)) /\ Len(p) \in 0 .. n
  BY LenProperties DEF Parts
<1>2. JoinLowest(v, p) = IF pairs = {} THEN p ELSE joined
  BY DEF JoinLowest
<1>3. CASE pairs = {}
  BY <1>2, <1>3
<1>4. CASE pairs # {}
  <2>1. \A i \in pairs : Rank(i) \in Nat
    BY TokenizerAssumption DEF FindTokenByBytes
  <2> HIDE DEF Rank
  <2>2. \E i \in pairs : Lowest(i)
    <3> DEFINE ranks == {Rank(i) : i \in pairs}
    <3>1. PICK r \in ranks : \A s \in ranks : r <= s
      <4>1. ranks \in SUBSET Nat /\ ranks # {}
        BY <1>4, <2>1
      <4> HIDE DEF ranks
      <4> QED BY <4>1, LeastExists
    <3> DEFINE firsts == {i \in pairs : Rank(i) = r}
    <3>2. PICK i \in firsts : \A j \in firsts : i <= j
      <4>1. firsts # {}
        <5> HIDE DEF pairs
        <5> QED BY <3>1
      <4>2. firsts \in SUBSET Nat
        <5>1. pairs \in SUBSET Nat
          <6> HIDE DEF Joined
          <6> QED BY <1>1
        <5> HIDE DEF pairs
        <5> QED BY <5>1
      <4> HIDE DEF firsts
      <4> QED BY <4>1, <4>2, LeastExists
    <3>3. \A j \in pairs : r <= Rank(j) /\ Rank(j) \in Nat /\ r \in Nat
      BY <2>1, <3>1
    <3> HIDE DEF pairs
    <3>4. \A j \in pairs : Rank(i) < Rank(j) \/ (Rank(i) = Rank(j) /\ i <= j)
      BY <3>2, <3>3
    <3> QED BY <3>2, <3>4
  <2>3. lowest \in pairs
    <3> HIDE DEF Lowest, pairs
    <3> QED BY <2>2
  <2>4. lowest \in 1 .. Len(p) - 1
    BY <2>3
  <2> HIDE DEF lowest
  <2>5. Joined(lowest) \in Seq(Chars)
    <3>1. p[lowest] \in Seq(Chars) /\ p[lowest + 1] \in Seq(Chars)
      BY <1>1, <2>4, ElementOfSeq
    <3> QED BY <3>1, ConcatProperties
  <2> DEFINE middle == Joined(lowest)
             before == SubSeq(p, 1, lowest - 1)
             behind == SubSeq(p, lowest + 2, Len(p))
             S      == Seq(Chars)
  <2>6. before \in Seq(S) /\ Len(before) = lowest - 1
    <3>1. \A i \in 1 .. lowest - 1 : p[i] \in S
      BY <1>1, <2>4, ElementOfSeq
    <3> HIDE DEF S
    <3> QED BY <2>4, <3>1, SubSeqProperties
  <2>7. behind \in Seq(S) /\ Len(behind) = Len(p) - lowest - 1
    <3>1. \A i \in lowest + 2 .. Len(p) : p[i] \in S
      BY <1>1, <2>4, ElementOfSeq
    <3> HIDE DEF S
    <3> QED BY <1>1, <2>4, <3>1, SubSeqProperties
  <2>8. <<middle>> \in Seq(S) /\ Len(<<middle>>) = 1
    BY <2>5
  <2>9. joined = (before \o <<middle>>) \o behind
    OBVIOUS
  <2> HIDE DEF middle, before, behind, S, joined
  <2>10. joined \in Seq(S) /\ Len(joined) = Len(p) - 1
    <3>1. before \o <<middle>> \in Seq(S) /\ Len(before \o <<middle>>) = lowest
      BY <2>4, <2>6, <2>8, ConcatProperties
    <3> DEFINE left == before \o <<middle>>
    <3>2. left \in Seq(S) /\ Len(left) = lowest /\ joined = left \o behind
      BY <2>9, <3>1
    <3> HIDE DEF left
    <3>3. joined \in Seq(S) /\ Len(joined) = lowest + (Len(p) - lowest - 1)
      BY <2>7, <3>2, ConcatProperties
    <3> QED BY <1>1, <2>4, <3>3
  <2>11. joined \in Parts(n)
    BY <1>1, <2>10 DEF Parts, S
  <2> QED BY <1>2, <1>4, <2>11
<1> QED BY <1>3, <1>4

LEMMA EncodingIsShort ==
  ASSUME NEW v \in Vocabularies, NEW t \in Seq(Chars)
  PROVE  ReferenceEncoding(v, t) \in Seq(Ids) /\ Len(ReferenceEncoding(v, t)) <= Len(t)
<1> DEFINE N           == Len(t)
           places      == Parts(N)
           first       == [i \in 1 .. N |-> <<t[i]>>]
           Equation(f) == f = [n \in 0 .. N |-> IF n = 0 THEN first ELSE JoinLowest(v, f[n - 1])]
           parts       == CHOOSE f : Equation(f)
           final       == parts[N]
<1>1. N \in Nat
  BY LenProperties
<1>2. first \in places
  <2>1. \A i \in 1 .. N : t[i] \in Chars
    BY ElementOfSeq
  <2> DEFINE C == Chars
  <2>2. \A i \in 1 .. N : <<t[i]>> \in Seq(C)
    BY <2>1
  <2>3. first \in [1 .. N -> Seq(C)]
    BY <2>2
  <2> HIDE DEF N, first
  <2>4. first \in Seq(Seq(C)) /\ Len(first) = N
    BY <1>1, <2>3, FunctionIsSeq
  <2> QED BY <1>1, <2>4 DEF Parts
<1>3. \A p \in places : JoinLowest(v, p) \in places
  BY <1>1, JoinKeepsParts
<1> HIDE DEF places, first, N
<1>4. \E f : Equation(f)
  <2> DEFINE step == [q \in (1 .. N) \X places |-> JoinLowest(v, q[2])]
  <2>1. StepsIn(step, N, places)
    BY <1>3 DEF StepsIn
  <2>2. PICK f : Recursion(f, first, step, N, places)
    <3> HIDE DEF step
    <3> QED BY <1>1, <1>2, <2>1, RecursionExists
  <2>3. \A n \in 0 .. N : f[n] = IF n = 0 THEN first ELSE JoinLowest(v, f[n - 1])
    <3> SUFFICES ASSUME NEW n \in 1 .. N PROVE f[n] = JoinLowest(v, f[n - 1])
      BY <2>2 DEF Recursion
    <3>1. <<n, f[n - 1]>> \in (1 .. N) \X places
      BY <1>1, <2>2 DEF Recursion
    <3> QED BY <2>2, <3>1 DEF Recursion
  <2>4. Equation(f)
    BY <2>2, <2>3 DEF Recursion
  <2> QED BY <2>4
<1>5. \A n \in 0 .. N : parts[n] = IF n = 0 THEN first ELSE JoinLowest(v, parts[n - 1])
  <2>1. Equation(parts)
    <3> HIDE DEF Equation
    <3> QED BY <1>4
  <2> HIDE DEF parts
  <2> QED BY <2>1
<1>6. ReferenceEncoding(v, t)
        = [i \in 1 .. Len(final) |-> FindTokenByBytes(v, final[i])]
  BY DEF ReferenceEncoding, parts, Equation, final, first, N
<1> HIDE DEF parts, Equation
<1>7. \A n \in 0 .. N : parts[n] \in places
  <2> DEFINE S == {n \in Nat : n <= N => parts[n] \in places}
  <2>1. 0 \in S
    BY <1>1, <1>2, <1>5
  <2>2. ASSUME NEW n \in Nat, n \in S PROVE n + 1 \in S
    <3>1. n + 1 <= N => parts[n + 1] = JoinLowest(v, parts[n]) /\ parts[n] \in places
      BY <1>1, <1>5, <2>2
    <3> QED BY <1>3, <3>1
  <2>3. \A n \in Nat : n \in S
    <3> HIDE DEF S
    <3> QED BY <2>1, <2>2, SetInduction
  <2> QED BY <1>1, <2>3
<1>8. Len(final) \in 0 .. N
  <2>1. final \in places
    BY <1>1, <1>7
  <2>2. final \in Seq(Seq(Chars)) /\ Len(final) <= N
    BY <2>1 DEF places, Parts
  <2> QED BY <1>1, <2>2, LenProperties
<1> HIDE DEF final
<1> DEFINE encoding == [i \in 1 .. Len(final) |-> FindTokenByBytes(v, final[i])]
<1>9. encoding \in [1 .. Len(final) -> Ids]
  BY FoundIsId
<1>10. encoding \in Seq(Ids) /\ Len(encoding) = Len(final)
  <2> HIDE DEF encoding
  <2> QED BY <1>8, <1>9, FunctionIsSeq
<1> QED BY <1>6, <1>8, <1>10 DEF N

-----------------------------------------------------------------------------
(* The reference's tokens from an offset on.                               *)

(* what is put out at p and what follows it *)
Chained(g, end, enc, N, S) ==
  /\ g \in [0 .. N -> Seq(S)]
  /\ g[N] = <<>>
  /\ \A p \in 0 .. N - 1 : g[p] = enc[p] \o g[end[p]]

(* recursion from the end of a text to its start *)
LEMMA ChainExists ==
  ASSUME NEW N \in Nat, NEW S, NEW end \in [0 .. N - 1 -> 0 .. N],
         \A p \in 0 .. N - 1 : end[p] > p,
         NEW enc \in [0 .. N - 1 -> Seq(S)]
  PROVE  \E g : Chained(g, end, enc, N, S)
<1> DEFINE T       == Seq(S)
           From(n) == {g \in [N - n .. N -> T] :
                         /\ g[N] = <<>>
                         /\ \A p \in N - n .. N - 1 : g[p] = enc[p] \o g[end[p]]}
           Done    == {n \in Nat : n <= N => From(n) # {}}
<1>1. <<>> \in T /\ \A x, y \in T : x \o y \in T
  BY ConcatProperties, EmptySeq
<1>2. enc \in [0 .. N - 1 -> T]
  OBVIOUS
<1> HIDE DEF T
<1>3. 0 \in Done
  <2> DEFINE g == [p \in N .. N |-> <<>>]
  <2>1. g \in [N .. N -> T] /\ g[N] = <<>>
    BY <1>1
  <2>2. N - 0 = N /\ \A p : p \notin N .. N - 1
    OBVIOUS
  <2> HIDE DEF g
  <2>3. g \in From(0)
    BY <2>1, <2>2, Zenon
  <2> HIDE DEF From
  <2> QED BY <2>3
<1>4. ASSUME NEW n \in Nat, n \in Done PROVE n + 1 \in Done
  <2> SUFFICES ASSUME n + 1 <= N PROVE From(n + 1) # {}
    <3> HIDE DEF From
    <3> QED OBVIOUS
  <2>1. PICK h : h \in From(n)
    <3> HIDE DEF From
    <3> QED BY <1>4
  <2> DEFINE q == N - (n + 1)
             g == [p \in q .. N |-> IF p = q THEN enc[q] \o h[end[q]] ELSE h[p]]
  <2>2. q \in 0 .. N - 1 /\ N - n = q + 1 /\ end[q] \in q + 1 .. N
    OBVIOUS
  <2>3. /\ h \in [q + 1 .. N -> T]
        /\ h[N] = <<>>
        /\ \A p \in q + 1 .. N - 1 : h[p] = enc[p] \o h[end[p]]
    BY <2>1, <2>2
  <2>4. enc[q] \o h[end[q]] \in T
    BY <1>1, <1>2, <2>2, <2>3
  <2> HIDE DEF q
  <2>5. g \in [q .. N -> T] /\ g[N] = <<>>
    BY <2>2, <2>3, <2>4
  <2>6. ASSUME NEW p \in q .. N - 1 PROVE g[p] = enc[p] \o g[end[p]]
    <3>1. end[p] \in p + 1 .. N /\ p \in 0 .. N - 1
      BY <2>2
    <3>2. /\ g[p] = IF p = q THEN enc[q] \o h[end[q]] ELSE h[p]
          /\ g[end[p]] = h[end[p]]
      BY <2>2, <3>1
    <3> HIDE DEF g
    <3>3. CASE p = q
      BY <3>2, <3>3
    <3>4. CASE p # q
      <4>1. p \in q + 1 .. N - 1
        BY <2>2, <3>1, <3>4
      <4> QED BY <2>3, <3>2, <3>4, <4>1
    <3> QED BY <3>3, <3>4
  <2>7. g \in From(n + 1)
    <3> HIDE DEF g
    <3> QED BY <2>5, <2>6 DEF q
  <2> HIDE DEF From
  <2> QED BY <2>7
<1>5. N \in Done
  <2> HIDE DEF Done
  <2> QED BY <1>3, <1>4, SetInduction
<1>6. PICK g : g \in From(N)
  <2> HIDE DEF From
  <2> QED BY <1>5
<1>7. /\ g \in [0 .. N -> T] /\ g[N] = <<>>
      /\ \A p \in 0 .. N - 1 : g[p] = enc[p] \o g[end[p]]
  BY <1>6
<1> QED BY <1>7 DEF Chained, T

EndOfPiece(f, t, p) == PieceEnd(Native(f, t, p))

(* where the pieces of a text end, and their tokens *)
EndsOf(f, t)      == [p \in 0 .. Len(t) - 1 |-> EndOfPiece(f, t, p)]
TokensOf(f, v, t) == [p \in 0 .. Len(t) - 1 |-> EncodingOf[v][SubSeq(t, p + 1, EndOfPiece(f, t, p))]]

LEMMA PieceFacts ==
  ASSUME NEW f, NEW v \in Vocabularies, NEW t \in Texts, NEW p \in 0 .. Len(t) - 1
  PROVE  /\ Len(t) \in Nat
         /\ EndOfPiece(f, t, p) \in p + 1 .. Len(t)
         /\ EncodingOf[v][SubSeq(t, p + 1, EndOfPiece(f, t, p))] \in Seq(Ids)
         /\ Len(EncodingOf[v][SubSeq(t, p + 1, EndOfPiece(f, t, p))]) \in 0 .. EndOfPiece(f, t, p) - p
<1> DEFINE e     == EndOfPiece(f, t, p)
           slice == SubSeq(t, p + 1, e)
           match == Native(f, t, p)
<1>1. t \in Seq(Chars) /\ Len(t) \in Nat
  BY TextsAssumption, LenProperties
<1>2. e \in p + 1 .. Len(t)
  <2>1. MovesOn(match, p, t)
    BY <1>1, NativeMovesOn
  <2>2. e = match.end - (IF match.lookahead THEN 1 ELSE 0)
    BY Zenon DEF EndOfPiece, PieceEnd
  <2> HIDE DEF match, e
  <2> QED BY <1>1, <2>1, <2>2 DEF MovesOn
<1> HIDE DEF e
<1>3. slice \in Seq(Chars) /\ Len(slice) = e - p
  <2> DEFINE C == Chars
  <2>1. \A i \in p + 1 .. e : t[i] \in C
    BY <1>1, <1>2, ElementOfSeq
  <2> HIDE DEF C
  <2>2. slice \in Seq(C) /\ Len(slice) = e - (p + 1) + 1
    BY <1>1, <1>2, <2>1, SubSeqProperties
  <2> QED BY <1>1, <1>2, <2>2 DEF C
<1>4. slice \in Slices
  BY <1>1, <1>2 DEF Slices
<1> HIDE DEF slice
<1>5. EncodingOf[v][slice] = ReferenceEncoding(v, slice)
  BY <1>4 DEF EncodingOf
<1> DEFINE encoding == ReferenceEncoding(v, slice)
<1>6. encoding \in Seq(Ids) /\ Len(encoding) <= e - p
  BY <1>3, EncodingIsShort
<1>7. Len(encoding) \in Nat
  <2> HIDE DEF encoding
  <2> QED BY <1>6, LenProperties
<1> HIDE DEF encoding
<1>8. /\ EncodingOf[v][slice] \in Seq(Ids)
      /\ Len(EncodingOf[v][slice]) \in 0 .. e - p
  BY <1>1, <1>2, <1>5, <1>6, <1>7 DEF encoding
<1> QED BY <1>1, <1>2, <1>8 DEF slice, e

(* the tokens of the pieces from every offset on, as ReferenceTokens says *)
Rest(f, v, t) ==
  LET ends == [p \in 0 .. Len(t) - 1 |-> PieceEnd(Documented(f, t, p))]
      from[p \in 0 .. Len(t)] ==
        IF p = Len(t) THEN <<>>
        ELSE EncodingOf[v][SubSeq(t, p + 1, ends[p])] \o from[ends[p]]
  IN  from

LEMMA ReferenceIsRest ==
  ASSUME NEW t
  PROVE  ReferenceTokens(t) = Rest(fn, vocab, t)[0]
BY Zenon DEF ReferenceTokens, Rest

LEMMA RestIsChained ==
  ASSUME SplittersAgree, NEW f \in Splitters, NEW v \in Vocabularies, NEW t \in Texts
  PROVE  Chained(Rest(f, v, t), EndsOf(f, t), TokensOf(f, v, t), Len(t), Ids)
<1> DEFINE N    == Len(t)
           ends == [p \in 0 .. N - 1 |-> PieceEnd(Documented(f, t, p))]
           end  == EndsOf(f, t)
           enc  == TokensOf(f, v, t)
           Equation(g) ==
             g = [p \in 0 .. N |->
                    IF p = N THEN <<>>
                    ELSE EncodingOf[v][SubSeq(t, p + 1, ends[p])] \o g[ends[p]]]
           rest == CHOOSE g : Equation(g)
<1>1. N \in Nat
  BY TextsAssumption, LenProperties
<1>2. Rest(f, v, t) = rest
  BY DEF Rest
<1>3. \A p \in 0 .. N - 1 : ends[p] = EndOfPiece(f, t, p)
  BY DEF SplittersAgree, EndOfPiece
<1>4. \A p \in 0 .. N - 1 : /\ end[p] = EndOfPiece(f, t, p)
                            /\ enc[p] = EncodingOf[v][SubSeq(t, p + 1, EndOfPiece(f, t, p))]
  BY DEF EndsOf, TokensOf
<1>5. /\ end \in [0 .. N - 1 -> 0 .. N]
      /\ \A p \in 0 .. N - 1 : end[p] > p
      /\ enc \in [0 .. N - 1 -> Seq(Ids)]
  <2>1. \A p \in 0 .. N - 1 : /\ EndOfPiece(f, t, p) \in p + 1 .. N
                              /\ enc[p] \in Seq(Ids)
    BY <1>4, PieceFacts
  <2>2. \A p \in 0 .. N - 1 : end[p] \in p + 1 .. N
    BY <1>4, <2>1
  <2>3. DOMAIN end = 0 .. N - 1 /\ end = [p \in 0 .. N - 1 |-> end[p]]
    BY DEF EndsOf
  <2>4. DOMAIN enc = 0 .. N - 1 /\ enc = [p \in 0 .. N - 1 |-> enc[p]]
    BY DEF TokensOf
  <2> HIDE DEF N, end, enc
  <2> QED BY <1>1, <2>1, <2>2, <2>3, <2>4
<1> HIDE DEF N, ends, end, enc
<1>6. PICK g : Chained(g, end, enc, N, Ids)
  BY <1>1, <1>5, ChainExists
<1>7. \A p \in 0 .. N - 1 : /\ ends[p] = end[p]
                            /\ EncodingOf[v][SubSeq(t, p + 1, ends[p])] = enc[p]
  BY <1>3, <1>4
<1> HIDE DEF rest
<1>8. \E h : Equation(h)
  <2>1. /\ g = [p \in 0 .. N |-> g[p]]
        /\ \A p \in 0 .. N : g[p] = IF p = N THEN <<>> ELSE enc[p] \o g[end[p]]
    BY <1>1, <1>6 DEF Chained
  <2>2. Equation(g)
    <3>1. \A p \in 0 .. N :
            g[p] = IF p = N THEN <<>>
                   ELSE EncodingOf[v][SubSeq(t, p + 1, ends[p])] \o g[ends[p]]
      <4> SUFFICES ASSUME NEW p \in 0 .. N - 1
                   PROVE  g[p] = EncodingOf[v][SubSeq(t, p + 1, ends[p])] \o g[ends[p]]
        <5>1. N \in 0 .. N /\ \A p \in 0 .. N : p # N => p \in 0 .. N - 1
          BY <1>1
        <5> QED BY <2>1, <5>1, Zenon
      <4>1. p \in 0 .. N /\ p # N
        BY <1>1
      <4> QED BY <1>7, <2>1, <4>1, Zenon
    <3> QED BY <2>1, <3>1, Zenon
  <2> HIDE DEF Equation
  <2> QED BY <2>2
<1>9. Equation(rest)
  <2> HIDE DEF Equation
  <2> QED BY <1>8 DEF rest
<1>10. \A p \in 0 .. N :
         rest[p] = IF p = N THEN <<>>
                   ELSE EncodingOf[v][SubSeq(t, p + 1, ends[p])] \o rest[ends[p]]
  BY <1>9, Zenon
<1>11. rest = [p \in 0 .. N |-> rest[p]]
  BY <1>9, Zenon
<1> HIDE DEF Equation
<1>12. rest[N] = <<>> /\ \A p \in 0 .. N - 1 : rest[p] = enc[p] \o rest[end[p]]
  <2>1. rest[N] = <<>>
    BY <1>1, <1>10
  <2>2. ASSUME NEW p \in 0 .. N - 1 PROVE rest[p] = enc[p] \o rest[end[p]]
    <3>1. p \in 0 .. N /\ p # N
      BY <1>1
    <3> QED BY <1>7, <1>10, <3>1, Zenon
  <2> QED BY <2>1, <2>2
<1> DEFINE T == Seq(Ids)
<1>13. <<>> \in T /\ (\A x, y \in T : x \o y \in T) /\ \A p \in 0 .. N - 1 : enc[p] \in T
  BY <1>5, ConcatProperties, EmptySeq
<1> HIDE DEF T
<1>14. \A n \in Nat : n <= N => \A p \in N - n .. N : rest[p] \in T
  <2> DEFINE S == {n \in Nat : n <= N => \A p \in N - n .. N : rest[p] \in T}
  <2>1. 0 \in S
    BY <1>1, <1>12, <1>13
  <2>2. ASSUME NEW n \in Nat, n \in S PROVE n + 1 \in S
    <3> SUFFICES ASSUME n + 1 <= N, NEW p \in N - (n + 1) .. N PROVE rest[p] \in T
      OBVIOUS
    <3>0. n <= N /\ n \in S
      BY <1>1, <2>2
    <3>1. CASE p \in N - n .. N
      BY <3>0, <3>1, Zenon
    <3>2. CASE p = N - (n + 1)
      <4>1. p \in 0 .. N - 1 /\ end[p] \in N - n .. N
        BY <1>1, <1>5, <3>2
      <4>2. rest[end[p]] \in T
        BY <3>0, <4>1, Zenon
      <4> QED BY <1>12, <1>13, <4>1, <4>2
    <3> QED BY <1>1, <3>1, <3>2
  <2>3. \A n \in Nat : n \in S
    <3> HIDE DEF S
    <3> QED BY <2>1, <2>2, SetInduction
  <2> QED BY <2>3
<1>15. rest \in [0 .. N -> T]
  BY <1>1, <1>11, <1>14
<1>16. Chained(rest, end, enc, N, Ids)
  BY <1>12, <1>15 DEF Chained, T
<1> QED BY <1>2, <1>16 DEF N, end, enc

-----------------------------------------------------------------------------
(* The invariant.                                                          *)

(* types, and no piece gave more tokens than it has characters *)
CallInv ==
  /\ fn \in Splitters
  /\ vocab \in Vocabularies
  /\ text \in Texts
  /\ offset \in 0 .. Len(text)
  /\ op \in {"encode", "encode_into", "count", "count_till_limit"}
  /\ running \in BOOLEAN
  /\ calls \in Nat
  /\ limit \in Nat
  /\ buf \in Seq(Ids)
  /\ Len(buf) > 0
  /\ count \in 0 .. offset

(* the tokens in the buffer and those to come are the reference's *)
BufferInv ==
  calls > 0 /\ op \in {"encode", "encode_into"} =>
    /\ count <= Len(buf)
    /\ SubSeq(buf, 1, count) \o Rest(fn, vocab, text)[offset] = Rest(fn, vocab, text)[0]

(* so are the numbers of tokens; the limit has not been passed *)
RunningInv ==
  running =>
    /\ calls > 0
    /\ count + Len(Rest(fn, vocab, text)[offset]) = Len(Rest(fn, vocab, text)[0])
    /\ op = "count_till_limit" => count <= limit

TokenizerInv == CallInv /\ BufferInv /\ RunningInv /\ CountsAgree

(* the reference's tokens from every offset are a sequence *)
LEMMA RestType ==
  ASSUME SplittersAgree, CallInv
  PROVE  /\ Len(text) \in Nat
         /\ \A p \in 0 .. Len(text) : /\ Rest(fn, vocab, text)[p] \in Seq(Ids)
                                      /\ Len(Rest(fn, vocab, text)[p]) \in Nat
         /\ Rest(fn, vocab, text)[Len(text)] = <<>>
<1> DEFINE rest == Rest(fn, vocab, text)
           T    == Seq(Ids)
<1>1. Len(text) \in Nat
  BY TextsAssumption, LenProperties DEF CallInv
<1>2. Chained(rest, EndsOf(fn, text), TokensOf(fn, vocab, text), Len(text), Ids)
  BY RestIsChained DEF CallInv
<1>3. rest \in [0 .. Len(text) -> T] /\ rest[Len(text)] = <<>>
  BY <1>2 DEF Chained
<1> HIDE DEF rest, T
<1>4. \A p \in 0 .. Len(text) : rest[p] \in T
  BY <1>3
<1>5. \A s \in T : Len(s) \in Nat
  BY LenProperties DEF T
<1> QED BY <1>1, <1>3, <1>4, <1>5 DEF rest, T

(* one piece *)
LEMMA PieceStep ==
  ASSUME SplittersAgree, CallInv, Piece
  PROVE  /\ fn' = fn /\ text' = text /\ offset' = NextEnd
         /\ offset < Len(text)
         /\ NextEnd \in offset + 1 .. Len(text)
         /\ PieceTokens \in Seq(Ids)
         /\ Len(PieceTokens) \in 0 .. NextEnd - offset
         /\ Rest(fn, vocab, text)[offset] = PieceTokens \o Rest(fn, vocab, text)[NextEnd]
<1>1. Len(text) \in Nat /\ offset \in 0 .. Len(text)
  BY RestType DEF CallInv
<1>2. /\ fn' = fn /\ text' = text /\ offset' = NextEnd
      /\ offset < Len(text)
  BY <1>1 DEF Piece, NoMore
<1>3. offset \in 0 .. Len(text) - 1
  BY <1>1, <1>2
<1>4. NextEnd = EndOfPiece(fn, text, offset)
  BY Zenon DEF NextEnd, EndOfPiece
<1>5. PieceTokens = EncodingOf[vocab][SubSeq(text, offset + 1, EndOfPiece(fn, text, offset))]
  BY <1>4 DEF PieceTokens
<1>6. /\ NextEnd \in offset + 1 .. Len(text)
      /\ PieceTokens \in Seq(Ids)
      /\ Len(PieceTokens) \in 0 .. NextEnd - offset
  BY <1>3, <1>4, <1>5, PieceFacts DEF CallInv
<1>7. EndsOf(fn, text)[offset] = NextEnd /\ TokensOf(fn, vocab, text)[offset] = PieceTokens
  BY <1>3, <1>4, <1>5 DEF EndsOf, TokensOf
<1>8. Chained(Rest(fn, vocab, text), EndsOf(fn, text), TokensOf(fn, vocab, text), Len(text), Ids)
  BY RestIsChained DEF CallInv
<1>9. Rest(fn, vocab, text)[offset] = PieceTokens \o Rest(fn, vocab, text)[NextEnd]
  BY <1>3, <1>7, <1>8 DEF Chained
<1> QED BY <1>2, <1>6, <1>9

(* the same, for the tokens' number *)
LEMMA PieceCount ==
  ASSUME SplittersAgree, CallInv, Piece, RunningInv, running
  PROVE  count + Len(PieceTokens) + Len(Rest(fn, vocab, text)[NextEnd])
           = Len(Rest(fn, vocab, text)[0])
<1> DEFINE rest == Rest(fn, vocab, text)
           tokens == PieceTokens
<1>1. /\ tokens \in Seq(Ids) /\ NextEnd \in 0 .. Len(text) /\ offset \in 0 .. Len(text)
      /\ rest[offset] = tokens \o rest[NextEnd]
  BY PieceStep, RestType DEF CallInv
<1>2. rest[NextEnd] \in Seq(Ids) /\ rest[offset] \in Seq(Ids)
  BY <1>1, RestType
<1>3. count + Len(rest[offset]) = Len(rest[0]) /\ count \in Nat
  BY DEF RunningInv, CallInv
<1> HIDE DEF rest, tokens
<1>4. Len(rest[offset]) = Len(tokens) + Len(rest[NextEnd])
  BY <1>1, <1>2, ConcatProperties
<1>5. Len(tokens) \in Nat /\ Len(rest[NextEnd]) \in Nat
  BY <1>1, <1>2, LenProperties
<1> DEFINE now == Len(tokens)
           later == Len(rest[NextEnd])
           both == Len(rest[offset])
           all == Len(rest[0])
<1>6. both = now + later /\ now \in Nat /\ later \in Nat /\ count + both = all /\ count \in Nat
  BY <1>3, <1>4, <1>5
<1> HIDE DEF now, later, both, all
<1>7. count + now + later = all
  BY <1>6
<1> QED BY <1>7, Zenon DEF rest, tokens, now, later, all

(* doubling ends, with room enough *)
LEMMA GrownIsEnough ==
  ASSUME NEW cap \in Nat \ {0}, NEW n \in Nat
  PROVE  Grown(cap, n) \in Nat /\ Grown(cap, n) >= cap /\ Grown(cap, n) >= n
<1> DEFINE Equation(f) == f = [k \in 0 .. n |-> IF k = 0 THEN cap ELSE 2 * f[k - 1]]
           after == CHOOSE f : Equation(f)
           fits  == {k \in 0 .. n : after[k] >= n}
           first == CHOOSE k \in fits : \A other \in fits : k <= other
<1>1. \E f : Equation(f)
  <2> DEFINE step == [p \in (1 .. n) \X Nat |-> 2 * p[2]]
             Caps == Nat
  <2> HIDE DEF after
  <2>1. StepsIn(step, n, Caps) /\ cap \in Caps
    BY DEF StepsIn
  <2>2. PICK f : Recursion(f, cap, step, n, Caps)
    <3> HIDE DEF step, Caps
    <3> QED BY <2>1, RecursionExists
  <2>3. \A k \in 0 .. n : f[k] = IF k = 0 THEN cap ELSE 2 * f[k - 1]
    <3> SUFFICES ASSUME NEW k \in 1 .. n PROVE f[k] = 2 * f[k - 1]
      BY <2>2 DEF Recursion
    <3>1. <<k, f[k - 1]>> \in (1 .. n) \X Nat
      BY <2>2 DEF Recursion
    <3> QED BY <2>2, <3>1 DEF Recursion
  <2>4. Equation(f)
    BY <2>2, <2>3 DEF Recursion
  <2> QED BY <2>4
<1>2. \A k \in 0 .. n : after[k] = IF k = 0 THEN cap ELSE 2 * after[k - 1]
  <2>1. Equation(after)
    <3> HIDE DEF Equation
    <3> QED BY <1>1
  <2> HIDE DEF after
  <2> QED BY <2>1
<1>3. Grown(cap, n) = after[first]
  BY DEF Grown, after, Equation, first, fits
<1> HIDE DEF after, Equation
<1>4. \A k \in 0 .. n : after[k] \in Nat /\ after[k] >= k /\ after[k] >= cap
  <2> DEFINE S == {k \in Nat : k <= n => after[k] \in Nat /\ after[k] >= k + 1 /\ after[k] >= cap}
  <2>1. 0 \in S
    BY <1>2
  <2>2. ASSUME NEW k \in Nat, k \in S PROVE k + 1 \in S
    <3> SUFFICES ASSUME k + 1 <= n
                 PROVE  /\ after[k + 1] \in Nat /\ after[k + 1] >= k + 2
                        /\ after[k + 1] >= cap
      OBVIOUS
    <3>1. after[k] \in Nat /\ after[k] >= k + 1 /\ after[k] >= cap
      BY <2>2
    <3>2. after[k + 1] = 2 * after[k]
      BY <1>2
    <3> QED BY <3>1, <3>2
  <2>3. \A k \in Nat : k \in S
    <3> HIDE DEF S
    <3> QED BY <2>1, <2>2, SetInduction
  <2> QED BY <2>3
<1>5. fits \in SUBSET Nat /\ n \in fits
  BY <1>4
<1>6. \E k \in fits : \A other \in fits : k <= other
  <2> HIDE DEF fits
  <2> QED BY <1>5, LeastExists
<1>7. first \in fits
  <2> HIDE DEF fits
  <2> QED BY <1>6
<1>8. first \in 0 .. n /\ after[first] >= n
  BY <1>7
<1> HIDE DEF first
<1> QED BY <1>3, <1>4, <1>8

-----------------------------------------------------------------------------
(* The actions keep the invariant.                                         *)

(* CountsAgree, without the value that TLC keeps *)
CountsAgreeWithRest ==
  calls > 0 /\ ~running =>
    IF op # "count_till_limit" THEN result = Len(Rest(fn, vocab, text)[0])
    ELSE /\ result # SIZE_MAX => /\ result = Len(Rest(fn, vocab, text)[0])
                                 /\ Len(Rest(fn, vocab, text)[0]) <= limit
         /\ /\ Len(Rest(fn, vocab, text)[0]) <= limit
            /\ Len(text) <= LimitBuf(limit)
            => result = Len(Rest(fn, vocab, text)[0])

LEMMA CountsAgreeMeans == CountsAgree <=> CountsAgreeWithRest
BY ReferenceIsRest, Zenon DEF CountsAgree, CountsAgreeWithRest

LEMMA InitKeeps ==
  ASSUME SplittersAgree, Init
  PROVE  TokenizerInv
<1>1. /\ fn \in Splitters /\ text \in Texts /\ offset = 0 /\ vocab \in Vocabularies
      /\ op = "count" /\ running = FALSE /\ limit = 0 /\ count = 0 /\ calls = 0
      /\ buf = [i \in 1 .. InitialCap |-> UINT32_MAX]
  BY DEF Init, InitIter
<1>2. buf \in Seq(Ids) /\ Len(buf) > 0
  <2>1. buf \in [1 .. InitialCap -> Ids]
    BY <1>1 DEF Ids
  <2> QED BY <2>1, TokenizerAssumption, FunctionIsSeq
<1>3. Len(text) \in Nat
  BY <1>1, TextsAssumption, LenProperties
<1>4. CallInv
  <2>1. 0 \in 0 .. Len(text) /\ 0 \in Nat /\ 0 \in 0 .. 0
    BY <1>3
  <2> QED BY <1>1, <1>2, <2>1, Zenon DEF CallInv
<1>5. BufferInv /\ RunningInv /\ CountsAgree
  BY <1>1 DEF BufferInv, RunningInv, CountsAgree
<1> QED BY <1>4, <1>5 DEF TokenizerInv

LEMMA CallKeeps ==
  ASSUME SplittersAgree, TokenizerInv,
         NEW o \in {"encode", "encode_into", "count", "count_till_limit"},
         NEW t \in Texts, NEW l \in Nat, Call(o, t, l)
  PROVE  TokenizerInv'
<1>1. /\ fn' = fn /\ vocab' = vocab /\ text' = t /\ offset' = 0 /\ op' = o
      /\ running' = TRUE /\ limit' = l /\ count' = 0 /\ calls' = calls + 1
      /\ buf' = IF o = "encode" THEN [i \in 1 .. InitialCap |-> UINT32_MAX] ELSE buf
  BY DEF Call
<1>2. buf' \in Seq(Ids) /\ Len(buf') > 0
  <2> DEFINE new == [i \in 1 .. InitialCap |-> UINT32_MAX]
  <2>1. new \in [1 .. InitialCap -> Ids]
    BY DEF Ids
  <2> HIDE DEF new
  <2>2. new \in Seq(Ids) /\ Len(new) > 0
    BY <2>1, TokenizerAssumption, FunctionIsSeq
  <2>3. buf' = new \/ buf' = buf
    BY <1>1, Zenon DEF new
  <2>4. buf \in Seq(Ids) /\ Len(buf) > 0
    BY DEF TokenizerInv, CallInv
  <2> QED BY <2>2, <2>3, <2>4, Zenon
<1>3. Len(t) \in Nat
  BY TextsAssumption, LenProperties
<1>4. CallInv'
  <2>1. 0 \in 0 .. Len(t) /\ 0 \in 0 .. 0 /\ calls + 1 \in Nat
    BY <1>3 DEF CallInv, TokenizerInv
  <2> QED BY <1>1, <1>2, <2>1, Zenon DEF CallInv, TokenizerInv
<1> DEFINE first == Rest(fn, vocab, t)[0]
<1>5. first \in Seq(Ids) /\ Len(first) \in Nat
  <2>1. Chained(Rest(fn, vocab, t), EndsOf(fn, t), TokensOf(fn, vocab, t), Len(t), Ids)
    BY RestIsChained DEF TokenizerInv, CallInv
  <2> DEFINE T == Seq(Ids)
  <2>2. Rest(fn, vocab, t) \in [0 .. Len(t) -> T]
    BY <2>1 DEF Chained
  <2> HIDE DEF T
  <2>3. first \in T
    BY <1>3, <2>2
  <2> HIDE DEF first
  <2> QED BY <2>3, LenProperties DEF T
<1>6. Rest(fn, vocab, text)'[0] = first /\ Rest(fn, vocab, text)'[offset'] = first
  BY <1>1
<1> HIDE DEF first
<1>7. BufferInv'
  <2>1. SubSeq(buf', 1, 0) = <<>>
    BY SubSeqEmpty
  <2>2. <<>> \o first = first
    BY <1>5, ConcatEmptySeq
  <2>3. 0 <= Len(buf')
    BY <1>2, LenProperties
  <2>4. count' = 0 /\ SubSeq(buf', 1, count') \o Rest(fn, vocab, text)'[offset'] = first
    BY <1>1, <1>6, <2>1, <2>2, Zenon
  <2> QED BY <1>6, <2>3, <2>4, Zenon DEF BufferInv
<1>8. RunningInv'
  BY <1>1, <1>5, <1>6 DEF RunningInv, TokenizerInv, CallInv
<1>9. CountsAgree'
  BY <1>1 DEF CountsAgree
<1> QED BY <1>4, <1>7, <1>8, <1>9 DEF TokenizerInv

(* the tokens of a piece are stored behind those of the earlier pieces *)
Stored(old, c, tokens, size) ==
  [i \in 1 .. size |-> IF i \in c + 1 .. c + Len(tokens) THEN tokens[i - c]
                       ELSE IF i <= Len(old) THEN old[i] ELSE UINT32_MAX]

LEMMA StoreAppends ==
  ASSUME NEW old \in Seq(Ids), NEW c \in 0 .. Len(old), NEW tokens \in Seq(Ids),
         NEW size \in Nat, size >= Len(old), size >= c + Len(tokens)
  PROVE  /\ Stored(old, c, tokens, size) \in Seq(Ids)
         /\ Len(Stored(old, c, tokens, size)) = size
         /\ SubSeq(Stored(old, c, tokens, size), 1, c + Len(tokens))
              = SubSeq(old, 1, c) \o tokens
<1> DEFINE new == Stored(old, c, tokens, size)
<1> DEFINE n == c + Len(tokens)
<1>1. Len(tokens) \in Nat /\ Len(old) \in Nat /\ n \in Nat /\ n <= size /\ c \in Nat
  BY LenProperties
<1>11. new = [i \in 1 .. size |-> IF i \in c + 1 .. c + Len(tokens) THEN tokens[i - c]
                                 ELSE IF i <= Len(old) THEN old[i] ELSE UINT32_MAX]
  BY DEF Stored
<1> HIDE DEF new
<1>2. ASSUME NEW i \in 1 .. size
      PROVE  new[i] \in Ids
  <2>1. CASE i \in c + 1 .. n
    <3>1. i - c \in 1 .. Len(tokens) /\ new[i] = tokens[i - c]
      BY <1>11, <1>1, <2>1
    <3> QED BY <3>1, ElementOfSeq
  <2>2. CASE i \notin c + 1 .. n /\ i <= Len(old)
    <3>1. i \in 1 .. Len(old) /\ new[i] = old[i]
      BY <1>11, <1>1, <2>2
    <3> QED BY <3>1, ElementOfSeq
  <2>3. CASE i \notin c + 1 .. n /\ ~(i <= Len(old))
    BY <1>11, <2>3 DEF Ids
  <2> QED BY <2>1, <2>2, <2>3
<1>3. new \in [1 .. size -> Ids]
  BY <1>11, <1>2
<1>4. new \in Seq(Ids) /\ Len(new) = size
  BY <1>3, FunctionIsSeq
<1>5. ASSUME NEW i \in 1 .. n
      PROVE  new[i] = IF i <= c THEN old[i] ELSE tokens[i - c]
  BY <1>11, <1>1
<1> HIDE DEF n
<1> DEFINE left  == SubSeq(new, 1, n)
           part  == SubSeq(old, 1, c)
           right == part \o tokens
<1>6. left \in Seq(Ids) /\ Len(left) = n /\ \A i \in 1 .. n : left[i] = new[i]
  <2>1. n \in 0 .. Len(new)
    BY <1>1, <1>4
  <2> QED BY <1>4, <2>1, Prefix
<1>7. part \in Seq(Ids) /\ Len(part) = c /\ \A i \in 1 .. c : part[i] = old[i]
  BY Prefix
<1> HIDE DEF left, part
<1>8. /\ right \in Seq(Ids) /\ Len(right) = n
      /\ \A i \in 1 .. n : right[i] = IF i <= c THEN part[i] ELSE tokens[i - c]
  BY <1>7, ConcatProperties DEF n
<1> HIDE DEF right
<1>9. ASSUME NEW i \in 1 .. n
      PROVE  left[i] = right[i]
  <2>1. i <= c => i \in 1 .. c
    BY <1>1
  <2>2. /\ left[i] = IF i <= c THEN old[i] ELSE tokens[i - c]
        /\ right[i] = IF i <= c THEN part[i] ELSE tokens[i - c]
        /\ i <= c => part[i] = old[i]
    BY <1>5, <1>6, <1>7, <1>8, <2>1, Zenon
  <2> QED BY <2>2, Zenon
<1>10. left = right
  BY <1>6, <1>8, <1>9, SeqEqual
<1> QED BY <1>4, <1>10 DEF new, left, right, part, n

(* a piece changes no type, if the tokens counted are its own or none *)
LEMMA PieceKeepsTypes ==
  ASSUME SplittersAgree, CallInv, Piece,
         vocab' = vocab, op' = op, limit' = limit, calls' = calls, running' \in BOOLEAN,
         buf' \in Seq(Ids), Len(buf') > 0,
         count' \in {count, count + Len(PieceTokens)}
  PROVE  CallInv'
<1>1. /\ fn' = fn /\ text' = text /\ offset' = NextEnd
      /\ NextEnd \in offset + 1 .. Len(text)
      /\ Len(PieceTokens) \in 0 .. NextEnd - offset
  BY PieceStep
<1>2. /\ offset \in 0 .. Len(text) /\ count \in 0 .. offset /\ Len(text) \in Nat
  BY RestType DEF CallInv
<1> DEFINE tokens == Len(PieceTokens)
<1>3. tokens \in 0 .. NextEnd - offset /\ count' \in {count, count + tokens}
  BY <1>1
<1> HIDE DEF tokens
<1>4. NextEnd \in 0 .. Len(text) /\ count' \in 0 .. NextEnd
  BY <1>1, <1>2, <1>3
<1> QED BY <1>1, <1>4, Zenon DEF CallInv

LEMMA EncodePieceKeeps ==
  ASSUME SplittersAgree, TokenizerInv, EncodePiece
  PROVE  TokenizerInv'
<1> DEFINE tokens == PieceTokens
           n      == count + Len(tokens)
           rest   == Rest(fn, vocab, text)
           size   == Grown(Len(buf), n)
<1>1. /\ running /\ op \in {"encode", "encode_into"} /\ Piece
      /\ buf' = Stored(buf, count, tokens, size)
      /\ count' = n
      /\ vocab' = vocab /\ op' = op /\ running' = running /\ limit' = limit
      /\ result' = result /\ calls' = calls
  BY Zenon DEF EncodePiece, Store, Stored
<1>2. CallInv /\ BufferInv /\ RunningInv /\ calls > 0
  BY <1>1 DEF TokenizerInv, RunningInv
<1>3. /\ fn' = fn /\ text' = text /\ offset' = NextEnd
      /\ NextEnd \in 0 .. Len(text) /\ offset \in 0 .. Len(text)
      /\ tokens \in Seq(Ids)
      /\ rest[offset] = tokens \o rest[NextEnd]
  BY <1>1, <1>2, PieceStep, RestType DEF CallInv
<1>4. rest[NextEnd] \in Seq(Ids) /\ rest[offset] \in Seq(Ids)
  BY <1>2, <1>3, RestType
<1>5. /\ buf \in Seq(Ids) /\ Len(buf) > 0 /\ count <= Len(buf) /\ count \in Nat
      /\ SubSeq(buf, 1, count) \o rest[offset] = rest[0]
  <2>1. count \in Nat
    BY <1>2, RestType DEF CallInv
  <2> QED BY <1>1, <1>2, <2>1, Zenon DEF CallInv, BufferInv
<1>6. n + Len(rest[NextEnd]) = Len(rest[0])
  BY <1>1, <1>2, PieceCount
<1>7. Rest(fn, vocab, text)' = rest
  BY <1>1, <1>3, Zenon
<1> HIDE DEF tokens, rest
<1>8. Len(tokens) \in Nat /\ Len(buf) \in Nat \ {0} /\ n \in Nat /\ count \in 0 .. Len(buf)
  BY <1>3, <1>5, LenProperties
<1>9. size \in Nat /\ size >= Len(buf) /\ size >= n
  BY <1>8, GrownIsEnough
<1> HIDE DEF size
<1>10. /\ buf' \in Seq(Ids) /\ Len(buf') = size
       /\ SubSeq(buf', 1, n) = SubSeq(buf, 1, count) \o tokens
  BY <1>1, <1>3, <1>5, <1>8, <1>9, StoreAppends
<1>11. CallInv'
  <2>1. Len(buf') > 0
    BY <1>8, <1>9, <1>10
  <2>2. running' \in BOOLEAN
    BY <1>1, <1>2, Zenon DEF CallInv
  <2> QED BY <1>1, <1>2, <1>10, <2>1, <2>2, PieceKeepsTypes DEF tokens
<1> DEFINE before == SubSeq(buf, 1, count)
<1>12. before \in Seq(Ids)
  BY <1>5, <1>8, Prefix
<1>13. (before \o tokens) \o rest[NextEnd] = before \o (tokens \o rest[NextEnd])
  <2> DEFINE behind == rest[NextEnd]
  <2>1. behind \in Seq(Ids) /\ tokens \in Seq(Ids)
    BY <1>3, <1>4
  <2> HIDE DEF before, behind
  <2>2. (before \o tokens) \o behind = before \o (tokens \o behind)
    BY <1>12, <2>1, ConcatAssociative
  <2> QED BY <2>2 DEF behind
<1>14. BufferInv'
  <2>1. SubSeq(buf', 1, count') \o rest[offset'] = rest[0]
    BY <1>1, <1>3, <1>5, <1>10, <1>13, Zenon
  <2>2. count' <= Len(buf')
    BY <1>1, <1>8, <1>9, <1>10
  <2> QED BY <1>7, <2>1, <2>2, Zenon DEF BufferInv
<1>15. RunningInv'
  <2>1. op # "count_till_limit"
    BY <1>1
  <2>2. calls' > 0 /\ count' + Len(rest[offset']) = Len(rest[0])
    BY <1>1, <1>2, <1>3, <1>6, Zenon
  <2> QED BY <1>1, <1>7, <2>1, <2>2, Zenon DEF RunningInv
<1>16. CountsAgree'
  BY <1>1, Zenon DEF CountsAgree
<1> QED BY <1>11, <1>14, <1>15, <1>16, Zenon DEF TokenizerInv

LEMMA CountPieceKeeps ==
  ASSUME SplittersAgree, TokenizerInv, CountPiece
  PROVE  TokenizerInv'
<1> DEFINE n    == count + Len(PieceTokens)
           rest == Rest(fn, vocab, text)
<1>1. /\ running /\ op = "count" /\ Piece
      /\ count' = n
      /\ vocab' = vocab /\ op' = op /\ running' = running /\ limit' = limit
      /\ buf' = buf /\ result' = result /\ calls' = calls
  BY Zenon DEF CountPiece
<1>2. CallInv /\ RunningInv /\ calls > 0
  BY <1>1 DEF TokenizerInv, RunningInv
<1>3. fn' = fn /\ text' = text /\ offset' = NextEnd
  BY <1>1, <1>2, PieceStep
<1>4. n + Len(rest[NextEnd]) = Len(rest[0])
  BY <1>1, <1>2, PieceCount
<1>5. Rest(fn, vocab, text)' = rest
  BY <1>1, <1>3, Zenon
<1> HIDE DEF rest
<1>6. CallInv'
  <2>1. running' \in BOOLEAN /\ buf' \in Seq(Ids) /\ Len(buf') > 0
    BY <1>1, <1>2, Zenon DEF CallInv
  <2>2. count' \in {count, n}
    BY <1>1
  <2> QED BY <1>1, <1>2, <2>1, <2>2, PieceKeepsTypes
<1>7. op' # "encode" /\ op' # "encode_into" /\ op' # "count_till_limit"
  BY <1>1
<1>8. BufferInv' /\ CountsAgree'
  BY <1>1, <1>7, Zenon DEF BufferInv, CountsAgree
<1>9. RunningInv'
  <2>1. calls' > 0 /\ count' + Len(rest[offset']) = Len(rest[0])
    BY <1>1, <1>2, <1>3, <1>4, Zenon
  <2> QED BY <1>1, <1>5, <1>7, <2>1, Zenon DEF RunningInv
<1> QED BY <1>6, <1>8, <1>9, Zenon DEF TokenizerInv

(* What a piece's answer means.  It is the number of its tokens if the     *)
(* limit holds them, and else, or if the piece is long, SIZE_MAX.          *)
LEMMA AnswerMeans ==
  ASSUME NEW n \in Nat, NEW len \in Nat, NEW remaining \in Nat,
         NEW answer \in LimitAnswers(n, len, remaining)
  PROVE  \/ answer = n /\ n <= remaining
         \/ answer = SIZE_MAX /\ (n > remaining \/ len > LimitBuf(remaining))
BY TokenizerAssumption DEF LimitAnswers

(* The pieces counted so far take as much from limit_buf as from the limit, *)
(* whether or not the sum has wrapped around.                               *)
LEMMA SharedLimit ==
  ASSUME NEW all \in Nat, NEW done \in 0 .. SIZE_MAX, done <= all
  PROVE  /\ LimitBuf(all) \in Nat /\ LimitBuf(all - done) \in Nat
         /\ done <= LimitBuf(all) => LimitBuf(all - done) = LimitBuf(all) - done
<1> DEFINE N == SIZE_MAX + 1
           h == (all - done) + LimitSlack
<1>1. /\ N \in Nat \ {0} /\ h \in Nat /\ h + done = all + LimitSlack
      /\ all + LimitSlack \in Nat /\ done \in 0 .. N - 1 /\ done \in Nat
  BY TokenizerAssumption
<1>2. LimitBuf(all) = (h + done) % N /\ LimitBuf(all - done) = h % N
  BY <1>1 DEF LimitBuf
<1> HIDE DEF N, h
<1>3. /\ h % N \in 0 .. N - 1
      /\ (h + done) % N = IF (h % N) + done < N THEN (h % N) + done ELSE (h % N) + done - N
  BY <1>1, RingPlace
<1> DEFINE r == h % N
<1>4. r \in 0 .. N - 1 /\ (h + done) % N = IF r + done < N THEN r + done ELSE r + done - N
  BY <1>3
<1> HIDE DEF r
<1>5. (h + done) % N \in Nat /\ (done <= (h + done) % N => r = ((h + done) % N) - done)
  BY <1>1, <1>4
<1> QED BY <1>1, <1>2, <1>4, <1>5 DEF r

LEMMA LimitPieceKeeps ==
  ASSUME SplittersAgree, TokenizerInv, LimitPiece
  PROVE  TokenizerInv'
<1> DEFINE tokens == Len(PieceTokens)
           rest   == Rest(fn, vocab, text)
           len    == NextEnd - offset
<1>1. /\ running /\ op = "count_till_limit" /\ Piece
      /\ vocab' = vocab /\ op' = op /\ limit' = limit /\ buf' = buf /\ calls' = calls
  BY Zenon DEF LimitPiece
<1>2. PICK answer \in LimitAnswers(tokens, len, Remaining) :
        IF answer = SIZE_MAX \/ count + answer > limit
        THEN running' = FALSE /\ result' = SIZE_MAX /\ count' = count
        ELSE count' = count + answer /\ running' = running /\ result' = result
  BY Zenon DEF LimitPiece
<1>3. CallInv /\ RunningInv /\ calls > 0 /\ count <= limit
  BY <1>1 DEF TokenizerInv, RunningInv
<1>4. /\ fn' = fn /\ text' = text /\ offset' = NextEnd
      /\ NextEnd \in offset + 1 .. Len(text)
      /\ tokens \in 0 .. len
  BY <1>1, <1>3, PieceStep
<1>5. /\ offset \in 0 .. Len(text) /\ count \in 0 .. offset
      /\ Len(text) \in Nat /\ limit \in Nat
  BY <1>3, RestType DEF CallInv
<1>6. count + tokens + Len(rest[NextEnd]) = Len(rest[0]) /\ Len(rest[NextEnd]) \in Nat
  <2>1. NextEnd \in 0 .. Len(text)
    BY <1>4, <1>5
  <2> QED BY <1>1, <1>3, <2>1, PieceCount, RestType
<1>7. Rest(fn, vocab, text)' = rest
  BY <1>1, <1>4, Zenon
<1>8. Len(text) < SIZE_MAX /\ SIZE_MAX \in Nat /\ LimitSlack \in Nat
  BY <1>3, TokenizerAssumption DEF CallInv
<1> DEFINE later == Len(rest[NextEnd])
           all   == Len(rest[0])
<1>9. /\ tokens \in 0 .. len /\ later \in Nat /\ count + tokens + later = all
  BY <1>4, <1>6
<1> HIDE DEF tokens, rest, later, all
<1>10. /\ Remaining = limit - count /\ Remaining \in Nat /\ len \in Nat /\ tokens \in Nat
       /\ tokens < SIZE_MAX
  BY <1>3, <1>4, <1>5, <1>8, <1>9 DEF Remaining
<1>11. \/ answer = tokens /\ tokens <= limit - count
       \/ answer = SIZE_MAX /\ (tokens > limit - count \/ len > LimitBuf(limit - count))
  <2> HIDE DEF len
  <2> QED BY <1>10, AnswerMeans
<1>12. op' = "count_till_limit" /\ op' # "encode" /\ op' # "encode_into"
  BY <1>1
<1>13. BufferInv'
  BY <1>12, Zenon DEF BufferInv
<1>14. CASE answer = SIZE_MAX
  <2>1. running' = FALSE /\ result' = SIZE_MAX /\ count' = count
    BY <1>2, <1>14
  <2>2. ~(all <= limit /\ Len(text) <= LimitBuf(limit))
    <3>1. tokens > limit - count \/ len > LimitBuf(limit - count)
      BY <1>10, <1>11, <1>14
    <3>2. /\ LimitBuf(limit) \in Nat /\ LimitBuf(limit - count) \in Nat
          /\ count <= LimitBuf(limit) => LimitBuf(limit - count) = LimitBuf(limit) - count
      <4>1. count \in 0 .. SIZE_MAX /\ count <= limit
        BY <1>3, <1>5, <1>8
      <4> QED BY <1>5, <4>1, SharedLimit
    <3>3. len + count <= Len(text) /\ count <= Len(text)
      BY <1>4, <1>5
    <3> QED BY <1>3, <1>5, <1>9, <1>10, <3>1, <3>2, <3>3
  <2>3. CountsAgree'
    <3>1. /\ ~(Len(rest[0]) <= limit' /\ Len(text') <= LimitBuf(limit'))
          /\ result' = SIZE_MAX
      BY <1>1, <1>4, <2>1, <2>2, Zenon DEF all
    <3>2. CountsAgree' <=> CountsAgreeWithRest'
      BY CountsAgreeMeans, PTL
    <3>3. Rest(fn, vocab, text)'[0] = rest[0]
      BY <1>7
    <3>4. CountsAgreeWithRest'
      BY <1>12, <3>1, <3>3, Zenon DEF CountsAgreeWithRest
    <3> QED BY <3>2, <3>4
  <2>4. RunningInv'
    BY <2>1, Zenon DEF RunningInv
  <2>5. CallInv'
    <3>1. running' \in BOOLEAN /\ buf' \in Seq(Ids) /\ Len(buf') > 0
      BY <1>1, <1>3, <2>1, Zenon DEF CallInv
    <3>2. count' \in {count, count + Len(PieceTokens)}
      BY <2>1, Zenon
    <3> QED BY <1>1, <1>3, <3>1, <3>2, PieceKeepsTypes
  <2> QED BY <1>13, <2>3, <2>4, <2>5, Zenon DEF TokenizerInv
<1>15. CASE answer # SIZE_MAX
  <2>1. answer = tokens /\ count + tokens <= limit
    BY <1>5, <1>10, <1>11, <1>15
  <2>2. ~(count + answer > limit)
    BY <1>5, <1>10, <2>1
  <2>3. count' = count + tokens /\ running' = running
    BY <1>2, <1>15, <2>1, <2>2
  <2>4. CallInv'
    <3>1. running' \in BOOLEAN /\ buf' \in Seq(Ids) /\ Len(buf') > 0
      BY <1>1, <1>3, <2>3, Zenon DEF CallInv
    <3>2. count' \in {count, count + Len(PieceTokens)}
      BY <2>3, Zenon DEF tokens
    <3> QED BY <1>1, <1>3, <3>1, <3>2, PieceKeepsTypes
  <2>5. RunningInv'
    <3>1. calls' > 0 /\ count' + Len(rest[offset']) = Len(rest[0]) /\ count' <= limit'
      BY <1>1, <1>3, <1>4, <1>9, <2>1, <2>3, Zenon DEF later, all
    <3> QED BY <1>7, <3>1, Zenon DEF RunningInv
  <2>6. CountsAgree'
    BY <1>1, <2>3, Zenon DEF CountsAgree
  <2> QED BY <1>13, <2>4, <2>5, <2>6, Zenon DEF TokenizerInv
<1> QED BY <1>14, <1>15

LEMMA ReturnKeeps ==
  ASSUME SplittersAgree, TokenizerInv, Return
  PROVE  TokenizerInv'
<1> DEFINE rest == Rest(fn, vocab, text)
<1>1. /\ running /\ End /\ running' = FALSE /\ result' = count
      /\ vocab' = vocab /\ op' = op /\ limit' = limit /\ buf' = buf
      /\ count' = count /\ calls' = calls
      /\ fn' = fn /\ text' = text /\ offset' = offset
  BY DEF Return, End
<1>2. CallInv /\ BufferInv /\ RunningInv /\ calls > 0
  BY <1>1 DEF TokenizerInv, RunningInv
<1>3. offset = Len(text)
  <2>1. /\ text \in Seq(Chars) /\ offset \in 0 .. Len(text) /\ Len(text) \in Nat
    BY <1>2, TextsAssumption, RestType DEF CallInv
  <2>2. CASE offset < Len(text)
    <3>1. MovesOn(Native(fn, text, offset), offset, text)
      BY <2>1, <2>2, NativeMovesOn
    <3> QED BY <1>1, <2>1, <2>2, <3>1 DEF End, NoMore, MovesOn
  <2> QED BY <2>1, <2>2
<1>4. rest[offset] = <<>>
  BY <1>2, <1>3, RestType
<1>5. count = Len(rest[0])
  <2>1. count + Len(rest[offset]) = Len(rest[0]) /\ count \in Nat
    BY <1>1, <1>2, RestType DEF RunningInv, CallInv
  <2>2. Len(rest[offset]) = 0
    BY <1>4
  <2> HIDE DEF rest
  <2> QED BY <2>1, <2>2
<1>6. op = "count_till_limit" => count <= limit
  BY <1>1, <1>2 DEF RunningInv
<1>7. Rest(fn, vocab, text)' = rest
  BY <1>1, Zenon
<1>8. CallInv'
  BY <1>1, <1>2, Zenon DEF CallInv
<1>9. BufferInv'
  BY <1>1, <1>2, Zenon DEF BufferInv
<1>10. RunningInv'
  BY <1>1, Zenon DEF RunningInv
<1>11. CountsAgree'
  <2>1. CountsAgree' <=> CountsAgreeWithRest'
    BY CountsAgreeMeans, PTL
  <2>2. Rest(fn, vocab, text)'[0] = rest[0]
    BY <1>7
  <2>3. CountsAgreeWithRest'
    BY <1>1, <1>5, <1>6, <2>2, Zenon DEF CountsAgreeWithRest
  <2> QED BY <2>1, <2>3
<1> QED BY <1>8, <1>9, <1>10, <1>11, Zenon DEF TokenizerInv

LEMMA NextKeeps ==
  ASSUME SplittersAgree, TokenizerInv, [Next]_vars
  PROVE  TokenizerInv'
<1>1. ASSUME NEW o \in {"encode", "encode_into", "count"}, NEW t \in Texts, Call(o, t, 0)
      PROVE  TokenizerInv'
  <2>1. o \in {"encode", "encode_into", "count", "count_till_limit"}
    OBVIOUS
  <2> QED BY <1>1, <2>1, CallKeeps
<1>2. ASSUME NEW t \in Texts, NEW l \in Limits, Call("count_till_limit", t, l)
      PROVE  TokenizerInv'
  <2>1. l \in Nat
    BY TokenizerAssumption
  <2> QED BY <1>2, <2>1, CallKeeps
<1>3. CASE EncodePiece
  BY <1>3, EncodePieceKeeps
<1>4. CASE CountPiece
  BY <1>4, CountPieceKeeps
<1>5. CASE LimitPiece
  BY <1>5, LimitPieceKeeps
<1>6. CASE Return
  BY <1>6, ReturnKeeps
<1>7. CASE UNCHANGED vars
  <2>1. /\ UNCHANGED <<fn, text, offset, vocab>>
        /\ UNCHANGED <<op, running, limit, buf, count, result, calls>>
    BY <1>7 DEF vars, iter, call
  <2>2. CallInv' /\ BufferInv' /\ RunningInv'
    BY <2>1, Zenon DEF TokenizerInv, CallInv, BufferInv, RunningInv
  <2>3. CountsAgree'
    <3>1. CountsAgree' <=> CountsAgreeWithRest'
      BY CountsAgreeMeans, PTL
    <3>2. CountsAgreeWithRest
      BY CountsAgreeMeans DEF TokenizerInv
    <3>3. CountsAgreeWithRest'
      BY <2>1, <3>2, Zenon DEF CountsAgreeWithRest
    <3> QED BY <3>1, <3>3
  <2> QED BY <2>2, <2>3 DEF TokenizerInv
<1> QED BY <1>1, <1>2, <1>3, <1>4, <1>5, <1>6, <1>7 DEF Next, Step

-----------------------------------------------------------------------------
(***************************************************************************)
(* The invariant of the loops over the pieces: what is in the buffer, or   *)
(* counted, and what the reference has from the next piece on are together *)
(* what the reference has for the whole text.                              *)
(***************************************************************************)
THEOREM TokenizerInvariance ==
  ASSUME SplittersAgree
  PROVE  Spec => []TokenizerInv
<1>1. Init => TokenizerInv
  BY InitKeeps
<1>2. TokenizerInv /\ [Next]_vars => TokenizerInv'
  BY NextKeeps
<1> QED BY <1>1, <1>2, PTL DEF Spec

(***************************************************************************)
(* tokenizer_encode and tokenizer_encode_into put out the reference's      *)
(* tokens, none lost when the buffer grows, none left from a longer text.  *)
(***************************************************************************)
THEOREM EncodesExactly ==
  ASSUME SplittersAgree
  PROVE  Spec => []EncodesAsReference
<1>1. TokenizerInv => EncodesAsReference
  <2> SUFFICES ASSUME TokenizerInv, calls > 0, op \in {"encode", "encode_into"}
               PROVE  /\ count <= Len(buf)
                      /\ SubSeq(buf, 1, count) = SubSeq(ReferenceTokens(text), 1, count)
                      /\ offset = Len(text) => count = Len(ReferenceTokens(text))
    BY Zenon DEF EncodesAsReference
  <2> DEFINE expected == ReferenceTokens(text)
             before   == SubSeq(buf, 1, count)
             behind   == Rest(fn, vocab, text)[offset]
  <2>1. CallInv /\ BufferInv
    BY DEF TokenizerInv
  <2>2. expected = before \o behind /\ count <= Len(buf)
    BY <2>1, ReferenceIsRest, Zenon DEF BufferInv
  <2>3. count \in 0 .. Len(buf) /\ count \in Nat /\ offset \in 0 .. Len(text)
    <3>1. count \in 0 .. offset /\ offset \in 0 .. Len(text) /\ Len(buf) \in Nat
      BY <2>1, LenProperties DEF CallInv
    <3> QED BY <2>1, <2>2, <3>1, RestType
  <2>4. before \in Seq(Ids) /\ Len(before) = count
    BY <2>1, <2>3, Prefix DEF CallInv
  <2>5. behind \in Seq(Ids) /\ (offset = Len(text) => behind = <<>>)
    BY <2>1, <2>3, RestType
  <2> HIDE DEF expected, before, behind
  <2>6. SubSeq(expected, 1, count) = before
    <3>1. CASE count = 0
      <4>1. SubSeq(expected, 1, count) = <<>>
        BY <3>1, SubSeqEmpty
      <4>2. before = <<>>
        BY <3>1, <2>4, EmptySeq
      <4> QED BY <4>1, <4>2
    <3>2. CASE count # 0
      <4>1. 1 \in 1 .. Len(before) /\ count \in 1 .. Len(before)
        BY <2>3, <2>4, <3>2
      <4>2. SubSeq(before \o behind, 1, count) = SubSeq(before, 1, count)
        BY <2>4, <2>5, <4>1, SubSeqOfConcat1
      <4>3. SubSeq(before, 1, Len(before)) = before
        BY <2>4, SubSeqFull
      <4> QED BY <2>2, <2>4, <4>2, <4>3
    <3> QED BY <3>1, <3>2
  <2>7. offset = Len(text) => count = Len(expected)
    <3>1. before \o <<>> = before
      BY <2>4, ConcatEmptySeq
    <3> QED BY <2>2, <2>4, <2>5, <3>1
  <2> QED BY <2>2, <2>6, <2>7 DEF expected, before
<1> QED BY <1>1, TokenizerInvariance, PTL

(***************************************************************************)
(* tokenizer_count and tokenizer_count_till_limit agree with the encoding, *)
(* and a limit is not reported exceeded when it is not.                    *)
(***************************************************************************)
THEOREM CountsAreRight ==
  ASSUME SplittersAgree
  PROVE  Spec => []CountsAgree
<1>1. TokenizerInv => CountsAgree
  BY DEF TokenizerInv
<1> QED BY <1>1, TokenizerInvariance, PTL
=============================================================================
