-------------------------- MODULE DictionaryProofs --------------------------
(***************************************************************************)
(* Proofs about AhoCorasick and PairMap, two of the parts of a dictionary: *)
(*   - for any tokens, the automaton built from them is the abstract one,  *)
(*     its double array is its trie, and its search finds the match that   *)
(*     the encoders ask for;                                               *)
(*   - for any keys, any hash function, any number of insertions, in any   *)
(*     order, the open-addressing table with its growth answers as a       *)
(*     partial function does, and every probe ends.                        *)
(***************************************************************************)
EXTENDS AhoCorasick, PairMap, CommonLemmas, FiniteSetTheorems

-----------------------------------------------------------------------------
(* Ends of byte sequences.                                                 *)

IsEnd(e, s) == Len(e) <= Len(s) /\ e = EndOf(s, Len(e))

(* Two sequences of bytes, one an end of the other, element by element. *)
LEMMA EndIff ==
  ASSUME NEW S, NEW e \in Seq(S), NEW s \in Seq(S)
  PROVE  /\ Len(e) \in Nat /\ Len(s) \in Nat
         /\ IsEnd(e, s) <=>
              Len(e) <= Len(s) /\ \A k \in 1 .. Len(e) : e[k] = s[Len(s) - Len(e) + k]
<1>1. Len(e) \in Nat /\ Len(s) \in Nat
  BY LenProperties
<1>2. CASE Len(e) <= Len(s)
  <2>1. Len(e) \in 0 .. Len(s)
    BY <1>1, <1>2
  <2>2. /\ EndOf(s, Len(e)) \in Seq(S) /\ Len(EndOf(s, Len(e))) = Len(e)
        /\ \A k \in 1 .. Len(e) : EndOf(s, Len(e))[k] = s[Len(s) - Len(e) + k]
    BY <2>1, EndFacts
  <2>3. ASSUME \A k \in 1 .. Len(e) : e[k] = s[Len(s) - Len(e) + k]
        PROVE  e = EndOf(s, Len(e))
    BY <2>2, <2>3, SeqEqual
  <2> QED BY <1>1, <1>2, <2>2, <2>3 DEF IsEnd
<1>3. CASE ~(Len(e) <= Len(s))
  BY <1>1, <1>3 DEF IsEnd
<1> QED BY <1>1, <1>2, <1>3

(* A sequence ends with itself, and with nothing. *)
LEMMA EndOfItself ==
  ASSUME NEW S, NEW s \in Seq(S)
  PROVE  IsEnd(s, s) /\ IsEnd(<<>>, s)
<1> DEFINE nothing == <<>>
<1>1. nothing \in Seq(S) /\ Len(nothing) = 0
  BY EmptySeq
<1>2. Len(s) \in Nat
  BY LenProperties
<1>3. IsEnd(nothing, s)
  <2> HIDE DEF nothing
  <2>1. \A k \in 1 .. Len(nothing) : nothing[k] = s[Len(s) - Len(nothing) + k]
    BY <1>1
  <2>2. Len(nothing) <= Len(s)
    BY <1>1, <1>2
  <2>3. nothing \in Seq(S)
    BY <1>1
  <2> QED BY <2>1, <2>2, <2>3, EndIff
<1>4. IsEnd(s, s)
  <2>1. \A k \in 1 .. Len(s) : Len(s) - Len(s) + k = k
    BY <1>2
  <2>2. \A k \in 1 .. Len(s) : s[k] = s[Len(s) - Len(s) + k]
    BY <2>1
  <2> QED BY <1>2, <2>2, EndIff
<1> QED BY <1>3, <1>4

(* An end of an end is an end. *)
LEMMA EndTransitive ==
  ASSUME NEW S, NEW d \in Seq(S), NEW e \in Seq(S), NEW s \in Seq(S), IsEnd(d, e), IsEnd(e, s)
  PROVE  IsEnd(d, s)
<1>1. Len(d) \in Nat /\ Len(e) \in Nat /\ Len(s) \in Nat
  BY LenProperties
<1>2. Len(d) <= Len(e) /\ \A k \in 1 .. Len(d) : d[k] = e[Len(e) - Len(d) + k]
  BY EndIff
<1>3. Len(e) <= Len(s) /\ \A k \in 1 .. Len(e) : e[k] = s[Len(s) - Len(e) + k]
  BY EndIff
<1>4. ASSUME NEW k \in 1 .. Len(d) PROVE d[k] = s[Len(s) - Len(d) + k]
  <2>1. /\ Len(e) - Len(d) + k \in 1 .. Len(e)
        /\ Len(s) - Len(e) + (Len(e) - Len(d) + k) = Len(s) - Len(d) + k
    BY <1>1, <1>2
  <2>2. e[Len(e) - Len(d) + k] = s[Len(s) - Len(e) + (Len(e) - Len(d) + k)]
    BY <1>3, <2>1
  <2> QED BY <1>2, <2>1, <2>2
<1> QED BY <1>1, <1>2, <1>3, <1>4, EndIff

(* Of two ends of a sequence, the shorter is an end of the longer. *)
LEMMA ShorterEnd ==
  ASSUME NEW S, NEW d \in Seq(S), NEW e \in Seq(S), NEW s \in Seq(S), IsEnd(d, s), IsEnd(e, s),
         Len(d) <= Len(e)
  PROVE  IsEnd(d, e) /\ (Len(d) = Len(e) => d = e)
<1>1. Len(d) \in Nat /\ Len(e) \in Nat /\ Len(s) \in Nat
  BY LenProperties
<1>2. Len(d) <= Len(s) /\ \A k \in 1 .. Len(d) : d[k] = s[Len(s) - Len(d) + k]
  BY EndIff
<1>3. Len(e) <= Len(s) /\ \A k \in 1 .. Len(e) : e[k] = s[Len(s) - Len(e) + k]
  BY EndIff
<1>4. ASSUME NEW k \in 1 .. Len(d) PROVE d[k] = e[Len(e) - Len(d) + k]
  <2>1. /\ Len(e) - Len(d) + k \in 1 .. Len(e)
        /\ Len(s) - Len(e) + (Len(e) - Len(d) + k) = Len(s) - Len(d) + k
    BY <1>1, <1>2
  <2>2. e[Len(e) - Len(d) + k] = s[Len(s) - Len(e) + (Len(e) - Len(d) + k)]
    BY <1>3, <2>1
  <2> QED BY <1>2, <2>1, <2>2
<1>5. IsEnd(d, e)
  BY <1>1, <1>4, EndIff
<1>6. Len(d) = Len(e) => d = e
  BY DEF IsEnd
<1> QED BY <1>5, <1>6

(* A sequence is its front and its last element. *)
LEMMA FrontAndLast ==
  ASSUME NEW S, NEW s \in Seq(S), s # <<>>
  PROVE  \E f \in Seq(S), x \in S : s = Append(f, x) /\ Len(s) = Len(f) + 1 /\ Len(f) \in Nat
<1>1. Len(s) \in Nat \ {0} /\ \A k \in 1 .. Len(s) : s[k] \in S
  BY EmptySeq, ElementOfSeq
<1> DEFINE m == Len(s) - 1
           f == SubSeq(s, 1, m)
<1>2. m \in Nat /\ m \in 0 .. Len(s) /\ m + 1 = Len(s)
  BY <1>1
<1> HIDE DEF m
<1>3. f \in Seq(S) /\ Len(f) = m /\ \A k \in 1 .. m : f[k] = s[k]
  <2>1. \A k \in 1 .. m : s[k] \in S
    BY <1>1, <1>2
  <2>2. /\ f \in Seq(S) /\ Len(f) = IF 1 <= m THEN m - 1 + 1 ELSE 0
        /\ \A k \in 1 .. m - 1 + 1 : f[k] = s[1 + k - 1]
    BY <1>2, <2>1, SubSeqProperties
  <2> QED BY <1>2, <2>2
<1> HIDE DEF f
<1>4. s[Len(s)] \in S
  BY <1>1
<1> DEFINE x == s[Len(s)]
           a == Append(f, x)
<1>5. /\ a \in Seq(S) /\ Len(a) = m + 1 /\ a[m + 1] = x
      /\ \A k \in 1 .. m : a[k] = f[k]
  <2>1. x \in S
    BY <1>4
  <2> QED BY <1>3, <2>1, AppendProperties
<1>6. \A k \in 1 .. Len(s) : s[k] = a[k]
  <2> HIDE DEF a
  <2> QED BY <1>1, <1>2, <1>3, <1>5
<1>7. s = a
  <2> HIDE DEF a, x
  <2> QED BY <1>2, <1>5, <1>6, SeqEqual
<1> QED BY <1>2, <1>3, <1>4, <1>7

(* What Append makes, and that it makes it of one sequence and one element *)
(* only.                                                                   *)
LEMMA AppendUnique ==
  ASSUME NEW S, NEW s \in Seq(S), NEW t \in Seq(S), NEW x \in S, NEW y \in S
  PROVE  /\ Append(s, x) \in Seq(S) /\ Len(Append(s, x)) = Len(s) + 1
         /\ Append(s, x)[Len(Append(s, x))] = x
         /\ Append(s, x) # <<>>
         /\ Append(s, x) = Append(t, y) => s = t /\ x = y
<1>1. /\ Append(s, x) \in Seq(S) /\ Len(Append(s, x)) = Len(s) + 1 /\ Append(s, x)[Len(s) + 1] = x
      /\ \A k \in 1 .. Len(s) : Append(s, x)[k] = s[k]
      /\ Len(s) \in Nat
  BY AppendProperties, LenProperties
<1>2. /\ Append(t, y) \in Seq(S) /\ Len(Append(t, y)) = Len(t) + 1 /\ Append(t, y)[Len(t) + 1] = y
      /\ \A k \in 1 .. Len(t) : Append(t, y)[k] = t[k]
      /\ Len(t) \in Nat
  BY AppendProperties, LenProperties
<1>3. Append(s, x) # <<>>
  BY <1>1, EmptySeq
<1>4. ASSUME Append(s, x) = Append(t, y) PROVE s = t /\ x = y
  <2>1. Len(s) = Len(t)
    BY <1>1, <1>2, <1>4
  <2>2. \A k \in 1 .. Len(s) : s[k] = t[k]
    BY <1>1, <1>2, <1>4, <2>1
  <2>3. s = t
    BY <2>1, <2>2, SeqEqual
  <2> QED BY <1>1, <1>2, <1>4, <2>1, <2>3
<1> QED BY <1>1, <1>3, <1>4

(* The ends of a sequence with one element more. *)
LEMMA EndAppended ==
  ASSUME NEW S, NEW e \in Seq(S), NEW s \in Seq(S), NEW x \in S
  PROVE  /\ IsEnd(Append(e, x), Append(s, x)) <=> IsEnd(e, s)
         /\ \A y \in S : IsEnd(Append(e, y), Append(s, x)) => y = x
<1>1. /\ Append(s, x) \in Seq(S) /\ Len(Append(s, x)) = Len(s) + 1 /\ Append(s, x)[Len(s) + 1] = x
      /\ \A k \in 1 .. Len(s) : Append(s, x)[k] = s[k]
      /\ Len(s) \in Nat
  BY AppendProperties, LenProperties
<1>2. /\ Append(e, x) \in Seq(S) /\ Len(Append(e, x)) = Len(e) + 1 /\ Append(e, x)[Len(e) + 1] = x
      /\ \A k \in 1 .. Len(e) : Append(e, x)[k] = e[k]
      /\ Len(e) \in Nat
  BY AppendProperties, LenProperties
<1>3. CASE Len(e) <= Len(s)
  <2>1. Len(e) \in 0 .. Len(s)
    BY <1>1, <1>2, <1>3
  <2>2. EndOf(Append(s, x), Len(e) + 1) = Append(EndOf(s, Len(e)), x)
    BY <2>1, EndOfAppend
  <2>3. EndOf(s, Len(e)) \in Seq(S)
    BY <2>1, EndFacts
  <2>4. Append(e, x) = Append(EndOf(s, Len(e)), x) <=> e = EndOf(s, Len(e))
    BY <2>3, AppendUnique
  <2>5. IsEnd(Append(e, x), Append(s, x)) <=> IsEnd(e, s)
    BY <1>1, <1>2, <1>3, <2>2, <2>4 DEF IsEnd
  <2>6. ASSUME NEW y \in S, IsEnd(Append(e, y), Append(s, x)) PROVE y = x
    <3>1. Len(Append(e, y)) = Len(e) + 1
      BY AppendProperties
    <3>2. Append(e, y) = Append(EndOf(s, Len(e)), x)
      BY <2>2, <2>6, <3>1 DEF IsEnd
    <3> QED BY <2>3, <3>2, AppendUnique
  <2> QED BY <2>5, <2>6
<1>4. CASE ~(Len(e) <= Len(s))
  <2>1. ~IsEnd(e, s)
    BY <1>4 DEF IsEnd
  <2>2. \A y \in S : Len(Append(e, y)) = Len(e) + 1
    BY AppendProperties
  <2>3. \A y \in S : ~IsEnd(Append(e, y), Append(s, x))
    BY <1>1, <1>2, <1>4, <2>2 DEF IsEnd
  <2> QED BY <2>1, <2>3
<1> QED BY <1>3, <1>4

(* An end of an extended sequence is an extended end, or nothing. *)
LEMMA EndOfAppended ==
  ASSUME NEW S, NEW s \in Seq(S), NEW x \in S, NEW e \in Seq(S), e # <<>>, IsEnd(e, Append(s, x))
  PROVE  \E f \in Seq(S) : e = Append(f, x) /\ IsEnd(f, s) /\ Len(e) = Len(f) + 1
<1>1. PICK f \in Seq(S), y \in S : e = Append(f, y) /\ Len(e) = Len(f) + 1
  BY FrontAndLast
<1>2. y = x
  BY <1>1, EndAppended
<1> QED BY <1>1, <1>2, EndAppended

-----------------------------------------------------------------------------
(* Trees of byte sequences, and the longest end in a tree.                 *)

IsTree(N) ==
  /\ N \subseteq Seq(Bytes) /\ Root \in N
  /\ \A n \in Seq(Bytes), byte \in Bytes : Append(n, byte) \in N => n \in N

Longest(N, s, e) ==
  e \in N /\ IsEnd(e, s) /\ \A f \in N : IsEnd(f, s) => Len(f) <= Len(e)

(* what a failure link leads to *)
LongestProper(N, s, e) ==
  /\ e \in N /\ IsEnd(e, s) /\ Len(e) < Len(s)
  /\ \A f \in N : IsEnd(f, s) /\ Len(f) < Len(s) => Len(f) <= Len(e)

(* The root is the only node without bytes. *)
LEMMA RootFacts ==
  /\ Root \in Seq(Bytes) /\ Len(Root) = 0
  /\ \A n \in Seq(Bytes) : Len(n) \in Nat /\ (n # Root => Len(n) > 0)
BY EmptySeq, LenProperties DEF Root

(* There is at most one longest end in a tree ... *)
LEMMA LongestUnique ==
  ASSUME NEW N, IsTree(N), NEW s \in Seq(Bytes), NEW e, NEW f, Longest(N, s, e), Longest(N, s, f)
  PROVE  e = f
<1>1. e \in Seq(Bytes) /\ f \in Seq(Bytes) /\ Len(e) \in Nat /\ Len(f) \in Nat
  BY RootFacts DEF IsTree, Longest
<1>2. Len(e) = Len(f)
  BY <1>1 DEF Longest
<1> QED BY <1>2 DEF Longest, IsEnd

(* ... and at least one. *)
LEMMA LongestExists ==
  ASSUME NEW N, IsTree(N), NEW s \in Seq(Bytes)
  PROVE  \E e : Longest(N, s, e)
<1> DEFINE lengths == {Len(e) : e \in {f \in N : IsEnd(f, s)}}
<1>1. Len(s) \in Nat
  BY LenProperties
<1>2. lengths \subseteq 0 .. Len(s)
  <2>1. \A f \in N : Len(f) \in Nat
    BY RootFacts DEF IsTree
  <2> QED BY <1>1, <2>1 DEF IsEnd
<1>3. lengths # {}
  <2>1. Root \in N /\ IsEnd(Root, s)
    BY EndOfItself DEF IsTree, Root
  <2> QED BY <2>1
<1>4. PICK n \in lengths : \A m \in lengths : m <= n
  <2> HIDE DEF lengths
  <2> QED BY <1>1, <1>2, <1>3, LargestExists
<1>5. PICK e \in N : IsEnd(e, s) /\ n = Len(e)
  OBVIOUS
<1> QED BY <1>4, <1>5 DEF Longest

(* The longest end does not depend on what stands before a longest end. *)
LEMMA LongestNext ==
  ASSUME NEW N, IsTree(N), NEW s \in Seq(Bytes), NEW x \in Bytes, NEW e, Longest(N, s, e), NEW g
  PROVE  Longest(N, Append(s, x), g) <=> Longest(N, Append(e, x), g)
<1>1. N \subseteq Seq(Bytes) /\ e \in N /\ IsEnd(e, s) /\ e \in Seq(Bytes)
  BY DEF IsTree, Longest
<1>2. Append(s, x) \in Seq(Bytes) /\ Append(e, x) \in Seq(Bytes)
  BY <1>1, AppendUnique
<1>3. ASSUME NEW f \in N PROVE IsEnd(f, Append(s, x)) <=> IsEnd(f, Append(e, x))
  <2>0. f \in Seq(Bytes)
    BY <1>1
  <2>1. CASE f = Root
    BY <1>2, <2>1, EndOfItself DEF Root
  <2>2. CASE f # Root
    <3>1. ASSUME IsEnd(f, Append(s, x)) PROVE IsEnd(f, Append(e, x))
      <4>1. PICK h \in Seq(Bytes) : f = Append(h, x) /\ IsEnd(h, s)
        BY <2>0, <2>2, <3>1, EndOfAppended DEF Root
      <4>2. h \in N
        BY <4>1 DEF IsTree
      <4>3. Len(h) <= Len(e)
        BY <4>1, <4>2 DEF Longest
      <4>4. IsEnd(h, e)
        BY <1>1, <4>1, <4>3, ShorterEnd
      <4> QED BY <1>1, <4>1, <4>4, EndAppended
    <3>2. ASSUME IsEnd(f, Append(e, x)) PROVE IsEnd(f, Append(s, x))
      <4>1. IsEnd(Append(e, x), Append(s, x))
        BY <1>1, EndAppended
      <4> QED BY <1>2, <2>0, <3>2, <4>1, EndTransitive
    <3> QED BY <3>1, <3>2
  <2> QED BY <2>1, <2>2
<1> QED BY <1>3 DEF Longest

(* A sequence in the tree is its own longest end. *)
LEMMA LongestInTree ==
  ASSUME NEW N, IsTree(N), NEW s \in N
  PROVE  Longest(N, s, s)
<1>1. s \in Seq(Bytes)
  BY DEF IsTree
<1> QED BY <1>1, EndOfItself DEF Longest, IsEnd

(* Outside of the tree, it is the longest proper end. *)
LEMMA LongestOutside ==
  ASSUME NEW N, IsTree(N), NEW s \in Seq(Bytes), s \notin N, NEW e
  PROVE  Longest(N, s, e) <=> LongestProper(N, s, e)
<1>1. ASSUME NEW f \in N, IsEnd(f, s) PROVE Len(f) < Len(s)
  <2>1. f \in Seq(Bytes)
    BY DEF IsTree
  <2>2. Len(f) \in Nat /\ Len(s) \in Nat /\ Len(f) <= Len(s)
    BY <1>1, <2>1, LenProperties DEF IsEnd
  <2>3. IsEnd(s, s)
    BY EndOfItself
  <2>4. Len(f) # Len(s)
    BY <1>1, <2>1, <2>2, <2>3, ShorterEnd
  <2> QED BY <2>2, <2>4
<1> QED BY <1>1 DEF Longest, LongestProper

(* The longest proper end of a node and a byte comes from that of the node. *)
LEMMA LongestProperNext ==
  ASSUME NEW N, IsTree(N), NEW n \in N, n # Root, NEW x \in Bytes,
         NEW e, LongestProper(N, n, e), NEW g
  PROVE  LongestProper(N, Append(n, x), g) <=> Longest(N, Append(e, x), g)
<1>1. N \subseteq Seq(Bytes) /\ e \in N /\ IsEnd(e, n) /\ e \in Seq(Bytes) /\ n \in Seq(Bytes)
  BY DEF IsTree, LongestProper
<1>2. Append(n, x) \in Seq(Bytes) /\ Append(e, x) \in Seq(Bytes) /\ Len(Append(n, x)) = Len(n) + 1
      /\ Len(Append(e, x)) = Len(e) + 1 /\ Len(e) \in Nat /\ Len(n) \in Nat
  BY <1>1, AppendUnique, LenProperties
<1>3. ASSUME NEW f \in N
      PROVE  (IsEnd(f, Append(n, x)) /\ Len(f) < Len(Append(n, x))) <=> IsEnd(f, Append(e, x))
  <2>0. f \in Seq(Bytes)
    BY <1>1
  <2>1. CASE f = Root
    <3>1. IsEnd(f, Append(n, x)) /\ IsEnd(f, Append(e, x)) /\ Len(f) = 0
      BY <1>2, <2>1, EndOfItself, RootFacts DEF Root
    <3> QED BY <1>2, <3>1
  <2>2. CASE f # Root
    <3>1. ASSUME IsEnd(f, Append(n, x)), Len(f) < Len(Append(n, x)) PROVE IsEnd(f, Append(e, x))
      <4>1. PICK h \in Seq(Bytes) : f = Append(h, x) /\ IsEnd(h, n) /\ Len(f) = Len(h) + 1
        BY <1>1, <2>0, <2>2, <3>1, EndOfAppended DEF Root
      <4>2. h \in N /\ Len(h) \in Nat
        BY <4>1, LenProperties DEF IsTree
      <4>3. Len(h) <= Len(e)
        BY <1>2, <3>1, <4>1, <4>2 DEF LongestProper
      <4>4. IsEnd(h, e)
        BY <1>1, <4>1, <4>3, ShorterEnd
      <4> QED BY <1>1, <4>1, <4>4, EndAppended
    <3>2. ASSUME IsEnd(f, Append(e, x))
          PROVE  IsEnd(f, Append(n, x)) /\ Len(f) < Len(Append(n, x))
      <4>1. IsEnd(Append(e, x), Append(n, x))
        BY <1>1, EndAppended
      <4>2. IsEnd(f, Append(n, x))
        BY <1>2, <2>0, <3>2, <4>1, EndTransitive
      <4>3. Len(f) <= Len(e) + 1 /\ Len(e) < Len(n) /\ Len(f) \in Nat
        BY <1>2, <2>0, <3>2, LenProperties DEF IsEnd, LongestProper
      <4> QED BY <1>2, <4>2, <4>3
    <3> QED BY <3>1, <3>2
  <2> QED BY <2>1, <2>2
<1> QED BY <1>3 DEF Longest, LongestProper

(* The longest end of a byte that the root has no child for. *)
LEMMA LongestOfByte ==
  ASSUME NEW N, IsTree(N), NEW x \in Bytes, Append(Root, x) \notin N
  PROVE  Longest(N, Append(Root, x), Root)
<1>1. Root \in N /\ Root \in Seq(Bytes) /\ Append(Root, x) \in Seq(Bytes) /\ Len(Append(Root, x)) = 1
      /\ Len(Root) = 0
  BY RootFacts, AppendUnique DEF IsTree
<1>2. IsEnd(Root, Append(Root, x))
  BY <1>1, EndOfItself DEF Root
<1>3. ASSUME NEW f \in N, IsEnd(f, Append(Root, x)) PROVE Len(f) <= Len(Root)
  <2>1. f \in Seq(Bytes) /\ Len(f) \in Nat /\ Len(f) <= 1
    BY <1>1, <1>3, LenProperties DEF IsTree, IsEnd
  <2>2. Len(f) # 1
    BY <1>1, <1>3, <2>1, EndOfItself, ShorterEnd
  <2> QED BY <1>1, <2>1, <2>2
<1> QED BY <1>1, <1>2, <1>3 DEF Longest

-----------------------------------------------------------------------------
(* The walk along failure links.                                           *)

(* F leads from every node of D but the root to its longest proper end *)
FailLinks(N, D, F) ==
  /\ D \subseteq N /\ Root \in D
  /\ \A n \in D \ {Root} : F[n] \in D /\ LongestProper(N, n, F[n])

Walk(N, D, F, x, f) ==
  f = [n \in D |-> IF Append(n, x) \in N THEN Append(n, x)
                   ELSE IF n = Root THEN Root ELSE f[F[n]]]

(* The walk is defined, and from every node it finds the longest end of    *)
(* the node with one more byte.                                            *)
LEMMA WalkFinds ==
  ASSUME NEW N, IsTree(N), NEW D, NEW F, FailLinks(N, D, F), NEW x \in Bytes
  PROVE  /\ \E f : Walk(N, D, F, x, f)
         /\ \A f : Walk(N, D, F, x, f) => \A n \in D : Longest(N, Append(n, x), f[n])
<1>0. D \subseteq N /\ N \subseteq Seq(Bytes) /\ \A n \in D : n \in Seq(Bytes) /\ Append(n, x) \in Seq(Bytes)
  BY AppendUnique DEF FailLinks, IsTree
<1> DEFINE g == [n \in D |-> CHOOSE e : Longest(N, Append(n, x), e)]
<1>1. \A n \in D : Longest(N, Append(n, x), g[n])
  BY <1>0, LongestExists
<1>2. ASSUME NEW n \in D, Append(n, x) \in N PROVE Longest(N, Append(n, x), Append(n, x))
  BY <1>2, LongestInTree
<1>3. Append(Root, x) \notin N => Longest(N, Append(Root, x), Root)
  BY LongestOfByte
<1>4. ASSUME NEW n \in D, n # Root, Append(n, x) \notin N
      PROVE  F[n] \in D /\ \A e : Longest(N, Append(n, x), e) <=> Longest(N, Append(F[n], x), e)
  <2>1. F[n] \in D /\ LongestProper(N, n, F[n]) /\ n \in N
    BY <1>0, <1>4 DEF FailLinks
  <2>2. \A e : Longest(N, Append(n, x), e) <=> LongestProper(N, Append(n, x), e)
    BY <1>0, <1>4, LongestOutside
  <2>3. \A e : LongestProper(N, Append(n, x), e) <=> Longest(N, Append(F[n], x), e)
    BY <1>4, <2>1, LongestProperNext
  <2> QED BY <2>1, <2>2, <2>3
<1>5. Walk(N, D, F, x, g)
  <2>1. ASSUME NEW n \in D
        PROVE  g[n] = IF Append(n, x) \in N THEN Append(n, x)
                      ELSE IF n = Root THEN Root ELSE g[F[n]]
    <3>1. \A e : Longest(N, Append(n, x), e) => e = g[n]
      BY <1>0, <1>1, LongestUnique
    <3> HIDE DEF g
    <3> QED BY <1>1, <1>2, <1>3, <1>4, <3>1
  <2>2. g = [n \in D |-> g[n]]
    OBVIOUS
  <2> HIDE DEF g
  <2> QED BY <2>1, <2>2 DEF Walk
<1>6. ASSUME NEW f, Walk(N, D, F, x, f) PROVE \A n \in D : Longest(N, Append(n, x), f[n])
  <2>1. \A n \in D : f[n] = IF Append(n, x) \in N THEN Append(n, x)
                            ELSE IF n = Root THEN Root ELSE f[F[n]]
    BY <1>6 DEF Walk
  <2> DEFINE S == {k \in Nat : \A n \in D : Len(n) <= k => Longest(N, Append(n, x), f[n])}
  <2>2. ASSUME NEW n \in D, \A m \in D : Len(m) < Len(n) => Longest(N, Append(m, x), f[m])
        PROVE  Longest(N, Append(n, x), f[n])
    <3>1. CASE Append(n, x) \in N
      BY <1>2, <2>1, <3>1
    <3>2. CASE Append(n, x) \notin N /\ n = Root
      BY <1>3, <2>1, <3>2
    <3>3. CASE Append(n, x) \notin N /\ n # Root
      <4>1. f[n] = f[F[n]]
        BY <2>1, <3>3
      <4>2. F[n] \in D /\ Len(F[n]) < Len(n)
        BY <3>3 DEF FailLinks, LongestProper
      <4> QED BY <1>4, <2>2, <3>3, <4>1, <4>2
    <3> QED BY <3>1, <3>2, <3>3
  <2>3. \A n \in D : Len(n) \in Nat
    BY <1>0, LenProperties
  <2>4. 0 \in S
    <3> SUFFICES ASSUME NEW n \in D, Len(n) <= 0 PROVE Longest(N, Append(n, x), f[n])
      OBVIOUS
    <3>1. \A m \in D : ~(Len(m) < Len(n))
      BY <2>3
    <3> QED BY <2>2, <3>1
  <2>5. ASSUME NEW k \in Nat, k \in S PROVE k + 1 \in S
    <3> SUFFICES ASSUME NEW n \in D, Len(n) <= k + 1 PROVE Longest(N, Append(n, x), f[n])
      OBVIOUS
    <3>1. \A m \in D : Len(m) < Len(n) => Len(m) <= k
      BY <2>3
    <3> QED BY <2>2, <2>5, <3>1
  <2>6. \A k \in Nat : k \in S
    <3> HIDE DEF S
    <3> QED BY <2>4, <2>5, SetInduction
  <2> QED BY <2>3, <2>6
<1> QED BY <1>5, <1>6

-----------------------------------------------------------------------------
(* The children of a node in the order of their bytes.                     *)

(* Finitely many numbers can be written in rising order. *)
LEMMA SortedExists ==
  ASSUME NEW n \in Nat, NEW S, S \subseteq 0 .. n, IsFiniteSet(S)
  PROVE  \E f \in [1 .. Cardinality(S) -> S] :
           \A j, k \in 1 .. Cardinality(S) : j < k => f[j] < f[k]
<1> DEFINE Sorted(T) == \E f \in [1 .. Cardinality(T) -> T] :
                          \A j, k \in 1 .. Cardinality(T) : j < k => f[j] < f[k]
           Good == {c \in Nat : \A T \in SUBSET (0 .. n) : IsFiniteSet(T) /\ Cardinality(T) = c => Sorted(T)}
<1>1. 0 \in Good
  <2> SUFFICES ASSUME NEW T \in SUBSET (0 .. n), Cardinality(T) = 0 PROVE Sorted(T)
    OBVIOUS
  <2> DEFINE f == [k \in 1 .. 0 |-> 0]
  <2>1. f \in [1 .. Cardinality(T) -> T]
    OBVIOUS
  <2>2. \A j, k \in 1 .. Cardinality(T) : j < k => f[j] < f[k]
    OBVIOUS
  <2> QED BY <2>1, <2>2
<1>2. ASSUME NEW c \in Nat, c \in Good PROVE c + 1 \in Good
  <2> SUFFICES ASSUME NEW T \in SUBSET (0 .. n), IsFiniteSet(T), Cardinality(T) = c + 1 PROVE Sorted(T)
    OBVIOUS
  <2>0. \A y \in T : y \in Nat
    OBVIOUS
  <2>1. T # {}
    BY FS_EmptySet
  <2>2. PICK x \in T : \A y \in T : y <= x
    BY <2>1, LargestExists
  <2> DEFINE U == T \ {x}
  <2>3. IsFiniteSet(U) /\ Cardinality(U) = c /\ U \in SUBSET (0 .. n)
    <3>1. IsFiniteSet(U) /\ Cardinality(U) = Cardinality(T) - 1
      BY FS_RemoveElement
    <3> QED BY <3>1
  <2>4. Sorted(U)
    BY <1>2, <2>3
  <2>5. PICK f \in [1 .. c -> U] : \A j, k \in 1 .. c : j < k => f[j] < f[k]
    BY <2>3, <2>4
  <2> DEFINE g == [k \in 1 .. c + 1 |-> IF k = c + 1 THEN x ELSE f[k]]
  <2>6. ASSUME NEW k \in 1 .. c + 1, k # c + 1 PROVE k \in 1 .. c /\ f[k] \in U /\ g[k] = f[k]
    <3>1. k \in 1 .. c
      BY <2>6
    <3> QED BY <2>5, <2>6, <3>1
  <2>7. g \in [1 .. c + 1 -> T]
    <3>1. \A k \in 1 .. c + 1 : g[k] \in T
      BY <2>6
    <3> QED BY <3>1
  <2>8. ASSUME NEW j \in 1 .. c + 1, NEW k \in 1 .. c + 1, j < k PROVE g[j] < g[k]
    <3>1. j # c + 1
      BY <2>8
    <3>2. CASE k = c + 1
      <4>1. g[j] \in U /\ g[k] = x
        BY <2>6, <3>1, <3>2
      <4> HIDE DEF g
      <4>2. g[j] \in T /\ x \in T /\ g[j] # x
        BY <4>1
      <4>3. g[j] \in Nat /\ x \in Nat /\ g[j] <= x
        BY <2>0, <2>2, <4>2
      <4> QED BY <4>1, <4>2, <4>3
    <3>3. CASE k # c + 1
      BY <2>5, <2>6, <2>8, <3>1, <3>3
    <3> QED BY <3>2, <3>3
  <2> HIDE DEF g
  <2> QED BY <2>7, <2>8
<1>3. \A c \in Nat : c \in Good
  <2> HIDE DEF Good
  <2> QED BY <1>1, <1>2, SetInduction
<1>4. Cardinality(S) \in Nat
  BY FS_CardinalityType
<1> QED BY <1>3, <1>4

(* A child is its parent with one more byte, by which it is known. *)
LEMMA ChildFacts ==
  ASSUME IsTree(Nodes), NEW n \in Nodes
  PROVE  /\ ChildSet(n) \subseteq Nodes
         /\ \A m \in ChildSet(n) : /\ m \in Seq(Bytes) /\ Byte(m) \in Bytes /\ m = Append(n, Byte(m))
                                   /\ Len(m) = Len(n) + 1 /\ m # Root
         /\ \A byte \in Bytes : Append(n, byte) \in Nodes =>
              Append(n, byte) \in ChildSet(n) /\ Byte(Append(n, byte)) = byte
<1>1. n \in Seq(Bytes)
  BY DEF IsTree
<1>2. \A byte \in Bytes : /\ Append(n, byte) \in Seq(Bytes) /\ Byte(Append(n, byte)) = byte
                          /\ Len(Append(n, byte)) = Len(n) + 1 /\ Append(n, byte) # Root
  BY <1>1, AppendUnique DEF Byte, Root
<1> QED BY <1>2 DEF ChildSet

(* A node is the child of one node only. *)
LEMMA ParentUnique ==
  ASSUME IsTree(Nodes), NEW m \in Nodes, NEW n \in Nodes, NEW c \in ChildSet(m), c \in ChildSet(n)
  PROVE  m = n
<1>1. m \in Seq(Bytes) /\ n \in Seq(Bytes)
  BY DEF IsTree
<1>2. c = Append(m, Byte(c)) /\ c = Append(n, Byte(c)) /\ Byte(c) \in Bytes
  BY ChildFacts
<1> HIDE DEF ChildSet
<1> QED BY <1>1, <1>2, AppendUnique

(* the children in a row: each of them once *)
Lined(q, S) ==
  /\ IsSeq(q)
  /\ \A k \in 1 .. Len(q) : q[k] \in S
  /\ \A j, k \in 1 .. Len(q) : q[j] = q[k] => j = k
  /\ \A n \in S : \E k \in 1 .. Len(q) : q[k] = n

(* The order in which Children lists them exists: a sequence of all        *)
(* children, without repetition.                                           *)
LEMMA ChildrenInOrder ==
  ASSUME IsTree(Nodes), IsFiniteSet(Nodes), NEW n \in Nodes
  PROVE  Lined(Children(n), ChildSet(n))
<1> DEFINE C == ChildSet(n)
           B == {Byte(m) : m \in C}
           c == Cardinality(C)
           Rising(order) == \A j, k \in 1 .. c : j < k => Byte(order[j]) < Byte(order[k])
<1>1. C \subseteq Nodes /\ \A m \in C : Byte(m) \in Bytes /\ m = Append(n, Byte(m))
  BY ChildFacts
<1>2. IsFiniteSet(C)
  BY <1>1, FS_Subset
<1>3. c \in Nat
  BY <1>2, FS_CardinalityType
<1> HIDE DEF C
<1>4. B \subseteq 0 .. NumBytes /\ NumBytes \in Nat
  BY <1>1, ByteAssumption DEF Bytes
<1> DEFINE byteOf == [m \in C |-> Byte(m)]
<1>5. byteOf \in Bijection(C, B)
  <2>1. byteOf \in [C -> B] /\ \A b \in B : \E m \in C : byteOf[m] = b
    OBVIOUS
  <2>2. \A l, m \in C : byteOf[l] = byteOf[m] => l = m
    BY <1>1
  <2> HIDE DEF byteOf, B
  <2> QED BY <2>1, <2>2 DEF Bijection, Injection, Surjection, IsInjective
<1>6. IsFiniteSet(B) /\ Cardinality(B) = c
  <2>1. ExistsBijection(C, B)
    BY <1>5 DEF ExistsBijection
  <2> HIDE DEF B
  <2> QED BY <1>2, <2>1, FS_Bijection
<1>7. PICK f \in [1 .. c -> B] : \A j, k \in 1 .. c : j < k => f[j] < f[k]
  <2> HIDE DEF B, c
  <2> QED BY <1>4, <1>6, SortedExists
<1> HIDE DEF B
<1>8. \A k \in 1 .. c : f[k] \in B
  BY <1>7
<1> USE DEF B
<1>9. \A b \in B : b \in Bytes /\ Append(n, b) \in C /\ Byte(Append(n, b)) = b
  BY <1>1
<1> HIDE DEF B
<1> DEFINE g == [k \in 1 .. c |-> Append(n, f[k])]
           order == Children(n)
<1>10. g \in [1 .. c -> C] /\ Rising(g)
  <2>1. g \in [1 .. c -> C]
    BY <1>8, <1>9
  <2>2. \A k \in 1 .. c : Byte(g[k]) = f[k]
    BY <1>8, <1>9
  <2> HIDE DEF g
  <2> QED BY <1>7, <2>1, <2>2
<1> HIDE DEF g
<1>11. order = CHOOSE o \in [1 .. c -> C] : Rising(o)
  BY DEF Children, C
<1>12. order \in [1 .. c -> C] /\ Rising(order)
  <2> HIDE DEF order
  <2> QED BY <1>10, <1>11
<1> HIDE DEF order
<1>13. IsSeq(order) /\ Len(order) = c
  <2>1. order \in Seq(C)
    BY <1>3, <1>12
  <2> QED BY <1>3, <1>12, <2>1 DEF IsSeq
<1>14. ASSUME NEW j \in 1 .. c, NEW k \in 1 .. c, order[j] = order[k] PROVE j = k
  <2>1. order[j] \in C
    BY <1>12
  <2>2. Byte(order[j]) \in Nat /\ Byte(order[j]) = Byte(order[k])
    BY <1>1, <1>14, <2>1, ByteAssumption DEF Bytes
  <2>3. ~(j < k) /\ ~(k < j)
    BY <1>12, <2>2
  <2> QED BY <1>3, <2>3
<1>15. order \in Injection(1 .. c, C)
  BY <1>12, <1>14 DEF Injection, IsInjective
<1>16. order \in Surjection(1 .. c, C)
  <2>1. Cardinality(1 .. c) = c
    BY <1>3, FS_Interval
  <2> HIDE DEF c
  <2>2. c = Cardinality(C)
    BY DEF c
  <2> QED BY <1>2, <1>15, <2>1, <2>2, FS_Injection
<1>17. \A m \in C : \E k \in 1 .. c : order[k] = m
  BY <1>16 DEF Surjection
<1>18. Lined(order, C)
  BY <1>12, <1>13, <1>14, <1>17 DEF Lined
<1> QED BY <1>18 DEF order, C

-----------------------------------------------------------------------------
(* The trie has the beginnings of the words that were added.               *)

Beginnings(k) ==
  {n \in Seq(Bytes) : \/ n = Root
                      \/ \E id \in 0 .. k - 1 : Len(n) <= Len(words[id]) /\ SubSeq(words[id], 1, Len(n)) = n}

WordsOK == \A id \in DOMAIN words : words[id] \in Seq(Bytes) \ {<<>>}

TrieInv ==
  /\ pc \in {"add", "search", "pack", "ready"}
  /\ \E n \in 1 .. UINT32_MAX : DOMAIN words = 0 .. n - 1 /\ added \in 0 .. n /\ (pc # "add" => added = n)
  /\ WordsOK
  /\ Nodes = Beginnings(added)
  /\ IsFiniteSet(Nodes)
  /\ \A n \in Nodes : trie[n] # AC_INVALID_TOKEN => trie[n] \in 0 .. added - 1 /\ words[trie[n]] = n
  /\ \A id \in 0 .. added - 1 : trie[words[id]] # AC_INVALID_TOKEN

(* The first k bytes of a word. *)
LEMMA PrefixOfWord ==
  ASSUME NEW word \in Seq(Bytes), NEW k \in 0 .. Len(word)
  PROVE  SubSeq(word, 1, k) \in Seq(Bytes) /\ Len(SubSeq(word, 1, k)) = k
<1>1. Len(word) \in Nat /\ \A j \in 1 .. Len(word) : word[j] \in Bytes
  BY LenProperties, ElementOfSeq
<1>2. k \in Nat /\ \A j \in 1 .. k : word[j] \in Bytes
  BY <1>1
<1>3. /\ SubSeq(word, 1, k) \in Seq(Bytes)
      /\ Len(SubSeq(word, 1, k)) = IF 1 <= k THEN k - 1 + 1 ELSE 0
  BY <1>2, SubSeqProperties
<1> QED BY <1>2, <1>3

(* The beginnings of any of the words are a tree. *)
LEMMA BeginningsTree ==
  ASSUME WordsOK, NEW k \in Nat, 0 .. k - 1 \subseteq DOMAIN words
  PROVE  IsTree(Beginnings(k))
<1>1. Beginnings(k) \subseteq Seq(Bytes) /\ Root \in Beginnings(k)
  BY RootFacts DEF Beginnings
<1>2. ASSUME NEW n \in Seq(Bytes), NEW byte \in Bytes, Append(n, byte) \in Beginnings(k)
      PROVE  n \in Beginnings(k)
  <2> DEFINE c == Append(n, byte)
  <2>1. c # Root /\ c \in Seq(Bytes) /\ Len(c) = Len(n) + 1 /\ Len(n) \in Nat
        /\ \A j \in 1 .. Len(n) : c[j] = n[j]
    BY AppendUnique, AppendProperties, LenProperties DEF Root
  <2>2. PICK id \in 0 .. k - 1 : Len(c) <= Len(words[id]) /\ SubSeq(words[id], 1, Len(c)) = c
    BY <1>2, <2>1 DEF Beginnings
  <2>3. words[id] \in Seq(Bytes)
    BY DEF WordsOK
  <2> HIDE DEF c
  <2>4. IsSeq(words[id]) /\ IsSeq(n) /\ Len(words[id]) \in Nat
    BY <2>3, LenProperties DEF IsSeq
  <2>5. \A j \in 1 .. Len(c) : words[id][j] = c[j]
    <3>1. Len(c) \in 0 .. Len(words[id])
      BY <2>1, <2>2, <2>4
    <3> QED BY <2>2, <2>4, <3>1, PrefixFacts
  <2>6. \A j \in 1 .. Len(n) : words[id][j] = n[j]
    BY <2>1, <2>5
  <2>7. Len(n) <= Len(words[id])
    BY <2>1, <2>2, <2>4
  <2>8. SubSeq(words[id], 1, Len(n)) = SubSeq(n, 1, Len(n))
    BY <2>1, <2>4, <2>6, <2>7, SamePrefix
  <2>9. SubSeq(n, 1, Len(n)) = n
    BY SubSeqFull
  <2> QED BY <2>7, <2>8, <2>9 DEF Beginnings
<1> QED BY <1>1, <1>2 DEF IsTree

AllAdded == added = Cardinality(DOMAIN words)

(* What the later phases know of the trie: it is a finite tree, and when   *)
(* all words are added its nodes are the beginnings of the words, those    *)
(* with a token the words.                                                 *)
LEMMA TrieFacts ==
  ASSUME TrieInv
  PROVE  /\ IsTree(Nodes) /\ IsFiniteSet(Nodes)
         /\ AreWords(words, Bytes)
         /\ \A id \in DOMAIN words : Len(words[id]) \in Nat \ {0} /\ id # AC_INVALID_TOKEN
         /\ pc # "add" => AllAdded
         /\ AllAdded =>
              /\ \A n \in Seq(Bytes) : n \in Nodes <=> n = Root \/ IsBeginning(words, n)
              /\ \A id \in DOMAIN words : words[id] \in Nodes /\ trie[words[id]] # AC_INVALID_TOKEN
              /\ \A n \in Nodes : trie[n] # AC_INVALID_TOKEN => trie[n] \in DOMAIN words /\ words[trie[n]] = n
              /\ ChildSet(Root) # {}
<1>1. PICK n \in 1 .. UINT32_MAX : /\ DOMAIN words = 0 .. n - 1 /\ added \in 0 .. n
                                   /\ pc # "add" => added = n
  BY DEF TrieInv
<1>2. added \in Nat /\ 0 .. added - 1 \subseteq DOMAIN words
  BY <1>1, Uint32MaxAssumption
<1>3. IsTree(Nodes) /\ IsFiniteSet(Nodes)
  BY <1>2, BeginningsTree DEF TrieInv
<1>4. AreWords(words, Bytes)
  BY DEF TrieInv, WordsOK, AreWords
<1>5. \A id \in DOMAIN words : Len(words[id]) \in Nat \ {0} /\ id # AC_INVALID_TOKEN
  <2> TAKE id \in DOMAIN words
  <2>1. words[id] \in Seq(Bytes) /\ words[id] # <<>>
    BY DEF TrieInv, WordsOK
  <2>2. Len(words[id]) \in Nat \ {0}
    BY <2>1, EmptySeq
  <2> QED BY <1>1, <2>2, Uint32MaxAssumption DEF AC_INVALID_TOKEN
<1>6. Cardinality(DOMAIN words) = n
  BY <1>1, Uint32MaxAssumption, FS_Interval
<1>7. ASSUME AllAdded
      PROVE  /\ \A m \in Seq(Bytes) : m \in Nodes <=> m = Root \/ IsBeginning(words, m)
             /\ \A id \in DOMAIN words : words[id] \in Nodes /\ trie[words[id]] # AC_INVALID_TOKEN
             /\ \A m \in Nodes : trie[m] # AC_INVALID_TOKEN => trie[m] \in DOMAIN words /\ words[trie[m]] = m
             /\ ChildSet(Root) # {}
  <2>1. DOMAIN words = 0 .. added - 1
    BY <1>1, <1>7, <1>6 DEF AllAdded
  <2>2. \A m \in Seq(Bytes) : m \in Nodes <=> m = Root \/ IsBeginning(words, m)
    BY <2>1 DEF TrieInv, Beginnings, IsBeginning
  <2>3. ASSUME NEW id \in DOMAIN words PROVE words[id] \in Nodes /\ trie[words[id]] # AC_INVALID_TOKEN
    <3>1. words[id] \in Seq(Bytes)
      BY DEF TrieInv, WordsOK
    <3>2. SubSeq(words[id], 1, Len(words[id])) = words[id] /\ Len(words[id]) <= Len(words[id])
      BY <1>5, <3>1, SubSeqFull
    <3>3. IsBeginning(words, words[id])
      BY <3>2 DEF IsBeginning
    <3> QED BY <2>1, <2>2, <3>1, <3>3 DEF TrieInv
  <2>4. \A m \in Nodes : trie[m] # AC_INVALID_TOKEN => trie[m] \in DOMAIN words /\ words[trie[m]] = m
    BY <2>1 DEF TrieInv
  <2>5. ChildSet(Root) # {}
    <3> DEFINE w == words[0]
               b == SubSeq(w, 1, 1)
    <3>1. 0 \in DOMAIN words
      BY <1>1, Uint32MaxAssumption
    <3>2. w \in Seq(Bytes) /\ Len(w) \in Nat \ {0}
      BY <1>5, <3>1 DEF TrieInv, WordsOK
    <3>3. 1 \in 0 .. Len(w) /\ 1 <= Len(w)
      BY <3>2
    <3> HIDE DEF w
    <3>4. b \in Seq(Bytes) /\ Len(b) = 1
      BY <3>2, <3>3, PrefixOfWord
    <3>5. b \in Nodes
      <4>1. IsBeginning(words, b)
        BY <3>1, <3>3, <3>4 DEF IsBeginning, w
      <4> HIDE DEF b
      <4> QED BY <2>2, <3>4, <4>1
    <3> HIDE DEF b
    <3>6. b # <<>>
      BY <3>4, EmptySeq
    <3>7. PICK f \in Seq(Bytes), x \in Bytes : b = Append(f, x) /\ Len(b) = Len(f) + 1 /\ Len(f) \in Nat
      BY <3>4, <3>6, FrontAndLast
    <3>8. f = Root
      BY <3>4, <3>7, RootFacts
    <3> QED BY <3>5, <3>7, <3>8 DEF ChildSet
  <2> QED BY <2>2, <2>3, <2>4, <2>5
<1> QED BY <1>1, <1>3, <1>4, <1>5, <1>7, <1>6 DEF AllAdded

(* a word read backwards *)
LEMMA BackwardsWord ==
  ASSUME NEW word \in Seq(Bytes), word # <<>>
  PROVE  Backwards(word) \in Seq(Bytes) \ {<<>>}
<1> DEFINE n == Len(word)
           back == [k \in 1 .. n |-> word[n + 1 - k]]
<1>1. n \in Nat \ {0} /\ \A k \in 1 .. n : word[k] \in Bytes
  BY EmptySeq, ElementOfSeq
<1> HIDE DEF n
<1>2. back \in Seq(Bytes) /\ Len(back) = n
  <2>1. \A k \in 1 .. n : n + 1 - k \in 1 .. n
    BY <1>1
  <2>2. back \in [1 .. n -> Bytes]
    BY <1>1, <2>1
  <2> QED BY <1>1, <2>2
<1>3. back # <<>>
  <2> HIDE DEF back
  <2> QED BY <1>1, <1>2, EmptySeq
<1> QED BY <1>2, <1>3 DEF Backwards, n

(* At first the trie has the root only. *)
LEMMA TrieInit == Init => TrieInv
<1> SUFFICES ASSUME Init PROVE TrieInv
  OBVIOUS
<1>1. PICK vocab \in Vocabularies : words \in {vocab, [id \in DOMAIN vocab |-> Backwards(vocab[id])]}
  BY DEF Init
<1>2. PICK n \in 1 .. UINT32_MAX : DOMAIN vocab = 0 .. n - 1
  BY VocabularyAssumption
<1>3. \A id \in DOMAIN vocab : vocab[id] \in Seq(Bytes) /\ vocab[id] # <<>>
  BY VocabularyAssumption
<1>4. DOMAIN words = 0 .. n - 1
  BY <1>1, <1>2
<1>5. WordsOK
  BY <1>1, <1>3, BackwardsWord DEF WordsOK
<1>6. Nodes = {Root} /\ added = 0 /\ pc = "add"
  BY DEF Init, Nodes
<1>7. Beginnings(0) = {Root}
  <2>1. ~\E id : id \in 0 .. 0 - 1
    OBVIOUS
  <2> QED BY <2>1, RootFacts DEF Beginnings
<1>8. IsFiniteSet({Root})
  BY FS_Singleton
<1>9. trie[Root] = AC_INVALID_TOKEN
  BY DEF Init
<1>10. \E n1 \in 1 .. UINT32_MAX : DOMAIN words = 0 .. n1 - 1 /\ added \in 0 .. n1
  BY <1>4, <1>6, Uint32MaxAssumption
<1> QED BY <1>5, <1>6, <1>7, <1>8, <1>9, <1>10 DEF TrieInv

(* ac_builder_add is the only action that changes the trie. *)
LEMMA TrieStep == TrieInv /\ [Next]_vars => TrieInv'
<1> SUFFICES ASSUME TrieInv, [Next]_vars PROVE TrieInv'
  OBVIOUS
<1>1. PICK n \in 1 .. UINT32_MAX : /\ DOMAIN words = 0 .. n - 1 /\ added \in 0 .. n
                                   /\ pc # "add" => added = n
  BY DEF TrieInv
<1>2. Cardinality(DOMAIN words) = n
  BY <1>1, Uint32MaxAssumption, FS_Interval
<1>3. CASE Add
  <2> DEFINE word == words[added]
             more == {SubSeq(word, 1, k) : k \in 0 .. Len(word)}
  <2>1. /\ pc = "add" /\ added < n /\ trie' = Inserted(word, added) /\ added' = added + 1
        /\ UNCHANGED <<words, pc>>
    BY <1>2, <1>3 DEF Add
  <2>2. added \in DOMAIN words /\ added \in Nat /\ added' \in 0 .. n
    BY <1>1, <2>1, Uint32MaxAssumption
  <2>3. word \in Seq(Bytes) /\ word # <<>> /\ Len(word) \in Nat /\ SubSeq(word, 1, Len(word)) = word
    BY <2>2, LenProperties, SubSeqFull DEF TrieInv, WordsOK
  <2>4. DOMAIN trie' = Nodes \cup more
    BY <2>1 DEF Inserted
  <2>5. Nodes' = Nodes \cup more
    BY <2>4 DEF Nodes
  <2>6. \A id : id \in 0 .. added' - 1 <=> id \in 0 .. added - 1 \/ id = added
    BY <2>1, <2>2
  <2>7. Nodes' = Beginnings(added)'
    <3>1. ASSUME NEW m \in more PROVE m \in Beginnings(added)'
      <4>1. PICK k \in 0 .. Len(word) : m = SubSeq(word, 1, k)
        BY <3>1
      <4> HIDE DEF word, more
      <4>2. m \in Seq(Bytes) /\ Len(m) = k /\ k <= Len(word)
        BY <2>3, <4>1, PrefixOfWord
      <4>3. Len(m) <= Len(words'[added]) /\ SubSeq(words'[added], 1, Len(m)) = m
        BY <2>1, <4>1, <4>2 DEF word
      <4> QED BY <2>6, <4>2, <4>3 DEF Beginnings
    <3>2. \A m \in Nodes : m \in Beginnings(added)'
      BY <2>1, <2>6 DEF TrieInv, Beginnings
    <3>3. ASSUME NEW m \in Beginnings(added)' PROVE m \in Nodes \cup more
      <4>1. CASE m \in Beginnings(added)
        BY <4>1 DEF TrieInv
      <4>2. CASE m \notin Beginnings(added)
        <5>1. m \in Seq(Bytes) /\ m # Root
          BY <3>3, <4>2 DEF Beginnings
        <5>2. PICK id \in 0 .. added' - 1 : Len(m) <= Len(words[id]) /\ SubSeq(words[id], 1, Len(m)) = m
          BY <2>1, <3>3, <5>1 DEF Beginnings
        <5>3. id = added
          BY <2>6, <4>2, <5>1, <5>2 DEF Beginnings
        <5>4. Len(m) \in 0 .. Len(word) /\ SubSeq(word, 1, Len(m)) = m
          BY <2>3, <5>1, <5>2, <5>3, LenProperties
        <5> QED BY <5>4
      <4> QED BY <4>1, <4>2
    <3> QED BY <2>5, <3>1, <3>2, <3>3
  <2>8. IsFiniteSet(Nodes')
    <3> DEFINE length == 0 .. Len(word)
    <3>1. IsFiniteSet(length)
      BY <2>3, FS_Interval
    <3>2. IsFiniteSet(more)
      <4> DEFINE f == [k \in length |-> SubSeq(word, 1, k)]
      <4>1. f \in [length -> more] /\ \A m \in more : \E k \in length : f[k] = m
        OBVIOUS
      <4>2. f \in Surjection(length, more)
        <5> HIDE DEF f, more, length
        <5> QED BY <4>1 DEF Surjection
      <4> HIDE DEF f, more, length
      <4> QED BY <3>1, <4>2, FS_Surjection
    <3> HIDE DEF more
    <3> QED BY <2>5, <3>2, FS_Union DEF TrieInv
  <2>9. word \in Nodes'
    <3>1. word \in more
      BY <2>3
    <3> QED BY <2>5, <3>1
  <2>10. \A m \in Nodes' :
           trie'[m] = IF m \in Nodes /\ (m # word \/ trie[m] # AC_INVALID_TOKEN) THEN trie[m]
                      ELSE IF m = word THEN added ELSE AC_INVALID_TOKEN
    BY <2>1, <2>5 DEF Inserted
  <2> HIDE DEF word, more
  <2>11. \A m \in Nodes' : trie'[m] # AC_INVALID_TOKEN => trie'[m] \in 0 .. added' - 1 /\ words'[trie'[m]] = m
    <3> SUFFICES ASSUME NEW m \in Nodes', trie'[m] # AC_INVALID_TOKEN
                 PROVE  trie'[m] \in 0 .. added' - 1 /\ words'[trie'[m]] = m
      OBVIOUS
    <3>1. CASE m \in Nodes /\ trie'[m] = trie[m]
      BY <2>1, <2>6, <3>1 DEF TrieInv
    <3>2. CASE m = word /\ trie'[m] = added
      BY <2>1, <2>6, <3>2 DEF word
    <3> QED BY <2>10, <3>1, <3>2
  <2>12. \A id \in 0 .. added' - 1 : trie'[words'[id]] # AC_INVALID_TOKEN
    <3> SUFFICES ASSUME NEW id \in 0 .. added' - 1 PROVE trie'[words[id]] # AC_INVALID_TOKEN
      BY <2>1
    <3>1. added # AC_INVALID_TOKEN
      BY <1>1, <2>1, <2>2, Uint32MaxAssumption DEF AC_INVALID_TOKEN
    <3>2. trie'[word] # AC_INVALID_TOKEN
      BY <2>9, <2>10, <3>1
    <3>3. CASE id = added
      BY <3>2, <3>3 DEF word
    <3>4. CASE id \in 0 .. added - 1
      <4>1. id \in DOMAIN words
        BY <1>1, <2>1, <3>4, Uint32MaxAssumption
      <4>2. words[id] \in Seq(Bytes)
        BY <4>1 DEF TrieInv, WordsOK
      <4>3. Len(words[id]) <= Len(words[id]) /\ SubSeq(words[id], 1, Len(words[id])) = words[id]
        BY <4>2, SubSeqFull, LenProperties
      <4>4. words[id] \in Nodes
        BY <3>4, <4>2, <4>3 DEF TrieInv, Beginnings
      <4>5. trie[words[id]] # AC_INVALID_TOKEN
        BY <3>4 DEF TrieInv
      <4> QED BY <2>5, <2>10, <4>4, <4>5
    <3> QED BY <2>6, <3>3, <3>4
  <2>13. \E n1 \in 1 .. UINT32_MAX : DOMAIN words' = 0 .. n1 - 1 /\ added' \in 0 .. n1 /\ (pc' # "add" => added' = n1)
    BY <1>1, <2>1, <2>2
  <2>14. WordsOK' /\ pc' \in {"add", "search", "pack", "ready"}
    BY <2>1 DEF TrieInv, WordsOK
  <2> QED BY <2>7, <2>8, <2>11, <2>12, <2>13, <2>14 DEF TrieInv
<1>4. CASE ~Add
  <2>1. /\ UNCHANGED <<words, added, trie>>
        /\ pc' \in {"add", "search", "pack", "ready"}
        /\ pc' # "add" => added = n
    <3>1. CASE StartSearch
      BY <1>2, <3>1 DEF StartSearch
    <3>2. CASE Visit
      BY <1>1, <3>2 DEF Visit
    <3>3. CASE StartPack
      BY <1>1, <3>3 DEF StartPack
    <3>4. CASE Pack
      BY <1>1, <3>4 DEF Pack
    <3>5. CASE PackLeaf
      BY <1>1, <3>5 DEF PackLeaf
    <3>6. CASE Assemble
      BY <1>1, <3>6 DEF Assemble
    <3>7. CASE \E byte \in ReadBytes : Read(byte)
      BY <1>1, <3>7 DEF Read, build, TrieInv
    <3>8. CASE UNCHANGED vars
      BY <1>1, <3>8 DEF vars, build, TrieInv
    <3> QED BY <1>4, <3>1, <3>2, <3>3, <3>4, <3>5, <3>6, <3>7, <3>8 DEF Next
  <2>2. Nodes' = Nodes /\ Beginnings(added)' = Beginnings(added) /\ WordsOK' = WordsOK
    BY <2>1 DEF Nodes, Beginnings, WordsOK
  <2>3. \E n1 \in 1 .. UINT32_MAX : DOMAIN words' = 0 .. n1 - 1 /\ added' \in 0 .. n1 /\ (pc' # "add" => added' = n1)
    BY <1>1, <2>1
  <2> QED BY <2>1, <2>2, <2>3 DEF TrieInv
<1> QED BY <1>3, <1>4

-----------------------------------------------------------------------------
(* The chains of outputs.                                                  *)

ChainsOf(outs, f) ==
  f = [o \in 0 .. Len(outs) |-> IF o = 0 THEN <<>> ELSE <<outs[o]>> \o f[outs[o].next]]

(* the links of the chains lead to cells that were there before *)
Linked(outs) == IsSeq(outs) /\ \A o \in 1 .. Len(outs) : outs[o].next \in 0 .. o - 1

(* With one more cell, whose link leads to an older one, the old chains    *)
(* are what they were, and the new one is the cell before the chain it     *)
(* leads to.                                                               *)
LEMMA ChainsGrow ==
  ASSUME NEW outs, Linked(outs), NEW cell, cell.next \in 0 .. Len(outs)
  PROVE  /\ Linked(Append(outs, cell)) /\ Len(Append(outs, cell)) = Len(outs) + 1 /\ Len(outs) \in Nat
         /\ (\E f : ChainsOf(outs, f)) => \E g : ChainsOf(Append(outs, cell), g)
         /\ \A g : ChainsOf(Append(outs, cell), g) =>
              \E f : /\ ChainsOf(outs, f)
                     /\ \A o \in 0 .. Len(outs) : g[o] = f[o]
                     /\ g[Len(outs) + 1] = <<cell>> \o f[cell.next]
<1> DEFINE n    == Len(outs)
           more == Append(outs, cell)
<1>1. /\ IsSeq(more) /\ Len(more) = n + 1 /\ n \in Nat /\ more[n + 1] = cell
      /\ \A o \in 1 .. n : more[o] = outs[o]
  BY AppendFacts, SeqFacts DEF Linked
<1> HIDE DEF more
<1>2. ASSUME NEW o \in 1 .. n + 1 PROVE o = n + 1 \/ o \in 1 .. n
  BY <1>1
<1>3. Linked(more)
  <2> SUFFICES ASSUME NEW o \in 1 .. n + 1 PROVE more[o].next \in 0 .. o - 1
    BY <1>1 DEF Linked
  <2>1. CASE o = n + 1
    BY <1>1, <2>1
  <2>2. CASE o \in 1 .. n
    BY <1>1, <2>2 DEF Linked
  <2> QED BY <1>2, <2>1, <2>2
<1>4. ASSUME NEW f, ChainsOf(outs, f) PROVE \E g : ChainsOf(more, g)
  <2> DEFINE g == [o \in 0 .. n + 1 |-> IF o = n + 1 THEN <<cell>> \o f[cell.next] ELSE f[o]]
  <2>1. \A o \in 0 .. n : f[o] = IF o = 0 THEN <<>> ELSE <<outs[o]>> \o f[outs[o].next]
    BY <1>4 DEF ChainsOf
  <2>2. \A o \in 0 .. n : o # n + 1 /\ o \in 0 .. n + 1 /\ g[o] = f[o]
    BY <1>1
  <2>3. n + 1 \in 0 .. n + 1 /\ g[n + 1] = <<cell>> \o f[cell.next] /\ n + 1 # 0
    BY <1>1
  <2>4. g = [o \in 0 .. n + 1 |-> g[o]]
    OBVIOUS
  <2> HIDE DEF g
  <2>5. ASSUME NEW o \in 0 .. n + 1
        PROVE  g[o] = IF o = 0 THEN <<>> ELSE <<more[o]>> \o g[more[o].next]
    <3>1. CASE o = n + 1
      BY <1>1, <2>2, <2>3, <3>1
    <3>2. CASE o = 0
      <4>1. o \in 0 .. n
        BY <1>1, <3>2
      <4> QED BY <2>1, <2>2, <3>2, <4>1
    <3>3. CASE o \in 1 .. n
      <4>1. more[o] = outs[o] /\ outs[o].next \in 0 .. n /\ o \in 0 .. n /\ o # 0
        BY <1>1, <3>3 DEF Linked
      <4> QED BY <2>1, <2>2, <4>1
    <3>4. o = n + 1 \/ o = 0 \/ o \in 1 .. n
      BY <1>1
    <3> QED BY <3>1, <3>2, <3>3, <3>4
  <2>6. g = [o \in 0 .. Len(more) |-> IF o = 0 THEN <<>> ELSE <<more[o]>> \o g[more[o].next]]
    BY <1>1, <2>4, <2>5
  <2> QED BY <2>6 DEF ChainsOf
<1>5. ASSUME NEW g, ChainsOf(more, g)
      PROVE  \E f : /\ ChainsOf(outs, f)
                    /\ \A o \in 0 .. n : g[o] = f[o]
                    /\ g[n + 1] = <<cell>> \o f[cell.next]
  <2> DEFINE f == [o \in 0 .. n |-> g[o]]
  <2>1. \A o \in 0 .. n + 1 : g[o] = IF o = 0 THEN <<>> ELSE <<more[o]>> \o g[more[o].next]
    BY <1>1, <1>5 DEF ChainsOf
  <2>2. \A o \in 0 .. n : f[o] = g[o] /\ o \in 0 .. n + 1
    BY <1>1
  <2>3. f = [o \in 0 .. n |-> f[o]]
    OBVIOUS
  <2> HIDE DEF f
  <2>4. ASSUME NEW o \in 0 .. n PROVE f[o] = IF o = 0 THEN <<>> ELSE <<outs[o]>> \o f[outs[o].next]
    <3>1. CASE o = 0
      BY <2>1, <2>2, <3>1
    <3>2. CASE o # 0
      <4>1. more[o] = outs[o] /\ outs[o].next \in 0 .. n
        BY <1>1, <3>2 DEF Linked
      <4> QED BY <2>1, <2>2, <3>2, <4>1
    <3> QED BY <3>1, <3>2
  <2>5. ChainsOf(outs, f)
    BY <2>3, <2>4 DEF ChainsOf
  <2>6. g[n + 1] = <<cell>> \o f[cell.next]
    <3>1. n + 1 \in 0 .. n + 1 /\ n + 1 # 0
      BY <1>1
    <3> QED BY <1>1, <2>1, <2>2, <3>1
  <2> QED BY <2>2, <2>5, <2>6
<1> QED BY <1>1, <1>3, <1>4, <1>5 DEF more

(* c names all of these words that end with node n, the longer ones first *)
MatchesIn(w, n, c) ==
  /\ IsSeq(c)
  /\ \A k \in 1 .. Len(c) : /\ c[k].token \in DOMAIN w
                            /\ IsEnd(w[c[k].token], n)
                            /\ c[k].start_offset = Len(w[c[k].token])
  /\ \A j, k \in 1 .. Len(c) : j < k => c[j].start_offset > c[k].start_offset
  /\ \A id \in DOMAIN w : IsEnd(w[id], n) => \E k \in 1 .. Len(c) : w[c[k].token] = w[id]

Matches(n, c) == MatchesIn(words, n, c)

(* The words that end with a node: the node itself, if it is one, and      *)
(* those that end with what its failure link leads to.                     *)
LEMMA MatchesNext ==
  ASSUME TrieInv, AllAdded, NEW n \in Nodes, NEW e, LongestProper(Nodes, n, e), NEW c, Matches(e, c)
  PROVE  /\ trie[n] = AC_INVALID_TOKEN => Matches(n, c)
         /\ \A cell : /\ trie[n] # AC_INVALID_TOKEN
                      /\ cell.token = trie[n] /\ cell.start_offset = Len(n)
                      => Matches(n, <<cell>> \o c)
<1>1. /\ n \in Seq(Bytes) /\ e \in Seq(Bytes) /\ IsEnd(e, n) /\ Len(e) < Len(n)
      /\ Len(e) \in Nat /\ Len(n) \in Nat
  BY TrieFacts, LenProperties DEF IsTree, LongestProper
<1>2. ASSUME NEW id \in DOMAIN words
      PROVE  /\ words[id] \in Seq(Bytes) /\ words[id] \in Nodes /\ Len(words[id]) \in Nat
             /\ IsEnd(words[id], n) <=> words[id] = n \/ IsEnd(words[id], e)
  <2>1. words[id] \in Seq(Bytes) /\ words[id] \in Nodes /\ Len(words[id]) \in Nat
    BY TrieFacts DEF AreWords
  <2>2. IsEnd(words[id], e) => IsEnd(words[id], n)
    BY <1>1, <2>1, EndTransitive
  <2>3. words[id] = n => IsEnd(words[id], n)
    BY <1>1, EndOfItself
  <2>4. ASSUME IsEnd(words[id], n), words[id] # n PROVE IsEnd(words[id], e)
    <3>1. Len(words[id]) <= Len(n) /\ IsEnd(n, n)
      BY <1>1, <2>4, EndOfItself DEF IsEnd
    <3>2. Len(words[id]) # Len(n)
      BY <1>1, <2>1, <2>4, <3>1, ShorterEnd
    <3>3. Len(words[id]) <= Len(e)
      BY <1>1, <2>1, <2>4, <3>1, <3>2 DEF LongestProper
    <3> QED BY <1>1, <2>1, <2>4, <3>3, ShorterEnd
  <2> QED BY <2>1, <2>2, <2>3, <2>4
<1>3. IsSeq(c) /\ Len(c) \in Nat
  BY SeqFacts DEF Matches, MatchesIn
<1>4. ASSUME trie[n] = AC_INVALID_TOKEN PROVE Matches(n, c)
  <2>1. \A id \in DOMAIN words : words[id] # n
    BY <1>4, TrieFacts
  <2>2. \A id \in DOMAIN words : IsEnd(words[id], n) <=> IsEnd(words[id], e)
    BY <1>2, <2>1
  <2> QED BY <2>2 DEF Matches, MatchesIn
<1>5. ASSUME NEW cell, trie[n] # AC_INVALID_TOKEN, cell.token = trie[n], cell.start_offset = Len(n)
      PROVE  Matches(n, <<cell>> \o c)
  <2> DEFINE one == <<cell>>
             d   == one \o c
  <2>1. IsSeq(one) /\ Len(one) = 1 /\ one[1] = cell
    <3>1. <<cell>> \in Seq({cell})
      OBVIOUS
    <3> QED BY <3>1 DEF IsSeq
  <2> HIDE DEF one
  <2>2. /\ IsSeq(d) /\ Len(d) = 1 + Len(c)
        /\ \A k \in 1 .. 1 : d[k] = one[k]
        /\ \A k \in 1 .. Len(c) : d[1 + k] = c[k]
    <3>1. /\ IsSeq(d) /\ Len(d) = Len(one) + Len(c)
          /\ \A k \in 1 .. Len(one) : d[k] = one[k]
          /\ \A k \in 1 .. Len(c) : d[Len(one) + k] = c[k]
      <4>1. IsSeq(one) /\ IsSeq(c)
        BY <1>3, <2>1
      <4> QED BY <4>1, ConcatFacts
    <3> HIDE DEF d
    <3> QED BY <2>1, <3>1
  <2> HIDE DEF d
  <2>3. d[1] = cell /\ \A k \in 1 .. Len(c) : d[1 + k] = c[k]
    BY <2>1, <2>2
  <2>4. \A k \in 1 .. Len(d) : k = 1 \/ \E j \in 1 .. Len(c) : k = 1 + j /\ d[k] = c[j]
    <3> SUFFICES ASSUME NEW k \in 1 .. Len(d), k # 1 PROVE \E j \in 1 .. Len(c) : k = 1 + j /\ d[k] = c[j]
      OBVIOUS
    <3>1. k - 1 \in 1 .. Len(c) /\ k = 1 + (k - 1)
      BY <1>3, <2>2
    <3> QED BY <2>3, <3>1
  <2>5. trie[n] \in DOMAIN words /\ words[trie[n]] = n
    BY <1>5, TrieFacts
  <2>6. ASSUME NEW k \in 1 .. Len(d)
        PROVE  /\ d[k].token \in DOMAIN words /\ IsEnd(words[d[k].token], n)
               /\ d[k].start_offset = Len(words[d[k].token])
    <3>1. CASE k = 1
      BY <1>1, <1>5, <2>3, <2>5, <3>1, EndOfItself
    <3>2. CASE \E j \in 1 .. Len(c) : k = 1 + j /\ d[k] = c[j]
      BY <1>2, <3>2 DEF Matches, MatchesIn
    <3> QED BY <2>4, <3>1, <3>2
  <2>7. ASSUME NEW j \in 1 .. Len(d), NEW k \in 1 .. Len(d), j < k
        PROVE  d[j].start_offset > d[k].start_offset
    <3>1. PICK l \in 1 .. Len(c) : k = 1 + l /\ d[k] = c[l]
      <4>1. k # 1
        BY <2>7
      <4> QED BY <2>4, <4>1
    <3>2. CASE j = 1
      <4>1. c[l].token \in DOMAIN words /\ IsEnd(words[c[l].token], e) /\ c[l].start_offset = Len(words[c[l].token])
        BY DEF Matches, MatchesIn
      <4>2. c[l].start_offset <= Len(e) /\ c[l].start_offset \in Nat
        BY <1>2, <4>1 DEF IsEnd
      <4>3. d[j].start_offset = Len(n)
        BY <1>5, <2>3, <3>2
      <4> QED BY <1>1, <3>1, <4>2, <4>3
    <3>3. CASE \E i \in 1 .. Len(c) : j = 1 + i /\ d[j] = c[i]
      <4>1. PICK i \in 1 .. Len(c) : j = 1 + i /\ d[j] = c[i]
        BY <3>3
      <4>2. i < l
        BY <1>3, <2>7, <3>1, <4>1
      <4> QED BY <3>1, <4>1, <4>2 DEF Matches, MatchesIn
    <3> QED BY <2>4, <3>2, <3>3
  <2>8. ASSUME NEW id \in DOMAIN words, IsEnd(words[id], n)
        PROVE  \E k \in 1 .. Len(d) : words[d[k].token] = words[id]
    <3>1. CASE words[id] = n
      <4>1. 1 \in 1 .. Len(d)
        BY <1>3, <2>2
      <4> QED BY <1>5, <2>3, <2>5, <3>1, <4>1
    <3>2. CASE IsEnd(words[id], e)
      <4>1. PICK k \in 1 .. Len(c) : words[c[k].token] = words[id]
        BY <3>2 DEF Matches, MatchesIn
      <4>2. 1 + k \in 1 .. Len(d)
        BY <1>3, <2>2
      <4> QED BY <2>3, <4>1, <4>2
    <3> QED BY <1>2, <2>8, <3>1, <3>2
  <2>9. Matches(n, d)
    BY <2>2, <2>6, <2>7, <2>8 DEF Matches, MatchesIn
  <2> QED BY <2>9 DEF d, one
<1> QED BY <1>4, <1>5

(* no word ends with the root *)
LEMMA RootMatches ==
  ASSUME TrieInv
  PROVE  Matches(Root, <<>>)
<1>1. ASSUME NEW id \in DOMAIN words PROVE ~IsEnd(words[id], Root)
  <2>1. Len(words[id]) \in Nat \ {0}
    BY TrieFacts
  <2> QED BY <2>1, RootFacts DEF IsEnd
<1> DEFINE none == <<>>
<1>2. IsSeq(none) /\ Len(none) = 0
  <2>1. <<>> \in Seq(Bytes)
    OBVIOUS
  <2> QED BY <2>1 DEF IsSeq
<1> HIDE DEF none
<1>3. Matches(Root, none)
  <2>1. ~\E k : k \in 1 .. Len(none)
    BY <1>2
  <2> QED BY <1>1, <1>2, <2>1 DEF Matches, MatchesIn
<1> QED BY <1>3 DEF none

-----------------------------------------------------------------------------
(* Phase 1, the breadth-first search.                                      *)

FailOK == FailLinks(Nodes, DOMAIN fail, fail) /\ fail[Root] = Root

OutputOK ==
  /\ DOMAIN output \subseteq DOMAIN fail /\ Root \in DOMAIN output
  /\ Linked(outputs)
  /\ \A n \in DOMAIN output : output[n] \in 0 .. Len(outputs)
  /\ \E f : ChainsOf(outputs, f)
  /\ \A f : ChainsOf(outputs, f) => \A n \in DOMAIN output : Matches(n, f[output[n]])

(* The queue is at this depth: all nodes above have been visited, and all  *)
(* of it are known.                                                        *)
AtDepth(d) ==
  /\ d \in Nat
  /\ \A n \in Nodes : (Len(n) <= d => n \in DOMAIN fail) /\ (Len(n) < d => n \in DOMAIN output)
  /\ \A k \in 1 .. Len(queue) : Len(queue[k]) \in {d, d + 1}
  /\ \A j, k \in 1 .. Len(queue) : j < k => Len(queue[j]) <= Len(queue[k])

(* Every known node that has not been visited is in the queue once, and    *)
(* the children of exactly the visited nodes are known.                    *)
QueueOK ==
  /\ Lined(queue, DOMAIN fail \ DOMAIN output)
  /\ \A n \in Nodes, c \in Nodes : c \in ChildSet(n) => (c \in DOMAIN fail <=> n \in DOMAIN output)
  /\ \E d : AtDepth(d)

SearchInv ==
  /\ pc = "add" => DOMAIN fail = {} /\ DOMAIN output = {Root} /\ output[Root] = 0 /\ outputs = <<>>
  /\ pc # "add" => FailOK /\ OutputOK
  /\ pc = "search" => QueueOK
  /\ pc \in {"pack", "ready"} => DOMAIN fail = Nodes /\ DOMAIN output = Nodes

(* FailOf finds the failure link of a child. *)
LEMMA FailOfFinds ==
  ASSUME IsTree(Nodes), FailOK, NEW n \in DOMAIN fail, n # Root, NEW byte \in Bytes
  PROVE  LongestProper(Nodes, Append(n, byte), FailOf(n, byte))
<1> DEFINE D == DOMAIN fail
           walk == CHOOSE f : Walk(Nodes, D, fail, byte, f)
<1>1. FailLinks(Nodes, D, fail)
  BY DEF FailOK
<1>2. Walk(Nodes, D, fail, byte, walk)
  <2> HIDE DEF D
  <2> QED BY <1>1, WalkFinds
<1>3. FailOf(n, byte) = walk[fail[n]]
  BY DEF FailOf, Walk
<1> HIDE DEF walk
<1>4. fail[n] \in D /\ LongestProper(Nodes, n, fail[n]) /\ n \in Nodes
  BY <1>1 DEF FailLinks
<1>5. Longest(Nodes, Append(fail[n], byte), walk[fail[n]])
  <2> HIDE DEF D
  <2> QED BY <1>1, <1>2, <1>4, WalkFinds
<1> QED BY <1>3, <1>4, <1>5, LongestProperNext

(* the level of the next node *)
LEMMA HeadDepth ==
  ASSUME IsTree(Nodes), QueueOK, DOMAIN fail \subseteq Nodes, queue # <<>>
  PROVE  /\ IsSeq(queue) /\ Len(queue) \in Nat \ {0}
         /\ Head(queue) = queue[1] /\ queue[1] \in DOMAIN fail /\ queue[1] \notin DOMAIN output
         /\ \E d : AtDepth(d) /\ Len(queue[1]) = d
<1>1. IsSeq(queue)
  BY DEF QueueOK, Lined
<1>2. PICK S : queue \in Seq(S)
  BY <1>1 DEF IsSeq
<1>3. Len(queue) \in Nat \ {0} /\ Head(queue) = queue[1]
  BY <1>2, EmptySeq
<1>4. queue[1] \in DOMAIN fail /\ queue[1] \notin DOMAIN output
  BY <1>3 DEF QueueOK, Lined
<1>5. PICK d : AtDepth(d)
  BY DEF QueueOK
<1>6. CASE Len(queue[1]) = d
  BY <1>1, <1>3, <1>4, <1>5, <1>6
<1>7. CASE Len(queue[1]) = d + 1
  <2>1. \A k \in 1 .. Len(queue) : Len(queue[k]) = d + 1
    <3> TAKE k \in 1 .. Len(queue)
    <3>1. Len(queue[1]) <= Len(queue[k])
      BY <1>3, <1>5, <1>7 DEF AtDepth
    <3> QED BY <1>5, <1>7, <3>1 DEF AtDepth
  <2>2. \A n \in Nodes : Len(n) \in Nat
    BY RootFacts DEF IsTree
  <2>3. ASSUME NEW n \in Nodes, Len(n) <= d PROVE n \in DOMAIN output
    <3>1. n \in DOMAIN fail
      BY <1>5, <2>3 DEF AtDepth
    <3>2. \A k \in 1 .. Len(queue) : queue[k] # n
      BY <1>5, <2>1, <2>2, <2>3 DEF AtDepth
    <3> QED BY <3>1, <3>2 DEF QueueOK, Lined
  <2>4. ASSUME NEW n \in Nodes, Len(n) = d + 1 PROVE n \in DOMAIN fail
    <3>1. n \in Seq(Bytes) /\ n # Root
      BY <1>5, <2>4, RootFacts DEF IsTree, AtDepth
    <3>2. PICK f \in Seq(Bytes), x \in Bytes : n = Append(f, x) /\ Len(n) = Len(f) + 1 /\ Len(f) \in Nat
      BY <3>1, FrontAndLast DEF Root
    <3>3. f \in Nodes /\ n \in ChildSet(f)
      BY <3>2 DEF IsTree, ChildSet
    <3>4. Len(f) <= d
      BY <1>5, <2>4, <3>2 DEF AtDepth
    <3> QED BY <2>3, <3>3, <3>4 DEF QueueOK
  <2>5. AtDepth(d + 1)
    <3>1. d + 1 \in Nat
      BY <1>5 DEF AtDepth
    <3>2. \A n \in Nodes : Len(n) <= d + 1 <=> Len(n) <= d \/ Len(n) = d + 1
      BY <1>5, <2>2 DEF AtDepth
    <3>3. \A n \in Nodes : Len(n) < d + 1 <=> Len(n) <= d
      BY <1>5, <2>2 DEF AtDepth
    <3>4. \A n \in Nodes : (Len(n) <= d + 1 => n \in DOMAIN fail) /\ (Len(n) < d + 1 => n \in DOMAIN output)
      BY <1>5, <2>3, <2>4, <3>2, <3>3 DEF AtDepth
    <3>5. \A j, k \in 1 .. Len(queue) : j < k => Len(queue[j]) <= Len(queue[k])
      BY <1>5 DEF AtDepth
    <3> QED BY <2>1, <3>1, <3>4, <3>5 DEF AtDepth
  <2> QED BY <1>1, <1>3, <1>4, <1>7, <2>5
<1> QED BY <1>3, <1>5, <1>6, <1>7 DEF AtDepth

(* The queue when its head has been taken and the children appended. *)
LEMMA QueueMoves ==
  ASSUME NEW q, IsSeq(q), Len(q) \in Nat \ {0}, NEW c, IsSeq(c)
  PROVE  LET r == Tail(q) \o c
         IN  /\ IsSeq(r) /\ Len(r) = Len(q) - 1 + Len(c) /\ Len(c) \in Nat
             /\ \A k \in 1 .. Len(q) - 1 : r[k] = q[k + 1]
             /\ \A k \in 1 .. Len(c) : r[Len(q) - 1 + k] = c[k]
             /\ \A k \in 1 .. Len(r) : \/ k \in 1 .. Len(q) - 1
                                       \/ \E j \in 1 .. Len(c) : k = Len(q) - 1 + j
<1>1. PICK S : q \in Seq(S)
  BY DEF IsSeq
<1>2. q # <<>>
  BY <1>1, EmptySeq
<1> DEFINE t == Tail(q)
<1>3. t \in Seq(S) /\ Len(t) = Len(q) - 1 /\ \A k \in 1 .. Len(t) : t[k] = q[k + 1]
  BY <1>1, <1>2, HeadTailProperties
<1> HIDE DEF t
<1>4. IsSeq(t) /\ Len(c) \in Nat
  BY <1>3, SeqFacts DEF IsSeq
<1> DEFINE r == t \o c
<1>5. /\ IsSeq(r) /\ Len(r) = Len(t) + Len(c)
      /\ \A k \in 1 .. Len(t) : r[k] = t[k]
      /\ \A k \in 1 .. Len(c) : r[Len(t) + k] = c[k]
  BY <1>4, ConcatFacts
<1> HIDE DEF r
<1>6. \A k \in 1 .. Len(r) : k \in 1 .. Len(q) - 1 \/ \E j \in 1 .. Len(c) : k = Len(q) - 1 + j
  <2> SUFFICES ASSUME NEW k \in 1 .. Len(r), k \notin 1 .. Len(q) - 1
               PROVE  \E j \in 1 .. Len(c) : k = Len(q) - 1 + j
    OBVIOUS
  <2>1. k - (Len(q) - 1) \in 1 .. Len(c) /\ k = Len(q) - 1 + (k - (Len(q) - 1))
    BY <1>3, <1>4, <1>5
  <2> QED BY <2>1
<1> QED BY <1>3, <1>4, <1>5, <1>6 DEF r, t

(* A queue of these nodes, without its head and with new ones. *)
LEMMA LinedMoves ==
  ASSUME NEW q, NEW S, Lined(q, S), Len(q) \in Nat \ {0}, NEW c, NEW T, Lined(c, T), S \cap T = {}
  PROVE  Lined(Tail(q) \o c, (S \ {q[1]}) \cup T)
<1> DEFINE r == Tail(q) \o c
           n == Len(q) - 1
<1>0. n \in Nat /\ Len(q) = n + 1
  OBVIOUS
<1>1. /\ IsSeq(r) /\ Len(r) = n + Len(c) /\ Len(c) \in Nat
      /\ \A k \in 1 .. n : r[k] = q[k + 1]
      /\ \A k \in 1 .. Len(c) : r[n + k] = c[k]
      /\ \A k \in 1 .. Len(r) : k \in 1 .. n \/ \E j \in 1 .. Len(c) : k = n + j
  BY QueueMoves DEF Lined
<1> HIDE DEF r, n
<1>2. \A k \in 1 .. n : k + 1 \in 1 .. Len(q) /\ k + 1 # 1 /\ r[k] \in S \ {q[1]}
  <2> TAKE k \in 1 .. n
  <2>1. k + 1 \in 1 .. Len(q) /\ k + 1 # 1 /\ 1 \in 1 .. Len(q)
    BY <1>0
  <2> QED BY <1>1, <2>1 DEF Lined
<1>3. \A k \in 1 .. Len(c) : n + k \in 1 .. Len(r) /\ r[n + k] \in T
  <2> TAKE k \in 1 .. Len(c)
  <2>1. n + k \in 1 .. Len(r)
    BY <1>0, <1>1
  <2>2. r[n + k] = c[k] /\ c[k] \in T
    BY <1>1 DEF Lined
  <2> QED BY <2>1, <2>2
<1>4. \A k \in 1 .. Len(r) : r[k] \in (S \ {q[1]}) \cup T
  BY <1>1, <1>2, <1>3
<1>5. ASSUME NEW j \in 1 .. Len(r), NEW k \in 1 .. Len(r), r[j] = r[k] PROVE j = k
  <2>1. CASE j \in 1 .. n /\ k \in 1 .. n
    <3>1. q[j + 1] = q[k + 1] /\ j + 1 \in 1 .. Len(q) /\ k + 1 \in 1 .. Len(q)
      BY <1>1, <1>2, <1>5, <2>1
    <3>2. j + 1 = k + 1
      BY <3>1 DEF Lined
    <3> QED BY <3>2
  <2>2. CASE j \notin 1 .. n /\ k \notin 1 .. n
    <3>1. PICK i \in 1 .. Len(c), l \in 1 .. Len(c) : j = n + i /\ k = n + l
      BY <1>1, <2>2
    <3>2. c[i] = c[l]
      BY <1>1, <1>5, <3>1
    <3> QED BY <3>1, <3>2 DEF Lined
  <2>3. CASE j \in 1 .. n /\ k \notin 1 .. n
    BY <1>1, <1>2, <1>3, <1>5, <2>3
  <2>4. CASE j \notin 1 .. n /\ k \in 1 .. n
    BY <1>1, <1>2, <1>3, <1>5, <2>4
  <2> QED BY <2>1, <2>2, <2>3, <2>4
<1>6. ASSUME NEW m \in (S \ {q[1]}) \cup T PROVE \E k \in 1 .. Len(r) : r[k] = m
  <2>1. CASE m \in T
    <3>1. PICK k \in 1 .. Len(c) : c[k] = m
      BY <2>1 DEF Lined
    <3> QED BY <1>1, <1>3, <3>1
  <2>2. CASE m \in S \ {q[1]}
    <3>1. PICK k \in 1 .. Len(q) : q[k] = m
      BY <2>2 DEF Lined
    <3>2. k - 1 \in 1 .. n /\ k - 1 + 1 = k
      BY <1>0, <2>2, <3>1
    <3>3. k - 1 \in 1 .. Len(r)
      BY <1>0, <1>1, <3>2
    <3> QED BY <1>1, <3>1, <3>2, <3>3
  <2> QED BY <1>6, <2>1, <2>2
<1>7. Lined(r, (S \ {q[1]}) \cup T)
  BY <1>1, <1>4, <1>5, <1>6 DEF Lined
<1> QED BY <1>7 DEF r

(* Before the search there are no links and no outputs. *)
LEMMA SearchInit == Init => SearchInv
<1> SUFFICES ASSUME Init PROVE SearchInv
  OBVIOUS
<1>1. pc = "add" /\ fail = [n \in {} |-> Root] /\ output = [n \in {Root} |-> 0] /\ outputs = <<>>
  BY DEF Init
<1> QED BY <1>1 DEF SearchInv

(* When the search begins, the children of the root are known. *)
LEMMA SearchBegins == TrieInv /\ SearchInv /\ StartSearch => SearchInv'
<1> SUFFICES ASSUME TrieInv, SearchInv, StartSearch PROVE SearchInv'
  OBVIOUS
<1> DEFINE C == ChildSet(Root)
<1>1. /\ AllAdded /\ pc' = "search" /\ queue' = Children(Root)
      /\ fail' = [n \in C \cup {Root} |-> Root]
      /\ UNCHANGED <<words, added, trie, output, outputs>>
  BY DEF StartSearch, AllAdded
<1>2. DOMAIN output = {Root} /\ output[Root] = 0 /\ outputs = <<>>
  BY DEF StartSearch, SearchInv
<1>3. IsTree(Nodes) /\ IsFiniteSet(Nodes) /\ Root \in Nodes /\ Nodes' = Nodes
  BY <1>1, TrieFacts DEF IsTree, Nodes
<1>4. /\ C \subseteq Nodes
      /\ \A n \in C : n \in Seq(Bytes) /\ Len(n) = 1 /\ n # Root /\ n = Append(Root, Byte(n)) /\ Byte(n) \in Bytes
      /\ Len(Root) = 0
  <2>1. Len(Root) = 0
    BY RootFacts
  <2>2. C \subseteq Nodes
    BY <1>3, ChildFacts
  <2>3. ASSUME NEW n \in C
        PROVE  /\ n \in Seq(Bytes) /\ Len(n) = Len(Root) + 1 /\ n # Root
               /\ n = Append(Root, Byte(n)) /\ Byte(n) \in Bytes
    BY <1>3, ChildFacts
  <2> HIDE DEF C
  <2>4. \A n \in C : Len(n) = 1
    BY <2>1, <2>3
  <2> QED BY <2>1, <2>2, <2>3, <2>4
<1>5. Lined(Children(Root), C)
  BY <1>3, ChildrenInOrder
<1>6. \A n \in Nodes : Len(n) \in Nat /\ (Len(n) <= 0 => n = Root) /\ (Len(n) <= 1 => n = Root \/ n \in C)
  <2> TAKE n \in Nodes
  <2>1. n \in Seq(Bytes) /\ Len(n) \in Nat /\ (n # Root => Len(n) > 0)
    BY <1>3, RootFacts DEF IsTree
  <2>2. ASSUME Len(n) <= 1, n # Root PROVE n \in C
    <3>1. PICK f \in Seq(Bytes), x \in Bytes : n = Append(f, x) /\ Len(n) = Len(f) + 1 /\ Len(f) \in Nat
      BY <2>1, <2>2, FrontAndLast DEF Root
    <3>2. f = Root
      BY <2>1, <2>2, <3>1, RootFacts
    <3> QED BY <3>1, <3>2 DEF ChildSet
  <2> QED BY <2>1, <2>2
<1>7. \A n \in Nodes, c \in Nodes : c \in ChildSet(n) => (c \in C <=> n = Root) /\ c # Root
  BY <1>3, ChildFacts, ParentUnique
<1>8. ChildSet(Root)' = C /\ \A n : ChildSet(n)' = ChildSet(n)
  BY <1>3 DEF ChildSet
<1> HIDE DEF C
<1>9. DOMAIN fail' = C \cup {Root} /\ \A n \in C \cup {Root} : fail'[n] = Root
  BY <1>1
<1>10. FailOK'
  <2>1. ASSUME NEW n \in C PROVE LongestProper(Nodes, n, Root)
    <3>1. IsEnd(Root, n)
      BY <1>4, EndOfItself DEF Root
    <3>2. \A f \in Nodes : Len(f) < 1 => Len(f) <= 0
      BY <1>6
    <3>3. Root \in Nodes /\ Len(n) = 1 /\ Len(Root) = 0 /\ Len(Root) < Len(n)
      BY <1>3, <1>4
    <3>4. \A f \in Nodes : Len(f) < Len(n) => Len(f) <= Len(Root)
      BY <3>2, <3>3
    <3> QED BY <3>1, <3>3, <3>4 DEF LongestProper
  <2>2. FailLinks(Nodes, C \cup {Root}, fail')
    BY <1>3, <1>4, <1>9, <2>1 DEF FailLinks
  <2> QED BY <1>3, <1>9, <2>2 DEF FailOK
<1>11. OutputOK'
  <2> DEFINE none == <<>>
  <2>1. IsSeq(none) /\ Len(none) = 0
    <3>1. <<>> \in Seq(Bytes)
      OBVIOUS
    <3> QED BY <3>1 DEF IsSeq
  <2>2. outputs' = none /\ output' = output
    BY <1>1, <1>2
  <2> HIDE DEF none
  <2>3. Linked(none)
    <3>1. ~\E o : o \in 1 .. Len(none)
      BY <2>1
    <3> QED BY <2>1, <3>1 DEF Linked
  <2>4. \E f : ChainsOf(none, f)
    <3> DEFINE g == [o \in 0 .. 0 |-> <<>>]
    <3>1. g = [o \in 0 .. 0 |-> IF o = 0 THEN <<>> ELSE <<none[o]>> \o g[none[o].next]]
      OBVIOUS
    <3> HIDE DEF g
    <3>2. ChainsOf(none, g)
      BY <2>1, <3>1 DEF ChainsOf
    <3> QED BY <3>2
  <2>5. ASSUME NEW f, ChainsOf(none, f) PROVE f[0] = <<>>
    BY <2>1, <2>5 DEF ChainsOf
  <2>6. Matches(Root, <<>>)
    BY RootMatches
  <2>7. words' = words
    BY <1>1
  <2>8. DOMAIN output' = {Root} /\ output'[Root] = 0 /\ 0 \in 0 .. Len(none)
    BY <1>2, <2>1, <2>2
  <2>9. \A f : ChainsOf(outputs', f) => \A n \in DOMAIN output' : MatchesIn(words', n, f[output'[n]])
    BY <2>2, <2>5, <2>6, <2>7, <2>8 DEF Matches
  <2>10. Linked(outputs') /\ \E f : ChainsOf(outputs', f)
    BY <2>2, <2>3, <2>4
  <2>11. \A n \in DOMAIN output' : output'[n] \in 0 .. Len(outputs')
    BY <2>2, <2>8
  <2> QED BY <1>9, <2>8, <2>9, <2>10, <2>11 DEF OutputOK, Matches
<1>12. QueueOK'
  <2>1. DOMAIN fail' \ DOMAIN output' = C
    BY <1>1, <1>2, <1>4, <1>9
  <2>2. Lined(queue', DOMAIN fail' \ DOMAIN output')
    BY <1>1, <1>5, <2>1
  <2>3. \A n \in Nodes, c \in Nodes : c \in ChildSet(n) => (c \in DOMAIN fail' <=> n \in DOMAIN output')
    BY <1>1, <1>2, <1>7, <1>9
  <2>4. AtDepth(1)'
    <3>1. \A n \in Nodes : (Len(n) <= 1 => n \in DOMAIN fail') /\ (Len(n) < 1 => n \in DOMAIN output')
      BY <1>1, <1>2, <1>6, <1>9
    <3>2. \A k \in 1 .. Len(queue') : queue'[k] \in C /\ Len(queue'[k]) = 1
      BY <1>1, <1>4, <1>5 DEF Lined
    <3>3. \A j, k \in 1 .. Len(queue') : Len(queue'[j]) <= Len(queue'[k])
      BY <3>2
    <3> QED BY <1>3, <3>1, <3>2, <3>3 DEF AtDepth
  <2> QED BY <1>3, <1>8, <2>2, <2>3, <2>4 DEF QueueOK
<1> QED BY <1>1, <1>10, <1>11, <1>12 DEF SearchInv

(* What one iteration of the search does. *)
LEMMA SearchVisits == TrieInv /\ SearchInv /\ Visit => SearchInv'
<1> SUFFICES ASSUME TrieInv, SearchInv, Visit PROVE SearchInv'
  OBVIOUS
<1> DEFINE node == Head(queue)
           C    == ChildSet(node)
           new  == [n \in C |-> FailOf(node, Byte(n))]
<1>1. /\ pc = "search" /\ pc' = "search" /\ queue # <<>>
      /\ fail' = With(new, fail)
      /\ queue' = Tail(queue) \o Children(node)
      /\ UNCHANGED <<words, added, trie>>
  BY DEF Visit
<1>2. \/ /\ trie[node] # AC_INVALID_TOKEN
         /\ outputs' = Append(outputs, OutputCell(node))
         /\ output' = With([n \in {node} |-> Len(outputs) + 1], output)
      \/ /\ trie[node] = AC_INVALID_TOKEN
         /\ outputs' = outputs
         /\ output' = With([n \in {node} |-> output[fail[node]]], output)
  BY DEF Visit
<1>3. FailOK /\ OutputOK /\ QueueOK /\ AllAdded
  BY <1>1, TrieFacts DEF SearchInv
<1>4. IsTree(Nodes) /\ IsFiniteSet(Nodes) /\ Nodes' = Nodes /\ DOMAIN fail \subseteq Nodes
  BY <1>1, <1>3, TrieFacts DEF Nodes, FailOK, FailLinks
<1>5. /\ IsSeq(queue) /\ Len(queue) \in Nat \ {0}
      /\ node = queue[1] /\ node \in DOMAIN fail /\ node \notin DOMAIN output
      /\ \E d : AtDepth(d) /\ Len(node) = d
  BY <1>1, <1>3, <1>4, HeadDepth
<1> HIDE DEF node
<1>6. PICK d : AtDepth(d) /\ Len(node) = d
  BY <1>5
<1>7. node \in Nodes /\ node # Root
  BY <1>3, <1>4, <1>5 DEF OutputOK
<1>8. /\ C \subseteq Nodes
      /\ \A n \in C : n \in Seq(Bytes) /\ Len(n) = d + 1 /\ n # Root /\ n = Append(node, Byte(n)) /\ Byte(n) \in Bytes
  BY <1>4, <1>6, <1>7, ChildFacts
<1>9. C \cap DOMAIN fail = {} /\ node \notin C /\ d \in Nat
  BY <1>3, <1>5, <1>6, <1>7, <1>8 DEF QueueOK, AtDepth
<1>10. \A n \in Nodes, c \in Nodes : c \in ChildSet(n) => (c \in C <=> n = node)
  BY <1>4, <1>7, ParentUnique
<1>11. \A n : ChildSet(n)' = ChildSet(n)
  BY <1>4 DEF ChildSet
<1>12. Lined(Children(node), C)
  BY <1>4, <1>7, ChildrenInOrder
<1>13. \A n \in Nodes : Len(n) \in Nat
  BY <1>4, RootFacts DEF IsTree
<1> HIDE DEF C
<1>14. /\ DOMAIN fail' = DOMAIN fail \cup C
       /\ \A n \in DOMAIN fail : fail'[n] = fail[n]
       /\ \A n \in C : fail'[n] = FailOf(node, Byte(n))
  BY <1>1, <1>9 DEF With
<1>15. DOMAIN output' = DOMAIN output \cup {node}
  BY <1>2 DEF With
<1>16. FailOK'
  <2>1. \A n \in C : LongestProper(Nodes, n, fail'[n])
    <3> TAKE n \in C
    <3>1. LongestProper(Nodes, Append(node, Byte(n)), FailOf(node, Byte(n)))
      BY <1>3, <1>4, <1>5, <1>7, <1>8, FailOfFinds
    <3> QED BY <1>8, <1>14, <3>1
  <2>2. \A n \in C : fail'[n] \in DOMAIN fail
    <3> TAKE n \in C
    <3>1. fail'[n] \in Nodes /\ Len(fail'[n]) < d + 1 /\ Len(fail'[n]) \in Nat
      BY <1>8, <1>13, <2>1 DEF LongestProper
    <3>2. Len(fail'[n]) <= d
      BY <1>9, <3>1
    <3> QED BY <1>6, <3>1, <3>2 DEF AtDepth
  <2>3. FailLinks(Nodes, DOMAIN fail', fail')
    BY <1>3, <1>8, <1>14, <2>1, <2>2 DEF FailOK, FailLinks
  <2>4. fail'[Root] = Root
    BY <1>3, <1>14 DEF FailOK, FailLinks
  <2> QED BY <1>4, <2>3, <2>4 DEF FailOK
<1>17. OutputOK'
  <2> DEFINE e == fail[node]
  <2>1. e \in DOMAIN fail /\ LongestProper(Nodes, node, e) /\ e \in Nodes
    BY <1>3, <1>5, <1>7 DEF FailOK, FailLinks, LongestProper
  <2>2. e \in DOMAIN output
    BY <1>6, <2>1 DEF AtDepth, LongestProper
  <2>3. output[e] \in 0 .. Len(outputs) /\ Linked(outputs)
    BY <1>3, <2>2 DEF OutputOK
  <2>4. words' = words
    BY <1>1
  <2>5. \A f : ChainsOf(outputs, f) => \A n \in DOMAIN output : output[n] \in 0 .. Len(outputs) /\ Matches(n, f[output[n]])
    BY <1>3 DEF OutputOK
  <2>6. DOMAIN output' \subseteq DOMAIN fail' /\ Root \in DOMAIN output'
    BY <1>3, <1>5, <1>14, <1>15 DEF OutputOK
  <2>7. CASE trie[node] # AC_INVALID_TOKEN
    <3> DEFINE cell == OutputCell(node)
               len  == Len(outputs)
    <3>1. /\ outputs' = Append(outputs, cell)
          /\ output' = With([n \in {node} |-> len + 1], output)
      BY <1>2, <2>7
    <3>2. cell.token = trie[node] /\ cell.start_offset = Len(node) /\ cell.next = output[e]
      BY DEF OutputCell
    <3>3. output'[node] = len + 1 /\ \A n \in DOMAIN output : output'[n] = output[n]
      BY <1>5, <3>1 DEF With
    <3> HIDE DEF cell, e
    <3>4. /\ Linked(outputs') /\ Len(outputs') = len + 1 /\ len \in Nat
          /\ \E g : ChainsOf(outputs', g)
          /\ \A g : ChainsOf(outputs', g) =>
               \E f : /\ ChainsOf(outputs, f)
                      /\ \A o \in 0 .. len : g[o] = f[o]
                      /\ g[len + 1] = <<cell>> \o f[output[e]]
      <4>1. Linked(outputs) /\ cell.next \in 0 .. Len(outputs)
        BY <2>3, <3>2
      <4>2. \E f : ChainsOf(outputs, f)
        BY <1>3 DEF OutputOK
      <4>3. /\ Linked(Append(outputs, cell)) /\ Len(Append(outputs, cell)) = Len(outputs) + 1
            /\ Len(outputs) \in Nat
            /\ (\E f : ChainsOf(outputs, f)) => \E g : ChainsOf(Append(outputs, cell), g)
            /\ \A g : ChainsOf(Append(outputs, cell), g) =>
                 \E f : /\ ChainsOf(outputs, f)
                        /\ \A o \in 0 .. Len(outputs) : g[o] = f[o]
                        /\ g[Len(outputs) + 1] = <<cell>> \o f[cell.next]
        BY <4>1, ChainsGrow
      <4> HIDE DEF ChainsOf, Linked
      <4> QED BY <3>1, <3>2, <4>2, <4>3
    <3> HIDE DEF len
    <3>5. \A n \in DOMAIN output' : output'[n] \in 0 .. Len(outputs')
      <4>1. \A n \in DOMAIN output : output[n] \in 0 .. len
        BY <1>3 DEF OutputOK, len
      <4> QED BY <1>15, <3>3, <3>4, <4>1
    <3>6. ASSUME NEW g, ChainsOf(outputs', g), NEW n \in DOMAIN output'
          PROVE  Matches(n, g[output'[n]])
      <4>1. PICK f : /\ ChainsOf(outputs, f)
                     /\ \A o \in 0 .. len : g[o] = f[o]
                     /\ g[len + 1] = <<cell>> \o f[output[e]]
        BY <3>4, <3>6
      <4>2. CASE n = node
        <5>1. Matches(e, f[output[e]])
          BY <2>2, <2>5, <4>1
        <5>2. Matches(node, <<cell>> \o f[output[e]])
          BY <1>3, <1>7, <2>1, <2>7, <3>2, <5>1, MatchesNext
        <5> QED BY <3>3, <4>1, <4>2, <5>2
      <4>3. CASE n \in DOMAIN output
        <5>1. Matches(n, f[output[n]]) /\ output[n] \in 0 .. len
          BY <2>5, <4>1, <4>3 DEF len
        <5> QED BY <3>3, <4>1, <4>3, <5>1
      <4> QED BY <1>15, <3>6, <4>2, <4>3
    <3>7. \A g : ChainsOf(outputs', g) => \A n \in DOMAIN output' : MatchesIn(words', n, g[output'[n]])
      BY <2>4, <3>6 DEF Matches
    <3> QED BY <2>6, <3>4, <3>5, <3>7 DEF OutputOK, Matches
  <2>8. CASE trie[node] = AC_INVALID_TOKEN
    <3>1. outputs' = outputs /\ output' = With([n \in {node} |-> output[e]], output)
      BY <1>2, <2>8
    <3>2. output'[node] = output[e] /\ \A n \in DOMAIN output : output'[n] = output[n]
      BY <1>5, <3>1 DEF With
    <3> HIDE DEF e
    <3>3. \A n \in DOMAIN output' : output'[n] \in 0 .. Len(outputs')
      BY <1>3, <1>15, <2>3, <3>1, <3>2 DEF OutputOK
    <3>4. ASSUME NEW g, ChainsOf(outputs, g), NEW n \in DOMAIN output'
          PROVE  Matches(n, g[output'[n]])
      <4>1. CASE n = node
        <5>1. Matches(e, g[output[e]])
          BY <2>2, <2>5, <3>4
        <5>2. Matches(node, g[output[e]])
          BY <1>3, <1>7, <2>1, <2>8, <5>1, MatchesNext
        <5> QED BY <3>2, <4>1, <5>2
      <4>2. CASE n \in DOMAIN output
        BY <2>5, <3>2, <3>4, <4>2
      <4> QED BY <1>15, <3>4, <4>1, <4>2
    <3>5. \A g : ChainsOf(outputs', g) => \A n \in DOMAIN output' : MatchesIn(words', n, g[output'[n]])
      BY <2>4, <3>1, <3>4 DEF Matches
    <3>6. Linked(outputs') /\ \E f : ChainsOf(outputs', f)
      BY <1>3, <3>1 DEF OutputOK
    <3> QED BY <2>6, <3>3, <3>5, <3>6 DEF OutputOK, Matches
  <2> QED BY <2>7, <2>8
<1>18. QueueOK'
  <2> DEFINE S == DOMAIN fail \ DOMAIN output
  <2>1. Lined(queue, S)
    BY <1>3 DEF QueueOK
  <2>2. C \cap S = {}
    BY <1>9
  <2>3. DOMAIN fail' \ DOMAIN output' = (S \ {queue[1]}) \cup C
    BY <1>3, <1>5, <1>9, <1>14, <1>15 DEF OutputOK
  <2> HIDE DEF S
  <2>4. Lined(queue', DOMAIN fail' \ DOMAIN output')
    <3>1. Lined(Tail(queue) \o Children(node), (S \ {queue[1]}) \cup C)
      BY <1>5, <1>12, <2>1, <2>2, LinedMoves
    <3> QED BY <1>1, <2>3, <3>1
  <2>5. \A n \in Nodes, c \in Nodes : c \in ChildSet(n) => (c \in DOMAIN fail' <=> n \in DOMAIN output')
    BY <1>3, <1>10, <1>14, <1>15 DEF QueueOK
  <2>6. AtDepth(d)'
    <3> DEFINE len == Len(queue) - 1
               c   == Children(node)
    <3>1. IsSeq(c) /\ \A k \in 1 .. Len(c) : c[k] \in C
      BY <1>12 DEF Lined
    <3> HIDE DEF c
    <3>2. /\ Len(c) \in Nat
          /\ \A k \in 1 .. len : queue'[k] = queue[k + 1]
          /\ \A k \in 1 .. Len(c) : queue'[len + k] = c[k]
          /\ \A k \in 1 .. Len(queue') : k \in 1 .. len \/ \E j \in 1 .. Len(c) : k = len + j
      BY <1>1, <1>5, <3>1, QueueMoves DEF c
    <3>3. len \in Nat /\ \A k \in 1 .. len : k + 1 \in 1 .. Len(queue)
      BY <1>5
    <3> HIDE DEF len
    <3>4. ASSUME NEW k \in 1 .. len
          PROVE  Len(queue'[k]) \in {d, d + 1} /\ Len(queue'[k]) <= d + 1
      <4>1. Len(queue[k + 1]) \in {d, d + 1}
        BY <1>6, <3>3 DEF AtDepth
      <4> QED BY <1>9, <3>2, <4>1
    <3>5. ASSUME NEW k \in 1 .. Len(queue'), k \notin 1 .. len
          PROVE  Len(queue'[k]) = d + 1 /\ k > len
      <4>1. PICK j \in 1 .. Len(c) : k = len + j
        BY <3>2, <3>5
      <4>2. queue'[k] \in C /\ k > len
        BY <3>1, <3>2, <3>3, <4>1
      <4> QED BY <1>8, <4>2
    <3>6. \A k \in 1 .. Len(queue') : Len(queue'[k]) \in {d, d + 1}
      BY <3>4, <3>5
    <3>7. ASSUME NEW j \in 1 .. Len(queue'), NEW k \in 1 .. Len(queue'), j < k
          PROVE  Len(queue'[j]) <= Len(queue'[k])
      <4>1. CASE k \in 1 .. len
        <5>1. j \in 1 .. len /\ j + 1 < k + 1
          <6>1. j \in Nat /\ k \in Nat /\ j >= 1 /\ k <= len
            BY <3>7, <4>1
          <6> QED BY <3>3, <3>7, <6>1
        <5>2. Len(queue[j + 1]) <= Len(queue[k + 1])
          BY <1>6, <3>3, <4>1, <5>1 DEF AtDepth
        <5> QED BY <3>2, <4>1, <5>1, <5>2
      <4>2. CASE k \notin 1 .. len
        BY <1>9, <3>4, <3>5, <4>2
      <4> QED BY <4>1, <4>2
    <3>8. \A n \in Nodes : (Len(n) <= d => n \in DOMAIN fail') /\ (Len(n) < d => n \in DOMAIN output')
      BY <1>6, <1>14, <1>15 DEF AtDepth
    <3> QED BY <1>4, <1>9, <3>6, <3>7, <3>8 DEF AtDepth
  <2> QED BY <1>4, <1>11, <2>4, <2>5, <2>6 DEF QueueOK
<1> QED BY <1>1, <1>16, <1>17, <1>18 DEF SearchInv

(* When the queue is empty, all nodes have been visited. *)
LEMMA SearchEnds ==
  ASSUME TrieInv, SearchInv, pc = "search", queue = <<>>
  PROVE  DOMAIN fail = Nodes /\ DOMAIN output = Nodes
<1>1. FailOK /\ OutputOK /\ QueueOK /\ IsTree(Nodes)
  BY TrieFacts DEF SearchInv
<1>2. Len(queue) = 0
  BY EmptySeq
<1>3. DOMAIN fail = DOMAIN output
  <2>1. ~\E k : k \in 1 .. Len(queue)
    BY <1>2
  <2> QED BY <1>1, <2>1 DEF QueueOK, Lined, OutputOK
<1> DEFINE S == {k \in Nat : \A n \in Nodes : Len(n) <= k => n \in DOMAIN output}
<1>4. \A n \in Nodes : n \in Seq(Bytes) /\ Len(n) \in Nat /\ (n # Root => Len(n) > 0)
  BY <1>1, RootFacts DEF IsTree
<1>5. 0 \in S
  <2>1. \A n \in Nodes : Len(n) <= 0 => n = Root
    BY <1>4
  <2> QED BY <1>1, <2>1 DEF OutputOK
<1>6. ASSUME NEW k \in Nat, k \in S PROVE k + 1 \in S
  <2> SUFFICES ASSUME NEW n \in Nodes, Len(n) <= k + 1 PROVE n \in DOMAIN output
    OBVIOUS
  <2>1. CASE n = Root
    BY <1>1, <2>1 DEF OutputOK
  <2>2. CASE n # Root
    <3>1. PICK f \in Seq(Bytes), x \in Bytes : n = Append(f, x) /\ Len(n) = Len(f) + 1 /\ Len(f) \in Nat
      BY <1>4, <2>2, FrontAndLast DEF Root
    <3>2. f \in Nodes /\ n \in ChildSet(f)
      BY <1>1, <3>1 DEF IsTree, ChildSet
    <3>3. Len(f) <= k
      BY <3>1
    <3>4. f \in DOMAIN output
      BY <1>6, <3>2, <3>3
    <3> QED BY <1>1, <1>3, <3>2, <3>4 DEF QueueOK
  <2> QED BY <2>1, <2>2
<1>7. \A k \in Nat : k \in S
  <2> HIDE DEF S
  <2> QED BY <1>5, <1>6, SetInduction
<1>8. \A n \in Nodes : n \in DOMAIN output
  BY <1>4, <1>7
<1> QED BY <1>1, <1>3, <1>8 DEF FailOK, FailLinks

(* Each action keeps what the search has found. *)
LEMMA SearchStep == TrieInv /\ SearchInv /\ [Next]_vars => SearchInv'
<1> SUFFICES ASSUME TrieInv, SearchInv, [Next]_vars PROVE SearchInv'
  OBVIOUS
<1>1. CASE StartSearch
  BY <1>1, SearchBegins
<1>2. CASE Visit
  BY <1>2, SearchVisits
<1>3. CASE Add
  BY <1>3 DEF Add, SearchInv
<1>4. ASSUME UNCHANGED <<words, trie, fail, output, outputs>>,
             \/ pc' = pc /\ (pc = "search" => queue' = queue)
             \/ pc # "add" /\ pc' \in {"pack", "ready"} /\ DOMAIN fail = Nodes /\ DOMAIN output = Nodes
      PROVE  SearchInv'
  <2>1. Nodes' = Nodes
    BY <1>4 DEF Nodes
  <2>2. FailOK => FailOK'
    BY <1>4, <2>1 DEF FailOK
  <2>3. \A n, c : Matches(n, c)' <=> Matches(n, c)
    BY <1>4 DEF Matches
  <2>4. OutputOK => OutputOK'
    BY <1>4, <2>3 DEF OutputOK
  <2>5. ASSUME queue' = queue, QueueOK PROVE QueueOK'
    <3>1. \A n : ChildSet(n)' = ChildSet(n)
      BY <2>1 DEF ChildSet
    <3>2. \A d : AtDepth(d)' <=> AtDepth(d)
      BY <1>4, <2>1, <2>5 DEF AtDepth
    <3> QED BY <1>4, <2>1, <2>5, <3>1, <3>2 DEF QueueOK
  <2> QED BY <1>4, <2>1, <2>2, <2>4, <2>5 DEF SearchInv
<1>5. CASE StartPack
  <2>1. DOMAIN fail = Nodes /\ DOMAIN output = Nodes
    BY <1>5, SearchEnds DEF StartPack
  <2> QED BY <1>4, <1>5, <2>1 DEF StartPack
<1>6. CASE Pack
  BY <1>4, <1>6 DEF Pack
<1>7. CASE PackLeaf
  BY <1>4, <1>7 DEF PackLeaf
<1>8. CASE Assemble
  BY <1>4, <1>8 DEF Assemble, SearchInv
<1>9. CASE \E byte \in ReadBytes : Read(byte)
  BY <1>4, <1>9 DEF Read, build
<1>10. CASE UNCHANGED vars
  BY <1>4, <1>10 DEF vars, build
<1> QED BY <1>1, <1>2, <1>3, <1>5, <1>6, <1>7, <1>8, <1>9, <1>10 DEF Next

-----------------------------------------------------------------------------
(* Phase 2, the double array.                                              *)

(* what da_grow doubles an array of cap slots to *)
GrownSize(old, needed) ==
  LET cap[n \in 0 .. needed] == IF n = 0 THEN old ELSE 2 * cap[n - 1]
      Enough(n) == cap[n] >= needed
  IN  cap[CHOOSE n \in 0 .. needed : Enough(n) /\ \A m \in 0 .. n - 1 : ~Enough(m)]

(* A grown array is as large as is needed, and the old one is in it; what  *)
(* it grows to depends on the two sizes only.                              *)
LEMMA GrownFacts ==
  ASSUME NEW cap \in Nat \ {0}, NEW needed \in Nat
  PROVE  \E large \in Nat :
           /\ large >= needed /\ large >= cap
           /\ \A array, new : DOMAIN array = Slots(cap) =>
                Grown(array, needed, new) = [t \in Slots(large) |-> IF t \in DOMAIN array THEN array[t] ELSE new]
<1> DEFINE Equation(f) == f = [n \in 0 .. needed |-> IF n = 0 THEN cap ELSE 2 * f[n - 1]]
           size == CHOOSE f : Equation(f)
<1>1. \E f : Equation(f)
  <2> DEFINE step == [p \in (1 .. needed) \X Nat |-> 2 * p[2]]
             Sizes == Nat
  <2> HIDE DEF size
  <2>1. StepsIn(step, needed, Sizes) /\ cap \in Sizes
    BY DEF StepsIn
  <2>2. PICK f : Recursion(f, cap, step, needed, Sizes)
    <3> HIDE DEF step, Sizes
    <3> QED BY <2>1, RecursionExists
  <2>3. \A n \in 0 .. needed : f[n] = IF n = 0 THEN cap ELSE 2 * f[n - 1]
    <3> SUFFICES ASSUME NEW n \in 1 .. needed PROVE f[n] = 2 * f[n - 1]
      BY <2>2 DEF Recursion
    <3>1. <<n, f[n - 1]>> \in (1 .. needed) \X Nat
      BY <2>2 DEF Recursion
    <3> QED BY <2>2, <3>1 DEF Recursion
  <2>4. Equation(f)
    BY <2>2, <2>3 DEF Recursion
  <2> QED BY <2>4
<1>2. \A n \in 0 .. needed : size[n] = IF n = 0 THEN cap ELSE 2 * size[n - 1]
  <2>1. Equation(size)
    <3> HIDE DEF Equation
    <3> QED BY <1>1
  <2> HIDE DEF size
  <2> QED BY <2>1
<1> HIDE DEF size, Equation
<1>3. \A n \in 0 .. needed : size[n] \in Nat /\ size[n] >= n /\ size[n] >= cap
  <2> DEFINE S == {n \in Nat : n <= needed => size[n] \in Nat /\ size[n] >= n /\ size[n] >= cap}
  <2>1. 0 \in S
    BY <1>2
  <2>2. ASSUME NEW n \in Nat, n \in S PROVE n + 1 \in S
    <3> SUFFICES ASSUME n + 1 <= needed
                 PROVE  size[n + 1] \in Nat /\ size[n + 1] >= n + 1 /\ size[n + 1] >= cap
      OBVIOUS
    <3>1. size[n] \in Nat /\ size[n] >= n /\ size[n] >= cap
      BY <2>2
    <3>2. size[n + 1] = 2 * size[n]
      BY <1>2
    <3> QED BY <3>1, <3>2
  <2>3. \A n \in Nat : n \in S
    <3> HIDE DEF S
    <3> QED BY <2>1, <2>2, SetInduction
  <2> QED BY <2>3
<1> DEFINE Enough(n) == size[n] >= needed
           enough == {n \in 0 .. needed : Enough(n)}
           first == CHOOSE n \in 0 .. needed : Enough(n) /\ \A m \in 0 .. n - 1 : ~Enough(m)
           large == size[first]
<1>4. PICK n \in enough : \A m \in enough : n <= m
  <2>1. needed \in enough
    BY <1>3
  <2>2. enough \in SUBSET Nat
    OBVIOUS
  <2> HIDE DEF enough
  <2> QED BY <2>1, <2>2, LeastExists
<1>5. first \in 0 .. needed /\ Enough(first)
  BY <1>4
<1>6. large = GrownSize(cap, needed)
  BY DEF GrownSize, size, Equation
<1>7. large \in Nat /\ large >= needed /\ large >= cap
  <2> HIDE DEF first
  <2> QED BY <1>3, <1>5
<1> HIDE DEF large
<1>8. ASSUME NEW array, NEW new, DOMAIN array = Slots(cap)
      PROVE  Grown(array, needed, new) = [t \in Slots(large) |-> IF t \in DOMAIN array THEN array[t] ELSE new]
  <2>1. Cardinality(DOMAIN array) = cap
    BY <1>8, FS_Interval DEF Slots
  <2>2. Grown(array, needed, new) =
          [t \in Slots(GrownSize(Cardinality(DOMAIN array), needed)) |-> IF t \in DOMAIN array THEN array[t] ELSE new]
    BY DEF Grown, GrownSize
  <2> QED BY <1>6, <2>1, <2>2
<1> QED BY <1>7, <1>8

(* Whether a node is still in the queue. *)
LEMMA NotInLine ==
  ASSUME NEW q, NEW S, Lined(q, S), NEW n
  PROVE  (\A k \in 1 .. Len(q) : q[k] # n) <=> n \notin S
BY DEF Lined

(* The arrays of this capacity, with the nodes of S in the queue.  The     *)
(* slots that are not free are those of the nodes that have one; what is   *)
(* known are the children of the nodes that were in the queue.             *)
ArraysOK(cap) ==
  /\ cap \in Nat /\ NumBytes <= cap
  /\ DOMAIN base = Slots(cap) /\ DOMAIN check = Slots(cap)
  /\ next_base \in 1 .. cap
  /\ \A t \in Slots(cap) : base[t] \in Nat /\ base[t] + NumBytes <= cap
  /\ \A t \in Slots(cap) : check[t] # -1 <=> \E n \in DOMAIN slot : slot[n] = t
  /\ check[0] = 0

SlotsOK(cap) ==
  /\ Root \in DOMAIN slot /\ DOMAIN slot \subseteq Nodes
  /\ slot[Root] = 0
  /\ \A n \in DOMAIN slot : slot[n] \in Slots(cap)
  /\ \A m, n \in DOMAIN slot : slot[m] = slot[n] => m = n

PackedOK(S) ==
  /\ Lined(queue, S) /\ S \subseteq DOMAIN slot
  /\ \A n \in Nodes, c \in Nodes : c \in ChildSet(n) =>
       /\ c \in DOMAIN slot <=> n \in DOMAIN slot /\ n \notin S
       /\ c \in DOMAIN slot => slot[c] = base[slot[n]] + Byte(c) /\ check[slot[c]] = slot[n]
  /\ Root \notin S => base[0] # 0

PackInv ==
  /\ pc \in {"add", "search"} => slot = [n \in {Root} |-> 0] /\ next_base = 1
  /\ pc \in {"pack", "ready"} => \E cap, S : ArraysOK(cap) /\ SlotsOK(cap) /\ PackedOK(S)
  /\ pc = "ready" => queue = <<>>

(* The slots of an array. *)
LEMMA SlotNumbers ==
  ASSUME NEW cap \in Nat
  PROVE  \A t : t \in Slots(cap) <=> t \in Nat /\ t < cap
BY DEF Slots

(* The arrays as they are at first. *)
LEMMA PackBegins == TrieInv /\ PackInv /\ StartPack => PackInv'
<1> SUFFICES ASSUME TrieInv, PackInv, StartPack PROVE PackInv'
  OBVIOUS
<1> DEFINE nodes == Cardinality(Nodes)
<1>0. PICK cap : cap = IF 2 * nodes < MinSlots THEN MinSlots ELSE 2 * nodes
  OBVIOUS
<1>1. /\ pc = "search" /\ pc' = "pack" /\ queue' = <<Root>>
      /\ base' = [t \in Slots(cap) |-> 0]
      /\ check' = [t \in Slots(cap) |-> IF t = 0 THEN 0 ELSE -1]
      /\ UNCHANGED <<trie, slot, next_base>>
  BY <1>0 DEF StartPack
<1>2. slot = [n \in {Root} |-> 0] /\ next_base = 1
  BY <1>1 DEF PackInv
<1>3. IsTree(Nodes) /\ IsFiniteSet(Nodes) /\ Root \in Nodes /\ Nodes' = Nodes
  BY <1>1, TrieFacts DEF IsTree, Nodes
<1>4. nodes \in Nat
  BY <1>3, FS_CardinalityType
<1> HIDE DEF nodes
<1>5. cap \in Nat /\ NumBytes <= cap /\ cap > 0 /\ NumBytes \in Nat
  BY <1>0, <1>4, ByteAssumption
<1>6. \A t : t \in Slots(cap) <=> t \in Nat /\ t < cap
  BY <1>5, SlotNumbers
<1>7. DOMAIN slot' = {Root} /\ slot'[Root] = 0
  BY <1>1, <1>2
<1>8. ArraysOK(cap)'
  <2>1. \A t \in Slots(cap) : base'[t] = 0 /\ check'[t] = IF t = 0 THEN 0 ELSE -1
    BY <1>1
  <2>2. \A t \in Slots(cap) : base'[t] \in Nat /\ base'[t] + NumBytes <= cap
    BY <1>5, <2>1
  <2>3. \A t \in Slots(cap) : check'[t] # -1 <=> \E n \in DOMAIN slot' : slot'[n] = t
    BY <1>7, <2>1
  <2>4. check'[0] = 0
    BY <1>5, <1>6, <2>1
  <2>5. next_base' \in 1 .. cap
    BY <1>1, <1>2, <1>5
  <2>6. DOMAIN base' = Slots(cap) /\ DOMAIN check' = Slots(cap)
    BY <1>1
  <2> QED BY <1>5, <2>2, <2>3, <2>4, <2>5, <2>6 DEF ArraysOK
<1>9. SlotsOK(cap)'
  BY <1>3, <1>5, <1>6, <1>7 DEF SlotsOK
<1>10. PackedOK({Root})'
  <2>1. Lined(queue', {Root})
    <3> DEFINE one == <<Root>>
    <3>1. IsSeq(one) /\ Len(one) = 1 /\ one[1] = Root
      <4>1. <<Root>> \in Seq({Root})
        OBVIOUS
      <4> QED BY <4>1 DEF IsSeq
    <3> HIDE DEF one
    <3>2. Lined(one, {Root})
      BY <3>1 DEF Lined
    <3> QED BY <1>1, <3>2 DEF one
  <2>2. \A n \in Nodes, c \in Nodes : c \in ChildSet(n) => c \notin DOMAIN slot'
    BY <1>3, <1>7, ChildFacts
  <2>3. \A n : ChildSet(n)' = ChildSet(n)
    BY <1>3 DEF ChildSet
  <2> QED BY <1>3, <1>7, <2>1, <2>2, <2>3 DEF PackedOK
<1> QED BY <1>1, <1>8, <1>9, <1>10 DEF PackInv


(* The search for a base ends, at the latest behind the array. *)
LEMMA BaseFound ==
  ASSUME NEW cap \in Nat, DOMAIN check = Slots(cap), next_base \in 1 .. cap, NEW node,
         \A n \in ChildSet(node) : Byte(n) \in Nat,
         NEW b, b = CHOOSE x \in next_base .. Capacity :
                       Fits(node, x) /\ \A y \in next_base .. x - 1 : ~Fits(node, y)
  PROVE  b \in next_base .. cap /\ Fits(node, b)
<1>1. Capacity = cap
  BY FS_Interval DEF Capacity, Slots
<1> DEFINE fitting == {x \in next_base .. cap : Fits(node, x)}
<1>2. Fits(node, cap)
  <2>1. \A n \in ChildSet(node) : cap + Byte(n) \notin Slots(cap)
    BY DEF Slots
  <2> QED BY <2>1 DEF Fits
<1>3. cap \in fitting
  BY <1>2
<1>4. fitting \in SUBSET Nat
  OBVIOUS
<1>5. PICK x \in fitting : \A y \in fitting : x <= y
  <2> HIDE DEF fitting
  <2> QED BY <1>3, <1>4, LeastExists
<1>6. \A y \in next_base .. x - 1 : ~Fits(node, y)
  <2> TAKE y \in next_base .. x - 1
  <2>1. y \in next_base .. cap /\ ~(x <= y)
    BY <1>5
  <2> QED BY <1>5, <2>1
<1>7. x \in next_base .. cap /\ Fits(node, x)
  BY <1>5
<1> HIDE DEF fitting, Fits
<1>8. \E z \in next_base .. cap : Fits(node, z) /\ \A y \in next_base .. z - 1 : ~Fits(node, y)
  BY <1>6, <1>7
<1> QED BY <1>1, <1>8

(* the first free slot from low on *)
NextFree(filled, low) ==
  LET free == {t \in DOMAIN filled : t >= low /\ filled[t] = -1}
  IN  IF free = {} THEN Cardinality(DOMAIN filled)
      ELSE CHOOSE t \in free : \A u \in free : t <= u

(* the slots when the children of a node have been put at this base *)
Filled(node, b) ==
  [t \in DOMAIN Grown(check, b + NumBytes, -1) |->
     IF t \in {[m \in ChildSet(node) |-> b + Byte(m)][n] : n \in ChildSet(node)} THEN slot[node]
     ELSE Grown(check, b + NumBytes, -1)[t]]

(* what the step does with a node and its base *)
PackWith(node, b) ==
  /\ base' = [Grown(base, b + NumBytes, 0) EXCEPT ![slot[node]] = b]
  /\ check' = Filled(node, b)
  /\ slot' = With([n \in ChildSet(node) |-> b + Byte(n)], slot)
  /\ queue' = Tail(queue) \o Children(node)
  /\ next_base' = NextFree(Filled(node, b), next_base)

(* the next base is behind the first one *)
LEMMA NextBase ==
  ASSUME NEW large \in Nat, NEW filled, DOMAIN filled = Slots(large), NEW low \in 1 .. large,
         NEW next, next = NextFree(filled, low)
  PROVE  next \in 1 .. large
<1> DEFINE free == {t \in DOMAIN filled : t >= low /\ filled[t] = -1}
<1>1. free \in SUBSET Nat /\ \A t \in free : t \in 1 .. large
  BY DEF Slots
<1>2. Cardinality(DOMAIN filled) = large
  BY FS_Interval DEF Slots
<1> HIDE DEF free
<1>3. CASE free = {}
  BY <1>2, <1>3 DEF free, NextFree
<1>4. CASE free # {}
  <2>1. PICK t \in free : \A u \in free : t <= u
    BY <1>1, <1>4, LeastExists
  <2>2. (CHOOSE t1 \in free : \A u \in free : t1 <= u) \in free
    BY <2>1
  <2>3. next = CHOOSE t1 \in free : \A u \in free : t1 <= u
    BY <1>4 DEF free, NextFree
  <2> QED BY <1>1, <2>2, <2>3
<1> QED BY <1>3, <1>4

(* The children of a node get slots that were free. *)
LEMMA PackGoes == TrieInv /\ PackInv /\ Pack => PackInv'
<1> SUFFICES ASSUME TrieInv, PackInv, Pack PROVE PackInv'
  OBVIOUS
<1>1. PICK node : node = Head(queue)
  OBVIOUS
<1>2. PICK b : b = CHOOSE x \in next_base .. Capacity :
                     Fits(node, x) /\ \A y \in next_base .. x - 1 : ~Fits(node, y)
  OBVIOUS
<1> DEFINE C == ChildSet(node)
<1>3. PackWith(node, b) /\ C # {} /\ pc = "pack" /\ pc' = "pack" /\ UNCHANGED <<words, added, trie>>
  <2>1. PackWith(Head(queue), CHOOSE x \in next_base .. Capacity :
                                Fits(Head(queue), x) /\ \A y \in next_base .. x - 1 : ~Fits(Head(queue), y))
    BY DEF Pack, PackWith, Filled, NextFree
  <2>2. b = CHOOSE x \in next_base .. Capacity :
              Fits(Head(queue), x) /\ \A y \in next_base .. x - 1 : ~Fits(Head(queue), y)
    BY <1>1, <1>2
  <2>3. ChildSet(Head(queue)) # {} /\ pc = "pack" /\ pc' = "pack" /\ UNCHANGED <<words, added, trie>>
    BY DEF Pack
  <2> QED BY <1>1, <2>1, <2>2, <2>3
<1>4. PICK cap, S : ArraysOK(cap) /\ SlotsOK(cap) /\ PackedOK(S)
  BY DEF Pack, PackInv
<1>5. IsTree(Nodes) /\ IsFiniteSet(Nodes) /\ pc # "add"
  BY TrieFacts DEF Pack
<1>6. /\ IsSeq(queue) /\ Len(queue) \in Nat \ {0} /\ node = queue[1]
      /\ node \in S /\ node \in DOMAIN slot /\ node \in Nodes
  <2>1. Lined(queue, S) /\ S \subseteq DOMAIN slot /\ DOMAIN slot \subseteq Nodes
    BY <1>4 DEF PackedOK, SlotsOK
  <2>2. PICK T : queue \in Seq(T)
    BY <2>1 DEF Lined, IsSeq
  <2>3. Len(queue) \in Nat \ {0} /\ Head(queue) = queue[1]
    BY <2>2, EmptySeq DEF Pack
  <2>4. queue[1] \in S
    BY <2>1, <2>3 DEF Lined
  <2> QED BY <1>1, <2>1, <2>3, <2>4 DEF Lined
<1>7. /\ C \subseteq Nodes
      /\ \A n \in C : /\ n \in Seq(Bytes) /\ n = Append(node, Byte(n)) /\ n # Root
                      /\ Byte(n) \in Nat /\ Byte(n) < NumBytes
  <2>1. \A n \in C : Byte(n) \in Bytes
    BY <1>3, <1>5, <1>6, ChildFacts
  <2> QED BY <1>3, <1>5, <1>6, <2>1, ChildFacts, ByteAssumption DEF Bytes
<1>8. \A m, n \in C : Byte(m) = Byte(n) => m = n
  BY <1>7
<1>9. NumBytes \in Nat \ {0} /\ cap \in Nat \ {0}
  BY <1>4, ByteAssumption DEF ArraysOK
<1>10. b \in next_base .. cap /\ Fits(node, b)
  BY <1>2, <1>3, <1>4, <1>7, <1>9, BaseFound DEF ArraysOK
<1>11. b \in Nat \ {0} /\ next_base \in 1 .. cap
  BY <1>4, <1>9, <1>10 DEF ArraysOK
<1>12. PICK large \in Nat :
         /\ large >= b + NumBytes /\ large >= cap
         /\ \A array, new : DOMAIN array = Slots(cap) =>
              Grown(array, b + NumBytes, new) = [t \in Slots(large) |-> IF t \in DOMAIN array THEN array[t] ELSE new]
  <2>1. b + NumBytes \in Nat
    BY <1>9, <1>11
  <2> QED BY <1>9, <2>1, GrownFacts
<1>13. PICK filled : filled = Filled(node, b)
  OBVIOUS
<1>14. /\ DOMAIN filled = Slots(large)
       /\ \A t \in Slots(large) :
            filled[t] = IF \E n \in C : t = b + Byte(n) THEN slot[node]
                        ELSE IF t \in Slots(cap) THEN check[t] ELSE -1
  <2> DEFINE grown == Grown(check, b + NumBytes, -1)
             taken == {[m \in C |-> b + Byte(m)][n] : n \in C}
  <2>1. DOMAIN grown = Slots(large) /\ \A t \in Slots(large) : grown[t] = IF t \in Slots(cap) THEN check[t] ELSE -1
    <3>1. DOMAIN check = Slots(cap)
      BY <1>4 DEF ArraysOK
    <3>2. grown = [t \in Slots(large) |-> IF t \in DOMAIN check THEN check[t] ELSE -1]
      BY <1>12, <3>1
    <3> QED BY <3>1, <3>2
  <2>2. \A t : t \in taken <=> \E n \in C : t = b + Byte(n)
    OBVIOUS
  <2>3. filled = [t \in DOMAIN grown |-> IF t \in taken THEN slot[node] ELSE grown[t]]
    BY <1>13 DEF Filled
  <2> HIDE DEF grown, taken
  <2> QED BY <2>1, <2>2, <2>3
<1>15. /\ DOMAIN base' = Slots(large)
       /\ \A t \in Slots(large) :
            base'[t] = IF t = slot[node] THEN b ELSE IF t \in Slots(cap) THEN base[t] ELSE 0
  <2>1. DOMAIN base = Slots(cap)
    BY <1>4 DEF ArraysOK
  <2>2. Grown(base, b + NumBytes, 0) = [t \in Slots(large) |-> IF t \in DOMAIN base THEN base[t] ELSE 0]
    BY <1>12, <2>1
  <2>3. base' = [Grown(base, b + NumBytes, 0) EXCEPT ![slot[node]] = b]
    BY <1>3 DEF PackWith
  <2> QED BY <2>1, <2>2, <2>3
<1>16. /\ check' = filled
       /\ next_base' = NextFree(filled, next_base)
       /\ queue' = Tail(queue) \o Children(node)
  BY <1>3, <1>13 DEF PackWith
<1>17. C \cap DOMAIN slot = {}
  <2>1. \A c \in C : c \in Nodes /\ c \in ChildSet(node)
    BY <1>7
  <2> QED BY <1>4, <1>6, <2>1 DEF PackedOK
<1>18. /\ DOMAIN slot' = DOMAIN slot \cup C
       /\ \A n \in DOMAIN slot : slot'[n] = slot[n]
       /\ \A n \in C : slot'[n] = b + Byte(n)
  BY <1>3, <1>17 DEF PackWith, With
<1> HIDE DEF C
<1>19. \A t : (t \in Slots(cap) <=> t \in Nat /\ t < cap) /\ (t \in Slots(large) <=> t \in Nat /\ t < large)
  BY <1>9, <1>12, SlotNumbers
<1>20. \A t \in Slots(cap) : t \in Slots(large)
  BY <1>9, <1>12, <1>19
<1>21. \A n \in C : b + Byte(n) \in Slots(large)
  BY <1>7, <1>9, <1>11, <1>12, <1>19
<1>22. \A n \in DOMAIN slot, c \in C : slot[n] # b + Byte(c)
  <2> SUFFICES ASSUME NEW n \in DOMAIN slot, NEW c \in C, slot[n] = b + Byte(c) PROVE FALSE
    OBVIOUS
  <2>1. slot[n] \in Slots(cap) /\ check[slot[n]] # -1 /\ DOMAIN check = Slots(cap)
    BY <1>4 DEF SlotsOK, ArraysOK
  <2> QED BY <1>10, <2>1 DEF Fits, C
<1>23. slot[node] \in Slots(cap) /\ slot[node] # -1
  <2>1. slot[node] \in Slots(cap)
    BY <1>4, <1>6 DEF SlotsOK
  <2> QED BY <1>19, <2>1
<1>24. ArraysOK(large)'
  <2>1. NumBytes <= large
    BY <1>9, <1>11, <1>12
  <2>2. next_base' \in 1 .. large
    <3>1. next_base \in 1 .. large
      BY <1>9, <1>11, <1>12
    <3> QED BY <1>14, <1>16, <3>1, NextBase
  <2>3. \A t \in Slots(large) : base'[t] \in Nat /\ base'[t] + NumBytes <= large
    <3> TAKE t \in Slots(large)
    <3>1. CASE t = slot[node]
      BY <1>11, <1>12, <1>15, <3>1
    <3>2. CASE t # slot[node] /\ t \in Slots(cap)
      <4>1. base[t] \in Nat /\ base[t] + NumBytes <= cap /\ base'[t] = base[t]
        BY <1>4, <1>15, <3>2 DEF ArraysOK
      <4> QED BY <1>9, <1>12, <4>1
    <3>3. CASE t # slot[node] /\ t \notin Slots(cap)
      BY <1>9, <1>15, <2>1, <3>3
    <3> QED BY <3>1, <3>2, <3>3
  <2>4. \A t \in Slots(large) : check'[t] # -1 <=> \E n \in DOMAIN slot' : slot'[n] = t
    <3> TAKE t \in Slots(large)
    <3>1. CASE \E n \in C : t = b + Byte(n)
      BY <1>14, <1>16, <1>18, <1>23, <3>1
    <3>2. CASE (~\E n \in C : t = b + Byte(n)) /\ t \in Slots(cap)
      <4>1. check'[t] = check[t]
        BY <1>14, <1>16, <3>2
      <4>2. check[t] # -1 <=> \E n \in DOMAIN slot : slot[n] = t
        BY <1>4, <3>2 DEF ArraysOK
      <4> QED BY <1>18, <3>2, <4>1, <4>2
    <3>3. CASE (~\E n \in C : t = b + Byte(n)) /\ t \notin Slots(cap)
      <4>1. check'[t] = -1
        BY <1>14, <1>16, <3>3
      <4>2. \A n \in DOMAIN slot : slot[n] # t
        BY <1>4, <3>3 DEF SlotsOK
      <4> QED BY <1>18, <3>3, <4>1, <4>2
    <3> QED BY <3>1, <3>2, <3>3
  <2>5. check'[0] = 0
    <3>1. 0 \in Slots(cap) /\ 0 \in Slots(large)
      BY <1>9, <1>12, <1>19
    <3>2. ~\E n \in C : 0 = b + Byte(n)
      BY <1>7, <1>11
    <3>3. check[0] = 0
      BY <1>4 DEF ArraysOK
    <3> QED BY <1>14, <1>16, <3>1, <3>2, <3>3
  <2> QED BY <1>12, <1>14, <1>15, <1>16, <2>1, <2>2, <2>3, <2>4, <2>5 DEF ArraysOK
<1>25. Nodes' = Nodes
  BY <1>3 DEF Nodes
<1>26. SlotsOK(large)'
  <2>1. Root \in DOMAIN slot' /\ DOMAIN slot' \subseteq Nodes' /\ slot'[Root] = 0
    BY <1>4, <1>7, <1>18, <1>25 DEF SlotsOK
  <2>2. \A n \in DOMAIN slot' : slot'[n] \in Slots(large)
    BY <1>4, <1>18, <1>20, <1>21 DEF SlotsOK
  <2>3. \A m, n \in C : b + Byte(m) = b + Byte(n) => m = n
    BY <1>7, <1>8, <1>11
  <2>4. \A m, n \in DOMAIN slot' : slot'[m] = slot'[n] => m = n
    BY <1>4, <1>18, <1>22, <2>3 DEF SlotsOK
  <2> QED BY <2>1, <2>2, <2>4 DEF SlotsOK
<1>27. PICK T : T = (S \ {node}) \cup C
  OBVIOUS
<1>28. PackedOK(T)'
  <2>1. Lined(queue', T)
    <3>1. Lined(Children(node), C)
      BY <1>5, <1>6, ChildrenInOrder DEF C
    <3>2. S \cap C = {} /\ Lined(queue, S)
      BY <1>4, <1>17 DEF PackedOK
    <3> QED BY <1>6, <1>16, <1>27, <3>1, <3>2, LinedMoves
  <2>2. T \subseteq DOMAIN slot'
    BY <1>4, <1>18, <1>27 DEF PackedOK
  <2>3. \A n : ChildSet(n)' = ChildSet(n)
    BY <1>25 DEF ChildSet
  <2>4. \A n \in DOMAIN slot' : n \notin T <=> n = node \/ n \in DOMAIN slot \ S
    BY <1>6, <1>17, <1>18, <1>27
  <2>5. ASSUME NEW n \in Nodes, NEW c \in Nodes, c \in ChildSet(n)
        PROVE  /\ c \in DOMAIN slot' <=> n \in DOMAIN slot' /\ n \notin T
               /\ c \in DOMAIN slot' => slot'[c] = base'[slot'[n]] + Byte(c) /\ check'[slot'[c]] = slot'[n]
    <3>1. c \in C <=> n = node
      BY <1>5, <1>6, <2>5, ParentUnique DEF C
    <3>2. CASE n = node
      <4>1. c \in C /\ slot'[c] = b + Byte(c) /\ slot'[n] = slot[node]
        BY <1>6, <1>18, <3>1, <3>2
      <4>2. base'[slot[node]] = b
        BY <1>15, <1>20, <1>23
      <4>3. check'[slot'[c]] = slot[node]
        BY <1>14, <1>16, <1>21, <4>1
      <4> QED BY <1>6, <1>18, <2>4, <3>2, <4>1, <4>2, <4>3
    <3>3. CASE n # node
      <4>1. c \in DOMAIN slot' <=> c \in DOMAIN slot
        BY <1>18, <3>1, <3>3
      <4>2. c \in DOMAIN slot <=> n \in DOMAIN slot /\ n \notin S
        BY <1>4, <2>5 DEF PackedOK
      <4>3. ASSUME c \in DOMAIN slot
            PROVE  slot'[c] = base'[slot'[n]] + Byte(c) /\ check'[slot'[c]] = slot'[n]
        <5>1. slot[c] = base[slot[n]] + Byte(c) /\ check[slot[c]] = slot[n] /\ n \in DOMAIN slot
          BY <1>4, <2>5, <4>2, <4>3 DEF PackedOK
        <5>2. slot'[c] = slot[c] /\ slot'[n] = slot[n]
          BY <1>18, <4>3, <5>1
        <5>3. slot[c] \in Slots(cap) /\ slot[n] \in Slots(cap) /\ slot[n] # slot[node]
          BY <1>4, <1>6, <3>3, <4>3, <5>1 DEF SlotsOK
        <5>4. base'[slot[n]] = base[slot[n]]
          BY <1>15, <1>20, <5>3
        <5>5. check'[slot[c]] = check[slot[c]]
          BY <1>14, <1>16, <1>20, <1>22, <4>3, <5>3
        <5> QED BY <5>1, <5>2, <5>4, <5>5
      <4>4. n \in DOMAIN slot' /\ n \notin T <=> n \in DOMAIN slot /\ n \notin S
        BY <1>18, <2>4, <3>3
      <4> QED BY <4>1, <4>2, <4>3, <4>4
    <3> QED BY <3>2, <3>3
  <2>6. Root \notin T => base'[0] # 0
    <3>1. 0 \in Slots(cap) /\ 0 \in Slots(large) /\ Root \in DOMAIN slot /\ slot[Root] = 0
      BY <1>4, <1>9, <1>12, <1>19 DEF SlotsOK
    <3>2. CASE node = Root
      BY <1>11, <1>15, <3>1, <3>2
    <3>3. CASE node # Root
      <4>1. slot[node] # 0
        BY <1>4, <1>6, <3>1, <3>3 DEF SlotsOK
      <4>2. base'[0] = base[0]
        BY <1>15, <3>1, <4>1
      <4> QED BY <1>4, <1>27, <3>3, <4>2 DEF PackedOK
    <3> QED BY <3>2, <3>3
  <2> QED BY <1>25, <2>1, <2>2, <2>3, <2>5, <2>6 DEF PackedOK
<1> QED BY <1>3, <1>24, <1>26, <1>28 DEF PackInv

(* A leaf is taken from the queue only. *)
LEMMA PackSkips == TrieInv /\ PackInv /\ PackLeaf => PackInv'
<1> SUFFICES ASSUME TrieInv, PackInv, PackLeaf PROVE PackInv'
  OBVIOUS
<1>1. PICK node : node = Head(queue)
  OBVIOUS
<1>2. /\ pc = "pack" /\ pc' = "pack" /\ queue # <<>> /\ ChildSet(node) = {} /\ queue' = Tail(queue)
      /\ UNCHANGED <<trie, base, check, slot, next_base>>
  BY <1>1 DEF PackLeaf
<1>3. PICK cap, S : ArraysOK(cap) /\ SlotsOK(cap) /\ PackedOK(S)
  BY <1>2 DEF PackInv
<1>4. Lined(queue, S) /\ S \subseteq DOMAIN slot /\ DOMAIN slot \subseteq Nodes
  BY <1>3 DEF PackedOK, SlotsOK
<1>5. Len(queue) \in Nat \ {0} /\ node = queue[1] /\ IsSeq(queue)
  <2>1. PICK T : queue \in Seq(T)
    BY <1>4 DEF Lined, IsSeq
  <2> QED BY <1>1, <1>2, <2>1, EmptySeq DEF IsSeq
<1>6. node # Root
  BY <1>2, TrieFacts
<1>7. Nodes' = Nodes
  BY <1>2 DEF Nodes
<1>8. ArraysOK(cap)' /\ SlotsOK(cap)'
  BY <1>2, <1>3, <1>7 DEF ArraysOK, SlotsOK
<1>9. PICK T : T = S \ {node}
  OBVIOUS
<1>10. Lined(queue', T)
  <2> DEFINE none == <<>>
  <2>1. IsSeq(none) /\ Len(none) = 0
    <3>1. <<>> \in Seq(Bytes)
      OBVIOUS
    <3> QED BY <3>1 DEF IsSeq
  <2>2. Tail(queue) \o none = Tail(queue)
    <3>1. PICK U : queue \in Seq(U)
      BY <1>5 DEF IsSeq
    <3>2. Tail(queue) \in Seq(U)
      BY <1>2, <3>1
    <3> QED BY <3>2
  <2> HIDE DEF none
  <2>3. ~\E k : k \in 1 .. Len(none)
    BY <2>1
  <2>4. Lined(none, {})
    BY <2>1, <2>3 DEF Lined
  <2>5. Lined(Tail(queue) \o none, (S \ {queue[1]}) \cup {})
    BY <1>4, <1>5, <2>4, LinedMoves
  <2> QED BY <1>2, <1>5, <1>9, <2>2, <2>5
<1>11. PackedOK(T)'
  <2>1. \A n \in Nodes, c \in Nodes : c \in ChildSet(n) => (n \notin T <=> n \notin S)
    BY <1>2, <1>9
  <2>2. \A n : ChildSet(n)' = ChildSet(n)
    BY <1>7 DEF ChildSet
  <2> QED BY <1>2, <1>3, <1>6, <1>7, <1>9, <1>10, <2>1, <2>2 DEF PackedOK
<1> QED BY <1>2, <1>8, <1>11 DEF PackInv

(* Before it is packed, the trie has one slot, the root's. *)
LEMMA PackInit == Init => PackInv
BY DEF Init, PackInv

(* Each action keeps the double array. *)
LEMMA PackStep == TrieInv /\ PackInv /\ [Next]_vars => PackInv'
<1> SUFFICES ASSUME TrieInv, PackInv, [Next]_vars PROVE PackInv'
  OBVIOUS
<1>1. CASE StartPack
  BY <1>1, PackBegins
<1>2. CASE Pack
  BY <1>2, PackGoes
<1>3. CASE PackLeaf
  BY <1>3, PackSkips
<1>4. CASE Add
  BY <1>4 DEF Add, PackInv
<1>5. CASE StartSearch
  BY <1>5 DEF StartSearch, PackInv
<1>6. CASE Visit
  BY <1>6 DEF Visit, PackInv
<1>7. ASSUME UNCHANGED <<trie, base, check, slot, next_base, queue>>,
             \/ pc' = pc
             \/ pc = "pack" /\ pc' = "ready" /\ queue = <<>>
      PROVE  PackInv'
  <2>1. Nodes' = Nodes
    BY <1>7 DEF Nodes
  <2>2. ASSUME NEW cap, NEW S, ArraysOK(cap), SlotsOK(cap), PackedOK(S)
        PROVE  ArraysOK(cap)' /\ SlotsOK(cap)' /\ PackedOK(S)'
    <3>1. \A n : ChildSet(n)' = ChildSet(n)
      BY <2>1 DEF ChildSet
    <3>2. ArraysOK(cap)' /\ SlotsOK(cap)'
      BY <1>7, <2>1, <2>2 DEF ArraysOK, SlotsOK
    <3>3. PackedOK(S)'
      BY <1>7, <2>1, <2>2, <3>1 DEF PackedOK
    <3> QED BY <3>2, <3>3
  <2>3. (\E cap, S : ArraysOK(cap) /\ SlotsOK(cap) /\ PackedOK(S))
        => \E cap, S : ArraysOK(cap)' /\ SlotsOK(cap)' /\ PackedOK(S)'
    <3> HIDE DEF ArraysOK, SlotsOK, PackedOK
    <3> QED BY <2>2
  <2> QED BY <1>7, <2>3 DEF PackInv
<1>8. CASE Assemble
  BY <1>7, <1>8 DEF Assemble
<1>9. CASE \E byte \in ReadBytes : Read(byte)
  <2>1. UNCHANGED <<trie, base, check, slot, next_base, queue>> /\ pc' = pc
    BY <1>9 DEF Read, build
  <2> QED BY <1>7, <2>1
<1>10. CASE UNCHANGED vars
  <2>1. UNCHANGED <<trie, base, check, slot, next_base, queue>> /\ pc' = pc
    BY <1>10 DEF vars, build
  <2> QED BY <1>7, <2>1
<1> QED BY <1>1, <1>2, <1>3, <1>4, <1>5, <1>6, <1>8, <1>9, <1>10 DEF Next

(* The double array is the trie: for every vocabulary, at every step. *)
LEMMA PackedIsTrie == TrieInv /\ PackInv => DoubleArrayIsTrie
<1> SUFFICES ASSUME TrieInv, PackInv, pc \in {"pack", "ready"}
             PROVE  /\ DOMAIN base = DOMAIN check
                    /\ \A m, n \in DOMAIN slot : slot[m] = slot[n] => m = n
                    /\ \A n \in DOMAIN slot : (\A k \in 1 .. Len(queue) : queue[k] # n) =>
                         \A byte \in Bytes :
                           /\ base[slot[n]] + byte \in DOMAIN check
                           /\ check[base[slot[n]] + byte] = slot[n] <=> Append(n, byte) \in Nodes
                           /\ Append(n, byte) \in Nodes => slot[Append(n, byte)] = base[slot[n]] + byte
  BY DEF DoubleArrayIsTrie
<1>1. PICK cap, S : ArraysOK(cap) /\ SlotsOK(cap) /\ PackedOK(S)
  BY DEF PackInv
<1>2. IsTree(Nodes) /\ Root \in Nodes
  BY TrieFacts DEF IsTree
<1>3. /\ DOMAIN base = DOMAIN check /\ DOMAIN check = Slots(cap) /\ cap \in Nat
      /\ \A m, n \in DOMAIN slot : slot[m] = slot[n] => m = n
  BY <1>1 DEF ArraysOK, SlotsOK
<1>4. \A t : t \in Slots(cap) <=> t \in Nat /\ t < cap
  BY <1>3, SlotNumbers
<1>5. \A byte \in Bytes : byte \in Nat /\ byte < NumBytes
  BY ByteAssumption DEF Bytes
<1>6. ASSUME NEW n \in DOMAIN slot, \A k \in 1 .. Len(queue) : queue[k] # n, NEW byte \in Bytes
      PROVE  /\ base[slot[n]] + byte \in DOMAIN check
             /\ check[base[slot[n]] + byte] = slot[n] <=> Append(n, byte) \in Nodes
             /\ Append(n, byte) \in Nodes => slot[Append(n, byte)] = base[slot[n]] + byte
  <2> DEFINE t == base[slot[n]] + byte
  <2>1. n \in Nodes /\ n \in Seq(Bytes) /\ n \notin S
    BY <1>1, <1>2, <1>6, NotInLine DEF PackedOK, SlotsOK, IsTree
  <2>2. slot[n] \in Slots(cap) /\ slot[n] \in Nat /\ base[slot[n]] \in Nat /\ base[slot[n]] + NumBytes <= cap
    BY <1>1, <1>4 DEF SlotsOK, ArraysOK
  <2>3. t \in Slots(cap)
    BY <1>3, <1>4, <1>5, <2>2, ByteAssumption
  <2>4. ASSUME Append(n, byte) \in Nodes
        PROVE  check[t] = slot[n] /\ slot[Append(n, byte)] = t
    <3>1. Append(n, byte) \in ChildSet(n) /\ Byte(Append(n, byte)) = byte
      BY <1>2, <2>1, <2>4, ChildFacts
    <3> QED BY <1>1, <2>1, <2>4, <3>1 DEF PackedOK
  <2>5. ASSUME check[t] = slot[n] PROVE Append(n, byte) \in Nodes
    <3>1. check[t] # -1
      BY <2>2, <2>5
    <3>2. PICK m \in DOMAIN slot : slot[m] = t
      BY <1>1, <2>3, <3>1 DEF ArraysOK
    <3>3. m # Root
      <4> SUFFICES ASSUME m = Root PROVE FALSE
        OBVIOUS
      <4>1. t = 0 /\ check[0] = 0 /\ slot[Root] = 0
        BY <1>1, <3>2 DEF SlotsOK, ArraysOK
      <4>2. slot[n] = 0
        BY <2>5, <4>1
      <4>3. n = Root
        BY <1>1, <4>1, <4>2 DEF SlotsOK
      <4>4. base[0] # 0
        BY <1>1, <2>1, <4>3 DEF PackedOK
      <4>5. base[0] = 0
        BY <1>5, <2>2, <4>1, <4>2
      <4> QED BY <4>4, <4>5
    <3>4. m \in Nodes /\ m \in Seq(Bytes)
      BY <1>1, <1>2 DEF SlotsOK, IsTree
    <3>5. PICK f \in Seq(Bytes), x \in Bytes : m = Append(f, x)
      BY <3>3, <3>4, FrontAndLast DEF Root
    <3>6. f \in Nodes /\ m \in ChildSet(f)
      BY <1>2, <3>4, <3>5 DEF IsTree, ChildSet
    <3>7. Byte(m) = x
      BY <3>5, AppendUnique DEF Byte
    <3>8. f \in DOMAIN slot /\ slot[m] = base[slot[f]] + x /\ check[slot[m]] = slot[f]
      BY <1>1, <3>4, <3>6, <3>7 DEF PackedOK
    <3>9. slot[f] = slot[n]
      BY <2>5, <3>2, <3>8
    <3>10. f = n
      BY <1>3, <3>8, <3>9
    <3>11. base[slot[n]] + x = base[slot[n]] + byte
      BY <3>2, <3>8, <3>10
    <3>12. x = byte
      BY <1>5, <2>2, <3>11
    <3> QED BY <3>4, <3>5, <3>10, <3>12
  <2> QED BY <1>3, <2>3, <2>4, <2>5
<1> QED BY <1>3, <1>6

(***************************************************************************)
(* The invariant of the construction: the trie has exactly the beginnings  *)
(* of the tokens that were added (TrieInv), every failure link leads to    *)
(* the longest proper end that is a node, and every chain of outputs has   *)
(* the words that the node ends with, longest first (SearchInv), and the   *)
(* double array has the children of the nodes that left the queue, in      *)
(* slots that nobody else has (PackInv).  It holds of any tokens and any   *)
(* order of them.                                                          *)
(***************************************************************************)
THEOREM BuildInvariance == Spec => [](TrieInv /\ SearchInv /\ PackInv)
<1>1. Init => TrieInv /\ SearchInv /\ PackInv
  BY TrieInit, SearchInit, PackInit
<1>2. TrieInv /\ SearchInv /\ PackInv /\ [Next]_vars => (TrieInv /\ SearchInv /\ PackInv)'
  BY TrieStep, SearchStep, PackStep
<1> QED BY <1>1, <1>2, PTL DEF Spec

(***************************************************************************)
(* The double array is the trie, for any tokens and however often it       *)
(* grows: no two nodes share a slot, and the test of ac_step -- whether    *)
(* check[base[s] + byte] is s -- answers exactly whether the node has that *)
(* child, without leaving the arrays.                                      *)
(***************************************************************************)
THEOREM DoubleArrayAlwaysTrie == Spec => []DoubleArrayIsTrie
<1>1. TrieInv /\ SearchInv /\ PackInv => DoubleArrayIsTrie
  BY PackedIsTrie
<1> QED BY <1>1, BuildInvariance, PTL

-----------------------------------------------------------------------------
(* The automaton.                                                          *)

(* the cells, for the nodes in their slots *)
CellsOK ==
  /\ DOMAIN slot = Nodes
  /\ DOMAIN cells = {slot[n] : n \in Nodes}
  /\ \A n \in Nodes : cells[slot[n]].fail = slot[fail[n]] /\ cells[slot[n]].output = output[n]

ReadInv ==
  /\ pc # "ready" => state = 0 /\ read = <<>>
  /\ pc = "ready" => /\ CellsOK
                     /\ read \in Seq(Bytes)
                     /\ \E e : Longest(Nodes, read, e) /\ state = slot[e]

(* When the queue is empty, every node has a slot. *)
LEMMA AllSlots ==
  ASSUME TrieInv, PackInv, pc \in {"pack", "ready"}, queue = <<>>
  PROVE  /\ DOMAIN slot = Nodes /\ slot[Root] = 0
         /\ \A m, n \in Nodes : slot[m] = slot[n] => m = n
<1>1. PICK cap, S : ArraysOK(cap) /\ SlotsOK(cap) /\ PackedOK(S)
  BY DEF PackInv
<1>2. IsTree(Nodes)
  BY TrieFacts
<1>3. S = {}
  <2>1. Len(queue) = 0
    BY EmptySeq
  <2>2. ~\E k : k \in 1 .. Len(queue)
    BY <2>1
  <2> QED BY <1>1, <2>2 DEF PackedOK, Lined
<1> DEFINE D == {k \in Nat : \A n \in Nodes : Len(n) <= k => n \in DOMAIN slot}
<1>4. \A n \in Nodes : n \in Seq(Bytes) /\ Len(n) \in Nat /\ (n # Root => Len(n) > 0)
  BY <1>2, RootFacts DEF IsTree
<1>5. 0 \in D
  <2>1. \A n \in Nodes : Len(n) <= 0 => n = Root
    BY <1>4
  <2> QED BY <1>1, <2>1 DEF SlotsOK
<1>6. ASSUME NEW k \in Nat, k \in D PROVE k + 1 \in D
  <2> SUFFICES ASSUME NEW n \in Nodes, Len(n) <= k + 1 PROVE n \in DOMAIN slot
    OBVIOUS
  <2>1. CASE n = Root
    BY <1>1, <2>1 DEF SlotsOK
  <2>2. CASE n # Root
    <3>1. PICK f \in Seq(Bytes), x \in Bytes : n = Append(f, x) /\ Len(n) = Len(f) + 1 /\ Len(f) \in Nat
      BY <1>4, <2>2, FrontAndLast DEF Root
    <3>2. f \in Nodes /\ n \in ChildSet(f)
      BY <1>2, <3>1 DEF IsTree, ChildSet
    <3>3. Len(f) <= k
      BY <3>1
    <3>4. f \in DOMAIN slot
      BY <1>6, <3>2, <3>3
    <3> QED BY <1>1, <1>3, <3>2, <3>4 DEF PackedOK
  <2> QED BY <2>1, <2>2
<1>7. \A k \in Nat : k \in D
  <2> HIDE DEF D
  <2> QED BY <1>5, <1>6, SetInduction
<1>8. \A n \in Nodes : n \in DOMAIN slot
  BY <1>4, <1>7
<1> QED BY <1>1, <1>8 DEF SlotsOK

(* What ac_step computes: the slot of the longest end. *)
LEMMA StepFinds ==
  ASSUME TrieInv, SearchInv, PackInv, pc = "ready", CellsOK, NEW n \in Nodes, NEW byte \in Bytes
  PROVE  \E g : Longest(Nodes, Append(n, byte), g) /\ Step(slot[n], byte) = slot[g]
<1> DEFINE Equation(w) ==
             w = [r \in DOMAIN cells |->
                    IF check[base[r] + byte] = r THEN base[r] + byte
                    ELSE IF r = 0 THEN 0 ELSE w[cells[r].fail]]
           walk == CHOOSE w : Equation(w)
<1>1. /\ IsTree(Nodes) /\ FailOK /\ DOMAIN fail = Nodes /\ Root \in Nodes
      /\ DOMAIN slot = Nodes /\ slot[Root] = 0
      /\ \A m, k \in Nodes : slot[m] = slot[k] => m = k
  BY TrieFacts, AllSlots DEF SearchInv, PackInv, IsTree
<1>2. FailLinks(Nodes, Nodes, fail)
  BY <1>1 DEF FailOK
<1>3. PICK f : Walk(Nodes, Nodes, fail, byte, f)
  BY <1>1, <1>2, WalkFinds
<1>4. \A m \in Nodes : Longest(Nodes, Append(m, byte), f[m])
  BY <1>1, <1>2, <1>3, WalkFinds
<1>5. \A m \in Nodes : f[m] = IF Append(m, byte) \in Nodes THEN Append(m, byte)
                              ELSE IF m = Root THEN Root ELSE f[fail[m]]
  BY <1>3 DEF Walk
<1>6. \A m \in Nodes \ {Root} : fail[m] \in Nodes /\ Len(fail[m]) < Len(m)
  BY <1>2 DEF FailLinks, LongestProper
<1>7. ASSUME NEW m \in Nodes
      PROVE  /\ check[base[slot[m]] + byte] = slot[m] <=> Append(m, byte) \in Nodes
             /\ Append(m, byte) \in Nodes => base[slot[m]] + byte = slot[Append(m, byte)]
             /\ slot[m] = 0 <=> m = Root
             /\ cells[slot[m]].fail = slot[fail[m]]
             /\ slot[m] \in DOMAIN cells
  <2>1. ~\E k : k \in 1 .. Len(queue)
    <3>1. Len(queue) = 0
      BY EmptySeq DEF PackInv
    <3> QED BY <3>1
  <2>2. DoubleArrayIsTrie
    BY PackedIsTrie
  <2>3. /\ check[base[slot[m]] + byte] = slot[m] <=> Append(m, byte) \in Nodes
        /\ Append(m, byte) \in Nodes => slot[Append(m, byte)] = base[slot[m]] + byte
    BY <1>1, <2>1, <2>2 DEF DoubleArrayIsTrie
  <2>4. slot[m] = 0 <=> m = Root
    BY <1>1
  <2>5. cells[slot[m]].fail = slot[fail[m]] /\ slot[m] \in DOMAIN cells
    BY DEF CellsOK
  <2> QED BY <2>3, <2>4, <2>5
<1>8. \E w : Equation(w)
  <2> DEFINE node == [r \in DOMAIN cells |-> CHOOSE m \in Nodes : slot[m] = r]
             w    == [r \in DOMAIN cells |-> slot[f[node[r]]]]
  <2>1. \A r \in DOMAIN cells : \E m \in Nodes : slot[m] = r
    BY DEF CellsOK
  <2>2. \A r \in DOMAIN cells : node[r] \in Nodes /\ slot[node[r]] = r
    BY <2>1
  <2>3. \A m \in Nodes : node[slot[m]] = m
    <3> HIDE DEF node
    <3> QED BY <1>1, <1>7, <2>2
  <2> HIDE DEF node
  <2>4. \A m \in Nodes : w[slot[m]] = slot[f[m]]
    BY <1>7, <2>3
  <2>5. w = [r \in DOMAIN cells |-> w[r]]
    OBVIOUS
  <2> HIDE DEF w
  <2>6. ASSUME NEW r \in DOMAIN cells
        PROVE  w[r] = IF check[base[r] + byte] = r THEN base[r] + byte
                      ELSE IF r = 0 THEN 0 ELSE w[cells[r].fail]
    <3>1. PICK m \in Nodes : slot[m] = r
      BY <2>1
    <3>2. CASE Append(m, byte) \in Nodes
      BY <1>5, <1>7, <2>4, <3>1, <3>2
    <3>3. CASE Append(m, byte) \notin Nodes /\ m = Root
      BY <1>1, <1>5, <1>7, <2>4, <3>1, <3>3
    <3>4. CASE Append(m, byte) \notin Nodes /\ m # Root
      <4>1. w[r] = slot[f[fail[m]]]
        BY <1>5, <2>4, <3>1, <3>4
      <4>2. w[cells[r].fail] = slot[f[fail[m]]]
        BY <1>6, <1>7, <2>4, <3>1, <3>4
      <4> QED BY <1>7, <3>1, <3>4, <4>1, <4>2
    <3> QED BY <3>2, <3>3, <3>4
  <2> QED BY <2>5, <2>6
<1>9. \A r \in DOMAIN cells : walk[r] = IF check[base[r] + byte] = r THEN base[r] + byte
                                        ELSE IF r = 0 THEN 0 ELSE walk[cells[r].fail]
  <2>1. Equation(walk)
    <3> HIDE DEF Equation
    <3> QED BY <1>8
  <2> HIDE DEF walk
  <2> QED BY <2>1
<1>10. Step(slot[n], byte) = walk[slot[n]]
  BY DEF Step
<1> HIDE DEF walk, Equation
<1> DEFINE D == {k \in Nat : \A m \in Nodes : Len(m) <= k => walk[slot[m]] = slot[f[m]]}
<1>11. ASSUME NEW m \in Nodes, \A k \in Nodes : Len(k) < Len(m) => walk[slot[k]] = slot[f[k]]
       PROVE  walk[slot[m]] = slot[f[m]]
  <2>1. walk[slot[m]] = IF Append(m, byte) \in Nodes THEN slot[Append(m, byte)]
                        ELSE IF m = Root THEN 0 ELSE walk[slot[fail[m]]]
    BY <1>7, <1>9
  <2>2. CASE Append(m, byte) \in Nodes
    BY <1>5, <2>1, <2>2
  <2>3. CASE Append(m, byte) \notin Nodes /\ m = Root
    BY <1>1, <1>5, <2>1, <2>3
  <2>4. CASE Append(m, byte) \notin Nodes /\ m # Root
    BY <1>5, <1>6, <1>11, <2>1, <2>4
  <2> QED BY <2>2, <2>3, <2>4
<1>12. \A m \in Nodes : Len(m) \in Nat
  BY <1>1, RootFacts DEF IsTree
<1>13. 0 \in D
  <2> SUFFICES ASSUME NEW m \in Nodes, Len(m) <= 0 PROVE walk[slot[m]] = slot[f[m]]
    OBVIOUS
  <2>1. \A k \in Nodes : ~(Len(k) < Len(m))
    BY <1>12
  <2> QED BY <1>11, <2>1
<1>14. ASSUME NEW k \in Nat, k \in D PROVE k + 1 \in D
  <2> SUFFICES ASSUME NEW m \in Nodes, Len(m) <= k + 1 PROVE walk[slot[m]] = slot[f[m]]
    OBVIOUS
  <2>1. \A l \in Nodes : Len(l) < Len(m) => Len(l) <= k
    BY <1>12
  <2> QED BY <1>11, <1>14, <2>1
<1>15. \A k \in Nat : k \in D
  <2> HIDE DEF D
  <2> QED BY <1>13, <1>14, SetInduction
<1>16. walk[slot[n]] = slot[f[n]]
  BY <1>12, <1>15
<1> QED BY <1>4, <1>10, <1>16

(* Nothing is read before there is an automaton. *)
LEMMA ReadInit == Init => ReadInv
BY DEF Init, ReadInv

(* The automaton is assembled, and reads. *)
LEMMA ReadStep == TrieInv /\ SearchInv /\ PackInv /\ ReadInv /\ [Next]_vars => ReadInv'
<1> SUFFICES ASSUME TrieInv, SearchInv, PackInv, ReadInv, [Next]_vars PROVE ReadInv'
  OBVIOUS
<1>1. CASE Assemble
  <2>1. /\ pc = "pack" /\ queue = <<>> /\ state' = 0 /\ read' = <<>>
        /\ UNCHANGED <<trie, slot, fail, output>>
    BY <1>1 DEF Assemble, ReadInv
  <2>2. /\ IsTree(Nodes) /\ Root \in Nodes /\ DOMAIN slot = Nodes /\ slot[Root] = 0
        /\ \A m, n \in Nodes : slot[m] = slot[n] => m = n
    BY <2>1, TrieFacts, AllSlots DEF IsTree
  <2>3. Nodes' = Nodes
    BY <2>1 DEF Nodes
  <2> DEFINE Cell(node) == [fail |-> slot[fail[node]], output |-> output[node]]
             at(t)      == CHOOSE n \in Nodes : slot[n] = t
  <2>4. cells' = [t \in {slot[n] : n \in Nodes} |-> Cell(at(t))]
    BY <1>1 DEF Assemble
  <2>5. ASSUME NEW n \in Nodes PROVE cells'[slot[n]].fail = slot[fail[n]] /\ cells'[slot[n]].output = output[n]
    <3>1. at(slot[n]) \in Nodes /\ slot[at(slot[n])] = slot[n]
      OBVIOUS
    <3> HIDE DEF at
    <3>2. at(slot[n]) = n
      BY <2>2, <3>1
    <3>3. cells'[slot[n]] = Cell(at(slot[n]))
      BY <2>4
    <3> QED BY <3>2, <3>3
  <2>6. DOMAIN cells' = {slot[n] : n \in Nodes}
    BY <2>4
  <2> HIDE DEF Cell, at
  <2>7. CellsOK'
    BY <2>1, <2>2, <2>3, <2>5, <2>6 DEF CellsOK
  <2>8. Longest(Nodes, Root, Root)
    BY <2>2, LongestInTree
  <2>9. read' = Root /\ Root \in Seq(Bytes) /\ state' = slot'[Root]
    BY <2>1, <2>2, RootFacts DEF Root
  <2>10. Longest(Nodes', read', Root)
    BY <2>3, <2>8, <2>9
  <2> HIDE DEF Longest
  <2> QED BY <1>1, <2>7, <2>9, <2>10 DEF ReadInv, Assemble
<1>2. CASE \E byte \in ReadBytes : Read(byte)
  <2>1. PICK byte \in ReadBytes : Read(byte)
    BY <1>2
  <2>2. /\ pc = "ready" /\ pc' = "ready" /\ state' = Step(state, byte) /\ read' = Append(read, byte)
        /\ UNCHANGED <<trie, slot, fail, output, cells>> /\ byte \in Bytes
    BY <2>1, ByteAssumption DEF Read, build
  <2>3. CellsOK /\ read \in Seq(Bytes) /\ IsTree(Nodes) /\ Nodes' = Nodes
    BY <2>2, TrieFacts DEF ReadInv, Nodes
  <2>4. PICK e : Longest(Nodes, read, e) /\ state = slot[e]
    BY <2>2 DEF ReadInv
  <2>5. e \in Nodes
    BY <2>4 DEF Longest
  <2>6. PICK g : Longest(Nodes, Append(e, byte), g) /\ Step(slot[e], byte) = slot[g]
    BY <2>2, <2>3, <2>5, StepFinds
  <2>7. Longest(Nodes, Append(read, byte), g)
    BY <2>2, <2>3, <2>4, <2>6, LongestNext
  <2>8. read' \in Seq(Bytes)
    BY <2>2, <2>3, AppendUnique
  <2>9. CellsOK'
    BY <2>2, <2>3 DEF CellsOK
  <2>10. Longest(Nodes', read', g) /\ state' = slot'[g]
    BY <2>2, <2>3, <2>4, <2>6, <2>7
  <2> HIDE DEF Longest, CellsOK
  <2> QED BY <2>2, <2>8, <2>9, <2>10 DEF ReadInv
<1>3. ASSUME UNCHANGED <<pc, trie, slot, fail, output, cells, state, read>> PROVE ReadInv'
  <2>1. Nodes' = Nodes
    BY <1>3 DEF Nodes
  <2>2. CellsOK => CellsOK'
    BY <1>3, <2>1 DEF CellsOK
  <2>3. (\E e : Longest(Nodes, read, e) /\ state = slot[e])
        => \E e : Longest(Nodes', read', e) /\ state' = slot'[e]
    BY <1>3, <2>1
  <2> HIDE DEF Longest, CellsOK
  <2> QED BY <1>3, <2>1, <2>2, <2>3 DEF ReadInv
<1>4. ASSUME pc # "ready", pc' # "ready", UNCHANGED <<state, read>> PROVE ReadInv'
  BY <1>4 DEF ReadInv
<1>5. CASE Add
  BY <1>4, <1>5 DEF Add
<1>6. CASE StartSearch
  BY <1>4, <1>6 DEF StartSearch
<1>7. CASE Visit
  BY <1>4, <1>7 DEF Visit
<1>8. CASE StartPack
  BY <1>4, <1>8 DEF StartPack
<1>9. CASE Pack
  BY <1>4, <1>9 DEF Pack
<1>10. CASE PackLeaf
  BY <1>4, <1>10 DEF PackLeaf
<1>11. CASE UNCHANGED vars
  <2>1. UNCHANGED <<pc, trie, slot, fail, output, cells, state, read>>
    BY <1>11 DEF vars, build
  <2> QED BY <1>3, <2>1
<1> QED BY <1>1, <1>2, <1>5, <1>6, <1>7, <1>8, <1>9, <1>10, <1>11 DEF Next

-----------------------------------------------------------------------------
(* The abstract automaton.                                                 *)

(* The abstract step leads to the longest end that is in the trie. *)
LEMMA AdvanceInTrie ==
  ASSUME TrieInv, AllAdded, NEW st \in Nodes, NEW x \in Bytes
  PROVE  Longest(Nodes, Append(st, x), Advance(words, st, x))
<1> DEFINE bytes == Append(st, x)
           known == {n \in 0 .. Len(bytes) : n = 0 \/ IsBeginning(words, EndOf(bytes, n))}
           best  == CHOOSE n \in known : \A m \in known : m <= n
<1>1. /\ IsTree(Nodes) /\ Root \in Nodes
      /\ \A n \in Seq(Bytes) : n \in Nodes <=> n = Root \/ IsBeginning(words, n)
  BY TrieFacts DEF IsTree
<1>2. bytes \in Seq(Bytes) /\ Len(bytes) \in Nat
  BY <1>1, AppendUnique, LenProperties DEF IsTree
<1>3. Advance(words, st, x) = EndOf(bytes, best)
  BY DEF Advance
<1> HIDE DEF bytes
<1>4. best \in known /\ \A m \in known : m <= best
  <2>1. known \subseteq 0 .. Len(bytes) /\ 0 \in known
    BY <1>2
  <2> HIDE DEF known
  <2>2. \E k \in known : \A m \in known : m <= k
    BY <1>2, <2>1, LargestExists
  <2> QED BY <2>2
<1> HIDE DEF best
<1>5. \A n \in 0 .. Len(bytes) : /\ EndOf(bytes, n) \in Seq(Bytes) /\ Len(EndOf(bytes, n)) = n
                                 /\ n = 0 => EndOf(bytes, n) = Root
  <2> TAKE n \in 0 .. Len(bytes)
  <2>1. EndOf(bytes, n) \in Seq(Bytes) /\ Len(EndOf(bytes, n)) = n
    BY <1>2, EndFacts
  <2> QED BY <2>1, RootFacts
<1>6. \A n \in 0 .. Len(bytes) : n \in known <=> EndOf(bytes, n) \in Nodes
  <2> TAKE n \in 0 .. Len(bytes)
  <2>1. EndOf(bytes, n) = Root => n = 0
    BY <1>5, RootFacts
  <2> QED BY <1>1, <1>5, <2>1
<1>7. best \in 0 .. Len(bytes) /\ EndOf(bytes, best) \in Nodes
  BY <1>4, <1>6
<1>8. IsEnd(EndOf(bytes, best), bytes)
  BY <1>2, <1>5, <1>7 DEF IsEnd
<1>9. ASSUME NEW f \in Nodes, IsEnd(f, bytes) PROVE Len(f) <= Len(EndOf(bytes, best))
  <2>1. Len(f) \in 0 .. Len(bytes) /\ EndOf(bytes, Len(f)) = f
    BY <1>1, <1>2, <1>9, LenProperties DEF IsEnd, IsTree
  <2>2. Len(f) \in known
    BY <1>6, <2>1
  <2> QED BY <1>4, <1>5, <1>7, <2>2
<1> QED BY <1>3, <1>7, <1>8, <1>9 DEF Longest, bytes

(* One byte more of what was read. *)
LEMMA PrefixNext ==
  ASSUME NEW S, NEW s \in Seq(S), NEW n \in 1 .. Len(s)
  PROVE  /\ SubSeq(s, 1, n - 1) \in Seq(S) /\ s[n] \in S
         /\ SubSeq(s, 1, n) = Append(SubSeq(s, 1, n - 1), s[n])
<1>1. Len(s) \in Nat /\ IsSeq(s) /\ \A k \in 1 .. Len(s) : s[k] \in S
  BY LenProperties, ElementOfSeq DEF IsSeq
<1>2. n \in 0 .. Len(s) /\ n - 1 \in 0 .. Len(s) /\ n \in Nat
  BY <1>1
<1> DEFINE a == SubSeq(s, 1, n)
           m == n - 1
           b == SubSeq(s, 1, m)
           c == Append(b, s[n])
<1>3. IsSeq(a) /\ Len(a) = n /\ \A k \in 1 .. n : a[k] = s[k]
  BY <1>1, <1>2, PrefixFacts
<1>4. IsSeq(b) /\ Len(b) = m /\ \A k \in 1 .. m : b[k] = s[k]
  BY <1>1, <1>2, PrefixFacts
<1> HIDE DEF a, b
<1>5. b \in Seq(S)
  <2>1. b = [k \in 1 .. m |-> b[k]] /\ \A k \in 1 .. m : b[k] \in S
    BY <1>1, <1>2, <1>4, SeqFacts
  <2> QED BY <1>2, <2>1
<1>6. IsSeq(c) /\ Len(c) = m + 1 /\ c[m + 1] = s[n] /\ \A k \in 1 .. m : c[k] = b[k]
  BY <1>4, AppendFacts
<1> HIDE DEF c
<1>7. \A k \in 1 .. n : k = m + 1 \/ k \in 1 .. m
  BY <1>2
<1>8. m + 1 = n
  BY <1>2
<1> HIDE DEF m
<1>9. \A k \in 1 .. n : a[k] = c[k]
  BY <1>3, <1>4, <1>6, <1>7, <1>8
<1>10. a = c
  BY <1>3, <1>6, <1>8, <1>9, SameSeq
<1> QED BY <1>1, <1>5, <1>10 DEF a, b, c, m

(* The abstract state is the longest end of all that was read. *)
LEMMA AbstractIs ==
  ASSUME TrieInv, AllAdded, read \in Seq(Bytes), NEW e, Longest(Nodes, read, e)
  PROVE  AbstractState = e
<1> DEFINE N == Len(read)
           upto(n) == SubSeq(read, 1, n)
           Equation(f) == f = [n \in 0 .. N |-> IF n = 0 THEN StartState ELSE Advance(words, f[n - 1], read[n])]
           after == CHOOSE f : Equation(f)
<1>1. IsTree(Nodes) /\ Root \in Nodes
  BY TrieFacts DEF IsTree
<1>2. N \in Nat
  BY LenProperties
<1>3. \A n \in 0 .. N : upto(n) \in Seq(Bytes)
  BY PrefixOfWord
<1>4. upto(0) = Root /\ upto(N) = read
  <2>1. upto(0) \in Seq(Bytes) /\ Len(upto(0)) = 0
    BY <1>2, PrefixOfWord
  <2>2. upto(0) = Root
    BY <2>1, RootFacts
  <2> QED BY <2>2, SubSeqFull
<1>5. \A n \in 1 .. N : read[n] \in Bytes /\ upto(n) = Append(upto(n - 1), read[n])
  BY PrefixNext
<1>6. ASSUME NEW n \in 1 .. N, NEW d, Longest(Nodes, upto(n - 1), d)
      PROVE  Longest(Nodes, upto(n), Advance(words, d, read[n]))
  <2>1. d \in Nodes /\ upto(n - 1) \in Seq(Bytes) /\ read[n] \in Bytes
    BY <1>2, <1>3, <1>5, <1>6 DEF Longest
  <2>2. Longest(Nodes, Append(d, read[n]), Advance(words, d, read[n]))
    BY <2>1, AdvanceInTrie
  <2> DEFINE x == read[n]
             p == upto(n - 1)
  <2>3. p \in Seq(Bytes) /\ x \in Bytes /\ Longest(Nodes, p, d) /\ upto(n) = Append(p, x)
        /\ Longest(Nodes, Append(d, x), Advance(words, d, x))
    BY <1>5, <1>6, <2>1, <2>2
  <2> HIDE DEF x, p, upto, Longest
  <2>4. Longest(Nodes, Append(p, x), Advance(words, d, x))
    BY <1>1, <2>3, LongestNext
  <2> QED BY <2>3, <2>4 DEF x
<1> HIDE DEF upto
<1>7. \E f : Equation(f)
  <2> DEFINE g == [n \in 0 .. N |-> CHOOSE d : Longest(Nodes, upto(n), d)]
  <2>1. \A n \in 0 .. N : Longest(Nodes, upto(n), g[n])
    BY <1>1, <1>3, LongestExists
  <2>2. g = [n \in 0 .. N |-> g[n]]
    OBVIOUS
  <2> HIDE DEF g, Longest
  <2>3. g[0] = Root
    <3>1. Longest(Nodes, Root, Root)
      BY <1>1, LongestInTree
    <3>2. Longest(Nodes, upto(0), g[0]) /\ upto(0) \in Seq(Bytes)
      BY <1>2, <1>3, <2>1
    <3> QED BY <1>1, <1>4, <3>1, <3>2, LongestUnique
  <2>4. ASSUME NEW n \in 1 .. N PROVE g[n] = Advance(words, g[n - 1], read[n])
    <3>1. n - 1 \in 0 .. N /\ n \in 0 .. N
      BY <1>2
    <3>2. Longest(Nodes, upto(n), Advance(words, g[n - 1], read[n]))
      BY <1>6, <2>1, <3>1
    <3> QED BY <1>1, <1>3, <2>1, <3>1, <3>2, LongestUnique
  <2>5. \A n \in 0 .. N : g[n] = IF n = 0 THEN StartState ELSE Advance(words, g[n - 1], read[n])
    <3> TAKE n \in 0 .. N
    <3>1. n = 0 \/ n \in 1 .. N
      BY <1>2
    <3> QED BY <1>2, <2>3, <2>4, <3>1 DEF StartState, Root
  <2>6. Equation(g)
    <3> HIDE DEF N
    <3> QED BY <2>2, <2>5
  <2> QED BY <2>6
<1>8. \A n \in 0 .. N : after[n] = IF n = 0 THEN StartState ELSE Advance(words, after[n - 1], read[n])
  <2>1. Equation(after)
    <3> HIDE DEF Equation
    <3> QED BY <1>7
  <2> HIDE DEF after
  <2> QED BY <2>1
<1>9. AbstractState = after[N]
  BY DEF AbstractState
<1> HIDE DEF after, Equation
<1> DEFINE G == {n \in Nat : n <= N => Longest(Nodes, upto(n), after[n])}
<1>10. 0 \in G
  <2>1. Longest(Nodes, Root, Root)
    BY <1>1, LongestInTree
  <2>2. after[0] = Root
    BY <1>2, <1>8 DEF StartState, Root
  <2> QED BY <1>4, <2>1, <2>2
<1>11. ASSUME NEW n \in Nat, n \in G PROVE n + 1 \in G
  <2> SUFFICES ASSUME n + 1 <= N PROVE Longest(Nodes, upto(n + 1), after[n + 1])
    OBVIOUS
  <2>1. n + 1 \in 1 .. N /\ n + 1 \in 0 .. N /\ n + 1 - 1 = n /\ n + 1 # 0
    BY <1>2
  <2>2. Longest(Nodes, upto(n), after[n])
    BY <1>2, <1>11
  <2> DEFINE m == n + 1
  <2>3. after[m] = Advance(words, after[m - 1], read[m])
    BY <1>8, <2>1
  <2>4. Longest(Nodes, upto(m - 1), after[m - 1]) /\ m \in 1 .. N
    BY <2>1, <2>2
  <2> HIDE DEF m, Longest
  <2>5. Longest(Nodes, upto(m), after[m])
    BY <1>6, <2>3, <2>4
  <2> QED BY <2>5 DEF m
<1>12. \A n \in Nat : n \in G
  <2> HIDE DEF G
  <2> QED BY <1>10, <1>11, SetInduction
<1>13. Longest(Nodes, upto(N), after[N])
  BY <1>2, <1>12
<1> HIDE DEF Longest
<1> QED BY <1>1, <1>4, <1>9, <1>13, LongestUnique

(* The cells that the iterator goes through are the words that end here. *)
LEMMA ChainMatches ==
  ASSUME SearchInv, pc = "ready", NEW n \in Nodes
  PROVE  Matches(n, Chain(output[n]))
<1> DEFINE from == CHOOSE f : ChainsOf(outputs, f)
<1>1. OutputOK /\ DOMAIN output = Nodes
  BY DEF SearchInv
<1>2. \E f : ChainsOf(outputs, f)
  BY <1>1 DEF OutputOK
<1>3. ChainsOf(outputs, from)
  <2> HIDE DEF ChainsOf
  <2> QED BY <1>2
<1>4. Chain(output[n]) = from[output[n]]
  BY DEF Chain, ChainsOf
<1> HIDE DEF from
<1> QED BY <1>1, <1>3, <1>4 DEF OutputOK

(* The automaton is in the abstract state, and yields its outputs. *)
LEMMA ReadyIsAutomaton == TrieInv /\ SearchInv /\ PackInv /\ ReadInv => IsAutomaton
<1> SUFFICES ASSUME TrieInv, SearchInv, PackInv, ReadInv, pc = "ready"
             PROVE  LET found == Outputs(words, AbstractState)
                        chain == Chain(cells[state].output)
                    IN  /\ state = slot[AbstractState]
                        /\ {words[chain[k].token] : k \in 1 .. Len(chain)} = {words[id] : id \in found}
                        /\ found # {} => words[chain[1].token] = words[FirstOutput(words, found)]
  BY DEF IsAutomaton
<1>1. AllAdded /\ IsTree(Nodes) /\ CellsOK /\ read \in Seq(Bytes)
  BY TrieFacts DEF ReadInv
<1>2. PICK e : Longest(Nodes, read, e) /\ state = slot[e]
  BY DEF ReadInv
<1>3. AbstractState = e
  BY <1>1, <1>2, AbstractIs
<1>4. e \in Nodes /\ e \in Seq(Bytes) /\ Len(e) \in Nat
  BY <1>1, <1>2, LenProperties DEF Longest, IsTree
<1> DEFINE found == Outputs(words, e)
           chain == Chain(output[e])
<1>5. Chain(cells[state].output) = chain
  BY <1>1, <1>2, <1>4 DEF CellsOK
<1>6. Matches(e, chain)
  BY <1>4, ChainMatches
<1>7. \A id : id \in found <=> id \in DOMAIN words /\ IsEnd(words[id], e)
  BY DEF Outputs, IsEnd
<1> HIDE DEF found, chain
<1>8. /\ IsSeq(chain) /\ Len(chain) \in Nat
      /\ \A k \in 1 .. Len(chain) : /\ chain[k].token \in found
                                    /\ chain[k].start_offset = Len(words[chain[k].token])
      /\ \A j, k \in 1 .. Len(chain) : j < k => chain[j].start_offset > chain[k].start_offset
      /\ \A id \in found : \E k \in 1 .. Len(chain) : words[chain[k].token] = words[id]
  BY <1>6, <1>7, SeqFacts DEF Matches, MatchesIn
<1>9. {words[chain[k].token] : k \in 1 .. Len(chain)} = {words[id] : id \in found}
  BY <1>8
<1>10. ASSUME found # {} PROVE words[chain[1].token] = words[FirstOutput(words, found)]
  <2> DEFINE first == FirstOutput(words, found)
  <2>1. \A id \in found : Len(words[id]) \in 0 .. Len(e)
    <3> TAKE id \in found
    <3>1. Len(words[id]) \in Nat /\ Len(words[id]) <= Len(e)
      BY <1>7, TrieFacts DEF IsEnd
    <3> QED BY <1>4, <3>1
  <2>2. first \in found /\ \A other \in found : Len(words[other]) <= Len(words[first])
    <3> DEFINE lengths == {Len(words[id]) : id \in found}
    <3>1. lengths \subseteq 0 .. Len(e) /\ lengths # {}
      BY <1>10, <2>1
    <3>2. PICK x \in lengths : \A y \in lengths : y <= x
      <4> HIDE DEF lengths
      <4> QED BY <1>4, <3>1, LargestExists
    <3>3. \E id \in found : \A other \in found : Len(words[other]) <= Len(words[id])
      BY <3>2
    <3> QED BY <3>3 DEF FirstOutput
  <2> HIDE DEF first
  <2>3. PICK k \in 1 .. Len(chain) : words[chain[k].token] = words[first]
    BY <1>8, <2>2
  <2>4. 1 \in 1 .. Len(chain)
    BY <1>8
  <2>5. /\ Len(words[chain[1].token]) <= Len(words[first])
        /\ chain[1].start_offset = Len(words[chain[1].token])
        /\ chain[k].start_offset = Len(words[first])
        /\ Len(words[first]) \in Nat /\ Len(words[chain[1].token]) \in Nat
    BY <1>8, <2>1, <2>2, <2>3, <2>4
  <2>6. ~(1 < k)
    BY <1>8, <2>3, <2>4, <2>5
  <2>7. k = 1
    BY <2>6
  <2> QED BY <2>3, <2>7 DEF first
<1> QED BY <1>2, <1>3, <1>5, <1>9, <1>10 DEF found

(***************************************************************************)
(* The automaton that src/ac_bpe.c runs on its arrays is the abstract one  *)
(* of module Automaton: after any bytes it is in the slot of the longest   *)
(* end that begins a token, and its chain of outputs has the tokens that   *)
(* end here, the longest first.                                            *)
(***************************************************************************)
THEOREM AutomatonAlways == Spec => []IsAutomaton
<1>1. Init => ReadInv
  BY ReadInit
<1>2. TrieInv /\ SearchInv /\ PackInv /\ ReadInv /\ [Next]_vars => ReadInv'
  BY ReadStep
<1>3. TrieInv /\ SearchInv /\ PackInv /\ ReadInv => IsAutomaton
  BY ReadyIsAutomaton
<1> QED BY <1>1, <1>2, <1>3, BuildInvariance, PTL DEF Spec

-----------------------------------------------------------------------------
(* ac_leftmost_longest.                                                    *)

(* the words of LeftmostLongest, by themselves *)
BetterOf(best, match, stop) ==
  LET begin == stop - match.start_offset
  IN  IF \/ best.token = AC_INVALID_TOKEN
         \/ begin < best.start
         \/ begin = best.start /\ stop > best.stop
      THEN [token |-> match.token, start |-> begin, stop |-> stop]
      ELSE best

BestOf(chain, first, stop) ==
  LET best[k \in 0 .. Len(chain)] ==
        IF k = 0 THEN first ELSE BetterOf(best[k - 1], chain[k], stop)
  IN  best[Len(chain)]

NoBest == [token |-> AC_INVALID_TOKEN, start |-> 0, stop |-> 0]

NextAt(at, text, n) ==
  IF n > 1 /\ Over(at.best, at.state) THEN at
  ELSE LET s == Step(at.state, text[n])
       IN  [state |-> s, best |-> BestOf(Chain(cells[s].output), at.best, n)]

(* LeftmostLongest in these words. *)
LEMMA SearchUnfolds ==
  ASSUME NEW text
  PROVE  LeftmostLongest(text) =
           (CHOOSE f : f = [n \in 0 .. Len(text) |->
                              IF n = 0 THEN [state |-> 0, best |-> NoBest]
                              ELSE NextAt(f[n - 1], text, n)])[Len(text)].best
BY DEF LeftmostLongest, NextAt, BestOf, BetterOf, NoBest

BestRecords == [token : DOMAIN words \cup {AC_INVALID_TOKEN}, start : Int, stop : Nat]

(* word id stands in the text from s to t *)
Hit(text, id, s, t) ==
  /\ id \in DOMAIN words /\ s \in Nat
  /\ t = s + Len(words[id])
  /\ OccursAt(words[id], text, s, t)

Beaten(b, s, t) == b.token # AC_INVALID_TOKEN /\ (b.start < s \/ (b.start = s /\ t <= b.stop))

(* the match that starts first, and the longest of them, up to n *)
BestUpTo(text, n, b) ==
  /\ b \in BestRecords
  /\ b.token # AC_INVALID_TOKEN => Hit(text, b.token, b.start, b.stop) /\ b.stop <= n
  /\ \A id \in DOMAIN words, s \in Nat, t \in Nat : Hit(text, id, s, t) /\ t <= n => Beaten(b, s, t)

(* A match that ends here, compared with the best so far. *)
LEMMA BetterFacts ==
  ASSUME NEW b \in BestRecords, NEW stop \in Nat, NEW match, match.token \in DOMAIN words,
         AC_INVALID_TOKEN \notin DOMAIN words, match.start_offset \in Nat
  PROVE  LET c     == BetterOf(b, match, stop)
             begin == stop - match.start_offset
         IN  /\ c \in BestRecords
             /\ Beaten(c, begin, stop)
             /\ \A s, t \in Nat : Beaten(b, s, t) => Beaten(c, s, t)
             /\ c = b \/ (c.token = match.token /\ c.start = begin /\ c.stop = stop)
<1> DEFINE begin == stop - match.start_offset
           c     == BetterOf(b, match, stop)
           new   == [token |-> match.token, start |-> begin, stop |-> stop]
<1>1. begin \in Int
  OBVIOUS
<1>2. c = IF \/ b.token = AC_INVALID_TOKEN
             \/ begin < b.start
             \/ begin = b.start /\ stop > b.stop
          THEN new ELSE b
  BY DEF BetterOf
<1>3. b.start \in Int /\ b.stop \in Nat
  BY DEF BestRecords
<1>4. new \in BestRecords /\ new.token = match.token /\ new.start = begin /\ new.stop = stop
      /\ new.token # AC_INVALID_TOKEN
  BY <1>1 DEF BestRecords
<1> HIDE DEF c, new, begin
<1>5. CASE c = new
  <2>1. Beaten(c, begin, stop)
    BY <1>1, <1>4, <1>5 DEF Beaten
  <2>2. c = new /\ c # b => b.token = AC_INVALID_TOKEN \/ begin < b.start \/ (begin = b.start /\ stop > b.stop)
    BY <1>2
  <2>3. \A s, t \in Nat : Beaten(b, s, t) => Beaten(c, s, t)
    BY <1>1, <1>3, <1>4, <1>5, <2>2 DEF Beaten
  <2> QED BY <1>4, <1>5, <2>1, <2>3 DEF c, begin
<1>6. CASE c = b /\ b.token # AC_INVALID_TOKEN /\ ~(begin < b.start) /\ ~(begin = b.start /\ stop > b.stop)
  <2>1. Beaten(c, begin, stop)
    BY <1>1, <1>3, <1>6 DEF Beaten
  <2> QED BY <1>6, <2>1 DEF c, begin
<1>7. c = new \/ (c = b /\ b.token # AC_INVALID_TOKEN /\ ~(begin < b.start) /\ ~(begin = b.start /\ stop > b.stop))
  BY <1>2
<1> QED BY <1>5, <1>6, <1>7

(* All matches of a chain are compared. *)
LEMMA FoldFacts ==
  ASSUME NEW first \in BestRecords, NEW stop \in Nat, NEW chain, Len(chain) \in Nat,
         AC_INVALID_TOKEN \notin DOMAIN words,
         \A k \in 1 .. Len(chain) : chain[k].token \in DOMAIN words /\ chain[k].start_offset \in Nat
  PROVE  LET b == BestOf(chain, first, stop)
         IN  /\ b \in BestRecords
             /\ \A k \in 1 .. Len(chain) : Beaten(b, stop - chain[k].start_offset, stop)
             /\ \A s, t \in Nat : Beaten(first, s, t) => Beaten(b, s, t)
             /\ \/ b = first
                \/ \E k \in 1 .. Len(chain) : /\ b.token = chain[k].token
                                              /\ b.start = stop - chain[k].start_offset
                                              /\ b.stop = stop
<1> DEFINE N == Len(chain)
           Equation(f) == f = [k \in 0 .. N |-> IF k = 0 THEN first ELSE BetterOf(f[k - 1], chain[k], stop)]
           best == CHOOSE f : Equation(f)
<1>1. \E f : Equation(f)
  <2> DEFINE step == [p \in (1 .. N) \X BestRecords |-> BetterOf(p[2], chain[p[1]], stop)]
  <2>1. StepsIn(step, N, BestRecords)
    <3>1. ASSUME NEW k \in 1 .. N, NEW x \in BestRecords PROVE step[<<k, x>>] \in BestRecords
      <4>1. BetterOf(x, chain[k], stop) \in BestRecords
        BY BetterFacts
      <4>2. <<k, x>> \in (1 .. N) \X BestRecords
        OBVIOUS
      <4>3. step[<<k, x>>] = BetterOf(x, chain[k], stop)
        BY <4>2
      <4> QED BY <4>1, <4>3
    <3> HIDE DEF step, N
    <3> QED BY <3>1 DEF StepsIn
  <2> HIDE DEF best
  <2>2. PICK f : Recursion(f, first, step, N, BestRecords)
    <3> HIDE DEF step
    <3> QED BY <2>1, RecursionExists
  <2>3. \A k \in 0 .. N : f[k] = IF k = 0 THEN first ELSE BetterOf(f[k - 1], chain[k], stop)
    <3> SUFFICES ASSUME NEW k \in 1 .. N PROVE f[k] = BetterOf(f[k - 1], chain[k], stop)
      BY <2>2 DEF Recursion
    <3>1. f[k] = step[<<k, f[k - 1]>>] /\ f[k - 1] \in BestRecords
      <4>1. k - 1 \in 0 .. N
        OBVIOUS
      <4> HIDE DEF step
      <4> QED BY <2>2, <4>1 DEF Recursion
    <3>2. <<k, f[k - 1]>> \in (1 .. N) \X BestRecords
      BY <3>1
    <3> QED BY <3>1, <3>2
  <2>4. f = [k \in 0 .. N |-> f[k]]
    BY <2>2 DEF Recursion
  <2>5. Equation(f)
    <3> HIDE DEF step, N
    <3> QED BY <2>3, <2>4
  <2> QED BY <2>5
<1>2. \A k \in 0 .. N : best[k] = IF k = 0 THEN first ELSE BetterOf(best[k - 1], chain[k], stop)
  <2>1. Equation(best)
    <3> HIDE DEF Equation
    <3> QED BY <1>1
  <2> HIDE DEF best
  <2> QED BY <2>1
<1>3. BestOf(chain, first, stop) = best[N]
  BY DEF BestOf
<1> HIDE DEF best, Equation
<1> DEFINE Good(k) ==
             /\ best[k] \in BestRecords
             /\ \A j \in 1 .. k : Beaten(best[k], stop - chain[j].start_offset, stop)
             /\ \A s, t \in Nat : Beaten(first, s, t) => Beaten(best[k], s, t)
             /\ \/ best[k] = first
                \/ \E j \in 1 .. k : /\ best[k].token = chain[j].token
                                     /\ best[k].start = stop - chain[j].start_offset
                                     /\ best[k].stop = stop
           G == {k \in Nat : k <= N => Good(k)}
<1>4. 0 \in G
  <2>1. best[0] = first
    BY <1>2
  <2>2. ~\E j : j \in 1 .. 0
    OBVIOUS
  <2> QED BY <2>1, <2>2
<1>5. ASSUME NEW k \in Nat, k \in G PROVE k + 1 \in G
  <2> SUFFICES ASSUME k + 1 <= N PROVE Good(k + 1)
    OBVIOUS
  <2>1. Good(k)
    BY <1>5
  <2> DEFINE m == k + 1
             begin == stop - chain[m].start_offset
  <2>2. m \in 1 .. N /\ best[m] = BetterOf(best[k], chain[m], stop)
    <3>1. m \in 0 .. N /\ m # 0 /\ m - 1 = k /\ m \in 1 .. N
      OBVIOUS
    <3> HIDE DEF m
    <3> QED BY <1>2, <3>1
  <2>3. /\ best[m] \in BestRecords
        /\ Beaten(best[m], begin, stop)
        /\ \A s, t \in Nat : Beaten(best[k], s, t) => Beaten(best[m], s, t)
        /\ \/ best[m] = best[k]
           \/ best[m].token = chain[m].token /\ best[m].start = begin /\ best[m].stop = stop
    <3> DEFINE b == best[k]
               match == chain[m]
    <3>1. b \in BestRecords /\ match.token \in DOMAIN words /\ match.start_offset \in Nat
      <4>1. b \in BestRecords
        BY <2>1
      <4> HIDE DEF m
      <4> QED BY <2>2, <4>1
    <3>2. best[m] = BetterOf(b, match, stop)
      BY <2>2
    <3> HIDE DEF m, b, match
    <3>3. LET c == BetterOf(b, match, stop)
              new == stop - match.start_offset
          IN  /\ c \in BestRecords
              /\ Beaten(c, new, stop)
              /\ \A s, t \in Nat : Beaten(b, s, t) => Beaten(c, s, t)
              /\ c = b \/ (c.token = match.token /\ c.start = new /\ c.stop = stop)
      BY <3>1, BetterFacts
    <3> QED BY <3>2, <3>3 DEF b, match
  <2>4. ASSUME NEW s \in Int, Beaten(best[k], s, stop) PROVE Beaten(best[m], s, stop)
    <3>1. best[k].start \in Int /\ best[k].stop \in Nat /\ begin \in Int
      BY <2>1, <2>2 DEF BestRecords
    <3>2. Beaten(best[m], begin, stop) /\ Beaten(best[k], s, stop)
      BY <2>3, <2>4
    <3>3. CASE best[m] = best[k]
      BY <2>4, <3>3
    <3>4. CASE best[m].start = begin /\ best[m].stop = stop /\ best[m] # best[k]
      <4>1. begin < best[k].start \/ begin = best[k].start
        BY <2>2, <2>4, <3>4 DEF BetterOf, Beaten
      <4> HIDE DEF begin, m
      <4> QED BY <2>4, <3>1, <3>2, <3>4, <4>1 DEF Beaten
    <3> QED BY <2>3, <3>3, <3>4
  <2>5. \A j \in 1 .. m : j = m \/ j \in 1 .. k
    OBVIOUS
  <2>6. \A j \in 1 .. k : j \in 1 .. N /\ stop - chain[j].start_offset \in Int /\ j \in 1 .. m
    OBVIOUS
  <2> HIDE DEF m
  <2>7. \A j \in 1 .. m : Beaten(best[m], stop - chain[j].start_offset, stop)
    BY <2>1, <2>3, <2>4, <2>5, <2>6
  <2>8. \A s, t \in Nat : Beaten(first, s, t) => Beaten(best[m], s, t)
    BY <2>1, <2>3
  <2>9. \/ best[m] = first
        \/ \E j \in 1 .. m : /\ best[m].token = chain[j].token
                             /\ best[m].start = stop - chain[j].start_offset
                             /\ best[m].stop = stop
    <3>1. m \in 1 .. m
      BY <2>2
    <3> QED BY <2>1, <2>3, <2>6, <3>1
  <2>10. Good(m)
    BY <2>3, <2>7, <2>8, <2>9
  <2> QED BY <2>10 DEF m
<1>6. \A k \in Nat : k \in G
  <2> HIDE DEF G
  <2> QED BY <1>4, <1>5, SetInduction
<1>7. Good(N)
  BY <1>6
<1> HIDE DEF best
<1> QED BY <1>3, <1>7

(* A prefix, element by element. *)
LEMMA PrefixElements ==
  ASSUME NEW S, NEW s \in Seq(S), NEW n \in 0 .. Len(s)
  PROVE  \A k \in 1 .. n : SubSeq(s, 1, n)[k] = s[k]
<1>1. IsSeq(s)
  BY DEF IsSeq
<1> QED BY <1>1, PrefixFacts

(* The matches that end after n bytes are the words that the bytes end     *)
(* with.                                                                   *)
LEMMA HitIsEnd ==
  ASSUME TrieInv, NEW text \in Seq(Bytes), NEW n \in 0 .. Len(text), NEW id \in DOMAIN words, NEW s \in Nat
  PROVE  Hit(text, id, s, n) <=> IsEnd(words[id], SubSeq(text, 1, n)) /\ s = n - Len(words[id])
<1> DEFINE p == SubSeq(text, 1, n)
           w == words[id]
<1>1. p \in Seq(Bytes) /\ Len(p) = n
  BY PrefixOfWord
<1>2. \A k \in 1 .. n : p[k] = text[k]
  BY PrefixElements
<1>3. w \in Seq(Bytes) /\ Len(w) \in Nat
  BY TrieFacts DEF AreWords
<1> HIDE DEF p, w
<1>4. IsEnd(w, p) <=> Len(w) <= n /\ \A k \in 1 .. Len(w) : w[k] = p[n - Len(w) + k]
  BY <1>1, <1>3, EndIff
<1>5. n \in Nat
  BY LenProperties
<1>6. CASE s = n - Len(w)
  <2>1. \A k \in 1 .. Len(w) : n - Len(w) + k = s + k /\ s + k \in 1 .. n
    BY <1>3, <1>5, <1>6
  <2>2. \A k \in 1 .. Len(w) : p[n - Len(w) + k] = text[s + k]
    BY <1>2, <2>1
  <2>3. Len(w) <= n /\ s + Len(w) = n
    BY <1>3, <1>5, <1>6
  <2>4. IsEnd(w, p) <=> OccursAt(w, text, s, n)
    BY <1>4, <1>5, <2>2, <2>3 DEF OccursAt
  <2> QED BY <1>6, <2>3, <2>4 DEF Hit, p, w
<1>7. CASE s # n - Len(w)
  BY <1>3, <1>5, <1>7 DEF Hit, p, w
<1> QED BY <1>6, <1>7

(* They are the words that the automaton's node ends with. *)
LEMMA EndOfNode ==
  ASSUME TrieInv, AllAdded, NEW p \in Seq(Bytes), NEW e, Longest(Nodes, p, e), NEW id \in DOMAIN words
  PROVE  IsEnd(words[id], p) <=> IsEnd(words[id], e)
<1>1. /\ e \in Nodes /\ e \in Seq(Bytes) /\ IsEnd(e, p)
      /\ words[id] \in Nodes /\ words[id] \in Seq(Bytes)
  BY TrieFacts DEF Longest, IsTree
<1>2. IsEnd(words[id], e) => IsEnd(words[id], p)
  BY <1>1, EndTransitive
<1>3. IsEnd(words[id], p) => Len(words[id]) <= Len(e)
  BY <1>1 DEF Longest
<1> QED BY <1>1, <1>2, <1>3, ShorterEnd

(* One more byte: the matches of the node are compared with the best one   *)
(* so far.                                                                 *)
LEMMA BestStep ==
  ASSUME TrieInv, AllAdded, NEW text \in Seq(Bytes), NEW n \in 1 .. Len(text),
         NEW e, Longest(Nodes, SubSeq(text, 1, n), e), NEW chain, Matches(e, chain),
         NEW b, BestUpTo(text, n - 1, b)
  PROVE  BestUpTo(text, n, BestOf(chain, b, n))
<1> DEFINE p == SubSeq(text, 1, n)
           c == BestOf(chain, b, n)
<1>1. n \in Nat /\ n \in 0 .. Len(text) /\ p \in Seq(Bytes) /\ Len(p) = n
  BY LenProperties, PrefixOfWord
<1>2. \A id \in DOMAIN words : Len(words[id]) \in Nat /\ id # AC_INVALID_TOKEN
  BY TrieFacts
<1>3. /\ Len(chain) \in Nat
      /\ \A k \in 1 .. Len(chain) : /\ chain[k].token \in DOMAIN words
                                    /\ IsEnd(words[chain[k].token], e)
                                    /\ chain[k].start_offset = Len(words[chain[k].token])
      /\ \A id \in DOMAIN words : IsEnd(words[id], e) =>
            \E k \in 1 .. Len(chain) : words[chain[k].token] = words[id]
  BY SeqFacts DEF Matches, MatchesIn
<1>4. \A k \in 1 .. Len(chain) : chain[k].token \in DOMAIN words /\ chain[k].start_offset \in Nat
  BY <1>2, <1>3
<1>5. b \in BestRecords
  BY DEF BestUpTo
<1>6. /\ c \in BestRecords
      /\ \A k \in 1 .. Len(chain) : Beaten(c, n - chain[k].start_offset, n)
      /\ \A s, t \in Nat : Beaten(b, s, t) => Beaten(c, s, t)
      /\ \/ c = b
         \/ \E k \in 1 .. Len(chain) : /\ c.token = chain[k].token
                                       /\ c.start = n - chain[k].start_offset
                                       /\ c.stop = n
  <2>1. AC_INVALID_TOKEN \notin DOMAIN words /\ Len(chain) \in Nat
    BY <1>2, <1>3
  <2> HIDE DEF p
  <2> QED BY <1>1, <1>4, <1>5, <2>1, FoldFacts
<1>7. \A id \in DOMAIN words : IsEnd(words[id], p) <=> IsEnd(words[id], e)
  BY <1>1, EndOfNode
<1>8. \A id \in DOMAIN words, s \in Nat :
        Hit(text, id, s, n) <=> IsEnd(words[id], p) /\ s = n - Len(words[id])
  BY <1>1, HitIsEnd
<1> HIDE DEF p, c
<1>9. ASSUME c.token # AC_INVALID_TOKEN PROVE Hit(text, c.token, c.start, c.stop) /\ c.stop <= n
  <2>1. CASE c = b
    <3>1. Hit(text, c.token, c.start, c.stop) /\ c.stop <= n - 1
      BY <1>9, <2>1 DEF BestUpTo
    <3>2. c.stop \in Nat
      BY <1>6 DEF BestRecords
    <3> QED BY <1>1, <3>1, <3>2
  <2>2. CASE c # b
    <3>1. PICK k \in 1 .. Len(chain) : /\ c.token = chain[k].token
                                       /\ c.start = n - chain[k].start_offset
                                       /\ c.stop = n
      BY <1>6, <2>2
    <3>2. IsEnd(words[c.token], p) /\ c.token \in DOMAIN words /\ c.start = n - Len(words[c.token])
      BY <1>3, <1>7, <3>1
    <3>3. Len(words[c.token]) <= n
      BY <1>1, <3>2 DEF IsEnd
    <3>4. c.start \in Nat
      BY <1>1, <1>2, <3>2, <3>3
    <3>5. Hit(text, c.token, c.start, n)
      BY <1>8, <3>2, <3>4
    <3>6. c.stop = n /\ n <= n
      BY <1>1, <3>1
    <3> QED BY <3>5, <3>6
  <2> QED BY <2>1, <2>2
<1>10. ASSUME NEW id \in DOMAIN words, NEW s \in Nat, NEW t \in Nat, Hit(text, id, s, t), t <= n
       PROVE  Beaten(c, s, t)
  <2>1. CASE t <= n - 1
    <3>1. Beaten(b, s, t)
      BY <1>10, <2>1 DEF BestUpTo
    <3> QED BY <1>6, <3>1
  <2>2. CASE t = n
    <3>1. IsEnd(words[id], e) /\ s = n - Len(words[id])
      BY <1>7, <1>8, <1>10, <2>2
    <3>2. PICK k \in 1 .. Len(chain) : words[chain[k].token] = words[id]
      BY <1>3, <3>1
    <3>3. n - chain[k].start_offset = s
      BY <1>3, <3>1, <3>2
    <3>4. Beaten(c, n - chain[k].start_offset, n)
      BY <1>6
    <3> QED BY <2>2, <3>3, <3>4
  <2> QED BY <1>1, <1>10, <2>1, <2>2
<1>11. BestUpTo(text, n, c)
  BY <1>6, <1>9, <1>10 DEF BestUpTo
<1> QED BY <1>11 DEF c

(* The search may stop in the root: every match that is still to come      *)
(* starts there or later.                                                  *)
LEMMA BestStays ==
  ASSUME TrieInv, AllAdded, NEW text \in Seq(Bytes), NEW m \in 0 .. Len(text), NEW n \in 0 .. Len(text), m <= n,
         Longest(Nodes, SubSeq(text, 1, m), Root), NEW b, BestUpTo(text, m, b), b.token # AC_INVALID_TOKEN
  PROVE  BestUpTo(text, n, b)
<1> DEFINE p == SubSeq(text, 1, m)
<1>1. m \in Nat /\ n \in Nat /\ p \in Seq(Bytes) /\ Len(p) = m
  BY LenProperties, PrefixOfWord
<1>2. \A k \in 1 .. m : p[k] = text[k]
  BY PrefixElements
<1>3. /\ b \in BestRecords /\ Hit(text, b.token, b.start, b.stop) /\ b.stop <= m
      /\ \A id \in DOMAIN words, s \in Nat, t \in Nat : Hit(text, id, s, t) /\ t <= m => Beaten(b, s, t)
  BY DEF BestUpTo
<1>4. b.start \in Nat /\ b.stop \in Nat /\ b.start < m
  <2>1. Len(words[b.token]) \in Nat \ {0} /\ b.start \in Nat /\ b.stop = b.start + Len(words[b.token])
    BY <1>3, TrieFacts DEF Hit
  <2> QED BY <1>1, <1>3, <2>1
<1> HIDE DEF p
<1>5. ASSUME NEW id \in DOMAIN words, NEW s \in Nat, NEW t \in Nat, Hit(text, id, s, t), t <= n
      PROVE  Beaten(b, s, t)
  <2>1. CASE t <= m
    BY <1>3, <1>5, <2>1
  <2>2. CASE s >= m
    <3>1. b.start < s
      BY <1>1, <1>4, <2>2
    <3> QED BY <3>1 DEF Beaten
  <2>3. CASE t > m /\ s < m
    <3> DEFINE w   == words[id]
               d   == m - s
               pre == SubSeq(w, 1, d)
    <3>1. w \in Seq(Bytes) /\ Len(w) \in Nat /\ t = s + Len(w) /\ \A k \in 1 .. Len(w) : text[s + k] = w[k]
      BY <1>5, TrieFacts DEF AreWords, Hit, OccursAt
    <3>2. d \in 0 .. Len(w) /\ d \in Nat \ {0} /\ d <= m
      BY <1>1, <2>3, <3>1
    <3>3. pre \in Seq(Bytes) /\ Len(pre) = d /\ \A k \in 1 .. d : pre[k] = w[k]
      <4> HIDE DEF w, d
      <4> QED BY <3>1, <3>2, PrefixOfWord, PrefixElements
    <3>4. IsBeginning(words, pre)
      <4>1. Len(pre) <= Len(words[id]) /\ SubSeq(words[id], 1, Len(pre)) = pre
        BY <3>2, <3>3
      <4> HIDE DEF pre
      <4> QED BY <4>1 DEF IsBeginning
    <3>5. pre \in Nodes
      <4> HIDE DEF pre
      <4> QED BY <3>3, <3>4, TrieFacts
    <3>6. \A k \in 1 .. d : /\ k \in 1 .. Len(w) /\ m - d + k = s + k /\ s + k \in 1 .. m
      BY <1>1, <3>1, <3>2
    <3> HIDE DEF pre, w
    <3>7. \A k \in 1 .. d : pre[k] = p[m - d + k]
      <4> HIDE DEF d
      <4> QED BY <1>2, <3>1, <3>3, <3>6
    <3>8. IsEnd(pre, p)
      <4> HIDE DEF d
      <4> QED BY <1>1, <3>2, <3>3, <3>7, EndIff
    <3>9. Len(pre) <= Len(Root)
      BY <3>5, <3>8 DEF Longest, p
    <3> QED BY <3>2, <3>3, <3>9, RootFacts
  <2> QED BY <1>1, <2>1, <2>2, <2>3
<1>6. b.stop <= n
  BY <1>1, <1>3, <1>4
<1> QED BY <1>3, <1>5, <1>6 DEF BestUpTo

(* What the search knows after n bytes: the best match so far, and the     *)
(* automaton's node -- or it stopped in the root, at or before n.          *)
SearchAt(text, n, at) ==
  /\ BestUpTo(text, n, at.best)
  /\ \/ \E e : Longest(Nodes, SubSeq(text, 1, n), e) /\ at.state = slot[e]
     \/ /\ n >= 1 /\ at.state = 0 /\ at.best.token # AC_INVALID_TOKEN
        /\ \E m \in 0 .. n : Longest(Nodes, SubSeq(text, 1, m), Root) /\ BestUpTo(text, m, at.best)

SearchStates == [state : {slot[n] : n \in Nodes}, best : BestRecords]

(* A step of the automaton in the search: the next node, and its matches.  *)
LEMMA SearchMoves ==
  ASSUME TrieInv, SearchInv, PackInv, pc = "ready", CellsOK, NEW e \in Nodes, NEW byte \in Bytes
  PROVE  LET s == Step(slot[e], byte)
         IN  \E g : /\ Longest(Nodes, Append(e, byte), g) /\ s = slot[g]
                   /\ Matches(g, Chain(cells[s].output))
<1>1. PICK g : Longest(Nodes, Append(e, byte), g) /\ Step(slot[e], byte) = slot[g]
  BY StepFinds
<1>2. g \in Nodes
  BY <1>1 DEF Longest
<1>3. cells[slot[g]].output = output[g] /\ Matches(g, Chain(output[g]))
  BY <1>2, ChainMatches DEF CellsOK
<1> QED BY <1>1, <1>3

(* The search stays among its states. *)
LEMMA SearchTyped ==
  ASSUME TrieInv, SearchInv, PackInv, pc = "ready", CellsOK,
         NEW text \in Seq(Bytes), NEW n \in 1 .. Len(text), NEW at \in SearchStates
  PROVE  NextAt(at, text, n) \in SearchStates
<1> DEFINE s == Step(at.state, text[n])
           chain == Chain(cells[s].output)
           new == BestOf(chain, at.best, n)
<1>1. PICK e \in Nodes : at.state = slot[e]
  BY DEF SearchStates
<1>2. text[n] \in Bytes /\ n \in Nat /\ at.best \in BestRecords
  BY ElementOfSeq, LenProperties DEF SearchStates
<1>3. PICK g : Longest(Nodes, Append(e, text[n]), g) /\ s = slot[g] /\ Matches(g, chain)
  BY <1>1, <1>2, SearchMoves
<1>4. g \in Nodes
  BY <1>3 DEF Longest
<1> HIDE DEF chain
<1>5. /\ Len(chain) \in Nat /\ AC_INVALID_TOKEN \notin DOMAIN words
      /\ \A k \in 1 .. Len(chain) : chain[k].token \in DOMAIN words /\ chain[k].start_offset \in Nat
  BY <1>3, SeqFacts, TrieFacts DEF Matches, MatchesIn
<1>6. new \in BestRecords
  BY <1>2, <1>5, FoldFacts
<1> HIDE DEF s, new
<1>7. [state |-> s, best |-> new] \in SearchStates
  BY <1>3, <1>4, <1>6 DEF SearchStates
<1>8. NextAt(at, text, n) = at \/ NextAt(at, text, n) = [state |-> s, best |-> new]
  BY DEF NextAt, s, new, chain
<1> QED BY <1>7, <1>8

(* One byte of the search. *)
LEMMA SearchGoesOn ==
  ASSUME TrieInv, SearchInv, PackInv, pc = "ready", CellsOK,
         NEW text \in Seq(Bytes), NEW n \in 1 .. Len(text), NEW at \in SearchStates,
         SearchAt(text, n - 1, at)
  PROVE  SearchAt(text, n, NextAt(at, text, n))
<1>1. /\ AllAdded /\ IsTree(Nodes) /\ Root \in Nodes /\ queue = <<>>
      /\ DOMAIN slot = Nodes /\ slot[Root] = 0
      /\ \A m, k \in Nodes : slot[m] = slot[k] => m = k
  BY TrieFacts, AllSlots DEF IsTree, PackInv
<1>2. /\ n \in Nat /\ n - 1 \in 0 .. Len(text) /\ n \in 0 .. Len(text) /\ n - 1 <= n
      /\ \A m \in 0 .. n - 1 : m \in 0 .. Len(text) /\ m \in 0 .. n /\ m <= n
  BY LenProperties
<1> DEFINE p == SubSeq(text, 1, n - 1)
<1>3. p \in Seq(Bytes) /\ text[n] \in Bytes /\ SubSeq(text, 1, n) = Append(p, text[n])
  BY PrefixNext
<1>4. CASE n > 1 /\ Over(at.best, at.state)
  <2>1. NextAt(at, text, n) = at
    BY <1>4 DEF NextAt
  <2>2. at.state = 0 /\ at.best.token # AC_INVALID_TOKEN
    BY <1>4 DEF Over
  <2>3. PICK m \in 0 .. n - 1 : Longest(Nodes, SubSeq(text, 1, m), Root) /\ BestUpTo(text, m, at.best)
    <3>1. CASE \E e : Longest(Nodes, p, e) /\ at.state = slot[e]
      <4>1. PICK e : Longest(Nodes, p, e) /\ at.state = slot[e]
        BY <3>1
      <4>2. e = Root
        BY <1>1, <2>2, <4>1 DEF Longest
      <4>3. n - 1 \in 0 .. n - 1
        BY <1>2
      <4> QED BY <4>1, <4>2, <4>3 DEF SearchAt
    <3> QED BY <3>1 DEF SearchAt
  <2>4. m \in 0 .. Len(text) /\ m \in 0 .. n /\ m <= n
    BY <1>2
  <2>5. BestUpTo(text, n, at.best)
    BY <1>1, <1>2, <2>2, <2>3, <2>4, BestStays
  <2>6. n >= 1
    BY <1>2
  <2> QED BY <2>1, <2>2, <2>3, <2>4, <2>5, <2>6 DEF SearchAt
<1>5. CASE ~(n > 1 /\ Over(at.best, at.state))
  <2>1. PICK e : Longest(Nodes, p, e) /\ at.state = slot[e]
    <3>1. ~(n - 1 >= 1 /\ at.state = 0 /\ at.best.token # AC_INVALID_TOKEN)
      BY <1>2, <1>5 DEF Over
    <3> QED BY <3>1 DEF SearchAt
  <2> DEFINE s == Step(at.state, text[n])
             chain == Chain(cells[s].output)
             new == BestOf(chain, at.best, n)
  <2>2. e \in Nodes
    BY <2>1 DEF Longest
  <2>3. PICK g : Longest(Nodes, Append(e, text[n]), g) /\ s = slot[g] /\ Matches(g, chain)
    BY <1>3, <2>1, <2>2, SearchMoves
  <2>4. Longest(Nodes, SubSeq(text, 1, n), g)
    <3> DEFINE x == text[n]
    <3>1. IsTree(Nodes) /\ p \in Seq(Bytes) /\ x \in Bytes /\ Longest(Nodes, p, e) /\ Longest(Nodes, Append(e, x), g)
      BY <1>1, <1>3, <2>1, <2>3
    <3> HIDE DEF p, x
    <3>2. Longest(Nodes, Append(p, x), g)
      BY <3>1, LongestNext
    <3> QED BY <1>3, <3>2 DEF x
  <2> HIDE DEF chain
  <2>5. BestUpTo(text, n - 1, at.best)
    BY DEF SearchAt
  <2>6. BestUpTo(text, n, new)
    BY <1>1, <2>3, <2>4, <2>5, BestStep
  <2>7. NextAt(at, text, n) = [state |-> s, best |-> new]
    BY <1>5 DEF NextAt, chain
  <2> HIDE DEF s, new
  <2> QED BY <2>3, <2>4, <2>6, <2>7 DEF SearchAt
<1> QED BY <1>4, <1>5

(* The search of the code: it has gone through all bytes, or stopped when  *)
(* that makes no difference.                                               *)
LEMMA SearchFinds ==
  ASSUME TrieInv, SearchInv, PackInv, pc = "ready", CellsOK, NEW text \in Seq(Bytes)
  PROVE  BestUpTo(text, Len(text), LeftmostLongest(text))
<1> DEFINE N == Len(text)
           first == [state |-> 0, best |-> NoBest]
           Equation(f) == f = [n \in 0 .. N |-> IF n = 0 THEN first ELSE NextAt(f[n - 1], text, n)]
           at == CHOOSE f : Equation(f)
<1>1. /\ N \in Nat /\ AllAdded /\ Root \in Nodes /\ slot[Root] = 0 /\ IsTree(Nodes)
  BY LenProperties, TrieFacts, AllSlots DEF IsTree, PackInv
<1>2. NoBest \in BestRecords
  BY DEF NoBest, BestRecords
<1>3. first \in SearchStates
  BY <1>1, <1>2 DEF SearchStates
<1> HIDE DEF first
<1>4. ASSUME NEW n \in 1 .. N, NEW x \in SearchStates PROVE NextAt(x, text, n) \in SearchStates
  BY SearchTyped
<1>5. \E f : Equation(f)
  <2> DEFINE step == [p \in (1 .. N) \X SearchStates |-> NextAt(p[2], text, p[1])]
  <2>1. StepsIn(step, N, SearchStates)
    <3>1. ASSUME NEW n \in 1 .. N, NEW x \in SearchStates PROVE step[<<n, x>>] \in SearchStates
      <4>1. <<n, x>> \in (1 .. N) \X SearchStates
        OBVIOUS
      <4>2. step[<<n, x>>] = NextAt(x, text, n)
        BY <4>1
      <4> QED BY <1>4, <4>2
    <3> HIDE DEF step, N
    <3> QED BY <3>1 DEF StepsIn
  <2> HIDE DEF at
  <2>2. PICK f : Recursion(f, first, step, N, SearchStates)
    <3> HIDE DEF step, N
    <3> QED BY <1>1, <1>3, <2>1, RecursionExists
  <2>3. \A n \in 0 .. N : f[n] = IF n = 0 THEN first ELSE NextAt(f[n - 1], text, n)
    <3> SUFFICES ASSUME NEW n \in 1 .. N PROVE f[n] = NextAt(f[n - 1], text, n)
      BY <1>1, <2>2 DEF Recursion
    <3>1. f[n] = step[<<n, f[n - 1]>>] /\ f[n - 1] \in SearchStates
      <4>1. n - 1 \in 0 .. N
        BY <1>1
      <4> HIDE DEF step, N
      <4> QED BY <2>2, <4>1 DEF Recursion
    <3>2. <<n, f[n - 1]>> \in (1 .. N) \X SearchStates
      BY <3>1
    <3> QED BY <3>1, <3>2
  <2>4. f = [n \in 0 .. N |-> f[n]]
    BY <2>2 DEF Recursion
  <2>5. Equation(f)
    <3> HIDE DEF step, N
    <3> QED BY <2>3, <2>4
  <2> QED BY <2>5
<1>6. \A n \in 0 .. N : at[n] = IF n = 0 THEN first ELSE NextAt(at[n - 1], text, n)
  <2>1. Equation(at)
    <3> HIDE DEF Equation
    <3> QED BY <1>5
  <2> HIDE DEF at
  <2> QED BY <2>1
<1>7. LeftmostLongest(text) = at[N].best
  BY SearchUnfolds DEF first
<1> HIDE DEF at, Equation
<1> DEFINE G == {n \in Nat : n <= N => at[n] \in SearchStates /\ SearchAt(text, n, at[n])}
<1>8. 0 \in G
  <2> DEFINE p == SubSeq(text, 1, 0)
  <2>1. at[0] = first /\ 0 \in 0 .. Len(text)
    BY <1>1, <1>6
  <2>2. p \in Seq(Bytes) /\ Len(p) = 0
    BY <2>1, PrefixOfWord
  <2>3. p = Root
    BY <2>2, EmptySeq DEF Root
  <2>4. Longest(Nodes, p, Root)
    BY <1>1, <2>3, LongestInTree
  <2>5. ASSUME NEW id \in DOMAIN words, NEW s \in Nat, NEW t \in Nat, Hit(text, id, s, t) PROVE ~(t <= 0)
    <3>1. t = s + Len(words[id]) /\ Len(words[id]) \in Nat \ {0}
      BY <2>5, TrieFacts DEF Hit
    <3> QED BY <3>1
  <2>6. BestUpTo(text, 0, NoBest)
    <3>1. NoBest.token = AC_INVALID_TOKEN
      BY DEF NoBest
    <3> QED BY <1>2, <2>5, <3>1 DEF BestUpTo
  <2>7. SearchAt(text, 0, first)
    BY <1>1, <2>4, <2>6 DEF SearchAt, first
  <2> QED BY <1>3, <2>1, <2>7
<1>9. ASSUME NEW n \in Nat, n \in G PROVE n + 1 \in G
  <2> SUFFICES ASSUME n + 1 <= N PROVE at[n + 1] \in SearchStates /\ SearchAt(text, n + 1, at[n + 1])
    OBVIOUS
  <2> DEFINE m == n + 1
  <2>1. m \in 1 .. N /\ m \in 0 .. N /\ m # 0 /\ m - 1 = n
    BY <1>1
  <2>2. at[n] \in SearchStates /\ SearchAt(text, n, at[n])
    BY <1>1, <1>9
  <2> HIDE DEF m
  <2>3. at[m] = NextAt(at[n], text, m) /\ SearchAt(text, m - 1, at[n])
    BY <1>6, <2>1, <2>2
  <2>4. at[m] \in SearchStates
    BY <1>4, <2>1, <2>2, <2>3
  <2>5. SearchAt(text, m, at[m])
    BY <2>1, <2>2, <2>3, SearchGoesOn
  <2> QED BY <2>4, <2>5 DEF m
<1>10. \A n \in Nat : n \in G
  <2> HIDE DEF G
  <2> QED BY <1>8, <1>9, SetInduction
<1>11. SearchAt(text, N, at[N])
  BY <1>1, <1>10
<1> HIDE DEF G
<1> QED BY <1>7, <1>11 DEF SearchAt

(* It is the match that the encoders ask for. *)
LEMMA ReadyFindsMatch == TrieInv /\ SearchInv /\ PackInv /\ ReadInv => SearchIsNextMatch
<1> SUFFICES ASSUME TrieInv, SearchInv, PackInv, ReadInv, pc = "ready"
             PROVE  LET best  == LeftmostLongest(read)
                        match == NextMatch(words, read, 0, Len(read))
                    IN  IF match = UINT32_MAX THEN best.token = AC_INVALID_TOKEN
                        ELSE /\ best.token # AC_INVALID_TOKEN
                             /\ words[best.token] = words[match]
                             /\ OccursAt(words[match], read, best.start, best.stop)
                             /\ \A s \in 0 .. best.start - 1, id \in DOMAIN words :
                                  ~OccursAt(words[id], read, s, Len(read))
  BY DEF SearchIsNextMatch
<1> DEFINE best  == LeftmostLongest(read)
           match == NextMatch(words, read, 0, Len(read))
           N     == Len(read)
           At(s)  == {id \in DOMAIN words : OccursAt(words[id], read, s, N)}
           starts == {s \in 0 .. N - 1 : At(s) # {}}
           first  == CHOOSE s \in starts : \A t \in starts : s <= t
           longest == CHOOSE id \in At(first) : \A other \in At(first) : Len(words[other]) <= Len(words[id])
<1>1. BestUpTo(read, N, best)
  BY SearchFinds DEF ReadInv
<1>2. match = IF starts = {} THEN UINT32_MAX ELSE longest
  BY DEF NextMatch
<1>3. N \in Nat
  BY LenProperties DEF ReadInv
<1>4. \A id \in DOMAIN words : words[id] \in Seq(Bytes) /\ Len(words[id]) \in Nat \ {0} /\ id # AC_INVALID_TOKEN
  BY TrieFacts DEF AreWords
<1> HIDE DEF best, match, longest, first
<1>5. ASSUME NEW id \in DOMAIN words, NEW s \in Nat, OccursAt(words[id], read, s, N)
      PROVE  Beaten(best, s, s + Len(words[id]))
  <2> DEFINE t == s + Len(words[id])
  <2>1. t \in Nat /\ t <= N /\ OccursAt(words[id], read, s, t)
    BY <1>4, <1>5 DEF OccursAt
  <2>2. Hit(read, id, s, t)
    BY <2>1 DEF Hit
  <2> HIDE DEF t
  <2>3. Beaten(best, s, t)
    BY <1>1, <2>1, <2>2 DEF BestUpTo
  <2> QED BY <2>3 DEF t
<1>6. CASE best.token = AC_INVALID_TOKEN
  <2>1. starts = {}
    <3> SUFFICES ASSUME NEW s \in 0 .. N - 1, NEW id \in DOMAIN words, OccursAt(words[id], read, s, N) PROVE FALSE
      OBVIOUS
    <3> QED BY <1>3, <1>5, <1>6 DEF Beaten
  <2> QED BY <1>2, <1>6, <2>1 DEF best, match
<1>7. CASE best.token # AC_INVALID_TOKEN
  <2> DEFINE b == best.token
             p == best.start
             w == words[b]
  <2>1. b \in DOMAIN words /\ p \in Nat /\ best.stop = p + Len(w) /\ best.stop <= N
        /\ OccursAt(w, read, p, best.stop)
    BY <1>1, <1>7 DEF BestUpTo, Hit
  <2>2. Len(w) \in Nat \ {0} /\ w \in Seq(Bytes)
    BY <1>4, <2>1
  <2> HIDE DEF b, p, w
  <2>3. OccursAt(w, read, p, N) /\ p \in 0 .. N - 1
    BY <1>3, <2>1, <2>2 DEF OccursAt
  <2>4. b \in At(p) /\ p \in starts
    BY <2>1, <2>3 DEF w
  <2>5. ASSUME NEW id \in DOMAIN words, NEW s \in Nat, OccursAt(words[id], read, s, N)
        PROVE  p <= s /\ (s = p => Len(words[id]) <= Len(w))
    <3>1. Beaten(best, s, s + Len(words[id]))
      BY <2>5, <1>5
    <3>2. p < s \/ (p = s /\ s + Len(words[id]) <= p + Len(w))
      BY <2>1, <3>1 DEF Beaten, p
    <3>3. Len(words[id]) \in Nat
      BY <1>4
    <3> QED BY <2>1, <2>2, <3>2, <3>3
  <2>6. \A t \in starts : p <= t /\ t \in Nat
    BY <1>3, <2>5
  <2>7. first = p
    <3>1. first \in starts /\ \A t \in starts : first <= t
      <4> HIDE DEF starts
      <4> QED BY <2>4, <2>6 DEF first
    <3>2. first <= p /\ p <= first /\ first \in Nat
      <4> HIDE DEF starts
      <4> QED BY <2>4, <2>6, <3>1
    <3> QED BY <2>1, <3>2
  <2>8. \A id \in At(p) : Len(words[id]) <= Len(w)
    BY <2>1, <2>5
  <2>9. longest \in At(p) /\ Len(w) <= Len(words[longest])
    <3>1. \E id \in At(p) : \A other \in At(p) : Len(words[other]) <= Len(words[id])
      <4> HIDE DEF At
      <4> QED BY <2>4, <2>8 DEF w
    <3>2. longest \in At(p) /\ \A other \in At(p) : Len(words[other]) <= Len(words[longest])
      <4> HIDE DEF At
      <4> QED BY <2>7, <3>1 DEF longest
    <3> HIDE DEF At
    <3> QED BY <2>4, <3>2 DEF w
  <2> DEFINE v == words[longest]
  <2>10. longest \in DOMAIN words /\ OccursAt(v, read, p, N)
    BY <2>9
  <2>11. v \in Seq(Bytes) /\ Len(v) \in Nat /\ longest # AC_INVALID_TOKEN
    BY <1>4, <2>10
  <2>12. Len(v) = Len(w)
    BY <2>2, <2>8, <2>9, <2>11
  <2> HIDE DEF v, At
  <2>13. \A k \in 1 .. Len(w) : w[k] = v[k]
    BY <2>3, <2>10, <2>12 DEF OccursAt
  <2>14. w = v
    BY <2>2, <2>11, <2>12, <2>13, SeqEqual
  <2>15. match = longest
    BY <1>2, <2>4
  <2>16. \A s \in 0 .. p - 1, id \in DOMAIN words : ~OccursAt(words[id], read, s, N)
    BY <2>1, <2>5
  <2>17. match # UINT32_MAX
    BY <2>11, <2>15 DEF AC_INVALID_TOKEN
  <2>18. words[match] = w
    BY <2>14, <2>15 DEF v
  <2> QED BY <1>7, <2>1, <2>16, <2>17, <2>18 DEF best, match, p, w, b
<1> QED BY <1>6, <1>7

(***************************************************************************)
(* The search that the encoders run finds, in any text and for any tokens, *)
(* the match that starts first and the longest of those, although it stops *)
(* in the root.                                                            *)
(***************************************************************************)
THEOREM SearchAlwaysNextMatch == Spec => []SearchIsNextMatch
<1>1. Init => ReadInv
  BY ReadInit
<1>2. TrieInv /\ SearchInv /\ PackInv /\ ReadInv /\ [Next]_vars => ReadInv'
  BY ReadStep
<1>3. TrieInv /\ SearchInv /\ PackInv /\ ReadInv => SearchIsNextMatch
  BY ReadyFindsMatch
<1> QED BY <1>1, <1>2, <1>3, BuildInvariance, PTL DEF Spec

-----------------------------------------------------------------------------
(* A well-formed array of slots.                                           *)

Used(s)    == {i \in DOMAIN s : ~IsEmpty(s[i])}
Entries(s) == {s[i] : i \in Used(s)}

Arrays(N) == [0 .. N - 1 -> [key : Keys \cup {0}, value : Nat]]

(***************************************************************************)
(* Every entry can be found: between the home slot of its key and its      *)
(* place there is no empty slot.  And no key is in two slots.              *)
(***************************************************************************)
WellFormed(s, hash_of, N) ==
  /\ s \in Arrays(N)
  /\ \A i \in Used(s) : s[i].key \in Keys
  /\ \A i, j \in Used(s) : s[i].key = s[j].key => i = j
  /\ \A i \in Used(s), d \in 0 .. N - 1 : (hash_of[s[i].key] + d) % N = i =>
       \A e \in 0 .. d - 1 : (hash_of[s[i].key] + e) % N \in Used(s)

LEMMA ArraySize ==
  ASSUME NEW N \in Nat, NEW s, DOMAIN s = 0 .. N - 1
  PROVE  SlotsOf(s) = N
<1>1. Cardinality(0 .. N - 1) = N
  <2>1. CASE N = 0
    BY <2>1, FS_Interval
  <2>2. CASE N # 0
    BY <2>2, FS_Interval
  <2> QED BY <2>1, <2>2
<1> QED BY <1>1 DEF SlotsOf

LEMMA EmptySlots ==
  ASSUME NEW N \in Nat \ {0}
  PROVE  /\ NewSlots(N) \in Arrays(N) /\ Used(NewSlots(N)) = {}
         /\ \A hash_of : WellFormed(NewSlots(N), hash_of, N)
<1>1. NewSlots(N) \in Arrays(N)
  BY Uint32MaxAssumption DEF NewSlots, Arrays, Slot
<1>2. Used(NewSlots(N)) = {}
  BY DEF NewSlots, Used, IsEmpty, Slot
<1> QED BY <1>1, <1>2 DEF WellFormed

(* The capacity of a new map. *)
LEMMA NewCapacityType ==
  ASSUME NEW initial_cap \in Nat
  PROVE  NewCapacity(initial_cap) \in Nat \ {0, 1}
<1> DEFINE Equation(f) == f = [n \in 0 .. initial_cap |->
                                 IF n = 0 THEN MinCapacity ELSE 2 * f[n - 1]]
           cap == CHOOSE f : Equation(f)
<1>1. \E f : Equation(f)
  <2> DEFINE
         step == [p \in (1 .. initial_cap) \X Nat |-> 2 * p[2]]
         Caps == Nat
  <2> HIDE DEF cap
  <2>1. StepsIn(step, initial_cap, Caps) /\ MinCapacity \in Caps
    BY CapacityAssumption DEF StepsIn
  <2>2. PICK f : Recursion(f, MinCapacity, step, initial_cap, Caps)
    <3> HIDE DEF step, Caps
    <3> QED BY <2>1, RecursionExists
  <2>3. \A n \in 0 .. initial_cap : f[n] = IF n = 0 THEN MinCapacity ELSE 2 * f[n - 1]
    <3> SUFFICES ASSUME NEW n \in 1 .. initial_cap PROVE f[n] = 2 * f[n - 1]
      BY <2>2 DEF Recursion
    <3>1. <<n, f[n - 1]>> \in (1 .. initial_cap) \X Nat
      BY <2>2 DEF Recursion
    <3> QED BY <2>2, <3>1 DEF Recursion
  <2>4. Equation(f)
    BY <2>2, <2>3 DEF Recursion
  <2> QED BY <2>4
<1>2. \A n \in 0 .. initial_cap : cap[n] = IF n = 0 THEN MinCapacity ELSE 2 * cap[n - 1]
  <2>1. Equation(cap)
    <3> HIDE DEF Equation
    <3> QED BY <1>1
  <2> HIDE DEF cap
  <2> QED BY <2>1
<1> HIDE DEF cap, Equation
<1>3. \A n \in 0 .. initial_cap : cap[n] \in Nat /\ cap[n] >= 2 * n + 2
  <2> DEFINE S == {n \in Nat : n <= initial_cap => cap[n] \in Nat /\ cap[n] >= 2 * n + 2}
  <2>1. 0 \in S
    BY <1>2, CapacityAssumption
  <2>2. ASSUME NEW n \in Nat, n \in S PROVE n + 1 \in S
    <3> SUFFICES ASSUME n + 1 <= initial_cap
                 PROVE  cap[n + 1] \in Nat /\ cap[n + 1] >= 2 * (n + 1) + 2
      OBVIOUS
    <3>1. cap[n] \in Nat /\ cap[n] >= 2 * n + 2
      BY <2>2
    <3>2. cap[n + 1] = 2 * cap[n]
      BY <1>2
    <3> QED BY <3>1, <3>2
  <2>3. \A n \in Nat : n \in S
    <3> HIDE DEF S
    <3> QED BY <2>1, <2>2, SetInduction
  <2> QED BY <2>3
<1> DEFINE Enough(n) == cap[n] >= 2 * initial_cap
           enough == {n \in 0 .. initial_cap : Enough(n)}
           first == CHOOSE n \in 0 .. initial_cap : Enough(n) /\ \A m \in 0 .. n - 1 : ~Enough(m)
<1>4. PICK n \in enough : \A m \in enough : n <= m
  <2>1. initial_cap \in enough
    BY <1>3
  <2>2. enough \in SUBSET Nat
    OBVIOUS
  <2> HIDE DEF enough
  <2> QED BY <2>1, <2>2, LeastExists
<1>5. first \in 0 .. initial_cap
  BY <1>4
<1>6. NewCapacity(initial_cap) = cap[first]
  BY DEF NewCapacity, cap, Equation
<1> HIDE DEF first
<1> QED BY <1>3, <1>5, <1>6

-----------------------------------------------------------------------------
(* The probe, and what it finds.                                           *)

(* The probe ends at the first stop from the home slot of the hash on. *)
EndsAtFirst(s, hash, stops, N) ==
  \E d \in 0 .. N - 1 :
    /\ Probe(s, hash, stops) = (hash + d) % N
    /\ (hash + d) % N \in stops
    /\ \A e \in 0 .. d - 1 : (hash + e) % N \notin stops

LEMMA ProbeFinds ==
  ASSUME NEW N \in Nat \ {0}, NEW s, DOMAIN s = 0 .. N - 1,
         NEW hash \in Nat, NEW stops, stops \subseteq 0 .. N - 1, stops # {}
  PROVE  EndsAtFirst(s, hash, stops, N)
<1> DEFINE At(d) == (hash + d) % N
           steps == {d \in 0 .. N - 1 : At(d) \in stops}
<1>1. SlotsOf(s) = N
  BY ArraySize
<1>2. steps # {} /\ steps \in SUBSET Nat
  <2>1. PICK i \in stops : TRUE
    OBVIOUS
  <2>2. \E d \in 0 .. N - 1 : At(d) = i
    BY RingOnce
  <2> HIDE DEF At
  <2> QED BY <2>1, <2>2
<1>3. PICK d \in steps : \A e \in steps : d <= e
  <2> HIDE DEF steps
  <2> QED BY <1>2, LeastExists
<1>4. Probe(s, hash, stops) = At(CHOOSE d1 \in steps : \A e \in steps : d1 <= e)
  BY <1>1 DEF Probe
<1> DEFINE least == CHOOSE d1 \in steps : \A e \in steps : d1 <= e
<1>5. least \in steps /\ \A e \in steps : least <= e
  <2> HIDE DEF steps
  <2> QED BY <1>3
<1>6. Probe(s, hash, stops) = At(least)
  BY <1>4
<1> HIDE DEF least, At
<1>7. least \in 0 .. N - 1 /\ At(least) \in stops
  BY <1>5
<1>8. \A e \in 0 .. least - 1 : At(e) \notin stops
  BY <1>5, <1>7
<1> QED BY <1>6, <1>7, <1>8 DEF At, EndsAtFirst

(* pairmap_get returns the value of an entry ... *)
LEMMA GetHit ==
  ASSUME NEW N \in Nat \ {0}, NEW hash_of \in [Keys -> Nat], NEW s, WellFormed(s, hash_of, N),
         NEW i \in Used(s)
  PROVE  Get(s, hash_of[s[i].key], s[i].key) = s[i].value
<1> DEFINE key == s[i].key
           hash == hash_of[key]
           stops == {j \in DOMAIN s : IsEmpty(s[j]) \/ s[j].key = key}
           At(d) == (hash + d) % N
<1>1. /\ DOMAIN s = 0 .. N - 1 /\ i \in 0 .. N - 1 /\ key \in Keys /\ hash \in Nat
      /\ i \in stops /\ stops \subseteq 0 .. N - 1
  BY DEF WellFormed, Arrays, Used
<1>2. PICK d \in 0 .. N - 1 : /\ Probe(s, hash, stops) = At(d) /\ At(d) \in stops
                              /\ \A e \in 0 .. d - 1 : At(e) \notin stops
  <2> HIDE DEF key, hash, stops
  <2>1. EndsAtFirst(s, hash, stops, N)
    BY <1>1, ProbeFinds
  <2> QED BY <2>1 DEF EndsAtFirst
<1>3. PICK e \in 0 .. N - 1 : At(e) = i
  <2> HIDE DEF hash
  <2> QED BY <1>1, RingOnce
<1> HIDE DEF At
<1>4. d <= e
  BY <1>1, <1>2, <1>3
<1>5. \A f \in 0 .. e - 1 : At(f) \in Used(s)
  BY <1>1, <1>3 DEF WellFormed, At
<1>6. At(d) \in Used(s)
  BY <1>3, <1>4, <1>5
<1>7. At(d) = i
  BY <1>2, <1>6 DEF Used, WellFormed
<1> QED BY <1>2, <1>7 DEF Get

(* ... and UINT32_MAX for a key that has none. *)
LEMMA GetMiss ==
  ASSUME NEW N \in Nat \ {0}, NEW hash_of \in [Keys -> Nat], NEW s, WellFormed(s, hash_of, N),
         Used(s) # 0 .. N - 1, NEW key \in Keys, \A i \in Used(s) : s[i].key # key
  PROVE  Get(s, hash_of[key], key) = UINT32_MAX
<1> DEFINE hash == hash_of[key]
           stops == {j \in DOMAIN s : IsEmpty(s[j]) \/ s[j].key = key}
<1>1. DOMAIN s = 0 .. N - 1 /\ hash \in Nat
  BY DEF WellFormed, Arrays
<1>2. \A j \in stops : IsEmpty(s[j])
  BY DEF Used
<1>3. stops # {} /\ stops \subseteq 0 .. N - 1
  BY <1>1 DEF Used
<1>4. Probe(s, hash, stops) \in stops
  <2> HIDE DEF hash, stops
  <2>1. EndsAtFirst(s, hash, stops, N)
    BY <1>1, <1>3, ProbeFinds
  <2> QED BY <2>1 DEF EndsAtFirst
<1>5. IsEmpty(s[Probe(s, hash, stops)])
  <2> HIDE DEF stops
  <2> QED BY <1>2, <1>4
<1> QED BY <1>5 DEF Get, IsEmpty

(***************************************************************************)
(* pairmap_insert puts a new entry into the first empty slot, which keeps  *)
(* the array well formed: no slot becomes empty again.                     *)
(***************************************************************************)
EntryAdded(s, t, key, value, N) ==
  \E p \in 0 .. N - 1 :
    /\ p \notin Used(s)
    /\ t = [s EXCEPT ![p] = Slot(key, value)]
    /\ Used(t) = Used(s) \cup {p}
    /\ Entries(t) = Entries(s) \cup {Slot(key, value)}

LEMMA InsertWellFormed ==
  ASSUME NEW N \in Nat \ {0}, NEW hash_of \in [Keys -> Nat], NEW s, WellFormed(s, hash_of, N),
         Used(s) # 0 .. N - 1, NEW key \in Keys, \A i \in Used(s) : s[i].key # key,
         NEW value \in Nat, value # UINT32_MAX
  PROVE  /\ WellFormed(WithEntry(s, hash_of[key], key, value), hash_of, N)
         /\ EntryAdded(s, WithEntry(s, hash_of[key], key, value), key, value, N)
<1> DEFINE hash == hash_of[key]
           t == WithEntry(s, hash, key, value)
           At(d) == (hash + d) % N
<1>1. s \in Arrays(N) /\ DOMAIN s = 0 .. N - 1 /\ hash \in Nat /\ Used(s) \in SUBSET (0 .. N - 1)
  BY DEF WellFormed, Arrays, Used
<1>2. EmptyPlaces(s) = (0 .. N - 1) \ Used(s)
  BY <1>1 DEF EmptyPlaces, Used
<1>3. EmptyPlaces(s) # {} /\ EmptyPlaces(s) \subseteq 0 .. N - 1
  BY <1>1, <1>2
<1>4. PICK d \in 0 .. N - 1 :
        /\ Probe(s, hash, EmptyPlaces(s)) = At(d) /\ At(d) \in EmptyPlaces(s)
        /\ \A e \in 0 .. d - 1 : At(e) \notin EmptyPlaces(s)
  <2> HIDE DEF hash
  <2>1. EndsAtFirst(s, hash, EmptyPlaces(s), N)
    BY <1>1, <1>3, ProbeFinds
  <2> QED BY <2>1 DEF EndsAtFirst
<1> DEFINE p == At(d)
<1>5. p \in 0 .. N - 1 /\ p \notin Used(s) /\ t = [s EXCEPT ![p] = Slot(key, value)]
  BY <1>2, <1>4 DEF WithEntry
<1>6. \A e \in 0 .. d - 1 : At(e) \in Used(s)
  <2>1. \A e \in 0 .. d - 1 : e \in 0 .. N - 1
    OBVIOUS
  <2>2. \A e \in 0 .. d - 1 : At(e) \in 0 .. N - 1
    <3> HIDE DEF hash
    <3> QED BY <1>1, <2>1, RingOnce
  <2> HIDE DEF At
  <2> QED BY <1>2, <1>4, <2>2
<1>7. \A e \in 0 .. N - 1 : At(e) = p => e = d
  <2> HIDE DEF hash
  <2> QED BY <1>1, RingOnce
<1> HIDE DEF At, t
<1>8. t[p] = Slot(key, value) /\ \A i \in 0 .. N - 1 : i # p => t[i] = s[i]
  BY <1>1, <1>5
<1>9. t \in Arrays(N) /\ DOMAIN t = 0 .. N - 1
  <2>1. Slot(key, value) \in [key : Keys \cup {0}, value : Nat]
    BY DEF Slot
  <2> QED BY <1>1, <1>5, <2>1 DEF Arrays
<1> HIDE DEF p
<1>10. Used(t) = Used(s) \cup {p}
  <2>1. ~IsEmpty(t[p])
    BY <1>8 DEF IsEmpty, Slot
  <2>2. \A i \in 0 .. N - 1 : i # p => (IsEmpty(t[i]) <=> IsEmpty(s[i]))
    BY <1>8
  <2> QED BY <1>1, <1>5, <1>9, <2>1, <2>2 DEF Used
<1>11. \A i \in Used(s) : t[i] = s[i]
  BY <1>1, <1>5, <1>8
<1>12. Entries(t) = Entries(s) \cup {Slot(key, value)}
  BY <1>8, <1>10, <1>11 DEF Entries
<1>13. t[p].key = key
  BY <1>8 DEF Slot
<1>14. WellFormed(t, hash_of, N)
  <2>1. \A i \in Used(t) : t[i].key \in Keys
    BY <1>10, <1>11, <1>13 DEF WellFormed
  <2>2. \A i, j \in Used(t) : t[i].key = t[j].key => i = j
    BY <1>10, <1>11, <1>13 DEF WellFormed
  <2>3. ASSUME NEW i \in Used(t), NEW f \in 0 .. N - 1, (hash_of[t[i].key] + f) % N = i,
               NEW e \in 0 .. f - 1
        PROVE  (hash_of[t[i].key] + e) % N \in Used(t)
    <3>1. CASE i = p
      <4>1. At(f) = p
        BY <1>13, <2>3, <3>1 DEF At
      <4>2. f = d
        BY <1>7, <4>1
      <4>3. At(e) \in Used(s)
        BY <1>6, <4>2
      <4> QED BY <1>10, <1>13, <3>1, <4>3 DEF At
    <3>2. CASE i \in Used(s)
      BY <1>10, <1>11, <2>3, <3>2 DEF WellFormed
    <3> QED BY <1>10, <3>1, <3>2
  <2> QED BY <1>9, <2>1, <2>2, <2>3 DEF WellFormed
<1>15. EntryAdded(s, t, key, value, N)
  BY <1>5, <1>10, <1>12 DEF EntryAdded
<1> QED BY <1>14, <1>15 DEF t

-----------------------------------------------------------------------------
(* pairmap_grow.                                                           *)

(* The old entries in the slots D are in the new array. *)
Moved(s, t, hash_of, N, D) ==
  /\ WellFormed(t, hash_of, 2 * N)
  /\ Entries(t) = {s[i] : i \in D}
  /\ IsFiniteSet(Used(t))
  /\ Cardinality(Used(t)) = Cardinality(D)

UsedBelow(s, n) == Used(s) \cap (0 .. n - 1)

LEMMA SomeEmpty ==
  ASSUME NEW N \in Nat, NEW S, S \subseteq 0 .. N - 1, Cardinality(S) < N
  PROVE  S # 0 .. N - 1
<1>1. Cardinality(0 .. N - 1) = N
  <2>1. CASE N = 0
    BY <2>1, FS_Interval
  <2>2. CASE N # 0
    BY <2>2, FS_Interval
  <2> QED BY <2>1, <2>2
<1> QED BY <1>1

LEMMA UsedCount ==
  ASSUME NEW N \in Nat, NEW s, DOMAIN s = 0 .. N - 1, NEW n \in 0 .. N
  PROVE  /\ IsFiniteSet(Used(s)) /\ Cardinality(Used(s)) \in 0 .. N
         /\ IsFiniteSet(UsedBelow(s, n))
         /\ Cardinality(UsedBelow(s, n)) \in 0 .. n
<1>1. \A m \in Nat : IsFiniteSet(0 .. m - 1) /\ Cardinality(0 .. m - 1) = m
  <2> SUFFICES ASSUME NEW m \in Nat PROVE IsFiniteSet(0 .. m - 1) /\ Cardinality(0 .. m - 1) = m
    OBVIOUS
  <2>1. CASE m = 0
    BY <2>1, FS_Interval
  <2>2. CASE m # 0
    BY <2>2, FS_Interval
  <2> QED BY <2>1, <2>2
<1>2. Used(s) \subseteq 0 .. N - 1 /\ UsedBelow(s, n) \subseteq 0 .. n - 1 /\ n \in Nat
  BY DEF Used, UsedBelow
<1>3. /\ IsFiniteSet(Used(s)) /\ Cardinality(Used(s)) <= N
      /\ IsFiniteSet(UsedBelow(s, n)) /\ Cardinality(UsedBelow(s, n)) <= n
  BY <1>1, <1>2, FS_Subset
<1> QED BY <1>3, FS_CardinalityType

(* One round of the loop of pairmap_grow. *)
LEMMA MoveOne ==
  ASSUME NEW N \in Nat \ {0}, NEW hash_of \in [Keys -> Nat], NEW s, WellFormed(s, hash_of, N),
         NEW n \in 0 .. N - 1, NEW t, Moved(s, t, hash_of, N, UsedBelow(s, n))
  PROVE  Moved(s, IF IsEmpty(s[n]) THEN t ELSE WithEntry(t, hash_of[s[n].key], s[n].key, s[n].value),
               hash_of, N, UsedBelow(s, n + 1))
<1> DEFINE before == UsedBelow(s, n)
           after  == UsedBelow(s, n + 1)
<1>1. DOMAIN s = 0 .. N - 1 /\ 2 * N \in Nat \ {0}
  BY DEF WellFormed, Arrays
<1>2. CASE IsEmpty(s[n])
  <2>1. after = before
    BY <1>2 DEF Used, UsedBelow
  <2> QED BY <1>2, <2>1
<1>3. CASE ~IsEmpty(s[n])
  <2>1. n \in Used(s) /\ n \notin before /\ after = before \cup {n}
    BY <1>1, <1>3 DEF Used, UsedBelow
  <2>2. /\ s[n].key \in Keys /\ s[n].value \in Nat /\ s[n].value # UINT32_MAX
        /\ s[n] = Slot(s[n].key, s[n].value)
    BY <1>1, <1>3, <2>1 DEF WellFormed, Arrays, IsEmpty, Slot
  <2>3. \A i \in Used(t) : t[i].key # s[n].key
    <3> SUFFICES ASSUME NEW i \in Used(t), t[i].key = s[n].key PROVE FALSE
      OBVIOUS
    <3>1. t[i] \in Entries(t)
      BY DEF Entries
    <3>2. PICK j \in before : t[i] = s[j]
      BY <3>1 DEF Moved
    <3>3. j = n
      BY <2>1, <3>2 DEF WellFormed, UsedBelow
    <3> QED BY <2>1, <3>2, <3>3
  <2>4. /\ IsFiniteSet(before) /\ Cardinality(before) \in 0 .. n
        /\ Cardinality(after) = Cardinality(before) + 1
    <3>1. n \in 0 .. N
      OBVIOUS
    <3>2. IsFiniteSet(before) /\ Cardinality(before) \in 0 .. n
      BY <1>1, <3>1, UsedCount
    <3> QED BY <2>1, <3>2, FS_AddElement
  <2>5. Used(t) # 0 .. 2 * N - 1
    <3>1. Used(t) \subseteq 0 .. 2 * N - 1
      BY DEF Moved, WellFormed, Arrays, Used
    <3>2. Cardinality(Used(t)) < 2 * N
      BY <2>4 DEF Moved
    <3> QED BY <1>1, <3>1, <3>2, SomeEmpty
  <2> DEFINE u == WithEntry(t, hash_of[s[n].key], s[n].key, s[n].value)
  <2>6. WellFormed(u, hash_of, 2 * N) /\ EntryAdded(t, u, s[n].key, s[n].value, 2 * N)
    <3>1. WellFormed(t, hash_of, 2 * N)
      BY DEF Moved
    <3> QED BY <1>1, <2>2, <2>3, <2>5, <3>1, InsertWellFormed
  <2> HIDE DEF u
  <2>7. PICK p : p \notin Used(t) /\ Used(u) = Used(t) \cup {p} /\ Entries(u) = Entries(t) \cup {s[n]}
    BY <2>2, <2>6 DEF EntryAdded
  <2>8. Entries(u) = {s[i] : i \in after}
    BY <2>1, <2>7 DEF Moved
  <2>9. IsFiniteSet(Used(u)) /\ Cardinality(Used(u)) = Cardinality(after)
    <3>1. IsFiniteSet(Used(t)) /\ Cardinality(Used(t)) = Cardinality(before)
      BY DEF Moved
    <3> QED BY <2>4, <2>7, <3>1, FS_AddElement
  <2>10. Moved(s, u, hash_of, N, UsedBelow(s, n + 1))
    BY <2>6, <2>8, <2>9 DEF Moved
  <2> QED BY <1>3, <2>10 DEF u
<1> QED BY <1>2, <1>3

(* Growing keeps every entry, and makes room for as many again. *)
LEMMA DoubledKeeps ==
  ASSUME NEW N \in Nat \ {0}, NEW hash_of \in [Keys -> Nat], NEW s, WellFormed(s, hash_of, N)
  PROVE  Moved(s, Doubled(s, hash_of), hash_of, N, UsedBelow(s, N))
<1> DEFINE Insert(t, n) ==
             IF IsEmpty(s[n - 1]) THEN t
             ELSE WithEntry(t, hash_of[s[n - 1].key], s[n - 1].key, s[n - 1].value)
           Equation(f) == f = [n \in 0 .. N |->
                                 IF n = 0 THEN NewSlots(2 * N) ELSE Insert(f[n - 1], n)]
           moved == CHOOSE f : Equation(f)
<1>1. DOMAIN s = 0 .. N - 1 /\ SlotsOf(s) = N /\ 2 * N \in Nat \ {0} /\ s \in Arrays(N)
  BY ArraySize DEF WellFormed, Arrays
<1>2. \E f : Equation(f)
  <2> DEFINE step == [p \in (1 .. N) \X Arrays(2 * N) |-> Insert(p[2], p[1])]
  <2>1. StepsIn(step, N, Arrays(2 * N)) /\ NewSlots(2 * N) \in Arrays(2 * N)
    <3>1. ASSUME NEW n \in 1 .. N, NEW t \in Arrays(2 * N) PROVE Insert(t, n) \in Arrays(2 * N)
      <4>1. CASE IsEmpty(s[n - 1])
        BY <4>1
      <4>2. CASE ~IsEmpty(s[n - 1])
        <5>1. s[n - 1] \in [key : Keys \cup {0}, value : Nat]
          BY <1>1 DEF Arrays
        <5>2. Slot(s[n - 1].key, s[n - 1].value) \in [key : Keys \cup {0}, value : Nat]
          BY <5>1 DEF Slot
        <5> QED BY <4>2, <5>2 DEF WithEntry, Arrays
      <4> HIDE DEF Insert
      <4> QED BY <4>1, <4>2
    <3> HIDE DEF Insert
    <3> QED BY <1>1, <3>1, EmptySlots DEF StepsIn
  <2>2. PICK f : Recursion(f, NewSlots(2 * N), step, N, Arrays(2 * N))
    <3> HIDE DEF step
    <3> QED BY <2>1, RecursionExists
  <2> HIDE DEF Insert
  <2>3. \A n \in 0 .. N : f[n] = IF n = 0 THEN NewSlots(2 * N) ELSE Insert(f[n - 1], n)
    <3> SUFFICES ASSUME NEW n \in 1 .. N PROVE f[n] = Insert(f[n - 1], n)
      BY <2>2 DEF Recursion
    <3>1. <<n, f[n - 1]>> \in (1 .. N) \X Arrays(2 * N)
      BY <2>2 DEF Recursion
    <3>2. f[n] = step[<<n, f[n - 1]>>]
      BY <2>2 DEF Recursion
    <3> QED BY <3>1, <3>2
  <2>4. DOMAIN f = 0 .. N /\ f = [n \in DOMAIN f |-> f[n]]
    BY <2>2 DEF Recursion
  <2>5. Equation(f)
    BY <2>3, <2>4
  <2> HIDE DEF Equation
  <2> QED BY <2>5
<1>3. \A n \in 0 .. N : moved[n] = IF n = 0 THEN NewSlots(2 * N) ELSE Insert(moved[n - 1], n)
  <2>1. Equation(moved)
    <3> HIDE DEF Equation
    <3> QED BY <1>2
  <2> HIDE DEF moved, Insert
  <2> QED BY <2>1
<1>4. Doubled(s, hash_of) = moved[N]
  BY <1>1 DEF Doubled
<1> HIDE DEF moved, Equation
<1>5. \A n \in Nat : n <= N => Moved(s, moved[n], hash_of, N, UsedBelow(s, n))
  <2> DEFINE Done == {n \in Nat : n <= N => Moved(s, moved[n], hash_of, N, UsedBelow(s, n))}
  <2>1. 0 \in Done
    <3>1. moved[0] = NewSlots(2 * N)
      BY <1>3
    <3>2. WellFormed(moved[0], hash_of, 2 * N) /\ Used(moved[0]) = {}
      BY <1>1, <3>1, EmptySlots
    <3>3. UsedBelow(s, 0) = {}
      BY DEF UsedBelow
    <3>4. Moved(s, moved[0], hash_of, N, UsedBelow(s, 0))
      BY <3>2, <3>3, FS_EmptySet DEF Moved, Entries
    <3> QED BY <3>4
  <2>2. ASSUME NEW n \in Nat, n \in Done PROVE n + 1 \in Done
    <3> SUFFICES ASSUME n + 1 <= N PROVE Moved(s, moved[n + 1], hash_of, N, UsedBelow(s, n + 1))
      OBVIOUS
    <3>1. n \in 0 .. N - 1 /\ Moved(s, moved[n], hash_of, N, UsedBelow(s, n))
      BY <2>2
    <3>2. moved[n + 1] = Insert(moved[n], n + 1) /\ n + 1 - 1 = n
      <4> HIDE DEF Insert
      <4> QED BY <1>3
    <3>3. moved[n + 1] = IF IsEmpty(s[n]) THEN moved[n]
                         ELSE WithEntry(moved[n], hash_of[s[n].key], s[n].key, s[n].value)
      BY <3>2
    <3> QED BY <3>1, <3>3, MoveOne
  <2> HIDE DEF Done
  <2>3. \A n \in Nat : n \in Done
    BY <2>1, <2>2, SetInduction
  <2> QED BY <2>3 DEF Done
<1> QED BY <1>4, <1>5

-----------------------------------------------------------------------------
(* The inductive invariant.                                                *)

(***************************************************************************)
(* The array is well formed, count is the number of its entries, and after *)
(* an insertion at most one more than half of the slots are used: before   *)
(* the next one there is room, or the map grows.                           *)
(***************************************************************************)
PairInv ==
  /\ pairmap_hash \in [Keys -> Nat]
  /\ SlotsOf(slots) \in Nat \ {0, 1}
  /\ WellFormed(slots, pairmap_hash, SlotsOf(slots))
  /\ count = Cardinality(Used(slots))
  /\ 2 * count <= SlotsOf(slots) + 1

LEMMA InitPairInv == InitPairs => PairInv /\ Used(slots) = {}
<1> SUFFICES ASSUME InitPairs PROVE PairInv /\ Used(slots) = {}
  OBVIOUS
<1>1. PICK cap \in FirstCaps : slots = NewSlots(NewCapacity(cap))
  BY DEF InitPairs
<1> DEFINE N == NewCapacity(cap)
<1>2. N \in Nat \ {0, 1}
  BY NewCapacityType, KeysAssumption
<1> HIDE DEF N
<1>3. slots = NewSlots(N)
  BY <1>1 DEF N
<1>4. /\ slots \in Arrays(N) /\ Used(slots) = {} /\ WellFormed(slots, pairmap_hash, N)
  BY <1>2, <1>3, EmptySlots
<1>5. SlotsOf(slots) = N
  BY <1>2, <1>4, ArraySize DEF Arrays
<1>6. pairmap_hash \in [Keys -> Nat] /\ count = 0
  BY KeysAssumption DEF InitPairs
<1>7. count = Cardinality(Used(slots))
  BY <1>4, <1>6, FS_EmptySet
<1> QED BY <1>2, <1>4, <1>5, <1>6, <1>7 DEF PairInv

(* Some slot is empty. *)
LEMMA SomeRoom ==
  ASSUME NEW N \in Nat \ {0, 1}, NEW s, DOMAIN s = 0 .. N - 1,
         2 * Cardinality(Used(s)) <= N + 1
  PROVE  /\ IsFiniteSet(Used(s)) /\ Cardinality(Used(s)) \in Nat
         /\ Cardinality(Used(s)) < N /\ Used(s) # 0 .. N - 1
<1>1. IsFiniteSet(Used(s)) /\ Cardinality(Used(s)) \in 0 .. N
  BY UsedCount
<1>2. Cardinality(Used(s)) < N
  BY <1>1
<1>3. Used(s) \subseteq 0 .. N - 1
  BY DEF Used
<1>4. Used(s) # 0 .. N - 1
  BY <1>2, <1>3, SomeEmpty
<1> QED BY <1>1, <1>2, <1>4

LEMMA RoomLeft ==
  ASSUME PairInv
  PROVE  /\ DOMAIN slots = 0 .. SlotsOf(slots) - 1
         /\ IsFiniteSet(Used(slots)) /\ count \in Nat /\ count < SlotsOf(slots)
         /\ Used(slots) # 0 .. SlotsOf(slots) - 1
<1>1. DOMAIN slots = 0 .. SlotsOf(slots) - 1
  BY DEF PairInv, WellFormed, Arrays
<1> QED BY <1>1, SomeRoom DEF PairInv

(* An entry for the key, or none: pairmap_get tells. *)
LEMMA GetTells ==
  ASSUME NEW N \in Nat \ {0}, NEW hash_of \in [Keys -> Nat], NEW s, WellFormed(s, hash_of, N),
         Used(s) # 0 .. N - 1, NEW key \in Keys
  PROVE  /\ \A entry \in Entries(s) : entry.key = key =>
              Get(s, hash_of[key], key) = entry.value /\ entry.value # UINT32_MAX
         /\ (\A entry \in Entries(s) : entry.key # key) =>
              Get(s, hash_of[key], key) = UINT32_MAX
<1>1. ASSUME NEW i \in Used(s), s[i].key = key
      PROVE  Get(s, hash_of[key], key) = s[i].value /\ s[i].value # UINT32_MAX
  <2>1. Get(s, hash_of[s[i].key], s[i].key) = s[i].value
    BY GetHit
  <2> QED BY <1>1, <2>1 DEF Used, IsEmpty
<1>2. ASSUME \A entry \in Entries(s) : entry.key # key
      PROVE  Get(s, hash_of[key], key) = UINT32_MAX
  <2>1. \A i \in Used(s) : s[i].key # key
    BY <1>2 DEF Entries
  <2> QED BY <2>1, GetMiss
<1> QED BY <1>1, <1>2 DEF Entries

(* The array into which pairmap_insert inserts. *)
LEMMA RoomFacts ==
  ASSUME PairInv,
         NEW room, room = IF TooFull THEN Doubled(slots, pairmap_hash) ELSE slots
  PROVE  \E M \in Nat \ {0, 1} :
           /\ WellFormed(room, pairmap_hash, M)
           /\ Entries(room) = Entries(slots)
           /\ Cardinality(Used(room)) = count /\ IsFiniteSet(Used(room))
           /\ 2 * (count + 1) <= M + 1
<1> DEFINE N == SlotsOf(slots)
<1>1. /\ N \in Nat \ {0, 1} /\ pairmap_hash \in [Keys -> Nat] /\ count \in Nat
      /\ WellFormed(slots, pairmap_hash, N) /\ 2 * count <= N + 1
      /\ Cardinality(Used(slots)) = count /\ IsFiniteSet(Used(slots))
      /\ DOMAIN slots = 0 .. N - 1
  BY RoomLeft DEF PairInv
<1>2. TooFull <=> 2 * count >= N
  BY <1>1 DEF TooFull
<1> HIDE DEF N
<1>3. CASE TooFull
  <2>1. Moved(slots, room, pairmap_hash, N, UsedBelow(slots, N))
    BY <1>1, <1>3, DoubledKeeps
  <2>2. UsedBelow(slots, N) = Used(slots)
    BY <1>1 DEF UsedBelow, Used
  <2>3. Moved(slots, room, pairmap_hash, N, Used(slots))
    BY <2>1, <2>2
  <2>4. Entries(room) = Entries(slots)
    BY <2>3 DEF Moved, Entries
  <2>5. 2 * N \in Nat \ {0, 1} /\ 2 * (count + 1) <= 2 * N + 1
    BY <1>1
  <2> QED BY <1>1, <2>3, <2>4, <2>5 DEF Moved
<1>4. CASE ~TooFull
  <2>1. 2 * (count + 1) <= N + 1
    BY <1>1, <1>2, <1>4
  <2> QED BY <1>1, <1>4, <2>1
<1> QED BY <1>3, <1>4

(***************************************************************************)
(* What an insertion does to the invariant and to the entries.  The number *)
(* of entries is below the number of keys, for no key has two.             *)
(***************************************************************************)
LEMMA InsertStep ==
  ASSUME PairInv, NEW key \in Keys, PairInsert(key, count)
  PROVE  /\ PairInv'
         /\ Entries(slots)' = Entries(slots) \cup {Slot(key, count)}
         /\ \A entry \in Entries(slots) : entry.key # key
         /\ count \in 0 .. Cardinality(Keys) - 1 /\ count # UINT32_MAX
<1> DEFINE N == SlotsOf(slots)
           room == IF TooFull THEN Doubled(slots, pairmap_hash) ELSE slots
<1>1. /\ N \in Nat \ {0, 1} /\ pairmap_hash \in [Keys -> Nat] /\ count \in Nat
      /\ WellFormed(slots, pairmap_hash, N)
      /\ Cardinality(Used(slots)) = count /\ IsFiniteSet(Used(slots))
      /\ Used(slots) # 0 .. N - 1
  BY RoomLeft DEF PairInv
<1>2. /\ slots' = WithEntry(room, pairmap_hash[key], key, count)
      /\ count' = count + 1 /\ pairmap_hash' = pairmap_hash
      /\ Get(slots, pairmap_hash[key], key) = UINT32_MAX
  BY DEF PairInsert, PairGet
<1> HIDE DEF N
<1>3. \A entry \in Entries(slots) : entry.key # key
  BY <1>1, <1>2, GetTells
<1>4. count \in 0 .. Cardinality(Keys) - 1 /\ count # UINT32_MAX
  <2> DEFINE keyOf == [i \in Used(slots) |-> slots[i].key]
  <2>1. keyOf \in [Used(slots) -> Keys \ {key}]
    BY <1>1, <1>3 DEF WellFormed, Entries
  <2>2. keyOf \in Injection(Used(slots), Keys \ {key})
    <3>1. \A i, j \in Used(slots) : slots[i].key = slots[j].key => i = j
      BY <1>1 DEF WellFormed
    <3> QED BY <2>1, <3>1 DEF Injection, IsInjective
  <2> HIDE DEF keyOf
  <2>3. /\ IsFiniteSet(Keys \ {key}) /\ Cardinality(Keys \ {key}) = Cardinality(Keys) - 1
        /\ Cardinality(Keys) \in Nat
    BY KeysAssumption, FS_RemoveElement, FS_CardinalityType
  <2>4. Cardinality(Used(slots)) <= Cardinality(Keys \ {key})
    BY <2>2, <2>3, FS_Injection
  <2> QED BY <1>1, <2>3, <2>4, KeysAssumption, Uint32MaxAssumption
<1>5. PICK M \in Nat \ {0, 1} :
        /\ WellFormed(room, pairmap_hash, M)
        /\ Entries(room) = Entries(slots)
        /\ Cardinality(Used(room)) = count /\ IsFiniteSet(Used(room))
        /\ 2 * (count + 1) <= M + 1
  BY RoomFacts
<1> HIDE DEF room
<1>6. \A i \in Used(room) : room[i].key # key
  <2>1. \A i \in Used(room) : room[i] \in Entries(slots)
    BY <1>5 DEF Entries
  <2> QED BY <1>3, <2>1
<1>7. Used(room) # 0 .. M - 1
  <2>1. Used(room) \subseteq 0 .. M - 1
    BY <1>5 DEF WellFormed, Arrays, Used
  <2>2. Cardinality(Used(room)) < M
    BY <1>1, <1>5
  <2> QED BY <1>5, <2>1, <2>2, SomeEmpty
<1>8. WellFormed(slots', pairmap_hash, M) /\ EntryAdded(room, slots', key, count, M)
  BY <1>1, <1>2, <1>4, <1>5, <1>6, <1>7, InsertWellFormed
<1>9. Entries(slots)' = Entries(slots) \cup {Slot(key, count)}
  BY <1>5, <1>8 DEF EntryAdded, Entries, Used
<1>10. Cardinality(Used(slots')) = count + 1
  <2>1. PICK p : p \notin Used(room) /\ Used(slots') = Used(room) \cup {p}
    BY <1>8 DEF EntryAdded
  <2> QED BY <1>5, <2>1, FS_AddElement
<1>11. SlotsOf(slots') = M
  BY <1>5, <1>8, ArraySize DEF WellFormed, Arrays
<1>12. PairInv'
  BY <1>1, <1>2, <1>5, <1>8, <1>10, <1>11 DEF PairInv
<1> QED BY <1>3, <1>4, <1>9, <1>12

LEMMA NextPairInv == PairInv /\ [NextPairs]_pairMap => PairInv'
<1> SUFFICES ASSUME PairInv, [NextPairs]_pairMap PROVE PairInv'
  OBVIOUS
<1>1. CASE NextPairs
  BY <1>1, InsertStep DEF NextPairs
<1>2. CASE UNCHANGED pairMap
  BY <1>2 DEF pairMap, PairInv, WellFormed, Used, IsEmpty, SlotsOf
<1> QED BY <1>1, <1>2

THEOREM PairInvariance == SpecPairs => []PairInv
<1>1. InitPairs => PairInv
  BY InitPairInv
<1> QED BY <1>1, NextPairInv, PTL DEF SpecPairs

-----------------------------------------------------------------------------
(* The refinement of PartialMap.                                           *)

(* What pairmap_get finds is what the entries say. *)
LEMMA GetFinds ==
  ASSUME PairInv, NEW key \in Keys
  PROVE  /\ \A entry \in Entries(slots) : entry.key = key =>
              PairGet(key) = entry.value /\ entry.value # UINT32_MAX
         /\ (\A entry \in Entries(slots) : entry.key # key) => PairGet(key) = UINT32_MAX
BY RoomLeft, GetTells DEF PairInv, PairGet

LEMMA GetAfterInsert ==
  ASSUME PairInv, NEW key \in Keys, PairInsert(key, count), NEW k \in Keys
  PROVE  PairGet(k)' = IF k = key THEN count ELSE PairGet(k)
<1>1. /\ PairInv' /\ Entries(slots)' = Entries(slots) \cup {Slot(key, count)}
  BY InsertStep
<1>2. /\ \A entry \in Entries(slots)' : entry.key = k => PairGet(k)' = entry.value
      /\ (\A entry \in Entries(slots)' : entry.key # k) => PairGet(k)' = UINT32_MAX
  <2>1. /\ pairmap_hash' \in [Keys -> Nat] /\ SlotsOf(slots') \in Nat \ {0}
        /\ WellFormed(slots', pairmap_hash', SlotsOf(slots'))
        /\ Used(slots') # 0 .. SlotsOf(slots') - 1
    <3>1. /\ pairmap_hash' \in [Keys -> Nat] /\ SlotsOf(slots') \in Nat \ {0, 1}
          /\ WellFormed(slots', pairmap_hash', SlotsOf(slots'))
          /\ 2 * Cardinality(Used(slots')) <= SlotsOf(slots') + 1
      BY <1>1 DEF PairInv, SlotsOf, Used, IsEmpty, WellFormed
    <3>2. DOMAIN slots' = 0 .. SlotsOf(slots') - 1
      BY <3>1 DEF WellFormed, Arrays
    <3> QED BY <3>1, <3>2, SomeRoom
  <2>2. /\ \A entry \in Entries(slots') : entry.key = k =>
             Get(slots', pairmap_hash'[k], k) = entry.value /\ entry.value # UINT32_MAX
        /\ (\A entry \in Entries(slots') : entry.key # k) =>
             Get(slots', pairmap_hash'[k], k) = UINT32_MAX
    BY <2>1, GetTells
  <2> QED BY <2>2 DEF PairGet, Entries, Used, IsEmpty
<1>3. CASE k = key
  <2>1. Slot(key, count).key = key /\ Slot(key, count).value = count
    BY DEF Slot
  <2> QED BY <1>1, <1>2, <1>3, <2>1
<1>4. CASE k # key
  <2>1. CASE \E entry \in Entries(slots) : entry.key = k
    BY <1>1, <1>2, <1>4, <2>1, GetFinds
  <2>2. CASE \A entry \in Entries(slots) : entry.key # k
    BY <1>1, <1>2, <1>4, <2>2, GetFinds DEF Slot
  <2> QED BY <1>4, <2>1, <2>2
<1> QED BY <1>3, <1>4

(***************************************************************************)
(* The map is a map: every insertion, also one that moves all entries to a *)
(* larger array, adds its own entry to what pairmap_get finds and changes  *)
(* no other; and there is always an empty slot, so no probe runs for ever. *)
(***************************************************************************)
THEOREM PairMapIsMap == SpecPairs => ImplementsMap
<1>1. InitPairs => Abstract!Init
  <2> SUFFICES ASSUME InitPairs PROVE DOMAIN Lookups = {}
    BY DEF Abstract!Init
  <2>1. PairInv /\ Entries(slots) = {}
    BY InitPairInv DEF Entries
  <2>2. \A k \in Keys : PairGet(k) = UINT32_MAX
    BY <2>1, GetFinds
  <2> QED BY <2>2 DEF Lookups
<1>2. PairInv /\ [NextPairs]_pairMap => [pairMap' # pairMap => Abstract!Next]_pairMap
  <2> SUFFICES ASSUME PairInv, NEW key \in Keys, PairInsert(key, count)
               PROVE  Abstract!Next
    BY DEF NextPairs
  <2>1. count \in 0 .. Cardinality(Keys) - 1 /\ count # UINT32_MAX
    BY InsertStep
  <2>2. PairGet(key) = UINT32_MAX
    BY DEF PairInsert
  <2>3. \A k \in Keys : PairGet(k)' = IF k = key THEN count ELSE PairGet(k)
    BY GetAfterInsert
  <2> DEFINE found == {k \in Keys : PairGet(k) # UINT32_MAX}
  <2>4. Lookups = [k \in found |-> PairGet(k)] /\ DOMAIN Lookups = found
    BY DEF Lookups
  <2>5. {k \in Keys : PairGet(k)' # UINT32_MAX} = found \cup {key}
    BY <2>1, <2>3
  <2>6. Lookups' = [k \in found \cup {key} |-> IF k = key THEN count ELSE Lookups[k]]
    <3>1. Lookups' = [k \in {j \in Keys : PairGet(j)' # UINT32_MAX} |-> PairGet(k)']
      BY DEF Lookups
    <3>2. Lookups' = [k \in found \cup {key} |-> PairGet(k)']
      BY <2>5, <3>1
    <3>3. \A k \in found \cup {key} : PairGet(k)' = IF k = key THEN count ELSE Lookups[k]
      BY <2>3, <2>4
    <3> QED BY <3>2, <3>3
  <2>7. key \notin DOMAIN Lookups
    BY <2>2, <2>4
  <2>8. Abstract!Put(key, count)
    BY <2>4, <2>6, <2>7 DEF Abstract!Put
  <2> QED BY <2>1, <2>8 DEF Abstract!Next
<1>3. PairInv => EmptyPlaces(slots) # {}
  BY RoomLeft DEF EmptyPlaces, Used
<1> QED BY <1>1, <1>2, <1>3, PairInvariance, PTL DEF SpecPairs, ImplementsMap
=============================================================================
