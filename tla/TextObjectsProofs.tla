------------------------- MODULE TextObjectsProofs -------------------------
(***************************************************************************)
(* Proofs about the objects that count the tokens of a text, for every     *)
(* dictionary, any bytes and any calls.  Cutting an incremental encoder    *)
(* back leaves no trace and its counts are those of the reference          *)
(* encoding: one proof serves the appendable and the prependable encoder,  *)
(* what is said of an encoder has the object as a parameter.  The tree     *)
(* that an interval encoding builds is the one its counts rely on, and the *)
(* counts are exact, since the encoder of a count is an encoder of         *)
(* BacktrackEncoder.                                                       *)
(***************************************************************************)
EXTENDS MCTextObjects, CommonLemmas

-----------------------------------------------------------------------------
(* Both encoders.                                                          *)

(* the state that the next push adds *)
StateAfter(o, s, byte) ==
  IF o = "appendable" THEN Appendable!NewState(s, byte) ELSE Prependable!NewState(s, byte)

(* the byte that was pushed as number k *)
Byte(o, c, k) == IF o = "appendable" THEN c[k] ELSE c[Len(c) + 1 - k]

(* the text after a push, an extension, a cut *)
Longer(o, c, byte) == IF o = "appendable" THEN Append(c, byte) ELSE <<byte>> \o c
Extended(o, c, w)  == IF o = "appendable" THEN c \o w ELSE Backwards(w) \o c
CutBack(o, c, n)   == IF o = "appendable" THEN SubSeq(c, 1, n) ELSE EndOf(c, n)

(***************************************************************************)
(* Every state is the one that a push onto the states before it computes.  *)
(* Nothing is said of bytes of c that have no state yet.                   *)
(***************************************************************************)
Traced(o, s, c) ==
  /\ IsSeq(s)
  /\ \A k \in 1 .. Len(s) : s[k] = StateAfter(o, SubSeq(s, 1, k - 1), Byte(o, c, k))

-----------------------------------------------------------------------------
(* The bytes.                                                              *)

LEMMA LongerBytes ==
  ASSUME NEW o, NEW c, IsSeq(c), NEW byte
  PROVE  LET d == Longer(o, c, byte)
         IN  /\ IsSeq(d) /\ Len(d) = Len(c) + 1
             /\ \A k \in 1 .. Len(c) : Byte(o, d, k) = Byte(o, c, k)
             /\ Byte(o, d, Len(c) + 1) = byte
<1>1. Len(c) \in Nat
  BY SeqFacts
<1>2. CASE o = "appendable"
  BY <1>2, AppendFacts DEF Longer, Byte
<1>3. CASE o # "appendable"
  <2> DEFINE one == <<byte>>
             d   == one \o c
  <2>1. IsSeq(one) /\ Len(one) = 1 /\ one[1] = byte
    <3>1. one \in Seq({byte}) /\ Len(one) = 1 /\ one[1] = byte
      OBVIOUS
    <3> HIDE DEF one
    <3>2. IsSeq(one)
      BY <3>1 DEF IsSeq
    <3> QED BY <3>1, <3>2
  <2> HIDE DEF one
  <2>2. /\ IsSeq(d) /\ Len(d) = Len(one) + Len(c)
        /\ \A k \in 1 .. Len(one) : d[k] = one[k]
        /\ \A k \in 1 .. Len(c) : d[Len(one) + k] = c[k]
    <3>1. IsSeq(one) /\ IsSeq(c)
      BY <2>1
    <3> QED BY <3>1, ConcatFacts
  <2>3. d = Longer(o, c, byte)
    BY <1>3 DEF Longer, one
  <2> HIDE DEF d
  <2>4. ASSUME NEW k \in 1 .. Len(c) PROVE Byte(o, d, k) = Byte(o, c, k)
    <3>1. Len(c) + 1 - k \in 1 .. Len(c) /\ Len(d) + 1 - k = Len(one) + (Len(c) + 1 - k)
      BY <1>1, <2>1, <2>2
    <3> QED BY <1>3, <2>2, <3>1 DEF Byte
  <2>5. Byte(o, d, Len(c) + 1) = byte
    <3>1. Len(d) + 1 - (Len(c) + 1) = 1
      BY <1>1, <2>1, <2>2
    <3> QED BY <1>3, <2>1, <2>2, <3>1 DEF Byte
  <2> QED BY <1>1, <2>1, <2>2, <2>3, <2>4, <2>5
<1> QED BY <1>2, <1>3

LEMMA ExtendedBytes ==
  ASSUME NEW o, NEW c, NEW w, NEW d, IsSeq(c), IsSeq(w), d = Extended(o, c, w)
  PROVE  /\ IsSeq(d) /\ Len(d) = Len(c) + Len(w)
         /\ \A k \in 1 .. Len(c) : Byte(o, d, k) = Byte(o, c, k)
         /\ \A k \in 1 .. Len(w) : Byte(o, d, Len(c) + k) = w[k]
<1>1. Len(c) \in Nat /\ Len(w) \in Nat
  BY SeqFacts
<1>2. CASE o = "appendable"
  BY <1>2, ConcatFacts DEF Extended, Byte
<1>3. CASE o # "appendable"
  <2> DEFINE back == Backwards(w)
  <2>1. IsSeq(back) /\ Len(back) = Len(w) /\ \A k \in 1 .. Len(w) : back[k] = w[Len(w) + 1 - k]
    <3>1. back \in [1 .. Len(w) -> {w[Len(w) + 1 - k] : k \in 1 .. Len(w)}]
      BY DEF Backwards
    <3>2. back \in Seq({w[Len(w) + 1 - k] : k \in 1 .. Len(w)}) /\ Len(back) = Len(w)
      <4> HIDE DEF back
      <4> QED BY <1>1, <3>1
    <3> QED BY <3>2 DEF IsSeq, Backwards
  <2>2. d = back \o c
    BY <1>3 DEF Extended
  <2> HIDE DEF back
  <2>3. /\ IsSeq(d) /\ Len(d) = Len(back) + Len(c)
        /\ \A k \in 1 .. Len(back) : d[k] = back[k]
        /\ \A k \in 1 .. Len(c) : d[Len(back) + k] = c[k]
    <3>1. IsSeq(back) /\ IsSeq(c)
      BY <2>1
    <3> QED BY <2>2, <3>1, ConcatFacts
  <2>4. ASSUME NEW k \in 1 .. Len(c) PROVE Byte(o, d, k) = Byte(o, c, k)
    <3>1. Len(c) + 1 - k \in 1 .. Len(c) /\ Len(d) + 1 - k = Len(back) + (Len(c) + 1 - k)
      BY <1>1, <2>1, <2>3
    <3> QED BY <1>3, <2>3, <3>1 DEF Byte
  <2>5. ASSUME NEW k \in 1 .. Len(w) PROVE Byte(o, d, Len(c) + k) = w[k]
    <3> DEFINE m == Len(w) + 1 - k
    <3>1. m \in 1 .. Len(w) /\ Len(d) + 1 - (Len(c) + k) = m /\ Len(w) + 1 - m = k
      BY <1>1, <2>1, <2>3
    <3> QED BY <1>3, <2>1, <2>3, <3>1 DEF Byte
  <2> QED BY <1>1, <2>1, <2>3, <2>4, <2>5
<1> QED BY <1>2, <1>3

LEMMA CutBytes ==
  ASSUME NEW o, NEW c, IsSeq(c), NEW n \in 0 .. Len(c)
  PROVE  LET d == CutBack(o, c, n)
         IN  /\ IsSeq(d) /\ Len(d) = n
             /\ \A k \in 1 .. n : Byte(o, d, k) = Byte(o, c, k)
<1>1. Len(c) \in Nat
  BY SeqFacts
<1>2. CASE o = "appendable"
  BY <1>2, PrefixFacts DEF CutBack, Byte
<1>3. CASE o # "appendable"
  <2> DEFINE from == Len(c) - n
             d    == EndOf(c, n)
  <2>1. from \in Nat /\ n \in Nat /\ from + n <= Len(c) /\ from + n = Len(c)
    BY <1>1
  <2>2. d = SubSeq(c, from + 1, from + n)
    BY <2>1 DEF EndOf
  <2>3. d = CutBack(o, c, n)
    BY <1>3 DEF CutBack
  <2> HIDE DEF from, d
  <2>4. IsSeq(d) /\ Len(d) = n /\ \A k \in 1 .. n : d[k] = c[from + k]
    BY <2>1, <2>2, SliceFacts
  <2>5. ASSUME NEW k \in 1 .. n PROVE Byte(o, d, k) = Byte(o, c, k)
    <3>1. n + 1 - k \in 1 .. n /\ from + (n + 1 - k) = Len(c) + 1 - k
      BY <1>1, <2>1
    <3> QED BY <1>3, <2>4, <3>1 DEF Byte
  <2> QED BY <2>3, <2>4, <2>5
<1> QED BY <1>2, <1>3

-----------------------------------------------------------------------------
(* The states.                                                             *)

LEMMA TracedSame ==
  ASSUME NEW o, NEW s, NEW c, NEW d, Traced(o, s, c),
         \A k \in 1 .. Len(s) : Byte(o, c, k) = Byte(o, d, k)
  PROVE  Traced(o, s, d)
BY DEF Traced

LEMMA PushTraced ==
  ASSUME NEW o, NEW s, NEW c, Traced(o, s, c), NEW byte, byte = Byte(o, c, Len(s) + 1)
  PROVE  /\ Traced(o, Append(s, StateAfter(o, s, byte)), c)
         /\ Len(Append(s, StateAfter(o, s, byte))) = Len(s) + 1
<1> DEFINE x == StateAfter(o, s, byte)
           t == Append(s, x)
<1>1. Len(s) \in Nat /\ IsSeq(s)
  BY SeqFacts DEF Traced
<1> HIDE DEF x
<1>2. /\ IsSeq(t) /\ Len(t) = Len(s) + 1
      /\ \A k \in 1 .. Len(s) : t[k] = s[k]
      /\ t[Len(s) + 1] = x
  BY <1>1, AppendFacts
<1> HIDE DEF t
<1>3. ASSUME NEW n \in 0 .. Len(s) PROVE SubSeq(t, 1, n) = SubSeq(s, 1, n)
  <2>1. n \in Nat /\ n <= Len(s) /\ n <= Len(t) /\ \A k \in 1 .. n : t[k] = s[k]
    BY <1>1, <1>2
  <2> QED BY <1>1, <1>2, <2>1, SamePrefix
<1>4. SubSeq(s, 1, Len(s)) = s
  <2>1. Len(s) \in 0 .. Len(s)
    BY <1>1
  <2>2. /\ IsSeq(SubSeq(s, 1, Len(s))) /\ Len(SubSeq(s, 1, Len(s))) = Len(s)
        /\ \A k \in 1 .. Len(s) : SubSeq(s, 1, Len(s))[k] = s[k]
    BY <1>1, <2>1, PrefixFacts
  <2> QED BY <1>1, <2>2, SameSeq
<1>5. ASSUME NEW k \in 1 .. Len(t) PROVE t[k] = StateAfter(o, SubSeq(t, 1, k - 1), Byte(o, c, k))
  <2>1. k - 1 \in 0 .. Len(s)
    BY <1>1, <1>2
  <2>2. SubSeq(t, 1, k - 1) = SubSeq(s, 1, k - 1)
    BY <1>3, <2>1
  <2>3. CASE k \in 1 .. Len(s)
    BY <1>2, <2>2, <2>3 DEF Traced
  <2>4. CASE k = Len(s) + 1
    <3>1. k - 1 = Len(s)
      BY <1>1, <2>4
    <3> QED BY <1>2, <1>4, <2>2, <2>4, <3>1 DEF x
  <2> QED BY <1>1, <1>2, <2>3, <2>4
<1> QED BY <1>2, <1>5 DEF Traced, t, x

LEMMA CutTraced ==
  ASSUME NEW o, NEW s, NEW c, Traced(o, s, c), NEW n \in 0 .. Len(s)
  PROVE  Traced(o, SubSeq(s, 1, n), c) /\ Len(SubSeq(s, 1, n)) = n
<1> DEFINE t == SubSeq(s, 1, n)
<1>1. Len(s) \in Nat /\ IsSeq(s)
  BY SeqFacts DEF Traced
<1>2. IsSeq(t) /\ Len(t) = n /\ \A k \in 1 .. n : t[k] = s[k]
  BY <1>1, PrefixFacts
<1> HIDE DEF t
<1>3. ASSUME NEW k \in 1 .. n PROVE t[k] = StateAfter(o, SubSeq(t, 1, k - 1), Byte(o, c, k))
  <2> DEFINE m == k - 1
  <2>1. m \in Nat /\ m <= Len(s) /\ m <= Len(t) /\ \A l \in 1 .. m : t[l] = s[l]
    BY <1>1, <1>2
  <2> HIDE DEF m
  <2>2. SubSeq(t, 1, m) = SubSeq(s, 1, m)
    BY <1>1, <1>2, <2>1, SamePrefix
  <2>3. k \in 1 .. Len(s)
    BY <1>1
  <2> QED BY <1>2, <2>2, <2>3 DEF Traced, m
<1> QED BY <1>2, <1>3 DEF Traced, t

(***************************************************************************)
(* extend pushes byte after byte.  Its states are a CHOOSE; there are such *)
(* states, and they are traced.                                            *)
(***************************************************************************)
Pushes(o, s, w, f) ==
  f = [n \in 0 .. Len(w) |-> IF n = 0 THEN s ELSE Append(f[n - 1], StateAfter(o, f[n - 1], w[n]))]

LEMMA PushesExist ==
  ASSUME NEW o, NEW s, NEW w, IsSeq(w)
  PROVE  \E f : Pushes(o, s, w, f)
<1> DEFINE N       == Len(w)
           Is(f, m) == f = [n \in 0 .. m |->
                              IF n = 0 THEN s ELSE Append(f[n - 1], StateAfter(o, f[n - 1], w[n]))]
           done    == {m \in Nat : \E f : Is(f, m)}
<1>1. 0 \in done
  <2> DEFINE f == [n \in 0 .. 0 |-> s]
  <2>1. f = [n \in 0 .. 0 |-> IF n = 0 THEN s ELSE Append(f[n - 1], StateAfter(o, f[n - 1], w[n]))]
    OBVIOUS
  <2> HIDE DEF f
  <2>2. Is(f, 0)
    BY <2>1
  <2> QED BY <2>2
<1>2. ASSUME NEW m \in Nat, m \in done PROVE m + 1 \in done
  <2>1. PICK f : Is(f, m)
    BY <1>2
  <2> DEFINE l    == m + 1
             last == Append(f[m], StateAfter(o, f[m], w[l]))
             g    == [n \in 0 .. l |-> IF n = l THEN last ELSE f[n]]
  <2>2. l \in Nat /\ l # 0 /\ l - 1 = m /\ m \in 0 .. l /\ m # l
    OBVIOUS
  <2>3. \A n \in 0 .. m : f[n] = IF n = 0 THEN s ELSE Append(f[n - 1], StateAfter(o, f[n - 1], w[n]))
    BY <2>1
  <2> HIDE DEF l, last
  <2>4. g[l] = last /\ \A n \in 0 .. l : n # l => g[n] = f[n]
    BY <2>2
  <2>5. g = [n \in 0 .. l |-> g[n]]
    OBVIOUS
  <2> HIDE DEF g
  <2>6. \A n \in 0 .. l : g[n] = IF n = 0 THEN s ELSE Append(g[n - 1], StateAfter(o, g[n - 1], w[n]))
    <3> SUFFICES ASSUME NEW n \in 0 .. l
                 PROVE  g[n] = IF n = 0 THEN s ELSE Append(g[n - 1], StateAfter(o, g[n - 1], w[n]))
      OBVIOUS
    <3>1. CASE n = l
      <4>1. g[m] = f[m] /\ n # 0 /\ n - 1 = m
        BY <2>2, <2>4, <3>1
      <4> QED BY <2>4, <3>1, <4>1 DEF last
    <3>2. CASE n # l
      <4>1. n \in 0 .. m /\ g[n] = f[n]
        BY <2>2, <2>4, <3>2 DEF l
      <4>2. n # 0 => n - 1 \in 0 .. l /\ n - 1 # l
        BY <2>2
      <4>3. n # 0 => g[n - 1] = f[n - 1]
        BY <2>4, <4>2
      <4> QED BY <2>3, <4>1, <4>3
    <3> QED BY <3>1, <3>2
  <2>7. Is(g, l)
    BY <2>5, <2>6
  <2> HIDE DEF Is
  <2> QED BY <2>2, <2>7 DEF l
<1>3. N \in done
  <2>1. N \in Nat
    BY SeqFacts
  <2> HIDE DEF done
  <2> QED BY <1>1, <1>2, <2>1, SetInduction
<1> QED BY <1>3 DEF Pushes

LEMMA PushesTraced ==
  ASSUME NEW o, NEW s, NEW c, Traced(o, s, c), NEW w, IsSeq(w),
         \A k \in 1 .. Len(w) : Byte(o, c, Len(s) + k) = w[k],
         NEW f, Pushes(o, s, w, f)
  PROVE  Traced(o, f[Len(w)], c) /\ Len(f[Len(w)]) = Len(s) + Len(w)
<1> DEFINE Good(n) == Traced(o, f[n], c) /\ Len(f[n]) = Len(s) + n
           good    == {n \in Nat : n <= Len(w) => Good(n)}
<1>1. Len(s) \in Nat /\ Len(w) \in Nat
  BY SeqFacts DEF Traced
<1>2. \A n \in 0 .. Len(w) :
        f[n] = IF n = 0 THEN s ELSE Append(f[n - 1], StateAfter(o, f[n - 1], w[n]))
  BY DEF Pushes
<1>3. 0 \in good
  BY <1>1, <1>2
<1>4. ASSUME NEW n \in Nat, n \in good PROVE n + 1 \in good
  <2> SUFFICES ASSUME n + 1 <= Len(w) PROVE Good(n + 1)
    OBVIOUS
  <2> DEFINE m == n + 1
             t == f[n]
  <2>1. m \in 0 .. Len(w) /\ m \in 1 .. Len(w) /\ m # 0 /\ m - 1 = n /\ Len(s) + m = Len(s) + n + 1
    BY <1>1
  <2>2. Traced(o, t, c) /\ Len(t) = Len(s) + n
    <3>1. n <= Len(w)
      BY <1>1
    <3> QED BY <1>4, <3>1
  <2> HIDE DEF m
  <2>3. f[m] = Append(t, StateAfter(o, t, w[m]))
    BY <1>2, <2>1
  <2>4. w[m] = Byte(o, c, Len(t) + 1)
    BY <2>1, <2>2
  <2> HIDE DEF t
  <2>5. Traced(o, Append(t, StateAfter(o, t, w[m])), c) /\ Len(Append(t, StateAfter(o, t, w[m]))) = Len(t) + 1
    BY <2>2, <2>4, PushTraced
  <2> QED BY <2>1, <2>2, <2>3, <2>5 DEF m
<1>5. Len(w) \in good
  <2> HIDE DEF good
  <2> QED BY <1>1, <1>3, <1>4, SetInduction
<1> QED BY <1>1, <1>5

-----------------------------------------------------------------------------
(* The inductive invariant.                                                *)

TextInv ==
  /\ object \in {"appendable", "prependable", "interval"}
  /\ object # "interval" => /\ IsSeq(content)
                            /\ Len(states) = Len(content)
                            /\ Traced(object, states, content)

(* a new text for the same dictionary *)
LEMMA TextInvStep ==
  ASSUME NEW c, NEW s, object \in {"appendable", "prependable"},
         IsSeq(c), Len(s) = Len(c), Traced(object, s, c),
         states' = s, content' = c, bpe' = bpe, object' = object
  PROVE  TextInv'
<1>1. \A t, byte : Appendable!NewState(t, byte)' = Appendable!NewState(t, byte)
  BY DEF Appendable!NewState, Appendable!Follows
<1>2. \A t, byte : Prependable!NewState(t, byte)' = Prependable!NewState(t, byte)
  BY DEF Prependable!NewState, Prependable!Precedes
<1>3. \A o, t, byte : StateAfter(o, t, byte)' = StateAfter(o, t, byte)
  BY <1>1, <1>2 DEF StateAfter
<1>4. Traced(object, s, c)'
  BY <1>3 DEF Traced
<1> QED BY <1>4 DEF TextInv


(* A push of either encoder. *)
LEMMA PushKeeps ==
  ASSUME TextInv, NEW byte,
         \/ object = "appendable" /\ Appendable!Push(byte)
         \/ object = "prependable" /\ Prependable!Push(byte),
         object' = object
  PROVE  TextInv'
<1> DEFINE c == Longer(object, content, byte)
           s == Append(states, StateAfter(object, states, byte))
<1>1. /\ object \in {"appendable", "prependable"}
      /\ states' = s /\ content' = c /\ bpe' = bpe
  BY DEF Appendable!Push, Appendable!Pushed, Prependable!Push, Prependable!Pushed, StateAfter, Longer
<1>2. /\ IsSeq(content) /\ Len(states) = Len(content) /\ Traced(object, states, content)
      /\ Len(content) \in Nat
  BY <1>1, SeqFacts DEF TextInv
<1>3. /\ IsSeq(c) /\ Len(c) = Len(content) + 1
      /\ \A k \in 1 .. Len(content) : Byte(object, c, k) = Byte(object, content, k)
      /\ Byte(object, c, Len(content) + 1) = byte
  BY <1>2, LongerBytes
<1> HIDE DEF c
<1>4. Traced(object, states, c) /\ byte = Byte(object, c, Len(states) + 1)
  BY <1>2, <1>3, TracedSame
<1>5. Traced(object, s, c) /\ Len(s) = Len(states) + 1
  BY <1>4, PushTraced
<1> HIDE DEF s
<1> QED BY <1>1, <1>2, <1>3, <1>5, TextInvStep

LEMMA TextExtended ==
  ASSUME NEW w, NEW d, IsSeq(content), IsSeq(w), d = Extended(object, content, w)
  PROVE  /\ IsSeq(d) /\ Len(d) = Len(content) + Len(w)
         /\ \A k \in 1 .. Len(content) : Byte(object, d, k) = Byte(object, content, k)
         /\ \A k \in 1 .. Len(w) : Byte(object, d, Len(content) + k) = w[k]
BY ExtendedBytes

(* An extension by a word. *)
LEMMA ExtendKeeps ==
  ASSUME TextInv, NEW word, IsSeq(word),
         \/ object = "appendable" /\ Appendable!Extend(word)
         \/ object = "prependable" /\ Prependable!Extend(word),
         object' = object
  PROVE  TextInv'
<1> DEFINE c == Extended(object, content, word)
<1>1. object \in {"appendable", "prependable"} /\ content' = c /\ bpe' = bpe
  BY DEF Appendable!Extend, Prependable!Extend, Extended, Backwards, Prependable!Backwards
<1>2. /\ IsSeq(content) /\ Len(states) = Len(content) /\ Traced(object, states, content)
      /\ Len(content) \in Nat
  BY <1>1, SeqFacts DEF TextInv
<1>3. c = Extended(object, content, word)
  OBVIOUS
<1> HIDE DEF c
<1>4. /\ IsSeq(c) /\ Len(c) = Len(content) + Len(word)
      /\ \A k \in 1 .. Len(content) : Byte(object, c, k) = Byte(object, content, k)
      /\ \A k \in 1 .. Len(word) : Byte(object, c, Len(content) + k) = word[k]
  <2>1. IsSeq(content) /\ IsSeq(word)
    BY <1>2
  <2> QED BY <1>3, <2>1, TextExtended
<1>5. /\ Traced(object, states, c)
      /\ \A k \in 1 .. Len(word) : Byte(object, c, Len(states) + k) = word[k]
  BY <1>2, <1>4, TracedSame
<1> DEFINE after == CHOOSE f : Pushes(object, states, word, f)
           s     == after[Len(word)]
<1>6. states' = s
  <2>1. CASE object = "appendable"
    <3>1. after = CHOOSE f : f = [n \in 0 .. Len(word) |->
                     IF n = 0 THEN states ELSE Appendable!Pushed(f[n - 1], word[n])]
      BY <2>1 DEF Pushes, StateAfter, Appendable!Pushed
    <3> HIDE DEF after
    <3> QED BY <2>1, <3>1 DEF Appendable!Extend
  <2>2. CASE object = "prependable"
    <3>1. after = CHOOSE f : f = [n \in 0 .. Len(word) |->
                     IF n = 0 THEN states ELSE Prependable!Pushed(f[n - 1], word[n])]
      BY <2>2 DEF Pushes, StateAfter, Prependable!Pushed
    <3> HIDE DEF after
    <3> QED BY <2>2, <3>1 DEF Prependable!Extend
  <2> QED BY <1>1, <2>1, <2>2
<1>7. Pushes(object, states, word, after)
  <2>1. \E f : Pushes(object, states, word, f)
    BY PushesExist
  <2> HIDE DEF Pushes
  <2> QED BY <2>1
<1> HIDE DEF after
<1>8. Traced(object, s, c) /\ Len(s) = Len(states) + Len(word)
  BY <1>5, <1>7, PushesTraced
<1> HIDE DEF s
<1> QED BY <1>1, <1>2, <1>4, <1>6, <1>8, TextInvStep

(* A cut; a cut at or behind the end does nothing. *)
LEMMA TruncateKeeps ==
  ASSUME TextInv, NEW len \in Nat,
         \/ object = "appendable" /\ Appendable!Truncate(len)
         \/ object = "prependable" /\ Prependable!Truncate(len),
         object' = object
  PROVE  TextInv'
<1>1. /\ object \in {"appendable", "prependable"} /\ bpe' = bpe
      /\ states' = IF len < Len(states) THEN SubSeq(states, 1, len) ELSE states
      /\ content' = IF len < Len(content) THEN CutBack(object, content, len) ELSE content
  BY DEF Appendable!Truncate, Appendable!Kept, Prependable!Truncate, Prependable!Kept,
         CutBack, EndOf, Prependable!EndOf
<1>2. /\ IsSeq(content) /\ Len(states) = Len(content) /\ Traced(object, states, content)
      /\ Len(content) \in Nat
  BY <1>1, SeqFacts DEF TextInv
<1>3. CASE len < Len(content)
  <2> DEFINE c == CutBack(object, content, len)
             s == SubSeq(states, 1, len)
  <2>1. len \in 0 .. Len(content) /\ states' = s /\ content' = c
    BY <1>1, <1>2, <1>3
  <2>2. /\ IsSeq(c) /\ Len(c) = len
        /\ \A k \in 1 .. len : Byte(object, c, k) = Byte(object, content, k)
    BY <1>2, <2>1, CutBytes
  <2>3. Traced(object, s, content) /\ Len(s) = len
    BY <1>2, <2>1, CutTraced
  <2> HIDE DEF c, s
  <2>4. Traced(object, s, c)
    BY <2>2, <2>3, TracedSame
  <2> QED BY <1>1, <2>1, <2>2, <2>3, <2>4, TextInvStep
<1>4. CASE ~(len < Len(content))
  BY <1>1, <1>2, <1>4, TextInvStep
<1> QED BY <1>3, <1>4

(* The words are sequences. *)
LEMMA WordsAreSequences ==
  /\ \A word \in Appendable!Words : IsSeq(word)
  /\ \A word \in Prependable!Words : IsSeq(word)
<1>1. ASSUME NEW n \in 2 .. MaxLen, NEW word \in [1 .. n -> Bytes] PROVE IsSeq(word)
  <2>1. n \in Nat
    BY BoundsAssumption
  <2>2. word \in Seq(Bytes)
    BY <2>1
  <2> QED BY <2>2 DEF IsSeq
<1> QED BY <1>1 DEF Appendable!Words, Prependable!Words

(***************************************************************************)
(* However the calls follow each other, the text and the states keep step. *)
(***************************************************************************)
THEOREM TextInvariance == AllSpec => []TextInv
<1>1. AllInit => TextInv
  <2> SUFFICES ASSUME AllInit PROVE TextInv
    OBVIOUS
  <2>1. states = <<>> /\ content = <<>> /\ object \in {"appendable", "prependable", "interval"}
    BY DEF AllInit
  <2>2. IsSeq(<<>>) /\ Len(<<>>) = 0
    <3>1. <<>> \in Seq({})
      OBVIOUS
    <3> QED BY <3>1 DEF IsSeq
  <2> QED BY <2>1, <2>2 DEF TextInv, Traced
<1>2. TextInv /\ [AllNext]_allVars => TextInv'
  <2> SUFFICES ASSUME TextInv, [AllNext]_allVars PROVE TextInv'
    OBVIOUS
  <2>1. CASE object = "appendable" /\ Appendable!Next /\ UNCHANGED object
    <3>1. CASE \E byte \in Bytes : Appendable!Push(byte)
      BY <2>1, <3>1, PushKeeps
    <3>2. CASE \E word \in Appendable!Words : Appendable!Extend(word)
      BY <2>1, <3>2, ExtendKeeps, WordsAreSequences
    <3>3. CASE \E len \in 0 .. MaxLen : Appendable!Truncate(len)
      BY <2>1, <3>3, TruncateKeeps, BoundsAssumption
    <3> QED BY <2>1, <3>1, <3>2, <3>3 DEF Appendable!Next
  <2>2. CASE object = "prependable" /\ Prependable!Next /\ UNCHANGED object
    <3>1. CASE \E byte \in Bytes : Prependable!Push(byte)
      BY <2>2, <3>1, PushKeeps
    <3>2. CASE \E word \in Prependable!Words : Prependable!Extend(word)
      BY <2>2, <3>2, ExtendKeeps, WordsAreSequences
    <3>3. CASE \E len \in 0 .. MaxLen : Prependable!Truncate(len)
      BY <2>2, <3>3, TruncateKeeps, BoundsAssumption
    <3> QED BY <2>2, <3>1, <3>2, <3>3 DEF Prependable!Next
  <2>3. CASE object = "interval" /\ UNCHANGED object
    BY <2>3 DEF TextInv
  <2>4. CASE UNCHANGED allVars
    <3>1. CASE object = "interval"
      BY <2>4, <3>1 DEF TextInv, allVars
    <3>2. CASE object # "interval"
      BY <2>4, <3>2, TextInvStep DEF TextInv, allVars, vars, incremental
    <3> QED BY <3>1, <3>2
  <2> QED BY <2>1, <2>2, <2>3, <2>4 DEF AllNext
<1> QED BY <1>1, <1>2, PTL DEF AllSpec

(***************************************************************************)
(* appendable_encoder_truncate and prependable_encoder_truncate leave no   *)
(* trace: after any pushes, extensions and cuts each state is the one that *)
(* a push onto the states before it computes.                              *)
(***************************************************************************)
THEOREM CutLeavesNoTrace == AllSpec => []NoTraceOfTheCut
<1>1. TextInv => NoTraceOfTheCut
  BY DEF TextInv, Traced, StateAfter, Byte, NoTraceOfTheCut,
         Appendable!NoTraceOfTheCut, Prependable!NoTraceOfTheCut
<1> QED BY <1>1, TextInvariance, PTL

-----------------------------------------------------------------------------
(* The counts.                                                             *)

(* the tokens as the automaton of the object reads them *)
WordsOf(o, vocab) ==
  IF o = "appendable" THEN vocab ELSE [t \in DOMAIN vocab |-> Backwards(vocab[t])]

(* the token at the growing end of an encoding, and the one in a state *)
Outer(o, vocab, s) == IF o = "appendable" THEN LastOf(vocab, s) ELSE FirstOf(vocab, s)
TokenOf(o, x)      == IF o = "appendable" THEN x.last_token ELSE x.prev_token

(* token t may stand at the growing end beside the token inner *)
Beside(o, b, inner, t) == IF o = "appendable" THEN ValidPair(b, inner, t) ELSE ValidPair(b, t, inner)

(* the bytes pushed last spell the token *)
Spelled(o, vocab, c, n, t) ==
  \A k \in 1 .. Len(vocab[t]) : WordsOf(o, vocab)[t][k] = Byte(o, c, n - Len(vocab[t]) + k)

(* a token that may stand at the growing end of the n bytes pushed first *)
MayStand(o, vocab, c, n, t) ==
  LET p == n - Len(vocab[t])
  IN  /\ t \in DOMAIN vocab /\ p \in Nat
      /\ Spelled(o, vocab, c, n, t)
      /\ p = 0 \/ Beside(o, FromDictionary(vocab), Outer(o, vocab, CutBack(o, c, p)), t)

(* the bytes beside it *)
RestLen(vocab, n, t) == n - Len(vocab[t])

CountOf(o, vocab, c, n) == Len(ReferenceEncoding(vocab, CutBack(o, c, n)))

(* The automaton reads words as long as the tokens. *)
LEMMA WordLengths ==
  ASSUME NEW o, NEW vocab, Usable(vocab), NEW t \in DOMAIN vocab
  PROVE  /\ t \in DOMAIN WordsOf(o, vocab) /\ DOMAIN WordsOf(o, vocab) = DOMAIN vocab
         /\ IsSeq(WordsOf(o, vocab)[t]) /\ Len(WordsOf(o, vocab)[t]) = Len(vocab[t])
         /\ Len(vocab[t]) \in Nat \ {0}
<1>1. IsSeq(vocab[t]) /\ Len(vocab[t]) \in Nat \ {0}
  BY UsableFacts
<1>2. CASE o = "appendable"
  BY <1>1, <1>2 DEF WordsOf
<1>3. CASE o # "appendable"
  <2> DEFINE w    == vocab[t]
             back == Backwards(w)
  <2>1. back \in [1 .. Len(w) -> {w[Len(w) + 1 - k] : k \in 1 .. Len(w)}]
    BY DEF Backwards
  <2>2. back \in Seq({w[Len(w) + 1 - k] : k \in 1 .. Len(w)}) /\ Len(back) = Len(w)
    <3> HIDE DEF back
    <3> QED BY <1>1, <2>1
  <2>3. WordsOf(o, vocab)[t] = back /\ DOMAIN WordsOf(o, vocab) = DOMAIN vocab
    BY <1>3 DEF WordsOf
  <2> HIDE DEF back
  <2>4. IsSeq(back)
    BY <2>2 DEF IsSeq
  <2> QED BY <1>1, <2>2, <2>3, <2>4
<1> QED BY <1>2, <1>3

(* The end of an end. *)
LEMMA AfterEnd ==
  ASSUME NEW c, IsSeq(c), NEW n \in 0 .. Len(c), NEW len \in 0 .. n
  PROVE  After(EndOf(c, n), len) = EndOf(c, n - len)
<1> DEFINE q == Len(c) - n
           r == Len(c) - (n - len)
           e == EndOf(c, n)
           f == EndOf(c, n - len)
           a == After(e, len)
<1>1. /\ Len(c) \in Nat /\ q \in 0 .. Len(c) /\ r \in 0 .. Len(c)
      /\ Len(c) - q = n /\ Len(c) - r = n - len /\ r = q + len
  BY SeqFacts
<1>2. e = After(c, q) /\ f = After(c, r)
  BY DEF EndOf, After
<1> HIDE DEF q, r, e, f
<1>3. IsSeq(e) /\ Len(e) = n /\ \A k \in 1 .. n : e[k] = c[q + k]
  BY <1>1, <1>2, AfterFacts
<1>4. IsSeq(f) /\ Len(f) = n - len /\ \A k \in 1 .. n - len : f[k] = c[r + k]
  BY <1>1, <1>2, AfterFacts, ZenonT(60)
<1>5. IsSeq(a) /\ Len(a) = n - len /\ \A k \in 1 .. n - len : a[k] = e[len + k]
  <2>1. len \in 0 .. Len(e)
    BY <1>3
  <2> QED BY <1>3, <2>1, AfterFacts, ZenonT(60)
<1> HIDE DEF a
<1>6. ASSUME NEW k \in 1 .. n - len PROVE a[k] = f[k]
  <2>1. len + k \in 1 .. n /\ q + (len + k) = r + k
    BY <1>1
  <2> QED BY <1>3, <1>4, <1>5, <2>1
<1> QED BY <1>4, <1>5, <1>6, SameSeq DEF a, e, f

(* Exactly one token may stand at the end; the encoding without it is the one before it. *)
LEMMA OneMayStand ==
  ASSUME NEW o, NEW vocab, Usable(vocab), NEW c, IsSeq(c), Complete(vocab, c),
         NEW n \in 1 .. Len(c), NEW outer, outer = Outer(o, vocab, CutBack(o, c, n)),
         NEW p, p = RestLen(vocab, n, outer)
  PROVE  /\ \A t : MayStand(o, vocab, c, n, t) <=> t = outer
         /\ CountOf(o, vocab, c, n) = CountOf(o, vocab, c, p) + 1
<1> USE DEF RestLen
<1>1. Len(c) \in Nat /\ n \in Nat /\ n \in 0 .. Len(c)
  BY SeqFacts
<1>2. ASSUME NEW t \in DOMAIN vocab PROVE Len(vocab[t]) \in Nat \ {0} /\ IsSeq(vocab[t])
  BY UsableFacts
<1>3. CASE o = "appendable"
  <2>1. outer = LastOf(vocab, SubSeq(c, 1, n)) /\ \A m : CutBack(o, c, m) = SubSeq(c, 1, m)
    BY <1>3 DEF Outer, CutBack
  <2>2. /\ \A t : MayEnd(vocab, c, n, t) <=> t = outer
        /\ IsSeq(ReferenceEncoding(vocab, SubSeq(c, 1, p)))
        /\ EndsIn(vocab, c, n, p, outer)
    BY <2>1, OneMayEnd
  <2>3. CountOf(o, vocab, c, n) = CountOf(o, vocab, c, p) + 1
    <3> DEFINE before == ReferenceEncoding(vocab, SubSeq(c, 1, p))
    <3>1. ReferenceEncoding(vocab, SubSeq(c, 1, n)) = Append(before, outer) /\ IsSeq(before)
      BY <2>2 DEF EndsIn
    <3> HIDE DEF before
    <3>2. Len(Append(before, outer)) = Len(before) + 1
      BY <3>1, AppendFacts
    <3>3. CountOf(o, vocab, c, n) = Len(ReferenceEncoding(vocab, SubSeq(c, 1, n)))
      BY <2>1 DEF CountOf
    <3>4. CountOf(o, vocab, c, p) = Len(before)
      BY <2>1 DEF CountOf, before
    <3> QED BY <3>1, <3>2, <3>3, <3>4
  <2>4. ASSUME NEW t PROVE MayStand(o, vocab, c, n, t) <=> MayEnd(vocab, c, n, t)
    <3> DEFINE q == n - Len(vocab[t])
    <3>1. SUFFICES ASSUME t \in DOMAIN vocab, q \in Nat
                   PROVE  MayStand(o, vocab, c, n, t) <=> MayEnd(vocab, c, n, t)
      BY DEF MayStand, MayEnd
    <3>2. Len(vocab[t]) \in Nat /\ q + Len(vocab[t]) = n
      BY <1>1, <1>2, <3>1
    <3>3. Spelled(o, vocab, c, n, t) <=> OccursAt(vocab[t], c, q, n)
      <4>1. WordsOf(o, vocab)[t] = vocab[t] /\ \A k : Byte(o, c, k) = c[k]
        BY <1>3 DEF WordsOf, Byte
      <4>2. q + Len(vocab[t]) <= n
        BY <1>1, <3>2
      <4>3. Spelled(o, vocab, c, n, t) <=> \A k \in 1 .. Len(vocab[t]) : vocab[t][k] = c[q + k]
        BY <4>1 DEF Spelled
      <4>4. OccursAt(vocab[t], c, q, n) <=> \A k \in 1 .. Len(vocab[t]) : c[q + k] = vocab[t][k]
        BY <4>2 DEF OccursAt
      <4> QED BY <4>3, <4>4
    <3>4. Beside(o, FromDictionary(vocab), Outer(o, vocab, CutBack(o, c, q)), t)
            <=> ValidPair(FromDictionary(vocab), LastOf(vocab, SubSeq(c, 1, q)), t)
      BY <1>3 DEF Beside, Outer, CutBack
    <3> QED BY <3>1, <3>3, <3>4 DEF MayStand, MayEnd
  <2> QED BY <2>2, <2>3, <2>4
<1>4. CASE o # "appendable"
  <2> DEFINE s == EndOf(c, n)
             f == Len(c) - n
  <2>1. outer = FirstOf(vocab, s) /\ \A m : CutBack(o, c, m) = EndOf(c, m)
    BY <1>4 DEF Outer, CutBack
  <2>2. IsSeq(s) /\ Len(s) = n /\ (\A k \in 1 .. n : s[k] = c[f + k]) /\ Complete(vocab, s)
    <3>1. f \in 0 .. Len(c) /\ Len(c) - f = n
      BY <1>1
    <3>2. s = After(c, f)
      BY <1>1 DEF EndOf, After
    <3> HIDE DEF f, s
    <3> QED BY <3>1, <3>2, AfterFacts, CompleteAfter
  <2> DEFINE len == Len(vocab[outer])
  <2>3. /\ \A t : MayBegin(vocab, s, t) <=> t = outer
        /\ outer \in DOMAIN vocab /\ len \in 1 .. Len(s)
        /\ Len(ReferenceEncoding(vocab, s)) = Len(ReferenceEncoding(vocab, After(s, len))) + 1
    <3>1. len = Len(vocab[outer]) /\ Len(s) > 0
      BY <1>1, <2>2
    <3> HIDE DEF s, len
    <3> QED BY <2>1, <2>2, <3>1, OneMayBegin
  <2>4. CountOf(o, vocab, c, n) = CountOf(o, vocab, c, p) + 1
    <3>1. len \in 0 .. n /\ p = n - len
      BY <1>1, <2>2, <2>3
    <3> HIDE DEF len
    <3>2. After(s, len) = EndOf(c, n - len)
      BY <1>1, <3>1, AfterEnd
    <3> QED BY <2>1, <2>3, <3>1, <3>2 DEF CountOf
  <2> HIDE DEF s, len, f
  <2>5. ASSUME NEW t PROVE MayStand(o, vocab, c, n, t) <=> MayBegin(vocab, s, t)
    <3> DEFINE l == Len(vocab[t])
               q == n - l
    <3>1. SUFFICES ASSUME t \in DOMAIN vocab
                   PROVE  MayStand(o, vocab, c, n, t) <=> MayBegin(vocab, s, t)
      BY DEF MayStand, MayBegin
    <3>2. l \in Nat \ {0}
      BY <1>2, <3>1
    <3>3. CASE q \notin Nat
      <4>1. ~(0 + l <= Len(s))
        BY <1>1, <2>2, <3>2, <3>3
      <4> QED BY <3>3, <4>1 DEF MayStand, MayBegin, OccursAt
    <3>4. CASE q \in Nat
      <4>1. l \in 0 .. n /\ 0 + l <= Len(s) /\ (q = 0 <=> l = Len(s))
        BY <1>1, <2>2, <3>2, <3>4
      <4>2. Spelled(o, vocab, c, n, t) <=> OccursAt(vocab[t], s, 0, Len(s))
        <5> DEFINE w == vocab[t]
        <5>1. /\ WordsOf(o, vocab)[t] = [k \in 1 .. l |-> w[l + 1 - k]]
              /\ \A k : Byte(o, c, k) = c[Len(c) + 1 - k]
          BY <1>4, <3>1 DEF WordsOf, Byte, Backwards
        <5>2. Spelled(o, vocab, c, n, t) <=> \A k \in 1 .. l : w[l + 1 - k] = c[Len(c) + 1 - (q + k)]
          BY <5>1 DEF Spelled
        <5>3. OccursAt(w, s, 0, Len(s)) <=> \A k \in 1 .. l : s[k] = w[k]
          BY <3>2, <4>1 DEF OccursAt
        <5> HIDE DEF w
        <5>4. ASSUME NEW k \in 1 .. l
              PROVE  l + 1 - k \in 1 .. l /\ s[l + 1 - k] = c[Len(c) + 1 - (q + k)]
          <6>1. l + 1 - k \in 1 .. l /\ l + 1 - k \in 1 .. n
            BY <1>1, <3>2, <4>1
          <6>2. f + (l + 1 - k) = Len(c) + 1 - (q + k)
            BY <1>1, <3>2, <4>1 DEF f
          <6> QED BY <2>2, <6>1, <6>2
        <5>5. ASSUME \A k \in 1 .. l : s[k] = w[k], NEW k \in 1 .. l
              PROVE  w[l + 1 - k] = c[Len(c) + 1 - (q + k)]
          BY <5>4, <5>5
        <5>6. ASSUME \A k \in 1 .. l : w[l + 1 - k] = c[Len(c) + 1 - (q + k)], NEW k \in 1 .. l
              PROVE  s[k] = w[k]
          <6> DEFINE m == l + 1 - k
          <6>1. m \in 1 .. l /\ l + 1 - m = k
            BY <3>2
          <6> HIDE DEF m
          <6>2. w[l + 1 - m] = c[Len(c) + 1 - (q + m)] /\ s[l + 1 - m] = c[Len(c) + 1 - (q + m)]
            BY <5>4, <5>6, <6>1
          <6> QED BY <6>1, <6>2
        <5>7. Spelled(o, vocab, c, n, t) <=> OccursAt(w, s, 0, Len(s))
          BY <5>2, <5>3, <5>5, <5>6
        <5> QED BY <5>7 DEF w
      <4>3. Beside(o, FromDictionary(vocab), Outer(o, vocab, CutBack(o, c, q)), t)
              <=> ValidPair(FromDictionary(vocab), t, FirstOf(vocab, After(s, l)))
        <5>1. After(s, l) = EndOf(c, q)
          <6> HIDE DEF l
          <6> QED BY <1>1, <4>1, AfterEnd DEF s
        <5> QED BY <1>4, <5>1 DEF Beside, Outer, CutBack
      <4> QED BY <3>1, <3>4, <4>1, <4>2, <4>3 DEF MayStand, MayBegin
    <3> QED BY <3>3, <3>4
  <2> QED BY <2>3, <2>4, <2>5
<1> QED BY <1>3, <1>4

-----------------------------------------------------------------------------
(* The state that a push adds.                                             *)

(* Each encoder has its own copies of the automaton's operators. *)
LEMMA AppendableSame ==
  /\ \A b, x, y : Appendable!ValidPair(b, x, y) = ValidPair(b, x, y)
  /\ \A b, x : Appendable!TokenLen(b, x) = TokenLen(b, x)
  /\ \A words, st, byte : Appendable!Advance(words, st, byte) = Advance(words, st, byte)
  /\ \A words, st : Appendable!Outputs(words, st) = Outputs(words, st)
  /\ \A words, outputs : Appendable!FirstOutput(words, outputs) = FirstOutput(words, outputs)
  /\ Appendable!StartState = <<>>
  /\ \A b : Appendable!ForwardWords(b) = b.vocab
<1>1. \A b, x, y : Appendable!ValidPair(b, x, y) = ValidPair(b, x, y)
  BY DEF Appendable!ValidPair, Appendable!IsValidTokenPair, ValidPair, IsValidTokenPair
<1>2. \A b, x : Appendable!TokenLen(b, x) = TokenLen(b, x)
  BY DEF Appendable!TokenLen, TokenLen
<1>3. \A words, st, byte : Appendable!Advance(words, st, byte) = Advance(words, st, byte)
  BY DEF Appendable!Advance, Appendable!EndOf, Appendable!IsBeginning, Advance, EndOf, IsBeginning
<1>4. \A words, st : Appendable!Outputs(words, st) = Outputs(words, st)
  BY DEF Appendable!Outputs, Appendable!EndOf, Outputs, EndOf
<1>5. \A words, outputs : Appendable!FirstOutput(words, outputs) = FirstOutput(words, outputs)
  BY DEF Appendable!FirstOutput, FirstOutput
<1> QED BY <1>1, <1>2, <1>3, <1>4, <1>5 DEF Appendable!StartState, Appendable!ForwardWords

(* The same for the prependable encoder. *)
LEMMA PrependableSame ==
  /\ \A b, x, y : Prependable!ValidPair(b, x, y) = ValidPair(b, x, y)
  /\ \A b, x : Prependable!TokenLen(b, x) = TokenLen(b, x)
  /\ \A words, st, byte : Prependable!Advance(words, st, byte) = Advance(words, st, byte)
  /\ \A words, st : Prependable!Outputs(words, st) = Outputs(words, st)
  /\ \A words, outputs : Prependable!FirstOutput(words, outputs) = FirstOutput(words, outputs)
  /\ Prependable!StartState = <<>>
  /\ \A b : Prependable!ReverseWords(b) = [t \in DOMAIN b.vocab |-> Backwards(b.vocab[t])]
<1>1. \A b, x, y : Prependable!ValidPair(b, x, y) = ValidPair(b, x, y)
  BY DEF Prependable!ValidPair, Prependable!IsValidTokenPair, ValidPair, IsValidTokenPair
<1>2. \A b, x : Prependable!TokenLen(b, x) = TokenLen(b, x)
  BY DEF Prependable!TokenLen, TokenLen
<1>3. \A words, st, byte : Prependable!Advance(words, st, byte) = Advance(words, st, byte)
  BY DEF Prependable!Advance, Prependable!EndOf, Prependable!IsBeginning, Advance, EndOf, IsBeginning
<1>4. \A words, st : Prependable!Outputs(words, st) = Outputs(words, st)
  BY DEF Prependable!Outputs, Prependable!EndOf, Outputs, EndOf
<1>5. \A words, outputs : Prependable!FirstOutput(words, outputs) = FirstOutput(words, outputs)
  BY DEF Prependable!FirstOutput, FirstOutput
<1> QED BY <1>1, <1>2, <1>3, <1>4, <1>5
    DEF Prependable!StartState, Prependable!ReverseWords, Prependable!Backwards, Backwards

(* the tokens that end here and may stand beside the tokens of the states s *)
CandidatesAt(o, b, s, outputs) ==
  {t \in outputs :
     LET p == Len(s) + 1 - TokenLen(b, t)
     IN  p = 0 \/ Beside(o, b, TokenOf(o, s[p]), t)}

(* the state of the automaton that the next push starts from *)
LastAc(s) == IF s = <<>> THEN <<>> ELSE s[Len(s)].ac_state

(* the number of bytes beside the token, and the count with it *)
BesideLen(s, t) == Len(s) + 1 - TokenLen(bpe, t)
CountOn(s, p)   == IF p = 0 THEN 1 ELSE s[p].count + 1

(* the new state x is about the first of the candidates, if there is one *)
TakesFirst(o, s, x) ==
  LET words == WordsOf(o, bpe.vocab)
      cand  == CandidatesAt(o, bpe, s, Outputs(words, x.ac_state))
      tok   == FirstOutput(words, cand)
  IN  cand # {} => TokenOf(o, x) = tok /\ x.count = CountOn(s, BesideLen(s, tok))

(* What push computes, for both encoders. *)
LEMMA NewStateIs ==
  ASSUME NEW o \in {"appendable", "prependable"}, NEW s, NEW byte, NEW x, x = StateAfter(o, s, byte)
  PROVE  /\ x.ac_state = Advance(WordsOf(o, bpe.vocab), LastAc(s), byte)
         /\ TakesFirst(o, s, x)
<1> DEFINE words  == WordsOf(o, bpe.vocab)
           before == LastAc(s)
           state  == Advance(words, before, byte)
           out    == Outputs(words, state)
           cand   == CandidatesAt(o, bpe, s, out)
           tok  == FirstOutput(words, cand)
           p      == BesideLen(s, tok)
<1> SUFFICES /\ x.ac_state = state
             /\ cand # {} => TokenOf(o, x) = tok /\ x.count = CountOn(s, p)
  BY DEF TakesFirst
<1>1. CASE o = "appendable"
  <2>1. x = Appendable!NewState(s, byte) /\ TokenOf(o, x) = x.last_token /\ words = bpe.vocab
    BY <1>1 DEF StateAfter, TokenOf, WordsOf
  <2>2. cand = {t \in out : Appendable!Follows(s, Len(s) + 1 - TokenLen(bpe, t), t)}
    <3>1. \A q : TokenOf(o, s[q]) = s[q].last_token
      BY <1>1 DEF TokenOf
    <3>2. \A a, t : Beside(o, bpe, a, t) = ValidPair(bpe, a, t)
      BY <1>1 DEF Beside
    <3> HIDE DEF out
    <3> QED BY <3>1, <3>2, AppendableSame DEF CandidatesAt, Appendable!Follows
  <2>3. x = [ac_state   |-> state,
             last_token |-> IF cand = {} THEN Appendable!NoToken ELSE tok,
             count      |-> IF cand = {} THEN 0 ELSE Appendable!CountAfter(s, p)]
    BY <2>1, <2>2, AppendableSame DEF Appendable!NewState, LastAc, BesideLen
  <2> HIDE DEF words, before, state, out, cand, tok, p
  <2> QED BY <2>1, <2>3 DEF Appendable!CountAfter, CountOn
<1>2. CASE o = "prependable"
  <2>1. x = Prependable!NewState(s, byte) /\ TokenOf(o, x) = x.prev_token
        /\ words = Prependable!ReverseWords(bpe)
    BY <1>2, PrependableSame DEF StateAfter, TokenOf, WordsOf
  <2>2. cand = {t \in out : Prependable!Precedes(s, Len(s) + 1 - TokenLen(bpe, t), t)}
    <3>1. \A q : TokenOf(o, s[q]) = s[q].prev_token
      BY <1>2 DEF TokenOf
    <3>2. \A a, t : Beside(o, bpe, a, t) = ValidPair(bpe, t, a)
      BY <1>2 DEF Beside
    <3> HIDE DEF out
    <3> QED BY <3>1, <3>2, PrependableSame DEF CandidatesAt, Prependable!Precedes
  <2>3. x = [ac_state   |-> state,
             prev_token |-> IF cand = {} THEN Prependable!NoToken ELSE tok,
             count      |-> IF cand = {} THEN 0 ELSE Prependable!CountBefore(s, p)]
    BY <2>1, <2>2, PrependableSame DEF Prependable!NewState, LastAc, BesideLen
  <2> HIDE DEF words, before, state, out, cand, tok, p
  <2> QED BY <2>1, <2>3 DEF Prependable!CountBefore, CountOn
<1> QED BY <1>1, <1>2

-----------------------------------------------------------------------------
(* The state of the automaton.                                             *)

(* the bytes of the first n pushes *)
BytesRead(o, c, n) == [k \in 1 .. n |-> Byte(o, c, k)]

(* the bytes of tokens and texts *)
BytesOf(o, vocab, c) ==
  {WordsOf(o, vocab)[t][k] : t \in DOMAIN vocab, k \in Nat} \cup {Byte(o, c, k) : k \in Nat}

(* The bytes read are a sequence that grows by one byte per push. *)
LEMMA BytesReadFacts ==
  ASSUME NEW o, NEW vocab, Usable(vocab), NEW c, NEW n \in Nat
  PROVE  /\ AreWords(WordsOf(o, vocab), BytesOf(o, vocab, c))
         /\ BytesRead(o, c, n) \in Seq(BytesOf(o, vocab, c)) /\ Len(BytesRead(o, c, n)) = n
         /\ Byte(o, c, n + 1) \in BytesOf(o, vocab, c)
         /\ BytesRead(o, c, n + 1) = Append(BytesRead(o, c, n), Byte(o, c, n + 1))
<1> DEFINE S == BytesOf(o, vocab, c)
           r == BytesRead(o, c, n)
           x == Byte(o, c, n + 1)
           a == Append(r, x)
<1>1. \A k \in Nat : Byte(o, c, k) \in S
  BY DEF BytesOf
<1>2. x \in S
  BY <1>1
<1>3. ASSUME NEW t \in DOMAIN WordsOf(o, vocab) PROVE WordsOf(o, vocab)[t] \in Seq(S)
  <2> DEFINE w == WordsOf(o, vocab)[t]
  <2>1. t \in DOMAIN vocab
    BY <1>3, UsableFacts DEF WordsOf
  <2>2. IsSeq(w)
    BY <2>1, WordLengths
  <2>3. \A k \in Nat : w[k] \in S
    BY <2>1 DEF BytesOf
  <2> HIDE DEF w, S
  <2>4. Len(w) \in Nat /\ w = [k \in 1 .. Len(w) |-> w[k]]
    BY <2>2, SeqFacts
  <2>5. w \in [1 .. Len(w) -> S]
    BY <2>3, <2>4
  <2>6. w \in Seq(S)
    BY <2>4, <2>5
  <2> QED BY <2>6 DEF w
<1>4. r \in Seq(S) /\ Len(r) = n /\ \A k \in 1 .. n : r[k] = Byte(o, c, k)
  <2>1. r \in [1 .. n -> S]
    BY <1>1 DEF BytesRead
  <2>2. \A k \in 1 .. n : r[k] = Byte(o, c, k)
    BY DEF BytesRead
  <2> HIDE DEF r, S
  <2> QED BY <2>1, <2>2
<1> HIDE DEF r, x, S
<1>5. /\ a \in Seq(S) /\ Len(a) = n + 1 /\ a[n + 1] = x
      /\ \A k \in 1 .. n : a[k] = r[k]
  BY <1>2, <1>4, AppendProperties
<1> DEFINE m == n + 1
           b == BytesRead(o, c, m)
<1>6. b \in Seq(S) /\ Len(b) = m /\ \A k \in 1 .. m : b[k] = Byte(o, c, k)
  <2>1. b \in [1 .. m -> S] /\ m \in Nat
    BY <1>1 DEF BytesRead
  <2>2. \A k \in 1 .. m : b[k] = Byte(o, c, k)
    BY DEF BytesRead
  <2> HIDE DEF b, m
  <2> QED BY <2>1, <2>2
<1> HIDE DEF a, b
<1>7. ASSUME NEW k \in 1 .. m PROVE b[k] = a[k]
  <2>1. k = n + 1 \/ k \in 1 .. n
    OBVIOUS
  <2> QED BY <1>4, <1>5, <1>6, <2>1 DEF x
<1>8. b = a
  BY <1>5, <1>6, <1>7, SeqEqual
<1> QED BY <1>2, <1>3, <1>4, <1>8 DEF AreWords, S, r, a, b, x

(* Before the first byte the automaton is in its start state. *)
LEMMA NothingRead ==
  ASSUME NEW words
  PROVE  LongestBeginning(words, <<>>, <<>>)
<1>1. EndOf(<<>>, 0) = <<>>
  BY SubSeqEmpty DEF EndOf
<1>2. 0 \in Known(words, <<>>) /\ \A m \in Known(words, <<>>) : m <= 0
  BY DEF Known
<1> QED BY <1>1, <1>2 DEF LongestBeginning

(* the state of the automaton before push n *)
AcBefore(s, n) == IF n = 1 THEN <<>> ELSE s[n - 1].ac_state

(* the states before number n *)
Earlier(s, n) == SubSeq(s, 1, n - 1)

(* State n is NewStateIs for the states before it. *)
LEMMA StateIs ==
  ASSUME NEW o, NEW s, NEW c, Traced(o, s, c),
         NEW n \in 1 .. Len(s), NEW pre, pre = Earlier(s, n)
  PROVE  /\ IsSeq(pre) /\ Len(pre) = n - 1 /\ (\A k \in 1 .. n - 1 : pre[k] = s[k])
         /\ s[n] = StateAfter(o, pre, Byte(o, c, n))
         /\ AcBefore(s, n) = LastAc(pre)
<1>1. IsSeq(s) /\ Len(s) \in Nat /\ s[n] = StateAfter(o, pre, Byte(o, c, n))
  BY SeqFacts DEF Traced, Earlier
<1> DEFINE m == n - 1
<1>2. m \in 0 .. Len(s) /\ m \in Nat
  BY <1>1
<1> HIDE DEF m
<1>3. IsSeq(pre) /\ Len(pre) = m /\ \A k \in 1 .. m : pre[k] = s[k]
  BY <1>1, <1>2, PrefixFacts DEF m, Earlier
<1>4. CASE m = 0
  <2>1. pre = <<>>
    BY <1>3, <1>4, SeqFacts
  <2> QED BY <1>1, <1>3, <1>4, <2>1 DEF AcBefore, LastAc, m
<1>5. CASE m # 0
  <2>1. pre # <<>>
    BY <1>3, <1>5
  <2>2. n # 1 /\ m \in 1 .. m
    BY <1>2, <1>5 DEF m
  <2>3. pre[Len(pre)].ac_state = s[n - 1].ac_state
    BY <1>3, <2>2 DEF m
  <2> QED BY <1>1, <1>3, <2>1, <2>2, <2>3 DEF AcBefore, LastAc, m
<1> QED BY <1>4, <1>5

(* The automaton advances by one byte per push. *)
LEMMA AcStep ==
  ASSUME NEW o \in {"appendable", "prependable"}, NEW s, NEW c, Traced(o, s, c), NEW n \in 1 .. Len(s)
  PROVE  s[n].ac_state = Advance(WordsOf(o, bpe.vocab), AcBefore(s, n), Byte(o, c, n))
<1> DEFINE pre == Earlier(s, n)
<1>1. pre = Earlier(s, n)
  OBVIOUS
<1> HIDE DEF pre
<1>2. /\ s[n] = StateAfter(o, pre, Byte(o, c, n))
      /\ AcBefore(s, n) = LastAc(pre)
  BY <1>1, StateIs
<1>3. s[n].ac_state = Advance(WordsOf(o, bpe.vocab), LastAc(pre), Byte(o, c, n))
  BY <1>2, NewStateIs
<1> QED BY <1>2, <1>3

(* State n of the encoder holds the state of the automaton after n bytes. *)
LEMMA AcStates ==
  ASSUME NEW o \in {"appendable", "prependable"}, NEW s, NEW c, Traced(o, s, c),
         Usable(bpe.vocab), NEW n \in 1 .. Len(s)
  PROVE  LongestBeginning(WordsOf(o, bpe.vocab), BytesRead(o, c, n), s[n].ac_state)
<1> DEFINE words   == WordsOf(o, bpe.vocab)
           S       == BytesOf(o, bpe.vocab, c)
           Good(m) == LongestBeginning(words, BytesRead(o, c, m), AcBefore(s, m + 1))
           good    == {m \in Nat : m <= Len(s) => Good(m)}
<1>1. Len(s) \in Nat
  BY SeqFacts DEF Traced
<1>2. 0 \in good
  <2>1. AcBefore(s, 0 + 1) = <<>>
    BY DEF AcBefore
  <2>2. BytesRead(o, c, 0) = <<>>
    BY DEF BytesRead
  <2> HIDE DEF words
  <2> QED BY <2>1, <2>2, NothingRead
<1>3. ASSUME NEW m \in Nat, m \in good PROVE m + 1 \in good
  <2> SUFFICES ASSUME m + 1 <= Len(s) PROVE Good(m + 1)
    OBVIOUS
  <2> DEFINE k   == m + 1
             x   == Byte(o, c, k)
             r   == BytesRead(o, c, m)
             st  == AcBefore(s, k)
  <2>1. k \in 1 .. Len(s) /\ k + 1 # 1 /\ k + 1 - 1 = k
    BY <1>1
  <2>2. LongestBeginning(words, r, st)
    BY <1>1, <1>3
  <2>3. AreWords(words, S) /\ r \in Seq(S) /\ x \in S /\ BytesRead(o, c, k) = Append(r, x)
    BY BytesReadFacts
  <2> HIDE DEF words, S, r, x, k, st
  <2>4. LongestBeginning(words, Append(r, x), Advance(words, st, x))
    BY <2>2, <2>3, AdvanceIsLongest
  <2>5. s[k].ac_state = Advance(words, st, x)
    BY <2>1, AcStep DEF words, st, x
  <2>6. AcBefore(s, k + 1) = s[k].ac_state
    BY <2>1 DEF AcBefore
  <2>7. LongestBeginning(words, BytesRead(o, c, k), AcBefore(s, k + 1))
    BY <2>3, <2>4, <2>5, <2>6
  <2> QED BY <2>7 DEF k
<1>4. n \in good
  <2>1. n \in Nat
    BY <1>1
  <2> HIDE DEF good
  <2> QED BY <1>2, <1>3, <2>1, SetInduction
<1>5. Good(n)
  BY <1>1, <1>4
<1>6. AcBefore(s, n + 1) = s[n].ac_state
  BY <1>1 DEF AcBefore
<1> QED BY <1>5, <1>6

(* It yields the tokens that the bytes pushed last spell. *)
LEMMA OutputsAreSpelled ==
  ASSUME NEW o \in {"appendable", "prependable"}, NEW c, NEW vocab, Usable(vocab),
         NEW n \in Nat, NEW st, LongestBeginning(WordsOf(o, vocab), BytesRead(o, c, n), st)
  PROVE  \A t : t \in Outputs(WordsOf(o, vocab), st) <=>
                  t \in DOMAIN vocab /\ n - Len(vocab[t]) \in Nat /\ Spelled(o, vocab, c, n, t)
<1> DEFINE words == WordsOf(o, vocab)
           S     == BytesOf(o, vocab, c)
           r     == BytesRead(o, c, n)
<1>1. AreWords(words, S) /\ r \in Seq(S) /\ Len(r) = n
  BY BytesReadFacts
<1>2. \A k \in 1 .. n : r[k] = Byte(o, c, k)
  BY DEF BytesRead
<1> HIDE DEF r, S
<1>3. Outputs(words, st) = {t \in DOMAIN words : Len(words[t]) <= Len(r)
                                                 /\ words[t] = EndOf(r, Len(words[t]))}
  <2>1. LongestBeginning(words, r, st)
    BY DEF r
  <2> HIDE DEF words
  <2> QED BY <1>1, <2>1, OutputsAreEnds
<1>4. DOMAIN words = DOMAIN vocab
  BY DEF WordsOf
<1>5. ASSUME NEW t \in DOMAIN vocab
      PROVE  (Len(words[t]) <= Len(r) /\ words[t] = EndOf(r, Len(words[t])))
               <=> (n - Len(vocab[t]) \in Nat /\ Spelled(o, vocab, c, n, t))
  <2> DEFINE w   == words[t]
             len == Len(vocab[t])
             e   == EndOf(r, len)
  <2>1. IsSeq(w) /\ Len(w) = len /\ len \in Nat \ {0}
    BY WordLengths
  <2> HIDE DEF len
  <2>2. CASE ~(len <= n)
    <3>1. n - len \notin Nat
      BY <2>1, <2>2
    <3> HIDE DEF w
    <3> QED BY <1>1, <2>1, <2>2, <3>1 DEF w, len
  <2>3. CASE len <= n
    <3>1. n - len \in Nat /\ len \in 0 .. Len(r)
      BY <1>1, <2>1, <2>3
    <3>2. e \in Seq(S) /\ Len(e) = len /\ \A k \in 1 .. len : e[k] = r[n - len + k]
      BY <1>1, <3>1, EndFacts
    <3> HIDE DEF e
    <3>3. ASSUME NEW k \in 1 .. len PROVE e[k] = Byte(o, c, n - len + k)
      <4>1. n - len + k \in 1 .. n
        BY <2>1, <3>1
      <4> QED BY <1>2, <3>2, <4>1
    <3>4. Spelled(o, vocab, c, n, t) <=> \A k \in 1 .. len : w[k] = e[k]
      BY <3>3 DEF Spelled, len
    <3>5. IsSeq(e)
      BY <3>2 DEF IsSeq
    <3> HIDE DEF w
    <3>6. (\A k \in 1 .. len : w[k] = e[k]) <=> w = e
      <4>1. ASSUME \A k \in 1 .. len : w[k] = e[k] PROVE w = e
        BY <2>1, <3>2, <3>5, <4>1, SameSeq
      <4> QED BY <4>1
    <3>7. (Len(w) <= Len(r) /\ w = EndOf(r, Len(w))) <=> w = e
      BY <1>1, <2>1, <2>3 DEF e
    <3> QED BY <3>1, <3>4, <3>6, <3>7 DEF w, len
  <2> QED BY <2>2, <2>3
<1> HIDE DEF words
<1>6. \A t : t \in Outputs(words, st) <=>
               t \in DOMAIN vocab /\ n - Len(vocab[t]) \in Nat /\ Spelled(o, vocab, c, n, t)
  BY <1>3, <1>4, <1>5
<1> QED BY <1>6 DEF words

-----------------------------------------------------------------------------
(* The counts are those of the reference encoding.                         *)

(* the dictionary of the encoder *)
BuiltFrom(vocab) == bpe.vocab = vocab /\ FromDictionary(vocab) = bpe

(* state m tells the number of tokens and the outermost token *)
ExactAt(o, s, c, m) ==
  /\ s[m].count = CountOf(o, bpe.vocab, c, m)
  /\ TokenOf(o, s[m]) = Outer(o, bpe.vocab, CutBack(o, c, m))

(* The empty text has no token. *)
LEMMA NoBytesNoTokens ==
  ASSUME NEW o, NEW vocab, Usable(vocab), NEW c, IsSeq(c)
  PROVE  CountOf(o, vocab, c, 0) = 0
<1> DEFINE d == CutBack(o, c, 0)
<1>1. 0 \in 0 .. Len(c)
  BY SeqFacts
<1>2. IsSeq(d) /\ Len(d) = 0
  BY <1>1, CutBytes
<1> HIDE DEF d
<1>3. d = <<>>
  BY <1>2, SeqFacts
<1>4. ReferenceEncoding(vocab, d) = <<>>
  BY <1>3, EmptyReference
<1> QED BY <1>4 DEF CountOf, d

(* The tokens that push finds are those that may stand at the growing end. *)
LEMMA CandidatesMayStand ==
  ASSUME NEW o \in {"appendable", "prependable"}, NEW s, NEW c, Traced(o, s, c),
         NEW vocab, BuiltFrom(vocab), Usable(vocab),
         NEW n \in 1 .. Len(s), \A m \in 1 .. n - 1 : ExactAt(o, s, c, m),
         NEW pre, pre = Earlier(s, n)
  PROVE  \A t : t \in CandidatesAt(o, bpe, pre, Outputs(WordsOf(o, vocab), s[n].ac_state))
                  <=> MayStand(o, vocab, c, n, t)
<1> DEFINE words == WordsOf(o, vocab)
           out   == Outputs(words, s[n].ac_state)
<1>1. Len(s) \in Nat /\ n \in Nat
  BY SeqFacts DEF Traced
<1>2. IsSeq(pre) /\ Len(pre) = n - 1 /\ (\A k \in 1 .. n - 1 : pre[k] = s[k])
  <2>1. Traced(o, s, c) /\ n \in 1 .. Len(s) /\ pre = Earlier(s, n)
    OBVIOUS
  <2> HIDE DEF out, words
  <2> QED BY <2>1, StateIs
<1>3. LongestBeginning(words, BytesRead(o, c, n), s[n].ac_state)
  <2>1. vocab = bpe.vocab
    BY DEF BuiltFrom
  <2> QED BY <2>1, AcStates
<1>4. \A t : t \in out <=>
               t \in DOMAIN vocab /\ n - Len(vocab[t]) \in Nat /\ Spelled(o, vocab, c, n, t)
  BY <1>1, <1>3, OutputsAreSpelled
<1> HIDE DEF out, words
<1>5. ASSUME NEW t \in out
      PROVE  t \in CandidatesAt(o, bpe, pre, out) <=> MayStand(o, vocab, c, n, t)
  <2> DEFINE p == n - Len(vocab[t])
  <2>1. t \in DOMAIN vocab /\ p \in Nat /\ Spelled(o, vocab, c, n, t)
    BY <1>4, <1>5
  <2>2. Len(vocab[t]) \in Nat \ {0}
    BY <2>1, UsableFacts
  <2>3. Len(pre) + 1 - TokenLen(bpe, t) = p
    BY <1>1, <1>2, <2>2 DEF TokenLen, BuiltFrom
  <2>4. p # 0 => p \in 1 .. n - 1
    BY <1>1, <2>1, <2>2
  <2> HIDE DEF p
  <2>5. p # 0 => TokenOf(o, pre[p]) = Outer(o, vocab, CutBack(o, c, p))
    BY <1>2, <2>4 DEF ExactAt, BuiltFrom
  <2>6. t \in CandidatesAt(o, bpe, pre, out)
          <=> (p = 0 \/ Beside(o, bpe, TokenOf(o, pre[p]), t))
    BY <1>5, <2>3 DEF CandidatesAt
  <2>7. MayStand(o, vocab, c, n, t)
          <=> (p = 0 \/ Beside(o, FromDictionary(vocab), Outer(o, vocab, CutBack(o, c, p)), t))
    BY <2>1 DEF MayStand, p
  <2>8. FromDictionary(vocab) = bpe
    BY DEF BuiltFrom
  <2> QED BY <2>5, <2>6, <2>7, <2>8
<1>6. ASSUME NEW t, t \notin out
      PROVE  ~(t \in CandidatesAt(o, bpe, pre, out)) /\ ~MayStand(o, vocab, c, n, t)
  <2>1. ~(t \in CandidatesAt(o, bpe, pre, out))
    BY <1>6 DEF CandidatesAt
  <2>2. ~MayStand(o, vocab, c, n, t)
    BY <1>4, <1>6 DEF MayStand
  <2> QED BY <2>1, <2>2
<1>7. \A t : t \in CandidatesAt(o, bpe, pre, out) <=> MayStand(o, vocab, c, n, t)
  BY <1>5, <1>6
<1> QED BY <1>7 DEF out, words

(* If the states before are exact, so is the state a push adds. *)
LEMMA ExactStep ==
  ASSUME NEW o \in {"appendable", "prependable"}, NEW s, NEW c, Traced(o, s, c),
         NEW vocab, BuiltFrom(vocab), Usable(vocab),
         IsSeq(c), Complete(vocab, c), Len(s) = Len(c),
         NEW n \in 1 .. Len(s), \A m \in 1 .. n - 1 : ExactAt(o, s, c, m)
  PROVE  ExactAt(o, s, c, n)
<1> DEFINE pre   == Earlier(s, n)
           words == WordsOf(o, vocab)
           outer == Outer(o, vocab, CutBack(o, c, n))
           p     == RestLen(vocab, n, outer)
           len   == Len(vocab[outer])
           x     == s[n]
           cand  == CandidatesAt(o, bpe, pre, Outputs(words, x.ac_state))
<1>1. Len(c) \in Nat /\ n \in Nat /\ n \in 1 .. Len(c)
  BY SeqFacts
<1>2. pre = Earlier(s, n) /\ outer = Outer(o, vocab, CutBack(o, c, n)) /\ p = RestLen(vocab, n, outer)
  OBVIOUS
<1> HIDE DEF pre, outer, p
<1>3. /\ (\A t : MayStand(o, vocab, c, n, t) <=> t = outer)
      /\ CountOf(o, vocab, c, n) = CountOf(o, vocab, c, p) + 1
  <2>1. Usable(vocab) /\ IsSeq(c) /\ Complete(vocab, c) /\ n \in 1 .. Len(c)
    BY <1>1
  <2> HIDE DEF len, cand, words, x
  <2> QED BY <1>2, <2>1, OneMayStand
<1>4. IsSeq(pre) /\ Len(pre) = n - 1 /\ (\A k \in 1 .. n - 1 : pre[k] = s[k])
      /\ x = StateAfter(o, pre, Byte(o, c, n))
  BY <1>2, StateIs
<1>5. \A t : t \in cand <=> MayStand(o, vocab, c, n, t)
  BY <1>2, CandidatesMayStand
<1>6. cand = CandidatesAt(o, bpe, pre, Outputs(WordsOf(o, bpe.vocab), x.ac_state))
      /\ words = WordsOf(o, bpe.vocab)
  BY DEF BuiltFrom
<1> HIDE DEF cand, words, x, len
<1>8. cand = {outer} /\ MayStand(o, vocab, c, n, outer)
  BY <1>3, <1>5
<1>9. outer \in DOMAIN vocab /\ n - len \in Nat /\ p = n - len
  BY <1>2, <1>8 DEF MayStand, RestLen, len
<1>10. len \in Nat \ {0} /\ Len(words[outer]) = len
  BY <1>9, UsableFacts, WordLengths DEF len, words
<1>11. FirstOutput(words, cand) = outer
  <2>1. len \in 0 .. n
    BY <1>1, <1>9, <1>10
  <2>2. \A t \in cand : Len(words[t]) \in 0 .. n
    BY <1>8, <1>10, <2>1
  <2>3. FirstOutput(words, cand) \in cand
    BY <1>1, <1>8, <2>2, FirstIsOne
  <2> QED BY <1>8, <2>3
<1>12. BesideLen(pre, outer) = p
  <2>1. TokenLen(bpe, outer) = len
    BY DEF TokenLen, len, BuiltFrom
  <2> QED BY <1>1, <1>4, <1>9, <1>10, <2>1 DEF BesideLen
<1>13. TokenOf(o, x) = outer /\ x.count = CountOn(pre, p)
  <2>1. x = StateAfter(o, pre, Byte(o, c, n)) /\ cand # {}
    BY <1>4, <1>8
  <2>2. cand = CandidatesAt(o, bpe, pre, Outputs(words, x.ac_state))
    BY <1>6
  <2>4. outer = FirstOutput(WordsOf(o, bpe.vocab), cand)
    BY <1>6, <1>11
  <2>5. cand = CandidatesAt(o, bpe, pre, Outputs(WordsOf(o, bpe.vocab), x.ac_state))
    BY <1>6
  <2>3. TokenOf(o, x) = outer /\ x.count = CountOn(pre, BesideLen(pre, outer))
    <3>1. TakesFirst(o, pre, x)
      BY <2>1, NewStateIs
    <3> QED BY <2>1, <2>4, <2>5, <3>1 DEF TakesFirst
  <2> QED BY <1>12, <2>3
<1>14. x.count = CountOf(o, vocab, c, p) + 1
  <2>1. CASE p = 0
    BY <1>13, <2>1, NoBytesNoTokens DEF CountOn
  <2>2. CASE p # 0
    <3>1. p \in 1 .. n - 1
      BY <1>1, <1>9, <1>10, <2>2
    <3>2. pre[p].count = CountOf(o, vocab, c, p)
      BY <1>4, <3>1 DEF ExactAt, BuiltFrom
    <3> QED BY <1>13, <2>2, <3>2 DEF CountOn
  <2> QED BY <2>1, <2>2
<1>15. vocab = bpe.vocab
  BY DEF BuiltFrom
<1> QED BY <1>2, <1>3, <1>13, <1>14, <1>15 DEF ExactAt, x

(* All states are exact. *)
LEMMA AllExact ==
  ASSUME NEW o \in {"appendable", "prependable"}, NEW s, NEW c, Traced(o, s, c),
         NEW vocab, BuiltFrom(vocab), Usable(vocab),
         IsSeq(c), Complete(vocab, c), Len(s) = Len(c)
  PROVE  \A n \in 1 .. Len(s) : ExactAt(o, s, c, n)
<1> DEFINE bad  == {n \in 1 .. Len(s) : ~ExactAt(o, s, c, n)}
<1>1. Len(s) \in Nat
  BY SeqFacts
<1>2. SUFFICES ASSUME bad # {} PROVE FALSE
  OBVIOUS
<1>3. PICK n \in bad : \A m \in bad : n <= m
  <2>1. bad \subseteq Nat
    BY <1>1
  <2> HIDE DEF bad
  <2> QED BY <1>2, <2>1, LeastExists
<1>4. n \in 1 .. Len(s) /\ ~ExactAt(o, s, c, n)
  BY <1>3
<1>5. \A m \in 1 .. n - 1 : ExactAt(o, s, c, m)
  BY <1>1, <1>3, <1>4
<1> QED BY <1>4, <1>5, ExactStep

-----------------------------------------------------------------------------
(* The dictionary and the bytes.                                           *)

(***************************************************************************)
(* The text is made of bytes that are tokens, and the dictionary is one    *)
(* that bpe_from_dictionary built.                                         *)
(***************************************************************************)
BytesInv ==
  object # "interval" =>
    /\ bpe.vocab \in Vocabularies /\ FromDictionary(bpe.vocab) = bpe
    /\ \A k \in 1 .. Len(content) : Byte(object, content, k) \in Bytes

(* the text after any call *)
LEMMA BytesStep ==
  ASSUME BytesInv, NEW c, object' = object, bpe' = bpe, content' = c,
         object # "interval" => \A k \in 1 .. Len(c) : Byte(object, c, k) \in Bytes
  PROVE  BytesInv'
BY DEF BytesInv

(* A push adds one of the bytes. *)
LEMMA PushBytes ==
  ASSUME TextInv, BytesInv, NEW byte \in Bytes,
         \/ object = "appendable" /\ Appendable!Push(byte)
         \/ object = "prependable" /\ Prependable!Push(byte),
         object' = object
  PROVE  BytesInv'
<1> DEFINE c == Longer(object, content, byte)
<1>1. object # "interval" /\ content' = c /\ bpe' = bpe
  BY DEF Appendable!Push, Prependable!Push, Longer
<1>2. IsSeq(content) /\ Len(content) \in Nat
  BY <1>1, SeqFacts DEF TextInv
<1>3. /\ Len(c) = Len(content) + 1
      /\ \A k \in 1 .. Len(content) : Byte(object, c, k) = Byte(object, content, k)
      /\ Byte(object, c, Len(content) + 1) = byte
  BY <1>2, LongerBytes
<1> HIDE DEF c
<1>4. \A k \in 1 .. Len(c) : k \in 1 .. Len(content) \/ k = Len(content) + 1
  BY <1>2, <1>3
<1>5. \A k \in 1 .. Len(c) : Byte(object, c, k) \in Bytes
  BY <1>1, <1>3, <1>4 DEF BytesInv
<1> QED BY <1>1, <1>5, BytesStep

(* An extension adds a word of them. *)
LEMMA ExtendBytes ==
  ASSUME TextInv, BytesInv, NEW word, IsSeq(word), \A k \in 1 .. Len(word) : word[k] \in Bytes,
         \/ object = "appendable" /\ Appendable!Extend(word)
         \/ object = "prependable" /\ Prependable!Extend(word),
         object' = object
  PROVE  BytesInv'
<1> DEFINE c == Extended(object, content, word)
<1>1. object # "interval" /\ content' = c /\ bpe' = bpe
  BY DEF Appendable!Extend, Prependable!Extend, Extended, Backwards, Prependable!Backwards
<1>2. IsSeq(content) /\ Len(content) \in Nat /\ Len(word) \in Nat
  BY <1>1, SeqFacts DEF TextInv
<1>3. c = Extended(object, content, word)
  OBVIOUS
<1> HIDE DEF c
<1>4. /\ Len(c) = Len(content) + Len(word)
      /\ \A k \in 1 .. Len(content) : Byte(object, c, k) = Byte(object, content, k)
      /\ \A k \in 1 .. Len(word) : Byte(object, c, Len(content) + k) = word[k]
  BY <1>2, <1>3, TextExtended
<1>5. ASSUME NEW k \in 1 .. Len(c) PROVE Byte(object, c, k) \in Bytes
  <2>1. CASE k \in 1 .. Len(content)
    BY <1>1, <1>4, <2>1 DEF BytesInv
  <2>2. CASE k \notin 1 .. Len(content)
    <3> DEFINE m == k - Len(content)
    <3>1. m \in 1 .. Len(word) /\ Len(content) + m = k
      BY <1>2, <1>4, <2>2
    <3> HIDE DEF m
    <3> QED BY <1>4, <3>1
  <2> QED BY <2>1, <2>2
<1> QED BY <1>1, <1>5, BytesStep

(* A cut adds none. *)
LEMMA TruncateBytes ==
  ASSUME TextInv, BytesInv, NEW len \in Nat,
         \/ object = "appendable" /\ Appendable!Truncate(len)
         \/ object = "prependable" /\ Prependable!Truncate(len),
         object' = object
  PROVE  BytesInv'
<1>1. /\ object # "interval" /\ bpe' = bpe
      /\ content' = IF len < Len(content) THEN CutBack(object, content, len) ELSE content
  BY DEF Appendable!Truncate, Prependable!Truncate, CutBack, EndOf, Prependable!EndOf
<1>2. IsSeq(content) /\ Len(content) \in Nat
  BY <1>1, SeqFacts DEF TextInv
<1>3. CASE len < Len(content)
  <2> DEFINE c == CutBack(object, content, len)
  <2>1. len \in 0 .. Len(content) /\ content' = c
    BY <1>1, <1>2, <1>3
  <2>2. Len(c) = len /\ \A k \in 1 .. len : Byte(object, c, k) = Byte(object, content, k)
    BY <1>2, <2>1, CutBytes
  <2> HIDE DEF c
  <2>3. \A k \in 1 .. len : k \in 1 .. Len(content)
    BY <1>2, <2>1
  <2>4. \A k \in 1 .. Len(c) : Byte(object, c, k) \in Bytes
    BY <1>1, <2>2, <2>3 DEF BytesInv
  <2> QED BY <1>1, <2>1, <2>4, BytesStep
<1>4. CASE ~(len < Len(content))
  <2>1. content' = content /\ \A k \in 1 .. Len(content) : Byte(object, content, k) \in Bytes
    BY <1>1, <1>4 DEF BytesInv
  <2> QED BY <1>1, <2>1, BytesStep
<1> QED BY <1>3, <1>4

(* The words that extend is given are made of bytes. *)
LEMMA WordBytes ==
  /\ \A word \in Appendable!Words : \A k \in 1 .. Len(word) : word[k] \in Bytes
  /\ \A word \in Prependable!Words : \A k \in 1 .. Len(word) : word[k] \in Bytes
<1>1. ASSUME NEW n \in 2 .. MaxLen, NEW word \in [1 .. n -> Bytes], NEW k \in 1 .. Len(word)
      PROVE  word[k] \in Bytes
  <2>1. n \in Nat
    BY BoundsAssumption
  <2>2. Len(word) = n
    BY <2>1
  <2> QED BY <2>2
<1> QED BY <1>1 DEF Appendable!Words, Prependable!Words

(***************************************************************************)
(* Whatever the calls, the text of an incremental encoder consists of the  *)
(* bytes that were pushed.                                                 *)
(***************************************************************************)
THEOREM BytesInvariance == AllSpec => []BytesInv
<1>1. AllInit => BytesInv
  <2> SUFFICES ASSUME AllInit PROVE BytesInv
    OBVIOUS
  <2>1. content = <<>>
    BY DEF AllInit
  <2>2. PICK vocab \in Vocabularies : bpe = FromDictionary(vocab)
    BY DEF AllInit, Init
  <2>3. bpe.vocab = vocab
    BY <2>2 DEF FromDictionary
  <2>4. \A k \in 1 .. Len(content) : FALSE
    BY <2>1
  <2> QED BY <2>2, <2>3, <2>4 DEF BytesInv
<1>2. TextInv /\ BytesInv /\ [AllNext]_allVars => BytesInv'
  <2> SUFFICES ASSUME TextInv, BytesInv, [AllNext]_allVars PROVE BytesInv'
    OBVIOUS
  <2>1. CASE object = "appendable" /\ Appendable!Next /\ UNCHANGED object
    <3>1. CASE \E byte \in Bytes : Appendable!Push(byte)
      BY <2>1, <3>1, PushBytes
    <3>2. CASE \E word \in Appendable!Words : Appendable!Extend(word)
      BY <2>1, <3>2, ExtendBytes, WordsAreSequences, WordBytes
    <3>3. CASE \E len \in 0 .. MaxLen : Appendable!Truncate(len)
      BY <2>1, <3>3, TruncateBytes, BoundsAssumption
    <3> QED BY <2>1, <3>1, <3>2, <3>3 DEF Appendable!Next
  <2>2. CASE object = "prependable" /\ Prependable!Next /\ UNCHANGED object
    <3>1. CASE \E byte \in Bytes : Prependable!Push(byte)
      BY <2>2, <3>1, PushBytes
    <3>2. CASE \E word \in Prependable!Words : Prependable!Extend(word)
      BY <2>2, <3>2, ExtendBytes, WordsAreSequences, WordBytes
    <3>3. CASE \E len \in 0 .. MaxLen : Prependable!Truncate(len)
      BY <2>2, <3>3, TruncateBytes, BoundsAssumption
    <3> QED BY <2>2, <3>1, <3>2, <3>3 DEF Prependable!Next
  <2>3. CASE object = "interval" /\ UNCHANGED object
    BY <2>3 DEF BytesInv
  <2>4. CASE UNCHANGED allVars
    <3>1. object' = object /\ content' = content /\ bpe' = bpe
      BY <2>4 DEF allVars, vars, incremental
    <3> QED BY <3>1, BytesStep DEF BytesInv
  <2> QED BY <2>1, <2>2, <2>3, <2>4 DEF AllNext
<1> QED BY <1>1, <1>2, TextInvariance, PTL DEF AllSpec

-----------------------------------------------------------------------------
(* The theorem.                                                            *)

(* The dictionaries of this module are usable, and spell every text. *)
LEMMA VocabularyUsable ==
  ASSUME NEW vocab \in Vocabularies
  PROVE  /\ Usable(vocab)
         /\ \A byte \in Bytes : \E t \in DOMAIN vocab : vocab[t] = <<byte>>
<1>1. /\ \E n \in 0 .. UINT32_MAX : DOMAIN vocab = 0 .. n - 1
      /\ Mergeable(vocab)
      /\ \A byte \in Bytes : \E t \in DOMAIN vocab : vocab[t] = <<byte>>
  BY DictionaryAssumption, BytesAssumption
<1>2. ASSUME NEW t \in DOMAIN vocab
      PROVE  IsSeq(vocab[t]) /\ Len(vocab[t]) > 0 /\ Complete(vocab, vocab[t])
  BY DictionaryAssumption DEF IsSeq
<1> QED BY <1>1, <1>2 DEF Usable

(* So every byte of the text is a token by itself. *)
LEMMA BytesComplete ==
  ASSUME NEW o, NEW vocab, NEW c, IsSeq(c), \A k \in 1 .. Len(c) : Byte(o, c, k) \in Bytes,
         \A byte \in Bytes : \E t \in DOMAIN vocab : vocab[t] = <<byte>>
  PROVE  Complete(vocab, c)
<1>1. Len(c) \in Nat
  BY SeqFacts
<1>2. ASSUME NEW k \in 1 .. Len(c) PROVE c[k] \in Bytes
  <2> DEFINE m == Len(c) + 1 - k
  <2>1. m \in 1 .. Len(c) /\ Len(c) + 1 - m = k
    BY <1>1
  <2> HIDE DEF m
  <2> QED BY <2>1 DEF Byte
<1> QED BY <1>2 DEF Complete

(* Cut back to its full length a text is unchanged. *)
LEMMA WholeCut ==
  ASSUME NEW o, NEW c, IsSeq(c)
  PROVE  CutBack(o, c, Len(c)) = c
<1>1. Len(c) \in Nat /\ Len(c) - Len(c) + 1 = 1
  BY SeqFacts
<1>2. SubSeq(c, 1, Len(c)) = c
  BY WholeSeq
<1> QED BY <1>1, <1>2 DEF CutBack, EndOf

(* The encoders' copies of the reference. *)
LEMMA SameReference ==
  \A vocab, w : /\ Appendable!ReferenceEncoding(vocab, w) = ReferenceEncoding(vocab, w)
                /\ Prependable!ReferenceEncoding(vocab, w) = ReferenceEncoding(vocab, w)
BY DEF ReferenceEncoding, JoinLowest, FindTokenByBytes,
       Appendable!ReferenceEncoding, Appendable!JoinLowest, Appendable!FindTokenByBytes,
       Prependable!ReferenceEncoding, Prependable!JoinLowest, Prependable!FindTokenByBytes

(***************************************************************************)
(* For every dictionary byte pair encoding can build, any bytes and any    *)
(* calls: state n of the appendable and of the prependable encoder tells   *)
(* the number of tokens and the outermost token of the reference encoding  *)
(* of the n bytes pushed first.                                            *)
(***************************************************************************)
THEOREM CountsAlwaysExact == AllSpec => []CountsExact
<1>1. ASSUME TextInv, BytesInv PROVE CountsExact
  <2>1. SUFFICES ASSUME object # "interval" PROVE CountsExact
    BY DEF CountsExact
  <2> DEFINE vocab == bpe.vocab
             N     == Len(states)
  <2>2. /\ object \in {"appendable", "prependable"}
        /\ IsSeq(content) /\ N = Len(content) /\ N \in Nat /\ Traced(object, states, content)
    BY <1>1, <2>1, SeqFacts DEF TextInv
  <2>3. /\ vocab \in Vocabularies /\ BuiltFrom(vocab)
        /\ \A k \in 1 .. Len(content) : Byte(object, content, k) \in Bytes
    BY <1>1, <2>1 DEF BytesInv, BuiltFrom
  <2> HIDE DEF vocab
  <2>4. Usable(vocab) /\ Complete(vocab, content)
    BY <2>2, <2>3, VocabularyUsable, BytesComplete
  <2>5. \A n \in 1 .. N : ExactAt(object, states, content, n)
    BY <2>2, <2>3, <2>4, AllExact
  <2>6. bpe.vocab = vocab
    BY DEF vocab
  <2>7. \A n \in 1 .. N : /\ states[n].count = Len(ReferenceEncoding(bpe.vocab, CutBack(object, content, n)))
                          /\ TokenOf(object, states[n]) = Outer(object, bpe.vocab, CutBack(object, content, n))
    BY <2>5 DEF ExactAt, CountOf
  <2>8. (IF states = <<>> THEN 0 ELSE states[N].count) = Len(ReferenceEncoding(bpe.vocab, content))
    <3>1. IsSeq(states)
      BY <2>2 DEF Traced
    <3>2. CASE states = <<>>
      <4>1. content = <<>>
        BY <2>2, <3>2, SeqFacts
      <4>2. ReferenceEncoding(bpe.vocab, content) = <<>>
        BY <2>4, <2>6, <4>1, EmptyReference
      <4> QED BY <3>2, <4>2
    <3>3. CASE states # <<>>
      <4>1. N \in 1 .. N
        <5>1. N # 0
          BY <3>1, <3>3, SeqFacts
        <5> QED BY <2>2, <5>1
      <4>2. CutBack(object, content, N) = content
        BY <2>2, WholeCut
      <4> QED BY <2>7, <3>3, <4>1, <4>2
    <3> QED BY <3>2, <3>3
  <2> HIDE DEF N
  <2>9. CASE object = "appendable"
    <3>1. \A n \in 1 .. N : /\ states[n].count = Len(ReferenceEncoding(bpe.vocab, SubSeq(content, 1, n)))
                            /\ states[n].last_token = LastOf(bpe.vocab, SubSeq(content, 1, n))
      BY <2>7, <2>9 DEF TokenOf, Outer, CutBack
    <3>2. Appendable!CountsExact
      BY <2>8, <3>1, SameReference DEF Appendable!CountsExact, Appendable!TokenCount, LastOf, N
    <3> QED BY <2>9, <3>2 DEF CountsExact
  <2>10. CASE object = "prependable"
    <3>1. \A n \in 1 .. N : /\ states[n].count = Len(ReferenceEncoding(bpe.vocab, EndOf(content, n)))
                            /\ states[n].prev_token = FirstOf(bpe.vocab, EndOf(content, n))
      BY <2>7, <2>10 DEF TokenOf, Outer, CutBack
    <3>2. \A n : Prependable!EndOf(content, n) = EndOf(content, n)
      BY DEF EndOf, Prependable!EndOf
    <3>3. Prependable!CountsExact
      BY <2>8, <3>1, <3>2, SameReference DEF Prependable!CountsExact, Prependable!TokenCount, FirstOf, N
    <3> QED BY <2>10, <3>3 DEF CountsExact
  <2> QED BY <2>2, <2>9, <2>10
<1> QED BY <1>1, TextInvariance, BytesInvariance, PTL

-----------------------------------------------------------------------------
(* Trees.                                                                  *)

(***************************************************************************)
(* A tree with the nodes 0 .. n: every node but 0 has a smaller parent, and *)
(* path[q] is the set of the nodes from q up to the root 0.                *)
(***************************************************************************)
IsTree(n, par, path) ==
  /\ n \in Nat
  /\ \A q \in 1 .. n : par[q] \in 0 .. q - 1
  /\ path[0] = {0}
  /\ \A q \in 1 .. n : path[q] = path[par[q]] \cup {q}

(* What passes from parent to child holds of every node. *)
LEMMA TreeInduction ==
  ASSUME NEW n, NEW par, NEW path, IsTree(n, par, path),
         NEW S, 0 \in S, \A q \in 1 .. n : par[q] \in S => q \in S
  PROVE  \A q \in 0 .. n : q \in S
<1>0. n \in Nat /\ \A q \in 1 .. n : par[q] \in 0 .. q - 1
  BY DEF IsTree
<1> SUFFICES ASSUME NEW x \in 0 .. n, x \notin S PROVE FALSE
  OBVIOUS
<1> DEFINE C == {q \in 0 .. n : q \notin S}
<1>1. C \in SUBSET Nat /\ x \in C
  BY <1>0
<1> HIDE DEF C
<1>2. PICK c \in C : \A d \in C : c <= d
  BY <1>1, LeastExists
<1>3. c \in 1 .. n /\ c \notin S
  BY <1>0, <1>2 DEF C
<1>4. par[c] \in 0 .. n /\ par[c] < c
  BY <1>0, <1>3
<1>5. par[c] \notin C
  BY <1>1, <1>2, <1>4
<1>6. par[c] \in S
  BY <1>4, <1>5 DEF C
<1> QED BY <1>3, <1>6

(* A path goes down to 0 and has only smaller nodes. *)
LEMMA PathFacts ==
  ASSUME NEW n, NEW par, NEW path, IsTree(n, par, path)
  PROVE  \A q \in 0 .. n : path[q] \subseteq 0 .. q /\ q \in path[q] /\ 0 \in path[q]
<1>0. /\ n \in Nat /\ \A q \in 1 .. n : par[q] \in 0 .. q - 1
      /\ path[0] = {0} /\ \A q \in 1 .. n : path[q] = path[par[q]] \cup {q}
  BY DEF IsTree
<1> DEFINE S == {q \in 0 .. n : path[q] \subseteq 0 .. q /\ q \in path[q] /\ 0 \in path[q]}
<1>1. 0 \in S
  BY <1>0
<1>2. ASSUME NEW q \in 1 .. n, par[q] \in S PROVE q \in S
  <2>1. path[q] = path[par[q]] \cup {q} /\ par[q] \in 0 .. q - 1
    BY <1>0
  <2>2. path[par[q]] \subseteq 0 .. par[q] /\ 0 \in path[par[q]]
    BY <1>2
  <2>3. 0 .. par[q] \subseteq 0 .. q /\ q \in 0 .. q
    BY <2>1
  <2> QED BY <2>1, <2>2, <2>3
<1> HIDE DEF S
<1>3. \A q \in 0 .. n : q \in S
  BY <1>1, <1>2, TreeInduction
<1> QED BY <1>3 DEF S

(* A path goes on with the path of each of its nodes. *)
LEMMA PathOfPath ==
  ASSUME NEW n, NEW par, NEW path, IsTree(n, par, path)
  PROVE  \A q \in 0 .. n : \A c \in path[q] : path[c] \subseteq path[q]
<1>0. /\ path[0] = {0} /\ \A q \in 1 .. n : path[q] = path[par[q]] \cup {q}
  BY DEF IsTree
<1> DEFINE S == {q \in 0 .. n : \A c \in path[q] : path[c] \subseteq path[q]}
<1>1. 0 \in S
  BY <1>0 DEF IsTree
<1>2. ASSUME NEW q \in 1 .. n, par[q] \in S PROVE q \in S
  <2>1. path[q] = path[par[q]] \cup {q} /\ q \in 0 .. n
    BY <1>0 DEF IsTree
  <2>2. \A c \in path[par[q]] : path[c] \subseteq path[par[q]]
    BY <1>2
  <2>3. \A c \in path[q] : path[c] \subseteq path[q]
    BY <2>1, <2>2
  <2> QED BY <2>1, <2>3
<1> HIDE DEF S
<1>3. \A q \in 0 .. n : q \in S
  BY <1>1, <1>2, TreeInduction
<1> QED BY <1>3 DEF S

(* Of two nodes on a path the smaller one is on the path of the other. *)
LEMMA PathIsLine ==
  ASSUME NEW n, NEW par, NEW path, IsTree(n, par, path)
  PROVE  \A q \in 0 .. n : \A a, b \in path[q] : a <= b => a \in path[b]
<1>0. /\ n \in Nat /\ path[0] = {0} /\ \A q \in 1 .. n : path[q] = path[par[q]] \cup {q}
      /\ \A q \in 1 .. n : par[q] \in 0 .. q - 1
  BY DEF IsTree
<1> DEFINE S == {q \in 0 .. n : \A a, b \in path[q] : a <= b => a \in path[b]}
<1>1. 0 \in S
  BY <1>0
<1>2. ASSUME NEW q \in 1 .. n, par[q] \in S PROVE q \in S
  <2>1. path[q] = path[par[q]] \cup {q} /\ q \in 0 .. n /\ par[q] \in 0 .. q - 1 /\ q \in path[q]
    BY <1>0
  <2>2. \A a, b \in path[par[q]] : a <= b => a \in path[b]
    BY <1>2
  <2>3. path[par[q]] \subseteq 0 .. par[q]
    BY <1>0, <2>1, PathFacts
  <2>4. ASSUME NEW a \in path[q], NEW b \in path[q], a <= b PROVE a \in path[b]
    <3>1. CASE b = q
      BY <3>1
    <3>2. CASE b # q
      <4>1. b \in path[par[q]] /\ b \in 0 .. par[q]
        BY <2>1, <2>3, <3>2
      <4>2. a # q
        BY <2>1, <2>4, <4>1
      <4>3. a \in path[par[q]]
        BY <2>1, <4>2
      <4> QED BY <2>2, <2>4, <4>1, <4>3
    <3> QED BY <3>1, <3>2
  <2> QED BY <2>1, <2>4
<1> HIDE DEF S
<1>3. \A q \in 0 .. n : q \in S
  BY <1>1, <1>2, TreeInduction
<1> QED BY <1>3 DEF S

(* c is the child of p on the path of q *)
ChildOn(par, path, p, c, q) == c \in path[q] /\ c # 0 /\ par[c] = p

(* Every node on a path but its last has one child there. *)
LEMMA ChildExists ==
  ASSUME NEW n, NEW par, NEW path, IsTree(n, par, path),
         NEW q \in 0 .. n, NEW p \in path[q], p # q
  PROVE  \E c : ChildOn(par, path, p, c, q)
<1>0. /\ n \in Nat /\ path[0] = {0} /\ \A r \in 1 .. n : path[r] = path[par[r]] \cup {r}
      /\ \A r \in 1 .. n : par[r] \in 0 .. r - 1
  BY DEF IsTree
<1> DEFINE S == {r \in 0 .. n : \A s \in path[r] : s # r => \E c : ChildOn(par, path, s, c, r)}
<1>1. 0 \in S
  BY <1>0
<1>2. ASSUME NEW r \in 1 .. n, par[r] \in S PROVE r \in S
  <2>1. path[r] = path[par[r]] \cup {r} /\ r \in 0 .. n /\ r # 0
    BY <1>0
  <2>2. ASSUME NEW s \in path[r], s # r PROVE \E c : ChildOn(par, path, s, c, r)
    <3>1. CASE s = par[r]
      <4>1. ChildOn(par, path, s, r, r)
        BY <2>1, <3>1 DEF ChildOn
      <4> QED BY <4>1
    <3>2. CASE s # par[r]
      <4>1. s \in path[par[r]]
        BY <2>1, <2>2
      <4>2. PICK c : ChildOn(par, path, s, c, par[r])
        BY <1>2, <3>2, <4>1
      <4>3. ChildOn(par, path, s, c, r)
        BY <2>1, <4>2 DEF ChildOn
      <4> QED BY <4>3
    <3> QED BY <3>1, <3>2
  <2> QED BY <2>1, <2>2
<1> HIDE DEF S
<1>3. \A r \in 0 .. n : r \in S
  BY <1>1, <1>2, TreeInduction
<1> QED BY <1>3 DEF S

LEMMA ChildFacts ==
  ASSUME NEW n, NEW par, NEW path, IsTree(n, par, path),
         NEW q \in 0 .. n, NEW p, NEW c, ChildOn(par, path, p, c, q)
  PROVE  /\ c \in 1 .. n /\ c <= q /\ p \in 0 .. n /\ p < c /\ p \in path[q] /\ p # q
         /\ \A d : ChildOn(par, path, p, d, q) => d = c
<1>0. /\ n \in Nat /\ \A r \in 1 .. n : path[r] = path[par[r]] \cup {r}
      /\ \A r \in 1 .. n : par[r] \in 0 .. r - 1
  BY DEF IsTree
<1>1. path[q] \subseteq 0 .. q
  BY PathFacts
<1>2. ASSUME NEW d, ChildOn(par, path, p, d, q)
      PROVE  /\ d \in 1 .. n /\ d <= q /\ p \in 0 .. n /\ p < d
             /\ path[d] = path[p] \cup {d} /\ p \in path[p] /\ d \in path[q] /\ path[p] \subseteq 0 .. p
  <2>1. d \in path[q] /\ d # 0 /\ par[d] = p
    BY <1>2 DEF ChildOn
  <2>2. d \in 1 .. n /\ d <= q
    BY <1>0, <1>1, <2>1
  <2>3. p \in 0 .. n /\ p < d /\ path[d] = path[p] \cup {d}
    BY <1>0, <2>1, <2>2
  <2> QED BY <2>1, <2>2, <2>3, PathFacts
<1>3. path[c] \subseteq path[q]
  BY <1>2, PathOfPath
<1>4. \A a, b : ChildOn(par, path, p, a, q) /\ ChildOn(par, path, p, b, q) /\ a <= b => a = b
  <2> SUFFICES ASSUME NEW a, NEW b, ChildOn(par, path, p, a, q), ChildOn(par, path, p, b, q),
                      a <= b, a # b
               PROVE  FALSE
    OBVIOUS
  <2>1. a \in path[q] /\ b \in path[q] /\ a > p /\ a \in 1 .. n
    BY <1>2
  <2>2. a \in path[b]
    BY <2>1, PathIsLine
  <2>3. a \in path[p] /\ path[p] \subseteq 0 .. p /\ p \in 0 .. n
    BY <1>2, <2>2
  <2> QED BY <2>1, <2>3
<1>5. ASSUME NEW d, ChildOn(par, path, p, d, q) PROVE d = c
  <2>1. c \in 1 .. n /\ d \in 1 .. n
    BY <1>2, <1>5
  <2>2. c <= d \/ d <= c
    BY <1>0, <2>1
  <2> QED BY <1>4, <1>5, <2>2
<1> QED BY <1>2, <1>3, <1>5

-----------------------------------------------------------------------------
(* The size of a subtree.                                                  *)

Under(n, path, p) == {q \in 0 .. n : p \in path[q]}

(* the nodes of the subtree of p below the children in C, and p *)
Below(n, par, path, p, C) ==
  {q \in 0 .. n : q = p \/ \E c \in C : ChildOn(par, path, p, c, q)}

SizeOf(n, path, p)           == Cardinality(Under(n, path, p))
SizeBelow(n, par, path, p, C) == Cardinality(Below(n, par, path, p, C))

LEMMA BelowTyped ==
  ASSUME NEW n, NEW par, NEW path, IsTree(n, par, path), NEW p, NEW C
  PROVE  /\ IsFiniteSet(Under(n, path, p)) /\ SizeOf(n, path, p) \in Nat
         /\ IsFiniteSet(Below(n, par, path, p, C)) /\ SizeBelow(n, par, path, p, C) \in Nat
<1>1. IsFiniteSet(0 .. n)
  BY FS_Interval DEF IsTree
<1>2. Under(n, path, p) \in SUBSET (0 .. n) /\ Below(n, par, path, p, C) \in SUBSET (0 .. n)
  BY DEF Under, Below
<1>3. IsFiniteSet(Under(n, path, p)) /\ IsFiniteSet(Below(n, par, path, p, C))
  BY <1>1, <1>2, FS_Subset
<1> QED BY <1>3, FS_CardinalityType DEF SizeOf, SizeBelow

(* With no child, there is p; with all of them, the whole subtree. *)
LEMMA BelowEnds ==
  ASSUME NEW n, NEW par, NEW path, IsTree(n, par, path), NEW p \in 0 .. n
  PROVE  /\ SizeBelow(n, par, path, p, {}) = 1
         /\ \A C : p + 1 .. n \subseteq C => SizeBelow(n, par, path, p, C) = SizeOf(n, path, p)
<1>1. Below(n, par, path, p, {}) = {p}
  BY DEF Below
<1>2. SizeBelow(n, par, path, p, {}) = 1
  BY <1>1, FS_Singleton DEF SizeBelow
<1>3. ASSUME NEW C, p + 1 .. n \subseteq C
      PROVE  Below(n, par, path, p, C) = Under(n, path, p)
  <2>1. ASSUME NEW q \in 0 .. n, p \in path[q], q # p
        PROVE  \E c \in C : ChildOn(par, path, p, c, q)
    <3>1. PICK c : ChildOn(par, path, p, c, q)
      BY <2>1, ChildExists
    <3>2. c \in 1 .. n /\ p < c
      BY <3>1, ChildFacts
    <3>3. n \in Nat
      BY DEF IsTree
    <3>4. c \in p + 1 .. n
      BY <3>2, <3>3
    <3> QED BY <1>3, <3>1, <3>4
  <2>2. ASSUME NEW q \in 0 .. n, NEW c, ChildOn(par, path, p, c, q) PROVE p \in path[q]
    BY <2>2, ChildFacts
  <2>3. p \in path[p]
    BY PathFacts
  <2> QED BY <2>1, <2>2, <2>3 DEF Below, Under
<1> QED BY <1>2, <1>3 DEF SizeBelow, SizeOf

(* One child more adds its subtree, or nothing if it is not a child of p. *)
LEMMA BelowStep ==
  ASSUME NEW n, NEW par, NEW path, IsTree(n, par, path), NEW p \in 0 .. n,
         NEW C, NEW k \in 1 .. n, k \notin C
  PROVE  SizeBelow(n, par, path, p, C \cup {k}) =
           IF par[k] = p THEN SizeBelow(n, par, path, p, C) + SizeOf(n, path, k)
                         ELSE SizeBelow(n, par, path, p, C)
<1> DEFINE B == Below(n, par, path, p, C)
           U == Under(n, path, k)
<1>1. CASE par[k] = p
  <2>1. \A q \in 0 .. n : ChildOn(par, path, p, k, q) <=> q \in U
    BY <1>1 DEF ChildOn, Under, IsTree
  <2>2. Below(n, par, path, p, C \cup {k}) = B \cup U
    BY <2>1 DEF Below, Under
  <2>3. B \cap U = {}
    <3> SUFFICES ASSUME NEW q \in B, q \in U PROVE FALSE
      OBVIOUS
    <3>1. q \in 0 .. n /\ ChildOn(par, path, p, k, q)
      BY <2>1 DEF Under
    <3>2. q # p
      BY <3>1, ChildFacts
    <3>3. PICK c \in C : ChildOn(par, path, p, c, q)
      BY <3>2 DEF Below
    <3>4. c = k
      BY <3>1, <3>3, ChildFacts
    <3> QED BY <3>4
  <2>4. /\ IsFiniteSet(B) /\ IsFiniteSet(U)
        /\ Cardinality(B) \in Nat /\ Cardinality(U) \in Nat
    BY BelowTyped DEF SizeOf, SizeBelow
  <2> HIDE DEF B, U
  <2>5. Cardinality(B \cup U) = Cardinality(B) + Cardinality(U)
    <3>1. Cardinality(B \cup U) = Cardinality(B) + Cardinality(U) - Cardinality(B \cap U)
      BY <2>4, FS_Union
    <3>2. Cardinality(B \cap U) = 0
      BY <2>3, FS_EmptySet
    <3> QED BY <2>4, <3>1, <3>2
  <2> QED BY <1>1, <2>2, <2>5 DEF B, U, SizeOf, SizeBelow
<1>2. CASE par[k] # p
  <2>1. Below(n, par, path, p, C \cup {k}) = B
    BY <1>2 DEF Below, ChildOn
  <2> QED BY <1>2, <2>1 DEF SizeBelow
<1> QED BY <1>1, <1>2

(* What is below some children of p is at most its subtree. *)
LEMMA BelowAtMost ==
  ASSUME NEW n, NEW par, NEW path, IsTree(n, par, path), NEW p \in 0 .. n, NEW C
  PROVE  SizeBelow(n, par, path, p, C) <= SizeOf(n, path, p)
<1>1. Below(n, par, path, p, C) \subseteq Under(n, path, p)
  <2>1. ASSUME NEW q \in 0 .. n, NEW c, ChildOn(par, path, p, c, q) PROVE p \in path[q]
    BY <2>1, ChildFacts
  <2>2. p \in path[p]
    BY PathFacts
  <2> QED BY <2>1, <2>2 DEF Below, Under
<1>2. IsFiniteSet(Under(n, path, p))
  BY BelowTyped
<1> QED BY <1>1, <1>2, FS_Subset DEF SizeOf, SizeBelow

(* The whole tree has n + 1 nodes, and every subtree one at least. *)
LEMMA SizeFacts ==
  ASSUME NEW n, NEW par, NEW path, IsTree(n, par, path)
  PROVE  /\ SizeOf(n, path, 0) = n + 1
         /\ \A p \in 0 .. n : SizeOf(n, path, p) \in Nat /\ SizeOf(n, path, p) >= 1
<1>0. n \in Nat
  BY DEF IsTree
<1>1. SizeOf(n, path, 0) = n + 1
  <2>1. Under(n, path, 0) = 0 .. n
    BY PathFacts DEF Under
  <2>2. Cardinality(0 .. n) = n + 1
    <3>1. Cardinality(0 .. n) = IF 0 > n THEN 0 ELSE n - 0 + 1
      BY <1>0, FS_Interval
    <3> QED BY <1>0, <3>1
  <2> QED BY <2>1, <2>2 DEF SizeOf
<1>2. ASSUME NEW p \in 0 .. n
      PROVE  SizeOf(n, path, p) \in Nat /\ SizeOf(n, path, p) >= 1
  <2>1. SizeBelow(n, par, path, p, {}) = 1 /\ SizeOf(n, path, p) \in Nat
    BY BelowEnds, BelowTyped
  <2>2. SizeBelow(n, par, path, p, {}) <= SizeOf(n, path, p)
    BY BelowAtMost
  <2> QED BY <2>1, <2>2
<1> QED BY <1>1, <1>2

-----------------------------------------------------------------------------
(* The numbers.                                                            *)

(* q has its numbers among those of p *)
Inside(n, path, num, p, q) ==
  num[p] <= num[q] /\ num[q] + SizeOf(n, path, q) <= num[p] + SizeOf(n, path, p)

(* no number of p or of a node below it is one of q or below it *)
Apart(n, path, num, p, q) ==
  \/ num[p] + SizeOf(n, path, p) <= num[q]
  \/ num[q] + SizeOf(n, path, q) <= num[p]

(***************************************************************************)
(* The nodes below k have their numbers: the numbers of a subtree are an   *)
(* interval that begins with its root, num, and top is the next free       *)
(* number in it.                                                           *)
(***************************************************************************)
Numbered(n, par, path, num, top, k) ==
  /\ num[0] = 0
  /\ \A p \in 0 .. k - 1 :
       /\ num[p] \in Nat
       /\ top[p] = num[p] + SizeBelow(n, par, path, p, 1 .. k - 1)
  /\ \A c \in 1 .. k - 1 : num[par[c]] < num[c] /\ num[c] + SizeOf(n, path, c) <= top[par[c]]
  /\ \A p, q \in 0 .. k - 1 :
       /\ p \in path[q] => Inside(n, path, num, p, q)
       /\ p \in path[q] /\ p # q => num[p] < num[q]
       /\ p \notin path[q] /\ q \notin path[p] => Apart(n, path, num, p, q)

LEMMA RootNumbered ==
  ASSUME NEW n, NEW par, NEW path, IsTree(n, par, path), NEW num, NEW top,
         num[0] = 0, top[0] = 1
  PROVE  Numbered(n, par, path, num, top, 1)
<1>0. n \in Nat /\ path[0] = {0}
  BY DEF IsTree
<1>1. 0 .. 1 - 1 = {0} /\ 1 .. 1 - 1 = {}
  OBVIOUS
<1>2. SizeBelow(n, par, path, 0, {}) = 1 /\ SizeOf(n, path, 0) \in Nat
  BY <1>0, BelowEnds, SizeFacts
<1>3. Inside(n, path, num, 0, 0)
  BY <1>2 DEF Inside
<1> QED BY <1>0, <1>1, <1>2, <1>3 DEF Numbered

(* The parent of the next node has room for its subtree. *)
LEMMA RoomForNext ==
  ASSUME NEW n, NEW par, NEW path, IsTree(n, par, path), NEW num, NEW top,
         NEW k \in 1 .. n, Numbered(n, par, path, num, top, k), NEW p, p = par[k]
  PROVE  /\ p \in 0 .. k - 1 /\ p \in 0 .. n /\ num[p] \in Nat /\ top[p] \in Nat
         /\ num[p] < top[p]
         /\ top[p] + SizeOf(n, path, k) <= num[p] + SizeOf(n, path, p)
         /\ SizeOf(n, path, k) \in Nat /\ SizeOf(n, path, p) \in Nat /\ SizeOf(n, path, k) >= 1
<1>0. n \in Nat /\ p \in 0 .. k - 1 /\ p \in 0 .. n
  BY DEF IsTree
<1>1. num[p] \in Nat /\ top[p] = num[p] + SizeBelow(n, par, path, p, 1 .. k - 1)
  BY <1>0 DEF Numbered
<1> DEFINE C == 1 .. k - 1
<1>2. k \notin C /\ {} \subseteq C
  OBVIOUS
<1>3. SizeBelow(n, par, path, p, C \cup {k}) = SizeBelow(n, par, path, p, C) + SizeOf(n, path, k)
  <2> HIDE DEF C
  <2> QED BY <1>0, <1>2, BelowStep
<1>4. SizeBelow(n, par, path, p, C \cup {k}) <= SizeOf(n, path, p)
  BY <1>0, BelowAtMost
<1>5. SizeBelow(n, par, path, p, C) \in Nat
  BY BelowTyped
<1>6. SizeOf(n, path, k) \in Nat /\ SizeOf(n, path, p) \in Nat /\ SizeOf(n, path, k) >= 1
  BY <1>0, SizeFacts
<1>7. SizeBelow(n, par, path, p, C) >= 1
  <2>1. p \in Below(n, par, path, p, C)
    BY <1>0 DEF Below
  <2>2. IsFiniteSet(Below(n, par, path, p, C))
    BY BelowTyped
  <2>3. Cardinality(Below(n, par, path, p, C)) # 0
    BY <2>1, <2>2, FS_EmptySet
  <2> QED BY <1>5, <2>3 DEF SizeBelow
<1> HIDE DEF C
<1>8. top[p] = num[p] + SizeBelow(n, par, path, p, C)
  BY <1>1 DEF C
<1> QED BY <1>0, <1>1, <1>3, <1>4, <1>5, <1>6, <1>7, <1>8

(* Where the next node goes, other subtrees end before it or begin after it. *)
LEMMA NextBeside ==
  ASSUME NEW n, NEW par, NEW path, IsTree(n, par, path), NEW num, NEW top,
         NEW k \in 1 .. n, Numbered(n, par, path, num, top, k),
         NEW q \in 0 .. k - 1, q \notin path[k]
  PROVE  \/ num[q] + SizeOf(n, path, q) <= top[par[k]]
         \/ top[par[k]] + SizeOf(n, path, k) <= num[q]
<1> DEFINE p == par[k]
<1>1. /\ p \in 0 .. k - 1 /\ p \in 0 .. n /\ num[p] \in Nat /\ top[p] \in Nat
      /\ num[p] < top[p]
      /\ top[p] + SizeOf(n, path, k) <= num[p] + SizeOf(n, path, p)
      /\ SizeOf(n, path, k) \in Nat /\ SizeOf(n, path, p) \in Nat
  <2> HIDE DEF p
  <2>1. p = par[k]
    BY DEF p
  <2> QED BY <2>1, RoomForNext
<1>2. path[k] = path[p] \cup {k} /\ n \in Nat
  BY DEF IsTree
<1>3. q \in 0 .. n /\ q \notin path[p] /\ num[q] \in Nat /\ SizeOf(n, path, q) \in Nat
  <2>1. q \in 0 .. n
    BY <1>2
  <2> QED BY <1>2, <2>1, SizeFacts DEF Numbered
<1> HIDE DEF p
<1>4. CASE p \notin path[q]
  <2>1. Apart(n, path, num, p, q)
    BY <1>1, <1>3, <1>4 DEF Numbered
  <2> QED BY <1>1, <1>3, <2>1 DEF Apart, p
<1>5. CASE p \in path[q]
  <2>1. p # q
    BY <1>3, <1>5, PathFacts
  <2>2. PICK c : ChildOn(par, path, p, c, q)
    BY <1>3, <1>5, <2>1, ChildExists
  <2>3. c \in 1 .. n /\ c <= q /\ c \in path[q] /\ par[c] = p
    BY <1>3, <2>2, ChildFacts DEF ChildOn
  <2>4. c \in 1 .. k - 1 /\ c \in 0 .. k - 1
    BY <1>3, <2>3
  <2>5. num[c] + SizeOf(n, path, c) <= top[p]
    BY <2>3, <2>4 DEF Numbered
  <2>6. Inside(n, path, num, c, q)
    BY <2>3, <2>4 DEF Numbered
  <2>7. num[c] \in Nat /\ SizeOf(n, path, c) \in Nat
    BY <2>3, <2>4, SizeFacts DEF Numbered
  <2> QED BY <1>1, <1>3, <2>5, <2>6, <2>7 DEF Inside, p
<1> QED BY <1>4, <1>5

(* node k takes the next numbers of its parent *)
NumberedNext(n, path, par, num, top, num2, top2, k) ==
  /\ num2[k] = top[par[k]] /\ top2[k] = top[par[k]] + 1
  /\ top2[par[k]] = top[par[k]] + SizeOf(n, path, k)
  /\ \A q \in 0 .. k - 1 : num2[q] = num[q] /\ (q # par[k] => top2[q] = top[q])

LEMMA NextTops ==
  ASSUME NEW n, NEW par, NEW path, IsTree(n, par, path), NEW num, NEW top, NEW num2, NEW top2,
         NEW k \in 1 .. n, Numbered(n, par, path, num, top, k),
         NumberedNext(n, path, par, num, top, num2, top2, k),
         NEW p \in 0 .. k, NEW D, D = (1 .. k - 1) \cup {k}
  PROVE  /\ num2[p] \in Nat
         /\ top2[p] = num2[p] + SizeBelow(n, par, path, p, D)
<1> DEFINE C == 1 .. k - 1
<1>1. n \in Nat /\ k \notin C /\ par[k] \in 0 .. k - 1
  BY DEF IsTree
<1>2. p \in 0 .. n
  BY <1>1
<1>3. SizeBelow(n, par, path, p, C) \in Nat /\ SizeOf(n, path, k) \in Nat
  BY BelowTyped
<1>4. SizeBelow(n, par, path, p, C \cup {k}) =
        IF par[k] = p THEN SizeBelow(n, par, path, p, C) + SizeOf(n, path, k)
                      ELSE SizeBelow(n, par, path, p, C)
  <2> HIDE DEF C
  <2> QED BY <1>1, <1>2, BelowStep
<1>5. top[par[k]] \in Nat
  BY RoomForNext
<1>6. CASE p = k
  <2>1. Below(n, par, path, k, C) = {k}
    <3>1. ASSUME NEW q \in 0 .. n, NEW c \in C, ChildOn(par, path, k, c, q) PROVE FALSE
      <4>1. k < c
        BY <3>1, ChildFacts
      <4> QED BY <4>1
    <3> QED BY <1>2, <1>6, <3>1 DEF Below
  <2>2. SizeBelow(n, par, path, k, C) = 1
    BY <2>1, FS_Singleton DEF SizeBelow
  <2>3. par[k] # p
    BY <1>1, <1>6
  <2> HIDE DEF C
  <2>4. SizeBelow(n, par, path, p, C \cup {k}) = 1
    BY <1>4, <1>6, <2>2, <2>3
  <2> QED BY <1>5, <1>6, <2>4 DEF NumberedNext, C
<1>7. CASE p # k
  <2>1. p \in 0 .. k - 1
    BY <1>7
  <2>2. num2[p] = num[p] /\ num[p] \in Nat /\ top[p] = num[p] + SizeBelow(n, par, path, p, C)
    BY <2>1 DEF Numbered, NumberedNext
  <2> HIDE DEF C
  <2>3. CASE par[k] = p
    <3>1. top2[p] = top[p] + SizeOf(n, path, k)
      BY <2>3 DEF NumberedNext
    <3> QED BY <1>3, <1>4, <2>2, <2>3, <3>1 DEF C
  <2>4. CASE par[k] # p
    <3>1. top2[p] = top[p]
      BY <2>1, <2>4 DEF NumberedNext
    <3> QED BY <1>3, <1>4, <2>2, <2>4, <3>1 DEF C
  <2> QED BY <2>3, <2>4
<1> QED BY <1>6, <1>7

LEMMA NextOrder ==
  ASSUME NEW n, NEW par, NEW path, IsTree(n, par, path), NEW num, NEW top, NEW num2, NEW top2,
         NEW k \in 1 .. n, Numbered(n, par, path, num, top, k),
         NumberedNext(n, path, par, num, top, num2, top2, k),
         NEW p \in 0 .. k, NEW q \in 0 .. k
  PROVE  /\ p \in path[q] => Inside(n, path, num2, p, q)
         /\ p \in path[q] /\ p # q => num2[p] < num2[q]
         /\ p \notin path[q] /\ q \notin path[p] => Apart(n, path, num2, p, q)
<1> DEFINE u == par[k]
<1>1. n \in Nat /\ p \in 0 .. n /\ q \in 0 .. n
  BY DEF IsTree
<1>2. /\ u \in 0 .. k - 1 /\ u \in 0 .. n /\ num[u] \in Nat /\ top[u] \in Nat
      /\ num[u] < top[u]
      /\ top[u] + SizeOf(n, path, k) <= num[u] + SizeOf(n, path, u)
      /\ SizeOf(n, path, k) \in Nat /\ SizeOf(n, path, u) \in Nat
  <2> HIDE DEF u
  <2>1. u = par[k]
    BY DEF u
  <2> QED BY <2>1, RoomForNext
<1>3. path[k] = path[u] \cup {k} /\ num2[k] = top[u]
  BY DEF IsTree, NumberedNext
<1>4. \A a \in 0 .. k - 1 : /\ a \in 0 .. n /\ num2[a] = num[a] /\ num[a] \in Nat
                            /\ SizeOf(n, path, a) \in Nat /\ k \notin path[a]
  <2> SUFFICES ASSUME NEW a \in 0 .. k - 1
               PROVE  /\ a \in 0 .. n /\ num2[a] = num[a] /\ num[a] \in Nat
                      /\ SizeOf(n, path, a) \in Nat /\ k \notin path[a]
    OBVIOUS
  <2>1. a \in 0 .. n
    BY <1>1
  <2>2. path[a] \subseteq 0 .. a
    BY <2>1, PathFacts
  <2>3. k \notin path[a]
    BY <2>2
  <2> QED BY <2>1, <2>3, SizeFacts DEF Numbered, NumberedNext
<1>5. \A a \in 0 .. k - 1 : a \notin path[k] =>
        \/ num[a] + SizeOf(n, path, a) <= top[u]
        \/ top[u] + SizeOf(n, path, k) <= num[a]
  <2>1. \A a \in 0 .. k - 1 : a \notin path[k] =>
        \/ num[a] + SizeOf(n, path, a) <= top[par[k]]
        \/ top[par[k]] + SizeOf(n, path, k) <= num[a]
    BY NextBeside
  <2> QED BY <2>1
<1>6. \A a \in 0 .. k - 1 : a \in path[k] =>
        /\ num[a] <= num[u] /\ num[u] + SizeOf(n, path, u) <= num[a] + SizeOf(n, path, a)
  <2> SUFFICES ASSUME NEW a \in 0 .. k - 1, a \in path[k]
               PROVE  /\ num[a] <= num[u]
                      /\ num[u] + SizeOf(n, path, u) <= num[a] + SizeOf(n, path, a)
    OBVIOUS
  <2>1. a \in path[u]
    BY <1>3
  <2>2. Inside(n, path, num, a, u)
    BY <1>2, <2>1 DEF Numbered
  <2> QED BY <2>2 DEF Inside
<1> HIDE DEF u
<1>7. CASE p # k /\ q # k
  <2>1. p \in 0 .. k - 1 /\ q \in 0 .. k - 1
    BY <1>7
  <2>2. /\ p \in path[q] => Inside(n, path, num, p, q)
        /\ p \in path[q] /\ p # q => num[p] < num[q]
        /\ p \notin path[q] /\ q \notin path[p] => Apart(n, path, num, p, q)
    BY <2>1 DEF Numbered
  <2> QED BY <1>4, <2>1, <2>2 DEF Inside, Apart
<1>8. CASE p = k /\ q = k
  <2>1. p \in path[q]
    BY <1>1, <1>8, PathFacts
  <2> QED BY <1>2, <1>3, <1>8, <2>1 DEF Inside
<1>9. CASE p = k /\ q # k
  <2>1. q \in 0 .. k - 1 /\ p \notin path[q]
    BY <1>4, <1>9
  <2>2. num2[q] = num[q] /\ num[q] \in Nat /\ SizeOf(n, path, q) \in Nat
    BY <1>4, <2>1
  <2>3. q \notin path[k] => Apart(n, path, num2, p, q)
    BY <1>2, <1>3, <1>5, <1>9, <2>1, <2>2 DEF Apart
  <2> QED BY <1>9, <2>1, <2>3
<1>10. CASE p # k /\ q = k
  <2>1. p \in 0 .. k - 1 /\ q \notin path[p]
    BY <1>4, <1>10
  <2>2. num2[p] = num[p] /\ num[p] \in Nat /\ SizeOf(n, path, p) \in Nat
    BY <1>4, <2>1
  <2>3. p \notin path[k] => Apart(n, path, num2, p, q)
    BY <1>2, <1>3, <1>5, <1>10, <2>1, <2>2 DEF Apart
  <2>4. p \in path[k] => Inside(n, path, num2, p, q) /\ num2[p] < num2[q]
    BY <1>2, <1>3, <1>6, <1>10, <2>1, <2>2 DEF Inside
  <2> QED BY <1>10, <2>1, <2>3, <2>4
<1> QED BY <1>7, <1>8, <1>9, <1>10

LEMMA NextNumbered ==
  ASSUME NEW n, NEW par, NEW path, IsTree(n, par, path), NEW num, NEW top, NEW num2, NEW top2,
         NEW k \in 1 .. n, Numbered(n, par, path, num, top, k),
         NumberedNext(n, path, par, num, top, num2, top2, k)
  PROVE  Numbered(n, par, path, num2, top2, k + 1)
<1>1. 0 .. (k + 1) - 1 = 0 .. k /\ 1 .. (k + 1) - 1 = (1 .. k - 1) \cup {k}
  OBVIOUS
<1>2. num2[0] = 0
  BY DEF Numbered, NumberedNext
<1>3. \A p \in 0 .. k : /\ num2[p] \in Nat
                        /\ top2[p] = num2[p] + SizeBelow(n, par, path, p, (1 .. k - 1) \cup {k})
  <2> DEFINE D == (1 .. k - 1) \cup {k}
  <2>1. D = (1 .. k - 1) \cup {k}
    OBVIOUS
  <2> HIDE DEF D
  <2>2. \A p \in 0 .. k : num2[p] \in Nat /\ top2[p] = num2[p] + SizeBelow(n, par, path, p, D)
    BY <2>1, NextTops
  <2> QED BY <2>2 DEF D
<1>4. ASSUME NEW c \in (1 .. k - 1) \cup {k}
      PROVE  num2[par[c]] < num2[c] /\ num2[c] + SizeOf(n, path, c) <= top2[par[c]]
  <2>0. n \in Nat /\ k \in Nat /\ c \in 1 .. n
    BY DEF IsTree
  <2>1. par[c] \in 0 .. c - 1 /\ par[c] \in 0 .. k - 1
    BY <2>0 DEF IsTree
  <2>2. num[par[k]] < top[par[k]] /\ top[par[k]] \in Nat /\ SizeOf(n, path, k) \in Nat
    BY RoomForNext
  <2>3. CASE c = k
    BY <2>1, <2>2, <2>3 DEF NumberedNext
  <2>4. CASE c # k
    <3>1. c \in 1 .. k - 1 /\ c \in 0 .. k - 1
      BY <2>4
    <3>2. num[par[c]] < num[c] /\ num[c] + SizeOf(n, path, c) <= top[par[c]]
      BY <3>1 DEF Numbered
    <3>3. num2[c] = num[c] /\ num2[par[c]] = num[par[c]]
      BY <2>1, <3>1 DEF NumberedNext
    <3>4. top[par[c]] <= top2[par[c]]
      <4>1. par[c] # par[k] => top2[par[c]] = top[par[c]]
        BY <2>1 DEF NumberedNext
      <4>2. top2[par[k]] = top[par[k]] + SizeOf(n, path, k)
        BY DEF NumberedNext
      <4>3. top[par[c]] \in Int
        <5>1. num[par[c]] \in Nat
          BY <2>1 DEF Numbered
        <5>2. SizeBelow(n, par, path, par[c], 1 .. k - 1) \in Nat
          BY BelowTyped
        <5>3. top[par[c]] = num[par[c]] + SizeBelow(n, par, path, par[c], 1 .. k - 1)
          BY <2>1 DEF Numbered
        <5> QED BY <5>1, <5>2, <5>3
      <4> QED BY <2>2, <4>1, <4>2, <4>3
    <3>5. num[c] \in Nat /\ SizeOf(n, path, c) \in Nat /\ top[par[c]] \in Int /\ top2[par[c]] \in Int
      <4>1. SizeOf(n, path, c) \in Nat /\ num[c] \in Nat
        BY <2>0, <3>1, SizeFacts DEF Numbered
      <4>2. num[par[c]] \in Nat /\ top[par[c]] = num[par[c]] + SizeBelow(n, par, path, par[c], 1 .. k - 1)
        BY <2>1 DEF Numbered
      <4>3. SizeBelow(n, par, path, par[c], 1 .. k - 1) \in Nat
        BY BelowTyped
      <4>4. top[par[c]] \in Int
        BY <4>2, <4>3
      <4>5. par[c] # par[k] => top2[par[c]] = top[par[c]]
        BY <2>1 DEF NumberedNext
      <4>6. top2[par[k]] = top[par[k]] + SizeOf(n, path, k)
        BY DEF NumberedNext
      <4> QED BY <2>2, <4>1, <4>4, <4>5, <4>6
    <3> QED BY <3>2, <3>3, <3>4, <3>5
  <2> QED BY <2>3, <2>4
<1>5. \A p, q \in 0 .. k :
        /\ p \in path[q] => Inside(n, path, num2, p, q)
        /\ p \in path[q] /\ p # q => num2[p] < num2[q]
        /\ p \notin path[q] /\ q \notin path[p] => Apart(n, path, num2, p, q)
  BY NextOrder
<1> QED BY <1>1, <1>2, <1>3, <1>4, <1>5 DEF Numbered

(* When all nodes have their numbers, these are 0 .. n, and tell the paths. *)
LEMMA AllNumbered ==
  ASSUME NEW n, NEW par, NEW path, IsTree(n, par, path), NEW num, NEW top,
         Numbered(n, par, path, num, top, n + 1)
  PROVE  /\ {num[p] : p \in 0 .. n} = 0 .. n
         /\ \A p, q \in 0 .. n : p \in path[q] <=> num[p] <= num[q] /\ num[q] < top[p]
<1>0. n \in Nat /\ 0 .. (n + 1) - 1 = 0 .. n
  BY DEF IsTree
<1>1. \A p \in 0 .. n : /\ num[p] \in Nat /\ SizeOf(n, path, p) \in Nat
                        /\ SizeOf(n, path, p) >= 1
                        /\ top[p] = num[p] + SizeOf(n, path, p)
  <2> SUFFICES ASSUME NEW p \in 0 .. n
               PROVE  /\ num[p] \in Nat /\ SizeOf(n, path, p) \in Nat
                      /\ SizeOf(n, path, p) >= 1 /\ top[p] = num[p] + SizeOf(n, path, p)
    OBVIOUS
  <2>1. num[p] \in Nat /\ top[p] = num[p] + SizeBelow(n, par, path, p, 1 .. (n + 1) - 1)
    BY <1>0 DEF Numbered
  <2>2. p + 1 .. n \subseteq 1 .. (n + 1) - 1
    BY <1>0
  <2>3. SizeBelow(n, par, path, p, 1 .. (n + 1) - 1) = SizeOf(n, path, p)
    BY <2>2, BelowEnds
  <2> QED BY <2>1, <2>3, SizeFacts
<1>2. \A p, q \in 0 .. n :
        /\ p \in path[q] => Inside(n, path, num, p, q)
        /\ p \in path[q] /\ p # q => num[p] < num[q]
        /\ p \notin path[q] /\ q \notin path[p] => Apart(n, path, num, p, q)
  BY <1>0 DEF Numbered
<1>3. ASSUME NEW p \in 0 .. n, NEW q \in 0 .. n
      PROVE  p \in path[q] <=> num[p] <= num[q] /\ num[q] < top[p]
  <2>1. CASE p \in path[q]
    <3>1. Inside(n, path, num, p, q)
      BY <1>2, <2>1
    <3> QED BY <1>1, <2>1, <3>1 DEF Inside
  <2>2. CASE p \notin path[q] /\ q \in path[p]
    <3>1. p # q
      BY <2>2, PathFacts
    <3>2. num[q] < num[p]
      BY <1>2, <2>2, <3>1
    <3> QED BY <1>1, <2>2, <3>2
  <2>3. CASE p \notin path[q] /\ q \notin path[p]
    <3>1. Apart(n, path, num, p, q)
      BY <1>2, <2>3
    <3> QED BY <1>1, <2>3, <3>1 DEF Apart
  <2> QED BY <2>1, <2>2, <2>3
<1>4. {num[p] : p \in 0 .. n} = 0 .. n
  <2> DEFINE f == [p \in 0 .. n |-> num[p]]
  <2>1. ASSUME NEW p \in 0 .. n PROVE num[p] \in 0 .. n
    <3>1. 0 \in path[p] /\ 0 \in 0 .. n
      BY <1>0, PathFacts
    <3>2. Inside(n, path, num, 0, p)
      BY <1>2, <3>1
    <3>3. num[0] = 0 /\ SizeOf(n, path, 0) = n + 1
      BY SizeFacts DEF Numbered
    <3> QED BY <1>0, <1>1, <3>2, <3>3 DEF Inside
  <2>2. ASSUME NEW p \in 0 .. n, NEW q \in 0 .. n, num[p] = num[q] PROVE p = q
    <3>1. p \in path[q]
      BY <1>1, <1>3, <2>2
    <3>2. p # q => num[p] < num[q]
      BY <1>2, <3>1
    <3> QED BY <1>1, <2>2, <3>2
  <2>3. f \in Injection(0 .. n, 0 .. n)
    BY <2>1, <2>2 DEF Injection, IsInjective
  <2>4. IsFiniteSet(0 .. n)
    BY <1>0, FS_Interval
  <2> HIDE DEF f
  <2>5. f \in Surjection(0 .. n, 0 .. n)
    BY <2>3, <2>4, FS_Injection
  <2>6. \A y \in 0 .. n : \E p \in 0 .. n : f[p] = y
    BY <2>5 DEF Surjection
  <2> QED BY <2>1, <2>6 DEF f
<1> QED BY <1>3, <1>4

-----------------------------------------------------------------------------
(* The tree of a text.                                                     *)

(* There is one longest beginning. *)
LEMMA BeginningUnique ==
  ASSUME NEW words, NEW S, NEW read \in Seq(S), NEW x, NEW y,
         LongestBeginning(words, read, x), LongestBeginning(words, read, y)
  PROVE  x = y
<1>1. PICK n \in Known(words, read) : (\A k \in Known(words, read) : k <= n) /\ x = EndOf(read, n)
  BY DEF LongestBeginning
<1>2. PICK m \in Known(words, read) : (\A k \in Known(words, read) : k <= m) /\ y = EndOf(read, m)
  BY DEF LongestBeginning
<1>3. n \in Nat /\ m \in Nat
  BY LenProperties DEF Known
<1>4. n <= m /\ m <= n
  BY <1>1, <1>2
<1> QED BY <1>1, <1>2, <1>3, <1>4

(* the bytes of tokens and of a text *)
BytesIn(vocab, t) == {vocab[k][j] : k \in DOMAIN vocab, j \in Nat} \cup {t[j] : j \in Nat}

(* Tokens and prefixes are sequences of them. *)
LEMMA BytesInFacts ==
  ASSUME NEW vocab, Usable(vocab), NEW t, IsSeq(t), NEW S, S = BytesIn(vocab, t)
  PROVE  /\ AreWords(vocab, S) /\ \A n \in 0 .. Len(t) : SubSeq(t, 1, n) \in Seq(S)
         /\ \A n \in 1 .. Len(t) : t[n] \in S
<1>1. ASSUME NEW w, IsSeq(w), \A j \in Nat : w[j] \in S PROVE w \in Seq(S)
  <2>1. Len(w) \in Nat /\ w = [j \in 1 .. Len(w) |-> w[j]]
    BY <1>1, SeqFacts
  <2>2. w \in [1 .. Len(w) -> S]
    BY <1>1, <2>1
  <2> QED BY <2>1, <2>2
<1>2. \A k \in DOMAIN vocab : vocab[k] \in Seq(S)
  <2> SUFFICES ASSUME NEW k \in DOMAIN vocab PROVE vocab[k] \in Seq(S)
    OBVIOUS
  <2>1. IsSeq(vocab[k]) /\ \A j \in Nat : vocab[k][j] \in S
    BY UsableFacts DEF BytesIn
  <2> QED BY <1>1, <2>1
<1>3. \A j \in Nat : t[j] \in S
  BY DEF BytesIn
<1>4. Len(t) \in Nat
  BY SeqFacts
<1>5. ASSUME NEW n \in 0 .. Len(t) PROVE SubSeq(t, 1, n) \in Seq(S)
  <2> DEFINE w == SubSeq(t, 1, n)
  <2>1. IsSeq(w) /\ Len(w) = n /\ \A k \in 1 .. n : w[k] = t[k]
    BY PrefixFacts
  <2> HIDE DEF w
  <2>2. w = [j \in 1 .. n |-> w[j]] /\ n \in Nat
    BY <1>4, <2>1, SeqFacts
  <2>3. w \in [1 .. n -> S]
    BY <1>3, <2>1, <2>2
  <2>4. w \in Seq(S)
    BY <2>2, <2>3
  <2> QED BY <2>4 DEF w
<1> QED BY <1>2, <1>3, <1>4, <1>5 DEF AreWords

(* A prefix is the one before and a byte. *)
LEMMA NextPrefix ==
  ASSUME NEW t, IsSeq(t), NEW n \in 1 .. Len(t), NEW m, m = n - 1
  PROVE  SubSeq(t, 1, n) = Append(SubSeq(t, 1, m), t[n])
<1> DEFINE a == SubSeq(t, 1, n)
           b == SubSeq(t, 1, m)
           c == Append(b, t[n])
<1>1. Len(t) \in Nat /\ m \in 0 .. Len(t) /\ n \in 0 .. Len(t) /\ m \in Nat /\ n = m + 1
  BY SeqFacts
<1>2. IsSeq(a) /\ Len(a) = n /\ \A k \in 1 .. n : a[k] = t[k]
  BY <1>1, PrefixFacts
<1>3. IsSeq(b) /\ Len(b) = m /\ \A k \in 1 .. m : b[k] = t[k]
  BY <1>1, PrefixFacts
<1> HIDE DEF a, b
<1>4. IsSeq(c) /\ Len(c) = Len(b) + 1 /\ (\A k \in 1 .. Len(b) : c[k] = b[k]) /\ c[Len(b) + 1] = t[n]
  BY <1>3, AppendFacts
<1> HIDE DEF c
<1>5. \A k \in 1 .. n : a[k] = c[k]
  BY <1>1, <1>2, <1>3, <1>4
<1>6. Len(c) = n
  BY <1>1, <1>3, <1>4
<1> QED BY <1>2, <1>4, <1>5, <1>6, SameSeq DEF a, b, c

(* the bytes end in a word *)
Ends(bytes, w) == w = EndOf(bytes, Len(w))

(* An end of a prefix is a word exactly if the word occurs there. *)
LEMMA EndIsOccurrence ==
  ASSUME NEW S, NEW t, IsSeq(t), NEW n \in 0 .. Len(t), NEW r, r = SubSeq(t, 1, n), r \in Seq(S),
         NEW w, w \in Seq(S), NEW l, l = Len(w), NEW p \in Nat, p = n - l
  PROVE  Ends(r, w) <=> OccursAt(w, t, p, n)
<1> DEFINE e == EndOf(r, l)
<1>1. Len(r) = n /\ (\A k \in 1 .. n : r[k] = t[k]) /\ n \in Nat /\ l \in Nat /\ l \in 0 .. n /\ p + l = n
  BY PrefixFacts, SeqFacts, LenProperties
<1>2. e \in Seq(S) /\ Len(e) = l /\ \A k \in 1 .. l : e[k] = r[n - l + k]
  <2>1. l \in 0 .. Len(r)
    BY <1>1
  <2>2. e \in Seq(S) /\ Len(e) = l /\ \A k \in 1 .. l : e[k] = r[Len(r) - l + k]
    BY <2>1, EndFacts
  <2> QED BY <1>1, <2>2
<1> HIDE DEF e
<1>3. ASSUME NEW k \in 1 .. l PROVE e[k] = t[p + k]
  <2>1. n - l + k = p + k /\ p + k \in 1 .. n
    BY <1>1
  <2> QED BY <1>1, <1>2, <2>1
<1>4. w = e <=> \A k \in 1 .. l : w[k] = t[p + k]
  <2>1. ASSUME \A k \in 1 .. l : w[k] = t[p + k] PROVE w = e
    BY <1>2, <1>3, <2>1, SeqEqual
  <2> QED BY <1>3, <2>1
<1>5. OccursAt(w, t, p, n) <=> \A k \in 1 .. l : w[k] = t[p + k]
  BY <1>1 DEF OccursAt
<1> QED BY <1>4, <1>5 DEF e, Ends

(* the tokens that bpe_encode_all_prefixes finds at n, if `last` are those before *)
EndingAt(outputs, last, n) ==
  {k \in outputs : n - TokenLen(bpe, k) = 0 \/ ValidPair(bpe, last[n - TokenLen(bpe, k)], k)}

(* If the last tokens before n are known, one token is found at n: the last. *)
LEMMA EndingIsLast ==
  ASSUME NEW vocab, BuiltFrom(vocab), Usable(vocab), NEW t, IsSeq(t), Complete(vocab, t),
         NEW n \in 1 .. Len(t), NEW st, LongestBeginning(vocab, SubSeq(t, 1, n), st),
         NEW last, \A k \in 1 .. n - 1 : last[k] = LastOf(vocab, SubSeq(t, 1, k))
  PROVE  FirstOutput(vocab, EndingAt(Outputs(vocab, st), last, n)) = LastOf(vocab, SubSeq(t, 1, n))
<1> DEFINE out   == Outputs(vocab, st)
           found == EndingAt(out, last, n)
           z     == LastOf(vocab, SubSeq(t, 1, n))
           q     == n - Len(vocab[z])
           S     == BytesIn(vocab, t)
           r     == SubSeq(t, 1, n)
<1>1. Len(t) \in Nat /\ n \in 0 .. Len(t) /\ n \in Nat
  BY SeqFacts
<1>2. AreWords(vocab, S) /\ r \in Seq(S)
  <2> HIDE DEF S, r
  <2>1. S = BytesIn(vocab, t)
    BY DEF S
  <2> QED BY <1>1, <2>1, BytesInFacts DEF r
<1>3. Len(r) = n
  BY <1>1, PrefixFacts
<1> HIDE DEF S
<1>4. \A k : MayEnd(vocab, t, n, k) <=> k = z
  <2>1. q = n - Len(vocab[z]) /\ z = LastOf(vocab, SubSeq(t, 1, n))
    OBVIOUS
  <2> HIDE DEF q, z
  <2> QED BY <2>1, OneMayEnd
<1> HIDE DEF z, q, r
<1>5. out = {k \in DOMAIN vocab : Len(vocab[k]) <= Len(r) /\ vocab[k] = EndOf(r, Len(vocab[k]))}
  <2>1. LongestBeginning(vocab, r, st)
    BY DEF r
  <2> QED BY <1>2, <2>1, OutputsAreEnds
<1> HIDE DEF out
<1>6. ASSUME NEW k PROVE k \in found <=> MayEnd(vocab, t, n, k)
  <2> DEFINE len == Len(vocab[k])
             p   == n - len
  <2>1. CASE k \notin DOMAIN vocab
    BY <1>5, <2>1 DEF MayEnd, EndingAt
  <2>2. CASE k \in DOMAIN vocab
    <3>1. len \in Nat \ {0} /\ vocab[k] \in Seq(S)
      BY <1>2, <2>2, UsableFacts DEF AreWords
    <3>2. CASE p \notin Nat
      <4>1. ~(len <= Len(r))
        BY <1>1, <1>3, <3>1, <3>2
      <4> QED BY <1>5, <3>2, <4>1 DEF MayEnd, EndingAt
    <3>3. CASE p \in Nat
      <4>1. len <= Len(r) /\ (p # 0 => p \in 1 .. n - 1)
        BY <1>1, <1>3, <3>1, <3>3
      <4>2. vocab[k] = EndOf(r, Len(vocab[k])) <=> OccursAt(vocab[k], t, p, n)
        <5> DEFINE w == vocab[k]
        <5>1. /\ len = Len(w) /\ p = n - len /\ r = SubSeq(t, 1, n) /\ w \in Seq(S) /\ r \in Seq(S)
              /\ IsSeq(t) /\ n \in 0 .. Len(t) /\ p \in Nat
          BY <1>1, <1>2, <3>1, <3>3 DEF r
        <5> HIDE DEF p, len, w, found
        <5>2. Ends(r, w) <=> OccursAt(w, t, p, n)
          BY <5>1, EndIsOccurrence
        <5> QED BY <5>2 DEF w, Ends
      <4>3. k \in out <=> OccursAt(vocab[k], t, p, n)
        BY <1>5, <2>2, <4>1, <4>2
      <4>4. TokenLen(bpe, k) = len /\ FromDictionary(vocab) = bpe
        BY DEF BuiltFrom, TokenLen
      <4>5. p # 0 => last[p] = LastOf(vocab, SubSeq(t, 1, p))
        BY <4>1
      <4>6. k \in found <=> k \in out /\ (p = 0 \/ ValidPair(bpe, last[p], k))
        BY <4>4 DEF EndingAt
      <4>7. MayEnd(vocab, t, n, k) <=>
              OccursAt(vocab[k], t, p, n) /\ (p = 0 \/ ValidPair(bpe, LastOf(vocab, SubSeq(t, 1, p)), k))
        BY <2>2, <3>3, <4>4 DEF MayEnd
      <4> HIDE DEF found, p, len
      <4> QED BY <4>3, <4>5, <4>6, <4>7
    <3> QED BY <3>2, <3>3
  <2> QED BY <2>1, <2>2
<1>7. found = {z}
  <2> HIDE DEF found
  <2> QED BY <1>4, <1>6
<1>8. \A k \in found : Len(vocab[k]) \in 0 .. n
  <2>1. MayEnd(vocab, t, n, z)
    BY <1>4
  <2>2. Len(vocab[z]) \in Nat /\ n - Len(vocab[z]) \in Nat
    BY <2>1, UsableFacts DEF MayEnd
  <2>3. Len(vocab[z]) \in 0 .. n
    BY <1>1, <2>2
  <2> QED BY <1>7, <2>3
<1> HIDE DEF found
<1>9. FirstOutput(vocab, found) \in found
  BY <1>1, <1>7, <1>8, FirstIsOne
<1>10. FirstOutput(vocab, found) = z
  BY <1>7, <1>9
<1> QED BY <1>10 DEF found, out, z

(* the state of the automaton after each prefix *)
StatesOf(words, t) ==
  CHOOSE f : f = [n \in 0 .. Len(t) |-> IF n = 0 THEN StartState ELSE Advance(words, f[n - 1], t[n])]

(* It is the longest beginning. *)
LEMMA StatesAreLongest ==
  ASSUME NEW vocab, Usable(vocab), NEW t, IsSeq(t)
  PROVE  \A n \in 0 .. Len(t) : LongestBeginning(vocab, SubSeq(t, 1, n), StatesOf(vocab, t)[n])
<1> DEFINE N    == Len(t)
           S    == BytesIn(vocab, t)
           r(n) == SubSeq(t, 1, n)
           F(f) == [n \in 0 .. N |-> IF n = 0 THEN StartState ELSE Advance(vocab, f[n - 1], t[n])]
           g    == [n \in 0 .. N |-> CHOOSE x : LongestBeginning(vocab, r(n), x)]
           st   == CHOOSE f : f = F(f)
<1>1. N \in Nat
  BY SeqFacts
<1>2. /\ AreWords(vocab, S) /\ \A n \in 0 .. N : r(n) \in Seq(S)
      /\ \A n \in 1 .. N : t[n] \in S
  <2>1. S = BytesIn(vocab, t)
    OBVIOUS
  <2> HIDE DEF S
  <2> QED BY <2>1, BytesInFacts
<1>3. \A n \in 1 .. N : r(n) = Append(r(n - 1), t[n])
  <2> SUFFICES ASSUME NEW n \in 1 .. N PROVE r(n) = Append(r(n - 1), t[n])
    OBVIOUS
  <2> DEFINE m == n - 1
  <2>1. m = n - 1
    OBVIOUS
  <2> HIDE DEF m
  <2>2. r(n) = Append(r(m), t[n])
    BY <2>1, NextPrefix
  <2> QED BY <2>1, <2>2
<1>4. r(0) = <<>>
  BY SubSeqEmpty
<1> HIDE DEF S, r
<1>5. LongestBeginning(vocab, r(0), <<>>)
  <2>1. EndOf(<<>>, 0) = <<>>
    BY SubSeqEmpty DEF EndOf
  <2>2. 0 \in Known(vocab, <<>>) /\ \A m \in Known(vocab, <<>>) : m <= 0
    BY DEF Known
  <2> QED BY <1>4, <2>1, <2>2 DEF LongestBeginning
<1>6. ASSUME NEW n \in 1 .. N, NEW x, LongestBeginning(vocab, r(n - 1), x)
      PROVE  LongestBeginning(vocab, r(n), Advance(vocab, x, t[n]))
  <2> DEFINE m == r(n - 1)
  <2>1. m \in Seq(S) /\ t[n] \in S /\ r(n) = Append(m, t[n])
    BY <1>1, <1>2, <1>3
  <2>2. LongestBeginning(vocab, m, x)
    BY <1>6
  <2> HIDE DEF m
  <2>3. LongestBeginning(vocab, Append(m, t[n]), Advance(vocab, x, t[n]))
    BY <1>2, <2>1, <2>2, AdvanceIsLongest
  <2> QED BY <2>1, <2>3
<1> DEFINE Good(n) == \E x : LongestBeginning(vocab, r(n), x)
           good    == {n \in Nat : n <= N => Good(n)}
<1>7. \A n \in 0 .. N : Good(n)
  <2>1. 0 \in good
    BY <1>5
  <2>2. ASSUME NEW n \in Nat, n \in good PROVE n + 1 \in good
    <3> SUFFICES ASSUME n + 1 <= N PROVE Good(n + 1)
      OBVIOUS
    <3> DEFINE m == n + 1
    <3>1. m \in 1 .. N /\ m - 1 = n
      BY <1>1
    <3>2. PICK x : LongestBeginning(vocab, r(n), x)
      BY <1>1, <2>2
    <3> HIDE DEF m
    <3>3. LongestBeginning(vocab, r(m), Advance(vocab, x, t[m]))
      BY <1>6, <3>1, <3>2
    <3>4. Good(m)
      BY <3>3
    <3> QED BY <3>4 DEF m
  <2>3. \A n \in Nat : n \in good
    <3> HIDE DEF good
    <3> QED BY <2>1, <2>2, SetInduction
  <2> QED BY <1>1, <2>3
<1>8. \A n \in 0 .. N : LongestBeginning(vocab, r(n), g[n])
  BY <1>7
<1>9. \A n \in 0 .. N : \A x, y : LongestBeginning(vocab, r(n), x) /\ LongestBeginning(vocab, r(n), y) => x = y
  BY <1>2, BeginningUnique
<1>10. DOMAIN g = 0 .. N /\ g = [n \in 0 .. N |-> g[n]]
  OBVIOUS
<1> HIDE DEF g, Good, good
<1>11. g[0] = <<>>
  BY <1>1, <1>5, <1>8, <1>9
<1>12. \A n \in 1 .. N : g[n] = Advance(vocab, g[n - 1], t[n])
  <2> SUFFICES ASSUME NEW n \in 1 .. N PROVE g[n] = Advance(vocab, g[n - 1], t[n])
    OBVIOUS
  <2>1. n \in 0 .. N /\ n - 1 \in 0 .. N
    BY <1>1
  <2>2. LongestBeginning(vocab, r(n), Advance(vocab, g[n - 1], t[n]))
    BY <1>6, <1>8, <2>1
  <2> QED BY <1>8, <1>9, <2>1, <2>2
<1>13. g = F(g)
  <2>1. \A n \in 0 .. N : g[n] = IF n = 0 THEN StartState ELSE Advance(vocab, g[n - 1], t[n])
    BY <1>1, <1>11, <1>12 DEF StartState
  <2> QED BY <1>10, <2>1
<1>14. st = F(st)
  <2> HIDE DEF F
  <2> QED BY <1>13
<1> HIDE DEF st
<1>15. st[0] = <<>> /\ \A n \in 1 .. N : st[n] = Advance(vocab, st[n - 1], t[n])
  BY <1>1, <1>14 DEF StartState
<1> HIDE DEF F
<1> DEFINE known == {n \in Nat : n <= N => LongestBeginning(vocab, r(n), st[n])}
<1>16. \A n \in 0 .. N : LongestBeginning(vocab, r(n), st[n])
  <2>1. 0 \in known
    BY <1>5, <1>15
  <2>2. ASSUME NEW n \in Nat, n \in known PROVE n + 1 \in known
    <3> SUFFICES ASSUME n + 1 <= N PROVE LongestBeginning(vocab, r(n + 1), st[n + 1])
      OBVIOUS
    <3> DEFINE m == n + 1
    <3>1. m \in 1 .. N /\ m - 1 = n
      BY <1>1
    <3>2. LongestBeginning(vocab, r(n), st[n])
      BY <1>1, <2>2
    <3> HIDE DEF m
    <3>3. LongestBeginning(vocab, r(m), st[m])
      BY <1>6, <1>15, <3>1, <3>2
    <3> QED BY <3>3 DEF m
  <2>3. \A n \in Nat : n \in known
    <3> HIDE DEF known
    <3> QED BY <2>1, <2>2, SetInduction
  <2> QED BY <1>1, <2>3
<1>17. st = StatesOf(vocab, t)
  BY DEF st, F, StatesOf
<1> QED BY <1>16, <1>17 DEF r

(* bpe_encode_all_prefixes finds the last token of every prefix. *)
LEMMA LastTokens ==
  ASSUME NEW vocab, BuiltFrom(vocab), Usable(vocab), NEW t, IsSeq(t), Complete(vocab, t)
  PROVE  EncodeAllPrefixes(t) = [n \in 1 .. Len(t) |-> LastOf(vocab, SubSeq(t, 1, n))]
<1> DEFINE N    == Len(t)
           st   == StatesOf(vocab, t)
           L    == [n \in 1 .. N |-> LastOf(vocab, SubSeq(t, 1, n))]
           F(f) == [n \in 1 .. N |-> FirstOutput(vocab, EndingAt(Outputs(vocab, st[n]), f, n))]
           last == CHOOSE f : f = F(f)
<1>1. N \in Nat
  BY SeqFacts
<1>2. \A n \in 1 .. N : LongestBeginning(vocab, SubSeq(t, 1, n), st[n])
  <2>1. \A n \in 0 .. N : LongestBeginning(vocab, SubSeq(t, 1, n), st[n])
    BY StatesAreLongest
  <2>2. \A n \in 1 .. N : n \in 0 .. N
    BY <1>1
  <2> QED BY <2>1, <2>2
<1> HIDE DEF st
<1>3. ASSUME NEW f, NEW n \in 1 .. N, \A k \in 1 .. n - 1 : f[k] = LastOf(vocab, SubSeq(t, 1, k))
      PROVE  FirstOutput(vocab, EndingAt(Outputs(vocab, st[n]), f, n)) = LastOf(vocab, SubSeq(t, 1, n))
  <2> DEFINE s == st[n]
  <2>1. LongestBeginning(vocab, SubSeq(t, 1, n), s)
    BY <1>2
  <2> HIDE DEF s
  <2>2. FirstOutput(vocab, EndingAt(Outputs(vocab, s), f, n)) = LastOf(vocab, SubSeq(t, 1, n))
    BY <1>3, <2>1, EndingIsLast
  <2> QED BY <2>2 DEF s
<1>4. L = F(L)
  <2>1. ASSUME NEW n \in 1 .. N
        PROVE  FirstOutput(vocab, EndingAt(Outputs(vocab, st[n]), L, n)) = LastOf(vocab, SubSeq(t, 1, n))
    <3>1. \A k \in 1 .. n - 1 : L[k] = LastOf(vocab, SubSeq(t, 1, k))
      BY <1>1
    <3> HIDE DEF L
    <3> QED BY <1>3, <3>1
  <2> QED BY <2>1
<1>5. last = F(last)
  <2> HIDE DEF F, L
  <2> QED BY <1>4
<1> HIDE DEF last
<1>6. \A n \in 1 .. N : last[n] = FirstOutput(vocab, EndingAt(Outputs(vocab, st[n]), last, n))
  BY <1>5
<1> HIDE DEF F
<1>7. ASSUME NEW n \in 1 .. N PROVE last[n] = LastOf(vocab, SubSeq(t, 1, n))
  <2> DEFINE bad == {k \in 1 .. N : last[k] # LastOf(vocab, SubSeq(t, 1, k))}
  <2> SUFFICES ASSUME bad # {} PROVE FALSE
    OBVIOUS
  <2>1. PICK m \in bad : \A k \in bad : m <= k
    <3>1. bad \in SUBSET Nat
      BY <1>1
    <3> HIDE DEF bad
    <3> QED BY <3>1, LeastExists
  <2>2. m \in 1 .. N /\ last[m] # LastOf(vocab, SubSeq(t, 1, m))
    OBVIOUS
  <2>3. \A k \in 1 .. m - 1 : last[k] = LastOf(vocab, SubSeq(t, 1, k))
    BY <1>1, <2>1, <2>2
  <2> HIDE DEF bad
  <2> QED BY <1>3, <1>6, <2>2, <2>3
<1>8. EncodeAllPrefixes(t) = [n \in 1 .. N |-> last[n]]
  <2>1. ForwardWords(bpe) = vocab
    BY DEF ForwardWords, BuiltFrom
  <2> QED BY <2>1 DEF EncodeAllPrefixes, st, StatesOf, last, F, EndingAt
<1> QED BY <1>7, <1>8

(* Boundaries, with the dictionary as a parameter *)
BoundariesIn(vocab, encoding) ==
  LET at[n \in 0 .. Len(encoding)] ==
        IF n = 0 THEN 0 ELSE at[n - 1] + Len(vocab[encoding[n]])
  IN  {at[n] : n \in 0 .. Len(encoding)}

LEMMA SameBoundaries == \A R : Boundaries(R) = BoundariesIn(bpe.vocab, R)
BY DEF Boundaries, BoundariesIn, TokenLen

(* Where the tokens end: the boundaries add up the lengths. *)
LEMMA BoundariesAre ==
  ASSUME NEW vocab, NEW R, NEW n \in Nat, Len(R) = n, NEW e, e[1] = 0,
         \A k \in 1 .. n : e[k + 1] = e[k] + Len(vocab[R[k]])
  PROVE  BoundariesIn(vocab, R) = CutSet(e, n)
<1> DEFINE B(f) == [k \in 0 .. n |-> IF k = 0 THEN 0 ELSE f[k - 1] + Len(vocab[R[k]])]
           g    == [k \in 0 .. n |-> e[k + 1]]
           at   == CHOOSE f : f = B(f)
           same == {k \in Nat : k <= n => at[k] = e[k + 1]}
<1>1. g = B(g)
  <2>1. ASSUME NEW k \in 0 .. n
        PROVE  e[k + 1] = IF k = 0 THEN 0 ELSE g[k - 1] + Len(vocab[R[k]])
    <3>1. CASE k = 0
      BY <3>1
    <3>2. CASE k # 0
      <4>1. k \in 1 .. n /\ k - 1 \in 0 .. n /\ (k - 1) + 1 = k
        BY <3>2
      <4>2. g[k - 1] = e[k]
        BY <4>1
      <4> QED BY <3>2, <4>1, <4>2
    <3> QED BY <3>1, <3>2
  <2> QED BY <2>1
<1>2. at = B(at)
  <2> HIDE DEF B, g
  <2> QED BY <1>1
<1> HIDE DEF at, g
<1>3. at[0] = 0 /\ \A k \in 1 .. n : at[k] = at[k - 1] + Len(vocab[R[k]])
  <2>1. \A k \in 0 .. n : at[k] = IF k = 0 THEN 0 ELSE at[k - 1] + Len(vocab[R[k]])
    BY <1>2
  <2> QED BY <2>1
<1> HIDE DEF B
<1>4. \A k \in 0 .. n : at[k] = e[k + 1]
  <2>1. 0 \in same
    BY <1>3
  <2>2. ASSUME NEW k \in Nat, k \in same PROVE k + 1 \in same
    <3> SUFFICES ASSUME k + 1 <= n PROVE at[k + 1] = e[k + 1 + 1]
      OBVIOUS
    <3> DEFINE m == k + 1
    <3>1. m \in 1 .. n /\ m - 1 = k
      OBVIOUS
    <3>2. at[k] = e[m]
      BY <2>2
    <3> HIDE DEF m
    <3>3. at[m] = e[m + 1]
      BY <1>3, <3>1, <3>2
    <3> QED BY <3>3 DEF m
  <2>3. \A k \in Nat : k \in same
    <3> HIDE DEF same
    <3> QED BY <2>1, <2>2, SetInduction
  <2> QED BY <2>3
<1>5. BoundariesIn(vocab, R) = {at[k] : k \in 0 .. n}
  BY DEF BoundariesIn, at, B
<1>6. \A k \in 1 .. n + 1 : k - 1 \in 0 .. n /\ at[k - 1] = e[k]
  BY <1>4
<1>7. \A k \in 0 .. n : k + 1 \in 1 .. n + 1
  OBVIOUS
<1> HIDE DEF same
<1>8. ASSUME NEW k \in 0 .. n PROVE at[k] \in {e[j] : j \in 1 .. n + 1}
  BY <1>4, <1>7
<1>9. ASSUME NEW k \in 1 .. n + 1 PROVE e[k] \in {at[j] : j \in 0 .. n}
  <2>1. k - 1 \in 0 .. n /\ at[k - 1] = e[k]
    BY <1>6
  <2> DEFINE m == k - 1
  <2>2. m \in 0 .. n /\ at[m] = e[k]
    BY <2>1
  <2> HIDE DEF m
  <2> QED BY <2>2
<1> QED BY <1>5, <1>8, <1>9 DEF CutSet

(* the boundaries of a prefix's encoding *)
PathOf(vocab, t, q) == BoundariesIn(vocab, ReferenceEncoding(vocab, SubSeq(t, 1, q)))

(* The encoding of a prefix is that of the prefix without its last token, and that token. *)
LEMMA ParentPath ==
  ASSUME NEW vocab, Usable(vocab), NEW t, IsSeq(t), Complete(vocab, t),
         NEW n \in 1 .. Len(t), NEW last, last = LastOf(vocab, SubSeq(t, 1, n)),
         NEW p, p = n - Len(vocab[last])
  PROVE  /\ p \in 0 .. n - 1
         /\ PathOf(vocab, t, n) = PathOf(vocab, t, p) \cup {n}
         /\ Len(ReferenceEncoding(vocab, SubSeq(t, 1, n))) = Len(ReferenceEncoding(vocab, SubSeq(t, 1, p))) + 1
<1> DEFINE s == SubSeq(t, 1, p)
           P == ReferenceEncoding(vocab, s)
           R == ReferenceEncoding(vocab, SubSeq(t, 1, n))
           l == Len(P)
           w == Len(vocab[last])
<1>1. /\ \A k : MayEnd(vocab, t, n, k) <=> k = last
      /\ IsSeq(P) /\ R = Append(P, last)
  <2>1. /\ \A k : MayEnd(vocab, t, n, k) <=> k = last
        /\ IsSeq(ReferenceEncoding(vocab, SubSeq(t, 1, p)))
        /\ EndsIn(vocab, t, n, p, last)
    <3> HIDE DEF P, R, s, l, w
    <3> QED BY OneMayEnd
  <2> QED BY <2>1 DEF EndsIn
<1>2. MayEnd(vocab, t, n, last)
  BY <1>1
<1>3. Len(t) \in Nat /\ w \in Nat \ {0} /\ p \in 0 .. n - 1 /\ p \in 0 .. Len(t) /\ n = p + w
  <2>1. last \in DOMAIN vocab /\ p \in Nat
    BY <1>2 DEF MayEnd
  <2>2. w \in Nat \ {0} /\ Len(t) \in Nat
    BY <2>1, UsableFacts, SeqFacts
  <2> HIDE DEF P, R, s, l
  <2> QED BY <2>1, <2>2
<1>4. IsSeq(s) /\ Len(s) = p /\ Complete(vocab, s)
  BY <1>3, PrefixFacts, CompletePrefix
<1> HIDE DEF s
<1>5. PICK c : ValidCut(vocab, s, P, c, l)
  BY <1>4, ReferenceIsValid
<1> HIDE DEF P
<1>6. /\ l \in Nat /\ c[1] = 0 /\ c[l + 1] = p
      /\ \A k \in 1 .. l : c[k + 1] = c[k] + Len(vocab[P[k]])
  <2> HIDE DEF l
  <2>1. /\ l \in Nat /\ c[1] = 0 /\ c[l + 1] = Len(s)
        /\ \A k \in 1 .. l : c[k + 1] = c[k] + Len(vocab[P[k]])
    BY <1>4, <1>5, CutStack
  <2> QED BY <1>4, <2>1
<1>7. PathOf(vocab, t, p) = {c[k] : k \in 1 .. l + 1}
  <2>1. /\ Len(P) = l /\ l \in Nat /\ c[1] = 0
        /\ \A k \in 1 .. l : c[k + 1] = c[k] + Len(vocab[P[k]])
    BY <1>6
  <2> HIDE DEF l, w, R
  <2>2. BoundariesIn(vocab, P) = CutSet(c, l)
    BY <2>1, BoundariesAre, SMTT(60)
  <2> QED BY <2>2 DEF PathOf, P, s, CutSet
<1> DEFINE m == l + 1
           e == [k \in 1 .. m + 1 |-> IF k = m + 1 THEN n ELSE c[k]]
<1>8. m \in Nat /\ Len(R) = m /\ (\A k \in 1 .. l : R[k] = P[k]) /\ R[m] = last
  <2>1. /\ Len(Append(P, last)) = Len(P) + 1
        /\ \A k \in 1 .. Len(P) : Append(P, last)[k] = P[k]
        /\ Append(P, last)[Len(P) + 1] = last
    BY <1>1, AppendFacts
  <2> HIDE DEF R
  <2> QED BY <1>1, <1>6, <2>1
<1> HIDE DEF R, l
<1>9. e[1] = 0 /\ e[m + 1] = n /\ \A k \in 1 .. m : e[k] = c[k]
  BY <1>6, <1>8
<1>10. \A k \in 1 .. m : e[k + 1] = e[k] + Len(vocab[R[k]])
  <2> SUFFICES ASSUME NEW k \in 1 .. m PROVE e[k + 1] = e[k] + Len(vocab[R[k]])
    OBVIOUS
  <2>1. CASE k = m
    <3>1. e[k + 1] = n /\ e[k] = c[l + 1] /\ R[k] = last
      BY <1>8, <1>9, <2>1
    <3> HIDE DEF e
    <3> QED BY <1>3, <1>6, <3>1
  <2>2. CASE k # m
    <3>1. k \in 1 .. l /\ k + 1 \in 1 .. m
      BY <1>6, <2>2
    <3> HIDE DEF e, m
    <3> QED BY <1>6, <1>8, <1>9, <3>1
  <2> QED BY <2>1, <2>2
<1> HIDE DEF e, m
<1>11. BoundariesIn(vocab, R) = CutSet(e, m)
  BY <1>8, <1>9, <1>10, BoundariesAre
<1>12. {e[k] : k \in 1 .. m + 1} = {c[k] : k \in 1 .. m} \cup {n}
  <2>1. \A k \in 1 .. m + 1 : k \in 1 .. m \/ k = m + 1
    BY <1>8
  <2>2. \A k \in 1 .. m : k \in 1 .. m + 1
    BY <1>8
  <2>3. m + 1 \in 1 .. m + 1
    BY <1>8
  <2>4. ASSUME NEW x \in {e[k] : k \in 1 .. m + 1} PROVE x \in {c[k] : k \in 1 .. m} \cup {n}
    BY <1>9, <2>1
  <2>5. ASSUME NEW k \in 1 .. m PROVE c[k] \in {e[j] : j \in 1 .. m + 1}
    BY <1>9, <2>2
  <2>6. n \in {e[j] : j \in 1 .. m + 1}
    BY <1>9, <2>3
  <2> QED BY <2>4, <2>5, <2>6
<1>13. PathOf(vocab, t, n) = BoundariesIn(vocab, R)
  BY DEF PathOf, R
<1>14. Len(R) = Len(P) + 1
  BY <1>8 DEF m, l
<1> QED BY <1>3, <1>7, <1>11, <1>12, <1>13, <1>14 DEF m, R, P, s, CutSet

(* The empty prefix has no token. *)
LEMMA RootPath ==
  ASSUME NEW vocab, Usable(vocab), NEW t, IsSeq(t)
  PROVE  PathOf(vocab, t, 0) = {0} /\ Len(ReferenceEncoding(vocab, SubSeq(t, 1, 0))) = 0
<1>1. SubSeq(t, 1, 0) = <<>>
  <2>1. 0 \in 0 .. Len(t)
    BY SeqFacts
  <2>2. IsSeq(SubSeq(t, 1, 0)) /\ Len(SubSeq(t, 1, 0)) = 0
    BY <2>1, PrefixFacts
  <2> QED BY <2>2, SeqFacts
<1>2. ReferenceEncoding(vocab, SubSeq(t, 1, 0)) = <<>>
  BY <1>1, EmptyReference
<1> DEFINE e == [k \in 1 .. 1 |-> 0]
           R == ReferenceEncoding(vocab, SubSeq(t, 1, 0))
           z == 0
<1>3. /\ z \in Nat /\ Len(R) = z /\ e[1] = 0
      /\ \A k \in 1 .. z : e[k + 1] = e[k] + Len(vocab[R[k]])
  BY <1>2
<1>4. {e[k] : k \in 1 .. z + 1} = {0}
  OBVIOUS
<1> HIDE DEF e, R, z
<1>5. BoundariesIn(vocab, R) = CutSet(e, z)
  BY <1>3, BoundariesAre
<1> QED BY <1>3, <1>4, <1>5 DEF PathOf, R, z, CutSet

(* the parents that the last tokens give, and the paths to the prefixes *)
ParentsIn(vocab, t) == [n \in 1 .. Len(t) |-> n - Len(vocab[LastOf(vocab, SubSeq(t, 1, n))])]
PathsIn(vocab, t)   == [q \in 0 .. Len(t) |-> PathOf(vocab, t, q)]
CountTo(vocab, t, q) == Len(ReferenceEncoding(vocab, SubSeq(t, 1, q)))

(* They make a tree. *)
LEMMA PrefixTree ==
  ASSUME NEW vocab, Usable(vocab), NEW t, IsSeq(t), Complete(vocab, t)
  PROVE  /\ IsTree(Len(t), ParentsIn(vocab, t), PathsIn(vocab, t))
         /\ CountTo(vocab, t, 0) = 0
         /\ \A n \in 1 .. Len(t) : CountTo(vocab, t, n) = CountTo(vocab, t, ParentsIn(vocab, t)[n]) + 1
<1> DEFINE par  == ParentsIn(vocab, t)
           path == PathsIn(vocab, t)
           N    == Len(t)
<1>1. N \in Nat
  BY SeqFacts
<1>2. PathOf(vocab, t, 0) = {0} /\ CountTo(vocab, t, 0) = 0
  BY RootPath DEF CountTo
<1>3. ASSUME NEW n \in 1 .. N
      PROVE  /\ par[n] \in 0 .. n - 1 /\ path[n] = path[par[n]] \cup {n}
             /\ CountTo(vocab, t, n) = CountTo(vocab, t, par[n]) + 1
  <2> DEFINE last == LastOf(vocab, SubSeq(t, 1, n))
             p    == n - Len(vocab[last])
  <2>1. last = LastOf(vocab, SubSeq(t, 1, n)) /\ p = n - Len(vocab[last]) /\ par[n] = p
    BY DEF ParentsIn
  <2> HIDE DEF last, p, par, path
  <2>2. /\ p \in 0 .. n - 1
        /\ PathOf(vocab, t, n) = PathOf(vocab, t, p) \cup {n}
        /\ Len(ReferenceEncoding(vocab, SubSeq(t, 1, n))) = Len(ReferenceEncoding(vocab, SubSeq(t, 1, p))) + 1
    BY <2>1, ParentPath
  <2>3. n \in 0 .. N /\ p \in 0 .. N
    BY <1>1, <2>2
  <2>4. path[n] = PathOf(vocab, t, n) /\ path[p] = PathOf(vocab, t, p)
    BY <2>3 DEF path, PathsIn
  <2> QED BY <2>1, <2>2, <2>4 DEF CountTo
<1>4. path[0] = {0}
  BY <1>1, <1>2 DEF PathsIn
<1> HIDE DEF par, path
<1>5. IsTree(N, par, path)
  BY <1>1, <1>3, <1>4 DEF IsTree
<1> QED BY <1>2, <1>3, <1>5 DEF par, path

-----------------------------------------------------------------------------
(* Building the tree.                                                      *)

(* the object of a text: the last tokens are known *)
TreeFields(vocab, obj) ==
  LET t == obj.text
  IN  /\ t \in Texts
      /\ obj = [text       |-> t,
                last_token |-> [n \in 1 .. Len(t) |-> LastOf(vocab, SubSeq(t, 1, n))],
                tree_id    |-> obj.tree_id,
                tree_end   |-> obj.tree_end,
                tree_depth |-> obj.tree_depth]
      /\ DOMAIN obj.tree_id = 0 .. Len(t)
      /\ DOMAIN obj.tree_end = 0 .. Len(t)
      /\ DOMAIN obj.tree_depth = 0 .. Len(t)

(* the sizes count the subtrees of the children after k *)
Sized(vocab, t, sizes, k) ==
  /\ DOMAIN sizes = 0 .. Len(t)
  /\ \A p \in 0 .. Len(t) :
       sizes[p] = SizeBelow(Len(t), ParentsIn(vocab, t), PathsIn(vocab, t), p, k + 1 .. Len(t))

(* the root has its numbers *)
RootPlaced(obj) == obj.tree_id[0] = 0 /\ obj.tree_end[0] = 1 /\ obj.tree_depth[0] = 0

(* the nodes before k have their numbers and depths *)
PlacedUpTo(vocab, obj, sizes, k) ==
  LET t == obj.text
  IN  /\ k \in 1 .. Len(t) + 1
      /\ \A p \in 0 .. Len(t) : sizes[p] = SizeOf(Len(t), PathsIn(vocab, t), p)
      /\ Numbered(Len(t), ParentsIn(vocab, t), PathsIn(vocab, t), obj.tree_id, obj.tree_end, k)
      /\ \A q \in 0 .. k - 1 : obj.tree_depth[q] = CountTo(vocab, t, q)

LEMMA TextFacts ==
  ASSUME NEW vocab \in Vocabularies, NEW t \in Texts
  PROVE  /\ Usable(vocab) /\ IsSeq(t) /\ Complete(vocab, t) /\ Len(t) \in Nat
         /\ IsTree(Len(t), ParentsIn(vocab, t), PathsIn(vocab, t))
         /\ CountTo(vocab, t, 0) = 0
         /\ \A n \in 1 .. Len(t) : CountTo(vocab, t, n) = CountTo(vocab, t, ParentsIn(vocab, t)[n]) + 1
<1>1. Usable(vocab)
  <2>1. (\E n \in 0 .. UINT32_MAX : DOMAIN vocab = 0 .. n - 1) /\ Mergeable(vocab)
    BY DictionaryAssumption
  <2>2. \A k \in DOMAIN vocab : IsSeq(vocab[k]) /\ Len(vocab[k]) > 0 /\ Complete(vocab, vocab[k])
    BY DictionaryAssumption DEF IsSeq
  <2> QED BY <2>1, <2>2 DEF Usable
<1>2. IsSeq(t) /\ Complete(vocab, t)
  BY TextsAssumption DEF IsSeq
<1>3. Len(t) \in Nat
  BY <1>2, SeqFacts
<1> QED BY <1>1, <1>2, <1>3, PrefixTree

(* interval_encoding_new *)
LEMMA NewTree ==
  ASSUME NEW vocab \in Vocabularies, BuiltFrom(vocab), NEW t \in Texts,
         NEW obj, obj = [text       |-> t,
                         last_token |-> EncodeAllPrefixes(t),
                         tree_id    |-> [p \in 0 .. Len(t) |-> 0],
                         tree_end   |-> [p \in 0 .. Len(t) |-> IF p = 0 THEN 1 ELSE 0],
                         tree_depth |-> [p \in 0 .. Len(t) |-> 0]],
         NEW sizes, sizes = [p \in 0 .. Len(t) |-> 1]
  PROVE  TreeFields(vocab, obj) /\ Sized(vocab, t, sizes, Len(t)) /\ RootPlaced(obj)
<1> DEFINE n    == Len(t)
           par  == ParentsIn(vocab, t)
           path == PathsIn(vocab, t)
<1>1. Usable(vocab) /\ IsSeq(t) /\ Complete(vocab, t) /\ n \in Nat /\ IsTree(n, par, path)
  BY TextFacts
<1>2. EncodeAllPrefixes(t) = [m \in 1 .. n |-> LastOf(vocab, SubSeq(t, 1, m))]
  BY <1>1, LastTokens
<1>3. TreeFields(vocab, obj)
  BY <1>2 DEF TreeFields
<1>4. RootPlaced(obj)
  BY <1>1 DEF RootPlaced
<1>5. n + 1 .. n = {}
  BY <1>1
<1>6. \A p \in 0 .. n : SizeBelow(n, par, path, p, {}) = 1
  <2> HIDE DEF par, path, n
  <2> QED BY <1>1, BelowEnds
<1>7. Sized(vocab, t, sizes, n)
  BY <1>5, <1>6 DEF Sized
<1> QED BY <1>3, <1>4, <1>7

(* SizeUp *)
LEMMA SizeStep ==
  ASSUME NEW vocab \in Vocabularies, NEW t \in Texts, NEW sizes, NEW k \in 1 .. Len(t),
         Sized(vocab, t, sizes, k), NEW p, p = ParentsIn(vocab, t)[k],
         NEW sizes2, sizes2 = [sizes EXCEPT ![p] = @ + sizes[k]]
  PROVE  Sized(vocab, t, sizes2, k - 1)
<1> DEFINE n    == Len(t)
           par  == ParentsIn(vocab, t)
           path == PathsIn(vocab, t)
           C    == k + 1 .. n
           D    == C \cup {k}
<1>1. n \in Nat /\ IsTree(n, par, path)
  BY TextFacts
<1>2. p \in 0 .. k - 1 /\ p = par[k]
  BY <1>1 DEF IsTree
<1>3. (k - 1) + 1 .. n = D /\ k \notin C /\ k \in 0 .. n /\ p \in 0 .. n /\ k \in 1 .. n
  BY <1>1, <1>2
<1>4. DOMAIN sizes = 0 .. n /\ \A q \in 0 .. n : sizes[q] = SizeBelow(n, par, path, q, C)
  BY DEF Sized
<1> HIDE DEF par, path, C
<1>5. sizes[k] = SizeOf(n, path, k)
  <2>1. k + 1 .. n \subseteq C
    BY DEF C
  <2> HIDE DEF n
  <2>2. SizeBelow(n, par, path, k, C) = SizeOf(n, path, k)
    BY <1>1, <1>3, <2>1, BelowEnds
  <2> QED BY <1>3, <1>4, <2>2
<1>6. ASSUME NEW q \in 0 .. n PROVE sizes2[q] = SizeBelow(n, par, path, q, D)
  <2>1. SizeBelow(n, par, path, q, D) =
          IF par[k] = q THEN SizeBelow(n, par, path, q, C) + SizeOf(n, path, k)
                        ELSE SizeBelow(n, par, path, q, C)
    <3> HIDE DEF n
    <3> QED BY <1>1, <1>3, BelowStep
  <2>2. sizes2[q] = IF q = p THEN sizes[q] + sizes[k] ELSE sizes[q]
    BY <1>4
  <2> HIDE DEF D
  <2> QED BY <1>2, <1>4, <1>5, <2>1, <2>2
<1>7. DOMAIN sizes2 = 0 .. n
  BY <1>4
<1> HIDE DEF D, n
<1> QED BY <1>3, <1>6, <1>7 DEF Sized, n, par, path

(* StartPlacing *)
LEMMA FirstPlaced ==
  ASSUME NEW vocab \in Vocabularies, NEW obj, TreeFields(vocab, obj), RootPlaced(obj),
         NEW sizes, Sized(vocab, obj.text, sizes, 0)
  PROVE  PlacedUpTo(vocab, obj, sizes, 1)
<1> DEFINE t    == obj.text
           n    == Len(t)
           par  == ParentsIn(vocab, t)
           path == PathsIn(vocab, t)
           C    == 0 + 1 .. n
<1>1. t \in Texts
  BY DEF TreeFields
<1> HIDE DEF t
<1>2. n \in Nat /\ IsTree(n, par, path) /\ CountTo(vocab, t, 0) = 0
  BY <1>1, TextFacts
<1>3. \A p \in 0 .. n : sizes[p] = SizeBelow(n, par, path, p, C)
  BY DEF Sized, t
<1>4. ASSUME NEW p \in 0 .. n PROVE sizes[p] = SizeOf(n, path, p)
  <2>1. p + 1 .. n \subseteq C
    BY <1>2
  <2> HIDE DEF n, C, par, path
  <2>2. SizeBelow(n, par, path, p, C) = SizeOf(n, path, p)
    BY <1>2, <2>1, BelowEnds
  <2> QED BY <1>3, <2>2
<1>5. Numbered(n, par, path, obj.tree_id, obj.tree_end, 1)
  <2> HIDE DEF n, par, path
  <2> QED BY <1>2, RootNumbered DEF RootPlaced
<1>6. \A q \in 0 .. 1 - 1 : obj.tree_depth[q] = CountTo(vocab, t, q)
  BY <1>2 DEF RootPlaced
<1>7. 1 \in 1 .. n + 1
  BY <1>2
<1> HIDE DEF n, par, path
<1> QED BY <1>4, <1>5, <1>6, <1>7 DEF PlacedUpTo, t, n, par, path

(* Place: the fields of the object with node k under node p *)
PlacedAt(obj, sizes, k, p) ==
  [text       |-> obj.text,
   last_token |-> obj.last_token,
   tree_id    |-> [obj.tree_id EXCEPT ![k] = obj.tree_end[p]],
   tree_end   |-> [obj.tree_end EXCEPT ![k] = obj.tree_end[p] + 1,
                                       ![p] = obj.tree_end[p] + sizes[k]],
   tree_depth |-> [obj.tree_depth EXCEPT ![k] = obj.tree_depth[p] + 1]]

(* what that changes *)
IsPlacedAt(obj, obj2, sizes, k, p) ==
  /\ obj2.tree_id[k] = obj.tree_end[p] /\ obj2.tree_end[k] = obj.tree_end[p] + 1
  /\ obj2.tree_end[p] = obj.tree_end[p] + sizes[k]
  /\ obj2.tree_depth[k] = obj.tree_depth[p] + 1
  /\ \A q \in 0 .. k - 1 :
       /\ obj2.tree_id[q] = obj.tree_id[q] /\ obj2.tree_depth[q] = obj.tree_depth[q]
       /\ q # p => obj2.tree_end[q] = obj.tree_end[q]

LEMMA PlaceFields ==
  ASSUME NEW vocab \in Vocabularies, NEW obj, TreeFields(vocab, obj), NEW sizes,
         NEW k \in 1 .. Len(obj.text), NEW p \in 0 .. k - 1,
         NEW obj2, obj2 = PlacedAt(obj, sizes, k, p)
  PROVE  TreeFields(vocab, obj2) /\ obj2.text = obj.text /\ IsPlacedAt(obj, obj2, sizes, k, p)
<1> DEFINE t    == obj.text
           last == [n \in 1 .. Len(t) |-> LastOf(vocab, SubSeq(t, 1, n))]
           ids  == [obj.tree_id EXCEPT ![k] = obj.tree_end[p]]
           tops == [obj.tree_end EXCEPT ![k] = obj.tree_end[p] + 1,
                                        ![p] = obj.tree_end[p] + sizes[k]]
           deps == [obj.tree_depth EXCEPT ![k] = obj.tree_depth[p] + 1]
<1>1. t \in Texts /\ Len(t) \in Nat
  BY TextFacts DEF TreeFields
<1>2. /\ DOMAIN obj.tree_id = 0 .. Len(t)
      /\ DOMAIN obj.tree_end = 0 .. Len(t)
      /\ DOMAIN obj.tree_depth = 0 .. Len(t)
  BY DEF TreeFields
<1>3. obj.last_token = last
  <2> DEFINE a == obj.tree_id
             b == obj.tree_end
             c == obj.tree_depth
  <2>1. obj = [text |-> t, last_token |-> last, tree_id |-> a, tree_end |-> b, tree_depth |-> c]
    BY DEF TreeFields
  <2> HIDE DEF a, b, c, last, t
  <2> QED BY <2>1
<1>4. k \in 0 .. Len(t) /\ p \in 0 .. Len(t) /\ p # k /\ \A q \in 0 .. k - 1 : q \in 0 .. Len(t) /\ q # k
  BY <1>1
<1>5. /\ DOMAIN ids = 0 .. Len(t) /\ ids[k] = obj.tree_end[p]
      /\ \A q \in 0 .. k - 1 : ids[q] = obj.tree_id[q]
  BY <1>2, <1>4
<1>6. /\ DOMAIN deps = 0 .. Len(t) /\ deps[k] = obj.tree_depth[p] + 1
      /\ \A q \in 0 .. k - 1 : deps[q] = obj.tree_depth[q]
  BY <1>2, <1>4
<1>7. /\ DOMAIN tops = 0 .. Len(t) /\ tops[k] = obj.tree_end[p] + 1
      /\ tops[p] = obj.tree_end[p] + sizes[k]
      /\ \A q \in 0 .. k - 1 : q # p => tops[q] = obj.tree_end[q]
  BY <1>2, <1>4
<1>8. obj2 = [text |-> t, last_token |-> last, tree_id |-> ids, tree_end |-> tops, tree_depth |-> deps]
  BY <1>3 DEF PlacedAt
<1> HIDE DEF ids, tops, deps, last
<1>9. /\ obj2.text = t /\ obj2.last_token = last /\ obj2.tree_id = ids /\ obj2.tree_end = tops
      /\ obj2.tree_depth = deps
  <2> HIDE DEF t
  <2> QED BY <1>8
<1>10. TreeFields(vocab, obj2)
  <2>1. obj2 = [text |-> obj2.text, last_token |-> last, tree_id |-> obj2.tree_id,
                tree_end |-> obj2.tree_end, tree_depth |-> obj2.tree_depth]
    BY <1>8, <1>9
  <2>2. last = [n \in 1 .. Len(obj2.text) |-> LastOf(vocab, SubSeq(obj2.text, 1, n))]
    BY <1>9 DEF last
  <2> HIDE DEF t
  <2> QED BY <1>1, <1>5, <1>6, <1>7, <1>9, <2>1, <2>2 DEF TreeFields
<1> QED BY <1>5, <1>6, <1>7, <1>9, <1>10 DEF IsPlacedAt

LEMMA PlaceStep ==
  ASSUME NEW vocab \in Vocabularies, NEW obj, TreeFields(vocab, obj), NEW sizes,
         NEW t, t = obj.text, NEW k \in 1 .. Len(t), PlacedUpTo(vocab, obj, sizes, k),
         NEW p, p = ParentsIn(vocab, t)[k],
         NEW obj2, obj2 = PlacedAt(obj, sizes, k, p)
  PROVE  TreeFields(vocab, obj2) /\ obj2.text = t /\ PlacedUpTo(vocab, obj2, sizes, k + 1)
<1> DEFINE n    == Len(t)
           par  == ParentsIn(vocab, t)
           path == PathsIn(vocab, t)
           ids  == obj2.tree_id
           tops == obj2.tree_end
           deps == obj2.tree_depth
<1>1. t \in Texts
  BY DEF TreeFields
<1>2. /\ n \in Nat /\ IsTree(n, par, path)
      /\ \A m \in 1 .. n : CountTo(vocab, t, m) = CountTo(vocab, t, par[m]) + 1
  BY <1>1, TextFacts
<1>3. p \in 0 .. k - 1 /\ p = par[k] /\ k \in 0 .. n
  BY <1>2 DEF IsTree
<1>4. /\ \A q \in 0 .. n : sizes[q] = SizeOf(n, path, q)
      /\ Numbered(n, par, path, obj.tree_id, obj.tree_end, k)
      /\ \A q \in 0 .. k - 1 : obj.tree_depth[q] = CountTo(vocab, t, q)
  BY DEF PlacedUpTo
<1> HIDE DEF n, par, path, ids, tops, deps
<1>5. /\ TreeFields(vocab, obj2) /\ obj2.text = t
      /\ IsPlacedAt(obj, obj2, sizes, k, p)
  BY <1>3, PlaceFields
<1>6a. /\ ids[k] = obj.tree_end[p] /\ tops[k] = obj.tree_end[p] + 1
      /\ tops[p] = obj.tree_end[p] + sizes[k]
      /\ deps[k] = obj.tree_depth[p] + 1
      /\ \A q \in 0 .. k - 1 :
           /\ ids[q] = obj.tree_id[q] /\ deps[q] = obj.tree_depth[q]
           /\ q # p => tops[q] = obj.tree_end[q]
  BY <1>5 DEF IsPlacedAt, ids, tops, deps
<1>6. NumberedNext(n, path, par, obj.tree_id, obj.tree_end, ids, tops, k)
  BY <1>3, <1>4, <1>5, <1>6a DEF NumberedNext
<1>7. Numbered(n, par, path, ids, tops, k + 1)
  <2>1. k \in 1 .. n
    BY DEF n
  <2> QED BY <1>2, <1>4, <1>6, <2>1, NextNumbered
<1>8. \A q \in 0 .. (k + 1) - 1 : deps[q] = CountTo(vocab, t, q)
  <2>1. k \in 1 .. n
    BY DEF n
  <2>2. \A q \in 0 .. (k + 1) - 1 : q \in 0 .. k - 1 \/ q = k
    BY <2>1, <1>2
  <2>3. deps[k] = CountTo(vocab, t, k)
    BY <1>2, <1>3, <1>4, <1>5, <1>6a, <2>1
  <2> QED BY <1>4, <1>5, <1>6a, <2>2, <2>3
<1>9. k + 1 \in 1 .. n + 1
  BY <1>2 DEF n
<1> QED BY <1>4, <1>5, <1>7, <1>8, <1>9 DEF PlacedUpTo, n, par, path, ids, tops, deps

-----------------------------------------------------------------------------
(* The interval encoding.                                                  *)

(* the dictionary is one that bpe_from_dictionary built *)
BuiltInv == bpe.vocab \in Vocabularies /\ BuiltFrom(bpe.vocab)

(***************************************************************************)
(* While the tree is built, the sizes count the subtrees of the prefixes   *)
(* visited, then the prefixes before the loop variable have the numbers    *)
(* and the depth of their place in the tree.  A count changes nothing.     *)
(***************************************************************************)
TreeInv ==
  /\ BuiltInv
  /\ pc \in {"new", "size", "place", "ready", "loop", "step"}
  /\ pc # "new" => TreeFields(bpe.vocab, ie)
  /\ pc = "size" =>
       /\ id \in 0 .. Len(ie.text)
       /\ Sized(bpe.vocab, ie.text, tree_size, id)
       /\ RootPlaced(ie)
  /\ pc \notin {"new", "size"} => PlacedUpTo(bpe.vocab, ie, tree_size, id)

(* what the parent of a prefix is *)
LEMMA ParentIs ==
  ASSUME NEW vocab \in Vocabularies, BuiltFrom(vocab), TreeFields(vocab, ie),
         NEW k \in 1 .. Len(ie.text)
  PROVE  Parent(k) = ParentsIn(vocab, ie.text)[k]
<1> DEFINE t    == ie.text
           last == [n \in 1 .. Len(t) |-> LastOf(vocab, SubSeq(t, 1, n))]
           a    == ie.tree_id
           b    == ie.tree_end
           c    == ie.tree_depth
<1>1. ie.last_token = last
  <2>1. ie = [text |-> t, last_token |-> last, tree_id |-> a, tree_end |-> b, tree_depth |-> c]
    BY DEF TreeFields
  <2> HIDE DEF a, b, c, last, t
  <2> QED BY <2>1
<1>2. last[k] = LastOf(vocab, SubSeq(t, 1, k))
  OBVIOUS
<1> HIDE DEF last
<1> QED BY <1>1, <1>2 DEF Parent, ParentsIn, TokenLen, BuiltFrom

(* the new tree *)
LEMMA NewKeeps ==
  ASSUME TreeInv, NEW t \in Texts, New(t)
  PROVE  TreeInv'
<1> DEFINE vocab == bpe.vocab
<1>1. pc' = "size" /\ bpe' = bpe /\ vocab \in Vocabularies /\ BuiltFrom(vocab)
  BY DEF TreeInv, BuiltInv, New
<1>2. /\ ie' = [text       |-> t,
                last_token |-> EncodeAllPrefixes(t),
                tree_id    |-> [p \in 0 .. Len(t) |-> 0],
                tree_end   |-> [p \in 0 .. Len(t) |-> IF p = 0 THEN 1 ELSE 0],
                tree_depth |-> [p \in 0 .. Len(t) |-> 0]]
      /\ tree_size' = [p \in 0 .. Len(t) |-> 1]
      /\ id' = Len(t)
  BY DEF New
<1>3. ie'.text = t
  BY <1>2
<1> HIDE DEF vocab
<1>4. TreeFields(vocab, ie') /\ Sized(vocab, t, tree_size', Len(t)) /\ RootPlaced(ie')
  BY <1>1, <1>2, NewTree
<1>5. Len(t) \in 0 .. Len(t)
  BY <1>1, TextFacts
<1>6. BuiltInv'
  BY <1>1 DEF BuiltInv, BuiltFrom, TreeInv
<1> QED BY <1>1, <1>2, <1>3, <1>4, <1>5, <1>6 DEF TreeInv, vocab

(* one more subtree is counted *)
LEMMA SizeUpKeeps ==
  ASSUME TreeInv, SizeUp
  PROVE  TreeInv'
<1> DEFINE vocab == bpe.vocab
           t     == ie.text
           p     == Parent(id)
<1>1. /\ pc = "size" /\ pc' = "size" /\ bpe' = bpe /\ ie' = ie /\ id' = id - 1 /\ id > 0
      /\ tree_size' = [tree_size EXCEPT ![p] = tree_size[p] + tree_size[id]]
  BY DEF SizeUp
<1>2. /\ vocab \in Vocabularies /\ BuiltFrom(vocab) /\ TreeFields(vocab, ie)
      /\ id \in 0 .. Len(t) /\ Sized(vocab, t, tree_size, id) /\ RootPlaced(ie)
  BY <1>1 DEF TreeInv, BuiltInv
<1>3. t \in Texts
  BY <1>2 DEF TreeFields
<1>4. Len(t) \in Nat
  BY <1>2, <1>3, TextFacts
<1>5. id \in 1 .. Len(t) /\ id - 1 \in 0 .. Len(t)
  BY <1>1, <1>2, <1>4
<1> HIDE DEF vocab
<1>6. p = ParentsIn(vocab, t)[id]
  BY <1>2, <1>5, ParentIs
<1> HIDE DEF p, t
<1>7. Sized(vocab, t, tree_size', id - 1)
  BY <1>1, <1>2, <1>3, <1>5, <1>6, SizeStep
<1>8. BuiltInv'
  BY <1>1 DEF BuiltInv, BuiltFrom, TreeInv
<1> QED BY <1>1, <1>2, <1>5, <1>7, <1>8 DEF TreeInv, vocab, t

(* the sizes are complete *)
LEMMA StartPlacingKeeps ==
  ASSUME TreeInv, StartPlacing
  PROVE  TreeInv'
<1> DEFINE vocab == bpe.vocab
<1>1. /\ pc = "size" /\ pc' = "place" /\ bpe' = bpe /\ ie' = ie /\ id = 0 /\ id' = 1
      /\ tree_size' = tree_size
  BY DEF StartPlacing
<1>2. /\ vocab \in Vocabularies /\ TreeFields(vocab, ie)
      /\ Sized(vocab, ie.text, tree_size, 0) /\ RootPlaced(ie)
  BY <1>1 DEF TreeInv, BuiltInv
<1> HIDE DEF vocab
<1>3. PlacedUpTo(vocab, ie, tree_size, 1)
  BY <1>2, FirstPlaced
<1>4. BuiltInv'
  BY <1>1 DEF BuiltInv, BuiltFrom, TreeInv
<1> QED BY <1>1, <1>2, <1>3, <1>4 DEF TreeInv, vocab

(* an object with three fields changed *)
WithTree(obj, x, y, z) == [obj EXCEPT !.tree_id = x, !.tree_end = y, !.tree_depth = z]

LEMMA ThreeFields ==
  ASSUME NEW a, NEW b, NEW c, NEW d, NEW e, NEW old,
         old = [text |-> a, last_token |-> b, tree_id |-> c, tree_end |-> d, tree_depth |-> e],
         NEW x, NEW y, NEW z
  PROVE  WithTree(old, x, y, z) =
           [text |-> a, last_token |-> b, tree_id |-> x, tree_end |-> y, tree_depth |-> z]
<1> DEFINE u == [old EXCEPT !.tree_id = x]
           v == [u EXCEPT !.tree_end = y]
           w == [v EXCEPT !.tree_depth = z]
<1>1. u = [text |-> a, last_token |-> b, tree_id |-> x, tree_end |-> d, tree_depth |-> e]
  OBVIOUS
<1>2. v = [text |-> a, last_token |-> b, tree_id |-> x, tree_end |-> y, tree_depth |-> e]
  <2> HIDE DEF u
  <2> QED BY <1>1
<1>3. w = [text |-> a, last_token |-> b, tree_id |-> x, tree_end |-> y, tree_depth |-> z]
  <2> HIDE DEF v
  <2> QED BY <1>2
<1>4. WithTree(old, x, y, z) = w
  BY DEF WithTree
<1> HIDE DEF w
<1> QED BY <1>3, <1>4

(* what Place makes of the object *)
LEMMA PlacedIs ==
  ASSUME NEW vocab \in Vocabularies, TreeFields(vocab, ie), NEW k
  PROVE  Placed(ie, k) = PlacedAt(ie, tree_size, k, Parent(k))
<1> DEFINE t    == ie.text
           last == [n \in 1 .. Len(t) |-> LastOf(vocab, SubSeq(t, 1, n))]
           a    == ie.tree_id
           b    == ie.tree_end
           c    == ie.tree_depth
           p    == Parent(k)
           x    == [ie.tree_id EXCEPT ![k] = ie.tree_end[p]]
           y    == [ie.tree_end EXCEPT ![k] = ie.tree_end[p] + 1,
                                       ![p] = ie.tree_end[p] + tree_size[k]]
           z    == [ie.tree_depth EXCEPT ![k] = ie.tree_depth[p] + 1]
<1>1. ie = [text |-> t, last_token |-> last, tree_id |-> a, tree_end |-> b, tree_depth |-> c]
  BY DEF TreeFields
<1>2. Placed(ie, k) = WithTree(ie, x, y, z)
  BY DEF Placed, WithTree
<1>3. PlacedAt(ie, tree_size, k, p) =
        [text |-> t, last_token |-> ie.last_token, tree_id |-> x, tree_end |-> y, tree_depth |-> z]
  BY DEF PlacedAt
<1> HIDE DEF t, last, a, b, c, p, x, y, z
<1>4. WithTree(ie, x, y, z) =
        [text |-> t, last_token |-> last, tree_id |-> x, tree_end |-> y, tree_depth |-> z]
  BY <1>1, ThreeFields
<1>5. ie.last_token = last
  BY <1>1
<1> QED BY <1>2, <1>3, <1>4, <1>5 DEF p

(* the next prefix gets its numbers *)
LEMMA PlaceKeeps ==
  ASSUME TreeInv, Place
  PROVE  TreeInv'
<1> DEFINE vocab == bpe.vocab
           t     == ie.text
           p     == Parent(id)
<1>1. /\ pc = "place" /\ pc' = "place" /\ bpe' = bpe /\ ie' = Placed(ie, id) /\ id' = id + 1
      /\ id <= Len(ie.text) /\ tree_size' = tree_size
  BY DEF Place
<1>2. /\ vocab \in Vocabularies /\ BuiltFrom(vocab) /\ TreeFields(vocab, ie)
      /\ PlacedUpTo(vocab, ie, tree_size, id)
  BY <1>1 DEF TreeInv, BuiltInv
<1>3. t \in Texts
  BY <1>2 DEF TreeFields
<1>4. Len(t) \in Nat /\ IsTree(Len(t), ParentsIn(vocab, t), PathsIn(vocab, t))
  BY <1>2, <1>3, TextFacts
<1>5. id \in 1 .. Len(t)
  BY <1>1, <1>2, <1>4 DEF PlacedUpTo
<1> HIDE DEF vocab
<1>6. p = ParentsIn(vocab, t)[id]
  BY <1>2, <1>5, ParentIs
<1>7. p \in 0 .. id - 1
  BY <1>4, <1>5, <1>6 DEF IsTree
<1>8. ie' = PlacedAt(ie, tree_size, id, p)
  BY <1>1, <1>2, <1>5, <1>7, PlacedIs
<1> HIDE DEF p
<1>9. TreeFields(vocab, ie') /\ PlacedUpTo(vocab, ie', tree_size, id + 1)
  BY <1>2, <1>5, <1>6, <1>8, PlaceStep
<1>10. BuiltInv'
  BY <1>1 DEF BuiltInv, BuiltFrom, TreeInv
<1> QED BY <1>1, <1>9, <1>10 DEF TreeInv, vocab

(* the steps that leave the tree alone *)
LEMMA CountKeeps ==
  ASSUME TreeInv,
         \/ Ready \/ EarlyExit \/ MiniStep \/ Return
         \/ \E s, e \in 0 .. Len(ie.text) : s <= e /\ Call(s, e)
  PROVE  TreeInv'
<1>1. /\ bpe' = bpe /\ ie' = ie /\ tree_size' = tree_size /\ id' = id
      /\ pc \in {"place", "ready", "loop", "step"} /\ pc' \in {"ready", "loop", "step"}
  <2>1. CASE Ready \/ EarlyExit \/ Return \/ \E s, e \in 0 .. Len(ie.text) : s <= e /\ Call(s, e)
    BY <2>1 DEF Ready, EarlyExit, Return, Call
  <2>2. CASE MiniStep
    BY <2>2 DEF MiniStep, Mini!BeginStep, Mini!Accept, Mini!TryShorter, Mini!Backtrack
  <2> QED BY <2>1, <2>2
<1>2. BuiltInv'
  BY <1>1 DEF BuiltInv, BuiltFrom, TreeInv
<1> QED BY <1>1, <1>2 DEF TreeInv

LEMMA TreeStep == TreeInv /\ [Next]_vars => TreeInv'
<1> SUFFICES ASSUME TreeInv, [Next]_vars PROVE TreeInv'
  OBVIOUS
<1>1. CASE \E t \in Texts : New(t)
  BY <1>1, NewKeeps
<1>2. CASE SizeUp
  BY <1>2, SizeUpKeeps
<1>3. CASE StartPlacing
  BY <1>3, StartPlacingKeeps
<1>4. CASE Place
  BY <1>4, PlaceKeeps
<1>5. CASE \/ Ready \/ EarlyExit \/ MiniStep \/ Return
           \/ \E s, e \in 0 .. Len(ie.text) : s <= e /\ Call(s, e)
  BY <1>5, CountKeeps
<1>6. CASE UNCHANGED vars
  <2>1. bpe' = bpe /\ pc' = pc /\ ie' = ie /\ tree_size' = tree_size /\ id' = id
    BY <1>6 DEF vars
  <2>2. BuiltInv'
    BY <2>1 DEF BuiltInv, BuiltFrom, TreeInv
  <2> QED BY <2>1, <2>2 DEF TreeInv
<1> QED BY <1>1, <1>2, <1>3, <1>4, <1>5, <1>6 DEF Next

(* A step of an incremental encoder is none of the interval encoding. *)
LEMMA OnlyInterval == [AllNext]_allVars => [Next]_vars
<1> SUFFICES ASSUME [AllNext]_allVars PROVE [Next]_vars
  OBVIOUS
<1>1. CASE object = "appendable" /\ Appendable!Next /\ UNCHANGED intervalOnly
  <2>1. bpe' = bpe
    BY <1>1 DEF Appendable!Next, Appendable!Push, Appendable!Extend, Appendable!Truncate
  <2> QED BY <1>1, <2>1 DEF intervalOnly, vars
<1>2. CASE object = "prependable" /\ Prependable!Next /\ UNCHANGED intervalOnly
  <2>1. bpe' = bpe
    BY <1>2 DEF Prependable!Next, Prependable!Push, Prependable!Extend, Prependable!Truncate
  <2> QED BY <1>2, <2>1 DEF intervalOnly, vars
<1>3. CASE Next
  BY <1>3
<1>4. CASE UNCHANGED allVars
  BY <1>4 DEF allVars
<1> QED BY <1>1, <1>2, <1>3, <1>4 DEF AllNext

(***************************************************************************)
(* interval_encoding_new keeps, from loop to loop, what the sizes and the  *)
(* numbers say of the tree so far.                                         *)
(***************************************************************************)
THEOREM TreeInvariance == AllSpec => []TreeInv
<1>1. AllInit => TreeInv
  <2> SUFFICES ASSUME AllInit PROVE TreeInv
    OBVIOUS
  <2>1. PICK vocab \in Vocabularies : bpe = FromDictionary(vocab)
    BY DEF AllInit, Init
  <2>2. bpe.vocab = vocab
    BY <2>1 DEF FromDictionary
  <2>3. BuiltInv
    BY <2>1, <2>2 DEF BuiltInv, BuiltFrom
  <2>4. pc = "new"
    BY DEF AllInit, Init
  <2> QED BY <2>3, <2>4 DEF TreeInv
<1> QED BY <1>1, TreeStep, OnlyInterval, PTL DEF AllSpec

(* the boundaries of a prefix's encoding *)
LEMMA PrefixPath ==
  ASSUME NEW q \in 0 .. Len(ie.text)
  PROVE  /\ Boundaries(ReferenceEncoding(bpe.vocab, Prefix(q))) = PathsIn(bpe.vocab, ie.text)[q]
         /\ Len(ReferenceEncoding(bpe.vocab, Prefix(q))) = CountTo(bpe.vocab, ie.text, q)
BY SameBoundaries DEF Prefix, PathsIn, PathOf, CountTo

(***************************************************************************)
(* When the tree is finished, its numbers and intervals tell of any two    *)
(* prefixes whether the encoding of the one goes through the end of the    *)
(* other, and its depths are the token counts.                             *)
(***************************************************************************)
THEOREM TreeAlwaysIntervals == AllSpec => []TreeIntervals
<1>1. TreeInv => TreeIntervals
  <2> SUFFICES ASSUME TreeInv, pc = "place", id > Len(ie.text)
               PROVE  /\ {ie.tree_id[p] : p \in 0 .. Len(ie.text)} = 0 .. Len(ie.text)
                      /\ \A q \in 0 .. Len(ie.text) :
                           LET encoding == ReferenceEncoding(bpe.vocab, Prefix(q))
                           IN  /\ ie.tree_depth[q] = Len(encoding)
                               /\ \A p \in 0 .. Len(ie.text) :
                                    p \in Boundaries(encoding)
                                      <=> ie.tree_id[p] <= ie.tree_id[q] /\ ie.tree_id[q] < ie.tree_end[p]
    BY DEF TreeIntervals
  <2> DEFINE vocab == bpe.vocab
             t     == ie.text
             n     == Len(t)
             par   == ParentsIn(vocab, t)
             path  == PathsIn(vocab, t)
             num   == ie.tree_id
             top   == ie.tree_end
  <2>1. /\ vocab \in Vocabularies /\ t \in Texts
        /\ id \in 1 .. n + 1 /\ Numbered(n, par, path, num, top, id)
        /\ \A q \in 0 .. id - 1 : ie.tree_depth[q] = CountTo(vocab, t, q)
    BY DEF TreeInv, BuiltInv, TreeFields, PlacedUpTo
  <2>2. n \in Nat /\ IsTree(n, par, path)
    BY <2>1, TextFacts
  <2>3. id = n + 1 /\ id - 1 = n
    BY <2>1, <2>2
  <2>4. /\ {num[p] : p \in 0 .. n} = 0 .. n
        /\ \A p, q \in 0 .. n : p \in path[q] <=> num[p] <= num[q] /\ num[q] < top[p]
    <3> HIDE DEF n, par, path, num, top
    <3> QED BY <2>1, <2>2, <2>3, AllNumbered
  <2>5. ASSUME NEW q \in 0 .. n
        PROVE  /\ Boundaries(ReferenceEncoding(vocab, Prefix(q))) = path[q]
               /\ Len(ReferenceEncoding(vocab, Prefix(q))) = ie.tree_depth[q]
    BY <2>1, <2>3, PrefixPath
  <2> HIDE DEF path
  <2> QED BY <2>4, <2>5
<1> QED BY <1>1, TreeInvariance, PTL

-----------------------------------------------------------------------------
(* The early stop.                                                         *)

(* w is what the text has from s to e *)
WindowOf(w, t, s, e) ==
  /\ IsSeq(w) /\ Len(w) = e - s
  /\ \A k \in 1 .. e - s : w[k] = t[s + k]

(* The token that may end there is one more than what is before it. *)
LEMMA MayEndAdds ==
  ASSUME NEW vocab, Usable(vocab), NEW w, IsSeq(w), Complete(vocab, w),
         NEW m \in 1 .. Len(w), NEW z, MayEnd(vocab, w, m, z),
         NEW o, o = m - Len(vocab[z])
  PROVE  /\ LastOf(vocab, SubSeq(w, 1, m)) = z
         /\ Len(ReferenceEncoding(vocab, SubSeq(w, 1, m))) = Len(ReferenceEncoding(vocab, SubSeq(w, 1, o))) + 1
<1> DEFINE last == LastOf(vocab, SubSeq(w, 1, m))
           a    == m - Len(vocab[last])
<1>1. /\ \A k : MayEnd(vocab, w, m, k) <=> k = last
      /\ IsSeq(ReferenceEncoding(vocab, SubSeq(w, 1, a)))
      /\ EndsIn(vocab, w, m, a, last)
  <2>1. last = LastOf(vocab, SubSeq(w, 1, m)) /\ a = m - Len(vocab[last])
    OBVIOUS
  <2> HIDE DEF last, a
  <2> QED BY <2>1, OneMayEnd
<1>2. z = last
  BY <1>1
<1>3. a = o
  BY <1>2
<1> HIDE DEF last, a
<1>4. ReferenceEncoding(vocab, SubSeq(w, 1, m)) = Append(ReferenceEncoding(vocab, SubSeq(w, 1, o)), last)
  BY <1>1, <1>3 DEF EndsIn
<1>5. IsSeq(ReferenceEncoding(vocab, SubSeq(w, 1, o)))
  BY <1>1, <1>3
<1>6. Len(Append(ReferenceEncoding(vocab, SubSeq(w, 1, o)), last)) = Len(ReferenceEncoding(vocab, SubSeq(w, 1, o))) + 1
  BY <1>5, AppendFacts
<1> QED BY <1>2, <1>4, <1>6 DEF last

(* A token that ends at q and begins in the window may end there, too. *)
LEMMA WindowMayEnd ==
  ASSUME NEW vocab, Usable(vocab), NEW t, IsSeq(t), NEW s \in Nat, NEW e \in Nat,
         s <= e, e <= Len(t), NEW w, WindowOf(w, t, s, e), Complete(vocab, w),
         NEW q \in Nat, q <= e, NEW z, MayEnd(vocab, t, q, z),
         NEW r, r = q - Len(vocab[z]), s < r,
         NEW m, m = q - s, NEW o, o = r - s,
         LastOf(vocab, SubSeq(w, 1, o)) = LastOf(vocab, SubSeq(t, 1, r))
  PROVE  /\ LastOf(vocab, SubSeq(w, 1, m)) = z
         /\ Len(ReferenceEncoding(vocab, SubSeq(w, 1, m))) = Len(ReferenceEncoding(vocab, SubSeq(w, 1, o))) + 1
<1> DEFINE n == Len(vocab[z])
<1>1. /\ z \in DOMAIN vocab /\ r \in Nat /\ OccursAt(vocab[z], t, r, q)
      /\ r = 0 \/ ValidPair(FromDictionary(vocab), LastOf(vocab, SubSeq(t, 1, r)), z)
  BY DEF MayEnd
<1>2. n \in Nat \ {0} /\ r = q - n
  BY <1>1, UsableFacts
<1>3. r + n <= q /\ \A k \in 1 .. n : t[r + k] = vocab[z][k]
  BY <1>1 DEF OccursAt
<1> HIDE DEF n
<1>4. /\ m \in 1 .. Len(w) /\ o \in Nat /\ o = m - n /\ o + n <= m /\ o # 0
      /\ \A k \in 1 .. n : o + k \in 1 .. e - s /\ s + (o + k) = r + k
  <2>1. Len(w) = e - s
    BY DEF WindowOf
  <2>2. o \in Nat /\ o = m - n /\ o + n <= m /\ o # 0 /\ m \in 1 .. e - s
    BY <1>1, <1>2
  <2>3. ASSUME NEW k \in 1 .. n PROVE o + k \in 1 .. e - s /\ s + (o + k) = r + k
    BY <1>1, <1>2, <2>2
  <2> QED BY <2>1, <2>2, <2>3
<1>5. ASSUME NEW k \in 1 .. n PROVE w[o + k] = vocab[z][k]
  <2> DEFINE j == o + k
  <2>1. j \in 1 .. e - s /\ s + j = r + k
    BY <1>4
  <2> HIDE DEF j
  <2>2. w[j] = t[r + k]
    BY <2>1 DEF WindowOf
  <2> QED BY <1>3, <2>2 DEF j
<1>6. OccursAt(vocab[z], w, o, m)
  BY <1>4, <1>5 DEF OccursAt, n
<1>7. MayEnd(vocab, w, m, z)
  BY <1>1, <1>4, <1>6 DEF MayEnd, n
<1>8. IsSeq(w) /\ o = m - Len(vocab[z])
  BY <1>4 DEF WindowOf, n
<1> QED BY <1>4, <1>7, <1>8, MayEndAdds

(***************************************************************************)
(* If the encoding of a window and that of the whole text have a boundary  *)
(* in common, after the same token, they agree from there on.              *)
(***************************************************************************)
LEMMA WindowAgrees ==
  ASSUME NEW vocab \in Vocabularies, NEW t \in Texts, NEW s \in Nat, NEW e \in Nat,
         s <= e, e <= Len(t), NEW w, WindowOf(w, t, s, e), Complete(vocab, w),
         NEW p \in Nat, s < p, p \in PathsIn(vocab, t)[e],
         NEW o, o = p - s,
         LastOf(vocab, SubSeq(w, 1, o)) = LastOf(vocab, SubSeq(t, 1, p))
  PROVE  /\ p <= e
         /\ Len(ReferenceEncoding(vocab, w)) + CountTo(vocab, t, p) =
              Len(ReferenceEncoding(vocab, SubSeq(w, 1, o))) + CountTo(vocab, t, e)
<1> DEFINE n    == Len(t)
           par  == ParentsIn(vocab, t)
           path == PathsIn(vocab, t)
           a(m) == SubSeq(w, 1, m)
           c(m) == Len(ReferenceEncoding(vocab, a(m)))
           Same(q) ==
             LET m == q - s
             IN  /\ LastOf(vocab, a(m)) = LastOf(vocab, SubSeq(t, 1, q))
                 /\ c(m) + CountTo(vocab, t, p) = c(o) + CountTo(vocab, t, q)
           good == {q \in 0 .. n : q <= e /\ p \in path[q] => Same(q)}
<1>1. /\ Usable(vocab) /\ IsSeq(t) /\ Complete(vocab, t) /\ n \in Nat
      /\ IsTree(n, par, path)
      /\ \A q \in 1 .. n : CountTo(vocab, t, q) = CountTo(vocab, t, par[q]) + 1
  BY TextFacts
<1>2. \A q \in 0 .. n : path[q] \subseteq 0 .. q
  <2> HIDE DEF path, par, n
  <2> QED BY <1>1, PathFacts
<1>3. p <= e /\ e \in 0 .. n /\ p # 0
  BY <1>1, <1>2
<1>4. /\ \A q \in 1 .. n : par[q] \in 0 .. q - 1
      /\ path[0] = {0}
      /\ \A q \in 1 .. n : path[q] = path[par[q]] \cup {q}
  BY <1>1 DEF IsTree
<1>5. \A q \in 1 .. n : par[q] = q - Len(vocab[LastOf(vocab, SubSeq(t, 1, q))])
  BY DEF ParentsIn
<1>6. \A q \in 0 .. n : CountTo(vocab, t, q) \in Nat
  <2> SUFFICES ASSUME NEW q \in 0 .. n PROVE CountTo(vocab, t, q) \in Nat
    OBVIOUS
  <2>1. IsSeq(SubSeq(t, 1, q)) /\ Complete(vocab, SubSeq(t, 1, q))
    BY <1>1, PrefixFacts, CompletePrefix
  <2>2. IsSeq(ReferenceEncoding(vocab, SubSeq(t, 1, q)))
    BY <1>1, <2>1, ReferenceIsValid
  <2> QED BY <2>2, SeqFacts DEF CountTo
<1>7. \A m \in 0 .. e - s : c(m) \in Nat
  <2> SUFFICES ASSUME NEW m \in 0 .. e - s PROVE c(m) \in Nat
    OBVIOUS
  <2>1. IsSeq(a(m)) /\ Complete(vocab, a(m))
    BY PrefixFacts, CompletePrefix DEF WindowOf
  <2>2. IsSeq(ReferenceEncoding(vocab, a(m)))
    BY <1>1, <2>1, ReferenceIsValid
  <2> QED BY <2>2, SeqFacts
<1> HIDE DEF par, path, c
<1>8. 0 \in good
  BY <1>1, <1>3, <1>4
<1>9. ASSUME NEW q \in 1 .. n, par[q] \in good PROVE q \in good
  <2> SUFFICES ASSUME q <= e, p \in path[q] PROVE Same(q)
    BY <1>1
  <2>1. CASE q = p
    BY <2>1
  <2>2. CASE q # p
    <3> DEFINE z == LastOf(vocab, SubSeq(t, 1, q))
               r == par[q]
               m == q - s
               k == r - s
    <3>1. r \in 0 .. q - 1 /\ p \in path[r]
      BY <1>4, <2>2
    <3>2. p <= r /\ r \in 0 .. n /\ r <= e
      BY <1>1, <1>2, <3>1
    <3>3. Same(r)
      BY <1>9, <3>1, <3>2
    <3>4. LastOf(vocab, a(k)) = LastOf(vocab, SubSeq(t, 1, r)) /\ c(k) + CountTo(vocab, t, p) = c(o) + CountTo(vocab, t, r)
      BY <3>3
    <3>5. r = q - Len(vocab[z]) /\ s < r /\ q \in Nat
      BY <1>5, <3>1, <3>2
    <3>6. MayEnd(vocab, t, q, z)
      <4> DEFINE b == q - Len(vocab[z])
      <4>1. z = LastOf(vocab, SubSeq(t, 1, q)) /\ b = q - Len(vocab[z])
        OBVIOUS
      <4> HIDE DEF z, b, n
      <4>2. q \in 1 .. Len(t)
        BY DEF n
      <4>3. \A j : MayEnd(vocab, t, q, j) <=> j = z
        BY <1>1, <4>1, <4>2, OneMayEnd
      <4> QED BY <4>3
    <3>7. m = q - s /\ k = r - s
      OBVIOUS
    <3> HIDE DEF z, r, m, k
    <3>8. /\ LastOf(vocab, SubSeq(w, 1, m)) = z
          /\ Len(ReferenceEncoding(vocab, SubSeq(w, 1, m))) = Len(ReferenceEncoding(vocab, SubSeq(w, 1, k))) + 1
      BY <1>1, <3>4, <3>5, <3>6, <3>7, WindowMayEnd
    <3>9. c(m) = c(k) + 1
      BY <3>8 DEF c
    <3>10. CountTo(vocab, t, q) = CountTo(vocab, t, r) + 1
      BY <1>1 DEF r
    <3>11. /\ k \in 0 .. e - s /\ o \in 0 .. e - s
           /\ c(k) \in Nat /\ c(o) \in Nat /\ CountTo(vocab, t, p) \in Nat /\ CountTo(vocab, t, r) \in Nat
      <4>1. k \in 0 .. e - s /\ o \in 0 .. e - s
        BY <1>3, <3>1, <3>2, <3>5, <3>7, SMTT(30)
      <4>2. c(k) \in Nat /\ c(o) \in Nat
        BY <1>7, <4>1
      <4>3. p \in 0 .. n
        BY <1>1, <1>3
      <4> QED BY <1>6, <3>2, <4>1, <4>2, <4>3
    <3>12. c(m) + CountTo(vocab, t, p) = c(o) + CountTo(vocab, t, q)
      BY <3>4, <3>9, <3>10, <3>11, SMTT(30)
    <3> QED BY <3>8, <3>12 DEF m, z
  <2> QED BY <2>1, <2>2
<1>10. \A q \in 0 .. n : q \in good
  <2> HIDE DEF good, n
  <2> QED BY <1>1, <1>8, <1>9, TreeInduction
<1>11. Same(e)
  BY <1>3, <1>10 DEF path
<1>12. a(e - s) = w
  BY WholeSeq DEF WindowOf
<1> QED BY <1>3, <1>11, <1>12 DEF c

-----------------------------------------------------------------------------
(* The encoder of a count.                                                 *)

(* the intervals of the texts *)
Part(t, s, n) == SubSeq(t, s + 1, s + n)

Windows == UNION {UNION {{Part(t, s, n) : n \in 0 .. Len(t) - s} : s \in 0 .. Len(t)} : t \in Texts}

InCount == pc \in {"loop", "step"}

(***************************************************************************)
(* MiniEnc as an encoder of BacktrackEncoder: between two counts it is as  *)
(* new, so that the theorems about that module hold of it.                 *)
(***************************************************************************)
Enc == INSTANCE BacktrackEncoderProofs
         WITH Texts <- Windows, Limits <- {0}, Ops <- {"encode"}, MaxCalls <- 1, LimitSlack <- 0,
              SIZE_MAX   <- 0,
              pc         <- IF InCount THEN pc ELSE "idle",
              op         <- IF InCount THEN "encode" ELSE "none",
              limit      <- 0,
              text       <- IF InCount THEN text ELSE <<>>,
              tokens     <- IF InCount THEN tokens ELSE <<>>,
              pos        <- IF InCount THEN pos ELSE 0,
              next_token <- IF InCount THEN next_token ELSE UINT32_MAX,
              token      <- IF InCount THEN token ELSE UINT32_MAX,
              bitfield   <- IF InCount THEN bitfield ELSE {},
              nwords     <- IF InCount THEN nwords ELSE 0,
              scratch    <- [bits |-> {}, nwords |-> 0],
              result     <- [tokens |-> <<>>, count |-> 0, exceeded |-> FALSE],
              calls      <- IF InCount THEN 1 ELSE 0,
              ends       <- IF InCount THEN ends ELSE <<0>>

(* The instances have the operators of BytePairEncoding. *)
LEMMA SameOperators ==
  /\ \A v, s, b, e : Enc!NextMatch(v, s, b, e) = NextMatch(v, s, b, e)
  /\ \A v, b : Enc!Complete(v, b) = Complete(v, b)
  /\ \A b, x, y : Enc!ValidPair(b, x, y) = ValidPair(b, x, y)
  /\ \A b, x : Enc!TokenLen(b, x) = TokenLen(b, x)
  /\ \A v, t : Enc!ReferenceEncoding(v, t) = ReferenceEncoding(v, t)
  /\ \A w, t, p, e : Enc!OccursAt(w, t, p, e) = OccursAt(w, t, p, e)
<1>1. ASSUME NEW v, NEW s, NEW b, NEW e PROVE Enc!NextMatch(v, s, b, e) = NextMatch(v, s, b, e)
  BY DEF Enc!NextMatch, NextMatch, Enc!OccursAt, OccursAt
<1>2. ASSUME NEW v, NEW b PROVE Enc!Complete(v, b) = Complete(v, b)
  BY DEF Enc!Complete, Complete
<1>3. ASSUME NEW b, NEW x, NEW y PROVE Enc!ValidPair(b, x, y) = ValidPair(b, x, y)
  BY DEF Enc!ValidPair, ValidPair, Enc!IsValidTokenPair, IsValidTokenPair
<1>4. ASSUME NEW b, NEW x PROVE Enc!TokenLen(b, x) = TokenLen(b, x)
  BY DEF Enc!TokenLen, TokenLen
<1>5. ASSUME NEW v, NEW t PROVE Enc!ReferenceEncoding(v, t) = ReferenceEncoding(v, t)
  BY DEF Enc!ReferenceEncoding, ReferenceEncoding, Enc!JoinLowest, JoinLowest, Enc!FindTokenByBytes, FindTokenByBytes
<1>6. ASSUME NEW w, NEW t, NEW p, NEW e PROVE Enc!OccursAt(w, t, p, e) = OccursAt(w, t, p, e)
  BY DEF Enc!OccursAt, OccursAt
<1> QED BY <1>1, <1>2, <1>3, <1>4, <1>5, <1>6

LEMMA SameInMini ==
  /\ \A v, s, b, e : Mini!NextMatch(v, s, b, e) = NextMatch(v, s, b, e)
  /\ \A b, x, y : Mini!ValidPair(b, x, y) = ValidPair(b, x, y)
  /\ \A b, x : Mini!TokenLen(b, x) = TokenLen(b, x)
<1>1. ASSUME NEW v, NEW s, NEW b, NEW e PROVE Mini!NextMatch(v, s, b, e) = NextMatch(v, s, b, e)
  BY DEF Mini!NextMatch, NextMatch, Mini!OccursAt, OccursAt
<1>3. ASSUME NEW b, NEW x, NEW y PROVE Mini!ValidPair(b, x, y) = ValidPair(b, x, y)
  BY DEF Mini!ValidPair, ValidPair, Mini!IsValidTokenPair, IsValidTokenPair
<1>4. ASSUME NEW b, NEW x PROVE Mini!TokenLen(b, x) = TokenLen(b, x)
  BY DEF Mini!TokenLen, TokenLen
<1> QED BY <1>1, <1>3, <1>4

LEMMA SameMerges == ASSUME NEW v, NEW p PROVE Enc!Merges(v, p) = Merges(v, p)
<1> DEFINE primitive == [k \in DOMAIN v |-> k]
           none == [left |-> primitive, right |-> primitive, pairs |-> <<>>]
           N == Cardinality(DOMAIN v)
           F(f) == [n \in 0 .. N |-> IF n = 0 THEN none ELSE AddMerge(v, p, f[n - 1], n - 1)]
           G(f) == [n \in 0 .. N |-> IF n = 0 THEN none ELSE Enc!AddMerge(v, p, f[n - 1], n - 1)]
<1>1. \A m, k : Enc!AddMerge(v, p, m, k) = AddMerge(v, p, m, k)
  <2> SUFFICES ASSUME NEW m, NEW k PROVE Enc!AddMerge(v, p, m, k) = AddMerge(v, p, m, k)
    OBVIOUS
  <2> QED BY DEF Enc!AddMerge, AddMerge, Enc!FindTokenByBytes, FindTokenByBytes,
                 Enc!IsValidTokenPair, IsValidTokenPair
<1>2. \A f : F(f) = G(f)
  BY <1>1
<1>3. Enc!Cardinality(DOMAIN v) = N
  BY DEF Enc!Cardinality, Cardinality
<1>4. Merges(v, p) = (CHOOSE f : f = F(f))[N]
  BY DEF Merges
<1>5. Enc!Merges(v, p) = (CHOOSE f : f = G(f))[N]
  BY <1>3 DEF Enc!Merges
<1>6. (CHOOSE f : f = F(f)) = (CHOOSE f : f = G(f))
  <2> HIDE DEF F, G
  <2>1. \A f : f = F(f) <=> f = G(f)
    BY <1>2
  <2> QED BY <2>1, Zenon
<1> QED BY <1>4, <1>5, <1>6

LEMMA SameDictionary ==
  ASSUME NEW v
  PROVE  Enc!FromDictionary(v) = FromDictionary(v) /\ (Enc!Mergeable(v) <=> Mergeable(v))
<1>1. Enc!NextPrefixMatch(v) = NextPrefixMatch(v)
  BY DEF Enc!NextPrefixMatch, NextPrefixMatch, Enc!NextMatch, NextMatch, Enc!OccursAt, OccursAt
<1>2. Enc!FromDictionary(v) = FromDictionary(v)
  BY <1>1, SameMerges DEF Enc!FromDictionary, FromDictionary
<1>3. Enc!Mergeable(v) <=> Mergeable(v)
  BY <1>2 DEF Enc!Mergeable, Mergeable
<1> QED BY <1>2, <1>3

(* A sequence has its own elements. *)
LEMMA OwnElements == ASSUME NEW w, IsSeq(w) PROVE w \in Seq({w[k] : k \in 1 .. Len(w)})
<1> DEFINE l == Len(w)
           R == {w[k] : k \in 1 .. l}
<1>1. PICK S : w \in Seq(S)
  BY DEF IsSeq
<1>2. w \in [1 .. l -> S] /\ l \in Nat
  BY <1>1, LenProperties
<1>3. \A k \in 1 .. l : w[k] \in R
  OBVIOUS
<1> HIDE DEF R, l
<1>4. w \in [1 .. l -> R]
  BY <1>2, <1>3
<1>5. w \in Seq(R)
  BY <1>2, <1>4, SeqDef
<1> QED BY <1>5 DEF R, l

LEMMA PartFacts ==
  ASSUME NEW t, IsSeq(t), NEW s \in Nat, NEW n \in Nat, s + n <= Len(t)
  PROVE  /\ IsSeq(Part(t, s, n)) /\ Len(Part(t, s, n)) = n
         /\ \A k \in 1 .. n : Part(t, s, n)[k] = t[s + k]
BY SliceFacts DEF Part

(* What the text has in an interval. *)
LEMMA PartGiven ==
  ASSUME NEW t \in Texts, NEW s \in Nat, NEW n \in Nat, s + n <= Len(t),
         NEW w, w = Part(t, s, n)
  PROVE  /\ IsSeq(w) /\ Len(w) = n
         /\ \A k \in 1 .. n : w[k] = t[s + k]
         /\ w \in Windows
         /\ w \in Seq({w[k] : k \in 1 .. Len(w)})
         /\ \A vocab \in Vocabularies : Complete(vocab, w)
<1>1. IsSeq(t) /\ Len(t) \in Nat
  <2>1. t \in Seq({t[k] : k \in 1 .. Len(t)})
    BY TextsAssumption
  <2> QED BY <2>1 DEF IsSeq
<1>2. IsSeq(w) /\ Len(w) = n /\ \A k \in 1 .. n : w[k] = t[s + k]
  BY <1>1, PartFacts
<1>3. w \in Windows
  <2> DEFINE at(k) == {Part(t, k, j) : j \in 0 .. Len(t) - k}
             of    == {at(k) : k \in 0 .. Len(t)}
  <2>1. w \in at(s) /\ at(s) \in of
    BY <1>1
  <2> HIDE DEF at
  <2>2. w \in UNION of
    BY <2>1
  <2> QED BY <2>2 DEF Windows, at
<1>4. w \in Seq({w[k] : k \in 1 .. Len(w)})
  BY <1>2, OwnElements
<1>5. ASSUME NEW vocab \in Vocabularies PROVE Complete(vocab, w)
  <2>1. \A k \in 1 .. Len(t) : \E x \in DOMAIN vocab : vocab[x] = <<t[k]>>
    BY TextsAssumption DEF Complete
  <2>2. ASSUME NEW k \in 1 .. Len(w) PROVE \E x \in DOMAIN vocab : vocab[x] = <<w[k]>>
    <3> DEFINE j == s + k
    <3>1. j \in 1 .. Len(t) /\ k \in 1 .. n
      BY <1>1, <1>2
    <3>2. w[k] = t[j]
      BY <1>2, <3>1
    <3> HIDE DEF j
    <3> QED BY <2>1, <3>1, <3>2
  <2> QED BY <2>2 DEF Complete
<1> QED BY <1>2, <1>3, <1>4, <1>5

LEMMA WindowGiven ==
  ASSUME NEW w \in Windows
  PROVE  /\ w \in Seq({w[k] : k \in 1 .. Len(w)})
         /\ \A vocab \in Vocabularies : Complete(vocab, w)
<1>1. PICK t \in Texts : w \in UNION {{Part(t, s, n) : n \in 0 .. Len(t) - s} : s \in 0 .. Len(t)}
  BY DEF Windows
<1>2. PICK s \in 0 .. Len(t) : w \in {Part(t, s, n) : n \in 0 .. Len(t) - s}
  BY <1>1
<1>3. PICK n \in 0 .. Len(t) - s : w = Part(t, s, n)
  BY <1>2
<1>4. s \in Nat /\ n \in Nat /\ s + n <= Len(t)
  <2>1. t \in Seq({t[k] : k \in 1 .. Len(t)})
    BY TextsAssumption
  <2>2. Len(t) \in Nat
    BY <2>1
  <2> QED BY <2>2
<1> QED BY <1>3, <1>4, PartGiven

(* The assumptions of BacktrackEncoder hold of the intervals. *)
LEMMA EncAssumptions ==
  /\ Enc!Uint32MaxAssumption /\ Enc!ConstantsAssumption
  /\ Enc!VocabularyAssumption /\ Enc!MergeableAssumption
<1>1. Enc!Uint32MaxAssumption
  BY Uint32MaxAssumption DEF Enc!Uint32MaxAssumption
<1>2. Enc!ConstantsAssumption
  BY WordBitsAssumption DEF Enc!ConstantsAssumption
<1>3. Enc!VocabularyAssumption
  <2>1. ASSUME NEW vocab \in Vocabularies
        PROVE  /\ \E n \in 0 .. UINT32_MAX : DOMAIN vocab = 0 .. n - 1
               /\ \A k \in DOMAIN vocab :
                    /\ vocab[k] \in Seq({vocab[k][j] : j \in 1 .. Len(vocab[k])})
                    /\ Len(vocab[k]) > 0
                    /\ Enc!Complete(vocab, vocab[k])
               /\ \A w \in Windows : Enc!Complete(vocab, w)
    <3>1. \A b : Enc!Complete(vocab, b) = Complete(vocab, b)
      BY SameOperators
    <3>2. \E n \in 0 .. UINT32_MAX : DOMAIN vocab = 0 .. n - 1
      BY DictionaryAssumption
    <3>3. \A k \in DOMAIN vocab :
            /\ vocab[k] \in Seq({vocab[k][j] : j \in 1 .. Len(vocab[k])})
            /\ Len(vocab[k]) > 0
            /\ Complete(vocab, vocab[k])
      BY DictionaryAssumption
    <3>4. \A w \in Windows : Complete(vocab, w)
      BY WindowGiven
    <3> QED BY <3>1, <3>2, <3>3, <3>4
  <2>2. \A w \in Windows : w \in Seq({w[k] : k \in 1 .. Len(w)})
    BY WindowGiven
  <2> HIDE DEF Windows
  <2> QED BY <2>1, <2>2 DEF Enc!VocabularyAssumption
<1>4. Enc!MergeableAssumption
  <2>1. ASSUME NEW vocab \in Vocabularies PROVE Enc!Mergeable(vocab)
    BY SameDictionary, DictionaryAssumption
  <2> QED BY <2>1 DEF Enc!MergeableAssumption
<1> QED BY <1>1, <1>2, <1>3, <1>4

(* Between two counts the encoder is as new. *)
LEMMA EncIdle ==
  ASSUME BuiltInv, ~InCount
  PROVE  Enc!ExactInv
<1>1. bpe \in Enc!Dictionaries
  <2>1. bpe.vocab \in Vocabularies /\ bpe = FromDictionary(bpe.vocab)
    BY DEF BuiltInv, BuiltFrom
  <2>2. bpe = Enc!FromDictionary(bpe.vocab)
    BY <2>1, SameDictionary
  <2> QED BY <2>1, <2>2 DEF Enc!Dictionaries
<1>2. Enc!Init
  BY <1>1 DEF Enc!Init, Enc!NoToken
<1> QED BY <1>2, EncAssumptions, Enc!InitExact

(* Inside a count every step keeps what is known of it. *)
LEMMA EncStep ==
  ASSUME Enc!ExactInv, Enc!Next
  PROVE  Enc!ExactInv'
BY Enc!NextExact, EncAssumptions

(* the words of bf_init and those of bitfield_new *)
LEMMA SameWords ==
  ASSUME NEW n \in Nat
  PROVE  n \div WordBits + 1 = Enc!Words(n + 1)
<1> DEFINE q == n \div WordBits
           r == n % WordBits
<1>0. WordBits \in Nat \ {0}
  BY WordBitsAssumption
<1>1. q \in Nat /\ r \in 0 .. WordBits - 1 /\ n = WordBits * q + r
  BY <1>0
<1>2. n + 1 + WordBits - 1 = n + WordBits
  BY <1>0
<1>3. (n + WordBits) \div WordBits = q + 1
  <2> DEFINE m == n + WordBits
             x == m \div WordBits
  <2>1. m \in Nat /\ x \in Nat /\ m % WordBits \in 0 .. WordBits - 1 /\ m = WordBits * x + (m % WordBits)
    BY <1>0
  <2> QED BY <1>0, <1>1, <2>1, SMTT(60)
<1> QED BY <1>2, <1>3 DEF Enc!Words

(* interval_encoding_count starts its encoder on what the text has in the interval *)
LEMMA CallIsCall ==
  ASSUME NEW s, NEW e, NEW n \in Nat, n = e - s, Call(s, e), Len(text') = n
  PROVE  Enc!Call("encode", text', 0)
<1>1. pc = "ready" /\ pc' = "loop" /\ ~InCount /\ InCount'
  BY DEF Call, InCount
<1>2. next_token' = Enc!NextMatch(bpe.vocab, text', 0, Len(text'))
  BY SameOperators DEF Call
<1>3. nwords' = Enc!Words(Len(text') + 1)
  BY SameWords DEF Call
<1>4. bitfield' = Enc!NewBits(Len(text') + 1)
  BY <1>3 DEF Call, Enc!NewBits
<1>5. tokens' = <<>> /\ pos' = 0 /\ token' = UINT32_MAX /\ ends' = <<0>> /\ bpe' = bpe
  BY DEF Call, NoToken
<1> QED BY <1>1, <1>2, <1>3, <1>4, <1>5 DEF Enc!Call

(* mini_step is a step of the encoder *)
LEMMA MiniIsStep ==
  ASSUME MiniStep
  PROVE  Enc!Next
<1>1. CASE Mini!BeginStep
  <2>1. InCount /\ InCount' /\ pc = "loop" /\ pc' = "step"
    BY <1>1 DEF Mini!BeginStep, InCount
  <2>2. Enc!BeginStep
    BY <1>1, <2>1 DEF Mini!BeginStep, Enc!BeginStep, Enc!OverLimit, Enc!NoToken, Mini!NoToken
  <2> QED BY <2>2 DEF Enc!Next, Enc!Step
<1>2. CASE Mini!Accept
  <2>1. InCount /\ InCount' /\ pc = "step" /\ pc' = "loop"
    BY <1>2 DEF Mini!Accept, InCount
  <2>2. Enc!Acceptable
    BY <1>2, <2>1, SameOperators, SameInMini
       DEF Mini!Accept, Mini!Acceptable, Enc!Acceptable, Mini!EndPos, Enc!EndPos,
           Mini!Last, Enc!Last, Mini!NoToken, Enc!NoToken
  <2>3. Enc!Accept
    BY <1>2, <2>1, <2>2, SameOperators, SameInMini
       DEF Mini!Accept, Enc!Accept, Mini!EndPos, Enc!EndPos,
           Mini!NextToken, Enc!NextToken, Mini!NoToken, Enc!NoToken
  <2> QED BY <2>3 DEF Enc!Next, Enc!Step
<1>3. CASE Mini!TryShorter
  <2>1. InCount /\ InCount' /\ pc = "step" /\ pc' = "step"
    BY <1>3 DEF Mini!TryShorter, InCount
  <2>2. ~Enc!Acceptable
    BY <1>3, <2>1, SameOperators, SameInMini
       DEF Mini!TryShorter, Mini!Acceptable, Enc!Acceptable, Mini!EndPos, Enc!EndPos,
           Mini!Last, Enc!Last, Mini!NoToken, Enc!NoToken
  <2>3. Enc!TryShorter
    BY <1>3, <2>1, <2>2 DEF Mini!TryShorter, Enc!TryShorter, Mini!NoToken, Enc!NoToken
  <2> QED BY <2>3 DEF Enc!Next, Enc!Step
<1>4. CASE Mini!Backtrack
  <2>1. InCount /\ InCount' /\ pc = "step" /\ pc' = "loop"
    BY <1>4 DEF Mini!Backtrack, InCount
  <2>2. ~Enc!Acceptable
    BY <1>4, <2>1, SameOperators, SameInMini
       DEF Mini!Backtrack, Mini!Acceptable, Enc!Acceptable, Mini!EndPos, Enc!EndPos,
           Mini!Last, Enc!Last, Mini!NoToken, Enc!NoToken
  <2>3. Enc!Backtrack
    BY <1>4, <2>1, <2>2, SameOperators, SameInMini
       DEF Mini!Backtrack, Enc!Backtrack, Mini!Retired, Enc!Retired, Mini!Retreat, Enc!Retreat,
           Mini!Last, Enc!Last, Mini!Pop, Enc!Pop, Mini!NoToken, Enc!NoToken
  <2> QED BY <2>3 DEF Enc!Next, Enc!Step
<1> QED BY <1>1, <1>2, <1>3, <1>4 DEF MiniStep

(* the text of the interval *)
Interval == Part(ie.text, start, end - start)

(***************************************************************************)
(* The tree is finished before the first count.  In a count the encoder    *)
(* works on the interval, and what is known of BacktrackEncoder holds of   *)
(* it; afterwards the result is the length of the interval's encoding.     *)
(***************************************************************************)
CountInv ==
  /\ TreeInv
  /\ pc \in {"new", "size", "place"} => start = 0 /\ end = 0 /\ result = 0
  /\ pc \in {"ready", "loop", "step"} =>
       /\ id > Len(ie.text)
       /\ start \in Nat /\ end \in Nat /\ start <= end /\ end <= Len(ie.text)
  /\ InCount => text = Interval /\ Enc!ExactInv
  /\ pc = "ready" => result = Len(ReferenceEncoding(bpe.vocab, Interval))

(* a count begins *)
LEMMA CallKeeps ==
  ASSUME CountInv, NEW s \in 0 .. Len(ie.text), NEW e \in 0 .. Len(ie.text), s <= e, Call(s, e)
  PROVE  CountInv'
<1> DEFINE t == ie.text
           n == e - s
           w == Part(t, s, n)
<1>1. TreeInv /\ BuiltInv /\ t \in Texts /\ pc = "ready" /\ ~InCount
  BY DEF CountInv, TreeInv, TreeFields, Call, InCount
<1>2. Len(t) \in Nat
  BY <1>1, TextFacts DEF BuiltInv
<1>3. n \in Nat /\ s \in Nat /\ e \in Nat /\ s + n = e /\ s + n <= Len(t)
  BY <1>2
<1>4. w \in Windows /\ Len(w) = n
  <2>1. w = Part(t, s, n)
    OBVIOUS
  <2> HIDE DEF n, w, t
  <2> QED BY <1>1, <1>3, <2>1, PartGiven
<1>5. text' = w
  BY <1>3 DEF Call, Slice, Part
<1>6. Enc!Call("encode", text', 0)
  <2>1. n = e - s /\ Len(text') = n
    BY <1>4, <1>5
  <2> HIDE DEF n, w
  <2> QED BY <1>3, <2>1, CallIsCall
<1>7. Enc!Next
  <2> HIDE DEF w
  <2> QED BY <1>4, <1>5, <1>6 DEF Enc!Next
<1>8. Enc!ExactInv'
  BY <1>1, <1>7, EncIdle, EncStep
<1>9. pc' = "loop" /\ ie' = ie /\ id' = id /\ start' = s /\ end' = e
  BY DEF Call
<1>10. TreeInv'
  BY <1>1, CountKeeps
<1>11. id > Len(t)
  BY <1>1 DEF CountInv
<1> HIDE DEF Part
<1> QED BY <1>3, <1>5, <1>8, <1>9, <1>10, <1>11 DEF CountInv, Interval, InCount

(* its encoder takes a step *)
LEMMA MiniKeeps == ASSUME CountInv, MiniStep PROVE CountInv'
<1>1. /\ ie' = ie /\ id' = id /\ start' = start /\ end' = end /\ result' = result /\ text' = text
      /\ pc \in {"loop", "step"} /\ pc' \in {"loop", "step"}
  BY DEF MiniStep, Mini!BeginStep, Mini!Accept, Mini!TryShorter, Mini!Backtrack
<1>2. Enc!ExactInv'
  BY <1>1, MiniIsStep, EncStep DEF CountInv, InCount
<1>3. TreeInv'
  BY CountKeeps DEF CountInv
<1>4. Interval' = Interval
  BY <1>1 DEF Interval
<1> QED BY <1>1, <1>2, <1>3, <1>4 DEF CountInv, InCount

(* how long it is *)
LEMMA IntervalLen == ASSUME CountInv, InCount PROVE Len(text) = end - start
<1> DEFINE t == ie.text
           m == end - start
<1>1. /\ text = Interval /\ TreeInv /\ start \in Nat /\ end \in Nat
      /\ start <= end /\ end <= Len(t) /\ pc # "new"
  BY DEF CountInv, InCount
<1>2. IsSeq(t) /\ Len(t) \in Nat
  <2>1. bpe.vocab \in Vocabularies /\ t \in Texts
    BY <1>1 DEF TreeInv, BuiltInv, TreeFields
  <2> QED BY <2>1, TextFacts
<1>3. text = Part(t, start, m) /\ m \in Nat /\ start + m <= Len(t)
  BY <1>1, <1>2 DEF Interval
<1> HIDE DEF m, t
<1>4. Len(Part(t, start, m)) = m
  BY <1>1, <1>2, <1>3, PartFacts
<1> QED BY <1>3, <1>4 DEF m

(* What is known of the encoder when it has met the path. *)
LEMMA PathMet ==
  ASSUME CountInv, pc = "loop", Met
  PROVE  /\ pos \in Nat /\ tokens = ReferenceEncoding(bpe.vocab, SubSeq(text, 1, pos))
         /\ EndAbs \in Nat /\ start < EndAbs /\ EndAbs \in 0 .. Len(ie.text)
         /\ EndAbs \in PathsIn(bpe.vocab, ie.text)[end]
         /\ LastOf(bpe.vocab, SubSeq(text, 1, pos)) = LastOf(bpe.vocab, SubSeq(ie.text, 1, EndAbs))
<1> DEFINE vocab == bpe.vocab
           t     == ie.text
           n     == Len(t)
           par   == ParentsIn(vocab, t)
           path  == PathsIn(vocab, t)
           num   == ie.tree_id
           top   == ie.tree_end
<1>1. /\ InCount /\ Enc!Inv /\ Enc!DictionaryBuilt /\ TreeInv
      /\ start \in Nat /\ end \in Nat /\ start <= end /\ end <= n /\ id > n
      /\ text = Interval
  BY DEF CountInv, InCount, Enc!ExactInv
<1>2. /\ vocab \in Vocabularies /\ t \in Texts
      /\ id \in 1 .. n + 1 /\ Numbered(n, par, path, num, top, id)
  BY <1>1 DEF TreeInv, BuiltInv, TreeFields, PlacedUpTo
<1>3. Usable(vocab) /\ n \in Nat /\ IsTree(n, par, path)
  BY <1>2, TextFacts
<1>4. id = n + 1
  BY <1>1, <1>2, <1>3
<1>5. pos \in 0 .. Len(text) /\ tokens = ReferenceEncoding(vocab, SubSeq(text, 1, pos))
  <2>1. /\ pos \in 0 .. Len(text)
        /\ tokens = Enc!ReferenceEncoding(vocab, SubSeq(text, 1, pos))
    BY <1>1, EncAssumptions, Enc!StateUsable DEF InCount
  <2> QED BY <2>1, SameOperators
<1>6. Len(text) = end - start
  BY <1>1, IntervalLen DEF InCount
<1>7. pos # 0
  <2> SUFFICES ASSUME pos = 0 PROVE FALSE
    OBVIOUS
  <2>1. SubSeq(text, 1, 0) = <<>>
    OBVIOUS
  <2>2. tokens = <<>>
    BY <1>3, <1>5, <2>1, EmptyReference
  <2> QED BY <2>2 DEF Met
<1>8. EndAbs \in 0 .. n /\ EndAbs # 0 /\ start < EndAbs
  BY <1>1, <1>3, <1>5, <1>6, <1>7 DEF EndAbs
<1>9. EndAbs \in path[end]
  <2> DEFINE p == EndAbs
  <2>1. num[p] <= num[end] /\ num[end] < top[p]
    BY DEF Met
  <2>2. p \in 0 .. n /\ end \in 0 .. n
    BY <1>1, <1>3, <1>8
  <2> HIDE DEF p, n, par, path, num, top
  <2>3. \A x, y \in 0 .. n : x \in path[y] <=> num[x] <= num[y] /\ num[y] < top[x]
    BY <1>2, <1>3, <1>4, AllNumbered
  <2>4. p \in path[end]
    BY <2>1, <2>2, <2>3
  <2> QED BY <2>4 DEF p
<1>10. ie.last_token[EndAbs] = LastOf(vocab, SubSeq(t, 1, EndAbs))
  <2> DEFINE a    == ie.tree_id
             b    == ie.tree_end
             c    == ie.tree_depth
             last == [k \in 1 .. Len(t) |-> LastOf(vocab, SubSeq(t, 1, k))]
             p    == EndAbs
  <2>1. ie.last_token = last
    <3>1. ie = [text |-> t, last_token |-> last, tree_id |-> a, tree_end |-> b, tree_depth |-> c]
      BY <1>1 DEF TreeFields, TreeInv, CountInv, InCount
    <3> HIDE DEF a, b, c, last, t
    <3> QED BY <3>1
  <2>2. p \in 1 .. Len(t)
    BY <1>3, <1>8
  <2> HIDE DEF p
  <2>3. last[p] = LastOf(vocab, SubSeq(t, 1, p))
    BY <2>2
  <2> HIDE DEF last
  <2> QED BY <2>1, <2>3 DEF p
<1>11. LastOf(vocab, SubSeq(text, 1, pos)) = tokens[Len(tokens)]
  BY <1>5 DEF LastOf
<1>12. ie.last_token[EndAbs] = tokens[Len(tokens)]
  BY DEF Met
<1> QED BY <1>5, <1>8, <1>9, <1>10, <1>11, <1>12

(* The count that the depths of the tree give is that of the interval. *)
LEMMA EarlyExitKeeps == ASSUME CountInv, EarlyExit PROVE CountInv'
<1> DEFINE vocab == bpe.vocab
           t     == ie.text
           p     == EndAbs
<1>1. pc = "loop" /\ Met /\ InCount
  BY DEF EarlyExit, InCount
<1>2. /\ pos \in Nat /\ tokens = ReferenceEncoding(vocab, SubSeq(text, 1, pos))
      /\ p \in Nat /\ start < p /\ p \in 0 .. Len(t) /\ p \in PathsIn(vocab, t)[end]
      /\ LastOf(vocab, SubSeq(text, 1, pos)) = LastOf(vocab, SubSeq(t, 1, p))
  BY <1>1, PathMet
<1>3. /\ start \in Nat /\ end \in Nat /\ start <= end /\ end <= Len(t) /\ id > Len(t)
      /\ text = Interval /\ TreeInv
  BY <1>1 DEF CountInv
<1>4. /\ vocab \in Vocabularies /\ t \in Texts /\ id \in 1 .. Len(t) + 1
      /\ \A q \in 0 .. id - 1 : ie.tree_depth[q] = CountTo(vocab, t, q)
  BY <1>1, <1>3 DEF TreeInv, BuiltInv, TreeFields, PlacedUpTo, InCount
<1>5. Len(t) \in Nat /\ Usable(vocab) /\ IsSeq(t)
  BY <1>4, TextFacts
<1>6. pos = p - start
  BY <1>2, <1>3 DEF EndAbs
<1>7. WindowOf(text, t, start, end) /\ Complete(vocab, text) /\ IsSeq(text)
  <2> DEFINE m == end - start
  <2>1. text = Part(t, start, m) /\ m \in Nat /\ start + m <= Len(t)
    BY <1>3, <1>5 DEF Interval
  <2>2. IsSeq(t) /\ t \in Texts /\ start \in Nat
    BY <1>3, <1>4, <1>5
  <2> HIDE DEF m, t, p, vocab
  <2>3. /\ IsSeq(Part(t, start, m)) /\ Len(Part(t, start, m)) = m
        /\ \A k \in 1 .. m : Part(t, start, m)[k] = t[start + k]
    BY <2>1, <2>2, PartFacts
  <2>4. \A voc \in Vocabularies : Complete(voc, text)
    BY <2>1, <2>2, PartGiven
  <2>5. IsSeq(text) /\ Len(text) = m /\ \A k \in 1 .. m : text[k] = t[start + k]
    BY <2>1, <2>3
  <2> QED BY <1>4, <2>4, <2>5 DEF WindowOf, m
<1>8. /\ ie.tree_depth[p] = CountTo(vocab, t, p)
      /\ ie.tree_depth[end] = CountTo(vocab, t, end)
  BY <1>2, <1>3, <1>4, <1>5
<1>9. Len(ReferenceEncoding(vocab, text)) + CountTo(vocab, t, p) = Len(tokens) + CountTo(vocab, t, end)
  <2>1. /\ vocab \in Vocabularies /\ t \in Texts /\ start \in Nat /\ end \in Nat
        /\ start <= end /\ end <= Len(t)
        /\ p \in Nat /\ start < p /\ p \in PathsIn(vocab, t)[end]
        /\ LastOf(vocab, SubSeq(text, 1, pos)) = LastOf(vocab, SubSeq(t, 1, p))
    BY <1>2, <1>3, <1>4
  <2> HIDE DEF p, t, vocab
  <2>2. Len(ReferenceEncoding(vocab, text)) + CountTo(vocab, t, p) =
          Len(ReferenceEncoding(vocab, SubSeq(text, 1, pos))) + CountTo(vocab, t, end)
    BY <1>6, <1>7, <2>1, WindowAgrees
  <2> QED BY <1>2, <2>2
<1>10. /\ CountTo(vocab, t, p) \in Nat /\ CountTo(vocab, t, end) \in Nat
       /\ Len(ReferenceEncoding(vocab, text)) \in Nat /\ Len(tokens) \in Nat
  <2>1. ASSUME NEW q \in 0 .. Len(t) PROVE CountTo(vocab, t, q) \in Nat
    <3>1. IsSeq(SubSeq(t, 1, q)) /\ Complete(vocab, SubSeq(t, 1, q))
      BY <1>4, <1>5, TextFacts, PrefixFacts, CompletePrefix
    <3>2. IsSeq(ReferenceEncoding(vocab, SubSeq(t, 1, q)))
      BY <1>5, <3>1, ReferenceIsValid
    <3> QED BY <3>2, SeqFacts DEF CountTo
  <2>2. IsSeq(ReferenceEncoding(vocab, text))
    BY <1>5, <1>7, ReferenceIsValid
  <2>3. pos \in 0 .. Len(text)
    BY <1>1, EncAssumptions, Enc!StateUsable DEF InCount, CountInv, Enc!ExactInv
  <2>4. IsSeq(SubSeq(text, 1, pos)) /\ Complete(vocab, SubSeq(text, 1, pos))
    BY <1>5, <1>7, <2>3, PrefixFacts, CompletePrefix
  <2>5. IsSeq(tokens)
    BY <1>2, <1>5, <2>4, ReferenceIsValid
  <2> QED BY <1>2, <1>3, <1>5, <2>1, <2>2, <2>5, SeqFacts
<1>11. result' = Len(ReferenceEncoding(vocab, text))
  <2>1. result' = Len(tokens) + (ie.tree_depth[end] - ie.tree_depth[p])
    BY DEF EarlyExit
  <2> HIDE DEF p, t, vocab
  <2> QED BY <1>8, <1>9, <1>10, <2>1
<1>12. /\ pc' = "ready" /\ ie' = ie /\ id' = id /\ start' = start /\ end' = end /\ bpe' = bpe
  BY DEF EarlyExit
<1>13. TreeInv'
  BY <1>3, CountKeeps
<1>14. Interval' = text
  BY <1>3, <1>12 DEF Interval
<1> QED BY <1>3, <1>11, <1>12, <1>13, <1>14 DEF CountInv, InCount

(* The encoder has come to the end of the interval. *)
LEMMA ReturnKeeps == ASSUME CountInv, Return PROVE CountInv'
<1> DEFINE vocab == bpe.vocab
<1>1. /\ pc = "loop" /\ InCount /\ next_token = UINT32_MAX /\ TreeInv /\ Enc!ExactInv
      /\ text = Interval /\ id > Len(ie.text)
      /\ start \in Nat /\ end \in Nat /\ start <= end /\ end <= Len(ie.text)
  BY DEF CountInv, Return, InCount, NoToken
<1>2. /\ pos = Len(text) /\ IsSeq(text)
      /\ tokens = ReferenceEncoding(vocab, SubSeq(text, 1, pos))
  <2>1. Enc!Tried /\ Enc!Inv /\ Enc!DictionaryBuilt
    BY <1>1 DEF Enc!ExactInv
  <2>2. pos = Len(text)
    BY <1>1, <2>1 DEF Enc!Tried, Enc!EndReached, Enc!NoToken
  <2>3. /\ Enc!IsSeq(text)
        /\ tokens = Enc!ReferenceEncoding(vocab, SubSeq(text, 1, pos))
    BY <1>1, <2>1, EncAssumptions, Enc!StateUsable
  <2> QED BY <2>2, <2>3, SameOperators DEF IsSeq, Enc!IsSeq
<1>3. tokens = ReferenceEncoding(vocab, text)
  BY <1>2, WholeSeq
<1>4. /\ pc' = "ready" /\ result' = Len(tokens) /\ ie' = ie /\ id' = id
      /\ start' = start /\ end' = end /\ bpe' = bpe
  BY DEF Return
<1>5. TreeInv'
  BY <1>1, CountKeeps
<1>6. Interval' = text
  BY <1>1, <1>4 DEF Interval
<1> QED BY <1>1, <1>3, <1>4, <1>5, <1>6 DEF CountInv, InCount

(* the tree of a text is built *)
LEMMA BuildKeeps ==
  ASSUME CountInv, (\E t \in Texts : New(t)) \/ SizeUp \/ StartPlacing \/ Place
  PROVE  CountInv'
<1>1. /\ pc \in {"new", "size", "place"} /\ pc' \in {"size", "place"}
      /\ start' = start /\ end' = end /\ result' = result
  BY DEF New, SizeUp, StartPlacing, Place
<1>2. TreeInv'
  BY TreeStep DEF CountInv, Next
<1> QED BY <1>1, <1>2 DEF CountInv, InCount

(* Nothing is counted yet. *)
LEMMA ReadyKeeps == ASSUME CountInv, Ready PROVE CountInv'
<1>1. /\ pc = "place" /\ pc' = "ready" /\ id > Len(ie.text) /\ ie' = ie /\ id' = id /\ bpe' = bpe
      /\ start' = 0 /\ end' = 0 /\ result' = 0 /\ TreeInv
  BY DEF Ready, CountInv
<1>2. TreeInv'
  BY <1>1, CountKeeps
<1>3. Usable(bpe.vocab) /\ Len(ie.text) \in Nat
  <2>1. bpe.vocab \in Vocabularies /\ ie.text \in Texts
    BY <1>1 DEF TreeInv, BuiltInv, TreeFields
  <2> QED BY <2>1, TextFacts
<1>4. Interval' = <<>>
  <2>1. Interval' = SubSeq(ie.text, 1, 0)
    BY <1>1 DEF Interval, Part
  <2> QED BY <2>1
<1>5. ReferenceEncoding(bpe.vocab, <<>>) = <<>>
  BY <1>3, EmptyReference
<1>6. result' = Len(ReferenceEncoding(bpe'.vocab, Interval'))
  BY <1>1, <1>4, <1>5
<1> QED BY <1>1, <1>2, <1>3, <1>6 DEF CountInv, InCount

LEMMA CountStutter == ASSUME CountInv, UNCHANGED vars PROVE CountInv'
<1>1. /\ bpe' = bpe /\ pc' = pc /\ ie' = ie /\ id' = id /\ start' = start /\ end' = end
      /\ result' = result /\ mini' = mini
  BY DEF vars
<1>2. /\ text' = text /\ tokens' = tokens /\ pos' = pos /\ next_token' = next_token
      /\ token' = token /\ bitfield' = bitfield /\ nwords' = nwords /\ ends' = ends
  BY <1>1 DEF mini
<1>3. UNCHANGED Enc!vars
  BY <1>1, <1>2 DEF Enc!vars, InCount
<1>4. InCount => Enc!ExactInv'
  BY <1>3, EncAssumptions, Enc!NextExact DEF CountInv
<1>5. TreeInv'
  BY TreeStep DEF CountInv
<1>6. Interval' = Interval
  BY <1>1 DEF Interval
<1> QED BY <1>1, <1>2, <1>4, <1>5, <1>6 DEF CountInv, InCount

LEMMA CountStep == CountInv /\ [Next]_vars => CountInv'
<1> SUFFICES ASSUME CountInv, [Next]_vars PROVE CountInv'
  OBVIOUS
<1>1. CASE (\E t \in Texts : New(t)) \/ SizeUp \/ StartPlacing \/ Place
  BY <1>1, BuildKeeps
<1>2. CASE Ready
  BY <1>2, ReadyKeeps
<1>3. CASE \E s, e \in 0 .. Len(ie.text) : s <= e /\ Call(s, e)
  BY <1>3, CallKeeps
<1>4. CASE EarlyExit
  BY <1>4, EarlyExitKeeps
<1>5. CASE MiniStep
  BY <1>5, MiniKeeps
<1>6. CASE Return
  BY <1>6, ReturnKeeps
<1>7. CASE UNCHANGED vars
  BY <1>7, CountStutter
<1> QED BY <1>1, <1>2, <1>3, <1>4, <1>5, <1>6, <1>7 DEF Next

LEMMA CountInit == AllInit /\ TreeInv => CountInv
BY DEF AllInit, Init, CountInv, InCount

(***************************************************************************)
(* The encoder of a count is an encoder of BacktrackEncoder on the text of *)
(* the interval, until it returns or meets the path of the interval's end. *)
(***************************************************************************)
THEOREM CountInvariance == AllSpec => []CountInv
<1>1. AllSpec => TreeInv
  BY TreeInvariance, PTL
<1>2. AllSpec => AllInit
  BY DEF AllSpec
<1> QED BY <1>1, <1>2, CountInit, CountStep, OnlyInterval, PTL DEF AllSpec

(* The next token of the encoder ends in the interval. *)
LEMMA NextEndsInside ==
  ASSUME CountInv, pc = "loop", next_token # NoToken
  PROVE  NextEnd <= end
<1> DEFINE len == Len(bpe.vocab[next_token])
<1>1. InCount /\ Enc!Inv /\ Enc!DictionaryBuilt /\ start \in Nat /\ end \in Nat
  BY DEF CountInv, InCount, Enc!ExactInv
<1>2. Len(text) = end - start
  BY <1>1, IntervalLen
<1>3. pos \in 0 .. Len(text) /\ Usable(bpe.vocab)
  <2>1. bpe.vocab \in Vocabularies
    BY DEF CountInv, TreeInv, BuiltInv
  <2>2. pos \in 0 .. Len(text)
    BY <1>1, EncAssumptions, Enc!StateUsable
  <2>3. \A k \in Vocabularies : Usable(k)
    <3> SUFFICES ASSUME NEW k \in Vocabularies PROVE Usable(k)
      OBVIOUS
    <3> QED BY VocabularyUsable
  <2> QED BY <2>1, <2>2, <2>3
<1>4. next_token \in DOMAIN bpe.vocab
  BY <1>1 DEF Enc!Inv, Enc!TypeOK, Enc!NoToken, NoToken
<1>5. Enc!OccursAt(bpe.vocab[next_token], text, pos, Len(text))
  BY <1>1 DEF Enc!Inv, Enc!CandidateFits, Enc!NoToken, NoToken, InCount
<1>6. pos + len <= Len(text)
  BY <1>5 DEF Enc!OccursAt
<1>7. len \in Nat
  BY <1>3, <1>4, UsableFacts
<1>8. NextEnd = pos + start + len
  BY DEF NextEnd, EndAbs, TokenLen
<1> HIDE DEF len
<1> QED BY <1>1, <1>2, <1>3, <1>6, <1>7, <1>8

(***************************************************************************)
(* A count is the number of tokens of the interval's own encoding, also    *)
(* when it was taken from the depths of the tree of the whole text, and    *)
(* the two breaks that guard the arrays of the tree are never taken.       *)
(***************************************************************************)
THEOREM IntervalCountsAlwaysExact == AllSpec => []CountExact
<1>1. CountInv => CountExact
  <2> SUFFICES ASSUME CountInv PROVE CountExact
    OBVIOUS
  <2>1. pc = "loop" /\ next_token # NoToken => NextEnd <= end
    BY NextEndsInside
  <2>2. pc = "ready" => result = Len(ReferenceEncoding(bpe.vocab, SubSeq(ie.text, start + 1, end)))
    <3> SUFFICES ASSUME pc = "ready"
                 PROVE  result = Len(ReferenceEncoding(bpe.vocab, SubSeq(ie.text, start + 1, end)))
      OBVIOUS
    <3>1. start + (end - start) = end
      BY DEF CountInv
    <3>2. Interval = SubSeq(ie.text, start + 1, end)
      BY <3>1 DEF Interval, Part
    <3> QED BY <3>2 DEF CountInv
  <2> QED BY <2>1, <2>2 DEF CountExact
<1> QED BY <1>1, CountInvariance, PTL
=============================================================================
