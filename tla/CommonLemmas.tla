---------------------------- MODULE CommonLemmas ----------------------------
(***************************************************************************)
(* Facts that several proofs need: least and largest numbers, induction    *)
(* over a set, functions defined by recursion, places on a ring, what      *)
(* bpe_next_match finds; and the theory of the reference encoding, from    *)
(* which every exactness theorem follows:                                  *)
(*   - the stages of a text that is joined pair by pair (JoinStages): the  *)
(*     stages of a region do not depend on what is around it as long as    *)
(*     its boundaries stand (Projection);                                  *)
(*   - bpe_is_valid_token_pair says whether a join of lower rank breaks    *)
(*     the boundary between two tokens (BrokenSmaller, StandsSmaller), and *)
(*     bpe_from_dictionary finds all merges (DictionaryFinished);          *)
(*   - so a text has one cutting into valid neighbours, its reference      *)
(*     encoding (ValidIsReference, ReferenceIsValid), and one token that   *)
(*     may follow, OneMayEnd and OneMayBegin;                              *)
(*   - the automaton's state and outputs (OutputsAreEnds).                 *)
(***************************************************************************)
EXTENDS JoinStages, Automaton, FiniteSetTheorems, NaturalsInduction, WellFoundedInduction,
        SequenceTheorems, TLAPS

(* The least element of a set of natural numbers. *)
LEMMA LeastExists ==
  ASSUME NEW S \in SUBSET Nat, S # {}
  PROVE  \E n \in S : \A m \in S : n <= m
<1>1. PICK n \in S : \A m \in S : ~(<<m, n>> \in OpToRel(<, Nat))
  BY NatLessThanWellFounded, WFMin, Zenon
<1>2. ASSUME NEW m \in S PROVE n <= m
  <2>1. ~(m < n)
    BY <1>1 DEF OpToRel
  <2> QED BY <2>1
<1> QED BY <1>2

(***************************************************************************)
(* A nonempty set of numbers bounded by n has a largest element.           *)
(***************************************************************************)
LEMMA LargestExists ==
  ASSUME NEW n \in Nat, NEW S, S \subseteq 0 .. n, S # {}
  PROVE  \E x \in S : \A y \in S : y <= x
<1> DEFINE D == {n - x : x \in S}
<1>1. D \subseteq Nat /\ D # {}
  <2>1. PICK x \in S : TRUE
    OBVIOUS
  <2>2. n - x \in D
    BY <2>1
  <2>3. \A x1 \in S : n - x1 \in Nat
    OBVIOUS
  <2> QED BY <2>2, <2>3
<1>2. PICK d \in D : \A e \in D : ~(<<e, d>> \in OpToRel(<, Nat))
  <2> HIDE DEF D
  <2> QED BY <1>1, NatLessThanWellFounded, WFMin
<1>3. PICK x \in S : d = n - x
  OBVIOUS
<1>4. ASSUME NEW y \in S PROVE y <= x
  <2>1. n - y \in D
    OBVIOUS
  <2>2. ~(n - y < n - x)
    BY <1>1, <1>2, <1>3, <2>1 DEF OpToRel
  <2> QED BY <2>2
<1> QED BY <1>4

(* Induction, with the induction hypothesis as a set. *)
LEMMA SetInduction ==
  ASSUME NEW S, 0 \in S, \A n \in Nat : n \in S => n + 1 \in S
  PROVE  \A n \in Nat : n \in S
<1> SUFFICES ASSUME NEW k \in Nat, k \notin S PROVE FALSE
  OBVIOUS
<1>1. PICK n \in {m \in Nat : m \notin S} : \A m \in {l \in Nat : l \notin S} : n <= m
  BY LeastExists
<1>2. n # 0 /\ n - 1 \in Nat
  BY <1>1
<1>3. n - 1 \in S
  BY <1>1, <1>2
<1> QED BY <1>1, <1>2, <1>3

(***************************************************************************)
(* Recursion: a first value and a step make a function.  (A function that  *)
(* a module defines by recursion is CHOOSE f : f = [n \in ... |-> ...];    *)
(* this shows that there is one.)                                          *)
(***************************************************************************)
StepsIn(step, N, S) == \A n \in 1 .. N, x \in S : step[<<n, x>>] \in S

Recursion(f, first, step, N, S) ==
  /\ f \in [0 .. N -> S]
  /\ f[0] = first
  /\ \A n \in 1 .. N : f[n] = step[<<n, f[n - 1]>>]

LEMMA RecursionExists ==
  ASSUME NEW N \in Nat, NEW S, NEW first \in S, NEW step, StepsIn(step, N, S)
  PROVE  \E f : Recursion(f, first, step, N, S)
<1> DEFINE Upto(m) == {f \in [0 .. m -> S] :
                         f[0] = first /\ \A n \in 1 .. m : f[n] = step[<<n, f[n - 1]>>]}
           Done == {m \in Nat : m <= N => Upto(m) # {}}
<1>1. 0 \in Done
  <2>1. [n \in 0 .. 0 |-> first] \in Upto(0)
    OBVIOUS
  <2> QED BY <2>1
<1>2. ASSUME NEW m \in Nat, m \in Done PROVE m + 1 \in Done
  <2> SUFFICES ASSUME m + 1 <= N PROVE Upto(m + 1) # {}
    <3> HIDE DEF Upto
    <3> QED OBVIOUS
  <2>1. PICK f : f \in Upto(m)
    BY <1>2
  <2> DEFINE g == [n \in 0 .. m + 1 |-> IF n = m + 1 THEN step[<<m + 1, f[m]>>] ELSE f[n]]
  <2>2. step[<<m + 1, f[m]>>] \in S
    <3>1. m + 1 \in 1 .. N /\ f[m] \in S
      BY <2>1
    <3> QED BY <3>1 DEF StepsIn
  <2>3. g \in [0 .. m + 1 -> S] /\ g[0] = first
    BY <2>1, <2>2
  <2>4. ASSUME NEW n \in 1 .. m + 1 PROVE g[n] = step[<<n, g[n - 1]>>]
    <3>1. CASE n = m + 1
      <4>1. g[n] = step[<<m + 1, f[m]>>] /\ g[n - 1] = f[m]
        BY <3>1
      <4> QED BY <3>1, <4>1
    <3>2. CASE n \in 1 .. m
      <4>1. g[n] = f[n] /\ g[n - 1] = f[n - 1]
        BY <3>2
      <4>2. f[n] = step[<<n, f[n - 1]>>]
        BY <2>1, <3>2
      <4> QED BY <4>1, <4>2
    <3> QED BY <3>1, <3>2
  <2>5. g \in Upto(m + 1)
    BY <2>3, <2>4
  <2> QED BY <2>5
<1>3. N \in Done
  <2> HIDE DEF Done
  <2> QED BY <1>1, <1>2, SetInduction
<1> QED BY <1>3 DEF Recursion

-----------------------------------------------------------------------------
(* Places on a ring of N slots, counted from any hash.                     *)

LEMMA RingPlace ==
  ASSUME NEW N \in Nat \ {0}, NEW h \in Nat
  PROVE  /\ h % N \in 0 .. N - 1
         /\ \A d \in 0 .. N - 1 :
              (h + d) % N = IF (h % N) + d < N THEN (h % N) + d ELSE (h % N) + d - N
<1> DEFINE q == h \div N
           r == h % N
<1>1. q \in Nat /\ r \in 0 .. N - 1 /\ h = q * N + r
  OBVIOUS
<1> HIDE DEF q, r
<1>2. \A p \in Nat, s \in 0 .. N - 1 : (p * N + s) % N = s
  OBVIOUS
<1>3. ASSUME NEW d \in 0 .. N - 1
      PROVE  (h + d) % N = IF r + d < N THEN r + d ELSE r + d - N
  <2>1. CASE r + d < N
    <3>1. h + d = q * N + (r + d) /\ r + d \in 0 .. N - 1
      BY <1>1, <2>1
    <3> QED BY <1>1, <1>2, <2>1, <3>1
  <2>2. CASE ~(r + d < N)
    <3>1. h + d = (q + 1) * N + (r + d - N) /\ r + d - N \in 0 .. N - 1 /\ q + 1 \in Nat
      BY <1>1, <2>2
    <3>2. ((q + 1) * N + (r + d - N)) % N = r + d - N
      BY <1>2, <3>1
    <3> QED BY <2>2, <3>1, <3>2
  <2> QED BY <2>1, <2>2
<1> QED BY <1>1, <1>3 DEF r

(* Every place is met once on the way round from the home slot. *)
LEMMA RingOnce ==
  ASSUME NEW N \in Nat \ {0}, NEW h \in Nat
  PROVE  /\ \A d \in 0 .. N - 1 : (h + d) % N \in 0 .. N - 1
         /\ \A d, e \in 0 .. N - 1 : (h + d) % N = (h + e) % N => d = e
         /\ \A i \in 0 .. N - 1 : \E d \in 0 .. N - 1 : (h + d) % N = i
<1> DEFINE r == h % N
           At(d) == (h + d) % N
<1>1. r \in 0 .. N - 1
  BY RingPlace
<1>2. \A d \in 0 .. N - 1 : At(d) = IF r + d < N THEN r + d ELSE r + d - N
  BY RingPlace
<1> HIDE DEF r, At
<1>3. ASSUME NEW i \in 0 .. N - 1 PROVE \E d \in 0 .. N - 1 : At(d) = i
  <2>1. CASE i >= r
    <3>1. i - r \in 0 .. N - 1 /\ r + (i - r) = i
      BY <1>1, <2>1
    <3> QED BY <1>2, <3>1
  <2>2. CASE ~(i >= r)
    <3>1. i + N - r \in 0 .. N - 1 /\ r + (i + N - r) - N = i /\ ~(r + (i + N - r) < N)
      BY <1>1, <2>2
    <3> QED BY <1>2, <3>1
  <2> QED BY <1>1, <2>1, <2>2
<1>4. \A d, e \in 0 .. N - 1 : At(d) = At(e) => d = e
  BY <1>1, <1>2
<1>5. \A d \in 0 .. N - 1 : At(d) \in 0 .. N - 1
  BY <1>1, <1>2
<1> QED BY <1>3, <1>4, <1>5 DEF At

-----------------------------------------------------------------------------
(* bpe_next_match.                                                         *)

(***************************************************************************)
(* If some token occurs where the search starts, the search finds the      *)
(* longest token that occurs there.                                        *)
(***************************************************************************)
LEMMA NextMatchFound ==
  ASSUME NEW vocab, NEW word, NEW from \in Nat, NEW to \in Nat, from < to,
         \A id \in DOMAIN vocab : Len(vocab[id]) \in Nat,
         NEW some \in DOMAIN vocab, OccursAt(vocab[some], word, from, to)
  PROVE  /\ NextMatch(vocab, word, from, to) \in DOMAIN vocab
         /\ OccursAt(vocab[NextMatch(vocab, word, from, to)], word, from, to)
         /\ \A other \in DOMAIN vocab : OccursAt(vocab[other], word, from, to) =>
              Len(vocab[other]) <= Len(vocab[NextMatch(vocab, word, from, to)])
<1> DEFINE At(s)  == {id \in DOMAIN vocab : OccursAt(vocab[id], word, s, to)}
           starts == {s \in from .. to - 1 : At(s) # {}}
           first  == CHOOSE s \in starts : \A t \in starts : s <= t
           best   == CHOOSE id \in At(first) :
                       \A other \in At(first) : Len(vocab[other]) <= Len(vocab[id])
<1>1. from \in starts
  OBVIOUS
<1>2. first = from
  <2>1. \E s \in starts : \A t \in starts : s <= t
    BY <1>1
  <2>2. first \in starts /\ \A t \in starts : first <= t
    <3> HIDE DEF starts
    <3> QED BY <2>1
  <2> QED BY <1>1, <2>2
<1>3. \E id \in At(from) : \A other \in At(from) : Len(vocab[other]) <= Len(vocab[id])
  <2> DEFINE lengths == {Len(vocab[id]) : id \in At(from)}
  <2>1. lengths \subseteq 0 .. to /\ lengths # {}
    <3>1. Len(vocab[some]) \in lengths
      OBVIOUS
    <3>2. ASSUME NEW id \in At(from) PROVE Len(vocab[id]) \in 0 .. to
      BY DEF OccursAt
    <3> QED BY <3>1, <3>2
  <2>2. PICK x \in lengths : \A y \in lengths : y <= x
    <3> HIDE DEF lengths
    <3> QED BY <2>1, LargestExists
  <2> QED BY <2>2
<1>4. best \in At(from) /\ \A other \in At(from) : Len(vocab[other]) <= Len(vocab[best])
  <2> HIDE DEF At, first
  <2> QED BY <1>2, <1>3
<1>5. NextMatch(vocab, word, from, to) = best
  BY <1>1 DEF NextMatch
<1> HIDE DEF best
<1> QED BY <1>4, <1>5

(***************************************************************************)
(* At the end of the slice there is nothing to find.                       *)
(***************************************************************************)
LEMMA NextMatchNone ==
  ASSUME NEW vocab, NEW word, NEW to \in Nat
  PROVE  NextMatch(vocab, word, to, to) = UINT32_MAX
<1>1. to .. to - 1 = {}
  OBVIOUS
<1> QED BY <1>1 DEF NextMatch

(***************************************************************************)
(* In a word whose bytes are all tokens, the search finds a token exactly  *)
(* where it starts, unless it starts at the end.                           *)
(***************************************************************************)
LEMMA NextMatchComplete ==
  ASSUME NEW vocab, \A id \in DOMAIN vocab : Len(vocab[id]) \in Nat,
         NEW word, Complete(vocab, word),
         Len(word) \in Nat, NEW to \in Nat, to <= Len(word),
         NEW from \in Nat, from <= to
  PROVE  LET match == NextMatch(vocab, word, from, to)
         IN  IF from = to THEN match = UINT32_MAX
             ELSE match \in DOMAIN vocab /\ OccursAt(vocab[match], word, from, to)
<1>1. CASE from = to
  BY <1>1, NextMatchNone
<1>2. CASE from < to
  <2>1. PICK byte \in DOMAIN vocab : vocab[byte] = <<word[from + 1]>>
    BY <1>2 DEF Complete
  <2>2. OccursAt(vocab[byte], word, from, to)
    BY <1>2, <2>1 DEF OccursAt
  <2> QED BY <1>2, <2>2, NextMatchFound
<1> QED BY <1>1, <1>2

-----------------------------------------------------------------------------
(* Sequences, whatever their elements are.                                 *)

IsSeq(s) == \E S : s \in Seq(S)

LEMMA SeqFacts ==
  ASSUME NEW s, IsSeq(s)
  PROVE  Len(s) \in Nat /\ s = [k \in 1 .. Len(s) |-> s[k]]
<1>1. PICK S : s \in Seq(S)
  BY DEF IsSeq
<1> QED BY <1>1, LenProperties

LEMMA SameSeq ==
  ASSUME NEW s, NEW t, IsSeq(s), IsSeq(t), Len(s) = Len(t),
         \A k \in 1 .. Len(s) : s[k] = t[k]
  PROVE  s = t
<1>1. s = [k \in 1 .. Len(s) |-> s[k]] /\ t = [k \in 1 .. Len(s) |-> t[k]]
  BY SeqFacts
<1> QED BY <1>1

LEMMA AppendFacts ==
  ASSUME NEW s, IsSeq(s), NEW x
  PROVE  /\ IsSeq(Append(s, x))
         /\ Len(Append(s, x)) = Len(s) + 1
         /\ \A k \in 1 .. Len(s) : Append(s, x)[k] = s[k]
         /\ Append(s, x)[Len(s) + 1] = x
<1>1. PICK S : s \in Seq(S)
  BY DEF IsSeq
<1>2. s \in Seq(S \cup {x}) /\ x \in S \cup {x}
  <2>1. \A k \in 1 .. Len(s) : s[k] \in S \cup {x}
    BY <1>1, ElementOfSeq
  <2> QED BY <1>1, <2>1, SeqFacts DEF IsSeq
<1>3. /\ Append(s, x) \in Seq(S \cup {x})
      /\ Len(Append(s, x)) = Len(s) + 1
      /\ \A k \in 1 .. Len(s) : Append(s, x)[k] = s[k]
      /\ Append(s, x)[Len(s) + 1] = x
  BY <1>2, AppendProperties
<1> QED BY <1>3 DEF IsSeq

LEMMA SliceFacts ==
  ASSUME NEW s, IsSeq(s), NEW from \in Nat, NEW n \in Nat, from + n <= Len(s)
  PROVE  LET slice == SubSeq(s, from + 1, from + n)
         IN  /\ IsSeq(slice)
             /\ Len(slice) = n
             /\ \A k \in 1 .. n : slice[k] = s[from + k]
<1> DEFINE a == from + 1
           b == from + n
           slice == SubSeq(s, a, b)
<1>1. PICK S : s \in Seq(S)
  BY DEF IsSeq
<1>2. a \in Nat /\ b \in Nat /\ \A k \in a .. b : s[k] \in S
  BY <1>1, ElementOfSeq, LenProperties
<1> HIDE DEF a, b
<1>3. /\ slice \in Seq(S)
      /\ Len(slice) = IF a <= b THEN b - a + 1 ELSE 0
      /\ \A k \in 1 .. b - a + 1 : slice[k] = s[a + k - 1]
  BY <1>1, <1>2, SubSeqProperties
<1> HIDE DEF slice
<1>4. Len(slice) = n
  BY <1>3 DEF a, b
<1>5. \A k \in 1 .. n : slice[k] = s[from + k]
  <2>1. b - a + 1 = n /\ \A k \in 1 .. n : a + k - 1 = from + k
    BY DEF a, b
  <2> QED BY <1>3, <2>1
<1> QED BY <1>3, <1>4, <1>5 DEF slice, a, b, IsSeq

(* The elements of a sequence after its first. *)
LEMMA TailSlice ==
  ASSUME NEW s, IsSeq(s), NEW l, l = Len(s), NEW m \in Nat, 1 + m = l
  PROVE  /\ IsSeq(SubSeq(s, 2, l)) /\ Len(SubSeq(s, 2, l)) = m
         /\ \A k \in 1 .. m : SubSeq(s, 2, l)[k] = s[1 + k]
<1> DEFINE two   == 2
           slice == SubSeq(s, two, l)
<1>1. PICK S : s \in Seq(S)
  BY DEF IsSeq
<1>2. two \in Nat /\ l \in Nat /\ \A k \in two .. l : s[k] \in S
  BY <1>1, ElementOfSeq, LenProperties
<1> HIDE DEF two
<1>3. /\ slice \in Seq(S)
      /\ Len(slice) = IF two <= l THEN l - two + 1 ELSE 0
      /\ \A k \in 1 .. l - two + 1 : slice[k] = s[two + k - 1]
  BY <1>1, <1>2, SubSeqProperties
<1> HIDE DEF slice
<1>4. Len(slice) = m
  BY <1>2, <1>3 DEF two
<1>5. \A k \in 1 .. m : slice[k] = s[1 + k]
  <2>1. l - two + 1 = m /\ \A k \in 1 .. m : two + k - 1 = 1 + k
    BY <1>2 DEF two
  <2> QED BY <1>3, <2>1
<1> QED BY <1>3, <1>4, <1>5 DEF slice, two, IsSeq

LEMMA PrefixFacts ==
  ASSUME NEW s, IsSeq(s), NEW n \in 0 .. Len(s)
  PROVE  /\ IsSeq(SubSeq(s, 1, n))
         /\ Len(SubSeq(s, 1, n)) = n
         /\ \A k \in 1 .. n : SubSeq(s, 1, n)[k] = s[k]
<1>1. Len(s) \in Nat
  BY SeqFacts
<1> DEFINE from == 0
<1>2. from \in Nat /\ n \in Nat /\ from + n <= Len(s)
  BY <1>1
<1>3. from + 1 = 1 /\ from + n = n /\ \A k \in 1 .. n : from + k = k
  BY <1>1
<1> HIDE DEF from
<1>4. /\ IsSeq(SubSeq(s, from + 1, from + n))
      /\ Len(SubSeq(s, from + 1, from + n)) = n
      /\ \A k \in 1 .. n : SubSeq(s, from + 1, from + n)[k] = s[from + k]
  BY <1>2, SliceFacts
<1> QED BY <1>3, <1>4

LEMMA SamePrefix ==
  ASSUME NEW s, NEW t, IsSeq(s), IsSeq(t), NEW n \in Nat, n <= Len(s), n <= Len(t),
         \A k \in 1 .. n : s[k] = t[k]
  PROVE  SubSeq(s, 1, n) = SubSeq(t, 1, n)
<1>1. n \in 0 .. Len(s) /\ n \in 0 .. Len(t)
  BY SeqFacts
<1>2. /\ IsSeq(SubSeq(s, 1, n)) /\ Len(SubSeq(s, 1, n)) = n
      /\ \A k \in 1 .. n : SubSeq(s, 1, n)[k] = s[k]
  BY <1>1, PrefixFacts
<1>3. /\ IsSeq(SubSeq(t, 1, n)) /\ Len(SubSeq(t, 1, n)) = n
      /\ \A k \in 1 .. n : SubSeq(t, 1, n)[k] = t[k]
  BY <1>1, PrefixFacts
<1> QED BY <1>2, <1>3, SameSeq

LEMMA ConcatFacts ==
  ASSUME NEW s, NEW t, IsSeq(s), IsSeq(t)
  PROVE  /\ IsSeq(s \o t)
         /\ Len(s \o t) = Len(s) + Len(t)
         /\ \A k \in 1 .. Len(s) : (s \o t)[k] = s[k]
         /\ \A k \in 1 .. Len(t) : (s \o t)[Len(s) + k] = t[k]
<1>1. PICK S : s \in Seq(S)
  BY DEF IsSeq
<1>2. PICK T : t \in Seq(T)
  BY DEF IsSeq
<1> DEFINE U == S \cup T
<1>3. s \in Seq(U) /\ t \in Seq(U)
  <2>1. Len(s) \in Nat /\ Len(t) \in Nat
    BY SeqFacts
  <2>2. (\A k \in 1 .. Len(s) : s[k] \in U) /\ (\A k \in 1 .. Len(t) : t[k] \in U)
    BY <1>1, <1>2, ElementOfSeq
  <2>3. s = [k \in 1 .. Len(s) |-> s[k]] /\ t = [k \in 1 .. Len(t) |-> t[k]]
    BY SeqFacts
  <2> HIDE DEF U
  <2> QED BY <2>1, <2>2, <2>3
<1> HIDE DEF U
<1>4. /\ s \o t \in Seq(U)
      /\ Len(s \o t) = Len(s) + Len(t)
      /\ \A k \in 1 .. Len(s) + Len(t) : (s \o t)[k] = IF k <= Len(s) THEN s[k] ELSE t[k - Len(s)]
  BY <1>3, ConcatProperties
<1>5. Len(s) \in Nat /\ Len(t) \in Nat
  BY SeqFacts
<1>6. \A k \in 1 .. Len(s) : (s \o t)[k] = s[k]
  BY <1>4, <1>5
<1>7. ASSUME NEW k \in 1 .. Len(t) PROVE (s \o t)[Len(s) + k] = t[k]
  <2>1. Len(s) + k \in 1 .. Len(s) + Len(t) /\ ~(Len(s) + k <= Len(s)) /\ Len(s) + k - Len(s) = k
    BY <1>5
  <2> QED BY <1>4, <2>1
<1> QED BY <1>4, <1>6, <1>7 DEF IsSeq

(* What holds first and is kept by every lowest join holds of every stage. *)
LEMMA StageInduction ==
  ASSUME NEW rank, NEW lo, NEW hi, NEW F, F \subseteq SUBSET (lo .. hi),
         lo .. hi \in F,
         \A B \in F : IsStage(rank, lo, hi, B) =>
           \A i, m, j \in B : LowestJoin(rank, B, i, m, j) => B \ {m} \in F
  PROVE  \A B : IsStage(rank, lo, hi, B) => B \in F
<1> DEFINE G == {B \in F : IsStage(rank, lo, hi, B)}
<1>1. G \in SUBSET SUBSET (lo .. hi)
  OBVIOUS
<1>2. lo .. hi \in G
  BY DEF IsStage
<1>3. ClosedUnderJoins(rank, G)
  <2> SUFFICES ASSUME NEW B \in G, NEW i \in B, NEW m \in B, NEW j \in B, LowestJoin(rank, B, i, m, j)
               PROVE  B \ {m} \in G
    BY DEF ClosedUnderJoins
  <2>1. B \ {m} \in F
    OBVIOUS
  <2>2. IsStage(rank, lo, hi, B \ {m})
    <3> SUFFICES ASSUME NEW H \in SUBSET SUBSET (lo .. hi), lo .. hi \in H, ClosedUnderJoins(rank, H)
                 PROVE  B \ {m} \in H
      BY DEF IsStage
    <3>1. B \in H
      BY DEF IsStage
    <3> QED BY <3>1 DEF ClosedUnderJoins
  <2> QED BY <2>1, <2>2
<1> QED BY <1>1, <1>2, <1>3 DEF IsStage

(* The first stage, and the stage after a join. *)
LEMMA StageSteps ==
  ASSUME NEW rank, NEW lo \in Nat, NEW hi \in Nat, lo <= hi
  PROVE  /\ IsStage(rank, lo, hi, lo .. hi)
         /\ \A B, i, m, j : IsStage(rank, lo, hi, B) /\ LowestJoin(rank, B, i, m, j) =>
              IsStage(rank, lo, hi, B \ {m})
         /\ \A B : IsStage(rank, lo, hi, B) => B \subseteq lo .. hi /\ lo \in B /\ hi \in B
<1>1. IsStage(rank, lo, hi, lo .. hi)
  BY DEF IsStage
<1>2. ASSUME NEW B, NEW i, NEW m, NEW j, IsStage(rank, lo, hi, B), LowestJoin(rank, B, i, m, j)
      PROVE  IsStage(rank, lo, hi, B \ {m})
  <2> SUFFICES ASSUME NEW H \in SUBSET SUBSET (lo .. hi), lo .. hi \in H, ClosedUnderJoins(rank, H)
               PROVE  B \ {m} \in H
    BY DEF IsStage
  <2>1. B \in H
    BY <1>2 DEF IsStage
  <2>2. i \in B /\ m \in B /\ j \in B
    BY <1>2 DEF LowestJoin, Joinable, Gap
  <2> QED BY <1>2, <2>1, <2>2 DEF ClosedUnderJoins
<1>3. \A B : IsStage(rank, lo, hi, B) => B \subseteq lo .. hi /\ lo \in B /\ hi \in B
  <2> DEFINE F == {B \in SUBSET (lo .. hi) : lo \in B /\ hi \in B}
  <2>1. lo .. hi \in F
    OBVIOUS
  <2>2. ASSUME NEW B \in F, NEW i \in B, NEW m \in B, NEW j \in B, LowestJoin(rank, B, i, m, j)
        PROVE  B \ {m} \in F
    <3>1. i < m /\ m < j
      BY <2>2 DEF LowestJoin, Joinable, Gap
    <3>2. m # lo /\ m # hi
      BY <3>1
    <3> QED BY <3>2
  <2>3. \A B : IsStage(rank, lo, hi, B) => B \in F
    <3> HIDE DEF F
    <3>1. F \subseteq SUBSET (lo .. hi)
      BY DEF F
    <3> QED BY <2>1, <2>2, <3>1, StageInduction
  <2> QED BY <2>3
<1> QED BY <1>1, <1>2, <1>3

(* Between two boundaries the gaps and the joins are those of the whole. *)
LEMMA Within ==
  ASSUME NEW rank, NEW B \in SUBSET Nat, NEW x \in B, NEW y \in B, NEW C, C = B \cap (x .. y)
  PROVE  /\ \A i, j \in C : Gap(C, i, j) <=> Gap(B, i, j)
         /\ \A i, m, j \in C : Joinable(rank, C, i, m, j) <=> Joinable(rank, B, i, m, j)
         /\ \A i, m, j \in C : LowestJoin(rank, B, i, m, j) => LowestJoin(rank, C, i, m, j)
         /\ \A i, m, j : Gap(B, i, m) /\ Gap(B, m, j) /\ x < m /\ m < y => i \in C /\ m \in C /\ j \in C
<1>1. ASSUME NEW i \in C, NEW j \in C PROVE Gap(C, i, j) <=> Gap(B, i, j)
  BY DEF Gap
<1>2. \A i, m, j \in C : Joinable(rank, C, i, m, j) <=> Joinable(rank, B, i, m, j)
  BY <1>1 DEF Joinable
<1>3. ASSUME NEW i \in C, NEW m \in C, NEW j \in C, LowestJoin(rank, B, i, m, j)
      PROVE  LowestJoin(rank, C, i, m, j)
  <2>1. C \subseteq B
    OBVIOUS
  <2>2. Joinable(rank, C, i, m, j)
    BY <1>2, <1>3 DEF LowestJoin
  <2>3. ASSUME NEW a \in C, NEW c \in C, NEW b \in C, Joinable(rank, C, a, c, b)
        PROVE  \/ rank[<<i, j>>] < rank[<<a, b>>]
               \/ rank[<<i, j>>] = rank[<<a, b>>] /\ m <= c
    <3>1. Joinable(rank, B, a, c, b)
      BY <1>2, <2>3
    <3> QED BY <1>3, <2>1, <3>1 DEF LowestJoin
  <2> QED BY <2>2, <2>3 DEF LowestJoin
<1>4. ASSUME NEW i, NEW m, NEW j, Gap(B, i, m), Gap(B, m, j), x < m, m < y
      PROVE  i \in C /\ m \in C /\ j \in C
  <2>1. i \in B /\ m \in B /\ j \in B /\ i < m /\ m < j
    BY <1>4 DEF Gap
  <2>2. x <= i /\ j <= y
    BY <1>4, <2>1 DEF Gap
  <2> QED BY <1>4, <2>1, <2>2
<1> QED BY <1>1, <1>2, <1>3, <1>4

(* Between two boundaries of a stage is a stage of the part between them. *)
LEMMA Projection ==
  ASSUME NEW rank, NEW lo \in Nat, NEW hi \in Nat, lo <= hi,
         NEW B, IsStage(rank, lo, hi, B), NEW x \in B, NEW y \in B, x <= y
  PROVE  IsStage(rank, x, y, B \cap (x .. y))
<1> DEFINE F == {C \in SUBSET (lo .. hi) :
                   lo \in C /\ hi \in C /\
                   \A a, b \in C : a <= b => IsStage(rank, a, b, C \cap (a .. b))}
<1>1. lo .. hi \in F
  <2> SUFFICES ASSUME NEW a \in lo .. hi, NEW b \in lo .. hi, a <= b
               PROVE  IsStage(rank, a, b, (lo .. hi) \cap (a .. b))
    OBVIOUS
  <2>1. (lo .. hi) \cap (a .. b) = a .. b
    OBVIOUS
  <2>2. a \in Nat /\ b \in Nat
    OBVIOUS
  <2>3. IsStage(rank, a, b, a .. b)
    BY <2>2, StageSteps
  <2> QED BY <2>1, <2>3
<1>2. ASSUME NEW C \in F, NEW i \in C, NEW m \in C, NEW j \in C, IsStage(rank, lo, hi, C), LowestJoin(rank, C, i, m, j)
      PROVE  C \ {m} \in F
  <2>1. IsStage(rank, lo, hi, C \ {m})
    BY <1>2, StageSteps
  <2>2. lo \in C \ {m} /\ hi \in C \ {m}
    BY <2>1, StageSteps
  <2>3. ASSUME NEW a \in C \ {m}, NEW b \in C \ {m}, a <= b
        PROVE  IsStage(rank, a, b, (C \ {m}) \cap (a .. b))
    <3> DEFINE D == C \cap (a .. b)
    <3>1. IsStage(rank, a, b, D)
      BY <2>3
    <3>2. a \in Nat /\ b \in Nat /\ m \in Nat /\ C \in SUBSET Nat
      OBVIOUS
    <3>3. CASE a < m /\ m < b
      <4>1. Gap(C, i, m) /\ Gap(C, m, j)
        BY <1>2 DEF LowestJoin, Joinable
      <4>2. LowestJoin(rank, D, i, m, j)
        <5> HIDE DEF F
        <5> QED BY <1>2, <3>2, <3>3, <4>1, Within, ZenonT(60)
      <4>3. IsStage(rank, a, b, D \ {m})
        <5> HIDE DEF D, F
        <5> QED BY <2>3, <3>1, <3>2, <4>2, StageSteps
      <4>4. D \ {m} = (C \ {m}) \cap (a .. b)
        OBVIOUS
      <4> QED BY <4>3, <4>4
    <3>4. CASE ~(a < m /\ m < b)
      <4>1. D = (C \ {m}) \cap (a .. b)
        BY <3>2, <3>4
      <4> QED BY <3>1, <4>1
    <3> QED BY <3>3, <3>4
  <2> QED BY <2>2, <2>3
<1>3. B \in F
  <2>1. F \subseteq SUBSET (lo .. hi)
    OBVIOUS
  <2> HIDE DEF F
  <2> QED BY <1>1, <1>2, <2>1, StageInduction
<1> QED BY <1>3

(* A boundary that is gone was once the lowest. *)
LEMMA Removal ==
  ASSUME NEW rank, NEW lo \in Nat, NEW hi \in Nat, lo <= hi,
         NEW B, IsStage(rank, lo, hi, B), NEW c \in lo .. hi, c \notin B
  PROVE  \E C : \E i, j \in C : /\ IsStage(rank, lo, hi, C) /\ B \subseteq C /\ c \in C
                                /\ LowestJoin(rank, C, i, c, j)
<1> DEFINE P(D) == \A d \in (lo .. hi) \ D :
                     \E C : \E i, j \in C : /\ IsStage(rank, lo, hi, C) /\ D \subseteq C /\ d \in C
                                            /\ LowestJoin(rank, C, i, d, j)
           F == {D \in SUBSET (lo .. hi) : P(D)}
<1>1. lo .. hi \in F
  OBVIOUS
<1>2. ASSUME NEW D \in F, NEW i \in D, NEW m \in D, NEW j \in D, IsStage(rank, lo, hi, D), LowestJoin(rank, D, i, m, j)
      PROVE  D \ {m} \in F
  <2>1. ASSUME NEW d \in (lo .. hi) \ (D \ {m})
        PROVE  \E C : \E k, l \in C : /\ IsStage(rank, lo, hi, C) /\ D \ {m} \subseteq C /\ d \in C
                                      /\ LowestJoin(rank, C, k, d, l)
    <3>1. CASE d = m
      BY <1>2, <3>1
    <3>2. CASE d # m
      <4>1. d \in (lo .. hi) \ D
        BY <3>2
      <4>2. PICK C : \E k, l \in C : /\ IsStage(rank, lo, hi, C) /\ D \subseteq C /\ d \in C
                                     /\ LowestJoin(rank, C, k, d, l)
        BY <4>1
      <4>3. D \ {m} \subseteq C
        BY <4>2
      <4> QED BY <4>2, <4>3
    <3> QED BY <3>1, <3>2
  <2> QED BY <2>1
<1>3. B \in F
  <2>1. F \subseteq SUBSET (lo .. hi)
    OBVIOUS
  <2> HIDE DEF F
  <2> QED BY <1>1, <1>2, <2>1, StageInduction
<1> QED BY <1>3

-----------------------------------------------------------------------------
(* The merges.                                                             *)

(* A token, and the region where it is. *)
LEMMA TokenFacts ==
  ASSUME NEW rank, NEW n \in Nat, NEW len, NEW left, NEW right, NEW pairs, NEW K \in Nat,
         Merged(rank, n, len, left, right, pairs, K), NEW t \in DOMAIN len
  PROVE  /\ t \in Nat /\ t < UINT32_MAX /\ t # UINT32_MAX
         /\ len[t] \in Nat \ {0}
  BY Uint32MaxAssumption DEF Merged

(* A token below K is a byte or its two parts. *)
LEMMA SplitFacts ==
  ASSUME NEW rank, NEW n \in Nat, NEW len, NEW left, NEW right, NEW pairs, NEW K \in Nat,
         Merged(rank, n, len, left, right, pairs, K), NEW t \in DOMAIN len, t < K
  PROVE  SplitsTo(len, left, right, pairs, t)
  BY DEF Merged

(* A region that is a token is as long as the token. *)
LEMMA RegionFacts ==
  ASSUME NEW rank, NEW n \in Nat, NEW len, NEW left, NEW right, NEW pairs, NEW K \in Nat,
         Merged(rank, n, len, left, right, pairs, K),
         NEW i \in 0 .. n, NEW j \in 0 .. n, rank[<<i, j>>] # UINT32_MAX
  PROVE  /\ rank[<<i, j>>] \in DOMAIN len /\ rank[<<i, j>>] \in Nat
         /\ j = i + len[rank[<<i, j>>]] /\ i < j
<1>1. rank[<<i, j>>] \in DOMAIN len /\ j = i + len[rank[<<i, j>>]]
  BY DEF Merged
<1>2. len[rank[<<i, j>>]] \in Nat \ {0} /\ rank[<<i, j>>] \in Nat
  BY <1>1, TokenFacts
<1> QED BY <1>1, <1>2

(* c lies between the parts of token t, which is in the region i .. j.      *)
PartsAt(rank, n, left, right, i, c, j, t) ==
  /\ c \in 0 .. n /\ i < c /\ c < j
  /\ rank[<<i, c>>] = left[t] /\ rank[<<c, j>>] = right[t]

(* Where a longer token is, its parts are side by side. *)
LEMMA SplitRegion ==
  ASSUME NEW rank, NEW n \in Nat, NEW len, NEW left, NEW right, NEW pairs, NEW K \in Nat,
         Merged(rank, n, len, left, right, pairs, K),
         NEW t \in DOMAIN len, t < K, len[t] # 1,
         NEW i \in 0 .. n, NEW j \in 0 .. n, rank[<<i, j>>] = t
  PROVE  PartsAt(rank, n, left, right, i, i + len[left[t]], j, t)
<1> DEFINE c == i + len[left[t]]
<1>1. /\ t # UINT32_MAX /\ len[t] \in Nat \ {0}
      /\ len[left[t]] \in Nat \ {0} /\ len[right[t]] \in Nat \ {0}
      /\ len[t] = len[left[t]] + len[right[t]]
  <2>1. SplitsTo(len, left, right, pairs, t)
    BY SplitFacts
  <2>2. left[t] \in DOMAIN len /\ right[t] \in DOMAIN len
    BY <2>1 DEF SplitsTo
  <2>3. len[t] = len[left[t]] + len[right[t]]
    BY <2>1 DEF SplitsTo
  <2> QED BY <2>2, <2>3, TokenFacts
<1>2. j = i + len[t]
  BY <1>1, RegionFacts
<1>3. c \in 0 .. n /\ i < c /\ c < j /\ len[t] > 1
  BY <1>1, <1>2
<1>4. rank[<<i, c>>] = left[t] /\ rank[<<c, j>>] = right[t]
  BY <1>3 DEF Merged
<1> QED BY <1>3, <1>4 DEF PartsAt

(***************************************************************************)
(* The parts that a join brings together are those of the joined token.    *)
(***************************************************************************)
LEMMA JoinIsSplit ==
  ASSUME NEW rank, NEW n \in Nat, NEW len, NEW left, NEW right, NEW pairs, NEW K \in Nat,
         Merged(rank, n, len, left, right, pairs, K),
         NEW lo \in 0 .. n, NEW hi \in 0 .. n, lo <= hi,
         NEW B, IsStage(rank, lo, hi, B),
         NEW i, NEW m, NEW j, LowestJoin(rank, B, i, m, j),
         NEW t, t = rank[<<i, j>>], t < K, MergesTo(rank, n, len, left, t)
  PROVE  /\ t \in DOMAIN len /\ t \in Nat /\ t < UINT32_MAX /\ len[t] # 1
         /\ lo <= i /\ i < m /\ m < j /\ j <= hi
         /\ i \in B /\ m \in B /\ j \in B
         /\ rank[<<i, m>>] = left[t] /\ rank[<<m, j>>] = right[t]
         /\ left[t] < t /\ right[t] < t
<1>1. /\ Gap(B, i, m) /\ Gap(B, m, j) /\ t # UINT32_MAX
      /\ i \in B /\ m \in B /\ j \in B /\ i < m /\ m < j
  BY DEF LowestJoin, Joinable, Gap
<1>2. B \subseteq lo .. hi
  BY StageSteps
<1>3. i \in 0 .. n /\ m \in 0 .. n /\ j \in 0 .. n /\ lo <= i /\ j <= hi /\ i <= j
  BY <1>1, <1>2
<1>4. B \cap (i .. j) = {i, m, j}
  BY <1>1, <1>2, <1>3 DEF Gap
<1>5. IsStage(rank, i, j, {i, m, j})
  <2>1. IsStage(rank, i, j, B \cap (i .. j))
    BY <1>1, <1>3, Projection
  <2> QED BY <1>4, <2>1
<1>6. /\ t \in DOMAIN len /\ t \in Nat /\ t < UINT32_MAX
      /\ j = i + len[t] /\ len[t] \in Nat \ {0}
  <2>1. t \in DOMAIN len /\ j = i + len[t]
    BY <1>1, <1>3, RegionFacts
  <2> QED BY <2>1, TokenFacts
<1>7. len[t] # 1
  BY <1>1, <1>3, <1>6
<1>8. {i, m, j} # {i, j}
  BY <1>1, <1>3
<1>9. i + len[left[t]] \in {i, m, j}
  BY <1>3, <1>5, <1>8 DEF MergesTo
<1>10. /\ left[t] < t /\ right[t] < t
       /\ i < i + len[left[t]] /\ i + len[left[t]] < j
       /\ rank[<<i, i + len[left[t]]>>] = left[t]
       /\ rank[<<i + len[left[t]], j>>] = right[t]
  <2>1. left[t] < t /\ right[t] < t
    <3>1. SplitsTo(len, left, right, pairs, t)
      BY <1>6, SplitFacts
    <3> QED BY <1>7, <3>1 DEF SplitsTo
  <2>2. rank[<<i, j>>] = t
    OBVIOUS
  <2>3. PartsAt(rank, n, left, right, i, i + len[left[t]], j, t)
    BY <1>3, <1>6, <1>7, <2>2, SplitRegion
  <2> QED BY <2>1, <2>3 DEF PartsAt
<1>11. m = i + len[left[t]]
  BY <1>9, <1>10, <1>3
<1> QED BY <1>1, <1>3, <1>6, <1>7, <1>10, <1>11

(* A join of a rank up to t between the boundaries x and y.                 *)
JoinWithin(rank, B, x, y, t) ==
  \E i, m, j \in B : /\ Joinable(rank, B, i, m, j) /\ rank[<<i, j>>] <= t
                     /\ x <= i /\ i < m /\ m < j /\ j <= y

(***************************************************************************)
(* A part of a stage whose token is not complete has a join of a rank up   *)
(* to that token before it.                                                *)
(***************************************************************************)
LEMMA PartJoins ==
  ASSUME NEW rank, NEW n \in Nat, NEW len, NEW left,
         NEW lo \in 0 .. n, NEW hi \in 0 .. n, lo <= hi,
         NEW B, IsStage(rank, lo, hi, B),
         NEW x \in B, NEW y \in B, x <= y, ~Gap(B, x, y), x # y,
         NEW t, rank[<<x, y>>] = t, MergesTo(rank, n, len, left, t)
  PROVE  /\ len[t] > 1 /\ x + len[left[t]] \in B
         /\ JoinWithin(rank, B, x, y, t)
<1>0. lo \in Nat /\ hi \in Nat
  OBVIOUS
<1>1. B \subseteq lo .. hi
  BY <1>0, StageSteps
<1>2. x \in 0 .. n /\ y \in 0 .. n
  BY <1>1
<1> DEFINE C == B \cap (x .. y)
<1>3. IsStage(rank, x, y, C)
  BY <1>1, <1>2, Projection
<1>4. C # {x, y}
  BY <1>1, <1>2 DEF Gap
<1>5. /\ len[t] > 1 /\ x + len[left[t]] \in C
      /\ \E i, m, j \in C : Joinable(rank, C, i, m, j) /\ rank[<<i, j>>] <= t
  <2> HIDE DEF C
  <2> QED BY <1>2, <1>3, <1>4 DEF MergesTo
<1>6. PICK i \in C, m \in C, j \in C : Joinable(rank, C, i, m, j) /\ rank[<<i, j>>] <= t
  BY <1>5
<1>7. Joinable(rank, B, i, m, j)
  <2>1. B \in SUBSET Nat
    BY <1>1
  <2> HIDE DEF C
  <2>2. C = B \cap (x .. y)
    BY DEF C
  <2> QED BY <1>6, <2>1, <2>2, Within
<1>8. i < m /\ m < j
  BY <1>7 DEF Joinable, Gap
<1>9. i \in B /\ m \in B /\ j \in B /\ x <= i /\ j <= y
  BY <1>1, <1>2
<1>10. len[t] > 1 /\ x + len[left[t]] \in B
  BY <1>5
<1>11. rank[<<i, j>>] <= t
  BY <1>6
<1> HIDE DEF C
<1> QED BY <1>7, <1>8, <1>9, <1>10, <1>11 DEF JoinWithin

-----------------------------------------------------------------------------
(* A token merges to its parts.                                            *)

(***************************************************************************)
(* If the part before the lowest boundary is not complete, the join has a  *)
(* lower rank than the part's token, which lies further left; if the part  *)
(* after it is not complete, the ranks may be equal.                       *)
(***************************************************************************)
LEMMA LeftPart ==
  ASSUME NEW rank, NEW n \in Nat, NEW len, NEW left, NEW right, NEW pairs, NEW K \in Nat,
         Merged(rank, n, len, left, right, pairs, K),
         NEW l \in 0 .. n, NEW r \in 0 .. n, l <= r,
         NEW B, IsStage(rank, l, r, B),
         NEW i, NEW m, NEW j, LowestJoin(rank, B, i, m, j),
         NEW x \in B, x <= i, x # i,
         NEW t \in DOMAIN len, rank[<<x, m>>] = t, MergesTo(rank, n, len, left, t)
  PROVE  /\ len[t] > 1 /\ x + len[left[t]] \in B
         /\ rank[<<i, j>>] < t
<1>1. B \subseteq 0 .. n
  <2>1. l \in Nat /\ r \in Nat
    OBVIOUS
  <2>2. B \subseteq l .. r
    BY <2>1, StageSteps
  <2> QED BY <2>2
<1>2. i \in B /\ m \in B /\ j \in B /\ i < m /\ rank[<<i, j>>] # UINT32_MAX
  BY DEF LowestJoin, Joinable, Gap
<1>3. ~Gap(B, x, m) /\ x <= m /\ x # m
  BY <1>1, <1>2 DEF Gap
<1>4. /\ len[t] > 1 /\ x + len[left[t]] \in B
      /\ JoinWithin(rank, B, x, m, t)
  BY <1>2, <1>3, PartJoins
<1>5. PICK a \in B, c \in B, b \in B : /\ Joinable(rank, B, a, c, b) /\ rank[<<a, b>>] <= t
                                       /\ x <= a /\ a < c /\ c < b /\ b <= m
  BY <1>4 DEF JoinWithin
<1>6. ~(m <= c)
  BY <1>1, <1>2, <1>5
<1>7. rank[<<i, j>>] < rank[<<a, b>>]
  BY <1>5, <1>6 DEF LowestJoin
<1>8. rank[<<i, j>>] \in Nat
  BY <1>1, <1>2, RegionFacts
<1>9. rank[<<a, b>>] \in Nat
  <2>1. rank[<<a, b>>] # UINT32_MAX
    BY <1>5 DEF Joinable
  <2> QED BY <1>1, <2>1, RegionFacts
<1>10. t \in Nat
  BY TokenFacts
<1> QED BY <1>4, <1>5, <1>7, <1>8, <1>9, <1>10

(* A token of which a stage keeps an inner boundary keeps the one between its parts. *)
LEMMA RightPart ==
  ASSUME NEW rank, NEW n \in Nat, NEW len, NEW left, NEW right, NEW pairs, NEW K \in Nat,
         Merged(rank, n, len, left, right, pairs, K),
         NEW l \in 0 .. n, NEW r \in 0 .. n, l <= r,
         NEW B, IsStage(rank, l, r, B),
         NEW i, NEW m, NEW j, LowestJoin(rank, B, i, m, j),
         NEW x \in B, NEW y \in B, x <= y, x # y, ~Gap(B, x, y),
         NEW t \in DOMAIN len, rank[<<x, y>>] = t, MergesTo(rank, n, len, left, t)
  PROVE  /\ len[t] > 1 /\ x + len[left[t]] \in B
         /\ rank[<<i, j>>] <= t
<1>1. B \subseteq 0 .. n
  <2>1. l \in Nat /\ r \in Nat
    OBVIOUS
  <2>2. B \subseteq l .. r
    BY <2>1, StageSteps
  <2> QED BY <2>2
<1>2. i \in B /\ m \in B /\ j \in B /\ rank[<<i, j>>] # UINT32_MAX
  BY DEF LowestJoin, Joinable, Gap
<1>4. /\ len[t] > 1 /\ x + len[left[t]] \in B
      /\ JoinWithin(rank, B, x, y, t)
  BY <1>2, PartJoins
<1>5. PICK a \in B, c \in B, b \in B : Joinable(rank, B, a, c, b) /\ rank[<<a, b>>] <= t
  BY <1>4 DEF JoinWithin
<1>7. rank[<<i, j>>] <= rank[<<a, b>>]
  <2>1. rank[<<i, j>>] < rank[<<a, b>>] \/ rank[<<i, j>>] = rank[<<a, b>>]
    BY <1>5 DEF LowestJoin
  <2>2. rank[<<i, j>>] \in Nat
    BY <1>1, <1>2, RegionFacts
  <2>3. rank[<<a, b>>] # UINT32_MAX
    BY <1>5 DEF Joinable
  <2>4. rank[<<a, b>>] \in Nat
    BY <1>1, <2>3, RegionFacts
  <2> QED BY <2>1, <2>2, <2>4
<1>8. rank[<<i, j>>] \in Nat
  BY <1>1, <1>2, RegionFacts
<1>9. rank[<<a, b>>] \in Nat
  <2>1. rank[<<a, b>>] # UINT32_MAX
    BY <1>5 DEF Joinable
  <2> QED BY <1>1, <2>1, RegionFacts
<1>10. t \in Nat
  BY TokenFacts
<1> QED BY <1>4, <1>5, <1>7, <1>8, <1>9, <1>10

(***************************************************************************)
(* Undoing the merge of a token on one side of a boundary that is joined   *)
(* away: the boundary between its parts is still there, so the same join   *)
(* takes the boundary away in the smaller region.                          *)
(***************************************************************************)
LEMMA BrokenWithin ==
  ASSUME NEW rank, NEW n \in Nat, NEW K, NEW limit,
         NEW l \in 0 .. n, NEW r \in 0 .. n, l <= r,
         NEW B, IsStage(rank, l, r, B),
         NEW i, NEW m, NEW j, LowestJoin(rank, B, i, m, j),
         NEW x \in B, NEW y \in B, x < m, m < y,
         rank[<<i, j>>] < limit, rank[<<i, j>>] < K
  PROVE  Broken(rank, x, m, y, limit, K)
<1>1. l \in Nat /\ r \in Nat
  OBVIOUS
<1>2. B \subseteq l .. r
  BY <1>1, StageSteps
<1>3. B \in SUBSET Nat /\ x \in Nat /\ y \in Nat /\ m \in Nat
  BY <1>2 DEF LowestJoin, Joinable, Gap
<1> DEFINE C == B \cap (x .. y)
<1>4. IsStage(rank, x, y, C)
  BY <1>1, <1>3, Projection
<1>5. C = B \cap (x .. y)
  OBVIOUS
<1> HIDE DEF C
<1>6. i \in C /\ m \in C /\ j \in C
  <2>1. Gap(B, i, m) /\ Gap(B, m, j)
    BY DEF LowestJoin, Joinable
  <2> QED BY <1>3, <1>5, <2>1, Within
<1>7. LowestJoin(rank, C, i, m, j)
  BY <1>3, <1>5, <1>6, Within
<1> QED BY <1>4, <1>6, <1>7 DEF Broken

(***************************************************************************)
(* One turn of the loop of bpe_is_valid_token_pair, for a boundary that is *)
(* joined away: the pair itself is the join, or undoing the merge of the   *)
(* higher rank leads to a pair at the same boundary.                       *)
(***************************************************************************)
LEMMA BrokenStep ==
  ASSUME NEW rank, NEW n \in Nat, NEW len, NEW left, NEW right, NEW pairs, NEW K \in Nat,
         Merged(rank, n, len, left, right, pairs, K),
         \A t \in DOMAIN len : t < K => MergesTo(rank, n, len, left, t),
         NEW t1 \in DOMAIN len, NEW t2 \in DOMAIN len, t1 < K, t2 < K,
         NEW limit \in 0 .. UINT32_MAX,
         NEW l \in 0 .. n, NEW m \in 0 .. n, NEW r \in 0 .. n,
         rank[<<l, m>>] = t1, rank[<<m, r>>] = t2,
         Broken(rank, l, m, r, limit, K)
  PROVE  \/ <<t1, t2>> \in DOMAIN pairs /\ pairs[<<t1, t2>>] < limit
         \/ /\ right[t1] # t1 /\ (t1 > t2 \/ left[t2] = t2)
            /\ len[t1] # 1
            /\ Broken(rank, l + len[left[t1]], m, r, t1, K)
         \/ /\ ~(right[t1] # t1 /\ (t1 > t2 \/ left[t2] = t2))
            /\ len[t2] # 1 /\ left[t2] # t2
            /\ Broken(rank, l, m, m + len[left[t2]], t2 + 1, K)
<1>0. PICK B : \E i, j \in B :
        /\ IsStage(rank, l, r, B)
        /\ LowestJoin(rank, B, i, m, j)
        /\ rank[<<i, j>>] < limit /\ rank[<<i, j>>] < K
  BY DEF Broken
<1>1. PICK i \in B, j \in B :
        /\ IsStage(rank, l, r, B)
        /\ LowestJoin(rank, B, i, m, j)
        /\ rank[<<i, j>>] < limit /\ rank[<<i, j>>] < K
  BY <1>0
<1>2. /\ t1 \in Nat /\ t2 \in Nat /\ t1 < UINT32_MAX /\ t2 < UINT32_MAX
      /\ t1 # UINT32_MAX /\ t2 # UINT32_MAX
  BY TokenFacts
<1>3. l < m /\ m < r
  BY <1>2, RegionFacts
<1>4. l \in Nat /\ r \in Nat /\ l <= r
  BY <1>3
<1>5. B \subseteq l .. r /\ l \in B /\ r \in B
  BY <1>1, <1>4, StageSteps
<1> DEFINE top == rank[<<i, j>>]
<1>7. top \in DOMAIN len
  <2>1. i \in 0 .. n /\ j \in 0 .. n
    BY <1>5
  <2>2. top # UINT32_MAX
    BY <1>1 DEF LowestJoin, Joinable
  <2> QED BY <2>1, <2>2, RegionFacts
<1>8. /\ top \in Nat /\ top < UINT32_MAX /\ len[top] # 1
      /\ l <= i /\ i < m /\ m < j /\ j <= r /\ m \in B
      /\ rank[<<i, m>>] = left[top] /\ rank[<<m, j>>] = right[top]
      /\ left[top] < top /\ right[top] < top
  <2>1. MergesTo(rank, n, len, left, top)
    BY <1>1, <1>7
  <2>2. top < K
    BY <1>1
  <2>3. top = rank[<<i, j>>]
    OBVIOUS
  <2> HIDE DEF top
  <2> QED BY <1>1, <1>4, <2>1, <2>2, <2>3, JoinIsSplit
<1>14. l # i => /\ len[t1] > 1 /\ l + len[left[t1]] \in B
                /\ top < t1
  <2>1. MergesTo(rank, n, len, left, t1)
    OBVIOUS
  <2> QED BY <1>1, <1>4, <1>5, <1>8, <2>1, LeftPart
<1>15. r # j => /\ len[t2] > 1 /\ m + len[left[t2]] \in B
                /\ top <= t2
  <2>1. MergesTo(rank, n, len, left, t2)
    OBVIOUS
  <2>2. ~(r # j) \/ ~Gap(B, m, r)
    BY <1>4, <1>5, <1>8 DEF Gap
  <2>3. m <= r /\ m # r
    BY <1>3, <1>4
  <2> QED BY <1>1, <1>4, <1>5, <1>8, <2>1, <2>2, <2>3, RightPart
<1>16. CASE l = i /\ r = j
  <2>1. t1 = left[top] /\ t2 = right[top]
    BY <1>8, <1>16
  <2>2. <<t1, t2>> \in DOMAIN pairs /\ pairs[<<t1, t2>>] = top
    <3>1. SplitsTo(len, left, right, pairs, top)
      BY <1>1, <1>7, SplitFacts
    <3> HIDE DEF top
    <3> QED BY <1>8, <2>1, <3>1 DEF SplitsTo
  <2> QED BY <1>1, <2>2
<1>17. CASE ~(l = i /\ r = j)
  <2>1. len[t1] # 1 => right[t1] < t1 /\ right[t1] \in Nat
    <3>1. SplitsTo(len, left, right, pairs, t1)
      BY SplitFacts
    <3>2. len[t1] # 1 => right[t1] < t1 /\ right[t1] \in DOMAIN len
      BY <3>1 DEF SplitsTo
    <3> QED BY <3>2, TokenFacts
  <2>2. len[t2] # 1 => left[t2] < t2 /\ left[t2] \in Nat
    <3>1. SplitsTo(len, left, right, pairs, t2)
      BY SplitFacts
    <3>2. len[t2] # 1 => left[t2] < t2 /\ left[t2] \in DOMAIN len
      BY <3>1 DEF SplitsTo
    <3> QED BY <3>2, TokenFacts
  <2>6. l = i => left[top] = t1 /\ t1 < top
    BY <1>8
  <2>7. r = j => right[top] = t2 /\ t2 < top
    BY <1>8
  <2>9. CASE right[t1] # t1 /\ (t1 > t2 \/ left[t2] = t2)
    <3>1. l # i
      <4> SUFFICES ASSUME l = i PROVE FALSE
        OBVIOUS
      <4>1. r # j /\ t1 < top
        BY <1>17, <2>6
      <4>2. left[t2] # t2 /\ top <= t2
        BY <1>2, <1>15, <2>2, <4>1
      <4>3. t1 > t2
        BY <2>9, <4>2
      <4> QED BY <1>2, <1>8, <4>1, <4>2, <4>3
    <3>2. len[t1] > 1 /\ l + len[left[t1]] \in B /\ top < t1
      BY <1>14, <3>1
    <3>3. l + len[left[t1]] < m
      <4>1. len[t1] # 1
        BY <3>2
      <4>2. PartsAt(rank, n, left, right, l, l + len[left[t1]], m, t1)
        BY <4>1, SplitRegion
      <4> QED BY <4>2 DEF PartsAt
    <3>4. Broken(rank, l + len[left[t1]], m, r, t1, K)
      BY <1>1, <1>3, <1>4, <1>5, <3>2, <3>3, BrokenWithin
    <3> QED BY <2>9, <3>2, <3>4
  <2>10. CASE ~(right[t1] # t1 /\ (t1 > t2 \/ left[t2] = t2))
    <3>1. r # j
      <4> SUFFICES ASSUME r = j PROVE FALSE
        OBVIOUS
      <4>1. l # i /\ t2 < top
        BY <1>17, <2>7
      <4>2. right[t1] # t1 /\ top < t1
        BY <1>2, <1>14, <2>1, <4>1
      <4>3. ~(t1 > t2)
        BY <2>10, <4>2
      <4> QED BY <1>2, <1>8, <4>1, <4>2, <4>3
    <3>2. len[t2] > 1 /\ m + len[left[t2]] \in B /\ top <= t2
      BY <1>15, <3>1
    <3>3. m < m + len[left[t2]]
      <4>1. len[t2] # 1
        BY <3>2
      <4>2. PartsAt(rank, n, left, right, m, m + len[left[t2]], r, t2)
        BY <4>1, SplitRegion
      <4> QED BY <4>2 DEF PartsAt
    <3>4. top < t2 + 1
      BY <1>2, <1>8, <3>2
    <3>5. Broken(rank, l, m, m + len[left[t2]], t2 + 1, K)
      BY <1>1, <1>3, <1>4, <1>5, <3>2, <3>3, <3>4, BrokenWithin
    <3>6. left[t2] # t2
      BY <1>2, <2>2, <3>2
    <3> QED BY <2>10, <3>2, <3>5, <3>6
  <2> QED BY <2>9, <2>10
<1> QED BY <1>16, <1>17

(* Another pair, smaller by one of its tokens, at a boundary joined away,    *)
(* is valid if this one is.                                                *)
SmallerPair(rank, n, len, valid, K, t1, t2, limit) ==
  \E u1, u2 \in DOMAIN len, lim \in 0 .. UINT32_MAX, a, b, c \in 0 .. n :
    /\ u1 \in Nat /\ u2 \in Nat /\ u1 < K /\ u2 < K
    /\ (u1 < t1 /\ u2 = t2) \/ (u1 = t1 /\ u2 < t2)
    /\ rank[<<a, b>>] = u1 /\ rank[<<b, c>>] = u2
    /\ Broken(rank, a, b, c, lim, K)
    /\ valid[<<t1, t2, limit>>] <=> valid[<<u1, u2, lim>>]

(* A broken boundary fails the test, or a smaller pair has a broken boundary. *)
LEMMA BrokenSmaller ==
  ASSUME NEW rank, NEW n \in Nat, NEW len, NEW left, NEW right, NEW pairs, NEW K \in Nat,
         Merged(rank, n, len, left, right, pairs, K),
         \A t \in DOMAIN len : t < K => MergesTo(rank, n, len, left, t),
         NEW valid, Checks(valid, DOMAIN len, left, right, pairs),
         NEW t1 \in DOMAIN len, NEW t2 \in DOMAIN len, t1 < K, t2 < K,
         NEW limit \in 0 .. UINT32_MAX,
         NEW l \in 0 .. n, NEW m \in 0 .. n, NEW r \in 0 .. n,
         rank[<<l, m>>] = t1, rank[<<m, r>>] = t2,
         Broken(rank, l, m, r, limit, K)
  PROVE  /\ t1 \in Nat /\ t2 \in Nat
         /\ \/ ~valid[<<t1, t2, limit>>]
            \/ SmallerPair(rank, n, len, valid, K, t1, t2, limit)
<1> DEFINE stops == <<t1, t2>> \in DOMAIN pairs /\ pairs[<<t1, t2>>] < limit
<1>1. t1 \in Nat /\ t2 \in Nat /\ t1 < UINT32_MAX /\ t2 < UINT32_MAX
  BY TokenFacts
<1>2. valid[<<t1, t2, limit>>] <=>
        /\ ~stops
        /\ ~(right[t1] = t1 /\ left[t2] = t2) =>
             IF right[t1] # t1 /\ (t1 > t2 \/ left[t2] = t2)
             THEN valid[<<right[t1], t2, t1>>]
             ELSE valid[<<t1, left[t2], t2 + 1>>]
  BY DEF Checks
<1>7. len[t1] # 1 =>
        /\ right[t1] \in DOMAIN len /\ right[t1] \in Nat /\ right[t1] < t1
        /\ l + len[left[t1]] \in 0 .. n
        /\ rank[<<l + len[left[t1]], m>>] = right[t1]
  <2>1. SplitsTo(len, left, right, pairs, t1)
    BY SplitFacts
  <2>2. len[t1] # 1 => right[t1] \in DOMAIN len /\ right[t1] < t1
    BY <2>1 DEF SplitsTo
  <2>3. len[t1] # 1 => right[t1] \in Nat
    BY <2>2, TokenFacts
  <2>4. len[t1] # 1 => /\ l + len[left[t1]] \in 0 .. n
                       /\ rank[<<l + len[left[t1]], m>>] = right[t1]
    <3>1. len[t1] # 1 => PartsAt(rank, n, left, right, l, l + len[left[t1]], m, t1)
      BY SplitRegion
    <3> QED BY <3>1 DEF PartsAt
  <2> QED BY <2>2, <2>3, <2>4
<1>8. len[t2] # 1 =>
        /\ left[t2] \in DOMAIN len /\ left[t2] \in Nat /\ left[t2] < t2
        /\ m + len[left[t2]] \in 0 .. n
        /\ rank[<<m, m + len[left[t2]]>>] = left[t2]
  <2>1. SplitsTo(len, left, right, pairs, t2)
    BY SplitFacts
  <2>2. len[t2] # 1 => left[t2] \in DOMAIN len /\ left[t2] < t2
    BY <2>1 DEF SplitsTo
  <2>3. len[t2] # 1 => left[t2] \in Nat
    BY <2>2, TokenFacts
  <2>4. len[t2] # 1 => /\ m + len[left[t2]] \in 0 .. n
                       /\ rank[<<m, m + len[left[t2]]>>] = left[t2]
    <3>1. len[t2] # 1 => PartsAt(rank, n, left, right, m, m + len[left[t2]], r, t2)
      BY SplitRegion
    <3> QED BY <3>1 DEF PartsAt
  <2> QED BY <2>2, <2>3, <2>4
<1>3. \/ stops
      \/ /\ right[t1] # t1 /\ (t1 > t2 \/ left[t2] = t2)
         /\ len[t1] # 1
         /\ Broken(rank, l + len[left[t1]], m, r, t1, K)
      \/ /\ ~(right[t1] # t1 /\ (t1 > t2 \/ left[t2] = t2))
         /\ len[t2] # 1 /\ left[t2] # t2
         /\ Broken(rank, l, m, m + len[left[t2]], t2 + 1, K)
  BY BrokenStep
<1>4. CASE stops
  BY <1>1, <1>2, <1>4
<1>5. CASE /\ ~stops
           /\ right[t1] # t1 /\ (t1 > t2 \/ left[t2] = t2)
           /\ len[t1] # 1
           /\ Broken(rank, l + len[left[t1]], m, r, t1, K)
  <2>1. right[t1] \in DOMAIN len /\ right[t1] \in Nat /\ right[t1] < t1
    BY <1>5, <1>7
  <2>2. /\ l + len[left[t1]] \in 0 .. n
        /\ rank[<<l + len[left[t1]], m>>] = right[t1]
    BY <1>5, <1>7
  <2>3. right[t1] < K /\ t1 \in 0 .. UINT32_MAX
    BY <1>1, <2>1, Uint32MaxAssumption
  <2>4. valid[<<t1, t2, limit>>] <=> valid[<<right[t1], t2, t1>>]
    BY <1>2, <1>5
  <2> QED BY <1>1, <1>5, <2>1, <2>2, <2>3, <2>4 DEF SmallerPair
<1>6. CASE /\ ~stops
           /\ ~(right[t1] # t1 /\ (t1 > t2 \/ left[t2] = t2))
           /\ len[t2] # 1 /\ left[t2] # t2
           /\ Broken(rank, l, m, m + len[left[t2]], t2 + 1, K)
  <2>1. left[t2] \in DOMAIN len /\ left[t2] \in Nat /\ left[t2] < t2
    BY <1>6, <1>8
  <2>2. /\ m + len[left[t2]] \in 0 .. n
        /\ rank[<<m, m + len[left[t2]]>>] = left[t2]
    BY <1>6, <1>8
  <2>3. left[t2] < K /\ t2 + 1 \in 0 .. UINT32_MAX
    BY <1>1, <2>1, Uint32MaxAssumption
  <2>4. valid[<<t1, t2, limit>>] <=> valid[<<t1, left[t2], t2 + 1>>]
    BY <1>2, <1>6
  <2> QED BY <1>1, <1>6, <2>1, <2>2, <2>3, <2>4 DEF SmallerPair
<1> QED BY <1>3, <1>4, <1>5, <1>6

(***************************************************************************)
(* A pair of tokens at a boundary that is joined away is not valid.        *)
(***************************************************************************)
LEMMA BrokenIsInvalid ==
  ASSUME NEW rank, NEW n \in Nat, NEW len, NEW left, NEW right, NEW pairs, NEW K \in Nat,
         Merged(rank, n, len, left, right, pairs, K),
         \A t \in DOMAIN len : t < K => MergesTo(rank, n, len, left, t),
         NEW valid, Checks(valid, DOMAIN len, left, right, pairs)
  PROVE  \A t1, t2 \in DOMAIN len, limit \in 0 .. UINT32_MAX, l, m, r \in 0 .. n :
           /\ t1 < K /\ t2 < K
           /\ rank[<<l, m>>] = t1 /\ rank[<<m, r>>] = t2
           /\ Broken(rank, l, m, r, limit, K)
           => ~valid[<<t1, t2, limit>>]
<1> DEFINE Wrong(t1, t2) ==
             \E limit \in 0 .. UINT32_MAX, l, m, r \in 0 .. n :
               /\ t1 < K /\ t2 < K
               /\ rank[<<l, m>>] = t1 /\ rank[<<m, r>>] = t2
               /\ Broken(rank, l, m, r, limit, K)
               /\ valid[<<t1, t2, limit>>]
           Sums == {s \in Nat : \E t1, t2 \in DOMAIN len :
                      t1 \in Nat /\ t2 \in Nat /\ s = t1 + t2 /\ Wrong(t1, t2)}
<1>1. ASSUME NEW t1 \in DOMAIN len, NEW t2 \in DOMAIN len, Wrong(t1, t2)
      PROVE  /\ t1 \in Nat /\ t2 \in Nat
             /\ \E u1, u2 \in DOMAIN len :
                  /\ u1 \in Nat /\ u2 \in Nat
                  /\ (u1 < t1 /\ u2 = t2) \/ (u1 = t1 /\ u2 < t2)
                  /\ Wrong(u1, u2)
  <2>1. PICK limit \in 0 .. UINT32_MAX, l \in 0 .. n, m \in 0 .. n, r \in 0 .. n :
               /\ t1 < K /\ t2 < K
               /\ rank[<<l, m>>] = t1 /\ rank[<<m, r>>] = t2
               /\ Broken(rank, l, m, r, limit, K)
               /\ valid[<<t1, t2, limit>>]
    BY <1>1
  <2> HIDE DEF Wrong, Sums
  <2>2. /\ t1 \in Nat /\ t2 \in Nat
        /\ ~valid[<<t1, t2, limit>>] \/ SmallerPair(rank, n, len, valid, K, t1, t2, limit)
    BY <2>1, BrokenSmaller
  <2>3. PICK u1 \in DOMAIN len, u2 \in DOMAIN len, lim \in 0 .. UINT32_MAX,
             a \in 0 .. n, b \in 0 .. n, c \in 0 .. n :
                /\ u1 \in Nat /\ u2 \in Nat /\ u1 < K /\ u2 < K
                /\ (u1 < t1 /\ u2 = t2) \/ (u1 = t1 /\ u2 < t2)
                /\ rank[<<a, b>>] = u1 /\ rank[<<b, c>>] = u2
                /\ Broken(rank, a, b, c, lim, K)
                /\ valid[<<t1, t2, limit>>] <=> valid[<<u1, u2, lim>>]
    BY <2>1, <2>2 DEF SmallerPair
  <2>4. Wrong(u1, u2)
    BY <2>1, <2>3 DEF Wrong
  <2> QED BY <2>2, <2>3, <2>4
<1> HIDE DEF Wrong
<1>2. Sums = {}
  <2> SUFFICES ASSUME Sums # {} PROVE FALSE
    OBVIOUS
  <2>1. PICK s \in Sums : \A x \in Sums : s <= x
    <3>1. Sums \in SUBSET Nat
      OBVIOUS
    <3> HIDE DEF Sums
    <3> QED BY <3>1, LeastExists
  <2>2. PICK t1 \in DOMAIN len, t2 \in DOMAIN len :
          t1 \in Nat /\ t2 \in Nat /\ s = t1 + t2 /\ Wrong(t1, t2)
    OBVIOUS
  <2>3. PICK u1 \in DOMAIN len, u2 \in DOMAIN len :
          /\ u1 \in Nat /\ u2 \in Nat
          /\ (u1 < t1 /\ u2 = t2) \/ (u1 = t1 /\ u2 < t2)
          /\ Wrong(u1, u2)
    BY <1>1, <2>2
  <2>4. u1 + u2 < t1 + t2 /\ u1 + u2 \in Nat
    BY <2>2, <2>3
  <2>5. u1 + u2 \in Sums
    BY <2>3, <2>4
  <2> QED BY <2>1, <2>2, <2>4, <2>5
<1>3. ASSUME NEW t1 \in DOMAIN len, NEW t2 \in DOMAIN len, Wrong(t1, t2) PROVE FALSE
  <2>1. t1 \in Nat /\ t2 \in Nat
    BY <1>1, <1>3
  <2>2. t1 + t2 \in Nat
    BY <2>1
  <2>3. t1 + t2 \in Sums
    BY <1>3, <2>1, <2>2
  <2> QED BY <1>2, <2>3
<1> QED BY <1>3 DEF Wrong

-----------------------------------------------------------------------------
(* The last boundary between two tokens.                                   *)

(* At some stage before B the boundary c was the next to go, the last one    *)
(* between x and y.                                                        *)
WasLast(rank, lo, hi, B, x, c, y) ==
  \E C : IsStage(rank, lo, hi, C) /\ B \subseteq C /\ LowestJoin(rank, C, x, c, y)

(***************************************************************************)
(* The last boundary to go inside a token is the one between its parts.    *)
(***************************************************************************)
LEMMA LastJoin ==
  ASSUME NEW rank, NEW n \in Nat, NEW len, NEW left, NEW right, NEW pairs, NEW K \in Nat,
         Merged(rank, n, len, left, right, pairs, K),
         NEW lo \in 0 .. n, NEW hi \in 0 .. n, lo <= hi,
         NEW B, IsStage(rank, lo, hi, B), NEW x \in B, NEW y \in B, Gap(B, x, y),
         NEW t \in DOMAIN len, t < K, len[t] # 1, rank[<<x, y>>] = t,
         MergesTo(rank, n, len, left, t)
  PROVE  WasLast(rank, lo, hi, B, x, x + len[left[t]], y)
<1> DEFINE c == x + len[left[t]]
<1>1. lo \in Nat /\ hi \in Nat
  OBVIOUS
<1>2. B \subseteq lo .. hi
  BY <1>1, StageSteps
<1>3. x \in 0 .. n /\ y \in 0 .. n /\ x \in Nat /\ y \in Nat /\ x <= y
  BY <1>2 DEF Gap
<1>4. c \in 0 .. n /\ x < c /\ c < y
  <2>1. PartsAt(rank, n, left, right, x, x + len[left[t]], y, t)
    BY <1>3, SplitRegion
  <2> QED BY <2>1 DEF PartsAt
<1> HIDE DEF c
<1>5. c \in lo .. hi /\ c \notin B
  BY <1>2, <1>3, <1>4 DEF Gap
<1>6. PICK C : \E i, j \in C : /\ IsStage(rank, lo, hi, C) /\ B \subseteq C /\ c \in C
                               /\ LowestJoin(rank, C, i, c, j)
  BY <1>1, <1>5, Removal
<1>7. PICK i \in C, j \in C : /\ IsStage(rank, lo, hi, C) /\ B \subseteq C /\ c \in C
                              /\ LowestJoin(rank, C, i, c, j)
  BY <1>6
<1>8. IsStage(rank, lo, hi, C \ {c})
  BY <1>1, <1>7, StageSteps
<1> DEFINE D == (C \ {c}) \cap (x .. y)
<1>9. IsStage(rank, x, y, D)
  <2>1. x \in C \ {c} /\ y \in C \ {c}
    BY <1>3, <1>4, <1>7
  <2> QED BY <1>1, <1>3, <1>8, <2>1, Projection
<1>10. D = {x, y}
  <2>1. c \notin D
    OBVIOUS
  <2> HIDE DEF D
  <2> QED BY <1>3, <1>9, <2>1 DEF MergesTo, c
<1>11. C \subseteq lo .. hi
  BY <1>1, <1>7, StageSteps
<1>12. i = x /\ j = y
  <2>1. Gap(C, i, c) /\ Gap(C, c, j)
    BY <1>7 DEF LowestJoin, Joinable
  <2>2. x <= i /\ j <= y /\ i < c /\ c < j
    BY <1>3, <1>4, <1>7, <2>1 DEF Gap
  <2>3. i \in D /\ j \in D
    BY <1>3, <1>4, <1>7, <1>11, <2>2
  <2> HIDE DEF D
  <2> QED BY <1>3, <1>4, <1>10, <2>2, <2>3
<1> QED BY <1>7, <1>12 DEF WasLast, c

(* Everything between l and r is joined but for m, and the whole is no token *)
(* of a rank below limit.                                                  *)
Stands(rank, l, m, r, limit) ==
  IsStage(rank, l, r, {l, m, r}) /\ ~(rank[<<l, r>>] < limit)

(***************************************************************************)
(* One turn of the loop of bpe_is_valid_token_pair, for a boundary that    *)
(* stands: the pair is no merge of a rank below the limit, and after the   *)
(* merge of the higher rank is undone, the boundary stands as well.        *)
(***************************************************************************)
LEMMA StandsFirst ==
  ASSUME NEW rank, NEW n \in Nat, NEW len, NEW left, NEW right, NEW pairs, NEW K \in Nat,
         Merged(rank, n, len, left, right, pairs, K),
         \A t \in DOMAIN len : t < K => MergesTo(rank, n, len, left, t),
         NEW t1 \in DOMAIN len, NEW t2 \in DOMAIN len, t1 < K, t2 < K,
         NEW limit,
         NEW l \in 0 .. n, NEW m \in 0 .. n, NEW r \in 0 .. n,
         rank[<<l, m>>] = t1, rank[<<m, r>>] = t2,
         Stands(rank, l, m, r, limit),
         len[t1] # 1, t1 > t2 \/ len[t2] = 1
  PROVE  Stands(rank, l + len[left[t1]], m, r, t1)
<1> DEFINE c == l + len[left[t1]]
           B == {l, m, r}
<1>1. /\ t1 \in Nat /\ t2 \in Nat /\ t1 < UINT32_MAX
      /\ t1 # UINT32_MAX /\ t2 # UINT32_MAX
  BY TokenFacts
<1>2. l < m /\ m < r /\ l \in Nat /\ m \in Nat /\ r \in Nat /\ l <= r
  BY <1>1, RegionFacts
<1>3. c \in 0 .. n /\ l < c /\ c < m /\ c \in Nat
  <2>1. PartsAt(rank, n, left, right, l, l + len[left[t1]], m, t1)
    BY SplitRegion
  <2> QED BY <2>1 DEF PartsAt
<1>4. PICK C : IsStage(rank, l, r, C) /\ B \subseteq C /\ LowestJoin(rank, C, l, c, m)
  <2>1. IsStage(rank, l, r, B) /\ l \in B /\ m \in B /\ Gap(B, l, m)
    BY <1>2 DEF Stands, Gap
  <2>2. MergesTo(rank, n, len, left, t1)
    OBVIOUS
  <2> HIDE DEF B
  <2>3. WasLast(rank, l, r, B, l, l + len[left[t1]], m)
    BY <1>2, <2>1, <2>2, LastJoin
  <2> QED BY <2>3 DEF WasLast
<1> HIDE DEF c
<1>5. C \subseteq l .. r /\ l \in C /\ m \in C /\ r \in C /\ c \in C /\ Gap(C, l, c) /\ Gap(C, c, m)
  <2>1. C \subseteq l .. r
    BY <1>2, <1>4, StageSteps
  <2> QED BY <1>4, <2>1 DEF LowestJoin, Joinable, Gap
<1>6. Gap(C, m, r)
  <2> SUFFICES ASSUME ~Gap(C, m, r) PROVE FALSE
    OBVIOUS
  <2>1. MergesTo(rank, n, len, left, t2)
    OBVIOUS
  <2>2. m <= r /\ m # r
    BY <1>2
  <2>3. len[t2] > 1 /\ rank[<<l, m>>] <= t2
    BY <1>2, <1>4, <1>5, <2>1, <2>2, RightPart
  <2> QED BY <1>1, <2>3
<1>7. IsStage(rank, c, r, {c, m, r})
  <2>1. C \cap (c .. r) = {c, m, r}
    BY <1>2, <1>3, <1>5, <1>6 DEF Gap
  <2>2. IsStage(rank, c, r, C \cap (c .. r))
    <3>1. c <= r
      BY <1>2, <1>3
    <3> QED BY <1>2, <1>4, <1>5, <3>1, Projection
  <2> QED BY <2>1, <2>2
<1>8. ~(rank[<<c, r>>] < t1)
  <2> SUFFICES ASSUME rank[<<c, r>>] < t1 PROVE FALSE
    OBVIOUS
  <2>1. rank[<<c, r>>] # UINT32_MAX
    BY <1>1, Uint32MaxAssumption
  <2>2. Joinable(rank, C, c, m, r)
    BY <1>5, <1>6, <2>1 DEF Joinable
  <2>3. t1 < rank[<<c, r>>] \/ t1 = rank[<<c, r>>]
    BY <1>4, <1>5, <2>2 DEF LowestJoin
  <2>4. rank[<<c, r>>] \in Nat
    BY <1>3, <2>1, RegionFacts
  <2> QED BY <1>1, <2>3, <2>4
<1> QED BY <1>7, <1>8 DEF Stands, c

(* Undoing the right token: the boundary stands for the smaller pair too. *)
LEMMA StandsSecond ==
  ASSUME NEW rank, NEW n \in Nat, NEW len, NEW left, NEW right, NEW pairs, NEW K \in Nat,
         Merged(rank, n, len, left, right, pairs, K),
         \A t \in DOMAIN len : t < K => MergesTo(rank, n, len, left, t),
         NEW t1 \in DOMAIN len, NEW t2 \in DOMAIN len, t1 < K, t2 < K,
         NEW limit,
         NEW l \in 0 .. n, NEW m \in 0 .. n, NEW r \in 0 .. n,
         rank[<<l, m>>] = t1, rank[<<m, r>>] = t2,
         Stands(rank, l, m, r, limit),
         len[t2] # 1, t1 <= t2 \/ len[t1] = 1
  PROVE  Stands(rank, l, m, m + len[left[t2]], t2 + 1)
<1> DEFINE c == m + len[left[t2]]
           B == {l, m, r}
<1>1. /\ t1 \in Nat /\ t2 \in Nat /\ t2 < UINT32_MAX
      /\ t1 # UINT32_MAX /\ t2 # UINT32_MAX
  BY TokenFacts
<1>2. l < m /\ m < r /\ l \in Nat /\ m \in Nat /\ r \in Nat /\ l <= r
  BY <1>1, RegionFacts
<1>3. c \in 0 .. n /\ m < c /\ c < r /\ c \in Nat
  <2>1. PartsAt(rank, n, left, right, m, m + len[left[t2]], r, t2)
    BY SplitRegion
  <2> QED BY <2>1 DEF PartsAt
<1>4. PICK C : IsStage(rank, l, r, C) /\ B \subseteq C /\ LowestJoin(rank, C, m, c, r)
  <2>1. IsStage(rank, l, r, B) /\ m \in B /\ r \in B /\ Gap(B, m, r)
    BY <1>2 DEF Stands, Gap
  <2>2. MergesTo(rank, n, len, left, t2)
    OBVIOUS
  <2> HIDE DEF B
  <2>3. WasLast(rank, l, r, B, m, m + len[left[t2]], r)
    BY <1>2, <2>1, <2>2, LastJoin
  <2> QED BY <2>3 DEF WasLast
<1> HIDE DEF c
<1>5. C \subseteq l .. r /\ l \in C /\ m \in C /\ r \in C /\ c \in C /\ Gap(C, m, c) /\ Gap(C, c, r)
  <2>1. C \subseteq l .. r
    BY <1>2, <1>4, StageSteps
  <2> QED BY <1>4, <2>1 DEF LowestJoin, Joinable, Gap
<1>6. Gap(C, l, m)
  <2> SUFFICES ASSUME ~Gap(C, l, m) PROVE FALSE
    OBVIOUS
  <2>1. MergesTo(rank, n, len, left, t1)
    OBVIOUS
  <2>2. l <= m /\ l # m
    BY <1>2
  <2>3. len[t1] > 1 /\ JoinWithin(rank, C, l, m, t1)
    BY <1>2, <1>4, <1>5, <2>1, <2>2, PartJoins
  <2>4. PICK a \in C, d \in C, b \in C :
          /\ Joinable(rank, C, a, d, b) /\ rank[<<a, b>>] <= t1
          /\ l <= a /\ a < d /\ d < b /\ b <= m
    BY <2>3 DEF JoinWithin
  <2>5. a \in Nat /\ d \in Nat /\ b \in Nat /\ a \in 0 .. n /\ b \in 0 .. n
    BY <1>5
  <2>6. t2 < rank[<<a, b>>] \/ (t2 = rank[<<a, b>>] /\ c <= d)
    BY <1>4, <2>4 DEF LowestJoin
  <2>7. rank[<<a, b>>] \in Nat
    <3>1. rank[<<a, b>>] # UINT32_MAX
      BY <2>4 DEF Joinable
    <3> QED BY <2>5, <3>1, RegionFacts
  <2> QED BY <1>1, <1>2, <1>3, <2>3, <2>4, <2>5, <2>6, <2>7
<1>7. IsStage(rank, l, c, {l, m, c})
  <2>1. C \cap (l .. c) = {l, m, c}
    BY <1>2, <1>3, <1>5, <1>6 DEF Gap
  <2>2. IsStage(rank, l, c, C \cap (l .. c))
    <3>1. l <= c
      BY <1>2, <1>3
    <3> QED BY <1>2, <1>4, <1>5, <3>1, Projection
  <2> QED BY <2>1, <2>2
<1>8. ~(rank[<<l, c>>] < t2 + 1)
  <2> SUFFICES ASSUME rank[<<l, c>>] < t2 + 1 PROVE FALSE
    OBVIOUS
  <2>1. rank[<<l, c>>] # UINT32_MAX
    BY <1>1, Uint32MaxAssumption
  <2>2. Joinable(rank, C, l, m, c)
    BY <1>5, <1>6, <2>1 DEF Joinable
  <2>3. t2 < rank[<<l, c>>] \/ (t2 = rank[<<l, c>>] /\ c <= m)
    BY <1>4, <1>5, <2>2 DEF LowestJoin
  <2>4. rank[<<l, c>>] \in Nat
    BY <1>3, <2>1, RegionFacts
  <2> QED BY <1>1, <1>3, <2>3, <2>4
<1> QED BY <1>7, <1>8 DEF Stands, c

(* Another pair, smaller by one of its tokens, whose boundary stands, is     *)
(* valid only if this one is.                                              *)
SmallerStands(rank, n, len, valid, K, t1, t2, limit) ==
  \E u1, u2 \in DOMAIN len, lim \in 0 .. UINT32_MAX, a, b, c \in 0 .. n :
    /\ u1 \in Nat /\ u2 \in Nat /\ u1 < K /\ u2 < K
    /\ (u1 < t1 /\ u2 = t2) \/ (u1 = t1 /\ u2 < t2)
    /\ rank[<<a, b>>] = u1 /\ rank[<<b, c>>] = u2
    /\ Stands(rank, a, b, c, lim)
    /\ valid[<<t1, t2, limit>>] <=> valid[<<u1, u2, lim>>]

(* A boundary that stands passes the test, or it stands for a smaller pair. *)
LEMMA StandsSmaller ==
  ASSUME NEW rank, NEW n \in Nat, NEW len, NEW left, NEW right, NEW pairs, NEW K \in Nat,
         Merged(rank, n, len, left, right, pairs, K),
         \A t \in DOMAIN len : t < K => MergesTo(rank, n, len, left, t),
         NEW valid, Checks(valid, DOMAIN len, left, right, pairs),
         NEW t1 \in DOMAIN len, NEW t2 \in DOMAIN len, t1 < K, t2 < K,
         NEW limit \in 0 .. UINT32_MAX,
         NEW l \in 0 .. n, NEW m \in 0 .. n, NEW r \in 0 .. n,
         rank[<<l, m>>] = t1, rank[<<m, r>>] = t2,
         Stands(rank, l, m, r, limit)
  PROVE  /\ t1 \in Nat /\ t2 \in Nat
         /\ valid[<<t1, t2, limit>>] \/ SmallerStands(rank, n, len, valid, K, t1, t2, limit)
<1> DEFINE stops == <<t1, t2>> \in DOMAIN pairs /\ pairs[<<t1, t2>>] < limit
<1>1. t1 \in Nat /\ t2 \in Nat /\ t1 < UINT32_MAX /\ t2 < UINT32_MAX
      /\ len[t1] \in Nat \ {0} /\ len[t2] \in Nat \ {0}
  BY TokenFacts
<1>2. valid[<<t1, t2, limit>>] <=>
        /\ ~stops
        /\ ~(right[t1] = t1 /\ left[t2] = t2) =>
             IF right[t1] # t1 /\ (t1 > t2 \/ left[t2] = t2)
             THEN valid[<<right[t1], t2, t1>>]
             ELSE valid[<<t1, left[t2], t2 + 1>>]
  BY DEF Checks
<1>3. ~stops
  <2> SUFFICES ASSUME stops PROVE FALSE
    OBVIOUS
  <2> DEFINE p == pairs[<<t1, t2>>]
  <2>1. p \in DOMAIN len /\ p < K /\ len[p] > 1 /\ left[p] = t1 /\ right[p] = t2
    BY DEF Merged
  <2>2. rank[<<l, r>>] = p
    <3> HIDE DEF p
    <3> QED BY <2>1 DEF Merged
  <2> QED BY <2>2 DEF Stands
<1>7. /\ len[t1] # 1 =>
           /\ right[t1] \in DOMAIN len /\ right[t1] \in Nat /\ right[t1] < t1
           /\ l + len[left[t1]] \in 0 .. n
           /\ rank[<<l + len[left[t1]], m>>] = right[t1]
      /\ len[t1] = 1 => right[t1] = t1
  <2>1. SplitsTo(len, left, right, pairs, t1)
    BY SplitFacts
  <2>2. len[t1] # 1 => right[t1] \in DOMAIN len /\ right[t1] < t1
    BY <2>1 DEF SplitsTo
  <2>3. len[t1] # 1 => right[t1] \in Nat
    BY <2>2, TokenFacts
  <2>4. len[t1] # 1 => /\ l + len[left[t1]] \in 0 .. n
                       /\ rank[<<l + len[left[t1]], m>>] = right[t1]
    <3>1. len[t1] # 1 => PartsAt(rank, n, left, right, l, l + len[left[t1]], m, t1)
      BY SplitRegion
    <3> QED BY <3>1 DEF PartsAt
  <2>5. len[t1] = 1 => right[t1] = t1
    BY <2>1 DEF SplitsTo
  <2> QED BY <2>2, <2>3, <2>4, <2>5
<1>8. /\ len[t2] # 1 =>
           /\ left[t2] \in DOMAIN len /\ left[t2] \in Nat /\ left[t2] < t2
           /\ m + len[left[t2]] \in 0 .. n
           /\ rank[<<m, m + len[left[t2]]>>] = left[t2]
      /\ len[t2] = 1 => left[t2] = t2
  <2>1. SplitsTo(len, left, right, pairs, t2)
    BY SplitFacts
  <2>2. len[t2] # 1 => left[t2] \in DOMAIN len /\ left[t2] < t2
    BY <2>1 DEF SplitsTo
  <2>3. len[t2] # 1 => left[t2] \in Nat
    BY <2>2, TokenFacts
  <2>4. len[t2] # 1 => /\ m + len[left[t2]] \in 0 .. n
                       /\ rank[<<m, m + len[left[t2]]>>] = left[t2]
    <3>1. len[t2] # 1 => PartsAt(rank, n, left, right, m, m + len[left[t2]], r, t2)
      BY SplitRegion
    <3> QED BY <3>1 DEF PartsAt
  <2>5. len[t2] = 1 => left[t2] = t2
    BY <2>1 DEF SplitsTo
  <2> QED BY <2>2, <2>3, <2>4, <2>5
<1>9. len[t1] # 1 /\ (t1 > t2 \/ len[t2] = 1) => Stands(rank, l + len[left[t1]], m, r, t1)
  BY StandsFirst
<1>10. len[t2] # 1 /\ (t1 <= t2 \/ len[t1] = 1) => Stands(rank, l, m, m + len[left[t2]], t2 + 1)
  BY StandsSecond
<1>4. CASE len[t1] = 1 /\ len[t2] = 1
  <2>1. right[t1] = t1 /\ left[t2] = t2
    BY <1>4, <1>7, <1>8
  <2> QED BY <1>1, <1>2, <1>3, <2>1
<1>5. CASE len[t1] # 1 /\ (t1 > t2 \/ len[t2] = 1)
  <2>1. right[t1] # t1 /\ (t1 > t2 \/ left[t2] = t2)
    BY <1>1, <1>5, <1>7, <1>8
  <2>2. right[t1] < K /\ t1 \in 0 .. UINT32_MAX
    BY <1>1, <1>5, <1>7, Uint32MaxAssumption
  <2>3. valid[<<t1, t2, limit>>] <=> valid[<<right[t1], t2, t1>>]
    BY <1>2, <1>3, <2>1
  <2> QED BY <1>1, <1>5, <1>7, <1>9, <2>2, <2>3 DEF SmallerStands
<1>6. CASE len[t2] # 1 /\ (t1 <= t2 \/ len[t1] = 1)
  <2>1. left[t2] # t2 /\ ~(right[t1] # t1 /\ (t1 > t2 \/ left[t2] = t2))
    BY <1>1, <1>6, <1>7, <1>8
  <2>2. left[t2] < K /\ t2 + 1 \in 0 .. UINT32_MAX
    BY <1>1, <1>6, <1>8, Uint32MaxAssumption
  <2>3. valid[<<t1, t2, limit>>] <=> valid[<<t1, left[t2], t2 + 1>>]
    BY <1>2, <1>3, <2>1
  <2> QED BY <1>1, <1>6, <1>8, <1>10, <2>2, <2>3 DEF SmallerStands
<1> QED BY <1>1, <1>4, <1>5, <1>6

(***************************************************************************)
(* A pair of tokens at a boundary that stands is valid.                    *)
(***************************************************************************)
LEMMA StandsIsValid ==
  ASSUME NEW rank, NEW n \in Nat, NEW len, NEW left, NEW right, NEW pairs, NEW K \in Nat,
         Merged(rank, n, len, left, right, pairs, K),
         \A t \in DOMAIN len : t < K => MergesTo(rank, n, len, left, t),
         NEW valid, Checks(valid, DOMAIN len, left, right, pairs)
  PROVE  \A t1, t2 \in DOMAIN len, limit \in 0 .. UINT32_MAX, l, m, r \in 0 .. n :
           /\ t1 < K /\ t2 < K
           /\ rank[<<l, m>>] = t1 /\ rank[<<m, r>>] = t2
           /\ Stands(rank, l, m, r, limit)
           => valid[<<t1, t2, limit>>]
<1> DEFINE Wrong(t1, t2) ==
             \E limit \in 0 .. UINT32_MAX, l, m, r \in 0 .. n :
               /\ t1 < K /\ t2 < K
               /\ rank[<<l, m>>] = t1 /\ rank[<<m, r>>] = t2
               /\ Stands(rank, l, m, r, limit)
               /\ ~valid[<<t1, t2, limit>>]
           Sums == {s \in Nat : \E t1, t2 \in DOMAIN len :
                      t1 \in Nat /\ t2 \in Nat /\ s = t1 + t2 /\ Wrong(t1, t2)}
<1>1. ASSUME NEW t1 \in DOMAIN len, NEW t2 \in DOMAIN len, Wrong(t1, t2)
      PROVE  /\ t1 \in Nat /\ t2 \in Nat
             /\ \E u1, u2 \in DOMAIN len :
                  /\ u1 \in Nat /\ u2 \in Nat
                  /\ (u1 < t1 /\ u2 = t2) \/ (u1 = t1 /\ u2 < t2)
                  /\ Wrong(u1, u2)
  <2>1. PICK limit \in 0 .. UINT32_MAX, l \in 0 .. n, m \in 0 .. n, r \in 0 .. n :
               /\ t1 < K /\ t2 < K
               /\ rank[<<l, m>>] = t1 /\ rank[<<m, r>>] = t2
               /\ Stands(rank, l, m, r, limit)
               /\ ~valid[<<t1, t2, limit>>]
    BY <1>1
  <2> HIDE DEF Wrong, Sums
  <2>2. /\ t1 \in Nat /\ t2 \in Nat
        /\ valid[<<t1, t2, limit>>] \/ SmallerStands(rank, n, len, valid, K, t1, t2, limit)
    BY <2>1, StandsSmaller
  <2>3. PICK u1 \in DOMAIN len, u2 \in DOMAIN len, lim \in 0 .. UINT32_MAX,
             a \in 0 .. n, b \in 0 .. n, c \in 0 .. n :
                /\ u1 \in Nat /\ u2 \in Nat /\ u1 < K /\ u2 < K
                /\ (u1 < t1 /\ u2 = t2) \/ (u1 = t1 /\ u2 < t2)
                /\ rank[<<a, b>>] = u1 /\ rank[<<b, c>>] = u2
                /\ Stands(rank, a, b, c, lim)
                /\ valid[<<t1, t2, limit>>] <=> valid[<<u1, u2, lim>>]
    BY <2>1, <2>2 DEF SmallerStands
  <2>4. Wrong(u1, u2)
    BY <2>1, <2>3 DEF Wrong
  <2> QED BY <2>2, <2>3, <2>4
<1> HIDE DEF Wrong
<1>2. Sums = {}
  <2> SUFFICES ASSUME Sums # {} PROVE FALSE
    OBVIOUS
  <2>1. PICK s \in Sums : \A x \in Sums : s <= x
    <3>1. Sums \in SUBSET Nat
      OBVIOUS
    <3> HIDE DEF Sums
    <3> QED BY <3>1, LeastExists
  <2>2. PICK t1 \in DOMAIN len, t2 \in DOMAIN len :
          t1 \in Nat /\ t2 \in Nat /\ s = t1 + t2 /\ Wrong(t1, t2)
    OBVIOUS
  <2>3. PICK u1 \in DOMAIN len, u2 \in DOMAIN len :
          /\ u1 \in Nat /\ u2 \in Nat
          /\ (u1 < t1 /\ u2 = t2) \/ (u1 = t1 /\ u2 < t2)
          /\ Wrong(u1, u2)
    BY <1>1, <2>2
  <2>4. u1 + u2 < t1 + t2 /\ u1 + u2 \in Nat
    BY <2>2, <2>3
  <2>5. u1 + u2 \in Sums
    BY <2>3, <2>4
  <2> QED BY <2>1, <2>2, <2>4, <2>5
<1>3. ASSUME NEW t1 \in DOMAIN len, NEW t2 \in DOMAIN len, Wrong(t1, t2) PROVE FALSE
  <2>1. t1 \in Nat /\ t2 \in Nat
    BY <1>1, <1>3
  <2>2. t1 + t2 \in Nat
    BY <2>1
  <2>3. t1 + t2 \in Sums
    BY <1>3, <2>1, <2>2
  <2> QED BY <1>2, <2>3
<1> QED BY <1>3 DEF Wrong

-----------------------------------------------------------------------------
(* The test of a pair, and the next merge.                                 *)

(***************************************************************************)
(* If the parts of token K are a valid pair under the merges below K, then *)
(* K merges to its parts wherever it is.                                   *)
(***************************************************************************)
LEMMA NextMerges ==
  ASSUME NEW rank, NEW n \in Nat, NEW len, NEW left, NEW right, NEW pairs, NEW K \in Nat,
         Merged(rank, n, len, left, right, pairs, K),
         \A t \in DOMAIN len : t < K => MergesTo(rank, n, len, left, t),
         NEW valid, Checks(valid, DOMAIN len, left, right, pairs),
         NEW a \in DOMAIN len, NEW b \in DOMAIN len, a < K, b < K,
         valid[<<a, b, UINT32_MAX>>],
         K # UINT32_MAX, len[K] > 1,
         \A i, j \in 0 .. n : rank[<<i, j>>] = K =>
           i + len[a] \in 0 .. n /\ rank[<<i, i + len[a]>>] = a /\ rank[<<i + len[a], j>>] = b,
         NEW newleft, newleft[K] = a
  PROVE  MergesTo(rank, n, len, newleft, K)
<1>0. ASSUME NEW lo \in 0 .. n, NEW hi \in 0 .. n, rank[<<lo, hi>>] = K,
             NEW B, IsStage(rank, lo, hi, B), B # {lo, hi}
      PROVE  /\ lo + len[a] \in B
             /\ \E i, m, j \in B : Joinable(rank, B, i, m, j) /\ rank[<<i, j>>] <= K
  <2> DEFINE c == lo + len[a]
  <2>1. /\ a \in Nat /\ b \in Nat /\ a # UINT32_MAX /\ b # UINT32_MAX
    BY TokenFacts
  <2>2. c \in 0 .. n /\ rank[<<lo, c>>] = a /\ rank[<<c, hi>>] = b
    BY <1>0
  <2>z. c = lo + len[a]
    OBVIOUS
  <2> HIDE DEF c
  <2>3. lo < c /\ c < hi /\ lo \in Nat /\ hi \in Nat /\ c \in Nat /\ lo <= hi
    BY <2>1, <2>2, RegionFacts
  <2>4. MergesTo(rank, n, len, left, a) /\ MergesTo(rank, n, len, left, b)
    OBVIOUS
  <2>s. lo <= c /\ lo # c /\ c <= hi /\ c # hi
    BY <2>3
  <2> DEFINE F == {C \in SUBSET (lo .. hi) : lo \in C /\ hi \in C /\ (C = {lo, hi} \/ c \in C)}
  <2>5. lo .. hi \in F
    BY <2>3
  <2>6. ASSUME NEW C \in F, IsStage(rank, lo, hi, C),
               NEW i \in C, NEW m \in C, NEW j \in C, LowestJoin(rank, C, i, m, j)
        PROVE  C \ {m} \in F
    <3>1. i < m /\ m < j /\ C \subseteq lo .. hi /\ lo \in C /\ hi \in C
      BY <2>6 DEF LowestJoin, Joinable, Gap
    <3>2. m # lo /\ m # hi
      BY <2>3, <3>1
    <3>3. c \in C
      <4>1. C = {lo, hi} \/ c \in C
        OBVIOUS
      <4> HIDE DEF F
      <4> QED BY <4>1, <3>2, <2>6
    <3>4. CASE m # c
      <4> QED BY <3>1, <3>2, <3>3, <3>4
    <3>5. CASE m = c
      <4>1. Gap(C, lo, c) /\ Gap(C, c, hi)
        <5> HIDE DEF F
        <5> SUFFICES ASSUME ~(Gap(C, lo, c) /\ Gap(C, c, hi)) PROVE FALSE
          OBVIOUS
        <5>1. rank[<<i, j>>] <= a \/ rank[<<i, j>>] <= b
          <6>2. CASE ~Gap(C, lo, c)
            BY <2>2, <2>3, <2>4, <2>6, <3>1, <3>3, <2>s, <6>2, RightPart
          <6>3. CASE ~Gap(C, c, hi)
            BY <2>2, <2>3, <2>4, <2>6, <3>1, <3>3, <2>s, <6>3, RightPart
          <6> QED BY <6>2, <6>3
        <5>2. rank[<<i, j>>] \in Nat /\ rank[<<i, j>>] < UINT32_MAX
          <6>1. i \in 0 .. n /\ j \in 0 .. n /\ rank[<<i, j>>] # UINT32_MAX
            BY <2>6, <3>1 DEF LowestJoin, Joinable
          <6>2. rank[<<i, j>>] \in DOMAIN len
            BY <6>1, RegionFacts
          <6> QED BY <6>2, TokenFacts
        <5>3. rank[<<i, j>>] < K
          BY <2>1, <5>1, <5>2
        <5>4. Broken(rank, lo, c, hi, UINT32_MAX, K)
          BY <2>6, <3>5, <5>2, <5>3 DEF Broken
        <5>5. UINT32_MAX \in 0 .. UINT32_MAX
          BY Uint32MaxAssumption
        <5>6. ~valid[<<a, b, UINT32_MAX>>]
          BY <2>2, <5>4, <5>5, BrokenIsInvalid
        <5> QED BY <5>6
      <4>2. C \ {c} = {lo, hi}
        <5> HIDE DEF F
        <5>1. ASSUME NEW k \in C, k # c PROVE k = lo \/ k = hi
          <6>1. k \in lo .. hi
            BY <3>1
          <6>2. k <= lo \/ c <= k
            BY <4>1 DEF Gap
          <6>3. k <= c \/ hi <= k
            BY <4>1 DEF Gap
          <6> QED BY <5>1, <6>1, <6>2, <6>3, <2>3
        <5>2. C \subseteq {lo, c, hi}
          BY <5>1
        <5>3. lo \in C /\ hi \in C /\ lo # c /\ hi # c
          BY <2>3, <3>1
        <5> QED BY <5>2, <5>3
      <4>3. {lo, hi} \in F
        BY <2>3
      <4> QED BY <3>5, <4>2, <4>3
    <3> QED BY <3>4, <3>5
  <2>7. B \in F
    <3>1. F \subseteq SUBSET (lo .. hi)
      OBVIOUS
    <3> HIDE DEF F
    <3> QED BY <1>0, <2>5, <2>6, <3>1, StageInduction
  <2>8. c \in B /\ lo \in B /\ hi \in B /\ B \subseteq lo .. hi
    BY <1>0, <2>7
  <2> HIDE DEF F
  <2>9. CASE Gap(B, lo, c) /\ Gap(B, c, hi)
    <3>1. Joinable(rank, B, lo, c, hi) /\ rank[<<lo, hi>>] <= K
      BY <1>0, <2>9 DEF Joinable
    <3> QED BY <2>8, <3>1, <2>z
  <2>10. CASE ~Gap(B, lo, c)
    <3>1. JoinWithin(rank, B, lo, c, a)
      BY <1>0, <2>2, <2>3, <2>4, <2>8, <2>s, <2>10, PartJoins
    <3>2. PICK i \in B, m \in B, j \in B :
            Joinable(rank, B, i, m, j) /\ rank[<<i, j>>] <= a
      BY <3>1 DEF JoinWithin
    <3>3. rank[<<i, j>>] <= K
      <4>1. i \in 0 .. n /\ j \in 0 .. n /\ rank[<<i, j>>] # UINT32_MAX
        BY <2>8, <3>2 DEF Joinable
      <4>2. rank[<<i, j>>] \in Nat
        BY <4>1, RegionFacts
      <4> QED BY <2>1, <3>2, <4>2
    <3> QED BY <2>8, <3>2, <3>3, <2>z
  <2>11. CASE ~Gap(B, c, hi)
    <3>1. JoinWithin(rank, B, c, hi, b)
      BY <1>0, <2>2, <2>3, <2>4, <2>8, <2>s, <2>11, PartJoins
    <3>2. PICK i \in B, m \in B, j \in B :
            Joinable(rank, B, i, m, j) /\ rank[<<i, j>>] <= b
      BY <3>1 DEF JoinWithin
    <3>3. rank[<<i, j>>] <= K
      <4>1. i \in 0 .. n /\ j \in 0 .. n /\ rank[<<i, j>>] # UINT32_MAX
        BY <2>8, <3>2 DEF Joinable
      <4>2. rank[<<i, j>>] \in Nat
        BY <4>1, RegionFacts
      <4> QED BY <2>1, <3>2, <4>2
    <3> QED BY <2>8, <3>2, <3>3, <2>z
  <2> QED BY <2>9, <2>10, <2>11
<1>1. len[K] > 1 /\ newleft[K] = a
  OBVIOUS
<1>2. \A lo, hi \in 0 .. n : rank[<<lo, hi>>] = K =>
        \A B : IsStage(rank, lo, hi, B) =>
          \/ B = {lo, hi}
          \/ /\ len[K] > 1
             /\ lo + len[newleft[K]] \in B
             /\ \E i, m, j \in B : Joinable(rank, B, i, m, j) /\ rank[<<i, j>>] <= K
  <2> SUFFICES ASSUME NEW lo \in 0 .. n, NEW hi \in 0 .. n, rank[<<lo, hi>>] = K,
                      NEW B, IsStage(rank, lo, hi, B), B # {lo, hi}
               PROVE  /\ len[K] > 1
                      /\ lo + len[newleft[K]] \in B
                      /\ \E i, m, j \in B : Joinable(rank, B, i, m, j) /\ rank[<<i, j>>] <= K
    BY SMTT(60)
  <2> QED BY <1>0, <1>1
<1> QED BY <1>2 DEF MergesTo

(* The splits and pairs are of a table: all of them are of tokens. *)
Splits(left, right, pairs) ==
  LET ids == DOMAIN left
  IN  /\ ids \subseteq 0 .. UINT32_MAX - 1
      /\ \A t \in ids : left[t] \in ids /\ right[t] \in ids
      /\ \A p \in DOMAIN pairs : pairs[p] # UINT32_MAX

(***************************************************************************)
(* bpe_is_valid_token_pair is a function for which its loop holds.         *)
(***************************************************************************)
LEMMA PairCheck ==
  ASSUME NEW left, NEW right, NEW pairs, Splits(left, right, pairs)
  PROVE  \E valid :
           /\ Checks(valid, DOMAIN left, left, right, pairs)
           /\ \A t1, t2 \in DOMAIN left :
                IsValidTokenPair(left, right, pairs, t1, t2) <=> valid[<<t1, t2, UINT32_MAX>>]
<1> DEFINE ids   == DOMAIN left
           M     == 0 .. UINT32_MAX
           D     == ids \X ids \X M
           Here(x) ==
             LET combined == IF <<x[1], x[2]>> \in DOMAIN pairs THEN pairs[<<x[1], x[2]>>]
                             ELSE UINT32_MAX
             IN  ~(combined # UINT32_MAX /\ combined < x[3])
           Ends(x) == right[x[1]] = x[1] /\ left[x[2]] = x[2]
           First(x) == ~(right[x[1]] = x[1]) /\ (x[1] > x[2] \/ left[x[2]] = x[2])
           Then(x) == IF First(x) THEN <<right[x[1]], x[2], x[1]>> ELSE <<x[1], left[x[2]], x[2] + 1>>
           Body(v, x) ==
             /\ Here(x)
             /\ ~Ends(x) => IF First(x) THEN v[<<right[x[1]], x[2], x[1]>>]
                            ELSE v[<<x[1], left[x[2]], x[2] + 1>>]
           valid == CHOOSE v : v = [x \in D |-> Body(v, x)]
           Closed(S) == \A x \in S : Here(x) /\ (~Ends(x) => Then(x) \in S)
           f == [x \in D |-> \E S \in SUBSET D : x \in S /\ Closed(S)]
<1>1. \A t1, t2 \in ids : IsValidTokenPair(left, right, pairs, t1, t2) = valid[<<t1, t2, UINT32_MAX>>]
  BY DEF IsValidTokenPair
<1>2. ids \subseteq Nat /\ \A t \in ids : t \in M /\ t + 1 \in M /\ left[t] \in ids /\ right[t] \in ids
  BY Uint32MaxAssumption DEF Splits
<1>3. \A x \in D : Then(x) \in D
  <2> SUFFICES ASSUME NEW x \in D PROVE Then(x) \in D
    OBVIOUS
  <2>1. x[1] \in ids /\ x[2] \in ids
    OBVIOUS
  <2> HIDE DEF M
  <2> QED BY <1>2, <2>1
<1>5. \A x \in D : f[x] = \E S \in SUBSET D : x \in S /\ Closed(S)
  <2> HIDE DEF Closed, D
  <2> QED OBVIOUS
<1>6. ASSUME NEW x \in D
      PROVE  f[x] <=> Here(x) /\ (~Ends(x) => f[Then(x)])
  <2> DEFINE y == Then(x)
  <2>1. y \in D
    BY <1>3
  <2> HIDE DEF D, Here, Ends, Then, f
  <2>3. ASSUME f[x] PROVE Here(x) /\ (~Ends(x) => f[y])
    <3>1. PICK S \in SUBSET D : x \in S /\ Closed(S)
      <4> HIDE DEF Closed
      <4> QED BY <1>5, <2>3
    <3>2. Here(x) /\ (~Ends(x) => y \in S)
      BY <3>1
    <3> HIDE DEF Closed
    <3> QED BY <1>5, <2>1, <3>1, <3>2
  <2>4. ASSUME Here(x), ~Ends(x) => f[y] PROVE f[x]
    <3>1. CASE Ends(x)
      <4>1. Closed({x})
        BY <2>4, <3>1
      <4>2. {x} \in SUBSET D /\ x \in {x}
        OBVIOUS
      <4> HIDE DEF Closed
      <4> QED BY <1>5, <4>1, <4>2
    <3>2. CASE ~Ends(x)
      <4>1. PICK S \in SUBSET D : y \in S /\ Closed(S)
        <5> HIDE DEF Closed
        <5> QED BY <1>5, <2>1, <2>4, <3>2
      <4>2. Closed(S \cup {x})
        BY <2>4, <3>2, <4>1
      <4>3. S \cup {x} \in SUBSET D /\ x \in S \cup {x}
        OBVIOUS
      <4> HIDE DEF Closed
      <4> QED BY <1>5, <4>2, <4>3
    <3> QED BY <3>1, <3>2
  <2> QED BY <2>3, <2>4
<1>7. f = [x \in D |-> Body(f, x)]
  <2>1. \A x \in D : f[x] \in BOOLEAN
    <3> HIDE DEF D, Closed, f
    <3> QED BY <1>5
  <2>2. ASSUME NEW x \in D PROVE f[x] = Body(f, x)
    <3> HIDE DEF D, Closed, f, Here, Ends, First
    <3>1. f[x] <=> Here(x) /\ (~Ends(x) => f[Then(x)])
      BY <1>6
    <3>2. Body(f, x) <=> Here(x) /\ (~Ends(x) => f[Then(x)])
      OBVIOUS
    <3>3. Body(f, x) \in BOOLEAN
      OBVIOUS
    <3> HIDE DEF Body, Then
    <3> QED BY <2>1, <3>1, <3>2, <3>3
  <2>3. f = [x \in D |-> f[x]]
    <3> HIDE DEF D, Closed
    <3> QED BY DEF f
  <2> HIDE DEF Body, D, f
  <2> QED BY <2>2, <2>3
<1> HIDE DEF f
<1>8. valid = [x \in D |-> Body(valid, x)]
  <2> HIDE DEF Body, D
  <2> QED BY <1>7
<1> HIDE DEF valid
<1>9. \A x \in D : valid[x] = Body(valid, x)
  <2> HIDE DEF Body, D
  <2> QED BY <1>8
<1>10. Checks(valid, ids, left, right, pairs)
  <2> SUFFICES ASSUME NEW t1 \in ids, NEW t2 \in ids, NEW limit \in M
               PROVE  valid[<<t1, t2, limit>>] <=>
                        /\ ~(<<t1, t2>> \in DOMAIN pairs /\ pairs[<<t1, t2>>] < limit)
                        /\ ~(right[t1] = t1 /\ left[t2] = t2) =>
                             IF right[t1] # t1 /\ (t1 > t2 \/ left[t2] = t2)
                             THEN valid[<<right[t1], t2, t1>>]
                             ELSE valid[<<t1, left[t2], t2 + 1>>]
    BY DEF Checks
  <2> DEFINE x == <<t1, t2, limit>>
  <2>1. x \in D /\ x[1] = t1 /\ x[2] = t2 /\ x[3] = limit
    OBVIOUS
  <2>2. \A p \in DOMAIN pairs : pairs[p] # UINT32_MAX
    BY DEF Splits
  <2>3. Here(x) <=> ~(<<t1, t2>> \in DOMAIN pairs /\ pairs[<<t1, t2>>] < limit)
    <3> HIDE DEF x
    <3> QED BY <2>1, <2>2
  <2>4. valid[x] = Body(valid, x)
    <3> HIDE DEF x, D, Body
    <3> QED BY <1>9, <2>1
  <2> HIDE DEF x, Here
  <2> QED BY <2>1, <2>3, <2>4 DEF x
<1> QED BY <1>1, <1>10

-----------------------------------------------------------------------------
(* What bpe_from_dictionary finds.                                         *)

Usable(vocab) ==
  /\ \E n \in 0 .. UINT32_MAX : DOMAIN vocab = 0 .. n - 1
  /\ \A id \in DOMAIN vocab :
       IsSeq(vocab[id]) /\ Len(vocab[id]) > 0 /\ Complete(vocab, vocab[id])
  /\ Mergeable(vocab)

(* The ids of a usable dictionary are numbers, its tokens nonempty sequences. *)
LEMMA UsableFacts ==
  ASSUME NEW vocab, Usable(vocab)
  PROVE  /\ DOMAIN vocab \subseteq 0 .. UINT32_MAX - 1 /\ DOMAIN vocab \subseteq Nat
         /\ UINT32_MAX \notin DOMAIN vocab
         /\ \A t \in DOMAIN vocab : IsSeq(vocab[t]) /\ Len(vocab[t]) \in Nat \ {0}
<1>1. PICK n \in 0 .. UINT32_MAX : DOMAIN vocab = 0 .. n - 1
  BY DEF Usable
<1>2. \A t \in DOMAIN vocab : IsSeq(vocab[t]) /\ Len(vocab[t]) > 0
  BY DEF Usable
<1>3. \A t \in DOMAIN vocab : Len(vocab[t]) \in Nat \ {0}
  <2> TAKE t \in DOMAIN vocab
  <2>1. IsSeq(vocab[t]) /\ Len(vocab[t]) > 0
    BY <1>2
  <2>2. Len(vocab[t]) \in Nat
    BY <2>1, SeqFacts
  <2> QED BY <2>1, <2>2
<1> QED BY <1>1, <1>2, <1>3, Uint32MaxAssumption

(* bpe_find_token_by_bytes finds the one token of the bytes. *)
LEMMA FindFacts ==
  ASSUME NEW vocab, NEW word
  PROVE  /\ FindTokenByBytes(vocab, word) # UINT32_MAX =>
              /\ FindTokenByBytes(vocab, word) \in DOMAIN vocab
              /\ vocab[FindTokenByBytes(vocab, word)] = word
         /\ Mergeable(vocab) =>
              \A t \in DOMAIN vocab : vocab[t] = word => FindTokenByBytes(vocab, word) = t
<1>1. CASE \E t \in DOMAIN vocab : vocab[t] = word
  <2>1. FindTokenByBytes(vocab, word) = CHOOSE t \in DOMAIN vocab : vocab[t] = word
    BY <1>1 DEF FindTokenByBytes
  <2>2. FindTokenByBytes(vocab, word) \in DOMAIN vocab /\ vocab[FindTokenByBytes(vocab, word)] = word
    BY <1>1, <2>1
  <2> QED BY <2>2 DEF Mergeable
<1>2. CASE ~ \E t \in DOMAIN vocab : vocab[t] = word
  BY <1>2 DEF FindTokenByBytes
<1> QED BY <1>1, <1>2

(* chain[t] are the tokens on the chain of prefixes from token t on. *)
IsChain(chain, ids, prefix) ==
  /\ chain[UINT32_MAX] = {}
  /\ \A t \in ids : chain[t] = {t} \cup chain[prefix[t]]

ChainFunction(chain, ids, prefix) ==
  chain = [t \in ids \cup {UINT32_MAX} |->
             IF t = UINT32_MAX THEN {} ELSE {t} \cup chain[prefix[t]]]

(* There is a function that collects the chains of prefixes. *)
LEMMA PrefixChainExists ==
  ASSUME NEW ids, UINT32_MAX \notin ids, NEW prefix, \A t \in ids : prefix[t] \in ids \cup {UINT32_MAX}
  PROVE  \E chain : ChainFunction(chain, ids, prefix)
<1> DEFINE Closed(S) == \A v \in S : v \in ids /\ prefix[v] \in ids => prefix[v] \in S
           f == [t \in ids \cup {UINT32_MAX} |->
                   IF t = UINT32_MAX THEN {}
                   ELSE {u \in ids : \A S \in SUBSET ids : t \in S /\ Closed(S) => u \in S}]
<1>1. f[UINT32_MAX] = {}
  OBVIOUS
<1>2. \A t \in ids : f[t] = {u \in ids : \A S \in SUBSET ids : t \in S /\ Closed(S) => u \in S}
  <2> HIDE DEF Closed
  <2> QED OBVIOUS
<1>3. f = [t \in ids \cup {UINT32_MAX} |-> f[t]]
  <2> HIDE DEF Closed
  <2> QED OBVIOUS
<1> HIDE DEF f
<1>4. ASSUME NEW t \in ids PROVE f[t] = {t} \cup f[prefix[t]]
  <2> DEFINE p == prefix[t]
  <2>1. t \in f[t]
    <3> HIDE DEF Closed
    <3> QED BY <1>2
  <2>2. CASE p = UINT32_MAX
    <3>1. Closed({t})
      BY <2>2
    <3>2. {t} \in SUBSET ids
      OBVIOUS
    <3>3. \A u \in f[t] : u = t
      <4> HIDE DEF Closed
      <4> QED BY <1>2, <3>1, <3>2
    <3> QED BY <1>1, <2>1, <2>2, <3>3
  <2>3. CASE p \in ids
    <3>1. ASSUME NEW u \in f[p] PROVE u \in f[t]
      <4>1. \A S \in SUBSET ids : t \in S /\ Closed(S) => p \in S
        BY <2>3
      <4> HIDE DEF Closed, p
      <4>2. u \in ids /\ \A S \in SUBSET ids : p \in S /\ Closed(S) => u \in S
        BY <1>2, <2>3, <3>1
      <4> QED BY <1>2, <4>1, <4>2
    <3>2. p \in f[p] /\ f[p] \subseteq ids
      <4> HIDE DEF Closed, p
      <4> QED BY <1>2, <2>3
    <3>3. Closed({t} \cup f[p])
      <4> SUFFICES ASSUME NEW v \in {t} \cup f[p], v \in ids, prefix[v] \in ids
                   PROVE  prefix[v] \in {t} \cup f[p]
        OBVIOUS
      <4>1. CASE v = t
        BY <3>2, <4>1
      <4>2. CASE v \in f[p]
        <5>1. \A S \in SUBSET ids : Closed(S) /\ v \in S => prefix[v] \in S
          OBVIOUS
        <5>2. \A S \in SUBSET ids : p \in S /\ Closed(S) => v \in S
          <6> HIDE DEF Closed, p
          <6> QED BY <1>2, <2>3, <4>2
        <5> HIDE DEF Closed, p
        <5>3. prefix[v] \in f[p]
          BY <1>2, <2>3, <5>1, <5>2
        <5> QED BY <5>3
      <4> QED BY <4>1, <4>2
    <3>4. {t} \cup f[p] \in SUBSET ids /\ t \in {t} \cup f[p]
      BY <3>2
    <3>5. f[t] \subseteq {t} \cup f[p]
      <4> HIDE DEF Closed, p
      <4> QED BY <1>2, <3>3, <3>4
    <3> QED BY <2>1, <3>1, <3>5
  <2> QED BY <2>2, <2>3
<1>5. f = [t \in ids \cup {UINT32_MAX} |-> IF t = UINT32_MAX THEN {} ELSE {t} \cup f[prefix[t]]]
  BY <1>1, <1>3, <1>4
<1> QED BY <1>5 DEF ChainFunction

WithMerge(merges, id, a, b) ==
  [left  |-> [merges.left  EXCEPT ![id] = a],
   right |-> [merges.right EXCEPT ![id] = b],
   pairs |-> [p \in DOMAIN merges.pairs \cup {<<a, b>>} |->
                IF p = <<a, b>> THEN id ELSE merges.pairs[p]]]

(* the merge of a token, from the tokens on the chain of its prefixes *)
AddFrom(vocab, merges, id, on_chain) ==
  LET Rest(t1)   == FindTokenByBytes(vocab, SubSeq(vocab[id], Len(vocab[t1]) + 1, Len(vocab[id])))
      candidates == {t1 \in on_chain :
                       /\ Rest(t1) # UINT32_MAX
                       /\ t1 < id
                       /\ Rest(t1) < id
                       /\ IsValidTokenPair(merges.left, merges.right, merges.pairs, t1, Rest(t1))}
      token1     == CHOOSE t1 \in candidates :
                      \A other \in candidates : Len(vocab[other]) <= Len(vocab[t1])
  IN  IF candidates = {} THEN merges ELSE WithMerge(merges, id, token1, Rest(token1))

(* The chain that AddMerge walks, named. *)
LEMMA AddMergeUnfolds ==
  ASSUME NEW vocab, UINT32_MAX \notin DOMAIN vocab,
         NEW prefix, \A t \in DOMAIN vocab : prefix[t] \in DOMAIN vocab \cup {UINT32_MAX},
         NEW merges, NEW id
  PROVE  \E chain : /\ IsChain(chain, DOMAIN vocab, prefix)
                    /\ AddMerge(vocab, prefix, merges, id) = AddFrom(vocab, merges, id, chain[prefix[id]])
<1> DEFINE ids == DOMAIN vocab
           chain == CHOOSE f : f = [t \in ids \cup {UINT32_MAX} |->
                                      IF t = UINT32_MAX THEN {} ELSE {t} \cup f[prefix[t]]]
<1>1. AddMerge(vocab, prefix, merges, id) = AddFrom(vocab, merges, id, chain[prefix[id]])
  BY DEF AddMerge, AddFrom, WithMerge
<1>2. chain = [t \in ids \cup {UINT32_MAX} |-> IF t = UINT32_MAX THEN {} ELSE {t} \cup chain[prefix[t]]]
  <2>1. \E f : ChainFunction(f, ids, prefix)
    BY PrefixChainExists
  <2>2. \E f : f = [t \in ids \cup {UINT32_MAX} |-> IF t = UINT32_MAX THEN {} ELSE {t} \cup f[prefix[t]]]
    BY <2>1 DEF ChainFunction
  <2> HIDE DEF ids
  <2> QED BY <2>2
<1> HIDE DEF chain
<1>3. IsChain(chain, ids, prefix)
  BY <1>2 DEF IsChain
<1> QED BY <1>1, <1>3

ProperPrefix(vocab, u, t) ==
  /\ u \in DOMAIN vocab
  /\ Len(vocab[u]) < Len(vocab[t])
  /\ OccursAt(vocab[u], vocab[t], 0, Len(vocab[t]))

(* next_prefix_match is a proper prefix, or there is none. *)
LEMMA PrefixIsProper ==
  ASSUME NEW vocab, Usable(vocab), NEW id \in DOMAIN vocab
  PROVE  LET prefix == NextPrefixMatch(vocab)[id]
         IN  prefix = UINT32_MAX \/ ProperPrefix(vocab, prefix, id)
<1> DEFINE to == IF Len(vocab[id]) > 1 THEN Len(vocab[id]) - 1 ELSE 0
           prefix == NextMatch(vocab, vocab[id], 0, to)
<1>1. \A t \in DOMAIN vocab : Len(vocab[t]) \in Nat /\ Len(vocab[t]) > 0 /\ Complete(vocab, vocab[t])
  BY UsableFacts DEF Usable
<1>2. to \in Nat /\ to <= Len(vocab[id]) /\ to < Len(vocab[id])
  BY <1>1
<1>3. NextPrefixMatch(vocab)[id] = prefix
  BY DEF NextPrefixMatch
<1>4. IF 0 = to THEN prefix = UINT32_MAX
      ELSE prefix \in DOMAIN vocab /\ OccursAt(vocab[prefix], vocab[id], 0, to)
  <2> HIDE DEF to
  <2> QED BY <1>1, <1>2, NextMatchComplete
<1>5. \A w : OccursAt(w, vocab[id], 0, to) /\ Len(w) \in Nat =>
              Len(w) < Len(vocab[id]) /\ OccursAt(w, vocab[id], 0, Len(vocab[id]))
  BY <1>1, <1>2 DEF OccursAt
<1> HIDE DEF to, prefix
<1> QED BY <1>1, <1>3, <1>4, <1>5 DEF ProperPrefix

(* A prefix of a prefix is one. *)
LEMMA PrefixTransitive ==
  ASSUME NEW vocab, Usable(vocab), NEW u, NEW v, NEW t \in DOMAIN vocab,
         ProperPrefix(vocab, u, v), ProperPrefix(vocab, v, t)
  PROVE  ProperPrefix(vocab, u, t)
<1>1. Len(vocab[u]) \in Nat /\ Len(vocab[v]) \in Nat /\ Len(vocab[t]) \in Nat
  BY UsableFacts DEF ProperPrefix
<1> QED BY <1>1 DEF ProperPrefix, OccursAt

(* The tokens on a chain start the token it is of. *)
LEMMA ChainStarts ==
  ASSUME NEW vocab, Usable(vocab), NEW chain, IsChain(chain, DOMAIN vocab, NextPrefixMatch(vocab)),
         NEW id \in DOMAIN vocab
  PROVE  \A u \in chain[NextPrefixMatch(vocab)[id]] : ProperPrefix(vocab, u, id)
<1> DEFINE ids == DOMAIN vocab
           prefix == NextPrefixMatch(vocab)
           Good == {n \in Nat : \A t \in ids : Len(vocab[t]) <= n =>
                                  \A u \in chain[t] : u = t \/ ProperPrefix(vocab, u, t)}
<1>1. \A t \in ids : Len(vocab[t]) \in Nat /\ Len(vocab[t]) > 0
  BY UsableFacts
<1>2. \A t \in ids : prefix[t] = UINT32_MAX \/ ProperPrefix(vocab, prefix[t], t)
  BY PrefixIsProper
<1> HIDE DEF prefix
<1>3. 0 \in Good
  BY <1>1
<1>4. ASSUME NEW n \in Nat, n \in Good PROVE n + 1 \in Good
  <2> SUFFICES ASSUME NEW t \in ids, Len(vocab[t]) <= n + 1, NEW u \in chain[t], u # t
               PROVE  ProperPrefix(vocab, u, t)
    OBVIOUS
  <2>1. u \in chain[prefix[t]]
    BY DEF IsChain, prefix
  <2>2. ProperPrefix(vocab, prefix[t], t)
    BY <1>2, <2>1 DEF IsChain
  <2>3. prefix[t] \in ids /\ Len(vocab[prefix[t]]) <= n
    BY <1>1, <2>2 DEF ProperPrefix
  <2>4. u = prefix[t] \/ ProperPrefix(vocab, u, prefix[t])
    BY <1>4, <2>1, <2>3
  <2> QED BY <2>2, <2>4, PrefixTransitive
<1>5. \A n \in Nat : n \in Good
  <2> HIDE DEF Good
  <2> QED BY <1>3, <1>4, SetInduction
<1>6. ASSUME NEW u \in chain[prefix[id]] PROVE ProperPrefix(vocab, u, id)
  <2>1. ProperPrefix(vocab, prefix[id], id)
    BY <1>2 DEF IsChain
  <2>2. u = prefix[id] \/ ProperPrefix(vocab, u, prefix[id])
    <3>1. prefix[id] \in ids /\ Len(vocab[prefix[id]]) \in Nat
      BY <1>1, <2>1 DEF ProperPrefix
    <3>2. Len(vocab[prefix[id]]) \in Good
      BY <1>5, <3>1
    <3> QED BY <3>1, <3>2
  <2> QED BY <2>1, <2>2, PrefixTransitive
<1> QED BY <1>6 DEF prefix

-----------------------------------------------------------------------------
(* The chain of prefixes of a token.                                       *)

(* Token t is a followed by b, both of lower ranks. *)
JoinsTo(vocab, t, a, b) ==
  /\ ProperPrefix(vocab, a, t) /\ a < t
  /\ b \in DOMAIN vocab /\ b < t
  /\ vocab[b] = SubSeq(vocab[t], Len(vocab[a]) + 1, Len(vocab[t]))

MergeStep(vocab, merges, id, merges2) ==
  \/ merges2 = merges
  \/ \E a, b \in DOMAIN vocab :
       /\ JoinsTo(vocab, id, a, b)
       /\ IsValidTokenPair(merges.left, merges.right, merges.pairs, a, b)
       /\ merges2 = WithMerge(merges, id, a, b)

(* What one id adds to the merges, whatever prefixes are on its chain. *)
LEMMA AddFromStep ==
  ASSUME NEW vocab, Usable(vocab), NEW merges, NEW id \in DOMAIN vocab, NEW on_chain,
         \A u \in on_chain : ProperPrefix(vocab, u, id)
  PROVE  MergeStep(vocab, merges, id, AddFrom(vocab, merges, id, on_chain))
<1> DEFINE Rest(t1)   == FindTokenByBytes(vocab, SubSeq(vocab[id], Len(vocab[t1]) + 1, Len(vocab[id])))
           candidates == {t1 \in on_chain :
                       /\ Rest(t1) # UINT32_MAX
                       /\ t1 < id
                       /\ Rest(t1) < id
                       /\ IsValidTokenPair(merges.left, merges.right, merges.pairs, t1, Rest(t1))}
           token1     == CHOOSE t1 \in candidates :
                           \A other \in candidates : Len(vocab[other]) <= Len(vocab[t1])
<1>1. AddFrom(vocab, merges, id, on_chain) =
        IF candidates = {} THEN merges ELSE WithMerge(merges, id, token1, Rest(token1))
  BY DEF AddFrom
<1>2. CASE candidates = {}
  BY <1>1, <1>2 DEF MergeStep
<1>3. CASE candidates # {}
  <2> DEFINE lengths == {Len(vocab[u]) : u \in candidates}
  <2>0. Len(vocab[id]) \in Nat
    BY UsableFacts
  <2>1. \A u \in candidates : u \in DOMAIN vocab /\ Len(vocab[u]) \in 0 .. Len(vocab[id])
    <3> TAKE u \in candidates
    <3>1. ProperPrefix(vocab, u, id)
      OBVIOUS
    <3>2. u \in DOMAIN vocab /\ Len(vocab[u]) < Len(vocab[id])
      BY <3>1 DEF ProperPrefix
    <3>3. Len(vocab[u]) \in Nat
      BY <3>2, UsableFacts
    <3> QED BY <2>0, <3>2, <3>3
  <2>2. lengths \subseteq 0 .. Len(vocab[id]) /\ lengths # {}
    <3> HIDE DEF candidates
    <3> QED BY <1>3, <2>1
  <2>3. PICK x \in lengths : \A y \in lengths : y <= x
    <3> HIDE DEF lengths
    <3> QED BY <2>0, <2>2, LargestExists
  <2>4. \E u \in candidates : \A other \in candidates : Len(vocab[other]) <= Len(vocab[u])
    <3> HIDE DEF candidates
    <3> QED BY <2>3
  <2>5. token1 \in candidates
    <3> HIDE DEF candidates
    <3> QED BY <2>4
  <2> HIDE DEF token1, lengths
  <2>6. /\ ProperPrefix(vocab, token1, id) /\ token1 < id
        /\ Rest(token1) # UINT32_MAX /\ Rest(token1) < id
        /\ IsValidTokenPair(merges.left, merges.right, merges.pairs, token1, Rest(token1))
    BY <2>5
  <2> HIDE DEF candidates
  <2>7. Rest(token1) \in DOMAIN vocab
        /\ vocab[Rest(token1)] = SubSeq(vocab[id], Len(vocab[token1]) + 1, Len(vocab[id]))
    BY <2>6, FindFacts
  <2>8. JoinsTo(vocab, id, token1, Rest(token1))
    BY <2>6, <2>7 DEF JoinsTo
  <2> HIDE DEF Rest
  <2> QED BY <1>1, <1>3, <2>1, <2>5, <2>6, <2>7, <2>8 DEF MergeStep
<1> QED BY <1>2, <1>3

(* What one id adds to the merges. *)
LEMMA AddMergeStep ==
  ASSUME NEW vocab, Usable(vocab), NEW merges, NEW id \in DOMAIN vocab
  PROVE  MergeStep(vocab, merges, id, AddMerge(vocab, NextPrefixMatch(vocab), merges, id))
<1>1. UINT32_MAX \notin DOMAIN vocab
  BY UsableFacts
<1>2. \A t \in DOMAIN vocab : NextPrefixMatch(vocab)[t] \in DOMAIN vocab \cup {UINT32_MAX}
  BY PrefixIsProper DEF ProperPrefix
<1>3. PICK chain : /\ IsChain(chain, DOMAIN vocab, NextPrefixMatch(vocab))
                   /\ AddMerge(vocab, NextPrefixMatch(vocab), merges, id)
                        = AddFrom(vocab, merges, id, chain[NextPrefixMatch(vocab)[id]])
  BY <1>1, <1>2, AddMergeUnfolds
<1>4. \A u \in chain[NextPrefixMatch(vocab)[id]] : ProperPrefix(vocab, u, id)
  BY <1>3, ChainStarts
<1> QED BY <1>3, <1>4, AddFromStep

-----------------------------------------------------------------------------
(* The loop over the ids.                                                  *)

(* the merges of a dictionary of these ids *)
MergeTables(ids) ==
  [left : [ids -> ids], right : [ids -> ids],
   pairs : UNION {[E -> ids] : E \in SUBSET (ids \X ids)}]

NoMerges(ids) == [left |-> [id \in ids |-> id], right |-> [id \in ids |-> id], pairs |-> <<>>]

(* With one merge more the tables are tables. *)
LEMMA WithMergeTyped ==
  ASSUME NEW ids, NEW m \in MergeTables(ids), NEW id \in ids, NEW a \in ids, NEW b \in ids
  PROVE  WithMerge(m, id, a, b) \in MergeTables(ids)
<1> DEFINE E == DOMAIN m.pairs \cup {<<a, b>>}
           g == [p \in E |-> IF p = <<a, b>> THEN id ELSE m.pairs[p]]
<1>1. PICK D \in SUBSET (ids \X ids) : m.pairs \in [D -> ids]
  BY DEF MergeTables
<1>2. E \in SUBSET (ids \X ids) /\ g \in [E -> ids]
  <2>1. DOMAIN m.pairs = D /\ \A p \in D : m.pairs[p] \in ids
    BY <1>1
  <2>2. <<a, b>> \in ids \X ids
    OBVIOUS
  <2> QED BY <2>1, <2>2
<1> HIDE DEF E
<1>3. g \in UNION {[F -> ids] : F \in SUBSET (ids \X ids)}
  <2> HIDE DEF g
  <2> QED BY <1>2
<1>4. m.left \in [ids -> ids] /\ m.right \in [ids -> ids]
  BY DEF MergeTables
<1>5. [m.left EXCEPT ![id] = a] \in [ids -> ids] /\ [m.right EXCEPT ![id] = b] \in [ids -> ids]
  BY <1>4
<1>6. WithMerge(m, id, a, b) = [left |-> [m.left EXCEPT ![id] = a], right |-> [m.right EXCEPT ![id] = b], pairs |-> g]
  BY DEF WithMerge, E
<1> HIDE DEF g
<1> QED BY <1>3, <1>5, <1>6 DEF MergeTables

(* So they are after every id. *)
LEMMA MergeStepTyped ==
  ASSUME NEW vocab, NEW m \in MergeTables(DOMAIN vocab), NEW id \in DOMAIN vocab, NEW m2,
         MergeStep(vocab, m, id, m2)
  PROVE  m2 \in MergeTables(DOMAIN vocab)
BY WithMergeTyped DEF MergeStep

(* They are before the first id. *)
LEMMA NoMergesTyped == ASSUME NEW ids PROVE NoMerges(ids) \in MergeTables(ids)
<1>1. <<>> \in [{} -> ids] /\ {} \in SUBSET (ids \X ids)
  OBVIOUS
<1>2. <<>> \in UNION {[E -> ids] : E \in SUBSET (ids \X ids)}
  BY <1>1
<1> QED BY <1>2 DEF NoMerges, MergeTables

(* upto[k] are the merges of the tokens below k. *)
Building(vocab, n, upto) ==
  /\ DOMAIN vocab = 0 .. n - 1 /\ n \in Nat /\ n <= UINT32_MAX
  /\ upto[0] = NoMerges(DOMAIN vocab)
  /\ \A k \in 0 .. n : upto[k] \in MergeTables(DOMAIN vocab)
  /\ \A k \in 1 .. n : MergeStep(vocab, upto[k - 1], k - 1, upto[k])
  /\ FromDictionary(vocab).split_left = upto[n].left
  /\ FromDictionary(vocab).split_right = upto[n].right
  /\ FromDictionary(vocab).pair_lookup = upto[n].pairs

(* The loop over the ids, as a function of the number of ids done. *)
LEMMA MergesUnfold ==
  ASSUME NEW vocab, Usable(vocab)
  PROVE  \E n, upto : Building(vocab, n, upto)
<1>1. PICK n \in 0 .. UINT32_MAX : DOMAIN vocab = 0 .. n - 1
  BY DEF Usable
<1> DEFINE ids == DOMAIN vocab
           S   == MergeTables(ids)
           prefix == NextPrefixMatch(vocab)
           step == [x \in (1 .. n) \X S |-> AddMerge(vocab, prefix, x[2], x[1] - 1)]
           upto == CHOOSE f : f = [k \in 0 .. n |-> IF k = 0
                                                    THEN [left |-> [id \in DOMAIN vocab |-> id], right |-> [id \in DOMAIN vocab |-> id], pairs |-> <<>>]
                                                    ELSE AddMerge(vocab, prefix, f[k - 1], k - 1)]
<1>2. n \in Nat /\ n <= UINT32_MAX
  BY <1>1, Uint32MaxAssumption
<1>3. Cardinality(DOMAIN vocab) = n
  <2>1. 0 \in Int /\ n - 1 \in Int
    BY <1>2
  <2>2. Cardinality(0 .. n - 1) = IF 0 > n - 1 THEN 0 ELSE n - 1 - 0 + 1
    BY <2>1, FS_Interval
  <2> QED BY <1>1, <1>2, <2>2
<1>4. Merges(vocab, prefix) = upto[n]
  BY <1>3 DEF Merges
<1>5. \A k \in 1 .. n, m \in S : AddMerge(vocab, prefix, m, k - 1) \in S
                                /\ MergeStep(vocab, m, k - 1, AddMerge(vocab, prefix, m, k - 1))
  <2> TAKE k \in 1 .. n, m \in S
  <2>1. k - 1 \in DOMAIN vocab
    BY <1>1, <1>2
  <2>2. MergeStep(vocab, m, k - 1, AddMerge(vocab, prefix, m, k - 1))
    BY <2>1, AddMergeStep
  <2> QED BY <2>1, <2>2, MergeStepTyped
<1>6. \A k \in 1 .. n, m \in S : step[<<k, m>>] = AddMerge(vocab, prefix, m, k - 1)
  <2> HIDE DEF S, prefix
  <2> QED OBVIOUS
<1>7. StepsIn(step, n, S)
  <2> HIDE DEF step, S, prefix
  <2> QED BY <1>5, <1>6 DEF StepsIn
<1>8. NoMerges(ids) \in S
  BY NoMergesTyped
<1>9. PICK f : Recursion(f, NoMerges(ids), step, n, S)
  <2> HIDE DEF step, S, ids
  <2> QED BY <1>2, <1>7, <1>8, RecursionExists
<1>10. /\ f \in [0 .. n -> S] /\ f[0] = NoMerges(ids)
       /\ \A k \in 1 .. n : f[k] = AddMerge(vocab, prefix, f[k - 1], k - 1)
  <2>1. /\ f \in [0 .. n -> S] /\ f[0] = NoMerges(ids)
        /\ \A k \in 1 .. n : f[k - 1] \in S /\ f[k] = step[<<k, f[k - 1]>>]
    <3> HIDE DEF step, S, ids
    <3> QED BY <1>9 DEF Recursion
  <2> HIDE DEF step, S, prefix, ids
  <2> QED BY <1>6, <2>1
<1>11. f = [k \in 0 .. n |-> IF k = 0 THEN NoMerges(ids) ELSE AddMerge(vocab, prefix, f[k - 1], k - 1)]
  <2> HIDE DEF S, prefix, ids
  <2>1. f = [k \in 0 .. n |-> f[k]]
    BY <1>10
  <2>2. \A k \in 0 .. n : f[k] = IF k = 0 THEN NoMerges(ids) ELSE AddMerge(vocab, prefix, f[k - 1], k - 1)
    BY <1>10
  <2> QED BY <2>1, <2>2
<1>12. upto = [k \in 0 .. n |-> IF k = 0 THEN NoMerges(ids) ELSE AddMerge(vocab, prefix, upto[k - 1], k - 1)]
  <2>1. upto = CHOOSE g : g = [k \in 0 .. n |-> IF k = 0 THEN NoMerges(ids)
                                                ELSE AddMerge(vocab, prefix, g[k - 1], k - 1)]
    BY DEF NoMerges
  <2> HIDE DEF upto, prefix, ids
  <2> QED BY <1>11, <2>1
<1> HIDE DEF upto
<1>13. /\ upto[0] = NoMerges(ids)
       /\ \A k \in 1 .. n : upto[k] = AddMerge(vocab, prefix, upto[k - 1], k - 1)
  <2> HIDE DEF prefix, ids
  <2>1. \A k \in 0 .. n : upto[k] = IF k = 0 THEN NoMerges(ids) ELSE AddMerge(vocab, prefix, upto[k - 1], k - 1)
    BY <1>12
  <2> QED BY <1>2, <2>1
<1>14. \A k \in 0 .. n : upto[k] \in S
  <2> DEFINE Good == {k \in Nat : k <= n => upto[k] \in S}
  <2>1. 0 \in Good
    BY <1>8, <1>13
  <2>2. ASSUME NEW k \in Nat, k \in Good PROVE k + 1 \in Good
    <3> HIDE DEF S, prefix, ids
    <3> SUFFICES ASSUME k + 1 <= n PROVE upto[k + 1] \in S
      OBVIOUS
    <3> DEFINE j == k + 1
    <3>1. j \in 1 .. n /\ j - 1 = k /\ upto[k] \in S
      BY <1>2, <2>2
    <3> HIDE DEF j
    <3>2. upto[j] = AddMerge(vocab, prefix, upto[j - 1], j - 1) /\ upto[j - 1] \in S
      BY <1>13, <3>1
    <3>3. upto[j] \in S
      BY <1>5, <3>1, <3>2
    <3> QED BY <3>3 DEF j
  <2>3. \A k \in Nat : k \in Good
    <3> HIDE DEF Good
    <3> QED BY <2>1, <2>2, SetInduction
  <2> QED BY <1>2, <2>3
<1>15. \A k \in 1 .. n : MergeStep(vocab, upto[k - 1], k - 1, upto[k])
  <2> TAKE k \in 1 .. n
  <2>1. k - 1 \in 0 .. n
    BY <1>2
  <2> HIDE DEF S, prefix, ids
  <2> QED BY <1>5, <1>13, <1>14, <2>1
<1>16. /\ FromDictionary(vocab).split_left = upto[n].left
       /\ FromDictionary(vocab).split_right = upto[n].right
       /\ FromDictionary(vocab).pair_lookup = upto[n].pairs
  BY <1>4 DEF FromDictionary
<1> HIDE DEF S
<1>17. Building(vocab, n, upto)
  BY <1>1, <1>2, <1>13, <1>14, <1>15, <1>16 DEF Building, S
<1> QED BY <1>17

-----------------------------------------------------------------------------
(* What the merges mean.                                                   *)

(* w is x followed by y *)
Spells(w, x, y) ==
  /\ Len(w) = Len(x) + Len(y)
  /\ \A k \in 1 .. Len(x) : w[k] = x[k]
  /\ \A k \in 1 .. Len(y) : w[Len(x) + k] = y[k]

(* Two parts spell one word. *)
LEMMA SpellsUnique ==
  ASSUME NEW v, NEW w, NEW x, NEW y, IsSeq(v), IsSeq(w), IsSeq(x), IsSeq(y),
         Spells(v, x, y), Spells(w, x, y)
  PROVE  v = w
<1> DEFINE la == Len(x)
           lb == Len(y)
<1>1. /\ Len(v) = la + lb
      /\ \A k \in 1 .. la : v[k] = x[k]
      /\ \A k \in 1 .. lb : v[la + k] = y[k]
  BY DEF Spells
<1>2. /\ Len(w) = la + lb
      /\ \A k \in 1 .. la : w[k] = x[k]
      /\ \A k \in 1 .. lb : w[la + k] = y[k]
  BY DEF Spells
<1>3. la \in Nat /\ lb \in Nat
  BY SeqFacts
<1> HIDE DEF la, lb
<1>4. \A k \in 1 .. Len(v) : v[k] = w[k]
  <2> SUFFICES ASSUME NEW k \in 1 .. la + lb PROVE v[k] = w[k]
    BY <1>1
  <2>1. CASE k <= la
    BY <1>1, <1>2, <1>3, <2>1
  <2>2. CASE la < k
    <3>1. k - la \in 1 .. lb /\ la + (k - la) = k
      BY <1>3, <2>2
    <3> QED BY <1>1, <1>2, <3>1
  <2> QED BY <1>3, <2>1, <2>2
<1> QED BY <1>1, <1>2, <1>4, SameSeq

(* The parts of a token are tokens of lower ranks that spell it. *)
LEMMA PartsFacts ==
  ASSUME NEW vocab, Usable(vocab), NEW t \in DOMAIN vocab, NEW a, NEW b, JoinsTo(vocab, t, a, b)
  PROVE  /\ a \in DOMAIN vocab /\ b \in DOMAIN vocab /\ a < t /\ b < t
         /\ Spells(vocab[t], vocab[a], vocab[b])
<1> DEFINE from == Len(vocab[a])
           n == Len(vocab[t]) - from
           w == vocab[t]
<1>1. /\ a \in DOMAIN vocab /\ b \in DOMAIN vocab /\ a < t /\ b < t
      /\ from < Len(w) /\ OccursAt(vocab[a], w, 0, Len(w))
      /\ vocab[b] = SubSeq(w, from + 1, Len(w))
  BY DEF JoinsTo, ProperPrefix
<1>2. from \in Nat /\ Len(w) \in Nat /\ IsSeq(w)
  BY <1>1, UsableFacts
<1>3. n \in Nat /\ from + n <= Len(w) /\ from + n = Len(w)
  BY <1>1, <1>2
<1>4. \A k \in 1 .. from : w[k] = vocab[a][k]
  <2>1. \A k \in 1 .. from : 0 + k = k
    BY <1>2
  <2> HIDE DEF w
  <2> QED BY <1>1, <2>1 DEF OccursAt
<1> HIDE DEF n, w, from
<1>5. /\ Len(SubSeq(w, from + 1, from + n)) = n
      /\ \A k \in 1 .. n : SubSeq(w, from + 1, from + n)[k] = w[from + k]
  BY <1>2, <1>3, SliceFacts
<1>6. Len(vocab[b]) = n /\ \A k \in 1 .. n : vocab[b][k] = w[from + k]
  BY <1>1, <1>3, <1>5
<1>7. Len(w) = from + n
  BY <1>3
<1>8. Spells(w, vocab[a], vocab[b])
  BY <1>4, <1>6, <1>7 DEF from, Spells
<1> QED BY <1>1, <1>8 DEF w

(* No two tokens have the same parts. *)
LEMMA PartsUnique ==
  ASSUME NEW vocab, Usable(vocab), NEW s \in DOMAIN vocab, NEW t \in DOMAIN vocab, NEW a, NEW b,
         JoinsTo(vocab, s, a, b), JoinsTo(vocab, t, a, b)
  PROVE  s = t
<1>1. /\ a \in DOMAIN vocab /\ b \in DOMAIN vocab
      /\ Spells(vocab[s], vocab[a], vocab[b]) /\ Spells(vocab[t], vocab[a], vocab[b])
  BY PartsFacts
<1>2. IsSeq(vocab[s]) /\ IsSeq(vocab[t]) /\ IsSeq(vocab[a]) /\ IsSeq(vocab[b])
  BY <1>1, UsableFacts
<1>3. vocab[s] = vocab[t]
  BY <1>1, <1>2, SpellsUnique
<1> QED BY <1>3 DEF Usable, Mergeable

IsSplit(vocab, m, t) ==
  /\ JoinsTo(vocab, t, m.left[t], m.right[t])
  /\ <<m.left[t], m.right[t]>> \in DOMAIN m.pairs
  /\ m.pairs[<<m.left[t], m.right[t]>>] = t

PairOK(vocab, m, k, p) ==
  /\ m.pairs[p] \in DOMAIN vocab /\ m.pairs[p] < k
  /\ p = <<m.left[m.pairs[p]], m.right[m.pairs[p]]>>
  /\ JoinsTo(vocab, m.pairs[p], m.left[m.pairs[p]], m.right[m.pairs[p]])

(* The merges below k. *)
MergesOK(vocab, m, k) ==
  /\ \A t \in DOMAIN vocab : t >= k => m.left[t] = t /\ m.right[t] = t
  /\ \A t \in DOMAIN vocab : (m.left[t] = t /\ m.right[t] = t) \/ IsSplit(vocab, m, t)
  /\ \A p \in DOMAIN m.pairs : PairOK(vocab, m, k, p)

(* The merges stay right when one id more is done. *)
LEMMA MergeStepOK ==
  ASSUME NEW vocab, Usable(vocab), NEW m \in MergeTables(DOMAIN vocab), NEW k \in DOMAIN vocab,
         MergesOK(vocab, m, k), NEW m2, MergeStep(vocab, m, k, m2)
  PROVE  /\ MergesOK(vocab, m2, k + 1)
         /\ \A t \in DOMAIN vocab : t # k => m2.left[t] = m.left[t] /\ m2.right[t] = m.right[t]
<1>0. k \in Nat /\ DOMAIN vocab \subseteq Nat
  BY UsableFacts
<1>1. CASE m2 = m
  <2>1. \A p \in DOMAIN m.pairs : PairOK(vocab, m, k + 1, p)
    BY <1>0 DEF MergesOK, PairOK
  <2> QED BY <1>0, <1>1, <2>1 DEF MergesOK
<1>2. ASSUME NEW a \in DOMAIN vocab, NEW b \in DOMAIN vocab, JoinsTo(vocab, k, a, b),
             m2 = WithMerge(m, k, a, b)
      PROVE  /\ MergesOK(vocab, m2, k + 1)
             /\ \A t \in DOMAIN vocab : t # k => m2.left[t] = m.left[t] /\ m2.right[t] = m.right[t]
  <2>1. m.left \in [DOMAIN vocab -> DOMAIN vocab] /\ m.right \in [DOMAIN vocab -> DOMAIN vocab]
    BY DEF MergeTables
  <2>2. /\ m2.left = [m.left EXCEPT ![k] = a] /\ m2.right = [m.right EXCEPT ![k] = b]
        /\ m2.pairs = [p \in DOMAIN m.pairs \cup {<<a, b>>} |-> IF p = <<a, b>> THEN k ELSE m.pairs[p]]
    BY <1>2 DEF WithMerge
  <2>3. /\ m2.left[k] = a /\ m2.right[k] = b
        /\ \A t \in DOMAIN vocab : t # k => m2.left[t] = m.left[t] /\ m2.right[t] = m.right[t]
    BY <2>1, <2>2
  <2>4. /\ DOMAIN m2.pairs = DOMAIN m.pairs \cup {<<a, b>>} /\ m2.pairs[<<a, b>>] = k
        /\ \A p \in DOMAIN m.pairs : p # <<a, b>> => m2.pairs[p] = m.pairs[p]
    BY <2>2
  <2>5. <<a, b>> \notin DOMAIN m.pairs
    <3> SUFFICES ASSUME <<a, b>> \in DOMAIN m.pairs PROVE FALSE
      OBVIOUS
    <3> DEFINE t == m.pairs[<<a, b>>]
    <3>1. t \in DOMAIN vocab /\ t < k /\ m.left[t] = a /\ m.right[t] = b
          /\ JoinsTo(vocab, t, m.left[t], m.right[t])
      <4>1. PairOK(vocab, m, k, <<a, b>>)
        BY DEF MergesOK
      <4> QED BY <4>1 DEF PairOK
    <3> HIDE DEF t
    <3>2. t = k
      BY <1>2, <3>1, PartsUnique
    <3> QED BY <1>0, <3>1, <3>2
  <2>6. ASSUME NEW t \in DOMAIN vocab, t >= k + 1 PROVE m2.left[t] = t /\ m2.right[t] = t
    <3>1. t # k /\ t >= k
      BY <1>0, <2>6
    <3> QED BY <2>3, <3>1 DEF MergesOK
  <2>7. ASSUME NEW t \in DOMAIN vocab
        PROVE  (m2.left[t] = t /\ m2.right[t] = t) \/ IsSplit(vocab, m2, t)
    <3>1. CASE t = k
      BY <1>2, <2>3, <2>4, <3>1 DEF IsSplit
    <3>2. CASE t # k
      <4>1. (m.left[t] = t /\ m.right[t] = t) \/ IsSplit(vocab, m, t)
        BY DEF MergesOK
      <4>2. CASE IsSplit(vocab, m, t)
        <5>1. <<m.left[t], m.right[t]>> # <<a, b>>
          BY <2>5, <4>2 DEF IsSplit
        <5> QED BY <2>3, <2>4, <3>2, <4>2, <5>1 DEF IsSplit
      <4> QED BY <2>3, <3>2, <4>1, <4>2
    <3> QED BY <3>1, <3>2
  <2>8. ASSUME NEW p \in DOMAIN m2.pairs PROVE PairOK(vocab, m2, k + 1, p)
    <3>1. CASE p = <<a, b>>
      BY <1>0, <1>2, <2>3, <2>4, <3>1 DEF PairOK
    <3>2. CASE p # <<a, b>>
      <4>1. p \in DOMAIN m.pairs /\ m2.pairs[p] = m.pairs[p]
        BY <2>4, <3>2
      <4>2. PairOK(vocab, m, k, p)
        BY <4>1 DEF MergesOK
      <4>3. m.pairs[p] \in DOMAIN vocab /\ m.pairs[p] < k /\ m.pairs[p] # k /\ m.pairs[p] < k + 1
        BY <1>0, <4>2 DEF PairOK
      <4>4. m2.left[m.pairs[p]] = m.left[m.pairs[p]] /\ m2.right[m.pairs[p]] = m.right[m.pairs[p]]
        BY <2>3, <4>3
      <4> QED BY <4>1, <4>2, <4>3, <4>4 DEF PairOK
    <3> QED BY <3>1, <3>2
  <2> QED BY <2>3, <2>6, <2>7, <2>8 DEF MergesOK
<1> QED BY <1>1, <1>2 DEF MergeStep

(***************************************************************************)
(* The merges up to any token: they are in order, they are those of the    *)
(* finished dictionary, and they are complete.                             *)
(***************************************************************************)
LEMMA BuildingOK ==
  ASSUME NEW vocab, Usable(vocab), NEW n, NEW upto, Building(vocab, n, upto)
  PROVE  \A k \in 0 .. n :
           /\ MergesOK(vocab, upto[k], k)
           /\ \A t \in DOMAIN vocab : t < k => upto[n].left[t] = upto[k].left[t]
<1> DEFINE ids == DOMAIN vocab
<1>1. /\ ids = 0 .. n - 1 /\ n \in Nat /\ upto[0] = NoMerges(ids)
      /\ \A k \in 0 .. n : upto[k] \in MergeTables(ids)
      /\ \A k \in 1 .. n : MergeStep(vocab, upto[k - 1], k - 1, upto[k])
  BY DEF Building
<1> DEFINE Good == {k \in Nat : k <= n =>
              /\ MergesOK(vocab, upto[k], k)
              /\ \A j \in 0 .. k, t \in ids : t < j => upto[k].left[t] = upto[j].left[t]}
<1>2. 0 \in Good
  <2>1. MergesOK(vocab, upto[0], 0)
    BY <1>1 DEF MergesOK, NoMerges
  <2>2. \A j \in 0 .. 0, t \in ids : ~(t < j)
    BY <1>1
  <2> HIDE DEF ids
  <2> QED BY <2>1, <2>2
<1>3. ASSUME NEW k \in Nat, k \in Good PROVE k + 1 \in Good
  <2> SUFFICES ASSUME k + 1 <= n
               PROVE  /\ MergesOK(vocab, upto[k + 1], k + 1)
                      /\ \A j \in 0 .. k + 1, t \in ids : t < j => upto[k + 1].left[t] = upto[j].left[t]
    OBVIOUS
  <2>1. k \in ids /\ k \in 0 .. n /\ k + 1 \in 1 .. n /\ (k + 1) - 1 = k
    BY <1>1
  <2>2. MergesOK(vocab, upto[k], k) /\ upto[k] \in MergeTables(ids)
    BY <1>1, <1>3, <2>1
  <2>3. MergeStep(vocab, upto[k], k, upto[k + 1])
    <3> DEFINE j == k + 1
    <3>1. j \in 1 .. n /\ j - 1 = k
      BY <2>1
    <3> HIDE DEF j
    <3>2. MergeStep(vocab, upto[j - 1], j - 1, upto[j])
      BY <1>1, <3>1
    <3>3. MergeStep(vocab, upto[k], k, upto[j])
      BY <3>1, <3>2
    <3> QED BY <3>3 DEF j
  <2>4. /\ MergesOK(vocab, upto[k + 1], k + 1)
        /\ \A t \in ids : t # k => upto[k + 1].left[t] = upto[k].left[t]
    BY <2>1, <2>2, <2>3, MergeStepOK
  <2>5. ASSUME NEW j \in 0 .. k + 1, NEW t \in ids, t < j
        PROVE  upto[k + 1].left[t] = upto[j].left[t]
    <3>1. CASE j = k + 1
      BY <3>1
    <3>2. CASE j \in 0 .. k
      <4>1. t # k /\ k <= n
        BY <1>1, <2>1, <2>5, <3>2
      <4>2. upto[k].left[t] = upto[j].left[t]
        BY <1>3, <2>5, <3>2, <4>1
      <4> QED BY <2>4, <4>1, <4>2
    <3> QED BY <3>1, <3>2
  <2> QED BY <2>4, <2>5
<1>4. \A k \in Nat : k \in Good
  <2> HIDE DEF Good
  <2> QED BY <1>2, <1>3, SetInduction
<1>5. n \in Good /\ n <= n
  BY <1>1, <1>4
<1> QED BY <1>1, <1>4, <1>5

-----------------------------------------------------------------------------
(* The regions of a text.                                                  *)

Ranks(vocab, text) ==
  [p \in (0 .. Len(text)) \X (0 .. Len(text)) |-> FindTokenByBytes(vocab, SubSeq(text, p[1] + 1, p[2]))]

Lens(vocab) == [t \in DOMAIN vocab |-> Len(vocab[t])]

(* the bytes from position i to position j of the text *)
IsSlice(text, i, j, w) ==
  /\ IsSeq(w) /\ Len(w) = j - i
  /\ \A k \in 1 .. j - i : w[k] = text[i + k]

(* A subsequence is a slice. *)
LEMMA SubSeqIsSlice ==
  ASSUME NEW text, IsSeq(text), NEW i \in 0 .. Len(text), NEW j \in 0 .. Len(text), i <= j
  PROVE  IsSlice(text, i, j, SubSeq(text, i + 1, j))
<1> DEFINE n == j - i
<1>1. Len(text) \in Nat
  BY SeqFacts
<1>2. i \in Nat /\ n \in Nat /\ i + n <= Len(text) /\ i + n = j
  BY <1>1
<1> HIDE DEF n
<1>3. /\ IsSeq(SubSeq(text, i + 1, i + n))
      /\ Len(SubSeq(text, i + 1, i + n)) = n
      /\ \A k \in 1 .. n : SubSeq(text, i + 1, i + n)[k] = text[i + k]
  BY <1>2, SliceFacts
<1> QED BY <1>2, <1>3 DEF IsSlice, n

(* A region has one slice. *)
LEMMA SameSlice ==
  ASSUME NEW text, NEW i, NEW j, NEW v, NEW w, IsSlice(text, i, j, v), IsSlice(text, i, j, w)
  PROVE  v = w
<1>1. IsSeq(v) /\ IsSeq(w) /\ Len(v) = Len(w) /\ \A k \in 1 .. Len(v) : v[k] = w[k]
  BY DEF IsSlice
<1> QED BY <1>1, SameSeq

(* The token of a region has the bytes of the region. *)
LEMMA RankIs ==
  ASSUME NEW vocab, Usable(vocab), NEW text, IsSeq(text),
         NEW i \in 0 .. Len(text), NEW j \in 0 .. Len(text), NEW t \in DOMAIN vocab
  PROVE  Ranks(vocab, text)[<<i, j>>] = t <=> i <= j /\ IsSlice(text, i, j, vocab[t])
<1> DEFINE w == SubSeq(text, i + 1, j)
<1>1. Ranks(vocab, text)[<<i, j>>] = FindTokenByBytes(vocab, w)
  BY DEF Ranks
<1>2. ASSUME Ranks(vocab, text)[<<i, j>>] = t PROVE i <= j /\ IsSlice(text, i, j, vocab[t])
  <2>1. t # UINT32_MAX /\ Len(vocab[t]) \in Nat \ {0}
    BY UsableFacts
  <2>2. vocab[t] = w
    <3> HIDE DEF w
    <3> QED BY <1>1, <1>2, <2>1, FindFacts
  <2>3. i <= j
    <3> SUFFICES ASSUME j < i PROVE FALSE
      BY SeqFacts
    <3> DEFINE m == i + 1
    <3>1. m \in Nat /\ j \in Nat /\ ~(m <= j) /\ \A k \in m .. j : FALSE
      BY SeqFacts
    <3>2. PICK S : text \in Seq(S)
      BY DEF IsSeq
    <3> HIDE DEF m
    <3>3. Len(SubSeq(text, m, j)) = 0
      BY <3>1, <3>2, SubSeqProperties
    <3> QED BY <2>1, <2>2, <3>3 DEF m
  <2> HIDE DEF w
  <2>4. IsSlice(text, i, j, w)
    BY <2>3, SubSeqIsSlice DEF w
  <2> QED BY <2>2, <2>3, <2>4
<1>3. ASSUME i <= j, IsSlice(text, i, j, vocab[t]) PROVE Ranks(vocab, text)[<<i, j>>] = t
  <2> HIDE DEF w
  <2>1. IsSlice(text, i, j, w)
    BY <1>3, SubSeqIsSlice DEF w
  <2>2. vocab[t] = w
    BY <1>3, <2>1, SameSlice
  <2>3. FindTokenByBytes(vocab, w) = t
    BY <2>2, FindFacts DEF Usable
  <2> QED BY <1>1, <2>3
<1> QED BY <1>2, <1>3

(* A region that has a rank is a token of its length. *)
LEMMA RankFacts ==
  ASSUME NEW vocab, Usable(vocab), NEW text, IsSeq(text),
         NEW i \in 0 .. Len(text), NEW j \in 0 .. Len(text),
         Ranks(vocab, text)[<<i, j>>] # UINT32_MAX
  PROVE  /\ Ranks(vocab, text)[<<i, j>>] \in DOMAIN vocab
         /\ j = i + Len(vocab[Ranks(vocab, text)[<<i, j>>]])
<1> DEFINE t == Ranks(vocab, text)[<<i, j>>]
<1>1. t = FindTokenByBytes(vocab, SubSeq(text, i + 1, j))
  BY DEF Ranks
<1>2. t \in DOMAIN vocab
  BY <1>1, FindFacts
<1> HIDE DEF t
<1>3. i <= j /\ IsSlice(text, i, j, vocab[t])
  BY <1>2, RankIs DEF t
<1>4. Len(vocab[t]) = j - i
  BY <1>3 DEF IsSlice
<1>5. j = i + Len(vocab[t])
  BY <1>4, SeqFacts
<1> QED BY <1>2, <1>5 DEF t

(* A token that is spelled by two others is in a text where these are. *)
LEMMA SplitRanks ==
  ASSUME NEW vocab, Usable(vocab), NEW text, IsSeq(text),
         NEW t \in DOMAIN vocab, NEW a \in DOMAIN vocab, NEW b \in DOMAIN vocab,
         Spells(vocab[t], vocab[a], vocab[b]),
         NEW i \in 0 .. Len(text), NEW j \in 0 .. Len(text),
         Ranks(vocab, text)[<<i, j>>] = t
  PROVE  LET m == i + Len(vocab[a])
         IN  /\ m \in 0 .. Len(text)
             /\ Ranks(vocab, text)[<<i, m>>] = a
             /\ Ranks(vocab, text)[<<m, j>>] = b
<1> DEFINE la == Len(vocab[a])
           lb == Len(vocab[b])
<1>1. /\ Len(vocab[t]) = la + lb
      /\ \A k \in 1 .. la : vocab[t][k] = vocab[a][k]
      /\ \A k \in 1 .. lb : vocab[t][la + k] = vocab[b][k]
  BY DEF Spells
<1>2. /\ la \in Nat \ {0} /\ lb \in Nat \ {0} /\ IsSeq(vocab[a]) /\ IsSeq(vocab[b])
      /\ IsSeq(vocab[t]) /\ Len(text) \in Nat
  BY UsableFacts, SeqFacts
<1>3. LET m == i + Len(vocab[a])
      IN  /\ m \in 0 .. Len(text)
          /\ Ranks(vocab, text)[<<i, m>>] = a
          /\ Ranks(vocab, text)[<<m, j>>] = b
  <2> DEFINE m == i + la
  <2>1. i <= j /\ IsSlice(text, i, j, vocab[t])
    BY RankIs
  <2>2. Len(vocab[t]) = j - i /\ \A k \in 1 .. j - i : vocab[t][k] = text[i + k]
    BY <2>1 DEF IsSlice
  <2>3. m \in 0 .. Len(text) /\ i <= m /\ m <= j /\ m - i = la /\ j - m = lb /\ j - i = la + lb
    <3>1. la + lb = j - i /\ i \in Nat /\ j \in Nat /\ j <= Len(text)
      BY <1>1, <1>2, <2>2
    <3> HIDE DEF la, lb
    <3> QED BY <1>2, <3>1
  <2>z. m = i + la
    OBVIOUS
  <2> HIDE DEF la, lb, m
  <2>4. IsSlice(text, i, m, vocab[a])
    <3>1. \A k \in 1 .. la : k \in 1 .. la + lb
      BY <1>2
    <3>2. \A k \in 1 .. la : vocab[a][k] = text[i + k]
      BY <1>1, <2>2, <2>3, <3>1
    <3> QED BY <1>2, <2>3, <3>2 DEF IsSlice, la
  <2>5. IsSlice(text, m, j, vocab[b])
    <3>1. ASSUME NEW k \in 1 .. lb PROVE vocab[b][k] = text[m + k]
      <4>1. la + k \in 1 .. la + lb /\ i + (la + k) = m + k
        BY <1>2, <2>z
      <4>2. vocab[t][la + k] = text[i + (la + k)]
        BY <2>2, <2>3, <4>1
      <4> QED BY <1>1, <4>1, <4>2
    <3> QED BY <1>2, <2>3, <3>1 DEF IsSlice, lb
  <2>6. Ranks(vocab, text)[<<i, m>>] = a
    BY <2>3, <2>4, RankIs
  <2>7. Ranks(vocab, text)[<<m, j>>] = b
    BY <2>3, <2>5, RankIs
  <2> QED BY <2>3, <2>6, <2>7 DEF m, la
<1> QED BY <1>3

(* Where two parts are side by side, the token is. *)
LEMMA JoinRanks ==
  ASSUME NEW vocab, Usable(vocab), NEW text, IsSeq(text),
         NEW t \in DOMAIN vocab, NEW a \in DOMAIN vocab, NEW b \in DOMAIN vocab,
         Spells(vocab[t], vocab[a], vocab[b]),
         NEW i \in 0 .. Len(text), NEW j \in 0 .. Len(text), NEW m \in 0 .. Len(text),
         Ranks(vocab, text)[<<i, m>>] = a, Ranks(vocab, text)[<<m, j>>] = b
  PROVE  Ranks(vocab, text)[<<i, j>>] = t
<1> DEFINE la == Len(vocab[a])
           lb == Len(vocab[b])
<1>1. /\ Len(vocab[t]) = la + lb
      /\ \A k \in 1 .. la : vocab[t][k] = vocab[a][k]
      /\ \A k \in 1 .. lb : vocab[t][la + k] = vocab[b][k]
  BY DEF Spells
<1>2. /\ la \in Nat \ {0} /\ lb \in Nat \ {0} /\ IsSeq(vocab[a]) /\ IsSeq(vocab[b])
      /\ IsSeq(vocab[t]) /\ Len(text) \in Nat
  BY UsableFacts, SeqFacts
<1>3. Ranks(vocab, text)[<<i, j>>] = t
  <2>1. i <= m /\ IsSlice(text, i, m, vocab[a])
    BY RankIs
  <2>2. m <= j /\ IsSlice(text, m, j, vocab[b])
    BY RankIs
  <2>3. la = m - i /\ \A k \in 1 .. m - i : vocab[a][k] = text[i + k]
    BY <2>1 DEF IsSlice
  <2>4. lb = j - m /\ \A k \in 1 .. j - m : vocab[b][k] = text[m + k]
    BY <2>2 DEF IsSlice
  <2>5. j - i = la + lb /\ i <= j
    BY <1>2, <2>1, <2>2, <2>3, <2>4
  <2> HIDE DEF la, lb
  <2>6. ASSUME NEW k \in 1 .. la + lb PROVE vocab[t][k] = text[i + k]
    <3>1. CASE k <= la
      BY <1>1, <1>2, <2>3, <3>1
    <3>2. CASE la < k
      <4>1. k - la \in 1 .. lb /\ la + (k - la) = k /\ m + (k - la) = i + k
        BY <1>2, <2>3, <3>2
      <4>2. vocab[b][k - la] = text[m + (k - la)]
        BY <2>4, <4>1
      <4> QED BY <1>1, <4>1, <4>2
    <3> QED BY <1>2, <3>1, <3>2
  <2>7. IsSlice(text, i, j, vocab[t])
    BY <1>1, <1>2, <2>5, <2>6 DEF IsSlice
  <2> QED BY <2>5, <2>7, RankIs
<1> QED BY <1>3

(* Two parts are more than one byte. *)
LEMMA TwoParts ==
  ASSUME NEW x \in Nat \ {0}, NEW y \in Nat \ {0}
  PROVE  x + y # 1 /\ x + y > 1
OBVIOUS

(* The lengths of the tokens. *)
LEMMA LensFacts ==
  ASSUME NEW vocab, Usable(vocab)
  PROVE  /\ DOMAIN Lens(vocab) = DOMAIN vocab
         /\ \A t \in DOMAIN vocab : Lens(vocab)[t] = Len(vocab[t]) /\ Lens(vocab)[t] \in Nat \ {0}
BY UsableFacts DEF Lens

(* The merges below K, completed, split the tokens below K. *)
LEMMA TokenSplits ==
  ASSUME NEW vocab, Usable(vocab), NEW m, NEW K, MergesOK(vocab, m, K),
         NEW t \in DOMAIN vocab, Len(vocab[t]) > 1 => m.left[t] # t
  PROVE  /\ SplitsTo(Lens(vocab), m.left, m.right, m.pairs, t)
         /\ Len(vocab[t]) > 1 =>
              /\ m.left[t] \in DOMAIN vocab /\ m.right[t] \in DOMAIN vocab
              /\ m.left[t] < t /\ m.right[t] < t
              /\ Spells(vocab[t], vocab[m.left[t]], vocab[m.right[t]])
<1>1. Len(vocab[t]) \in Nat \ {0} /\ t \in Nat
  BY UsableFacts
<1>2. Lens(vocab)[t] = Len(vocab[t]) /\ DOMAIN Lens(vocab) = DOMAIN vocab
  BY LensFacts
<1>3. (m.left[t] = t /\ m.right[t] = t) \/ IsSplit(vocab, m, t)
  BY DEF MergesOK
<1>4. CASE IsSplit(vocab, m, t)
  <2> DEFINE a == m.left[t]
             b == m.right[t]
  <2>1. JoinsTo(vocab, t, a, b)
    BY <1>4 DEF IsSplit
  <2> HIDE DEF a, b
  <2>2. a \in DOMAIN vocab /\ b \in DOMAIN vocab /\ a < t /\ b < t /\ Spells(vocab[t], vocab[a], vocab[b])
    BY <2>1, PartsFacts
  <2>3. Len(vocab[t]) = Len(vocab[a]) + Len(vocab[b])
    BY <2>2 DEF Spells
  <2>4. Lens(vocab)[a] = Len(vocab[a]) /\ Lens(vocab)[b] = Len(vocab[b])
        /\ Len(vocab[a]) \in Nat \ {0} /\ Len(vocab[b]) \in Nat \ {0}
    BY <2>2, LensFacts
  <2>5. Lens(vocab)[t] # 1 /\ Lens(vocab)[t] = Lens(vocab)[a] + Lens(vocab)[b]
    <3>1. Len(vocab[a]) + Len(vocab[b]) # 1
      BY <2>4, TwoParts
    <3> QED BY <1>2, <2>3, <2>4, <3>1
  <2>6. <<a, b>> \in DOMAIN m.pairs /\ m.pairs[<<a, b>>] = t
    BY <1>4 DEF IsSplit, a, b
  <2> QED BY <1>2, <2>2, <2>5, <2>6 DEF SplitsTo, a, b
<1>5. CASE m.left[t] = t /\ m.right[t] = t
  <2>1. Len(vocab[t]) = 1
    <3>1. ~(Len(vocab[t]) > 1)
      BY <1>5
    <3>2. \A x \in Nat \ {0} : ~(x > 1) => x = 1
      OBVIOUS
    <3> QED BY <1>1, <3>1, <3>2
  <2> QED BY <1>2, <1>5, <2>1 DEF SplitsTo
<1> QED BY <1>3, <1>4, <1>5

(* The merges below K are right for every region of a text. *)
LEMMA TextMerged ==
  ASSUME NEW vocab, Usable(vocab), NEW text, IsSeq(text), NEW m, NEW K, MergesOK(vocab, m, K),
         \A t \in DOMAIN vocab : t < K /\ Len(vocab[t]) > 1 => m.left[t] # t
  PROVE  Merged(Ranks(vocab, text), Len(text), Lens(vocab), m.left, m.right, m.pairs, K)
<1> DEFINE rank == Ranks(vocab, text)
           len  == Lens(vocab)
           n    == Len(text)
<1>0. DOMAIN len = DOMAIN vocab /\ \A t \in DOMAIN vocab : len[t] = Len(vocab[t])
  BY LensFacts
<1>1. DOMAIN vocab \subseteq 0 .. UINT32_MAX - 1
  BY UsableFacts
<1>2. \A t \in DOMAIN vocab : len[t] \in Nat \ {0}
  BY LensFacts
<1>3. ASSUME NEW i \in 0 .. n, NEW j \in 0 .. n, rank[<<i, j>>] # UINT32_MAX
      PROVE  rank[<<i, j>>] \in DOMAIN vocab /\ j = i + len[rank[<<i, j>>]]
  <2>1. rank[<<i, j>>] \in DOMAIN vocab /\ j = i + Len(vocab[rank[<<i, j>>]])
    BY <1>3, RankFacts
  <2> HIDE DEF rank, len
  <2> QED BY <1>0, <2>1
<1>4. ASSUME NEW t \in DOMAIN vocab, t < K PROVE SplitsTo(len, m.left, m.right, m.pairs, t)
  BY <1>4, TokenSplits
<1>5. ASSUME NEW p \in DOMAIN m.pairs
      PROVE  /\ m.pairs[p] \in DOMAIN vocab /\ m.pairs[p] < K /\ len[m.pairs[p]] > 1
             /\ p = <<m.left[m.pairs[p]], m.right[m.pairs[p]]>>
  <2> DEFINE t == m.pairs[p]
  <2>1. t \in DOMAIN vocab /\ t < K /\ p = <<m.left[t], m.right[t]>>
        /\ JoinsTo(vocab, t, m.left[t], m.right[t])
    <3>1. PairOK(vocab, m, K, p)
      BY DEF MergesOK
    <3> QED BY <3>1 DEF PairOK
  <2> HIDE DEF t
  <2>2. /\ m.left[t] \in DOMAIN vocab /\ m.right[t] \in DOMAIN vocab
        /\ Spells(vocab[t], vocab[m.left[t]], vocab[m.right[t]])
    BY <2>1, PartsFacts
  <2>3. Len(vocab[t]) = Len(vocab[m.left[t]]) + Len(vocab[m.right[t]])
    BY <2>2 DEF Spells
  <2>4. Len(vocab[m.left[t]]) \in Nat \ {0} /\ Len(vocab[m.right[t]]) \in Nat \ {0}
    BY <2>2, UsableFacts
  <2>5. len[t] > 1
    <3>1. Len(vocab[m.left[t]]) + Len(vocab[m.right[t]]) > 1
      BY <2>4, TwoParts
    <3> HIDE DEF len
    <3> QED BY <1>0, <2>1, <2>3, <3>1
  <2> QED BY <2>1, <2>5 DEF t
<1>6. ASSUME NEW t \in DOMAIN vocab, t < K, len[t] > 1,
             NEW i \in 0 .. n, NEW c \in 0 .. n, NEW j \in 0 .. n
      PROVE  /\ rank[<<i, j>>] = t /\ c = i + len[m.left[t]] =>
                  rank[<<i, c>>] = m.left[t] /\ rank[<<c, j>>] = m.right[t]
             /\ rank[<<i, c>>] = m.left[t] /\ rank[<<c, j>>] = m.right[t] => rank[<<i, j>>] = t
  <2> DEFINE a == m.left[t]
             b == m.right[t]
  <2>1. a \in DOMAIN vocab /\ b \in DOMAIN vocab /\ Spells(vocab[t], vocab[a], vocab[b])
    BY <1>0, <1>6, TokenSplits
  <2> HIDE DEF a, b
  <2>2. rank[<<i, j>>] = t =>
          rank[<<i, i + Len(vocab[a])>>] = a /\ rank[<<i + Len(vocab[a]), j>>] = b
    BY <2>1, SplitRanks
  <2>3. rank[<<i, c>>] = a /\ rank[<<c, j>>] = b => rank[<<i, j>>] = t
    <3> SUFFICES ASSUME rank[<<i, c>>] = a, rank[<<c, j>>] = b PROVE rank[<<i, j>>] = t
      OBVIOUS
    <3> QED BY <2>1, JoinRanks
  <2>4. len[a] = Len(vocab[a])
    BY <1>0, <2>1
  <2> HIDE DEF rank, len
  <2>5. rank[<<i, j>>] = t /\ c = i + len[a] => rank[<<i, c>>] = a /\ rank[<<c, j>>] = b
    BY <2>2, <2>4
  <2> QED BY <2>3, <2>5 DEF a, b
<1> HIDE DEF rank, len, n
<1>7. Merged(rank, n, len, m.left, m.right, m.pairs, K)
  BY <1>0, <1>1, <1>2, <1>3, <1>4, <1>5, <1>6 DEF Merged
<1> QED BY <1>7 DEF rank, len, n

-----------------------------------------------------------------------------
(* Every token merges to its parts.                                        *)

(* A token of one byte has no stage but its own. *)
LEMMA ByteMerges ==
  ASSUME NEW rank, NEW n \in Nat, NEW len, NEW left, NEW t, len[t] = 1,
         \A i, j \in 0 .. n : rank[<<i, j>>] = t => j = i + 1
  PROVE  MergesTo(rank, n, len, left, t)
<1>1. ASSUME NEW lo \in 0 .. n, NEW hi \in 0 .. n, rank[<<lo, hi>>] = t,
             NEW B, IsStage(rank, lo, hi, B)
      PROVE  B = {lo, hi}
  <2>1. hi = lo + 1 /\ lo \in Nat
    BY <1>1
  <2> DEFINE F == {{lo, hi}}
  <2>2. F \subseteq SUBSET (lo .. hi) /\ lo .. hi \in F
    BY <2>1
  <2>3. \A C \in F : \A i, m, j \in C : ~LowestJoin(rank, C, i, m, j)
    <3> SUFFICES ASSUME NEW C \in F, NEW i \in C, NEW m \in C, NEW j \in C, i < m, m < j
                 PROVE  FALSE
      BY ZenonT(60) DEF LowestJoin, Joinable, Gap
    <3>1. i \in lo .. lo + 1 /\ m \in lo .. lo + 1 /\ j \in lo .. lo + 1
      BY <2>1
    <3> QED BY <2>1, <3>1
  <2>4. \A C : IsStage(rank, lo, hi, C) => C \in F
    <3> HIDE DEF F
    <3> QED BY <2>2, <2>3, StageInduction
  <2> QED BY <1>1, <2>4
<1> QED BY <1>1 DEF MergesTo

(* Only the left part of the token itself matters. *)
LEMMA SameLeft ==
  ASSUME NEW rank, NEW n, NEW len, NEW left, NEW left2, NEW t, left[t] = left2[t],
         MergesTo(rank, n, len, left, t)
  PROVE  MergesTo(rank, n, len, left2, t)
BY DEF MergesTo

(* The tables are typed as the pair test needs them. *)
LEMMA TablesSplit ==
  ASSUME NEW vocab, Usable(vocab), NEW m \in MergeTables(DOMAIN vocab)
  PROVE  Splits(m.left, m.right, m.pairs) /\ DOMAIN m.left = DOMAIN vocab
<1>1. /\ m.left \in [DOMAIN vocab -> DOMAIN vocab] /\ m.right \in [DOMAIN vocab -> DOMAIN vocab]
      /\ m.pairs \in UNION {[E -> DOMAIN vocab] : E \in SUBSET ((DOMAIN vocab) \X (DOMAIN vocab))}
  BY DEF MergeTables
<1>2. \A p \in DOMAIN m.pairs : m.pairs[p] \in DOMAIN vocab
  <2>1. PICK E \in SUBSET ((DOMAIN vocab) \X (DOMAIN vocab)) : m.pairs \in [E -> DOMAIN vocab]
    BY <1>1
  <2> QED BY <2>1
<1>3. DOMAIN vocab \subseteq 0 .. UINT32_MAX - 1 /\ UINT32_MAX \notin DOMAIN vocab
  BY UsableFacts
<1> QED BY <1>1, <1>2, <1>3 DEF Splits

(***************************************************************************)
(* Wherever a token of the dictionary is, byte pair encoding merges it to  *)
(* its parts.                                                              *)
(***************************************************************************)
LEMMA TokenMerges ==
  ASSUME NEW vocab, Usable(vocab), NEW n, NEW upto, Building(vocab, n, upto),
         NEW text, IsSeq(text), NEW K \in DOMAIN vocab,
         \A t \in DOMAIN vocab : t < K =>
           MergesTo(Ranks(vocab, text), Len(text), Lens(vocab), upto[n].left, t)
  PROVE  MergesTo(Ranks(vocab, text), Len(text), Lens(vocab), upto[n].left, K)
<1> DEFINE rank == Ranks(vocab, text)
           len  == Lens(vocab)
           N    == Len(text)
           m    == upto[K]
           ids  == DOMAIN vocab
<1>1. /\ ids = 0 .. n - 1 /\ n \in Nat /\ n <= UINT32_MAX
      /\ \A k \in 0 .. n : upto[k] \in MergeTables(ids)
      /\ \A k \in 1 .. n : MergeStep(vocab, upto[k - 1], k - 1, upto[k])
      /\ FromDictionary(vocab).split_left = upto[n].left
  BY DEF Building
<1>2. /\ K \in Nat /\ K # UINT32_MAX /\ K \in 0 .. n /\ K + 1 \in 0 .. n /\ K + 1 \in 1 .. n
      /\ N \in Nat /\ \A t \in ids : t \in Nat
  BY <1>1, UsableFacts, SeqFacts
<1>3. MergesOK(vocab, m, K) /\ \A t \in ids : t < K => upto[n].left[t] = m.left[t]
  BY <1>2, BuildingOK
<1>4. upto[n].left[K] = upto[K + 1].left[K]
  <2>1. K < K + 1
    BY <1>2
  <2> QED BY <1>2, <2>1, BuildingOK
<1>5. MergeStep(vocab, m, K, upto[K + 1])
  <2> DEFINE j == K + 1
  <2>1. j \in 1 .. n /\ j - 1 = K
    BY <1>2
  <2> HIDE DEF j
  <2>2. MergeStep(vocab, upto[j - 1], j - 1, upto[j])
    BY <1>1, <2>1
  <2>3. MergeStep(vocab, upto[K], K, upto[j])
    BY <2>1, <2>2
  <2> QED BY <2>3 DEF j
<1>6. \A t \in ids : Len(vocab[t]) > 1 => upto[n].left[t] # t
  BY <1>1 DEF Usable, Mergeable
<1>7. Len(vocab[K]) \in Nat \ {0} /\ len[K] = Len(vocab[K]) /\ DOMAIN len = ids
  BY UsableFacts, LensFacts
<1>8. CASE Len(vocab[K]) = 1
  <2>1. ASSUME NEW i \in 0 .. N, NEW j \in 0 .. N, rank[<<i, j>>] = K PROVE j = i + 1
    <3>1. j = i + Len(vocab[K])
      BY <1>2, <2>1, RankFacts
    <3> QED BY <1>8, <3>1
  <2>2. len[K] = 1
    BY <1>7, <1>8
  <2> HIDE DEF rank, len, N
  <2>3. MergesTo(rank, N, len, upto[n].left, K)
    BY <1>2, <2>1, <2>2, ByteMerges
  <2> QED BY <2>3 DEF rank, len, N
<1>9. CASE Len(vocab[K]) # 1
  <2>0. Len(vocab[K]) > 1
    BY <1>7, <1>9
  <2>1. m.left[K] = K
    BY <1>2, <1>3 DEF MergesOK
  <2>2. PICK a \in ids, b \in ids :
          /\ JoinsTo(vocab, K, a, b)
          /\ IsValidTokenPair(m.left, m.right, m.pairs, a, b)
          /\ upto[K + 1] = WithMerge(m, K, a, b)
    <3>1. upto[K + 1] # m
      BY <1>4, <1>6, <2>0, <2>1
    <3> QED BY <1>5, <3>1 DEF MergeStep
  <2>3. m \in MergeTables(ids)
    BY <1>1, <1>2
  <2>4. upto[n].left[K] = a
    <3>1. m.left \in [ids -> ids]
      BY <2>3 DEF MergeTables
    <3>2. upto[K + 1].left = [m.left EXCEPT ![K] = a]
      BY <2>2 DEF WithMerge
    <3> QED BY <1>4, <3>1, <3>2
  <2>5. Splits(m.left, m.right, m.pairs) /\ DOMAIN m.left = ids
    BY <2>3, TablesSplit
  <2>6. PICK valid : /\ Checks(valid, ids, m.left, m.right, m.pairs)
                     /\ \A t1, t2 \in ids : IsValidTokenPair(m.left, m.right, m.pairs, t1, t2)
                                              <=> valid[<<t1, t2, UINT32_MAX>>]
    <3> HIDE DEF m
    <3>1. \E valid : /\ Checks(valid, DOMAIN m.left, m.left, m.right, m.pairs)
                     /\ \A t1, t2 \in DOMAIN m.left : IsValidTokenPair(m.left, m.right, m.pairs, t1, t2)
                                              <=> valid[<<t1, t2, UINT32_MAX>>]
      BY <2>5, PairCheck
    <3> QED BY <2>5, <3>1
  <2>7. valid[<<a, b, UINT32_MAX>>]
    BY <2>2, <2>6
  <2>8. Merged(rank, N, len, m.left, m.right, m.pairs, K)
    <3>1. \A t \in ids : t < K /\ Len(vocab[t]) > 1 => m.left[t] # t
      BY <1>3, <1>6
    <3> HIDE DEF m
    <3> QED BY <1>3, <3>1, TextMerged
  <2>9. \A t \in ids : t < K => MergesTo(rank, N, len, m.left, t)
    <3> TAKE t \in ids
    <3> HAVE t < K
    <3>1. MergesTo(rank, N, len, upto[n].left, t)
      OBVIOUS
    <3>2. upto[n].left[t] = m.left[t]
      BY <1>3
    <3> HIDE DEF rank, N, len, m
    <3> QED BY <3>1, <3>2, SameLeft
  <2>10. /\ a < K /\ b < K /\ Spells(vocab[K], vocab[a], vocab[b])
    BY <2>2, PartsFacts
  <2>11. ASSUME NEW i \in 0 .. N, NEW j \in 0 .. N, rank[<<i, j>>] = K
         PROVE  i + len[a] \in 0 .. N /\ rank[<<i, i + len[a]>>] = a /\ rank[<<i + len[a], j>>] = b
    <3>1. /\ i + Len(vocab[a]) \in 0 .. N
          /\ rank[<<i, i + Len(vocab[a])>>] = a /\ rank[<<i + Len(vocab[a]), j>>] = b
      BY <2>10, <2>11, SplitRanks
    <3>2. len[a] = Len(vocab[a])
      BY LensFacts
    <3> HIDE DEF rank, len, N
    <3> QED BY <3>1, <3>2
  <2>12. len[K] > 1
    BY <1>7, <2>0
  <2>13. /\ a \in DOMAIN len /\ b \in DOMAIN len /\ Checks(valid, DOMAIN len, m.left, m.right, m.pairs)
         /\ \A t \in DOMAIN len : t < K => MergesTo(rank, N, len, m.left, t)
    BY <1>7, <2>6, <2>9
  <2> HIDE DEF rank, len, N, m, ids
  <2>14. MergesTo(rank, N, len, upto[n].left, K)
    BY <1>2, <2>4, <2>7, <2>8, <2>10, <2>11, <2>12, <2>13, NextMerges
  <2> QED BY <2>14 DEF rank, len, N
<1> QED BY <1>8, <1>9

(***************************************************************************)
(* What holds of a dictionary and a text.                                  *)
(***************************************************************************)
Finished(vocab, text, K, valid) ==
  LET bpe == FromDictionary(vocab)
  IN  /\ K \in Nat /\ DOMAIN vocab = 0 .. K - 1 /\ DOMAIN Lens(vocab) = DOMAIN vocab
      /\ Merged(Ranks(vocab, text), Len(text), Lens(vocab),
                bpe.split_left, bpe.split_right, bpe.pair_lookup, K)
      /\ \A t \in DOMAIN vocab : MergesTo(Ranks(vocab, text), Len(text), Lens(vocab), bpe.split_left, t)
      /\ Checks(valid, DOMAIN vocab, bpe.split_left, bpe.split_right, bpe.pair_lookup)
      /\ \A t1, t2 \in DOMAIN vocab : ValidPair(bpe, t1, t2) <=> valid[<<t1, t2, UINT32_MAX>>]

(* At the end all merges are found, and right for every text. *)
LEMMA DictionaryFinished ==
  ASSUME NEW vocab, Usable(vocab), NEW text, IsSeq(text)
  PROVE  \E K, valid : Finished(vocab, text, K, valid)
<1>1. PICK n, upto : Building(vocab, n, upto)
  BY MergesUnfold
<1> DEFINE bpe == FromDictionary(vocab)
           ids == DOMAIN vocab
           m   == upto[n]
           To(t) == MergesTo(Ranks(vocab, text), Len(text), Lens(vocab), m.left, t)
           Good == {k \in Nat : \A t \in ids : t < k => To(t)}
<1>2. /\ ids = 0 .. n - 1 /\ n \in Nat /\ n \in 0 .. n
      /\ m \in MergeTables(ids)
      /\ bpe.split_left = m.left /\ bpe.split_right = m.right /\ bpe.pair_lookup = m.pairs
  BY <1>1 DEF Building
<1>3. 0 \in Good
  BY <1>2
<1>4. ASSUME NEW k \in Nat, k \in Good PROVE k + 1 \in Good
  <2> SUFFICES ASSUME NEW t \in ids, t < k + 1 PROVE To(t)
    OBVIOUS
  <2>1. \A u \in ids : u < t => To(u)
    BY <1>2, <1>4
  <2> HIDE DEF m
  <2> QED BY <1>1, <2>1, TokenMerges DEF m
<1>5. \A t \in ids : To(t)
  <2>1. n \in Good
    <3> HIDE DEF Good
    <3> QED BY <1>2, <1>3, <1>4, SetInduction
  <2> QED BY <1>2, <2>1
<1>6. MergesOK(vocab, m, n)
  BY <1>1, <1>2, BuildingOK
<1>7. \A t \in ids : Len(vocab[t]) > 1 => m.left[t] # t
  BY <1>2 DEF Usable, Mergeable
<1> HIDE DEF m
<1>8. Merged(Ranks(vocab, text), Len(text), Lens(vocab), m.left, m.right, m.pairs, n)
  BY <1>6, <1>7, TextMerged
<1>9. Splits(m.left, m.right, m.pairs) /\ DOMAIN m.left = ids
  BY <1>2, TablesSplit
<1>10. PICK valid : /\ Checks(valid, DOMAIN m.left, m.left, m.right, m.pairs)
                    /\ \A t1, t2 \in DOMAIN m.left : IsValidTokenPair(m.left, m.right, m.pairs, t1, t2)
                                            <=> valid[<<t1, t2, UINT32_MAX>>]
  BY <1>9, PairCheck
<1>11. \A t1, t2 \in ids : ValidPair(bpe, t1, t2) <=> valid[<<t1, t2, UINT32_MAX>>]
  <2>1. \A t1, t2 \in ids : ValidPair(bpe, t1, t2) = IsValidTokenPair(m.left, m.right, m.pairs, t1, t2)
    BY <1>2 DEF ValidPair
  <2> QED BY <1>9, <1>10, <2>1
<1>12. DOMAIN Lens(vocab) = ids
  BY LensFacts
<1> HIDE DEF bpe
<1>13. /\ Checks(valid, ids, bpe.split_left, bpe.split_right, bpe.pair_lookup)
       /\ Merged(Ranks(vocab, text), Len(text), Lens(vocab), bpe.split_left, bpe.split_right, bpe.pair_lookup, n)
       /\ \A t \in ids : MergesTo(Ranks(vocab, text), Len(text), Lens(vocab), bpe.split_left, t)
  BY <1>2, <1>5, <1>8, <1>9, <1>10
<1>14. Finished(vocab, text, n, valid)
  BY <1>2, <1>11, <1>12, <1>13 DEF Finished, bpe
<1> QED BY <1>14

-----------------------------------------------------------------------------
(* Valid pairs and stages.                                                 *)

(* The boundary of a valid pair is in every stage of the two tokens. *)
LEMMA ValidKeeps ==
  ASSUME NEW vocab, Usable(vocab), NEW text, IsSeq(text), NEW K, NEW valid, Finished(vocab, text, K, valid),
         NEW l \in 0 .. Len(text), NEW m \in 0 .. Len(text), NEW r \in 0 .. Len(text),
         NEW t1 \in DOMAIN vocab, NEW t2 \in DOMAIN vocab,
         Ranks(vocab, text)[<<l, m>>] = t1, Ranks(vocab, text)[<<m, r>>] = t2,
         ValidPair(FromDictionary(vocab), t1, t2)
  PROVE  \A B : IsStage(Ranks(vocab, text), l, r, B) => m \in B
<1> DEFINE rank == Ranks(vocab, text)
           len  == Lens(vocab)
           N    == Len(text)
           ids  == DOMAIN vocab
           bpe  == FromDictionary(vocab)
           F == {C \in SUBSET (l .. r) : l \in C /\ r \in C /\ m \in C}
<1>1. /\ K \in Nat /\ ids = 0 .. K - 1 /\ DOMAIN len = ids
      /\ Merged(rank, N, len, bpe.split_left, bpe.split_right, bpe.pair_lookup, K)
      /\ \A t \in ids : MergesTo(rank, N, len, bpe.split_left, t)
      /\ Checks(valid, ids, bpe.split_left, bpe.split_right, bpe.pair_lookup)
      /\ valid[<<t1, t2, UINT32_MAX>>]
  BY DEF Finished
<1>2. N \in Nat /\ UINT32_MAX \in 0 .. UINT32_MAX /\ ids \subseteq Nat /\ ids \subseteq 0 .. UINT32_MAX - 1
  BY SeqFacts, UsableFacts, Uint32MaxAssumption
<1>3. l < m /\ m < r /\ l \in Nat /\ m \in Nat /\ r \in Nat
  <2>1. m = l + Len(vocab[t1]) /\ r = m + Len(vocab[t2])
    <3>1. t1 # UINT32_MAX /\ t2 # UINT32_MAX
      BY <1>2, UsableFacts
    <3> QED BY <3>1, RankFacts
  <2>2. Len(vocab[t1]) \in Nat \ {0} /\ Len(vocab[t2]) \in Nat \ {0}
    BY UsableFacts
  <2>3. l \in Nat /\ m \in Nat /\ r \in Nat
    BY <1>2
  <2> QED BY <2>1, <2>2, <2>3
<1>4. ~Broken(rank, l, m, r, UINT32_MAX, K)
  <2>1. t1 < K /\ t2 < K /\ t1 \in DOMAIN len /\ t2 \in DOMAIN len
    BY <1>1
  <2>2. Checks(valid, DOMAIN len, bpe.split_left, bpe.split_right, bpe.pair_lookup)
        /\ \A t \in DOMAIN len : t < K => MergesTo(rank, N, len, bpe.split_left, t)
    BY <1>1
  <2> HIDE DEF len, bpe, ids
  <2> QED BY <1>1, <1>2, <2>1, <2>2, BrokenIsInvalid
<1>5. l .. r \in F
  BY <1>3
<1>6. ASSUME NEW C \in F, IsStage(rank, l, r, C),
             NEW i \in C, NEW c \in C, NEW j \in C, LowestJoin(rank, C, i, c, j)
      PROVE  C \ {c} \in F
  <2>1. i < c /\ c < j /\ C \subseteq l .. r /\ l \in C /\ r \in C
    BY <1>6 DEF LowestJoin, Joinable, Gap
  <2>2. c # l /\ c # r
    BY <1>3, <2>1
  <2>3. c # m
    <3> SUFFICES ASSUME c = m PROVE FALSE
      OBVIOUS
    <3>1. rank[<<i, j>>] < UINT32_MAX /\ rank[<<i, j>>] < K
      <4>1. i \in 0 .. N /\ j \in 0 .. N /\ rank[<<i, j>>] # UINT32_MAX
        BY <1>2, <1>6, <2>1 DEF LowestJoin, Joinable
      <4>2. rank[<<i, j>>] \in ids
        BY <4>1, RankFacts
      <4> QED BY <1>1, <1>2, <4>2
    <3> HIDE DEF F, rank
    <3> QED BY <1>4, <1>6, <3>1 DEF Broken
  <2> QED BY <2>1, <2>2, <2>3
<1>7. F \subseteq SUBSET (l .. r)
  OBVIOUS
<1>8. \A B : IsStage(rank, l, r, B) => B \in F
  <2> HIDE DEF F, rank
  <2> QED BY <1>5, <1>6, <1>7, StageInduction
<1> QED BY <1>8

(* A boundary that stands to the end is one of a valid pair. *)
LEMMA StandingIsValid ==
  ASSUME NEW vocab, Usable(vocab), NEW text, IsSeq(text), NEW K, NEW valid, Finished(vocab, text, K, valid),
         NEW l \in 0 .. Len(text), NEW m \in 0 .. Len(text), NEW r \in 0 .. Len(text),
         NEW t1 \in DOMAIN vocab, NEW t2 \in DOMAIN vocab,
         Ranks(vocab, text)[<<l, m>>] = t1, Ranks(vocab, text)[<<m, r>>] = t2,
         IsStage(Ranks(vocab, text), l, r, {l, m, r}),
         Ranks(vocab, text)[<<l, r>>] = UINT32_MAX
  PROVE  ValidPair(FromDictionary(vocab), t1, t2)
<1> DEFINE rank == Ranks(vocab, text)
           len  == Lens(vocab)
           N    == Len(text)
           ids  == DOMAIN vocab
           bpe  == FromDictionary(vocab)
<1>1. /\ K \in Nat /\ ids = 0 .. K - 1 /\ DOMAIN len = ids
      /\ Merged(rank, N, len, bpe.split_left, bpe.split_right, bpe.pair_lookup, K)
      /\ \A t \in ids : MergesTo(rank, N, len, bpe.split_left, t)
      /\ Checks(valid, ids, bpe.split_left, bpe.split_right, bpe.pair_lookup)
      /\ ValidPair(bpe, t1, t2) <=> valid[<<t1, t2, UINT32_MAX>>]
  BY DEF Finished
<1>2. N \in Nat /\ UINT32_MAX \in 0 .. UINT32_MAX
  BY SeqFacts, Uint32MaxAssumption
<1>3. Stands(rank, l, m, r, UINT32_MAX)
  BY Uint32MaxAssumption DEF Stands
<1>4. t1 < K /\ t2 < K /\ t1 \in DOMAIN len /\ t2 \in DOMAIN len
  BY <1>1
<1>5. Checks(valid, DOMAIN len, bpe.split_left, bpe.split_right, bpe.pair_lookup)
      /\ \A t \in DOMAIN len : t < K => MergesTo(rank, N, len, bpe.split_left, t)
  BY <1>1
<1>6. valid[<<t1, t2, UINT32_MAX>>]
  <2> HIDE DEF len, bpe, ids
  <2> QED BY <1>1, <1>2, <1>3, <1>4, <1>5, StandsIsValid
<1> QED BY <1>1, <1>6

-----------------------------------------------------------------------------
(* A text cut into valid pairs.                                            *)

(* e[1] .. e[k + 1] cut the positions from 0 to n into k regions. *)
CutPoints(e, k, n) ==
  /\ k \in Nat /\ n \in Nat
  /\ e[1] = 0 /\ e[k + 1] = n
  /\ \A i \in 1 .. k + 1 : e[i] \in 0 .. n
  /\ \A i, j \in 1 .. k + 1 : i < j => e[i] < e[j]

(* Rising cuts from the start to the end cut the text. *)
LEMMA RisingCuts ==
  ASSUME NEW k \in Nat, NEW n \in Nat, NEW e, e[1] = 0, e[k + 1] = n,
         \A i \in 1 .. k : e[i] \in Nat => e[i + 1] \in Nat /\ e[i] < e[i + 1]
  PROVE  CutPoints(e, k, n)
<1> DEFINE Good == {j \in Nat : j <= k =>
                      /\ e[j + 1] \in Nat
                      /\ \A i \in 1 .. j : e[i] \in Nat /\ e[i] < e[j + 1]}
<1>1. 0 \in Good
  OBVIOUS
<1>2. ASSUME NEW j \in Nat, j \in Good PROVE j + 1 \in Good
  <2> SUFFICES ASSUME j + 1 <= k
               PROVE  /\ e[j + 1 + 1] \in Nat
                      /\ \A i \in 1 .. j + 1 : e[i] \in Nat /\ e[i] < e[j + 1 + 1]
    OBVIOUS
  <2> DEFINE c == j + 1
  <2>1. c \in 1 .. k /\ j <= k
    OBVIOUS
  <2>2. e[c] \in Nat /\ \A i \in 1 .. j : e[i] \in Nat /\ e[i] < e[c]
    BY <1>2, <2>1
  <2>3. \A i \in 1 .. c : i = c \/ i \in 1 .. j
    OBVIOUS
  <2> HIDE DEF c
  <2>4. e[c + 1] \in Nat /\ e[c] < e[c + 1]
    BY <2>1, <2>2
  <2>5. \A i \in 1 .. c : e[i] \in Nat /\ e[i] < e[c + 1]
    BY <2>2, <2>3, <2>4
  <2> QED BY <2>4, <2>5 DEF c
<1>3. \A j \in Nat : j \in Good
  <2> HIDE DEF Good
  <2> QED BY <1>1, <1>2, SetInduction
<1>4. \A i, j \in 1 .. k + 1 : i < j => e[i] < e[j]
  <2> SUFFICES ASSUME NEW i \in 1 .. k + 1, NEW j \in 1 .. k + 1, i < j PROVE e[i] < e[j]
    OBVIOUS
  <2>1. j - 1 \in Nat /\ j - 1 <= k /\ i \in 1 .. j - 1 /\ (j - 1) + 1 = j
    OBVIOUS
  <2>2. j - 1 \in Good
    BY <1>3, <2>1
  <2> QED BY <2>1, <2>2
<1>5. \A i \in 1 .. k + 1 : e[i] \in Nat
  <2> TAKE i \in 1 .. k + 1
  <2>1. i - 1 \in Nat /\ i - 1 <= k /\ (i - 1) + 1 = i
    OBVIOUS
  <2>2. i - 1 \in Good
    BY <1>3, <2>1
  <2> QED BY <2>1, <2>2
<1>6. \A i \in 1 .. k + 1 : e[i] \in 0 .. n
  <2> TAKE i \in 1 .. k + 1
  <2>1. i = k + 1 \/ i < k + 1
    OBVIOUS
  <2>2. k + 1 \in 1 .. k + 1
    OBVIOUS
  <2>3. e[i] = n \/ e[i] < n
    BY <1>4, <2>1, <2>2
  <2>4. e[i] \in Nat
    BY <1>5
  <2> QED BY <2>3, <2>4
<1> HIDE DEF Good
<1> QED BY <1>4, <1>6 DEF CutPoints

CutSet(e, k) == {e[i] : i \in 1 .. k + 1}

(* The gaps between cuts are the parts. *)
LEMMA CutGaps ==
  ASSUME NEW e, NEW k, NEW n, CutPoints(e, k, n)
  PROVE  /\ \A i \in 1 .. k : Gap(CutSet(e, k), e[i], e[i + 1])
         /\ \A x, y : Gap(CutSet(e, k), x, y) => \E i \in 1 .. k : x = e[i] /\ y = e[i + 1]
<1> DEFINE B == CutSet(e, k)
<1>1. /\ k \in Nat /\ n \in Nat
      /\ \A i \in 1 .. k + 1 : e[i] \in 0 .. n
      /\ \A i, j \in 1 .. k + 1 : i < j => e[i] < e[j]
  BY DEF CutPoints
<1>2. \A i \in 1 .. k + 1 : e[i] \in B /\ e[i] \in Nat
  BY <1>1 DEF CutSet
<1>3. \A x \in B : \E i \in 1 .. k + 1 : x = e[i]
  BY DEF CutSet
<1> HIDE DEF B
<1>4. ASSUME NEW i \in 1 .. k PROVE Gap(B, e[i], e[i + 1])
  <2>1. i \in 1 .. k + 1 /\ i + 1 \in 1 .. k + 1 /\ i < i + 1
    BY <1>1
  <2>2. ASSUME NEW c \in B PROVE c <= e[i] \/ e[i + 1] <= c
    <3>1. PICK j \in 1 .. k + 1 : c = e[j]
      BY <1>3
    <3>2. j < i \/ j = i \/ j = i + 1 \/ i + 1 < j
      BY <1>1
    <3>3. c \in Nat /\ e[i] \in Nat /\ e[i + 1] \in Nat
      BY <1>2, <2>1, <3>1
    <3>4. j < i => c < e[i]
      BY <1>1, <2>1, <3>1
    <3>5. i + 1 < j => e[i + 1] < c
      BY <1>1, <2>1, <3>1
    <3> QED BY <3>1, <3>2, <3>3, <3>4, <3>5
  <2>3. e[i] < e[i + 1]
    BY <1>1, <2>1
  <2> QED BY <1>2, <2>1, <2>2, <2>3 DEF Gap
<1>5. ASSUME NEW x, NEW y, Gap(B, x, y) PROVE \E i \in 1 .. k : x = e[i] /\ y = e[i + 1]
  <2>1. x \in B /\ y \in B /\ x < y /\ \A c \in B : c <= x \/ y <= c
    BY <1>5 DEF Gap
  <2>2. PICK i \in 1 .. k + 1, j \in 1 .. k + 1 : x = e[i] /\ y = e[j]
    BY <1>3, <2>1
  <2>3. x \in Nat /\ y \in Nat
    BY <1>2, <2>2
  <2>4. i < j
    <3> SUFFICES ASSUME j < i \/ j = i PROVE FALSE
      BY <1>1
    <3>1. j < i => y < x
      BY <1>1, <2>2
    <3> QED BY <2>1, <2>2, <2>3, <3>1
  <2>5. j = i + 1
    <3> SUFFICES ASSUME i + 1 < j PROVE FALSE
      BY <1>1, <2>4
    <3>1. i + 1 \in 1 .. k + 1 /\ i < i + 1
      BY <1>1
    <3>2. x < e[i + 1] /\ e[i + 1] < y /\ e[i + 1] \in Nat
      BY <1>1, <1>2, <2>2, <3>1
    <3>3. e[i + 1] <= x \/ y <= e[i + 1]
      BY <1>2, <2>1, <3>1
    <3> QED BY <2>3, <3>2, <3>3
  <2>6. i \in 1 .. k
    BY <1>1, <2>5
  <2> QED BY <2>2, <2>5, <2>6
<1> QED BY <1>4, <1>5 DEF B

(* Two ways to cut that have the same boundaries are the same. *)
LEMMA SameCuts ==
  ASSUME NEW e, NEW k, NEW f, NEW l, NEW n, CutPoints(e, k, n), CutPoints(f, l, n),
         CutSet(e, k) = CutSet(f, l)
  PROVE  k = l /\ \A i \in 1 .. k + 1 : e[i] = f[i]
<1> DEFINE B == CutSet(e, k)
           Good == {i \in Nat : i <= k => i <= l /\ e[i + 1] = f[i + 1]}
<1>1. /\ k \in Nat /\ l \in Nat /\ n \in Nat
      /\ e[1] = 0 /\ f[1] = 0 /\ e[k + 1] = n /\ f[l + 1] = n
      /\ \A i \in 1 .. k + 1 : e[i] \in 0 .. n
      /\ \A i \in 1 .. l + 1 : f[i] \in 0 .. n
      /\ \A i, j \in 1 .. k + 1 : i < j => e[i] < e[j]
      /\ \A i, j \in 1 .. l + 1 : i < j => f[i] < f[j]
  BY DEF CutPoints
<1>2. 0 \in Good
  BY <1>1
<1>3. ASSUME NEW i \in Nat, i \in Good PROVE i + 1 \in Good
  <2> SUFFICES ASSUME i + 1 <= k PROVE i + 1 <= l /\ e[i + 1 + 1] = f[i + 1 + 1]
    OBVIOUS
  <2> DEFINE c == i + 1
  <2>1. c \in 1 .. k /\ i <= k /\ c \in Nat /\ c - 1 = i
    BY <1>1
  <2>2. i <= l /\ e[c] = f[c]
    BY <1>3, <2>1
  <2>3. c <= l
    <3> SUFFICES ASSUME i = l PROVE FALSE
      BY <1>1, <2>2
    <3>1. e[c] = n
      BY <1>1, <2>2
    <3>2. c < k + 1 /\ c \in 1 .. k + 1 /\ k + 1 \in 1 .. k + 1
      BY <1>1, <2>1
    <3>3. e[c] < e[k + 1]
      BY <1>1, <3>2
    <3> QED BY <1>1, <3>1, <3>3
  <2> HIDE DEF c
  <2>4. c \in 1 .. l
    BY <1>1, <2>1, <2>3
  <2>5. Gap(B, e[c], e[c + 1]) /\ Gap(B, f[c], f[c + 1])
    <3>1. Gap(CutSet(e, k), e[c], e[c + 1])
      BY <2>1, CutGaps
    <3>2. Gap(CutSet(f, l), f[c], f[c + 1])
      BY <2>4, CutGaps
    <3> QED BY <3>1, <3>2
  <2>6. e[c + 1] \in Nat /\ f[c + 1] \in Nat /\ e[c] \in Nat
    <3>1. c + 1 \in 1 .. k + 1 /\ c + 1 \in 1 .. l + 1 /\ c \in 1 .. k + 1
      BY <1>1, <2>1, <2>4
    <3> QED BY <1>1, <3>1
  <2> HIDE DEF B
  <2>7. e[c + 1] = f[c + 1]
    <3>1. e[c + 1] \in B /\ f[c + 1] \in B /\ e[c] < e[c + 1] /\ f[c] < f[c + 1]
      BY <2>5 DEF Gap
    <3>2. (e[c + 1] <= f[c] \/ f[c + 1] <= e[c + 1]) /\ (f[c + 1] <= e[c] \/ e[c + 1] <= f[c + 1])
      BY <2>5, <3>1 DEF Gap
    <3> QED BY <2>2, <2>6, <3>1, <3>2
  <2> QED BY <2>3, <2>7 DEF c
<1>4. \A i \in Nat : i \in Good
  <2> HIDE DEF Good
  <2> QED BY <1>2, <1>3, SetInduction
<1>5. k <= l
  <2>1. k \in Good
    BY <1>1, <1>4
  <2> QED BY <1>1, <2>1
<1>6. \A i \in 1 .. k + 1 : e[i] = f[i]
  <2> TAKE i \in 1 .. k + 1
  <2>1. i - 1 \in Nat /\ i - 1 <= k /\ (i - 1) + 1 = i
    BY <1>1
  <2>2. i - 1 \in Good
    BY <1>4, <2>1
  <2> QED BY <2>1, <2>2
<1>7. k = l
  <2> SUFFICES ASSUME k < l PROVE FALSE
    BY <1>1, <1>5
  <2>1. f[k + 1] = n
    BY <1>1, <1>6
  <2>2. k + 1 \in 1 .. l + 1 /\ l + 1 \in 1 .. l + 1 /\ k + 1 < l + 1
    BY <1>1
  <2>3. f[k + 1] < f[l + 1]
    BY <1>1, <2>2
  <2> QED BY <1>1, <2>1, <2>3
<1> QED BY <1>6, <1>7

NoJoin(rank, B) == \A i, m, j \in B : ~Joinable(rank, B, i, m, j)

(* The text is cut into these tokens, and neighbours are valid pairs. *)
ValidCut(vocab, text, tokens, e, k) ==
  /\ CutPoints(e, k, Len(text))
  /\ \A i \in 1 .. k : tokens[i] \in DOMAIN vocab /\ Ranks(vocab, text)[<<e[i], e[i + 1]>>] = tokens[i]
  /\ \A i \in 1 .. k : i > 1 => ValidPair(FromDictionary(vocab), tokens[i - 1], tokens[i])

(* The boundaries of valid neighbours are in every stage of the text. *)
LEMMA ValidCutKept ==
  ASSUME NEW vocab, Usable(vocab), NEW text, IsSeq(text),
         NEW tokens, NEW e, NEW k, ValidCut(vocab, text, tokens, e, k)
  PROVE  \A B : IsStage(Ranks(vocab, text), 0, Len(text), B) => CutSet(e, k) \subseteq B
<1> DEFINE rank == Ranks(vocab, text)
           N    == Len(text)
           E    == CutSet(e, k)
           F    == {C \in SUBSET (0 .. N) : E \subseteq C}
<1>1. /\ k \in Nat /\ N \in Nat /\ e[1] = 0 /\ e[k + 1] = N
      /\ \A i \in 1 .. k + 1 : e[i] \in 0 .. N
      /\ \A i, j \in 1 .. k + 1 : i < j => e[i] < e[j]
  BY DEF ValidCut, CutPoints
<1>2. /\ \A i \in 1 .. k : tokens[i] \in DOMAIN vocab /\ rank[<<e[i], e[i + 1]>>] = tokens[i]
      /\ \A i \in 1 .. k : i > 1 => ValidPair(FromDictionary(vocab), tokens[i - 1], tokens[i])
  BY DEF ValidCut
<1>3. 0 .. N \in F
  BY <1>1 DEF CutSet
<1>4. ASSUME NEW C \in F, IsStage(rank, 0, N, C),
             NEW i \in C, NEW m \in C, NEW j \in C, LowestJoin(rank, C, i, m, j)
      PROVE  C \ {m} \in F
  <2>1. C \subseteq 0 .. N /\ E \subseteq C
    OBVIOUS
  <2> HIDE DEF F
  <2>2. m \notin E
    <3> SUFFICES ASSUME m \in E PROVE FALSE
      OBVIOUS
    <3>1. PICK q \in 1 .. k + 1 : m = e[q]
      BY DEF CutSet
    <3>2. Gap(C, i, m) /\ Gap(C, m, j) /\ i < m /\ m < j /\ i \in 0 .. N /\ j \in 0 .. N /\ m \in 0 .. N
      BY <1>4, <2>1 DEF LowestJoin, Joinable, Gap
    <3>3. q # 1 /\ q # k + 1
      BY <1>1, <3>1, <3>2, SMTT(60)
    <3>4. /\ q \in 1 .. k /\ q > 1 /\ q - 1 \in 1 .. k /\ (q - 1) + 1 = q
          /\ q - 1 \in 1 .. k + 1 /\ q + 1 \in 1 .. k + 1 /\ q - 1 < q /\ q < q + 1
      BY <1>1, <3>3
    <3> DEFINE l == e[q - 1]
               r == e[q + 1]
               t1 == tokens[q - 1]
               t2 == tokens[q]
    <3>5. /\ l \in 0 .. N /\ r \in 0 .. N /\ l < m /\ m < r /\ l \in E /\ r \in E
      BY <1>1, <3>1, <3>4 DEF CutSet
    <3>6. /\ t1 \in DOMAIN vocab /\ t2 \in DOMAIN vocab
          /\ rank[<<l, m>>] = t1 /\ rank[<<m, r>>] = t2 /\ ValidPair(FromDictionary(vocab), t1, t2)
      <4>1. tokens[q - 1] \in DOMAIN vocab /\ rank[<<e[q - 1], e[(q - 1) + 1]>>] = tokens[q - 1]
        BY <1>2, <3>4
      <4>2. tokens[q] \in DOMAIN vocab /\ rank[<<e[q], e[q + 1]>>] = tokens[q]
            /\ ValidPair(FromDictionary(vocab), tokens[q - 1], tokens[q])
        BY <1>2, <3>4
      <4> QED BY <3>1, <3>4, <4>1, <4>2
    <3> HIDE DEF l, r, t1, t2
    <3> DEFINE D == C \cap (l .. r)
    <3>7. l \in C /\ r \in C /\ l <= r /\ C \in SUBSET Nat
      BY <1>1, <2>1, <3>5
    <3>8. IsStage(rank, l, r, D)
      <4>1. 0 \in Nat /\ N \in Nat /\ 0 <= N
        BY <1>1
      <4> HIDE DEF rank
      <4> QED BY <1>4, <3>7, <4>1, Projection
    <3>9. i \in D /\ m \in D /\ j \in D
      <4> HIDE DEF rank, D
      <4> QED BY <3>2, <3>5, <3>7, Within DEF D
    <3>10. LowestJoin(rank, D, i, m, j)
      <4> HIDE DEF rank, D
      <4> QED BY <1>4, <3>7, <3>9, Within DEF D
    <3>11. IsStage(rank, l, r, D \ {m})
      <4>1. l \in Nat /\ r \in Nat
        BY <3>5
      <4> HIDE DEF rank, D
      <4> QED BY <3>7, <3>8, <3>10, <4>1, StageSteps
    <3>12. PICK K, valid : Finished(vocab, text, K, valid)
      BY DictionaryFinished
    <3>13. m \in D \ {m}
      <4> HIDE DEF D
      <4> QED BY <3>2, <3>5, <3>6, <3>11, <3>12, ValidKeeps
    <3> QED BY <3>13
  <2> QED BY <2>1, <2>2 DEF F
<1>5. F \subseteq SUBSET (0 .. N)
  OBVIOUS
<1>6. \A B : IsStage(rank, 0, N, B) => B \in F
  <2> HIDE DEF F, rank
  <2> QED BY <1>3, <1>4, <1>5, StageInduction
<1> QED BY <1>6

(* and when nothing joins any more, there are no others. *)
LEMMA ValidCutIsLast ==
  ASSUME NEW vocab, Usable(vocab), NEW text, IsSeq(text),
         NEW tokens, NEW e, NEW k, ValidCut(vocab, text, tokens, e, k),
         NEW B, IsStage(Ranks(vocab, text), 0, Len(text), B), NoJoin(Ranks(vocab, text), B)
  PROVE  B = CutSet(e, k)
<1> DEFINE rank == Ranks(vocab, text)
           N    == Len(text)
           E    == CutSet(e, k)
<1>1. /\ k \in Nat /\ N \in Nat /\ e[1] = 0 /\ e[k + 1] = N
      /\ \A i \in 1 .. k + 1 : e[i] \in 0 .. N
      /\ \A i, j \in 1 .. k + 1 : i < j => e[i] < e[j]
  BY DEF ValidCut, CutPoints
<1>2. E \subseteq B
  BY ValidCutKept
<1>3. B \subseteq 0 .. N
  <2>1. 0 \in Nat /\ N \in Nat /\ 0 <= N
    BY <1>1
  <2> HIDE DEF rank, N
  <2> QED BY <2>1, StageSteps DEF rank, N
<1>4. ASSUME NEW b \in B PROVE b \in E
  <2> SUFFICES ASSUME b \notin E PROVE FALSE
    OBVIOUS
  <2>1. b \in 0 .. N
    BY <1>3
  (* the last boundary of the cut before b *)
  <2> DEFINE below == {i \in 0 .. k : e[i + 1] <= b}
  <2>2. PICK x \in below : \A y \in below : y <= x
    <3>1. 0 \in below
      BY <1>1, <2>1
    <3>2. below \subseteq 0 .. k /\ below # {}
      BY <3>1
    <3> HIDE DEF below
    <3> QED BY <1>1, <3>2, LargestExists
  <2> DEFINE q == x + 1
  <2>3. q \in 1 .. k + 1 /\ e[q] <= b /\ e[q] \in 0 .. N /\ e[q] # b
    BY <1>1, <2>2 DEF CutSet
  <2>4. q \in 1 .. k
    BY <1>1, <2>1, <2>3
  <2>5. b < e[q + 1]
    <3> SUFFICES ASSUME e[q + 1] <= b PROVE FALSE
      <4>1. q + 1 \in 1 .. k + 1
        BY <1>1, <2>4
      <4>2. e[q + 1] \in 0 .. N
        BY <1>1, <4>1
      <4> QED BY <2>1, <4>2
    <3>1. q \in below
      BY <1>1, <2>4
    <3> QED BY <1>1, <2>2, <3>1, SMTT(60)
  <2> HIDE DEF q, below
  <2> DEFINE l == e[q]
             r == e[q + 1]
             t == tokens[q]
             D == B \cap (l .. r)
  <2>6. q + 1 \in 1 .. k + 1
    BY <1>1, <2>4
  <2>7. l \in 0 .. N /\ r \in 0 .. N /\ l \in E /\ r \in E /\ l < b /\ b < r /\ l <= r
    BY <1>1, <2>1, <2>3, <2>5, <2>6 DEF CutSet
  <2>8. t \in DOMAIN vocab /\ rank[<<l, r>>] = t
    BY <2>4 DEF ValidCut
  <2> HIDE DEF l, r, t
  <2>9. l \in B /\ r \in B /\ l <= r /\ B \in SUBSET Nat /\ l \in Nat /\ r \in Nat
    BY <1>1, <1>2, <1>3, <2>7
  <2>10. IsStage(rank, l, r, D)
    <3>1. 0 \in Nat /\ N \in Nat /\ 0 <= N
      BY <1>1
    <3> HIDE DEF rank
    <3> QED BY <2>9, <3>1, Projection DEF rank
  <2>11. b \in D /\ D # {l, r}
    BY <2>1, <2>7, <2>9
  <2>12. PICK K, valid : Finished(vocab, text, K, valid)
    BY DictionaryFinished
  <2>13. MergesTo(rank, N, Lens(vocab), FromDictionary(vocab).split_left, t)
    BY <2>8, <2>12 DEF Finished
  <2>14. \E i, m, j \in D : Joinable(rank, D, i, m, j)
    <3> HIDE DEF rank, N, D
    <3> QED BY <2>7, <2>8, <2>10, <2>11, <2>13 DEF MergesTo
  <2>15. PICK i \in D, m \in D, j \in D : Joinable(rank, D, i, m, j)
    BY <2>14
  <2>16. Joinable(rank, B, i, m, j) /\ i \in B /\ m \in B /\ j \in B
    <3>1. i \in B /\ m \in B /\ j \in B
      OBVIOUS
    <3> HIDE DEF rank, D
    <3> QED BY <2>9, <2>15, <3>1, Within DEF D
  <2> QED BY <2>16 DEF NoJoin
<1> QED BY <1>2, <1>4

-----------------------------------------------------------------------------
(* The reference encoding, as stages.                                      *)

(* The parts are what the text has between the cuts. *)
Cuts(text, parts, e) ==
  /\ IsSeq(parts)
  /\ CutPoints(e, Len(parts), Len(text))
  /\ \A x \in 1 .. Len(parts) : IsSlice(text, e[x], e[x + 1], parts[x])

(* elements x and x + 1 replaced by J *)
Splice(s, x, J) == SubSeq(s, 1, x - 1) \o <<J>> \o SubSeq(s, x + 2, Len(s))

(* What stands where after two elements became one. *)
LEMMA Spliced ==
  ASSUME NEW s, IsSeq(s), NEW x \in Nat, 1 <= x, x + 1 <= Len(s), NEW J
  PROVE  LET r == Splice(s, x, J)
         IN  /\ IsSeq(r)
             /\ Len(r) = Len(s) - 1
             /\ \A y \in 1 .. Len(s) - 1 : r[y] = IF y < x THEN s[y] ELSE IF y = x THEN J ELSE s[y + 1]
<1> DEFINE n == Len(s)
           p == x - 1
           f == x + 1
           q == n - f
           A == SubSeq(s, 1, p)
           C == SubSeq(s, f + 1, f + q)
           D == A \o <<J>>
<1>1. n \in Nat
  BY SeqFacts
<1>2. p \in 0 .. n /\ f \in Nat /\ q \in Nat /\ f + q = n /\ f + 1 = x + 2
  BY <1>1
<1>3. IsSeq(A) /\ Len(A) = p /\ \A k \in 1 .. p : A[k] = s[k]
  <2> HIDE DEF p
  <2> QED BY <1>2, PrefixFacts
<1>4. IsSeq(C) /\ Len(C) = q /\ \A k \in 1 .. q : C[k] = s[f + k]
  <2>1. f + q <= Len(s)
    BY <1>1, <1>2
  <2> HIDE DEF f, q, n
  <2> QED BY <1>2, <2>1, SliceFacts
<1>5. IsSeq(<<J>>) /\ Len(<<J>>) = 1 /\ <<J>>[1] = J
  <2>1. <<J>> \in Seq({J})
    OBVIOUS
  <2> QED BY <2>1 DEF IsSeq
<1>6. SubSeq(s, 1, x - 1) \o <<J>> \o SubSeq(s, x + 2, Len(s)) = D \o C
  <2>1. SubSeq(s, x + 2, Len(s)) = C
    <3> HIDE DEF f, q
    <3> QED BY <1>2
  <2> QED BY <2>1
<1>7. /\ IsSeq(D) /\ Len(D) = p + 1
      /\ \A k \in 1 .. p : D[k] = s[k]
      /\ D[p + 1] = J
  <2> HIDE DEF A
  <2>1. /\ IsSeq(A \o <<J>>) /\ Len(A \o <<J>>) = Len(A) + Len(<<J>>)
        /\ \A k \in 1 .. Len(A) : (A \o <<J>>)[k] = A[k]
        /\ \A k \in 1 .. Len(<<J>>) : (A \o <<J>>)[Len(A) + k] = <<J>>[k]
    BY <1>3, <1>5, ConcatFacts
  <2> QED BY <1>3, <1>5, <2>1
<1> HIDE DEF A, C, D
<1>8. /\ IsSeq(D \o C) /\ Len(D \o C) = p + 1 + q
      /\ \A k \in 1 .. p + 1 : (D \o C)[k] = D[k]
      /\ \A k \in 1 .. q : (D \o C)[p + 1 + k] = s[f + k]
  <2>1. /\ IsSeq(D \o C) /\ Len(D \o C) = Len(D) + Len(C)
        /\ \A k \in 1 .. Len(D) : (D \o C)[k] = D[k]
        /\ \A k \in 1 .. Len(C) : (D \o C)[Len(D) + k] = C[k]
    <3>1. IsSeq(D) /\ IsSeq(C)
      BY <1>4, <1>7
    <3> HIDE DEF p, q, f, n
    <3> QED BY <3>1, ConcatFacts
  <2>2. Len(D) = p + 1 /\ Len(C) = q /\ \A k \in 1 .. q : C[k] = s[f + k]
    BY <1>4, <1>7
  <2> HIDE DEF p, q, f, n
  <2> QED BY <2>1, <2>2
<1>9. p + 1 + q = n - 1 /\ p + 1 = x
  BY <1>1
<1>10. ASSUME NEW y \in 1 .. n - 1
       PROVE  (D \o C)[y] = IF y < x THEN s[y] ELSE IF y = x THEN J ELSE s[y + 1]
  <2>1. CASE y < x
    <3>1. y \in 1 .. p /\ y \in 1 .. p + 1
      BY <2>1
    <3> QED BY <1>7, <1>8, <2>1, <3>1
  <2>2. CASE y = x
    <3>1. y = p + 1 /\ y \in 1 .. p + 1
      BY <2>2
    <3> QED BY <1>7, <1>8, <2>2, <3>1
  <2>3. CASE x < y
    <3> DEFINE k == y - x
    <3>1. k \in 1 .. q /\ p + 1 + k = y /\ f + k = y + 1
      BY <1>1, <2>3
    <3>2. (D \o C)[p + 1 + k] = s[f + k]
      <4> HIDE DEF k, f, p, q
      <4> QED BY <1>8, <3>1
    <3>3. (D \o C)[y] = s[y + 1]
      <4> HIDE DEF k, f, p, q
      <4> QED BY <3>1, <3>2
    <3>4. ~(y < x) /\ y # x
      BY <2>3
    <3> QED BY <3>3, <3>4
  <2>4. y < x \/ y = x \/ x < y
    BY <1>1
  <2> QED BY <2>1, <2>2, <2>3, <2>4
<1> HIDE DEF f, p, q
<1> QED BY <1>6, <1>8, <1>9, <1>10 DEF n, Splice

(* Two neighbouring slices are one. *)
LEMMA JoinedSlice ==
  ASSUME NEW text, NEW a \in Nat, NEW b \in Nat, NEW c \in Nat, a <= b, b <= c,
         NEW v, NEW w, IsSlice(text, a, b, v), IsSlice(text, b, c, w)
  PROVE  IsSlice(text, a, c, v \o w)
<1>1. /\ IsSeq(v \o w) /\ Len(v \o w) = Len(v) + Len(w)
      /\ \A k \in 1 .. Len(v) : (v \o w)[k] = v[k]
      /\ \A k \in 1 .. Len(w) : (v \o w)[Len(v) + k] = w[k]
  <2>1. IsSeq(v) /\ IsSeq(w)
    BY DEF IsSlice
  <2> QED BY <2>1, ConcatFacts
<1>2. /\ Len(v) = b - a /\ \A k \in 1 .. b - a : v[k] = text[a + k]
      /\ Len(w) = c - b /\ \A k \in 1 .. c - b : w[k] = text[b + k]
  BY DEF IsSlice
<1>3. ASSUME NEW k \in 1 .. c - a PROVE (v \o w)[k] = text[a + k]
  <2>1. CASE k <= b - a
    <3>1. k \in 1 .. b - a
      BY <2>1
    <3> QED BY <1>1, <1>2, <3>1
  <2>2. CASE b - a < k
    <3> DEFINE d == k - (b - a)
    <3>1. d \in 1 .. c - b /\ (b - a) + d = k /\ b + d = a + k
      BY <2>2
    <3> HIDE DEF d
    <3>2. (v \o w)[Len(v) + d] = w[d] /\ w[d] = text[b + d] /\ Len(v) + d = k
      BY <1>1, <1>2, <3>1
    <3> QED BY <3>1, <3>2
  <2>3. k <= b - a \/ b - a < k
    OBVIOUS
  <2> QED BY <2>1, <2>2, <2>3
<1> QED BY <1>1, <1>2, <1>3 DEF IsSlice

(* The rank of two neighbouring parts is that of the region they cover. *)
LEMMA JoinRank ==
  ASSUME NEW vocab, Usable(vocab), NEW text, IsSeq(text), NEW parts, NEW e, Cuts(text, parts, e),
         NEW x \in 1 .. Len(parts) - 1
  PROVE  /\ e[x] \in 0 .. Len(text) /\ e[x + 1] \in 0 .. Len(text) /\ e[x + 2] \in 0 .. Len(text)
         /\ e[x] < e[x + 1] /\ e[x + 1] < e[x + 2]
         /\ IsSlice(text, e[x], e[x + 2], parts[x] \o parts[x + 1])
         /\ Ranks(vocab, text)[<<e[x], e[x + 2]>>] = FindTokenByBytes(vocab, parts[x] \o parts[x + 1])
<1> DEFINE k == Len(parts)
           N == Len(text)
<1>1. /\ k \in Nat /\ N \in Nat
      /\ \A i \in 1 .. k + 1 : e[i] \in 0 .. N
      /\ \A i, j \in 1 .. k + 1 : i < j => e[i] < e[j]
      /\ \A i \in 1 .. k : IsSlice(text, e[i], e[i + 1], parts[i])
  BY DEF Cuts, CutPoints
<1> DEFINE y == x + 1
<1>2. /\ x \in 1 .. k + 1 /\ y \in 1 .. k + 1 /\ y + 1 \in 1 .. k + 1 /\ x < y /\ y < y + 1
      /\ x \in 1 .. k /\ y \in 1 .. k /\ y + 1 = x + 2
  BY <1>1
<1> HIDE DEF y, k
<1>3. /\ e[x] \in 0 .. N /\ e[y] \in 0 .. N /\ e[y + 1] \in 0 .. N
      /\ e[x] < e[y] /\ e[y] < e[y + 1]
      /\ IsSlice(text, e[y], e[y + 1], parts[y])
  BY <1>1, <1>2
<1>4. IsSlice(text, e[x], e[y], parts[x])
  BY <1>1, <1>2 DEF y
<1> DEFINE a == e[x]
           b == e[y]
           c == e[y + 1]
           w == parts[x] \o parts[y]
<1>5. IsSlice(text, a, c, w)
  <2> HIDE DEF a, b, c
  <2>1. a \in Nat /\ b \in Nat /\ c \in Nat /\ a <= b /\ b <= c
    BY <1>1, <1>3 DEF a, b, c
  <2>2. IsSlice(text, a, b, parts[x]) /\ IsSlice(text, b, c, parts[y])
    BY <1>3, <1>4 DEF a, b, c
  <2> QED BY <2>1, <2>2, JoinedSlice
<1>6. SubSeq(text, a + 1, c) = w
  <2> HIDE DEF a, b, c, w, N
  <2>1. a \in 0 .. N /\ c \in 0 .. N /\ a <= c
    BY <1>1, <1>3 DEF a, b, c
  <2>2. IsSlice(text, a, c, SubSeq(text, a + 1, c))
    BY <2>1, SubSeqIsSlice DEF N
  <2> QED BY <1>5, <2>2, SameSlice
<1>7. Ranks(vocab, text)[<<a, c>>] = FindTokenByBytes(vocab, w)
  <2> HIDE DEF a, c, w
  <2>1. a \in 0 .. N /\ c \in 0 .. N
    BY <1>3 DEF a, c
  <2> QED BY <1>6, <2>1 DEF Ranks
<1> QED BY <1>2, <1>3, <1>5, <1>7 DEF y

(* Of finitely many pairs, one is the leftmost of the lowest rank. *)
LEMMA FirstOfLowest ==
  ASSUME NEW S \in SUBSET Nat, S # {}, NEW rk, \A x \in S : rk[x] \in Nat
  PROVE  \E x \in S : \A y \in S : rk[x] < rk[y] \/ (rk[x] = rk[y] /\ x <= y)
<1> DEFINE R == {rk[x] : x \in S}
<1>1. PICK r \in R : \A q \in R : r <= q
  <2>1. R \in SUBSET Nat /\ R # {}
    OBVIOUS
  <2> HIDE DEF R
  <2> QED BY <2>1, LeastExists
<1> DEFINE T == {x \in S : rk[x] = r}
<1>2. PICK x \in T : \A y \in T : x <= y
  <2>1. T \in SUBSET Nat /\ T # {}
    BY <1>1
  <2> HIDE DEF T
  <2> QED BY <2>1, LeastExists
<1>3. x \in S /\ rk[x] = r
  BY <1>2
<1>4. ASSUME NEW y \in S PROVE rk[x] < rk[y] \/ (rk[x] = rk[y] /\ x <= y)
  <2>1. r <= rk[y]
    BY <1>1
  <2>2. rk[y] = r => x <= y
    BY <1>2
  <2>3. r \in Nat /\ rk[y] \in Nat
    BY <1>1
  <2> QED BY <1>3, <2>1, <2>2, <2>3
<1> QED BY <1>3, <1>4

(* A step of the reference is a join of the stage, or nothing joins. *)
Next1(vocab, text, parts, e, e2) ==
  \E i, m, j \in CutSet(e, Len(parts)) :
    /\ LowestJoin(Ranks(vocab, text), CutSet(e, Len(parts)), i, m, j)
    /\ Cuts(text, JoinLowest(vocab, parts), e2)
    /\ Len(JoinLowest(vocab, parts)) = Len(parts) - 1
    /\ CutSet(e2, Len(parts) - 1) = CutSet(e, Len(parts)) \ {m}

(* the cuts without the one at x + 1 *)
CutWithout(e, k, x) == [y \in 1 .. k |-> IF y <= x THEN e[y] ELSE e[y + 1]]

(* What stands where after a cut is taken away. *)
LEMMA CutRemoved ==
  ASSUME NEW e, NEW k, NEW n, CutPoints(e, k, n), NEW x \in Nat, 1 <= x, x + 1 <= k
  PROVE  LET e2 == CutWithout(e, k, x)
         IN  /\ CutPoints(e2, k - 1, n)
             /\ CutSet(e2, k - 1) = CutSet(e, k) \ {e[x + 1]}
             /\ \A y \in 1 .. k - 1 :
                  /\ y < x => e2[y] = e[y] /\ e2[y + 1] = e[y + 1]
                  /\ y = x => e2[y] = e[y] /\ e2[y + 1] = e[y + 2]
                  /\ y > x => e2[y] = e[y + 1] /\ e2[y + 1] = e[y + 2]
<1> DEFINE e2 == CutWithout(e, k, x)
<1>1. /\ k \in Nat /\ n \in Nat /\ e[1] = 0 /\ e[k + 1] = n
      /\ \A i \in 1 .. k + 1 : e[i] \in 0 .. n
      /\ \A i, j \in 1 .. k + 1 : i < j => e[i] < e[j]
  BY DEF CutPoints
<1>2. /\ \A y \in 1 .. k : y <= x => e2[y] = e[y]
      /\ \A y \in 1 .. k : ~(y <= x) => e2[y] = e[y + 1]
  BY DEF CutWithout
<1> HIDE DEF e2
<1>3. CutPoints(e2, k - 1, n)
  <2>1. e2[1] = 0
    BY <1>1, <1>2
  <2>2. e2[(k - 1) + 1] = n
    <3>1. k \in 1 .. k /\ ~(k <= x) /\ (k - 1) + 1 = k
      BY <1>1
    <3> QED BY <1>1, <1>2, <3>1
  <2>3. \A i \in 1 .. (k - 1) + 1 : e2[i] \in 0 .. n
    <3> TAKE i \in 1 .. (k - 1) + 1
    <3>1. i \in 1 .. k /\ i \in 1 .. k + 1 /\ i + 1 \in 1 .. k + 1
      BY <1>1
    <3>2. i <= x \/ ~(i <= x)
      OBVIOUS
    <3> QED BY <1>1, <1>2, <3>1, <3>2
  <2>4. \A i, j \in 1 .. (k - 1) + 1 : i < j => e2[i] < e2[j]
    <3> TAKE i \in 1 .. (k - 1) + 1, j \in 1 .. (k - 1) + 1
    <3> HAVE i < j
    <3>1. /\ i \in 1 .. k /\ i \in 1 .. k + 1 /\ i + 1 \in 1 .. k + 1
          /\ j \in 1 .. k /\ j \in 1 .. k + 1 /\ j + 1 \in 1 .. k + 1
          /\ i < j + 1 /\ i + 1 < j + 1
      BY <1>1
    <3>2. e[i] < e[j] /\ e[i] < e[j + 1] /\ e[i + 1] < e[j + 1]
      BY <1>1, <3>1
    <3>3. (i <= x /\ j <= x) \/ (i <= x /\ ~(j <= x)) \/ (~(i <= x) /\ ~(j <= x))
      BY <3>1
    <3>4. (i <= x => e2[i] = e[i]) /\ (~(i <= x) => e2[i] = e[i + 1])
      BY <1>2, <3>1
    <3>5. (j <= x => e2[j] = e[j]) /\ (~(j <= x) => e2[j] = e[j + 1])
      BY <1>2, <3>1
    <3> QED BY <3>2, <3>3, <3>4, <3>5
  <2>5. k - 1 \in Nat
    BY <1>1
  <2> QED BY <1>1, <2>1, <2>2, <2>3, <2>4, <2>5 DEF CutPoints
<1>4. \A y \in 1 .. k - 1 :
        /\ y < x => e2[y] = e[y] /\ e2[y + 1] = e[y + 1]
        /\ y = x => e2[y] = e[y] /\ e2[y + 1] = e[y + 2]
        /\ y > x => e2[y] = e[y + 1] /\ e2[y + 1] = e[y + 2]
  <2> TAKE y \in 1 .. k - 1
  <2>1. y \in 1 .. k /\ y + 1 \in 1 .. k /\ (y + 1) + 1 = y + 2
    BY <1>1
  <2>2. y < x => y <= x /\ y + 1 <= x
    BY <1>1
  <2>3. y = x => y <= x /\ ~(y + 1 <= x)
    BY <1>1
  <2>4. y > x => ~(y <= x) /\ ~(y + 1 <= x)
    BY <1>1
  <2>5. (y <= x => e2[y] = e[y]) /\ (~(y <= x) => e2[y] = e[y + 1])
    BY <1>2, <2>1
  <2>6. (y + 1 <= x => e2[y + 1] = e[y + 1]) /\ (~(y + 1 <= x) => e2[y + 1] = e[y + 2])
    BY <1>2, <2>1
  <2> QED BY <2>2, <2>3, <2>4, <2>5, <2>6
<1>5. CutSet(e2, k - 1) = CutSet(e, k) \ {e[x + 1]}
  <2>1. CutSet(e2, k - 1) = {e2[i] : i \in 1 .. k}
    <3>1. (k - 1) + 1 = k
      BY <1>1
    <3> QED BY <3>1 DEF CutSet
  <2>2. ASSUME NEW i \in 1 .. k PROVE e2[i] \in CutSet(e, k) \ {e[x + 1]}
    <3>1. i \in 1 .. k + 1 /\ i + 1 \in 1 .. k + 1 /\ x + 1 \in 1 .. k + 1
      BY <1>1
    <3>2. e[i] \in CutSet(e, k) /\ e[i + 1] \in CutSet(e, k)
      BY <3>1 DEF CutSet
    <3>3. e[i] \in Nat /\ e[i + 1] \in Nat /\ e[x + 1] \in Nat
      BY <1>1, <3>1
    <3>4. i <= x => e[i] < e[x + 1]
      BY <1>1, <3>1
    <3>5. ~(i <= x) => e[x + 1] < e[i + 1]
      <4>1. ~(i <= x) => x + 1 < i + 1
        BY <1>1
      <4> QED BY <1>1, <3>1, <4>1
    <3>6. (i <= x => e2[i] = e[i]) /\ (~(i <= x) => e2[i] = e[i + 1])
      BY <1>2
    <3>7. e[i] < e[x + 1] => e[i] # e[x + 1]
      BY <3>3
    <3>8. e[x + 1] < e[i + 1] => e[i + 1] # e[x + 1]
      BY <3>3
    <3> QED BY <3>2, <3>4, <3>5, <3>6, <3>7, <3>8
  <2>3. ASSUME NEW b \in CutSet(e, k), b # e[x + 1] PROVE b \in {e2[i] : i \in 1 .. k}
    <3>1. PICK i \in 1 .. k + 1 : b = e[i]
      BY DEF CutSet
    <3>2. i # x + 1
      BY <2>3, <3>1
    <3>3. CASE i <= x
      <4>1. i \in 1 .. k
        BY <1>1, <3>3
      <4> QED BY <1>2, <3>1, <3>3, <4>1
    <3>4. CASE ~(i <= x)
      <4> DEFINE h == i - 1
      <4>1. h \in 1 .. k /\ ~(h <= x) /\ h + 1 = i
        BY <1>1, <3>2, <3>4
      <4> HIDE DEF h
      <4> QED BY <1>2, <3>1, <4>1
    <3> QED BY <3>3, <3>4
  <2> QED BY <2>1, <2>2, <2>3
<1> QED BY <1>3, <1>4, <1>5 DEF e2

(* A join of the reference takes one boundary away, the lowest join next. *)
LEMMA ReferenceStep ==
  ASSUME NEW vocab, Usable(vocab), NEW text, IsSeq(text), NEW parts, NEW e, Cuts(text, parts, e)
  PROVE  \/ /\ JoinLowest(vocab, parts) = parts
            /\ NoJoin(Ranks(vocab, text), CutSet(e, Len(parts)))
         \/ \E e2 : Next1(vocab, text, parts, e, e2)
<1> DEFINE rank == Ranks(vocab, text)
           N == Len(text)
           k == Len(parts)
           B == CutSet(e, k)
           rk == [x \in 1 .. k - 1 |-> FindTokenByBytes(vocab, parts[x] \o parts[x + 1])]
           S == {x \in 1 .. k - 1 : \E id \in DOMAIN vocab : vocab[id] = parts[x] \o parts[x + 1]}
           lowest == CHOOSE i \in S : \A j \in S : rk[i] < rk[j] \/ (rk[i] = rk[j] /\ i <= j)
           next == SubSeq(parts, 1, lowest - 1) \o <<parts[lowest] \o parts[lowest + 1]>>
                   \o SubSeq(parts, lowest + 2, k)
<1>1. /\ IsSeq(parts) /\ CutPoints(e, k, N) /\ k \in Nat /\ N \in Nat
      /\ \A x \in 1 .. k : IsSlice(text, e[x], e[x + 1], parts[x])
  BY DEF Cuts, CutPoints
<1>2. ASSUME NEW x \in 1 .. k - 1
      PROVE  /\ e[x] \in 0 .. N /\ e[x + 1] \in 0 .. N /\ e[x + 2] \in 0 .. N
             /\ e[x] < e[x + 1] /\ e[x + 1] < e[x + 2]
             /\ IsSlice(text, e[x], e[x + 2], parts[x] \o parts[x + 1])
             /\ rank[<<e[x], e[x + 2]>>] = rk[x]
             /\ Gap(B, e[x], e[x + 1]) /\ Gap(B, e[x + 1], e[x + 2])
  <2>1. rk[x] = FindTokenByBytes(vocab, parts[x] \o parts[x + 1])
    OBVIOUS
  <2>2. x \in 1 .. k /\ x + 1 \in 1 .. k /\ (x + 1) + 1 = x + 2
    BY <1>1
  <2>3. Gap(B, e[x], e[x + 1]) /\ Gap(B, e[x + 1], e[(x + 1) + 1])
    <3> HIDE DEF k
    <3> QED BY <1>1, <2>2, CutGaps
  <2>4. x \in 1 .. Len(parts) - 1
    OBVIOUS
  <2> HIDE DEF rk, rank, B, k
  <2> QED BY <2>1, <2>2, <2>3, <2>4, JoinRank DEF rank
<1>3. \A x \in 1 .. k - 1 : x \in S <=> rk[x] # UINT32_MAX
  <2> TAKE x \in 1 .. k - 1
  <2> DEFINE w == parts[x] \o parts[x + 1]
  <2>1. rk[x] = FindTokenByBytes(vocab, w)
    OBVIOUS
  <2>2. x \in S <=> \E id \in DOMAIN vocab : vocab[id] = w
    OBVIOUS
  <2> HIDE DEF w, S, rk
  <2>3. Mergeable(vocab) /\ UINT32_MAX \notin DOMAIN vocab
    BY UsableFacts DEF Usable
  <2> QED BY <2>1, <2>2, <2>3, FindFacts
<1>4. \A i, m, j : Joinable(rank, B, i, m, j) =>
        \E x \in S : i = e[x] /\ m = e[x + 1] /\ j = e[x + 2]
  <2> SUFFICES ASSUME NEW i, NEW m, NEW j, Joinable(rank, B, i, m, j)
               PROVE  \E x \in S : i = e[x] /\ m = e[x + 1] /\ j = e[x + 2]
    OBVIOUS
  <2> HIDE DEF rank, B, S, rk, k
  <2>1. Gap(B, i, m) /\ Gap(B, m, j) /\ rank[<<i, j>>] # UINT32_MAX
    BY DEF Joinable
  <2>2. PICK x \in 1 .. k, y \in 1 .. k : i = e[x] /\ m = e[x + 1] /\ m = e[y] /\ j = e[y + 1]
    BY <1>1, <2>1, CutGaps DEF B
  <2>3. y = x + 1
    <3>1. \A a, b \in 1 .. k + 1 : a < b => e[a] < e[b]
      BY <1>1 DEF CutPoints
    <3>2. x + 1 \in 1 .. k + 1 /\ y \in 1 .. k + 1
      BY <1>1
    <3>3. e[y] \in Nat
      BY <1>1, <3>2 DEF CutPoints
    <3> DEFINE z == x + 1
    <3>4. e[z] = e[y]
      BY <2>2
    <3>5. z < y => e[z] < e[y]
      BY <3>1, <3>2
    <3>6. y < z => e[y] < e[z]
      BY <3>1, <3>2
    <3>7. z \in Nat /\ y \in Nat
      BY <3>2
    <3> HIDE DEF z
    <3>8. z = y
      BY <3>3, <3>4, <3>5, <3>6, <3>7
    <3> QED BY <3>8 DEF z
  <2>4. x \in 1 .. k - 1 /\ y + 1 = x + 2
    BY <1>1, <2>3
  <2>5. rank[<<e[x], e[x + 2]>>] = rk[x]
    BY <1>2, <2>4
  <2>6. x \in S
    BY <1>3, <2>1, <2>2, <2>4, <2>5
  <2> QED BY <2>2, <2>4, <2>6
<1>5. JoinLowest(vocab, parts) = IF S = {} THEN parts ELSE next
  <2>1. \A x \in S : rk[x] = FindTokenByBytes(vocab, parts[x] \o parts[x + 1])
    OBVIOUS
  <2>2. lowest = CHOOSE i \in S : \A j \in S :
                   \/ FindTokenByBytes(vocab, parts[i] \o parts[i + 1])
                        < FindTokenByBytes(vocab, parts[j] \o parts[j + 1])
                   \/ /\ FindTokenByBytes(vocab, parts[i] \o parts[i + 1])
                           = FindTokenByBytes(vocab, parts[j] \o parts[j + 1])
                      /\ i <= j
    <3> HIDE DEF rk, S
    <3> QED BY <2>1
  <2> HIDE DEF lowest, rk
  <2> QED BY <2>2 DEF JoinLowest
<1>6. CASE S = {}
  <2>1. JoinLowest(vocab, parts) = parts
    <3> HIDE DEF S, next
    <3> QED BY <1>5, <1>6
  <2>2. NoJoin(rank, B)
    <3> HIDE DEF S, rank, B, rk
    <3> QED BY <1>4, <1>6 DEF NoJoin
  <2> QED BY <2>1, <2>2
<1>7. CASE S # {}
  <2>1. JoinLowest(vocab, parts) = next
    <3> HIDE DEF S, next
    <3> QED BY <1>5, <1>7
  <2>2. S \in SUBSET Nat /\ S \subseteq 1 .. k - 1
    <3>1. S \subseteq 1 .. k - 1
      OBVIOUS
    <3>2. 1 .. k - 1 \subseteq Nat
      BY <1>1
    <3> HIDE DEF S
    <3> QED BY <3>1, <3>2
  <2>3. \A x \in S : rk[x] # UINT32_MAX /\ rk[x] \in Nat
    <3> TAKE x \in S
    <3>1. x \in 1 .. k - 1
      BY <2>2
    <3>2. rk[x] # UINT32_MAX
      BY <1>3, <3>1
    <3>3. rk[x] = FindTokenByBytes(vocab, parts[x] \o parts[x + 1])
      BY <3>1
    <3>4. rk[x] \in DOMAIN vocab
      <4> HIDE DEF rk
      <4> QED BY <3>2, <3>3, FindFacts
    <3> HIDE DEF rk
    <3> QED BY <3>2, <3>4, UsableFacts
  <2>4. lowest \in S /\ \A j \in S : rk[lowest] < rk[j] \/ (rk[lowest] = rk[j] /\ lowest <= j)
    <3> HIDE DEF S, rk
    <3>1. \E i \in S : \A j \in S : rk[i] < rk[j] \/ (rk[i] = rk[j] /\ i <= j)
      BY <1>7, <2>2, <2>3, FirstOfLowest
    <3> QED BY <3>1
  <2> HIDE DEF lowest
  <2> DEFINE x  == lowest
             w  == parts[x] \o parts[x + 1]
             e2 == CutWithout(e, k, x)
  <2>5. x \in 1 .. k - 1 /\ x \in Nat /\ 1 <= x /\ x + 1 <= k
    BY <1>1, <2>2, <2>4
  <2>6. /\ IsSeq(next)
        /\ Len(next) = k - 1
        /\ \A y \in 1 .. k - 1 :
             next[y] = IF y < x THEN parts[y] ELSE IF y = x THEN w ELSE parts[y + 1]
    <3> HIDE DEF w
    <3>1. next = SubSeq(parts, 1, x - 1) \o <<w>> \o SubSeq(parts, x + 2, Len(parts))
      BY DEF w
    <3>2. IsSeq(parts) /\ x \in Nat /\ 1 <= x /\ x + 1 <= Len(parts)
      BY <1>1, <2>5
    <3> DEFINE r == Splice(parts, x, w)
    <3> HIDE DEF x
    <3>3. /\ IsSeq(r)
          /\ Len(r) = Len(parts) - 1
          /\ \A y \in 1 .. Len(parts) - 1 :
               r[y] = IF y < x THEN parts[y] ELSE IF y = x THEN w ELSE parts[y + 1]
      BY <3>2, Spliced
    <3>4. next = r
      BY <3>1 DEF Splice
    <3> HIDE DEF r, next
    <3> QED BY <3>3, <3>4
  <2>7. /\ CutPoints(e2, k - 1, N)
        /\ CutSet(e2, k - 1) = B \ {e[x + 1]}
        /\ \A y \in 1 .. k - 1 :
             /\ y < x => e2[y] = e[y] /\ e2[y + 1] = e[y + 1]
             /\ y = x => e2[y] = e[y] /\ e2[y + 1] = e[y + 2]
             /\ y > x => e2[y] = e[y + 1] /\ e2[y + 1] = e[y + 2]
    <3> HIDE DEF x, k, N
    <3> QED BY <1>1, <2>5, CutRemoved
  <2> HIDE DEF e2, next, w
  <2>8. Cuts(text, next, e2)
    <3>1. ASSUME NEW y \in 1 .. k - 1 PROVE IsSlice(text, e2[y], e2[y + 1], next[y])
      <4>1. y < x \/ y = x \/ y > x
        BY <1>1, <2>5
      <4>2. CASE y < x
        <5>1. y \in 1 .. k
          BY <1>1
        <5>2. next[y] = parts[y]
          BY <2>6, <4>2
        <5> QED BY <1>1, <2>7, <4>2, <5>1, <5>2
      <4>3. CASE y = x
        <5>1. next[y] = w
          BY <2>5, <2>6, <4>3
        <5>2. e2[y] = e[x] /\ e2[y + 1] = e[x + 2]
          BY <2>7, <4>3
        <5>3. IsSlice(text, e[x], e[x + 2], w)
          BY <1>2, <2>5 DEF w
        <5> QED BY <5>1, <5>2, <5>3
      <4>4. CASE y > x
        <5>1. y + 1 \in 1 .. k /\ (y + 1) + 1 = y + 2
          BY <1>1
        <5>2. next[y] = parts[y + 1]
          <6>1. ~(y < x) /\ y # x
            BY <2>5, <4>4
          <6> QED BY <2>6, <6>1
        <5>3. e2[y] = e[y + 1] /\ e2[y + 1] = e[y + 2]
          BY <2>7, <4>4
        <5>4. IsSlice(text, e[y + 1], e[(y + 1) + 1], parts[y + 1])
          BY <1>1, <5>1
        <5> QED BY <5>1, <5>2, <5>3, <5>4
      <4> QED BY <4>1, <4>2, <4>3, <4>4
    <3> QED BY <2>6, <2>7, <3>1 DEF Cuts
  <2>9. LowestJoin(rank, B, e[x], e[x + 1], e[x + 2]) /\ e[x] \in B /\ e[x + 1] \in B /\ e[x + 2] \in B
    <3> HIDE DEF rank, B, S, rk, x
    <3>1. /\ e[x] < e[x + 1] /\ e[x + 1] < e[x + 2] /\ rank[<<e[x], e[x + 2]>>] = rk[x]
          /\ Gap(B, e[x], e[x + 1]) /\ Gap(B, e[x + 1], e[x + 2])
      BY <1>2, <2>5
    <3>2. Joinable(rank, B, e[x], e[x + 1], e[x + 2])
      BY <2>3, <2>4, <3>1 DEF Joinable, x
    <3>3. ASSUME NEW a \in B, NEW c \in B, NEW b \in B, Joinable(rank, B, a, c, b)
          PROVE  \/ rank[<<e[x], e[x + 2]>>] < rank[<<a, b>>]
                 \/ rank[<<e[x], e[x + 2]>>] = rank[<<a, b>>] /\ e[x + 1] <= c
      <4>1. PICK y \in S : a = e[y] /\ c = e[y + 1] /\ b = e[y + 2]
        BY <1>4, <3>3
      <4>2. y \in 1 .. k - 1 /\ rank[<<a, b>>] = rk[y]
        BY <1>2, <2>2, <4>1
      <4>3. rk[x] < rk[y] \/ (rk[x] = rk[y] /\ x <= y)
        BY <2>4 DEF x
      <4>4. x <= y => e[x + 1] <= e[y + 1]
        <5>1. \A i, j \in 1 .. k + 1 : i < j => e[i] < e[j]
          BY <1>1 DEF CutPoints
        <5>2. x + 1 \in 1 .. k + 1 /\ y + 1 \in 1 .. k + 1
          BY <1>1, <2>5, <4>2
        <5>3. e[x + 1] \in Nat /\ e[y + 1] \in Nat
          BY <1>1, <5>2 DEF CutPoints
        <5>4. x <= y => x = y \/ x + 1 < y + 1
          BY <2>5, <4>2
        <5> QED BY <5>1, <5>2, <5>3, <5>4
      <4> QED BY <3>1, <4>1, <4>2, <4>3, <4>4
    <3>4. e[x] \in B /\ e[x + 1] \in B /\ e[x + 2] \in B
      BY <3>1 DEF Gap
    <3> QED BY <3>2, <3>3, <3>4 DEF LowestJoin
  <2>10. Next1(vocab, text, parts, e, e2)
    BY <2>1, <2>6, <2>7, <2>8, <2>9 DEF Next1
  <2> QED BY <2>10
<1> QED BY <1>6, <1>7

(* The parts are sequences of sequences. *)
LEMMA CutsTyped ==
  ASSUME NEW text, IsSeq(text), NEW parts, NEW e, Cuts(text, parts, e)
  PROVE  parts \in Seq(Seq({text[i] : i \in 1 .. Len(text)}))
<1> DEFINE R == {text[i] : i \in 1 .. Len(text)}
<1>1. /\ Len(parts) \in Nat /\ Len(text) \in Nat
      /\ parts = [x \in 1 .. Len(parts) |-> parts[x]]
      /\ \A i \in 1 .. Len(parts) + 1 : e[i] \in 0 .. Len(text)
  BY SeqFacts DEF Cuts, CutPoints
<1>2. ASSUME NEW x \in 1 .. Len(parts) PROVE parts[x] \in Seq(R)
  <2> DEFINE w == parts[x]
             a == e[x]
             b == e[x + 1]
  <2>1. IsSlice(text, a, b, w)
    BY DEF Cuts
  <2>2. a \in 0 .. Len(text) /\ b \in 0 .. Len(text)
    <3>1. x \in 1 .. Len(parts) + 1 /\ x + 1 \in 1 .. Len(parts) + 1
      BY <1>1
    <3> QED BY <1>1, <3>1
  <2> HIDE DEF w, a, b
  <2>3. /\ IsSeq(w) /\ Len(w) \in Nat /\ Len(w) = b - a
        /\ w = [k \in 1 .. Len(w) |-> w[k]]
        /\ \A k \in 1 .. b - a : w[k] = text[a + k]
    BY <2>1, SeqFacts DEF IsSlice
  <2>4. \A k \in 1 .. Len(w) : w[k] \in R
    <3> TAKE k \in 1 .. Len(w)
    <3>1. k \in 1 .. b - a /\ a + k \in 1 .. Len(text)
      BY <1>1, <2>2, <2>3
    <3> QED BY <2>3, <3>1
  <2> HIDE DEF R
  <2>5. w \in [1 .. Len(w) -> R]
    BY <2>3, <2>4
  <2>6. w \in Seq(R)
    BY <2>3, <2>5
  <2> QED BY <2>6 DEF w
<1> DEFINE T == Seq(R)
<1> HIDE DEF R
<1>3. parts \in [1 .. Len(parts) -> T]
  BY <1>1, <1>2
<1> HIDE DEF T
<1>4. parts \in Seq(T)
  BY <1>1, <1>3
<1> QED BY <1>4 DEF T, R

FirstParts(text) == [i \in 1 .. Len(text) |-> <<text[i]>>]

(* The reference starts with a cut after every byte. *)
LEMMA FirstCuts ==
  ASSUME NEW text, IsSeq(text)
  PROVE  LET e == [i \in 1 .. Len(text) + 1 |-> i - 1]
         IN  /\ Cuts(text, FirstParts(text), e)
             /\ Len(FirstParts(text)) = Len(text)
             /\ CutSet(e, Len(text)) = 0 .. Len(text)
<1> DEFINE N == Len(text)
           e == [i \in 1 .. N + 1 |-> i - 1]
           parts == FirstParts(text)
           B == {<<text[i]>> : i \in 1 .. N}
<1>1. N \in Nat
  BY SeqFacts
<1>2. parts \in [1 .. N -> B] /\ \A i \in 1 .. N : parts[i] = <<text[i]>>
  BY DEF FirstParts
<1>3. parts \in Seq(B) /\ Len(parts) = N
  <2> HIDE DEF parts, B, N
  <2>1. parts \in Seq(B)
    BY <1>1, <1>2
  <2>2. DOMAIN parts = 1 .. N
    BY <1>2
  <2> QED BY <1>1, <2>1, <2>2, LenProperties
<1>4. CutPoints(e, N, N)
  <2> HIDE DEF N
  <2> QED BY <1>1 DEF CutPoints
<1>5. CutSet(e, N) = 0 .. N
  <2>1. CutSet(e, N) = {i - 1 : i \in 1 .. N + 1}
    <3> HIDE DEF N
    <3> QED BY <1>1 DEF CutSet
  <2>2. ASSUME NEW b \in 0 .. N PROVE b \in {i - 1 : i \in 1 .. N + 1}
    <3>1. b + 1 \in 1 .. N + 1 /\ b = (b + 1) - 1
      BY <1>1
    <3> QED BY <3>1
  <2>3. ASSUME NEW b \in {i - 1 : i \in 1 .. N + 1} PROVE b \in 0 .. N
    BY <1>1
  <2> QED BY <2>1, <2>2, <2>3
<1>6. ASSUME NEW x \in 1 .. N PROVE IsSlice(text, e[x], e[x + 1], parts[x])
  <2>1. e[x] = x - 1 /\ e[x + 1] = x /\ x - (x - 1) = 1
    <3>1. x \in 1 .. N + 1 /\ x + 1 \in 1 .. N + 1 /\ (x + 1) - 1 = x
      BY <1>1
    <3> QED BY <3>1
  <2>2. IsSeq(<<text[x]>>) /\ Len(<<text[x]>>) = 1 /\ <<text[x]>>[1] = text[x]
    <3>1. <<text[x]>> \in Seq({text[x]})
      OBVIOUS
    <3> QED BY <3>1 DEF IsSeq
  <2>3. parts[x] = <<text[x]>>
    BY <1>2
  <2> HIDE DEF e, parts
  <2>4. \A k \in 1 .. 1 : k = 1 /\ (x - 1) + k = x
    OBVIOUS
  <2> DEFINE w == <<text[x]>>
  <2> HIDE DEF w
  <2>5. IsSlice(text, x - 1, x, w)
    BY <2>1, <2>2, <2>4 DEF IsSlice, w
  <2> QED BY <2>1, <2>3, <2>5 DEF w
<1>7. Cuts(text, parts, e)
  <2>1. IsSeq(parts)
    BY <1>3 DEF IsSeq
  <2> HIDE DEF e, parts
  <2> QED BY <1>3, <1>4, <1>6, <2>1 DEF Cuts
<1> QED BY <1>3, <1>5, <1>7

(* What ReferenceEncoding computes. *)
Joins(vocab, text, f) ==
  /\ f[0] = FirstParts(text)
  /\ \A n \in 1 .. Len(text) : f[n] = JoinLowest(vocab, f[n - 1])

(* The joins of the reference, as a function of their number. *)
LEMMA ReferenceUnfolds ==
  ASSUME NEW vocab, Usable(vocab), NEW text, IsSeq(text)
  PROVE  \E f : /\ Joins(vocab, text, f)
                /\ ReferenceEncoding(vocab, text) =
                     [i \in 1 .. Len(f[Len(text)]) |-> FindTokenByBytes(vocab, f[Len(text)][i])]
<1> DEFINE N     == Len(text)
           first == FirstParts(text)
           S     == {p \in Seq(Seq({text[i] : i \in 1 .. Len(text)})) : \E e : Cuts(text, p, e)}
           step  == [nx \in (1 .. N) \X S |-> JoinLowest(vocab, nx[2])]
           B(f)  == [n \in 0 .. N |-> IF n = 0 THEN first ELSE JoinLowest(vocab, f[n - 1])]
           parts == CHOOSE f : f = B(f)
<1>1. N \in Nat
  BY SeqFacts
<1>2. \A p : (\E e : Cuts(text, p, e)) => p \in S
  BY CutsTyped
<1>3. first \in S
  <2>1. \E e : Cuts(text, first, e)
    BY FirstCuts
  <2> HIDE DEF S, first
  <2> QED BY <1>2, <2>1
<1>4. ASSUME NEW p \in S PROVE JoinLowest(vocab, p) \in S
  <2>1. PICK e : Cuts(text, p, e)
    OBVIOUS
  <2> HIDE DEF S
  <2>2. CASE JoinLowest(vocab, p) = p
    BY <2>2
  <2>3. CASE \E e2 : Next1(vocab, text, p, e, e2)
    <3>1. \E e2 : Cuts(text, JoinLowest(vocab, p), e2)
      BY <2>3 DEF Next1
    <3> QED BY <1>2, <3>1
  <2> QED BY <2>1, <2>2, <2>3, ReferenceStep
<1>5. \A n \in 1 .. N, x \in S : step[<<n, x>>] = JoinLowest(vocab, x)
  OBVIOUS
<1>6. StepsIn(step, N, S)
  <2> HIDE DEF step, S
  <2> QED BY <1>4, <1>5 DEF StepsIn
<1>7. PICK f : Recursion(f, first, step, N, S)
  <2> HIDE DEF step, S, N, first
  <2> QED BY <1>1, <1>3, <1>6, RecursionExists
<1>8. /\ f \in [0 .. N -> S] /\ f[0] = first
      /\ \A k \in 1 .. N : f[k] = JoinLowest(vocab, f[k - 1])
  <2> HIDE DEF step, S, N, first
  <2>1. \A k \in 1 .. N : f[k - 1] \in S /\ f[k] = step[<<k, f[k - 1]>>]
    <3>1. \A k \in 1 .. N : k - 1 \in 0 .. N
      BY <1>1
    <3> QED BY <1>7, <3>1 DEF Recursion
  <2>2. \A k \in 1 .. N : f[k] = JoinLowest(vocab, f[k - 1])
    BY <1>5, <2>1
  <2> QED BY <1>7, <2>2 DEF Recursion
<1> HIDE DEF S, first
<1>9. f = B(f)
  <2>1. f = [k \in 0 .. N |-> f[k]]
    BY <1>8
  <2>2. \A k \in 0 .. N : f[k] = IF k = 0 THEN first ELSE JoinLowest(vocab, f[k - 1])
    BY <1>1, <1>8
  <2> QED BY <2>1, <2>2
<1>10. parts = B(parts)
  <2> HIDE DEF B
  <2> QED BY <1>9
<1>11. ReferenceEncoding(vocab, text) =
         [i \in 1 .. Len(parts[N]) |-> FindTokenByBytes(vocab, parts[N][i])]
  BY DEF ReferenceEncoding, first, FirstParts
<1>12. \A g : g = B(g) => \A k \in 0 .. N : g[k] = IF k = 0 THEN first ELSE JoinLowest(vocab, g[k - 1])
  OBVIOUS
<1> HIDE DEF parts, B
<1>13. Joins(vocab, text, parts)
  <2>1. 0 \in 0 .. N /\ \A k \in 1 .. N : k \in 0 .. N /\ k # 0
    BY <1>1
  <2>2. \A k \in 0 .. N : parts[k] = IF k = 0 THEN first ELSE JoinLowest(vocab, parts[k - 1])
    BY <1>10, <1>12
  <2> HIDE DEF N
  <2>3. parts[0] = first
    BY <2>1, <2>2
  <2>4. \A k \in 1 .. N : parts[k] = JoinLowest(vocab, parts[k - 1])
    BY <2>1, <2>2
  <2> QED BY <2>3, <2>4 DEF Joins, first, N
<1> QED BY <1>11, <1>13

(* Between neighbouring boundaries of a stage there is always a token. *)
LEMMA StageTokens ==
  ASSUME NEW vocab, Usable(vocab), NEW text, IsSeq(text), Complete(vocab, text)
  PROVE  \A B : IsStage(Ranks(vocab, text), 0, Len(text), B) =>
           \A x, y : Gap(B, x, y) => Ranks(vocab, text)[<<x, y>>] \in DOMAIN vocab
<1> DEFINE rank == Ranks(vocab, text)
           N    == Len(text)
           F    == {C \in SUBSET (0 .. N) : \A x, y : Gap(C, x, y) => rank[<<x, y>>] \in DOMAIN vocab}
<1>1. N \in Nat
  BY SeqFacts
<1>2. 0 .. N \in F
  <2> SUFFICES ASSUME NEW x, NEW y, Gap(0 .. N, x, y) PROVE rank[<<x, y>>] \in DOMAIN vocab
    OBVIOUS
  <2>1. x \in 0 .. N /\ y \in 0 .. N /\ y = x + 1
    <3>1. x \in 0 .. N /\ y \in 0 .. N /\ x < y /\ (x + 1 \in 0 .. N => x + 1 <= x \/ y <= x + 1)
      BY DEF Gap
    <3>2. x \in Nat /\ y \in Nat /\ x + 1 \in 0 .. N
      BY <1>1, <3>1
    <3> QED BY <3>1, <3>2
  <2>2. y \in 1 .. N
    BY <1>1, <2>1
  <2>3. PICK id \in DOMAIN vocab : vocab[id] = <<text[y]>>
    BY <2>2 DEF Complete
  <2>4. IsSlice(text, x, y, vocab[id])
    <3>1. y - x = 1 /\ x + 1 = y /\ x <= y
      BY <1>1, <2>1
    <3>2. IsSeq(vocab[id])
      BY UsableFacts
    <3> DEFINE w == vocab[id]
    <3>3. Len(w) = 1 /\ w[1] = text[y]
      BY <2>3
    <3> HIDE DEF w
    <3>4. \A k \in 1 .. 1 : k = 1
      OBVIOUS
    <3> QED BY <3>1, <3>2, <3>3, <3>4 DEF IsSlice, w
  <2>5. x <= y
    BY <1>1, <2>1
  <2> HIDE DEF rank
  <2>6. rank[<<x, y>>] = id
    BY <2>1, <2>4, <2>5, RankIs DEF rank
  <2> QED BY <2>6
<1>3. ASSUME NEW C \in F, NEW i \in C, NEW m \in C, NEW j \in C, LowestJoin(rank, C, i, m, j)
      PROVE  C \ {m} \in F
  <2>1. C \subseteq 0 .. N /\ \A x, y : Gap(C, x, y) => rank[<<x, y>>] \in DOMAIN vocab
    OBVIOUS
  <2> SUFFICES ASSUME NEW x, NEW y, Gap(C \ {m}, x, y) PROVE rank[<<x, y>>] \in DOMAIN vocab
    BY <2>1
  <2> HIDE DEF F
  <2>2. /\ Gap(C, i, m) /\ Gap(C, m, j) /\ rank[<<i, j>>] # UINT32_MAX
        /\ i \in 0 .. N /\ m \in 0 .. N /\ j \in 0 .. N /\ i < m /\ m < j
    BY <1>3, <2>1 DEF LowestJoin, Joinable, Gap
  <2>3. rank[<<i, j>>] \in DOMAIN vocab
    BY <2>2, RankFacts
  <2>4. /\ x \in C /\ y \in C /\ x # m /\ y # m /\ x < y /\ x \in 0 .. N /\ y \in 0 .. N
        /\ \A c \in C : c # m => c <= x \/ y <= c
    BY <2>1 DEF Gap
  <2>5. CASE m <= x \/ y <= m
    <3>1. Gap(C, x, y)
      BY <2>4, <2>5 DEF Gap
    <3> QED BY <2>1, <3>1
  <2>6. CASE x < m /\ m < y
    <3>1. (x <= i \/ m <= x) /\ (y <= m \/ j <= y)
      BY <2>2, <2>4 DEF Gap
    <3>2. i # m /\ j # m
      BY <2>2
    <3>3. (i <= x \/ y <= i) /\ (j <= x \/ y <= j)
      BY <2>4, <3>2
    <3> HIDE DEF rank
    <3>4. x = i /\ y = j
      BY <1>1, <2>2, <2>4, <2>6, <3>1, <3>3
    <3> QED BY <2>3, <3>4
  <2> QED BY <1>1, <2>2, <2>4, <2>5, <2>6
<1>4. F \subseteq SUBSET (0 .. N)
  OBVIOUS
<1>5. \A B : IsStage(rank, 0, N, B) => B \in F
  <2> HIDE DEF F, rank
  <2> QED BY <1>2, <1>3, <1>4, StageInduction
<1> QED BY <1>5

(* The reference encoding is what is left when nothing joins. *)
Reached(vocab, text, parts, e) ==
  /\ Cuts(text, parts, e)
  /\ IsStage(Ranks(vocab, text), 0, Len(text), CutSet(e, Len(parts)))

(* After Len(text) joins nothing joins. *)
LEMMA JoinsReach ==
  ASSUME NEW vocab, Usable(vocab), NEW text, IsSeq(text), NEW f, Joins(vocab, text, f)
  PROVE  \E e : /\ Reached(vocab, text, f[Len(text)], e)
                /\ NoJoin(Ranks(vocab, text), CutSet(e, Len(f[Len(text)])))
<1> DEFINE rank == Ranks(vocab, text)
           N    == Len(text)
           Done(p, e) == NoJoin(rank, CutSet(e, Len(p)))
           Good == {q \in Nat : q <= N =>
                      \E e : Reached(vocab, text, f[q], e) /\ (Done(f[q], e) \/ Len(f[q]) = N - q)}
<1>1. N \in Nat /\ 0 \in Nat /\ 0 <= N
  BY SeqFacts
<1>2. f[0] = FirstParts(text) /\ \A n \in 1 .. N : f[n] = JoinLowest(vocab, f[n - 1])
  BY DEF Joins
<1>3. 0 \in Good
  <2> DEFINE e == [i \in 1 .. Len(text) + 1 |-> i - 1]
  <2>1. Cuts(text, f[0], e) /\ Len(f[0]) = N /\ CutSet(e, N) = 0 .. N
    BY <1>2, FirstCuts
  <2>2. IsStage(rank, 0, N, 0 .. N)
    <3> HIDE DEF N, rank
    <3> QED BY <1>1, StageSteps
  <2> HIDE DEF e
  <2>3. Reached(vocab, text, f[0], e)
    BY <2>1, <2>2 DEF Reached
  <2>4. Len(f[0]) = N - 0
    BY <1>1, <2>1
  <2> HIDE DEF Done, N
  <2> QED BY <2>3, <2>4
<1>4. ASSUME NEW q \in Nat, q \in Good PROVE q + 1 \in Good
  <2> DEFINE c == q + 1
             p == f[q]
             r == f[c]
  <2> SUFFICES ASSUME c <= N
               PROVE  \E e : Reached(vocab, text, r, e) /\ (Done(r, e) \/ Len(r) = N - c)
    OBVIOUS
  <2>1. q <= N /\ c \in 1 .. N /\ c - 1 = q
    BY <1>1
  <2>2. PICK e : Reached(vocab, text, p, e) /\ (Done(p, e) \/ Len(p) = N - q)
    BY <1>4, <2>1
  <2>3. r = JoinLowest(vocab, p)
    <3> HIDE DEF c
    <3> QED BY <1>2, <2>1
  <2>4. Cuts(text, p, e) /\ IsStage(rank, 0, N, CutSet(e, Len(p)))
    BY <2>2 DEF Reached
  <2>5. Len(p) \in Nat
    BY <2>4 DEF Cuts, CutPoints
  <2> HIDE DEF c, p, r, Good
  <2>6. CASE JoinLowest(vocab, p) = p /\ Done(p, e)
    <3> HIDE DEF Done
    <3> QED BY <2>2, <2>3, <2>6
  <2>7. CASE \E e2 : Next1(vocab, text, p, e, e2)
    <3>1. PICK e2 : Next1(vocab, text, p, e, e2)
      BY <2>7
    <3> DEFINE B == CutSet(e, Len(p))
    <3>2. PICK i \in B, m \in B, j \in B :
            /\ LowestJoin(rank, B, i, m, j)
            /\ Cuts(text, r, e2)
            /\ Len(r) = Len(p) - 1
            /\ CutSet(e2, Len(p) - 1) = B \ {m}
      BY <2>3, <3>1 DEF Next1
    <3>3. IsStage(rank, 0, N, B \ {m})
      <4> HIDE DEF N, rank, B
      <4> QED BY <1>1, <2>4, <3>2, StageSteps DEF B
    <3>4. Reached(vocab, text, r, e2)
      BY <3>2, <3>3 DEF Reached
    <3>5. ~Done(p, e)
      BY <3>2 DEF LowestJoin, NoJoin
    <3>6. Len(r) = N - c
      <4> HIDE DEF Done, N
      <4> QED BY <1>1, <2>2, <2>5, <3>2, <3>5 DEF c
    <3> HIDE DEF Done, N
    <3> QED BY <3>4, <3>6
  <2> HIDE DEF N
  <2> QED BY <2>4, <2>6, <2>7, ReferenceStep
<1>5. N \in Good
  <2> HIDE DEF Good
  <2>1. \A q \in Nat : q \in Good
    BY <1>3, <1>4, SetInduction
  <2> QED BY <1>1, <2>1
<1>6. PICK e : Reached(vocab, text, f[N], e) /\ (Done(f[N], e) \/ Len(f[N]) = N - N)
  BY <1>1, <1>5
<1>7. CASE Len(f[N]) = N - N
  <2>1. Len(f[N]) = 0
    BY <1>1, <1>7
  <2>2. CutSet(e, 0) = {e[1]} /\ e[1] = 0
    <3>1. CutSet(e, 0) = {e[1]}
      BY DEF CutSet
    <3> QED BY <1>6, <3>1 DEF Reached, Cuts, CutPoints
  <2>3. Done(f[N], e)
    <3> HIDE DEF N, rank
    <3> QED BY <2>1, <2>2 DEF NoJoin, Joinable, Gap
  <2> QED BY <1>6, <2>3
<1> QED BY <1>6, <1>7

(* The reference encoding is the last stage: the tokens between its boundaries. *)
LEMMA ReferenceStages ==
  ASSUME NEW vocab, Usable(vocab), NEW text, IsSeq(text)
  PROVE  \E e, k :
           /\ CutPoints(e, k, Len(text))
           /\ IsStage(Ranks(vocab, text), 0, Len(text), CutSet(e, k))
           /\ NoJoin(Ranks(vocab, text), CutSet(e, k))
           /\ ReferenceEncoding(vocab, text) = [i \in 1 .. k |-> Ranks(vocab, text)[<<e[i], e[i + 1]>>]]
<1> DEFINE rank == Ranks(vocab, text)
           N    == Len(text)
<1>1. PICK f : /\ Joins(vocab, text, f)
               /\ ReferenceEncoding(vocab, text) =
                    [i \in 1 .. Len(f[Len(text)]) |-> FindTokenByBytes(vocab, f[Len(text)][i])]
  BY ReferenceUnfolds
<1> DEFINE parts == f[N]
           k     == Len(parts)
<1>2. PICK e : Reached(vocab, text, parts, e) /\ NoJoin(rank, CutSet(e, k))
  BY <1>1, JoinsReach
<1>3. Cuts(text, parts, e) /\ IsStage(rank, 0, N, CutSet(e, k)) /\ CutPoints(e, k, N)
  BY <1>2 DEF Reached, Cuts
<1>4. \A i \in 1 .. k : FindTokenByBytes(vocab, parts[i]) = rank[<<e[i], e[i + 1]>>]
  <2> TAKE i \in 1 .. k
  <2> DEFINE a == e[i]
             b == e[i + 1]
             w == parts[i]
  <2>1. IsSlice(text, a, b, w)
    BY <1>3 DEF Cuts
  <2>2. a \in 0 .. N /\ b \in 0 .. N /\ a < b
    <3>1. k \in Nat
      BY <1>3 DEF CutPoints
    <3>2. i \in 1 .. k + 1 /\ i + 1 \in 1 .. k + 1 /\ i < i + 1
      BY <3>1
    <3> QED BY <1>3, <3>2 DEF CutPoints
  <2>3. N \in Nat
    BY SeqFacts
  <2> HIDE DEF a, b, w, N
  <2>4. a <= b
    BY <2>2, <2>3
  <2>5. IsSlice(text, a, b, SubSeq(text, a + 1, b))
    BY <2>2, <2>4, SubSeqIsSlice DEF N
  <2>6. w = SubSeq(text, a + 1, b)
    BY <2>1, <2>5, SameSlice
  <2>7. rank[<<a, b>>] = FindTokenByBytes(vocab, SubSeq(text, a + 1, b))
    BY <2>2 DEF Ranks, N
  <2> QED BY <2>6, <2>7 DEF a, b, w
<1>5. ReferenceEncoding(vocab, text) = [i \in 1 .. k |-> rank[<<e[i], e[i + 1]>>]]
  <2> HIDE DEF rank
  <2> QED BY <1>1, <1>4
<1> QED BY <1>2, <1>3, <1>5

(* A valid cutting of the text is the reference encoding. *)
LEMMA ValidIsReference ==
  ASSUME NEW vocab, Usable(vocab), NEW text, IsSeq(text),
         NEW tokens, IsSeq(tokens), NEW e, ValidCut(vocab, text, tokens, e, Len(tokens))
  PROVE  tokens = ReferenceEncoding(vocab, text)
<1> DEFINE rank == Ranks(vocab, text)
           N    == Len(text)
           l    == Len(tokens)
<1>1. PICK d, k : /\ CutPoints(d, k, N)
                  /\ IsStage(rank, 0, N, CutSet(d, k))
                  /\ NoJoin(rank, CutSet(d, k))
                  /\ ReferenceEncoding(vocab, text) = [i \in 1 .. k |-> rank[<<d[i], d[i + 1]>>]]
  BY ReferenceStages
<1>2. CutSet(d, k) = CutSet(e, l)
  BY <1>1, ValidCutIsLast
<1>3. CutPoints(e, l, N) /\ \A i \in 1 .. l : rank[<<e[i], e[i + 1]>>] = tokens[i]
  BY DEF ValidCut
<1>4. k = l /\ \A i \in 1 .. k + 1 : d[i] = e[i]
  <2> HIDE DEF l, N
  <2> QED BY <1>1, <1>2, <1>3, SameCuts
<1>5. k \in Nat
  BY <1>1 DEF CutPoints
<1>6. \A i \in 1 .. k : rank[<<d[i], d[i + 1]>>] = tokens[i]
  <2> TAKE i \in 1 .. k
  <2>1. i \in 1 .. k + 1 /\ i + 1 \in 1 .. k + 1
    BY <1>5
  <2> HIDE DEF rank, l
  <2>2. d[i] = e[i] /\ d[i + 1] = e[i + 1]
    BY <1>4, <2>1
  <2> QED BY <1>3, <1>4, <2>2
<1>7. tokens = [i \in 1 .. l |-> tokens[i]]
  BY SeqFacts
<1> HIDE DEF rank, l
<1> QED BY <1>1, <1>4, <1>6, <1>7

(* The reference encoding is a valid cutting of the text. *)
LEMMA ReferenceIsValid ==
  ASSUME NEW vocab, Usable(vocab), NEW text, IsSeq(text), Complete(vocab, text)
  PROVE  /\ IsSeq(ReferenceEncoding(vocab, text))
         /\ \E e : ValidCut(vocab, text, ReferenceEncoding(vocab, text), e,
                            Len(ReferenceEncoding(vocab, text)))
<1> DEFINE rank == Ranks(vocab, text)
           N    == Len(text)
           ref  == ReferenceEncoding(vocab, text)
<1>1. PICK e, k : /\ CutPoints(e, k, N)
                  /\ IsStage(rank, 0, N, CutSet(e, k))
                  /\ NoJoin(rank, CutSet(e, k))
                  /\ ref = [i \in 1 .. k |-> rank[<<e[i], e[i + 1]>>]]
  BY ReferenceStages
<1> DEFINE B == CutSet(e, k)
<1>2. /\ k \in Nat /\ N \in Nat
      /\ \A i \in 1 .. k + 1 : e[i] \in 0 .. N
      /\ \A i, j \in 1 .. k + 1 : i < j => e[i] < e[j]
  BY <1>1 DEF CutPoints
<1>3. \A i \in 1 .. k : Gap(B, e[i], e[i + 1])
  BY <1>1, CutGaps
<1>4. \A i \in 1 .. k : rank[<<e[i], e[i + 1]>>] \in DOMAIN vocab
  <2> HIDE DEF B
  <2> QED BY <1>1, <1>3, StageTokens DEF B
<1>5. IsSeq(ref) /\ Len(ref) = k /\ \A i \in 1 .. k : ref[i] = rank[<<e[i], e[i + 1]>>]
  <2>1. ref \in [1 .. k -> DOMAIN vocab]
    <3> HIDE DEF ref, rank
    <3> QED BY <1>1, <1>4
  <2>2. ref \in Seq(DOMAIN vocab) /\ DOMAIN ref = 1 .. k
    <3> HIDE DEF ref
    <3> QED BY <1>2, <2>1
  <2>3. \A i \in 1 .. k : ref[i] = rank[<<e[i], e[i + 1]>>]
    <3> HIDE DEF ref, rank
    <3> QED BY <1>1
  <2>4. IsSeq(ref)
    BY <2>2 DEF IsSeq
  <2> HIDE DEF ref
  <2>5. Len(ref) = k
    BY <1>2, <2>2, LenProperties
  <2> QED BY <2>3, <2>4, <2>5
<1> HIDE DEF ref
<1>6. ASSUME NEW i \in 1 .. k, i > 1 PROVE ValidPair(FromDictionary(vocab), ref[i - 1], ref[i])
  <2> DEFINE h == i - 1
             l == e[h]
             m == e[i]
             r == e[i + 1]
  <2>1. h \in 1 .. k /\ h + 1 = i /\ h \in 1 .. k + 1 /\ i \in 1 .. k + 1 /\ i + 1 \in 1 .. k + 1
        /\ h < i /\ i < i + 1
    BY <1>2, <1>6
  <2>2. l \in 0 .. N /\ m \in 0 .. N /\ r \in 0 .. N /\ l < m /\ m < r
    BY <1>2, <2>1
  <2>3. Gap(B, l, m) /\ Gap(B, m, r)
    <3>1. Gap(B, e[h], e[h + 1])
      BY <1>3, <2>1
    <3> QED BY <1>3, <2>1, <3>1
  <2>4. /\ rank[<<l, m>>] = ref[h] /\ rank[<<m, r>>] = ref[i]
        /\ ref[h] \in DOMAIN vocab /\ ref[i] \in DOMAIN vocab
    <3>1. /\ rank[<<e[h], e[h + 1]>>] = ref[h] /\ rank[<<e[h], e[h + 1]>>] \in DOMAIN vocab
      BY <1>4, <1>5, <2>1
    <3>2. /\ rank[<<e[i], e[i + 1]>>] = ref[i] /\ rank[<<e[i], e[i + 1]>>] \in DOMAIN vocab
      BY <1>4, <1>5
    <3> QED BY <2>1, <3>1, <3>2
  <2> HIDE DEF h, l, m, r, B
  <2>5. l \in B /\ m \in B /\ r \in B /\ \A b \in B : (b <= l \/ m <= b) /\ (b <= m \/ r <= b)
    BY <2>3 DEF Gap
  <2>6. B \subseteq 0 .. N
    BY <1>2 DEF B, CutSet
  <2>7. B \cap (l .. r) = {l, m, r}
    <3>1. ASSUME NEW b \in B, b \in l .. r PROVE b \in {l, m, r}
      <4>1. b \in 0 .. N /\ l <= b /\ b <= r /\ (b <= l \/ m <= b) /\ (b <= m \/ r <= b)
        BY <2>2, <2>5, <2>6, <3>1
      <4>2. b = l \/ b = m \/ b = r
        BY <1>2, <2>2, <4>1
      <4> QED BY <4>2
    <3>2. l \in l .. r /\ m \in l .. r /\ r \in l .. r
      BY <1>2, <2>2
    <3> QED BY <2>5, <3>1, <3>2
  <2>8. IsStage(rank, l, r, {l, m, r})
    <3>1. 0 \in Nat /\ N \in Nat /\ 0 <= N /\ l <= r
      BY <1>2, <2>2
    <3>2. IsStage(rank, l, r, B \cap (l .. r))
      <4> HIDE DEF rank, N
      <4> QED BY <1>1, <2>5, <3>1, Projection DEF B
    <3> QED BY <2>7, <3>2
  <2>9. rank[<<l, r>>] = UINT32_MAX
    <3> HIDE DEF rank
    <3> QED BY <1>1, <2>3, <2>5 DEF NoJoin, Joinable, B
  <2>10. PICK K, valid : Finished(vocab, text, K, valid)
    BY DictionaryFinished
  <2>11. ValidPair(FromDictionary(vocab), ref[h], ref[i])
    <3> DEFINE t1 == ref[h]
               t2 == ref[i]
    <3>1. t1 \in DOMAIN vocab /\ t2 \in DOMAIN vocab /\ rank[<<l, m>>] = t1 /\ rank[<<m, r>>] = t2
      BY <2>4
    <3> HIDE DEF t1, t2
    <3>2. ValidPair(FromDictionary(vocab), t1, t2)
      BY <2>2, <2>8, <2>9, <2>10, <3>1, StandingIsValid
    <3> QED BY <3>2 DEF t1, t2
  <2> QED BY <2>11 DEF h
<1>7. ValidCut(vocab, text, ref, e, k)
  BY <1>1, <1>4, <1>5, <1>6 DEF ValidCut
<1> QED BY <1>5, <1>7 DEF ref

(* the word is what the text has at this position *)
LEMMA OccursIsSlice ==
  ASSUME NEW text, IsSeq(text), NEW w, IsSeq(w), NEW from \in Nat, NEW to \in Nat,
         from + Len(w) <= to, to <= Len(text), NEW s, IsSeq(s), Len(s) = to,
         \A k \in 1 .. to : s[k] = text[k], OccursAt(w, text, from, Len(text))
  PROVE  IsSlice(s, from, from + Len(w), w)
<1> DEFINE n == Len(w)
<1>1. n \in Nat
  BY SeqFacts
<1>2. \A k \in 1 .. n : text[from + k] = w[k]
  BY DEF OccursAt
<1>3. ASSUME NEW k \in 1 .. n PROVE w[k] = s[from + k]
  <2>1. from + k \in 1 .. to
    BY <1>1
  <2> QED BY <1>2, <2>1
<1>4. (from + n) - from = n
  BY <1>1
<1> HIDE DEF n
<1>5. \A k \in 1 .. (from + n) - from : w[k] = s[from + k]
  BY <1>3, <1>4
<1> QED BY <1>4, <1>5 DEF IsSlice, n

(* Tokens that lie end to end in the text, neighbours being valid pairs. *)
LEMMA StackCut ==
  ASSUME NEW vocab, Usable(vocab), NEW text, IsSeq(text),
         NEW n \in Nat, NEW tokens, NEW ends, NEW pos \in 0 .. Len(text),
         ends[1] = 0, ends[n + 1] = pos,
         \A i \in 1 .. n :
           /\ tokens[i] \in DOMAIN vocab
           /\ ends[i + 1] = ends[i] + Len(vocab[tokens[i]])
           /\ OccursAt(vocab[tokens[i]], text, ends[i], Len(text))
           /\ i > 1 => ValidPair(FromDictionary(vocab), tokens[i - 1], tokens[i])
  PROVE  ValidCut(vocab, SubSeq(text, 1, pos), tokens, ends, n)
<1> DEFINE s == SubSeq(text, 1, pos)
<1>1. IsSeq(s) /\ Len(s) = pos /\ \A k \in 1 .. pos : s[k] = text[k]
  BY PrefixFacts
<1>2. pos \in Nat /\ Len(text) \in Nat /\ pos <= Len(text)
  BY SeqFacts
<1>3. \A t \in DOMAIN vocab : IsSeq(vocab[t]) /\ Len(vocab[t]) \in Nat \ {0}
  BY UsableFacts
<1>4. CutPoints(ends, n, pos)
  <2>1. ASSUME NEW i \in 1 .. n, ends[i] \in Nat PROVE ends[i + 1] \in Nat /\ ends[i] < ends[i + 1]
    <3>1. ends[i + 1] = ends[i] + Len(vocab[tokens[i]]) /\ Len(vocab[tokens[i]]) \in Nat \ {0}
      BY <1>3
    <3> QED BY <2>1, <3>1
  <2> QED BY <1>2, <2>1, RisingCuts
<1> HIDE DEF s
<1>5. ASSUME NEW i \in 1 .. n PROVE Ranks(vocab, s)[<<ends[i], ends[i + 1]>>] = tokens[i]
  <2> DEFINE a == ends[i]
             b == ends[i + 1]
             w == vocab[tokens[i]]
  <2>1. tokens[i] \in DOMAIN vocab /\ b = a + Len(w) /\ OccursAt(w, text, a, Len(text))
    OBVIOUS
  <2>2. a \in 0 .. pos /\ b \in 0 .. pos
    <3>1. i \in 1 .. n + 1 /\ i + 1 \in 1 .. n + 1
      OBVIOUS
    <3> QED BY <1>4, <3>1 DEF CutPoints
  <2>3. IsSeq(w) /\ Len(w) \in Nat
    BY <1>3, <2>1
  <2> HIDE DEF a, b, w
  <2>4. IsSlice(s, a, a + Len(w), w)
    <3>1. a \in Nat /\ a + Len(w) <= pos
      BY <1>2, <2>1, <2>2, <2>3
    <3> QED BY <1>1, <1>2, <2>1, <2>3, <3>1, OccursIsSlice
  <2>5. a <= b
    BY <1>2, <2>1, <2>2, <2>3
  <2>6. IsSlice(s, a, b, vocab[tokens[i]])
    BY <2>1, <2>4 DEF w
  <2>7. Ranks(vocab, s)[<<a, b>>] = tokens[i]
    <3> DEFINE t == tokens[i]
    <3>1. a \in 0 .. Len(s) /\ b \in 0 .. Len(s) /\ t \in DOMAIN vocab /\ IsSlice(s, a, b, vocab[t])
      BY <1>1, <2>1, <2>2, <2>6
    <3> HIDE DEF t
    <3>2. Ranks(vocab, s)[<<a, b>>] = t
      BY <1>1, <2>5, <3>1, RankIs
    <3> QED BY <3>2 DEF t
  <2> QED BY <2>7 DEF a, b
<1>6. \A i \in 1 .. n : tokens[i] \in DOMAIN vocab
                        /\ (i > 1 => ValidPair(FromDictionary(vocab), tokens[i - 1], tokens[i]))
  OBVIOUS
<1>7. CutPoints(ends, n, Len(s))
  BY <1>1, <1>4
<1> QED BY <1>5, <1>6, <1>7 DEF ValidCut, s

(* and what a valid cut is, in the same words *)
LEMMA CutStack ==
  ASSUME NEW vocab, Usable(vocab), NEW text, IsSeq(text), NEW tokens, NEW e, NEW n,
         ValidCut(vocab, text, tokens, e, n)
  PROVE  /\ n \in Nat /\ Len(text) \in Nat /\ e[1] = 0 /\ e[n + 1] = Len(text)
         /\ \A i \in 1 .. n + 1 : e[i] \in 0 .. Len(text)
         /\ \A i, j \in 1 .. n + 1 : i < j => e[i] < e[j]
         /\ \A i \in 1 .. n :
              /\ tokens[i] \in DOMAIN vocab
              /\ e[i + 1] = e[i] + Len(vocab[tokens[i]])
              /\ OccursAt(vocab[tokens[i]], text, e[i], e[i + 1])
              /\ OccursAt(vocab[tokens[i]], text, e[i], Len(text))
              /\ i > 1 => ValidPair(FromDictionary(vocab), tokens[i - 1], tokens[i])
<1>1. /\ n \in Nat /\ Len(text) \in Nat /\ e[1] = 0 /\ e[n + 1] = Len(text)
      /\ \A i \in 1 .. n + 1 : e[i] \in 0 .. Len(text)
      /\ \A i, j \in 1 .. n + 1 : i < j => e[i] < e[j]
  BY DEF ValidCut, CutPoints
<1>2. ASSUME NEW i \in 1 .. n
      PROVE  /\ tokens[i] \in DOMAIN vocab
             /\ e[i + 1] = e[i] + Len(vocab[tokens[i]])
             /\ OccursAt(vocab[tokens[i]], text, e[i], e[i + 1])
             /\ OccursAt(vocab[tokens[i]], text, e[i], Len(text))
             /\ i > 1 => ValidPair(FromDictionary(vocab), tokens[i - 1], tokens[i])
  <2>1. /\ tokens[i] \in DOMAIN vocab /\ Ranks(vocab, text)[<<e[i], e[i + 1]>>] = tokens[i]
        /\ i > 1 => ValidPair(FromDictionary(vocab), tokens[i - 1], tokens[i])
    BY DEF ValidCut
  <2> DEFINE a == e[i]
             b == e[i + 1]
             t == tokens[i]
             w == vocab[t]
  <2>2. a \in 0 .. Len(text) /\ b \in 0 .. Len(text)
    <3>1. i \in 1 .. n + 1 /\ i + 1 \in 1 .. n + 1
      BY <1>1
    <3> QED BY <1>1, <3>1
  <2>3. t \in DOMAIN vocab /\ Ranks(vocab, text)[<<a, b>>] = t
    BY <2>1
  <2> HIDE DEF a, b, t
  <2>4. a <= b /\ IsSlice(text, a, b, w)
    BY <2>2, <2>3, RankIs
  <2> HIDE DEF w
  <2>5. Len(w) = b - a /\ \A k \in 1 .. b - a : w[k] = text[a + k]
    BY <2>4 DEF IsSlice
  <2>6. b = a + Len(w)
    BY <1>1, <2>2, <2>4, <2>5
  <2>7. OccursAt(w, text, a, b) /\ OccursAt(w, text, a, Len(text))
    BY <1>1, <2>2, <2>5, <2>6 DEF OccursAt
  <2> QED BY <2>1, <2>6, <2>7 DEF a, b, t, w
<1> QED BY <1>1, <1>2

(* All of a sequence. *)
LEMMA WholeSeq ==
  ASSUME NEW s, IsSeq(s)
  PROVE  SubSeq(s, 1, Len(s)) = s
<1> DEFINE w == SubSeq(s, 1, Len(s))
<1>1. Len(s) \in 0 .. Len(s)
  BY SeqFacts
<1>2. IsSeq(w) /\ Len(w) = Len(s) /\ \A k \in 1 .. Len(s) : w[k] = s[k]
  BY <1>1, PrefixFacts
<1> HIDE DEF w
<1>3. \A k \in 1 .. Len(w) : w[k] = s[k]
  BY <1>2
<1> QED BY <1>2, <1>3, SameSeq DEF w

(* The first tokens of the reference encoding encode the text before them. *)
LEMMA PrefixIsReference ==
  ASSUME NEW vocab, Usable(vocab), NEW text, IsSeq(text),
         NEW tokens, IsSeq(tokens), NEW e, ValidCut(vocab, text, tokens, e, Len(tokens)),
         NEW i \in 0 .. Len(tokens)
  PROVE  SubSeq(tokens, 1, i) = ReferenceEncoding(vocab, SubSeq(text, 1, e[i + 1]))
<1> DEFINE n == Len(tokens)
           Q == SubSeq(tokens, 1, i)
           p == e[i + 1]
<1>1. /\ n \in Nat /\ e[1] = 0
      /\ \A x \in 1 .. n + 1 : e[x] \in 0 .. Len(text)
      /\ \A x \in 1 .. n :
           /\ tokens[x] \in DOMAIN vocab
           /\ e[x + 1] = e[x] + Len(vocab[tokens[x]])
           /\ OccursAt(vocab[tokens[x]], text, e[x], Len(text))
           /\ x > 1 => ValidPair(FromDictionary(vocab), tokens[x - 1], tokens[x])
  BY CutStack
<1>2. IsSeq(Q) /\ Len(Q) = i /\ \A x \in 1 .. i : Q[x] = tokens[x]
  BY PrefixFacts
<1>3. i \in Nat /\ i <= n /\ p \in 0 .. Len(text)
  <2>1. i + 1 \in 1 .. n + 1
    BY <1>1
  <2> QED BY <1>1, <2>1
<1> HIDE DEF Q, n
<1>4. ASSUME NEW x \in 1 .. i
      PROVE  /\ Q[x] \in DOMAIN vocab
             /\ e[x + 1] = e[x] + Len(vocab[Q[x]])
             /\ OccursAt(vocab[Q[x]], text, e[x], Len(text))
             /\ x > 1 => ValidPair(FromDictionary(vocab), Q[x - 1], Q[x])
  <2>1. x \in 1 .. n /\ (x > 1 => x - 1 \in 1 .. i)
    BY <1>1, <1>3
  <2>2. Q[x] = tokens[x] /\ (x > 1 => Q[x - 1] = tokens[x - 1])
    BY <1>2, <2>1
  <2> QED BY <1>1, <2>1, <2>2
<1>5. ValidCut(vocab, SubSeq(text, 1, p), Q, e, i)
  BY <1>1, <1>3, <1>4, StackCut
<1>6. IsSeq(SubSeq(text, 1, p))
  BY <1>3, PrefixFacts
<1> HIDE DEF p
<1>7. Q = ReferenceEncoding(vocab, SubSeq(text, 1, p))
  BY <1>2, <1>5, <1>6, ValidIsReference
<1> QED BY <1>7 DEF Q, p

(* A token that may follow the encoding of the text before it is the last one. *)
LEMMA LastToken ==
  ASSUME NEW vocab, Usable(vocab), NEW text, IsSeq(text), Complete(vocab, text),
         NEW id \in DOMAIN vocab, NEW p \in 0 .. Len(text), p + Len(vocab[id]) = Len(text),
         OccursAt(vocab[id], text, p, Len(text)),
         NEW before, before = ReferenceEncoding(vocab, SubSeq(text, 1, p)),
         p = 0 \/ ValidPair(FromDictionary(vocab), before[Len(before)], id)
  PROVE  ReferenceEncoding(vocab, text) = Append(before, id)
<1> DEFINE N == Len(text)
           s == SubSeq(text, 1, p)
           k == Len(before)
           T == Append(before, id)
<1>1. IsSeq(s) /\ Len(s) = p /\ (\A x \in 1 .. p : s[x] = text[x]) /\ N \in Nat
  BY PrefixFacts, SeqFacts
<1>2. Complete(vocab, s)
  <2>1. \A x \in 1 .. p : x \in 1 .. N
    BY <1>1
  <2> HIDE DEF s
  <2> QED BY <1>1, <2>1 DEF Complete
<1> HIDE DEF s
<1>3. IsSeq(before)
  BY <1>1, <1>2, ReferenceIsValid DEF s
<1>4. PICK e : ValidCut(vocab, s, before, e, k)
  BY <1>1, <1>2, ReferenceIsValid DEF s
<1>5. /\ k \in Nat /\ e[1] = 0 /\ e[k + 1] = p
      /\ \A x \in 1 .. k + 1 : e[x] \in 0 .. p
      /\ \A x, y \in 1 .. k + 1 : x < y => e[x] < e[y]
      /\ \A x \in 1 .. k :
           /\ before[x] \in DOMAIN vocab
           /\ e[x + 1] = e[x] + Len(vocab[before[x]])
           /\ OccursAt(vocab[before[x]], s, e[x], p)
           /\ x > 1 => ValidPair(FromDictionary(vocab), before[x - 1], before[x])
  <2> HIDE DEF k
  <2> QED BY <1>1, <1>4, CutStack
<1>6. IsSeq(T) /\ Len(T) = k + 1 /\ (\A x \in 1 .. k : T[x] = before[x]) /\ T[k + 1] = id
  BY <1>3, AppendFacts
<1> DEFINE d == [x \in 1 .. k + 2 |-> IF x <= k + 1 THEN e[x] ELSE N]
<1>7. (\A x \in 1 .. k + 1 : d[x] = e[x]) /\ d[k + 2] = N
  BY <1>5
<1>8. k > 0 => p # 0
  <2> SUFFICES ASSUME k > 0 PROVE e[1] < e[k + 1]
    BY <1>5
  <2>1. 1 \in 1 .. k + 1 /\ k + 1 \in 1 .. k + 1 /\ 1 < k + 1
    BY <1>5
  <2> QED BY <1>5, <2>1
<1> DEFINE n == k + 1
<1> HIDE DEF T, d, k
<1>9. ASSUME NEW x \in 1 .. n
      PROVE  /\ T[x] \in DOMAIN vocab
             /\ d[x + 1] = d[x] + Len(vocab[T[x]])
             /\ OccursAt(vocab[T[x]], text, d[x], Len(text))
             /\ x > 1 => ValidPair(FromDictionary(vocab), T[x - 1], T[x])
  <2>1. CASE x \in 1 .. k
    <3>1. x \in 1 .. k + 1 /\ x + 1 \in 1 .. k + 1 /\ (x > 1 => x - 1 \in 1 .. k)
      BY <1>5, <2>1
    <3>2. T[x] = before[x] /\ d[x] = e[x] /\ d[x + 1] = e[x + 1] /\ (x > 1 => T[x - 1] = before[x - 1])
      BY <1>6, <1>7, <2>1, <3>1
    <3> DEFINE w == vocab[before[x]]
               a == e[x]
    <3>3. OccursAt(w, s, a, p) /\ a \in 0 .. p
      BY <1>5, <2>1, <3>1
    <3>4. Len(w) \in Nat \ {0}
      BY <1>5, <2>1, UsableFacts
    <3> HIDE DEF w, a
    <3>5. OccursAt(w, text, a, Len(text))
      <4>1. p \in Nat /\ p <= Len(text) /\ Len(text) \in Nat /\ a \in Nat
        BY <1>1, <3>3
      <4>2. a + Len(w) <= p /\ \A y \in 1 .. Len(w) : s[a + y] = w[y]
        BY <3>3 DEF OccursAt
      <4>3. \A y \in 1 .. Len(w) : a + y \in 1 .. p
        BY <3>4, <4>1, <4>2
      <4>4. a + Len(w) <= Len(text)
        BY <3>4, <4>1, <4>2
      <4>5. \A y \in 1 .. Len(w) : text[a + y] = w[y]
        BY <1>1, <4>2, <4>3
      <4> QED BY <4>4, <4>5 DEF OccursAt
    <3> QED BY <1>5, <2>1, <3>2, <3>5 DEF w, a
  <2>2. CASE x = k + 1
    <3>1. T[x] = id /\ d[x] = p /\ d[x + 1] = N
      <4>1. k + 1 \in 1 .. k + 1 /\ (k + 1) + 1 = k + 2
        BY <1>5
      <4> QED BY <1>5, <1>6, <1>7, <2>2, <4>1
    <3>2. x > 1 => k > 0 /\ x - 1 = k /\ k \in 1 .. k
      BY <1>5, <2>2
    <3>3. x > 1 => T[x - 1] = before[Len(before)]
      BY <1>6, <3>2 DEF k
    <3> QED BY <1>8, <3>1, <3>2, <3>3
  <2> QED BY <1>5, <2>1, <2>2
<1>10. d[1] = 0 /\ d[n + 1] = N
  <2>1. 1 \in 1 .. k + 1 /\ (k + 1) + 1 = k + 2
    BY <1>5
  <2> QED BY <1>5, <1>7, <2>1
<1>11. ValidCut(vocab, SubSeq(text, 1, N), T, d, n)
  <2>1. n \in Nat /\ N \in 0 .. Len(text)
    BY <1>1, <1>5
  <2> HIDE DEF n
  <2> QED BY <1>9, <1>10, <2>1, StackCut
<1>12. SubSeq(text, 1, N) = text
  BY WholeSeq
<1>13. T = ReferenceEncoding(vocab, text)
  <2> HIDE DEF N
  <2> QED BY <1>6, <1>11, <1>12, ValidIsReference
<1> QED BY <1>13 DEF T

(* The last token of an encoding may follow the encoding of the text before it. *)
LEMMA LastTokenOf ==
  ASSUME NEW vocab, Usable(vocab), NEW text, IsSeq(text), Complete(vocab, text), Len(text) > 0,
         NEW R, R = ReferenceEncoding(vocab, text)
  PROVE  /\ IsSeq(R) /\ Len(R) \in Nat \ {0}
         /\ \E p \in 0 .. Len(text) :
              LET id     == R[Len(R)]
                  before == ReferenceEncoding(vocab, SubSeq(text, 1, p))
              IN  /\ id \in DOMAIN vocab
                  /\ p + Len(vocab[id]) = Len(text)
                  /\ OccursAt(vocab[id], text, p, Len(text))
                  /\ p = 0 \/ ValidPair(FromDictionary(vocab), before[Len(before)], id)
                  /\ Len(R) = Len(before) + 1
<1> DEFINE k == Len(R)
           N == Len(text)
<1>1. IsSeq(R)
  BY ReferenceIsValid
<1>2. PICK e : ValidCut(vocab, text, R, e, k)
  BY ReferenceIsValid
<1>3. /\ k \in Nat /\ N \in Nat /\ e[1] = 0 /\ e[k + 1] = N
      /\ \A i \in 1 .. k + 1 : e[i] \in 0 .. N
      /\ \A i \in 1 .. k :
           /\ R[i] \in DOMAIN vocab
           /\ e[i + 1] = e[i] + Len(vocab[R[i]])
           /\ OccursAt(vocab[R[i]], text, e[i], N)
           /\ i > 1 => ValidPair(FromDictionary(vocab), R[i - 1], R[i])
  <2> HIDE DEF k
  <2> QED BY <1>2, CutStack
<1>4. k # 0
  BY <1>3
<1>5. k \in 1 .. k /\ k \in 1 .. k + 1 /\ k - 1 \in 0 .. k /\ (k - 1) + 1 = k
  BY <1>3, <1>4
<1> DEFINE p  == e[k]
           id == R[k]
           Q  == SubSeq(R, 1, k - 1)
           before == ReferenceEncoding(vocab, SubSeq(text, 1, p))
<1>6. /\ p \in 0 .. N /\ id \in DOMAIN vocab /\ p + Len(vocab[id]) = N
      /\ OccursAt(vocab[id], text, p, N)
  BY <1>3, <1>5
<1>7. Q = before
  <2> DEFINE i == k - 1
  <2>1. i \in 0 .. Len(R) /\ i + 1 = k
    BY <1>5
  <2> HIDE DEF i
  <2>2. SubSeq(R, 1, i) = ReferenceEncoding(vocab, SubSeq(text, 1, e[i + 1]))
    BY <1>1, <1>2, <2>1, PrefixIsReference
  <2> QED BY <2>1, <2>2 DEF i
<1>8. Len(Q) = k - 1 /\ \A x \in 1 .. k - 1 : Q[x] = R[x]
  <2> DEFINE i == k - 1
  <2>1. i \in 0 .. Len(R)
    BY <1>5
  <2> HIDE DEF i
  <2>2. Len(SubSeq(R, 1, i)) = i /\ \A x \in 1 .. i : SubSeq(R, 1, i)[x] = R[x]
    BY <1>1, <2>1, PrefixFacts
  <2> QED BY <2>2 DEF i
<1> HIDE DEF Q, k, before, N
<1>9. p = 0 \/ ValidPair(FromDictionary(vocab), before[Len(before)], id)
  <2> SUFFICES ASSUME p # 0 PROVE ValidPair(FromDictionary(vocab), before[Len(before)], id)
    OBVIOUS
  <2>1. k > 1
    BY <1>3, <1>4
  <2>2. k - 1 \in 1 .. k - 1
    BY <1>3, <2>1
  <2>3. before[Len(before)] = R[k - 1]
    BY <1>7, <1>8, <2>2
  <2> QED BY <1>3, <1>5, <2>1, <2>3
<1>10. k = Len(before) + 1
  BY <1>3, <1>7, <1>8
<1> QED BY <1>1, <1>3, <1>4, <1>6, <1>9, <1>10 DEF k, N, before

(* The empty text has the empty encoding. *)
LEMMA EmptyReference ==
  ASSUME NEW vocab, Usable(vocab)
  PROVE  ReferenceEncoding(vocab, <<>>) = <<>>
<1> DEFINE R == ReferenceEncoding(vocab, <<>>)
<1>1. IsSeq(<<>>) /\ Complete(vocab, <<>>)
  <2>1. <<>> \in Seq({})
    OBVIOUS
  <2> QED BY <2>1 DEF IsSeq, Complete
<1>2. IsSeq(R) /\ \E e : ValidCut(vocab, <<>>, R, e, Len(R))
  BY <1>1, ReferenceIsValid
<1>3. PICK e : ValidCut(vocab, <<>>, R, e, Len(R))
  BY <1>2
<1> HIDE DEF R
<1>4. /\ Len(R) \in Nat /\ e[1] = 0 /\ e[Len(R) + 1] = 0
      /\ \A i, j \in 1 .. Len(R) + 1 : i < j => e[i] < e[j]
  BY <1>1, <1>3, CutStack
<1>5. Len(R) = 0
  <2> SUFFICES ASSUME Len(R) # 0 PROVE FALSE
    OBVIOUS
  <2>1. 1 \in 1 .. Len(R) + 1 /\ Len(R) + 1 \in 1 .. Len(R) + 1 /\ 1 < Len(R) + 1
    BY <1>4
  <2>2. e[1] < e[Len(R) + 1]
    BY <1>4, <2>1
  <2> QED BY <1>4, <2>2
<1> QED BY <1>2, <1>5, EmptySeq DEF IsSeq, R

(* The beginning of a beginning. *)
LEMMA PrefixOfPrefix ==
  ASSUME NEW s, IsSeq(s), NEW n \in 0 .. Len(s), NEW p \in 0 .. n
  PROVE  SubSeq(SubSeq(s, 1, n), 1, p) = SubSeq(s, 1, p)
<1> DEFINE a == SubSeq(s, 1, n)
           b == SubSeq(a, 1, p)
           c == SubSeq(s, 1, p)
<1>1. Len(s) \in Nat /\ p \in 0 .. Len(s)
  BY SeqFacts
<1>2. IsSeq(a) /\ Len(a) = n /\ \A k \in 1 .. n : a[k] = s[k]
  BY PrefixFacts
<1>3. IsSeq(c) /\ Len(c) = p /\ \A k \in 1 .. p : c[k] = s[k]
  BY <1>1, PrefixFacts
<1> HIDE DEF a, c
<1>4. IsSeq(b) /\ Len(b) = p /\ \A k \in 1 .. p : b[k] = a[k]
  BY <1>2, PrefixFacts
<1> HIDE DEF b
<1>5. \A k \in 1 .. p : k \in 1 .. n
  BY <1>1
<1>6. \A k \in 1 .. Len(b) : b[k] = c[k]
  BY <1>2, <1>3, <1>4, <1>5
<1> QED BY <1>3, <1>4, <1>6, SameSeq DEF a, b, c

(* A prefix of a text is made of tokens of one byte if the text is. *)
LEMMA CompletePrefix ==
  ASSUME NEW vocab, NEW s, IsSeq(s), Complete(vocab, s), NEW n \in 0 .. Len(s)
  PROVE  Complete(vocab, SubSeq(s, 1, n))
<1> DEFINE a == SubSeq(s, 1, n)
<1>1. Len(a) = n /\ (\A k \in 1 .. n : a[k] = s[k]) /\ Len(s) \in Nat
  BY PrefixFacts, SeqFacts
<1>2. \A k \in 1 .. n : k \in 1 .. Len(s)
  BY <1>1
<1> HIDE DEF a
<1> QED BY <1>1, <1>2 DEF Complete, a

(* the last token of the encoding *)
LastOf(vocab, s) ==
  LET R == ReferenceEncoding(vocab, s) IN R[Len(R)]

(* a token that ends at n and may follow the encoding of what stands before it *)
MayEnd(vocab, text, n, id) ==
  LET p == n - Len(vocab[id])
  IN  /\ id \in DOMAIN vocab /\ p \in Nat
      /\ OccursAt(vocab[id], text, p, n)
      /\ p = 0 \/ ValidPair(FromDictionary(vocab), LastOf(vocab, SubSeq(text, 1, p)), id)

(* the reference encoding of n bytes is that of p bytes and the token last *)
EndsIn(vocab, text, n, p, last) ==
  ReferenceEncoding(vocab, SubSeq(text, 1, n)) = Append(ReferenceEncoding(vocab, SubSeq(text, 1, p)), last)

(* Just one token may end a text: the last one of its encoding. *)
LEMMA OneMayEnd ==
  ASSUME NEW vocab, Usable(vocab), NEW text, IsSeq(text), Complete(vocab, text),
         NEW n \in 1 .. Len(text), NEW last, last = LastOf(vocab, SubSeq(text, 1, n)),
         NEW p, p = n - Len(vocab[last])
  PROVE  /\ \A id : MayEnd(vocab, text, n, id) <=> id = last
         /\ IsSeq(ReferenceEncoding(vocab, SubSeq(text, 1, p)))
         /\ EndsIn(vocab, text, n, p, last)
<1> DEFINE s    == SubSeq(text, 1, n)
           R    == ReferenceEncoding(vocab, s)
           B(q) == ReferenceEncoding(vocab, SubSeq(text, 1, q))
<1>1. Len(text) \in Nat /\ n \in Nat /\ n > 0 /\ n \in 0 .. Len(text)
  BY SeqFacts
<1>2. IsSeq(s) /\ Len(s) = n /\ (\A k \in 1 .. n : s[k] = text[k]) /\ Complete(vocab, s)
  BY <1>1, PrefixFacts, CompletePrefix
<1>3. \A q \in 0 .. n : SubSeq(s, 1, q) = SubSeq(text, 1, q)
  BY <1>1, PrefixOfPrefix
<1>4. \A w, q : Len(w) \in Nat \ {0} /\ q \in Nat /\ q + Len(w) <= n =>
         (OccursAt(w, text, q, n) <=> OccursAt(w, s, q, n))
  <2> TAKE w, q
  <2> HAVE Len(w) \in Nat \ {0} /\ q \in Nat /\ q + Len(w) <= n
  <2>1. \A k \in 1 .. Len(w) : q + k \in 1 .. n
    BY <1>1
  <2> HIDE DEF s
  <2>2. \A k \in 1 .. Len(w) : s[q + k] = text[q + k]
    BY <1>2, <2>1
  <2> QED BY <2>2 DEF OccursAt
<1>5. ASSUME NEW id, MayEnd(vocab, text, n, id) PROVE id = last
  <2> DEFINE q == n - Len(vocab[id])
  <2>1. /\ id \in DOMAIN vocab /\ q \in Nat /\ OccursAt(vocab[id], text, q, n)
        /\ q = 0 \/ ValidPair(FromDictionary(vocab), LastOf(vocab, SubSeq(text, 1, q)), id)
    BY <1>5 DEF MayEnd
  <2>2. Len(vocab[id]) \in Nat \ {0}
    BY <2>1, UsableFacts
  <2>3. q \in 0 .. n /\ q + Len(vocab[id]) = n
    BY <1>1, <2>1, <2>2
  <2> HIDE DEF q, s
  <2>4. OccursAt(vocab[id], s, q, Len(s))
    BY <1>1, <1>2, <1>4, <2>1, <2>2, <2>3
  <2> DEFINE before == ReferenceEncoding(vocab, SubSeq(s, 1, q))
  <2>5. q = 0 \/ ValidPair(FromDictionary(vocab), before[Len(before)], id)
    BY <1>3, <2>1, <2>3 DEF LastOf
  <2> HIDE DEF before
  <2>6. R = Append(before, id)
    BY <1>2, <2>1, <2>3, <2>4, <2>5, LastToken DEF before
  <2>7. IsSeq(before)
    <3>1. IsSeq(SubSeq(s, 1, q)) /\ Complete(vocab, SubSeq(s, 1, q))
      BY <1>2, <2>3, PrefixFacts, CompletePrefix
    <3> QED BY <3>1, ReferenceIsValid DEF before
  <2>8. R[Len(R)] = id
    <3> HIDE DEF R
    <3>1. Len(Append(before, id)) = Len(before) + 1 /\ Append(before, id)[Len(before) + 1] = id
      BY <2>7, AppendFacts
    <3> QED BY <2>6, <3>1
  <2> QED BY <2>8 DEF LastOf, s
<1>6. /\ IsSeq(R) /\ Len(R) \in Nat \ {0}
      /\ \E q \in 0 .. n :
           LET id     == R[Len(R)]
               before == ReferenceEncoding(vocab, SubSeq(s, 1, q))
           IN  /\ id \in DOMAIN vocab
               /\ q + Len(vocab[id]) = n
               /\ OccursAt(vocab[id], s, q, n)
               /\ q = 0 \/ ValidPair(FromDictionary(vocab), before[Len(before)], id)
  <2>1. Len(s) > 0
    BY <1>1, <1>2
  <2> HIDE DEF s
  <2> QED BY <1>2, <2>1, LastTokenOf
<1>7. last = R[Len(R)]
  BY DEF LastOf
<1> DEFINE before == ReferenceEncoding(vocab, SubSeq(s, 1, p))
<1>8. /\ last \in DOMAIN vocab
      /\ p \in 0 .. n /\ p + Len(vocab[last]) = n
      /\ OccursAt(vocab[last], s, p, n)
      /\ p = 0 \/ ValidPair(FromDictionary(vocab), before[Len(before)], last)
  <2> HIDE DEF R, s
  <2>1. PICK q \in 0 .. n : LET b == ReferenceEncoding(vocab, SubSeq(s, 1, q))
           IN  /\ last \in DOMAIN vocab
               /\ q + Len(vocab[last]) = n
               /\ OccursAt(vocab[last], s, q, n)
               /\ q = 0 \/ ValidPair(FromDictionary(vocab), b[Len(b)], last)
    BY <1>6, <1>7
  <2>2. Len(vocab[last]) \in Nat
    BY <2>1, UsableFacts
  <2>3. p = q
    BY <1>1, <2>1, <2>2
  <2> QED BY <2>1, <2>3
<1>9. Len(vocab[last]) \in Nat \ {0}
  BY <1>8, UsableFacts
<1>10. SubSeq(s, 1, p) = SubSeq(text, 1, p)
  BY <1>3, <1>8
<1> HIDE DEF s
<1>11. R = Append(before, last)
  <2> HIDE DEF before
  <2>1. /\ last \in DOMAIN vocab
        /\ p \in 0 .. Len(s) /\ p + Len(vocab[last]) = Len(s)
        /\ OccursAt(vocab[last], s, p, Len(s))
    BY <1>2, <1>8
  <2>2. before = ReferenceEncoding(vocab, SubSeq(s, 1, p))
    BY DEF before
  <2> QED BY <1>2, <1>8, <2>1, <2>2, LastToken
<1>12. IsSeq(before)
  <2>1. IsSeq(SubSeq(s, 1, p)) /\ Complete(vocab, SubSeq(s, 1, p))
    BY <1>2, <1>8, PrefixFacts, CompletePrefix
  <2> QED BY <2>1, ReferenceIsValid
<1>13. MayEnd(vocab, text, n, last)
  <2>1. OccursAt(vocab[last], text, p, n) /\ p \in Nat
    BY <1>1, <1>4, <1>8, <1>9
  <2>2. p = 0 \/ ValidPair(FromDictionary(vocab), LastOf(vocab, SubSeq(text, 1, p)), last)
    BY <1>8, <1>10 DEF LastOf
  <2> QED BY <1>8, <2>1, <2>2 DEF MayEnd
<1>14. EndsIn(vocab, text, n, p, last)
  BY <1>10, <1>11 DEF EndsIn, s
<1> QED BY <1>5, <1>10, <1>12, <1>13, <1>14

(* concatenation is associative *)
LEMMA ConcatAssoc ==
  ASSUME NEW a, NEW b, NEW c, IsSeq(a), IsSeq(b), IsSeq(c)
  PROVE  (a \o b) \o c = a \o (b \o c)
<1> DEFINE d == a \o b
           f == b \o c
           l == d \o c
           r == a \o f
<1>1. /\ IsSeq(d) /\ Len(d) = Len(a) + Len(b)
      /\ \A k \in 1 .. Len(a) : d[k] = a[k]
      /\ \A k \in 1 .. Len(b) : d[Len(a) + k] = b[k]
  BY ConcatFacts
<1>2. /\ IsSeq(f) /\ Len(f) = Len(b) + Len(c)
      /\ \A k \in 1 .. Len(b) : f[k] = b[k]
      /\ \A k \in 1 .. Len(c) : f[Len(b) + k] = c[k]
  BY ConcatFacts
<1> HIDE DEF d, f
<1>3. /\ IsSeq(l) /\ Len(l) = Len(d) + Len(c)
      /\ \A k \in 1 .. Len(d) : l[k] = d[k]
      /\ \A k \in 1 .. Len(c) : l[Len(d) + k] = c[k]
  BY <1>1, ConcatFacts
<1>4. /\ IsSeq(r) /\ Len(r) = Len(a) + Len(f)
      /\ \A k \in 1 .. Len(a) : r[k] = a[k]
      /\ \A k \in 1 .. Len(f) : r[Len(a) + k] = f[k]
  BY <1>2, ConcatFacts
<1>5. Len(a) \in Nat /\ Len(b) \in Nat /\ Len(c) \in Nat
  BY SeqFacts
<1> HIDE DEF l, r
<1>6. ASSUME NEW k \in 1 .. Len(l) PROVE l[k] = r[k]
  <2>1. CASE k \in 1 .. Len(a)
    <3>1. k \in 1 .. Len(d)
      BY <1>1, <1>5, <2>1
    <3> QED BY <1>1, <1>3, <1>4, <2>1, <3>1
  <2>2. CASE k \in Len(a) + 1 .. Len(a) + Len(b)
    <3> DEFINE x == k - Len(a)
    <3>1. x \in 1 .. Len(b) /\ x \in 1 .. Len(f) /\ k = Len(a) + x /\ k \in 1 .. Len(d)
      BY <1>1, <1>2, <1>5, <2>2
    <3> HIDE DEF x
    <3>2. l[k] = b[x]
      BY <1>1, <1>3, <3>1
    <3>3. r[k] = b[x]
      BY <1>2, <1>4, <3>1
    <3> QED BY <3>2, <3>3
  <2>3. CASE k > Len(a) + Len(b)
    <3> DEFINE x == k - (Len(a) + Len(b))
               y == Len(b) + x
    <3>1. x \in 1 .. Len(c) /\ y \in 1 .. Len(f) /\ k = Len(d) + x /\ k = Len(a) + y
      BY <1>1, <1>2, <1>3, <1>5, <2>3
    <3>2. f[y] = c[x]
      BY <1>2, <3>1
    <3> HIDE DEF x, y
    <3>3. l[k] = c[x]
      BY <1>3, <3>1
    <3>4. r[k] = f[y]
      BY <1>4, <3>1
    <3> QED BY <3>2, <3>3, <3>4
  <2>4. k \in 1 .. Len(a) + Len(b) + Len(c)
    BY <1>1, <1>3, <1>5
  <2> QED BY <1>5, <2>1, <2>2, <2>3, <2>4
<1>7. Len(l) = Len(r)
  BY <1>1, <1>2, <1>3, <1>4, <1>5
<1> QED BY <1>3, <1>4, <1>6, <1>7, SameSeq DEF l, r, d, f

(* appending is concatenating *)
LEMMA AppendConcat ==
  ASSUME NEW a, NEW x, NEW c, IsSeq(a), IsSeq(c)
  PROVE  Append(a, x) \o c = a \o (<<x>> \o c)
<1> DEFINE b == <<x>>
<1>1. IsSeq(b) /\ Len(b) = 1 /\ b[1] = x
  <2>1. <<x>> \in Seq({x})
    OBVIOUS
  <2> QED BY <2>1 DEF IsSeq
<1>2. Append(a, x) = a \o b
  <2> DEFINE l == Append(a, x)
             r == a \o b
  <2> HIDE DEF b
  <2>1. IsSeq(l) /\ Len(l) = Len(a) + 1 /\ (\A k \in 1 .. Len(a) : l[k] = a[k]) /\ l[Len(a) + 1] = x
    BY AppendFacts
  <2> HIDE DEF l
  <2>2. /\ IsSeq(r) /\ Len(r) = Len(a) + Len(b)
        /\ \A k \in 1 .. Len(a) : r[k] = a[k]
        /\ \A k \in 1 .. Len(b) : r[Len(a) + k] = b[k]
    <3>1. IsSeq(a) /\ IsSeq(b)
      BY <1>1
    <3> QED BY <3>1, ConcatFacts
  <2>3. Len(a) \in Nat /\ r[Len(a) + 1] = x
    BY <1>1, <2>2, SeqFacts
  <2> HIDE DEF l, r
  <2>4. \A k \in 1 .. Len(l) : k \in 1 .. Len(a) \/ k = Len(a) + 1
    BY <2>1, <2>3
  <2>5. \A k \in 1 .. Len(l) : l[k] = r[k]
    BY <2>1, <2>2, <2>3, <2>4
  <2>6. Len(l) = Len(r)
    BY <1>1, <2>1, <2>2
  <2> QED BY <2>1, <2>2, <2>5, <2>6, SameSeq DEF l, r
<1> HIDE DEF b
<1>3. (a \o b) \o c = a \o (b \o c)
  BY <1>1, ConcatAssoc
<1> QED BY <1>2, <1>3 DEF b

(* The empty sequence adds nothing. *)
LEMMA NothingBefore ==
  ASSUME NEW c, IsSeq(c)
  PROVE  <<>> \o c = c /\ c \o <<>> = c
<1> DEFINE b == <<>>
           l == b \o c
           r == c \o b
<1>1. IsSeq(b) /\ Len(b) = 0
  <2>1. <<>> \in Seq({})
    OBVIOUS
  <2> QED BY <2>1 DEF IsSeq
<1> HIDE DEF b
<1>2. IsSeq(l) /\ Len(l) = Len(b) + Len(c) /\ \A k \in 1 .. Len(c) : l[Len(b) + k] = c[k]
  BY <1>1, ConcatFacts
<1>3. IsSeq(r) /\ Len(r) = Len(c) + Len(b) /\ \A k \in 1 .. Len(c) : r[k] = c[k]
  BY <1>1, ConcatFacts
<1>4. Len(c) \in Nat
  BY SeqFacts
<1> HIDE DEF l, r
<1>5. Len(l) = Len(c) /\ Len(r) = Len(c)
  BY <1>1, <1>2, <1>3, <1>4
<1>6. \A k \in 1 .. Len(c) : l[k] = c[k]
  <2> TAKE k \in 1 .. Len(c)
  <2>1. Len(b) + k = k
    BY <1>1
  <2> QED BY <1>2, <2>1
<1>7. l = c
  BY <1>2, <1>5, <1>6, SameSeq
<1>8. r = c
  BY <1>3, <1>5, SameSeq
<1> QED BY <1>7, <1>8 DEF l, r, b

-----------------------------------------------------------------------------
(* The text after a token.                                                 *)

(* the text from position q on *)
After(s, q) == SubSeq(s, q + 1, Len(s))

(* What is left of a sequence after its first q elements. *)
LEMMA AfterFacts ==
  ASSUME NEW s, IsSeq(s), NEW q \in 0 .. Len(s)
  PROVE  /\ IsSeq(After(s, q)) /\ Len(After(s, q)) = Len(s) - q
         /\ \A k \in 1 .. Len(s) - q : After(s, q)[k] = s[q + k]
<1> DEFINE n == Len(s) - q
<1>1. Len(s) \in Nat /\ q \in Nat /\ n \in Nat /\ q + n <= Len(s) /\ q + n = Len(s)
  BY SeqFacts
<1> HIDE DEF n
<1>2. /\ IsSeq(SubSeq(s, q + 1, q + n)) /\ Len(SubSeq(s, q + 1, q + n)) = n
      /\ \A k \in 1 .. n : SubSeq(s, q + 1, q + n)[k] = s[q + k]
  BY <1>1, SliceFacts
<1> QED BY <1>1, <1>2 DEF After, n

(* What is complete in a text is complete in its end. *)
LEMMA CompleteAfter ==
  ASSUME NEW vocab, NEW s, IsSeq(s), Complete(vocab, s), NEW q \in 0 .. Len(s)
  PROVE  Complete(vocab, After(s, q))
<1> DEFINE a == After(s, q)
<1>1. Len(a) = Len(s) - q /\ (\A k \in 1 .. Len(s) - q : a[k] = s[q + k]) /\ Len(s) \in Nat
  BY AfterFacts, SeqFacts
<1>2. \A k \in 1 .. Len(s) - q : q + k \in 1 .. Len(s)
  BY <1>1
<1> HIDE DEF a
<1> QED BY <1>1, <1>2 DEF Complete, a

(* A word lies in the text where it lies in its end. *)
LEMMA OccursAfter ==
  ASSUME NEW s, IsSeq(s), NEW q \in 0 .. Len(s), NEW w, Len(w) \in Nat, NEW a \in Nat
  PROVE  OccursAt(w, After(s, q), a, Len(s) - q) <=> OccursAt(w, s, q + a, Len(s))
<1> DEFINE t == After(s, q)
<1>1. (\A k \in 1 .. Len(s) - q : t[k] = s[q + k]) /\ Len(s) \in Nat
  BY AfterFacts, SeqFacts
<1> HIDE DEF t
<1>2. a + Len(w) <= Len(s) - q <=> q + a + Len(w) <= Len(s)
  BY <1>1
<1>3. ASSUME a + Len(w) <= Len(s) - q, NEW k \in 1 .. Len(w) PROVE t[a + k] = s[q + a + k]
  <2>1. a + k \in 1 .. Len(s) - q /\ q + (a + k) = q + a + k
    BY <1>1, <1>3
  <2> QED BY <1>1, <2>1
<1> QED BY <1>2, <1>3 DEF OccursAt, t

(***************************************************************************)
(* A token that may stand before the encoding of the text behind it is the *)
(* first one.                                                              *)
(***************************************************************************)
LEMMA FirstToken ==
  ASSUME NEW vocab, Usable(vocab), NEW text, IsSeq(text), Complete(vocab, text),
         NEW id \in DOMAIN vocab, NEW q, q = Len(vocab[id]), q <= Len(text),
         OccursAt(vocab[id], text, 0, Len(text)),
         NEW rest, rest = ReferenceEncoding(vocab, After(text, q)),
         q = Len(text) \/ ValidPair(FromDictionary(vocab), id, rest[1])
  PROVE  ReferenceEncoding(vocab, text) = <<id>> \o rest
<1> DEFINE N == Len(text)
           s == After(text, q)
           k == Len(rest)
           b == <<id>>
           T == b \o rest
<1>1. q \in Nat \ {0} /\ N \in Nat /\ q \in 0 .. N
  BY SeqFacts, UsableFacts
<1>2. IsSeq(s) /\ Len(s) = N - q /\ Complete(vocab, s)
  BY <1>1, AfterFacts, CompleteAfter
<1>3. \A w, a : Len(w) \in Nat /\ a \in Nat =>
        (OccursAt(w, s, a, N - q) <=> OccursAt(w, text, q + a, N))
  BY <1>1, OccursAfter
<1> HIDE DEF s
<1>4. IsSeq(rest)
  BY <1>2, ReferenceIsValid DEF s
<1>5. PICK e : ValidCut(vocab, s, rest, e, k)
  BY <1>2, ReferenceIsValid DEF s
<1>6. /\ k \in Nat /\ e[1] = 0 /\ e[k + 1] = N - q
      /\ \A x \in 1 .. k + 1 : e[x] \in 0 .. N - q
      /\ \A x, y \in 1 .. k + 1 : x < y => e[x] < e[y]
      /\ \A x \in 1 .. k :
           /\ rest[x] \in DOMAIN vocab
           /\ e[x + 1] = e[x] + Len(vocab[rest[x]])
           /\ OccursAt(vocab[rest[x]], s, e[x], N - q)
           /\ x > 1 => ValidPair(FromDictionary(vocab), rest[x - 1], rest[x])
  <2> HIDE DEF k
  <2> QED BY <1>2, <1>5, CutStack
<1>7. IsSeq(b) /\ Len(b) = 1 /\ b[1] = id
  <2>1. <<id>> \in Seq({id})
    OBVIOUS
  <2> QED BY <2>1 DEF IsSeq
<1> HIDE DEF b, k
<1>8. IsSeq(T) /\ Len(T) = 1 + k /\ (\A x \in 1 .. 1 : T[x] = b[x]) /\ (\A x \in 1 .. k : T[1 + x] = rest[x])
  <2>1. /\ IsSeq(T) /\ Len(T) = Len(b) + Len(rest)
        /\ \A x \in 1 .. Len(b) : T[x] = b[x]
        /\ \A x \in 1 .. Len(rest) : T[Len(b) + x] = rest[x]
    <3>1. IsSeq(b) /\ IsSeq(rest)
      BY <1>4, <1>7
    <3> QED BY <3>1, ConcatFacts
  <2> HIDE DEF T
  <2> QED BY <1>7, <2>1 DEF k
<1> DEFINE d == [x \in 1 .. k + 2 |-> IF x = 1 THEN 0 ELSE q + e[x - 1]]
           n == k + 1
<1>9. d[1] = 0 /\ (\A x \in 1 .. k + 1 : d[x + 1] = q + e[x]) /\ n \in Nat /\ d[n + 1] = N
  <2>1. d[1] = 0
    BY <1>6
  <2>2. ASSUME NEW x \in 1 .. k + 1 PROVE d[x + 1] = q + e[x]
    <3>1. x + 1 \in 1 .. k + 2 /\ x + 1 # 1 /\ (x + 1) - 1 = x
      BY <1>6
    <3> QED BY <3>1
  <2>3. d[n + 1] = q + e[k + 1]
    <3>1. k + 1 \in 1 .. k + 1
      BY <1>6
    <3> QED BY <2>2, <3>1
  <2> HIDE DEF d
  <2> QED BY <1>1, <1>6, <2>1, <2>2, <2>3
<1> HIDE DEF T, d
<1>10. k = 0 => q = N
  BY <1>1, <1>6
<1>11. k # 0 => q # N
  <2> SUFFICES ASSUME k # 0 PROVE e[1] < e[k + 1]
    BY <1>1, <1>6
  <2>1. 1 \in 1 .. k + 1 /\ k + 1 \in 1 .. k + 1 /\ 1 < k + 1
    BY <1>6
  <2> QED BY <1>6, <2>1
<1>12. ASSUME NEW x \in 1 .. n
       PROVE  /\ T[x] \in DOMAIN vocab
              /\ d[x + 1] = d[x] + Len(vocab[T[x]])
              /\ OccursAt(vocab[T[x]], text, d[x], N)
              /\ x > 1 => ValidPair(FromDictionary(vocab), T[x - 1], T[x])
  <2>1. CASE x = 1
    <3>1. T[x] = id /\ d[x] = 0 /\ 1 \in 1 .. k + 1
      BY <1>6, <1>7, <1>8, <1>9, <2>1
    <3>2. d[x + 1] = q
      BY <1>1, <1>6, <1>9, <2>1, <3>1
    <3> QED BY <1>1, <2>1, <3>1, <3>2
  <2>2. CASE x # 1
    <3> DEFINE y == x - 1
               w == vocab[rest[y]]
               a == e[y]
    <3>1. y \in 1 .. k /\ y \in 1 .. k + 1 /\ y + 1 \in 1 .. k + 1 /\ y + 1 = x /\ 1 + y = x
      BY <1>6, <2>2
    <3>2. T[x] = rest[y] /\ d[x] = q + a /\ d[x + 1] = q + e[y + 1]
      <4> HIDE DEF y
      <4>1. T[1 + y] = rest[y] /\ d[y + 1] = q + e[y] /\ d[(y + 1) + 1] = q + e[y + 1]
        BY <1>8, <1>9, <3>1
      <4> QED BY <3>1, <4>1
    <3> HIDE DEF y
    <3>3. /\ rest[y] \in DOMAIN vocab /\ e[y + 1] = a + Len(w) /\ OccursAt(w, s, a, N - q)
          /\ a \in Nat /\ Len(w) \in Nat
      BY <1>1, <1>6, <3>1, UsableFacts
    <3> HIDE DEF a, w
    <3>4. OccursAt(w, text, q + a, N) /\ q + (a + Len(w)) = (q + a) + Len(w)
      BY <1>1, <1>3, <3>3
    <3>5. x > 1 => ValidPair(FromDictionary(vocab), T[x - 1], T[x])
      <4>1. CASE y = 1
        <5>1. x - 1 = 1 /\ T[1] = id /\ k # 0 /\ rest[y] = rest[1]
          BY <1>6, <1>7, <1>8, <3>1, <4>1
        <5> QED BY <1>11, <3>2, <5>1
      <4>2. CASE y # 1
        <5> DEFINE z == y - 1
        <5>1. z \in 1 .. k /\ y > 1 /\ 1 + z = x - 1
          BY <1>6, <3>1, <4>2
        <5>2. T[x - 1] = rest[z]
          <6> HIDE DEF z
          <6> QED BY <1>8, <5>1
        <5> QED BY <1>6, <3>1, <3>2, <5>1, <5>2
      <4> QED BY <4>1, <4>2
    <3> QED BY <3>2, <3>3, <3>4, <3>5 DEF a, w
  <2> QED BY <2>1, <2>2
<1>13. ValidCut(vocab, SubSeq(text, 1, N), T, d, n)
  <2>1. N \in 0 .. Len(text)
    BY <1>1
  <2> HIDE DEF n
  <2> QED BY <1>9, <1>12, <2>1, StackCut
<1>14. SubSeq(text, 1, N) = text
  BY WholeSeq
<1>15. n = Len(T)
  BY <1>6, <1>8
<1>16. T = ReferenceEncoding(vocab, text)
  <2> HIDE DEF N, n
  <2> QED BY <1>8, <1>13, <1>14, <1>15, ValidIsReference
<1> QED BY <1>16 DEF T, b

(* The encoding of what follows the first token is the rest of the encoding. *)
LEMMA FirstTokenOf ==
  ASSUME NEW vocab, Usable(vocab), NEW text, IsSeq(text), Complete(vocab, text), Len(text) > 0,
         NEW R, R = ReferenceEncoding(vocab, text),
         NEW q, q = Len(vocab[R[1]]), NEW rest, rest = ReferenceEncoding(vocab, After(text, q))
  PROVE  /\ R[1] \in DOMAIN vocab /\ q \in 1 .. Len(text) /\ Len(text) \in Nat
         /\ OccursAt(vocab[R[1]], text, 0, Len(text))
         /\ q = Len(text) \/ ValidPair(FromDictionary(vocab), R[1], rest[1])
         /\ IsSeq(rest) /\ Len(R) = Len(rest) + 1
<1> DEFINE N  == Len(text)
           l  == Len(R)
           s  == After(text, q)
           m  == l - 1
           Q  == SubSeq(R, 2, l)
<1>1. IsSeq(R)
  BY ReferenceIsValid
<1>2. PICK e : ValidCut(vocab, text, R, e, l)
  BY ReferenceIsValid
<1>3. /\ l \in Nat /\ N \in Nat /\ e[1] = 0 /\ e[l + 1] = N
      /\ \A x \in 1 .. l + 1 : e[x] \in 0 .. N
      /\ \A x \in 1 .. l :
           /\ R[x] \in DOMAIN vocab
           /\ e[x + 1] = e[x] + Len(vocab[R[x]])
           /\ OccursAt(vocab[R[x]], text, e[x], N)
           /\ x > 1 => ValidPair(FromDictionary(vocab), R[x - 1], R[x])
  <2> HIDE DEF l
  <2> QED BY <1>2, CutStack
<1>4. l # 0 /\ 1 \in 1 .. l /\ 1 \in 1 .. l + 1 /\ 2 \in 1 .. l + 1
  BY <1>3
<1>5. /\ R[1] \in DOMAIN vocab /\ q \in Nat \ {0} /\ e[2] = q /\ q \in 0 .. N
      /\ OccursAt(vocab[R[1]], text, 0, N)
  <2>1. R[1] \in DOMAIN vocab /\ e[1 + 1] = e[1] + q /\ OccursAt(vocab[R[1]], text, e[1], N)
    BY <1>3, <1>4
  <2>2. q \in Nat \ {0}
    BY <2>1, UsableFacts
  <2> QED BY <1>3, <1>4, <2>1, <2>2
<1>6. IsSeq(s) /\ Len(s) = N - q /\ Complete(vocab, s)
  BY <1>5, AfterFacts, CompleteAfter
<1>7. \A w, a : Len(w) \in Nat /\ a \in Nat =>
        (OccursAt(w, s, a, N - q) <=> OccursAt(w, text, q + a, N))
  BY <1>5, OccursAfter
<1> HIDE DEF s, l
<1>8. m \in Nat /\ 1 + m = l /\ 1 + m <= l
  BY <1>3, <1>4
<1>9. IsSeq(Q) /\ Len(Q) = m /\ \A x \in 1 .. m : Q[x] = R[1 + x]
  <2>1. l = Len(R) /\ m \in Nat /\ 1 + m = l
    BY <1>8 DEF l
  <2> HIDE DEF m
  <2> QED BY <1>1, <2>1, TailSlice, ZenonT(60)
<1> DEFINE d == [x \in 1 .. l |-> e[x + 1] - q]
<1>10. /\ d[1] = 0 /\ d[m + 1] = N - q /\ \A x \in 1 .. m + 1 : d[x] = e[x + 1] - q
  BY <1>3, <1>4, <1>5, <1>8
<1> HIDE DEF Q, d, m
<1>11. ASSUME NEW x \in 1 .. m
       PROVE  /\ Q[x] \in DOMAIN vocab
              /\ d[x + 1] = d[x] + Len(vocab[Q[x]])
              /\ OccursAt(vocab[Q[x]], s, d[x], N - q)
              /\ x > 1 => ValidPair(FromDictionary(vocab), Q[x - 1], Q[x])
  <2> DEFINE y == x + 1
             a == e[y]
  <2>1. y \in 1 .. l /\ y \in 1 .. l + 1 /\ x \in 1 .. m + 1 /\ y \in 1 .. m + 1 /\ y > 1 /\ 1 + x = y /\ y - 1 = x
    BY <1>3, <1>8
  <2>2. /\ R[y] \in DOMAIN vocab /\ e[y + 1] = a + Len(vocab[R[y]]) /\ OccursAt(vocab[R[y]], text, a, N)
        /\ ValidPair(FromDictionary(vocab), R[y - 1], R[y])
    BY <1>3, <2>1
  <2>3. Q[x] = R[y] /\ d[x] = a - q /\ d[x + 1] = e[y + 1] - q
    BY <1>9, <1>10, <2>1
  <2>4. Len(vocab[R[y]]) \in Nat /\ a \in Nat /\ a >= q
    <3>1. a \in 0 .. N /\ Len(vocab[R[y]]) \in Nat
      BY <1>3, <2>1, <2>2, UsableFacts
    <3>2. e[2] <= a
      <4>1. CASE y = 2
        BY <1>3, <1>4, <2>1, <4>1
      <4>2. CASE y # 2
        <5>1. 2 < y /\ 2 \in 1 .. l + 1 /\ y \in 1 .. l + 1
          BY <1>3, <1>4, <2>1, <4>2
        <5>2. \A i, j \in 1 .. l + 1 : i < j => e[i] < e[j]
          BY <1>2, CutStack
        <5>3. e[2] < e[y]
          <6> HIDE DEF y
          <6> QED BY <5>1, <5>2
        <5> QED BY <1>3, <1>4, <2>1, <5>3
      <4> QED BY <4>1, <4>2
    <3> QED BY <1>5, <3>1, <3>2
  <2> HIDE DEF a
  <2>5. a - q \in Nat /\ q + (a - q) = a /\ (a + Len(vocab[R[y]])) - q = (a - q) + Len(vocab[R[y]])
    BY <1>5, <2>4
  <2>6. OccursAt(vocab[R[y]], s, a - q, N - q)
    BY <1>7, <2>2, <2>4, <2>5
  <2>7. x > 1 => Q[x - 1] = R[y - 1]
    <3> SUFFICES ASSUME x > 1 PROVE Q[x - 1] = R[y - 1]
      OBVIOUS
    <3>1. x - 1 \in 1 .. m /\ 1 + (x - 1) = y - 1
      BY <1>8
    <3> QED BY <1>9, <3>1
  <2> QED BY <2>2, <2>3, <2>5, <2>6, <2>7
<1>12. Q = rest
  <2> DEFINE n == N - q
  <2>1. n \in 0 .. Len(s) /\ n = Len(s)
    BY <1>3, <1>5, <1>6
  <2>2. ValidCut(vocab, SubSeq(s, 1, n), Q, d, m)
    <3>1. d[m + 1] = n /\ d[1] = 0
      BY <1>10
    <3> HIDE DEF N
    <3>2. \A x \in 1 .. m :
              /\ Q[x] \in DOMAIN vocab
              /\ d[x + 1] = d[x] + Len(vocab[Q[x]])
              /\ OccursAt(vocab[Q[x]], s, d[x], Len(s))
              /\ x > 1 => ValidPair(FromDictionary(vocab), Q[x - 1], Q[x])
      BY <1>11, <2>1
    <3> HIDE DEF n
    <3> QED BY <1>6, <1>8, <2>1, <3>1, <3>2, StackCut
  <2> HIDE DEF n
  <2>3. SubSeq(s, 1, n) = s
    BY <1>6, <2>1, WholeSeq
  <2>4. Q = ReferenceEncoding(vocab, s)
    BY <1>6, <1>9, <2>2, <2>3, ValidIsReference
  <2> QED BY <2>4 DEF s
<1>13. q = N \/ ValidPair(FromDictionary(vocab), R[1], rest[1])
  <2> SUFFICES ASSUME q # N PROVE ValidPair(FromDictionary(vocab), R[1], rest[1])
    OBVIOUS
  <2>1. m # 0
    BY <1>3, <1>5, <1>8, <1>10
  <2>2. 1 \in 1 .. m /\ 2 \in 1 .. l /\ 1 + 1 = 2 /\ 2 - 1 = 1
    BY <1>8, <2>1
  <2>3. rest[1] = R[2] /\ ValidPair(FromDictionary(vocab), R[2 - 1], R[2])
    BY <1>3, <1>9, <1>12, <2>2
  <2> QED BY <2>2, <2>3
<1>14. IsSeq(rest) /\ l = Len(rest) + 1
  BY <1>8, <1>9, <1>12
<1> QED BY <1>3, <1>5, <1>13, <1>14 DEF l

(* the first token of the encoding *)
FirstOf(vocab, s) == ReferenceEncoding(vocab, s)[1]

(* a token that begins the text and may stand before the encoding of the rest *)
MayBegin(vocab, s, id) ==
  LET q == Len(vocab[id])
  IN  /\ id \in DOMAIN vocab
      /\ OccursAt(vocab[id], s, 0, Len(s))
      /\ q = Len(s) \/ ValidPair(FromDictionary(vocab), id, FirstOf(vocab, After(s, q)))

(* Just one token may begin a text: the first one of its encoding. *)
LEMMA OneMayBegin ==
  ASSUME NEW vocab, Usable(vocab), NEW s, IsSeq(s), Complete(vocab, s), Len(s) > 0,
         NEW first, first = FirstOf(vocab, s), NEW q, q = Len(vocab[first])
  PROVE  /\ \A id : MayBegin(vocab, s, id) <=> id = first
         /\ first \in DOMAIN vocab /\ q \in 1 .. Len(s) /\ Len(s) \in Nat
         /\ Len(ReferenceEncoding(vocab, s)) = Len(ReferenceEncoding(vocab, After(s, q))) + 1
         /\ Len(ReferenceEncoding(vocab, After(s, q))) \in Nat
<1> DEFINE R    == ReferenceEncoding(vocab, s)
           rest == ReferenceEncoding(vocab, After(s, q))
<1>1. R[1] = first
  BY DEF FirstOf
<1>2. /\ first \in DOMAIN vocab /\ q \in 1 .. Len(s) /\ Len(s) \in Nat
      /\ OccursAt(vocab[first], s, 0, Len(s))
      /\ q = Len(s) \/ ValidPair(FromDictionary(vocab), first, rest[1])
      /\ IsSeq(rest) /\ Len(R) = Len(rest) + 1
  <2>1. R = ReferenceEncoding(vocab, s) /\ q = Len(vocab[R[1]]) /\ rest = ReferenceEncoding(vocab, After(s, q))
    BY <1>1
  <2> HIDE DEF R, rest
  <2>2. /\ R[1] \in DOMAIN vocab /\ q \in 1 .. Len(s) /\ Len(s) \in Nat
        /\ OccursAt(vocab[R[1]], s, 0, Len(s))
        /\ q = Len(s) \/ ValidPair(FromDictionary(vocab), R[1], rest[1])
        /\ IsSeq(rest) /\ Len(R) = Len(rest) + 1
    BY <2>1, FirstTokenOf
  <2> QED BY <1>1, <2>2
<1>3. MayBegin(vocab, s, first)
  BY <1>2 DEF MayBegin, FirstOf
<1>4. ASSUME NEW id, MayBegin(vocab, s, id) PROVE id = first
  <2> DEFINE len  == Len(vocab[id])
             tail == ReferenceEncoding(vocab, After(s, len))
             b    == <<id>>
             T    == b \o tail
  <2>1. /\ id \in DOMAIN vocab /\ OccursAt(vocab[id], s, 0, Len(s))
        /\ len = Len(s) \/ ValidPair(FromDictionary(vocab), id, tail[1])
    BY <1>4 DEF MayBegin, FirstOf
  <2>2. len \in Nat /\ len \in 0 .. Len(s)
    <3>1. len \in Nat \ {0} /\ 0 + len <= Len(s)
      BY <2>1, UsableFacts DEF OccursAt
    <3> QED BY <1>2, <3>1
  <2>3. IsSeq(tail)
    <3>1. IsSeq(After(s, len)) /\ Complete(vocab, After(s, len))
      BY <2>2, AfterFacts, CompleteAfter
    <3> HIDE DEF len
    <3> QED BY <3>1, ReferenceIsValid
  <2> HIDE DEF len, tail
  <2>4. R = T
    <3>1. len = Len(vocab[id]) /\ len <= Len(s) /\ tail = ReferenceEncoding(vocab, After(s, len))
      BY <1>2, <2>2 DEF len, tail
    <3> QED BY <2>1, <3>1, FirstToken
  <2>5. IsSeq(b) /\ Len(b) = 1 /\ b[1] = id
    <3>1. <<id>> \in Seq({id})
      OBVIOUS
    <3> QED BY <3>1 DEF IsSeq
  <2> HIDE DEF b
  <2>6. \A x \in 1 .. Len(b) : T[x] = b[x]
    <3>1. IsSeq(b) /\ IsSeq(tail)
      BY <2>3, <2>5
    <3> QED BY <3>1, ConcatFacts
  <2> HIDE DEF T, R
  <2>7. T[1] = id
    BY <2>5, <2>6
  <2> QED BY <1>1, <2>4, <2>7
<1>5. Len(rest) \in Nat
  BY <1>2, SeqFacts
<1> QED BY <1>2, <1>3, <1>4, <1>5

-----------------------------------------------------------------------------
(* The ends of a sequence.                                                 *)

(* The last n elements. *)
LEMMA EndFacts ==
  ASSUME NEW S, NEW s \in Seq(S), NEW n \in 0 .. Len(s)
  PROVE  /\ EndOf(s, n) \in Seq(S)
         /\ Len(EndOf(s, n)) = n
         /\ \A k \in 1 .. n : EndOf(s, n)[k] = s[Len(s) - n + k]
<1>1. Len(s) \in Nat /\ \A k \in 1 .. Len(s) : s[k] \in S
  BY LenProperties, ElementOfSeq
<1> DEFINE from == Len(s) - n + 1
           to   == Len(s)
<1>2. from \in Int /\ to \in Int /\ \A k \in from .. to : s[k] \in S
  BY <1>1
<1>3. to - from + 1 = n /\ (from <= to <=> n > 0) /\ \A k \in 1 .. n : from + k - 1 = Len(s) - n + k
  BY <1>1
<1>4. EndOf(s, n) = SubSeq(s, from, to)
  BY DEF EndOf
<1> HIDE DEF from, to
<1>5. /\ SubSeq(s, from, to) \in Seq(S)
      /\ Len(SubSeq(s, from, to)) = IF from <= to THEN to - from + 1 ELSE 0
      /\ \A k \in 1 .. to - from + 1 : SubSeq(s, from, to)[k] = s[from + k - 1]
  BY <1>2, SubSeqProperties
<1>6. ASSUME NEW k \in 1 .. n PROVE EndOf(s, n)[k] = s[Len(s) - n + k]
  <2>1. from + k - 1 = Len(s) - n + k /\ k \in 1 .. to - from + 1
    BY <1>3
  <2> QED BY <1>4, <1>5, <2>1
<1> QED BY <1>3, <1>4, <1>5, <1>6

(* An end of an end is an end. *)
LEMMA EndOfEnd ==
  ASSUME NEW S, NEW s \in Seq(S), NEW n \in 0 .. Len(s), NEW m \in 0 .. n
  PROVE  EndOf(EndOf(s, n), m) = EndOf(s, m)
<1> DEFINE e == EndOf(s, n)
<1>1. Len(s) \in Nat
  BY LenProperties
<1>2. e \in Seq(S) /\ Len(e) = n /\ \A k \in 1 .. n : e[k] = s[Len(s) - n + k]
  BY EndFacts
<1> HIDE DEF e
<1>3. /\ EndOf(s, m) \in Seq(S) /\ Len(EndOf(s, m)) = m
      /\ \A k \in 1 .. m : EndOf(s, m)[k] = s[Len(s) - m + k]
  <2>1. m \in 0 .. Len(s)
    BY <1>1
  <2> QED BY <2>1, EndFacts
<1>4. /\ EndOf(e, m) \in Seq(S) /\ Len(EndOf(e, m)) = m
      /\ \A k \in 1 .. m : EndOf(e, m)[k] = e[n - m + k]
  BY <1>1, <1>2, EndFacts
<1>5. ASSUME NEW k \in 1 .. m PROVE EndOf(e, m)[k] = EndOf(s, m)[k]
  <2>1. n - m + k \in 1 .. n /\ Len(s) - n + (n - m + k) = Len(s) - m + k
    BY <1>1
  <2>2. e[n - m + k] = s[Len(s) - n + (n - m + k)]
    BY <1>2, <2>1
  <2> QED BY <1>3, <1>4, <2>1, <2>2
<1> QED BY <1>3, <1>4, <1>5, SeqEqual DEF e

(* An end with one element more. *)
LEMMA EndOfAppend ==
  ASSUME NEW S, NEW s \in Seq(S), NEW x \in S, NEW n \in 0 .. Len(s)
  PROVE  EndOf(Append(s, x), n + 1) = Append(EndOf(s, n), x)
<1> DEFINE a == Append(s, x)
           b == Append(EndOf(s, n), x)
<1>1. Len(s) \in Nat
  BY LenProperties
<1>2. /\ a \in Seq(S) /\ Len(a) = Len(s) + 1 /\ a[Len(s) + 1] = x
      /\ \A k \in 1 .. Len(s) : a[k] = s[k]
  BY AppendProperties
<1>3. /\ EndOf(s, n) \in Seq(S) /\ Len(EndOf(s, n)) = n
      /\ \A k \in 1 .. n : EndOf(s, n)[k] = s[Len(s) - n + k]
  BY EndFacts
<1>4. /\ b \in Seq(S) /\ Len(b) = n + 1 /\ b[n + 1] = x
      /\ \A k \in 1 .. n : b[k] = EndOf(s, n)[k]
  BY <1>3, AppendProperties
<1> HIDE DEF a, b
<1>5. /\ EndOf(a, n + 1) \in Seq(S) /\ Len(EndOf(a, n + 1)) = n + 1
      /\ \A k \in 1 .. n + 1 : EndOf(a, n + 1)[k] = a[Len(s) - n + k]
  <2>1. n + 1 \in 0 .. Len(a)
    BY <1>1, <1>2
  <2> DEFINE m == n + 1
  <2>2. \A k \in 1 .. m : Len(a) - m + k = Len(s) - n + k
    BY <1>1, <1>2
  <2>3. m \in 0 .. Len(a)
    BY <2>1
  <2> HIDE DEF m
  <2>4. /\ EndOf(a, m) \in Seq(S) /\ Len(EndOf(a, m)) = m
        /\ \A k \in 1 .. m : EndOf(a, m)[k] = a[Len(a) - m + k]
    BY <1>2, <2>3, EndFacts
  <2> QED BY <2>2, <2>4 DEF m
<1>6. ASSUME NEW k \in 1 .. n + 1 PROVE EndOf(a, n + 1)[k] = b[k]
  <2>1. EndOf(a, n + 1)[k] = a[Len(s) - n + k]
    BY <1>5
  <2>2. CASE k = n + 1
    BY <1>1, <1>2, <1>4, <2>1, <2>2
  <2>3. CASE k \in 1 .. n
    <3>1. Len(s) - n + k \in 1 .. Len(s)
      BY <1>1, <2>3
    <3> QED BY <1>2, <1>3, <1>4, <2>1, <2>3, <3>1
  <2> QED BY <2>2, <2>3
<1> QED BY <1>4, <1>5, <1>6, SeqEqual DEF a, b

-----------------------------------------------------------------------------
(* The automaton.                                                          *)

(* the ends of the bytes read that are the beginning of a word *)
Known(words, read) ==
  {n \in 0 .. Len(read) : n = 0 \/ IsBeginning(words, EndOf(read, n))}

(* the state after these bytes: the longest of them *)
LongestBeginning(words, read, st) ==
  \E n \in Known(words, read) :
    /\ \A m \in Known(words, read) : m <= n
    /\ st = EndOf(read, n)

AreWords(words, S) == \A id \in DOMAIN words : words[id] \in Seq(S)

(* A beginning of a word without its last byte is one. *)
LEMMA ShorterBeginning ==
  ASSUME NEW S, NEW words, AreWords(words, S), NEW bytes \in Seq(S), NEW x \in S,
         IsBeginning(words, Append(bytes, x))
  PROVE  IsBeginning(words, bytes)
<1> DEFINE more == Append(bytes, x)
<1>1. /\ more \in Seq(S) /\ Len(more) = Len(bytes) + 1 /\ Len(bytes) \in Nat
      /\ \A k \in 1 .. Len(bytes) : more[k] = bytes[k]
  BY AppendProperties, LenProperties
<1> HIDE DEF more
<1>2. PICK id \in DOMAIN words :
        Len(more) <= Len(words[id]) /\ SubSeq(words[id], 1, Len(more)) = more
  BY DEF IsBeginning, more
<1>3. words[id] \in Seq(S) /\ Len(words[id]) \in Nat
  BY LenProperties DEF AreWords
<1>4. \A k \in 1 .. Len(words[id]) : words[id][k] \in S
  BY <1>3, ElementOfSeq
<1>5. \A k \in 1 .. Len(more) : more[k] = words[id][k]
  <2>1. \A k \in 1 .. Len(more) - 1 + 1 : SubSeq(words[id], 1, Len(more))[k] = words[id][1 + k - 1]
    BY <1>1, <1>2, <1>3, <1>4, SubSeqProperties
  <2> QED BY <1>1, <1>2, <2>1
<1>6. /\ SubSeq(words[id], 1, Len(bytes)) \in Seq(S)
      /\ Len(SubSeq(words[id], 1, Len(bytes))) = Len(bytes)
      /\ \A k \in 1 .. Len(bytes) : SubSeq(words[id], 1, Len(bytes))[k] = words[id][k]
  <2> DEFINE n == Len(bytes)
             sub == SubSeq(words[id], 1, n)
  <2>1. n \in Nat /\ \A k \in 1 .. n : words[id][k] \in S
    BY <1>1, <1>2, <1>3, <1>4
  <2> HIDE DEF n
  <2>2. /\ sub \in Seq(S) /\ Len(sub) = IF 1 <= n THEN n - 1 + 1 ELSE 0
        /\ \A k \in 1 .. n - 1 + 1 : sub[k] = words[id][1 + k - 1]
    BY <2>1, SubSeqProperties
  <2> QED BY <2>1, <2>2 DEF n
<1>7. SubSeq(words[id], 1, Len(bytes)) = bytes
  BY <1>1, <1>5, <1>6, SeqEqual
<1> QED BY <1>1, <1>2, <1>3, <1>7 DEF IsBeginning

(* ac_step leads from the longest beginning to the longest beginning *)
LEMMA AdvanceIsLongest ==
  ASSUME NEW S, NEW words, AreWords(words, S), NEW read \in Seq(S), NEW x \in S,
         NEW st, LongestBeginning(words, read, st)
  PROVE  LongestBeginning(words, Append(read, x), Advance(words, st, x))
<1> DEFINE more  == Append(read, x)
           bytes == Append(st, x)
           known == {n \in 0 .. Len(bytes) : n = 0 \/ IsBeginning(words, EndOf(bytes, n))}
           best  == CHOOSE n \in known : \A m \in known : m <= n
<1>1. PICK n \in Known(words, read) :
        (\A m \in Known(words, read) : m <= n) /\ st = EndOf(read, n)
  BY DEF LongestBeginning
<1>2. Len(read) \in Nat /\ n \in 0 .. Len(read) /\ more \in Seq(S) /\ Len(more) = Len(read) + 1
  BY <1>1, LenProperties, AppendProperties DEF Known
<1>3. st \in Seq(S) /\ bytes \in Seq(S) /\ Len(bytes) = n + 1
  BY <1>1, <1>2, EndFacts, AppendProperties
<1>4. bytes = EndOf(more, n + 1)
  BY <1>1, <1>2, EndOfAppend
<1>5. Advance(words, st, x) = EndOf(bytes, best)
  BY DEF Advance
<1>6. best \in known /\ \A m \in known : m <= best
  <2>1. known \subseteq 0 .. n + 1 /\ 0 \in known /\ n + 1 \in Nat
    BY <1>2, <1>3
  <2> HIDE DEF known
  <2>2. \E k \in known : \A m \in known : m <= k
    BY <2>1, LargestExists
  <2> QED BY <2>2
<1> HIDE DEF best, bytes, more
<1>7. \A m \in 0 .. n + 1 : EndOf(bytes, m) = EndOf(more, m)
  BY <1>2, <1>4, EndOfEnd
<1>8. best \in Known(words, more)
  BY <1>2, <1>3, <1>6, <1>7 DEF Known
<1>9. ASSUME NEW m \in Known(words, more) PROVE m <= best
  <2>1. CASE m = 0
    BY <1>3, <1>6, <2>1
  <2>2. CASE m # 0
    <3>1. m \in 1 .. Len(read) + 1 /\ IsBeginning(words, EndOf(more, m))
      BY <1>2, <2>2 DEF Known
    <3>2. EndOf(more, m) = Append(EndOf(read, m - 1), x)
      <4>1. m - 1 \in 0 .. Len(read)
        BY <1>2, <3>1
      <4>2. EndOf(more, m - 1 + 1) = Append(EndOf(read, m - 1), x)
        BY <4>1, EndOfAppend DEF more
      <4> QED BY <3>1, <4>2
    <3>3. m - 1 \in Known(words, read)
      <4>1. m - 1 \in 0 .. Len(read)
        BY <1>2, <3>1
      <4>2. EndOf(read, m - 1) \in Seq(S)
        BY <4>1, EndFacts
      <4> QED BY <3>1, <3>2, <4>1, <4>2, ShorterBeginning DEF Known
    <3>4. m \in 0 .. n + 1
      BY <1>1, <1>2, <3>1, <3>3
    <3> QED BY <1>3, <1>6, <1>7, <3>1, <3>4
  <2> QED BY <2>1, <2>2
<1>10. EndOf(bytes, best) = EndOf(more, best)
  BY <1>3, <1>6, <1>7
<1> QED BY <1>5, <1>8, <1>9, <1>10 DEF LongestBeginning, more

(* in the state after `read` it yields all words that end here *)
LEMMA OutputsAreEnds ==
  ASSUME NEW S, NEW words, AreWords(words, S), NEW read \in Seq(S),
         NEW st, LongestBeginning(words, read, st)
  PROVE  Outputs(words, st) =
           {id \in DOMAIN words : /\ Len(words[id]) <= Len(read)
                                 /\ words[id] = EndOf(read, Len(words[id]))}
<1>1. PICK n \in Known(words, read) :
        (\A m \in Known(words, read) : m <= n) /\ st = EndOf(read, n)
  BY DEF LongestBeginning
<1>2. n \in 0 .. Len(read) /\ Len(read) \in Nat /\ Len(st) = n
  BY <1>1, LenProperties, EndFacts DEF Known
<1>3. \A m \in 0 .. n : EndOf(st, m) = EndOf(read, m)
  BY <1>1, <1>2, EndOfEnd
<1>4. ASSUME NEW id \in DOMAIN words
      PROVE  (Len(words[id]) <= Len(st) /\ words[id] = EndOf(st, Len(words[id])))
             <=> (Len(words[id]) <= Len(read) /\ words[id] = EndOf(read, Len(words[id])))
  <2> DEFINE len == Len(words[id])
  <2>1. words[id] \in Seq(S) /\ len \in Nat
    BY LenProperties DEF AreWords
  <2>2. ASSUME len <= Len(read), words[id] = EndOf(read, len) PROVE len <= n
    <3>1. SubSeq(words[id], 1, len) = words[id]
      BY <2>1, SubSeqFull
    <3>2. IsBeginning(words, EndOf(read, len))
      BY <2>1, <2>2, <3>1 DEF IsBeginning
    <3>3. len \in Known(words, read)
      BY <2>1, <2>2, <3>2 DEF Known
    <3> QED BY <1>1, <3>3
  <2> HIDE DEF len
  <2>3. len <= n => len \in 0 .. n /\ len <= Len(read)
    BY <1>2, <2>1
  <2>4. len <= n => EndOf(st, len) = EndOf(read, len)
    BY <1>3, <2>3
  <2> QED BY <1>2, <2>2, <2>3, <2>4 DEF len
<1> QED BY <1>4 DEF Outputs

(* of some outputs, one comes first *)
LEMMA FirstIsOne ==
  ASSUME NEW words, NEW n \in Nat, NEW outputs, outputs # {},
         \A id \in outputs : Len(words[id]) \in 0 .. n
  PROVE  FirstOutput(words, outputs) \in outputs
<1> DEFINE lengths == {Len(words[id]) : id \in outputs}
<1>1. lengths \subseteq 0 .. n /\ lengths # {}
  OBVIOUS
<1>2. PICK x \in lengths : \A y \in lengths : y <= x
  <2> HIDE DEF lengths
  <2> QED BY <1>1, LargestExists
<1>3. \E id \in outputs : \A other \in outputs : Len(words[other]) <= Len(words[id])
  BY <1>2
<1> QED BY <1>3 DEF FirstOutput
=============================================================================
