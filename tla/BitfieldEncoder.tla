--------------------------- MODULE BitfieldEncoder ---------------------------
(***************************************************************************)
(* bpe_encode_via_bitfield of src/bpe_core.c: byte pair encoding by a      *)
(* priority heap of candidate joins, with the boundaries between the parts *)
(* of the text in a bit field.  One iteration of the loop over the heap is *)
(* one action.                                                             *)
(*                                                                         *)
(* The heap is the array of heap_push and heap_pop, with their sift loops: *)
(* which of several equal priorities comes out first is decided there.     *)
(* Array index i of the code is index i + 1 here.                          *)
(***************************************************************************)
EXTENDS EncoderCall

(* pc is "idle", "loop" (encode_into_bitfield) or "done" *)
VARIABLES
  heap,    \* h->data[0 .. size)
  bits,    \* the set bits of the field, up to bit text_len
  count    \* number of parts

bitfieldVars == <<bpe, pc, text, heap, bits, count, result>>

Priority(h, i) == h[i].priority

Swap(h, i, j) == [h EXCEPT ![i] = h[j], ![j] = h[i]]

(* the loop of heap_push, once: swap with the parent while that is larger *)
Rise(s) ==
  IF s.at = 1 \/ Priority(s.data, s.at \div 2) <= Priority(s.data, s.at) THEN s
  ELSE [at |-> s.at \div 2, data |-> Swap(s.data, s.at, s.at \div 2)]

(***************************************************************************)
(* heap_push: append and rise.  The loop runs less often than there are    *)
(* items; once it has stopped, nothing changes.                            *)
(***************************************************************************)
HeapPush(h, priority, start) ==
  LET last == Len(h) + 1
      up[n \in 0 .. last] ==
        IF n = 0 THEN [at   |-> last,
                       data |-> Append(h, [priority |-> priority, start |-> start])]
        ELSE Rise(up[n - 1])
  IN  up[last].data

(* the right child is taken even if the left one is smaller *)
Smallest_IgnoresLeft(h, i) ==
  LET below == {c \in {2 * i, 2 * i + 1} : c <= Len(h) /\ Priority(h, c) < Priority(h, i)}
  IN  IF below = {} THEN i ELSE CHOOSE c \in below : \A d \in below : d <= c

(* the smallest of i and its children; of equal ones the first *)
Smallest(h, i) ==
  LET family == {c \in {i, 2 * i, 2 * i + 1} : c <= Len(h)}
  IN  CHOOSE c \in family : \A d \in family :
        Priority(h, c) < Priority(h, d) \/ (Priority(h, c) = Priority(h, d) /\ c <= d)

(* the loop of heap_pop, once; an item that stays is swapped with itself *)
Sink(s) ==
  LET smallest == Smallest(s.data, s.at)
  IN  [at |-> smallest, data |-> Swap(s.data, s.at, smallest)]

(***************************************************************************)
(* heap_pop: the last item replaces the first and sinks to its place.      *)
(***************************************************************************)
HeapPop(h) ==
  LET size == Len(h) - 1
      down[n \in 0 .. size] ==
        IF n = 0 THEN [at |-> 1, data |-> [SubSeq(h, 1, size) EXCEPT ![1] = h[size + 1]]]
        ELSE Sink(down[n - 1])
  IN  IF size = 0 THEN <<>> ELSE down[size].data

(* bitfield_successor and bitfield_predecessor *)
Successor(bit)   == CHOOSE b \in bits : b >= bit /\ \A c \in bits : c >= bit => b <= c
Predecessor(bit) == CHOOSE b \in bits : b <= bit /\ \A c \in bits : c <= bit => c <= b

(* the token that the bytes from start to end form, or UINT32_MAX *)
Join(start, end) == FindTokenByBytes(bpe.vocab, SubSeq(text, start + 1, end))

PushJoin(h, start, end) ==
  IF Join(start, end) = UINT32_MAX THEN h ELSE HeapPush(h, Join(start, end), start)

-----------------------------------------------------------------------------
InitBitfield ==
  /\ bpe \in {FromDictionary(vocab) : vocab \in Vocabularies}
  /\ pc = "idle"
  /\ text = <<>>
  /\ heap = <<>>
  /\ bits = {}
  /\ count = 0
  /\ result = <<>>

(* every pair of neighbouring bytes that is a token goes into the heap *)
Seeds(t) ==
  LET seeded[i \in 0 .. Len(t)] ==
        IF i < 2 THEN <<>>
        ELSE LET token == FindTokenByBytes(bpe.vocab, SubSeq(t, i - 1, i))
             IN  IF token = UINT32_MAX THEN seeded[i - 1] ELSE HeapPush(seeded[i - 1], token, i - 2)
  IN  seeded[Len(t)]

CallBitfield(t) ==
  /\ pc = "idle"
  /\ pc' = "loop"
  /\ text' = t
  /\ heap' = Seeds(t)
  /\ bits' = 0 .. Len(t)
  /\ count' = Len(t)
  /\ UNCHANGED <<bpe, result>>

Top == heap[1]
Mid == Successor(Top.start + 1)
End == Successor(Mid + 1)

(* the popped join still is the join of two neighbouring parts *)
Current ==
  /\ Top.start \in bits
  /\ Mid < Len(text)
  /\ TokenLen(bpe, Top.priority) = End - Top.start

Discard ==
  /\ pc = "loop"
  /\ heap # <<>>
  /\ ~Current
  /\ heap' = HeapPop(heap)
  /\ UNCHANGED <<bpe, pc, text, bits, count, result>>

(* joins with the part on the left are forgotten *)
Extended_RightOnly(h) ==
  IF End < Len(text) THEN PushJoin(h, Top.start, Successor(End + 1)) ELSE h

(* the joins of the new part with its neighbours *)
Extended(h) ==
  LET right == IF End < Len(text) THEN PushJoin(h, Top.start, Successor(End + 1)) ELSE h
  IN  IF Top.start > 0 THEN PushJoin(right, Predecessor(Top.start - 1), End) ELSE right

Merge ==
  /\ pc = "loop"
  /\ heap # <<>>
  /\ Current
  /\ bits' = bits \ {Mid}
  /\ count' = count - 1
  /\ heap' = Extended(HeapPop(heap))
  /\ UNCHANGED <<bpe, pc, text, result>>

(* the parts that are left, from left to right, as tokens *)
Collect ==
  /\ pc = "loop"
  /\ heap = <<>>
  /\ pc' = "done"
  /\ LET part[start \in 0 .. Len(text)] ==
           IF start = Len(text) THEN <<>>
           ELSE <<Join(start, Successor(start + 1))>> \o part[Successor(start + 1)]
     IN  result' = part[0]
  /\ UNCHANGED <<bpe, text, heap, bits, count>>

NextBitfield == (\E t \in Texts : CallBitfield(t)) \/ Discard \/ Merge \/ Collect

SpecBitfield == InitBitfield /\ [][NextBitfield]_bitfieldVars

-----------------------------------------------------------------------------
(* Two neighbouring parts of the text. *)
Neighbours == {p \in bits \X bits : p[1] < p[2] /\ p[2] < Len(text)
                 /\ \A b \in bits : b <= p[1] \/ b >= p[2]}

JoinOf(p) == Join(p[1], Successor(p[2] + 1))

(***************************************************************************)
(* Nothing is missed: every join that is possible now is in the heap, so   *)
(* the loop cannot end with two parts that still form a token.             *)
(***************************************************************************)
HeapComplete ==
  pc \in {"loop", "done"} =>
    \A p \in Neighbours : JoinOf(p) # UINT32_MAX =>
      \E i \in 1 .. Len(heap) : heap[i] = [priority |-> JoinOf(p), start |-> p[1]]

(***************************************************************************)
(* The rule of byte pair encoding: whenever two parts are joined, no other *)
(* pair of neighbours forms a token of lower rank.                         *)
(***************************************************************************)
LowestFirst ==
  [][bits' # bits /\ pc = "loop" =>
       \A p \in Neighbours : JoinOf(p) = UINT32_MAX \/ Top.priority <= JoinOf(p)]_bitfieldVars
=============================================================================
