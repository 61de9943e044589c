------------------------------ MODULE Tokenizer ------------------------------
(***************************************************************************)
(* src/tokenizer.c: a text is split into pieces and each piece is encoded  *)
(* on its own.  The encoders of src/bpe_core.c are used by what they       *)
(* return (module BacktrackEncoder has them in detail).  A call is a       *)
(* sequence of steps, one per piece; the caller of tokenizer_encode_into   *)
(* keeps its buffer from call to call.                                     *)
(***************************************************************************)
EXTENDS PieceIterator, BytePairEncoding

CONSTANTS
  Vocabularies,  \* the dictionaries a behaviour may use
  Limits,        \* token limits callers pass
  InitialCap,    \* the first capacity of a result: 256
  LimitSlack,    \* what bpe_count_till_limit adds to its limit: 10
  SIZE_MAX,      \* the largest size_t, and the answer "limit exceeded"
  MaxCalls       \* bound on the calls of a behaviour

ASSUME TokenizerAssumption ==
  /\ InitialCap \in Nat \ {0}
  /\ SIZE_MAX \in Nat
  /\ LimitSlack \in Nat
  /\ Limits \subseteq 0 .. SIZE_MAX
  /\ \A t \in Texts : Len(t) < SIZE_MAX
  /\ \A v \in Vocabularies : DOMAIN v \subseteq Nat

VARIABLES
  vocab,
  op,        \* the operation of the last call
  running,   \* the call has not returned
  limit,
  buf,       \* the tokens; its length is buf_cap
  count,     \* tokens of the call so far
  result,    \* what the call returned
  calls      \* calls so far

call == <<op, running, limit, buf, count, result, calls>>
vars == <<iter, vocab, call>>

Init ==
  /\ InitIter
  /\ vocab \in Vocabularies
  /\ op = "count"
  /\ running = FALSE
  /\ limit = 0
  /\ buf = [i \in 1 .. InitialCap |-> UINT32_MAX]
  /\ count = 0
  /\ result = 0
  /\ calls = 0

(* pretok_iter_new_for; tokenizer_encode allocates, encode_into does not *)
Call(o, t, l) ==
  /\ ~running
  /\ calls < MaxCalls
  /\ calls' = calls + 1
  /\ op' = o
  /\ running' = TRUE
  /\ limit' = l
  /\ text' = t
  /\ offset' = 0
  /\ piece' = <<0, 0>>
  /\ ended' = FALSE
  /\ count' = 0
  /\ buf' = IF o = "encode" THEN [i \in 1 .. InitialCap |-> UINT32_MAX] ELSE buf
  /\ UNCHANGED <<fn, vocab, result>>

(***************************************************************************)
(* What bpe_encode_piece returns for any slice of a text.                  *)
(***************************************************************************)
Slices == UNION {{SubSeq(t, i, j) : i, j \in 1 .. Len(t)} : t \in Texts}

EncodingOf == [v \in Vocabularies |-> [slice \in Slices |-> ReferenceEncoding(v, slice)]]

PieceTokens == EncodingOf[vocab][SubSeq(text, offset + 1, NextEnd)]

(* the capacity is doubled once *)
Grown_Once(cap, n) == IF n > cap THEN cap * 2 ELSE cap

(* the capacity is doubled until n tokens fit *)
Grown(cap, n) ==
  LET after[k \in 0 .. n] == IF k = 0 THEN cap ELSE 2 * after[k - 1]
      fits == {k \in 0 .. n : after[k] >= n}
  IN  after[CHOOSE k \in fits : \A other \in fits : k <= other]

(***************************************************************************)
(* The tokens are copied behind those of the earlier pieces; a token that  *)
(* has no room is lost (in C it is written past the buffer).               *)
(***************************************************************************)
Store(tokens) ==
  LET n == count + Len(tokens)
  IN  /\ buf' = [i \in 1 .. Grown(Len(buf), n) |->
                   IF i \in count + 1 .. n THEN tokens[i - count]
                   ELSE IF i <= Len(buf) THEN buf[i] ELSE UINT32_MAX]
      /\ count' = n

EncodePiece ==
  /\ running
  /\ op \in {"encode", "encode_into"}
  /\ Piece
  /\ Store(PieceTokens)
  /\ UNCHANGED <<vocab, op, running, limit, result, calls>>

CountPiece ==
  /\ running
  /\ op = "count"
  /\ Piece
  /\ count' = count + Len(PieceTokens)
  /\ UNCHANGED <<vocab, op, running, limit, buf, result, calls>>

(***************************************************************************)
(* bpe_count_till_limit of n tokens over len bytes: the count if it is     *)
(* within the limit, but the encoder's way there may go past limit_buf if  *)
(* there are bytes enough for that.  limit_buf is a size_t.                *)
(***************************************************************************)
LimitBuf(token_limit) == (token_limit + LimitSlack) % (SIZE_MAX + 1)

LimitAnswers(n, len, remaining) ==
  {IF n <= remaining THEN n ELSE SIZE_MAX}
  \cup (IF len > LimitBuf(remaining) THEN {SIZE_MAX} ELSE {})

(* one token less than what is left *)
Remaining_OffByOne == IF count + 1 < limit THEN limit - count - 1 ELSE 0

Remaining == IF count < limit THEN limit - count ELSE 0

LimitPiece ==
  /\ running
  /\ op = "count_till_limit"
  /\ Piece
  /\ \E answer \in LimitAnswers(Len(PieceTokens), NextEnd - offset, Remaining) :
       IF answer = SIZE_MAX \/ count + answer > limit
       THEN /\ running' = FALSE
            /\ result' = SIZE_MAX
            /\ count' = count
       ELSE /\ count' = count + answer
            /\ UNCHANGED <<running, result>>
  /\ UNCHANGED <<vocab, op, limit, buf, calls>>

(* pretok_iter_next returned false *)
Return ==
  /\ running
  /\ End
  /\ running' = FALSE
  /\ result' = count
  /\ UNCHANGED <<vocab, op, limit, buf, count, calls>>

Step == EncodePiece \/ CountPiece \/ LimitPiece \/ Return

Next ==
  \/ \E o \in {"encode", "encode_into", "count"}, t \in Texts : Call(o, t, 0)
  \/ \E t \in Texts, l \in Limits : Call("count_till_limit", t, l)
  \/ Step

(* the calling thread runs the loop of a call: every step of it is one of   *)
(* the iterator                                                             *)
Spec == Init /\ [][Next]_vars /\ WF_iter(running /\ NextIter)

-----------------------------------------------------------------------------
(***************************************************************************)
(* The reference: split with the documented pattern, encode every piece    *)
(* with the merges of the dictionary.  (The properties below name its      *)
(* value by \E, so that TLC evaluates it once.)                            *)
(***************************************************************************)
ReferenceTokens(t) ==
  LET ends == [p \in 0 .. Len(t) - 1 |-> PieceEnd(Documented(fn, t, p))]
      from[p \in 0 .. Len(t)] ==
        IF p = Len(t) THEN <<>>
        ELSE EncodingOf[vocab][SubSeq(t, p + 1, ends[p])] \o from[ends[p]]
  IN  from[0]

(* the splitters find everywhere what their patterns find *)
SplittersAgree ==
  \A f \in Splitters, t \in Texts : \A p \in 0 .. Len(t) - 1 :
    Native(f, t, p) = Documented(f, t, p)

(***************************************************************************)
(* Whatever the encoder has put out, at any step and in a buffer of any    *)
(* earlier call, is a beginning of the reference's tokens; when the call   *)
(* returns it is all of them.                                              *)
(***************************************************************************)
EncodesAsReference ==
  calls > 0 /\ op \in {"encode", "encode_into"} =>
    \E expected \in {ReferenceTokens(text)} :
      /\ count <= Len(buf)
      /\ SubSeq(buf, 1, count) = SubSeq(expected, 1, count)
      /\ offset = Len(text) => count = Len(expected)

(***************************************************************************)
(* A count without a limit and one with a limit that is not exceeded are   *)
(* the number of tokens an encode of the same text gives; a limit is never *)
(* reported exceeded when it is not, if the text has no more bytes than    *)
(* limit_buf of the whole limit: the pieces share one limit.               *)
(***************************************************************************)
CountsAgree ==
  calls > 0 /\ ~running =>
    \E n \in {Len(ReferenceTokens(text))} :
      IF op # "count_till_limit" THEN result = n
      ELSE /\ result # SIZE_MAX => result = n /\ n <= limit
           /\ n <= limit /\ Len(text) <= LimitBuf(limit) => result = n

(***************************************************************************)
(* Every call returns: a piece is never empty, so every iteration of the   *)
(* loops moves on.                                                         *)
(***************************************************************************)
Returns == running ~> ~running
=============================================================================
