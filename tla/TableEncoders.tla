---------------------------- MODULE TableEncoders ----------------------------
(***************************************************************************)
(* The encoders of src/bpe_core.c that need no search:                     *)
(* bpe_encode_via_table (with bpe_encode_all_prefixes),                    *)
(* bpe_encode_minimal and bpe_encode_greedy.  One iteration of each outer  *)
(* loop is one action.                                                     *)
(*                                                                         *)
(* The first two fill a table with one entry per byte, walk back from the  *)
(* last entry, and so find the tokens in reverse.  The reversal of the     *)
(* table encoder works with two unsigned indices.                          *)
(***************************************************************************)
EXTENDS Automaton, EncoderCall

CONSTANT SIZE_MAX   \* largest index; larger than every text

ASSUME SizeMaxAssumption == SIZE_MAX \in Nat /\ \A t \in Texts : Len(t) + 1 < SIZE_MAX

(* pc is "idle", "scan", "walk", "reverse", "match", "done" or "undefined";  *)
(* result has the order in which the tokens are found                       *)
VARIABLES
  algo,     \* "table", "minimal" or "greedy"
  table,    \* last_token, or the MinState array: [token, count] per byte so far
  state,    \* the state of the automaton
  pos,      \* the position of the backward walk, or of the greedy match
  i, j      \* the indices of the reversal

vars == <<bpe, pc, algo, text, table, state, pos, result, i, j>>

NoToken == UINT32_MAX

Init ==
  /\ bpe \in {FromDictionary(vocab) : vocab \in Vocabularies}
  /\ pc = "idle"
  /\ algo = "none"
  /\ text = <<>>
  /\ table = <<>>
  /\ state = StartState
  /\ pos = 0
  /\ result = <<>>
  /\ i = 0
  /\ j = 0

Call(a, t) ==
  /\ pc = "idle"
  /\ pc' = IF a = "greedy" THEN "match" ELSE "scan"
  /\ algo' = a
  /\ text' = t
  /\ UNCHANGED <<bpe, table, state, pos, result, i, j>>

-----------------------------------------------------------------------------
(* The tables.  The tokens found at a byte come longest first. *)

Start(id) == Len(table) + 1 - TokenLen(bpe, id)

Follows_AnyPair(id) == Start(id) = 0 \/ table[Start(id)].token # NoToken

Follows(id) == Start(id) = 0 \/ ValidPair(bpe, table[Start(id)].token, id)

(* bpe_encode_all_prefixes: the first token that may follow *)
PrefixEntry(outputs) ==
  LET candidates == {id \in outputs : Follows(id)}
  IN  [token |-> IF candidates = {} THEN NoToken ELSE FirstOutput(ForwardWords(bpe), candidates),
       count |-> 0]

CountBefore(id) == IF Start(id) = 0 THEN 0 ELSE table[Start(id)].count

(* the longest token, whatever stands before it *)
Cheapest_LongestToken(outputs) == outputs

(* the tokens with the fewest tokens before them *)
Cheapest(outputs) ==
  {id \in outputs : \A other \in outputs : CountBefore(id) <= CountBefore(other)}

(* bpe_encode_minimal: the first token with the smallest count *)
MinimalEntry(outputs) ==
  LET best == FirstOutput(ForwardWords(bpe), Cheapest(outputs))
  IN  [token |-> best, count |-> CountBefore(best) + 1]

Scan ==
  /\ pc = "scan"
  /\ Len(table) < Len(text)
  /\ state' = Advance(ForwardWords(bpe), state, text[Len(table) + 1])
  /\ LET outputs == Outputs(ForwardWords(bpe), state')
     IN  table' = Append(table, IF algo = "table" THEN PrefixEntry(outputs)
                                ELSE MinimalEntry(outputs))
  /\ UNCHANGED <<bpe, pc, algo, text, pos, result, i, j>>

EndScan ==
  /\ pc = "scan"
  /\ Len(table) = Len(text)
  /\ pc' = "walk"
  /\ pos' = Len(text)
  /\ UNCHANGED <<bpe, algo, text, table, state, result, i, j>>

(* bpe_encode_minimal fills its array from the end, bpe_encode_via_table   *)
(* from the start                                                          *)
WalkBack ==
  /\ pc = "walk"
  /\ pos > 0
  /\ LET token == table[pos].token
     IN  /\ result' = IF algo = "minimal" THEN <<token>> \o result ELSE Append(result, token)
         /\ pos' = pos - TokenLen(bpe, token)
  /\ UNCHANGED <<bpe, pc, algo, text, table, state, i, j>>

(* j = count - 1, a size_t *)
EndWalk ==
  /\ pc = "walk"
  /\ pos = 0
  /\ pc' = IF algo = "table" THEN "reverse" ELSE "done"
  /\ j' = IF algo # "table" THEN 0 ELSE IF result = <<>> THEN SIZE_MAX ELSE Len(result) - 1
  /\ UNCHANGED <<bpe, algo, text, table, state, pos, result, i>>

-----------------------------------------------------------------------------
(* The reversal. *)

(* the middle is not reached: every other pair is left as it is *)
Crossed_TooEarly == i + 1 >= j

Crossed == i >= j

SwapEnds ==
  /\ pc = "reverse"
  /\ ~Crossed
  /\ j < Len(result)
  /\ result' = [result EXCEPT ![i + 1] = result[j + 1], ![j + 1] = result[i + 1]]
  /\ i' = i + 1
  /\ j' = j - 1
  /\ UNCHANGED <<bpe, pc, algo, text, table, state, pos>>

(* an index outside the array: undefined behaviour, nothing is known after it *)
SwapOutside ==
  /\ pc = "reverse"
  /\ ~Crossed
  /\ j >= Len(result)
  /\ pc' = "undefined"
  /\ UNCHANGED <<bpe, algo, text, table, state, pos, result, i, j>>

EndReverse ==
  /\ pc = "reverse"
  /\ Crossed
  /\ pc' = "done"
  /\ UNCHANGED <<bpe, algo, text, table, state, pos, result, i, j>>

-----------------------------------------------------------------------------
(* bpe_encode_greedy: the longest match, again and again. *)
Match ==
  /\ pc = "match"
  /\ pos < Len(text)
  /\ LET token == NextMatch(bpe.vocab, text, pos, Len(text))
     IN  /\ result' = Append(result, token)
         /\ pos' = pos + TokenLen(bpe, token)
  /\ UNCHANGED <<bpe, pc, algo, text, table, state, i, j>>

EndMatch ==
  /\ pc = "match"
  /\ pos >= Len(text)
  /\ pc' = "done"
  /\ UNCHANGED <<bpe, algo, text, table, state, pos, result, i, j>>

Next ==
  \/ \E a \in {"table", "minimal", "greedy"}, t \in Texts : Call(a, t)
  \/ Scan \/ EndScan \/ WalkBack \/ EndWalk
  \/ SwapEnds \/ SwapOutside \/ EndReverse
  \/ Match \/ EndMatch

Spec == Init /\ [][Next]_vars

(* bpe_decode_tokens, for tokens of the dictionary *)
Decode(tokens) ==
  LET bytes[n \in 0 .. Len(tokens)] ==
        IF n = 0 THEN <<>> ELSE bytes[n - 1] \o bpe.vocab[tokens[n]]
  IN  bytes[Len(tokens)]

-----------------------------------------------------------------------------
(***************************************************************************)
(* Every entry of the prefix table is the last token of the reference      *)
(* encoding of the text up to its byte, and so the walk back finds the     *)
(* reference encoding of the whole text.                                   *)
(***************************************************************************)
TableExact ==
  algo = "table" =>
    /\ \A n \in 1 .. Len(table) :
         LET encoding == ReferenceEncoding(bpe.vocab, SubSeq(text, 1, n))
         IN  table[n].token = encoding[Len(encoding)]
    /\ pc = "done" => result = ReferenceEncoding(bpe.vocab, text)

(***************************************************************************)
(* Whatever the algorithm, the tokens that are returned decode to the text.*)
(***************************************************************************)
ResultDecodes == pc = "done" => Decode(result) = text

(***************************************************************************)
(* bpe_encode_minimal: no shorter sequence of tokens decodes to the text.  *)
(***************************************************************************)
MinimalIsShortest ==
  pc = "done" /\ algo = "minimal" =>
    \A n \in 0 .. Len(result) - 1 : \A tokens \in [1 .. n -> DOMAIN bpe.vocab] :
      Decode(tokens) # text
=============================================================================
