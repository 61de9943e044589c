------------------------------ MODULE Automaton ------------------------------
(***************************************************************************)
(* The Aho-Corasick automata of a dictionary, seen from their users: the   *)
(* state is the longest end of the bytes read that is the beginning of a   *)
(* token, and it yields the tokens that end here, longest first.  Module   *)
(* AhoCorasick has the tables behind it.                                   *)
(*                                                                         *)
(* The words of the reverse automaton are the tokens read backwards.       *)
(***************************************************************************)
EXTENDS BytePairEncoding

Backwards(word) == [k \in 1 .. Len(word) |-> word[Len(word) + 1 - k]]

ForwardWords(bpe) == bpe.vocab
ReverseWords(bpe) == [id \in DOMAIN bpe.vocab |-> Backwards(bpe.vocab[id])]

EndOf(bytes, n) == SubSeq(bytes, Len(bytes) - n + 1, Len(bytes))

IsBeginning(words, bytes) ==
  \E id \in DOMAIN words : Len(bytes) <= Len(words[id]) /\ SubSeq(words[id], 1, Len(bytes)) = bytes

(* ac_start_state *)
StartState == <<>>

(* ac_step, by ac_iter_advance *)
Advance(words, state, byte) ==
  LET bytes  == Append(state, byte)
      known  == {n \in 0 .. Len(bytes) : n = 0 \/ IsBeginning(words, EndOf(bytes, n))}
  IN  EndOf(bytes, CHOOSE n \in known : \A m \in known : m <= n)

(* the tokens that ac_iter_next_match yields in this state *)
Outputs(words, state) ==
  {id \in DOMAIN words : Len(words[id]) <= Len(state) /\ words[id] = EndOf(state, Len(words[id]))}

(* the one that comes first *)
FirstOutput(words, outputs) ==
  CHOOSE id \in outputs : \A other \in outputs : Len(words[other]) <= Len(words[id])
=============================================================================
