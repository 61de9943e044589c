------------------------- MODULE PrependableEncoder -------------------------
(***************************************************************************)
(* src/prependable_encoder.c: the token count of a text that grows at its  *)
(* front and may be cut back there.  The bytes are read backwards by the   *)
(* reverse automaton; state number n is about the last n bytes of the      *)
(* text and holds the first token of their encoding (prev_token).          *)
(***************************************************************************)
EXTENDS Automaton

CONSTANTS
  Vocabularies,  \* the dictionaries a behaviour may use
  Bytes,         \* the bytes that are pushed
  MaxLen,        \* bound: length of the text
  MaxCalls       \* bound: calls in one behaviour

VARIABLES
  bpe,      \* the dictionary
  states,   \* enc->states[0 .. nstates)
  content,  \* history: the text; no action reads it
  calls     \* calls made so far; only the bound MaxCalls reads it

vars == <<bpe, states, content, calls>>

NoToken == UINT32_MAX

Init ==
  /\ bpe \in {FromDictionary(vocab) : vocab \in Vocabularies}
  /\ states = <<>>
  /\ content = <<>>
  /\ calls = 0

(* s[rest] is the state of the text after the token *)
CountBefore(s, rest) == IF rest = 0 THEN 1 ELSE s[rest].count + 1

(* the pair is tested in the order of the appendable encoder *)
Precedes_Swapped(s, rest, token) == rest = 0 \/ ValidPair(bpe, s[rest].prev_token, token)

Precedes(s, rest, token) == rest = 0 \/ ValidPair(bpe, token, s[rest].prev_token)

(***************************************************************************)
(* prependable_encoder_push: of the tokens that begin with the new byte,   *)
(* the first one that may stand before the encoding of the text after it.  *)
(***************************************************************************)
NewState(s, byte) ==
  LET words      == ReverseWords(bpe)
      before     == IF s = <<>> THEN StartState ELSE s[Len(s)].ac_state
      state      == Advance(words, before, byte)
      Rest(id)   == Len(s) + 1 - TokenLen(bpe, id)
      candidates == {id \in Outputs(words, state) : Precedes(s, Rest(id), id)}
      token      == FirstOutput(words, candidates)
  IN  [ac_state   |-> state,
       prev_token |-> IF candidates = {} THEN NoToken ELSE token,
       count      |-> IF candidates = {} THEN 0 ELSE CountBefore(s, Rest(token))]

Pushed(s, byte) == Append(s, NewState(s, byte))

Push(byte) ==
  /\ calls < MaxCalls
  /\ Len(states) < MaxLen
  /\ calls' = calls + 1
  /\ states' = Pushed(states, byte)
  /\ content' = <<byte>> \o content
  /\ UNCHANGED bpe

(* prependable_encoder_extend: one push per byte of the array, in its order *)
Extend(word) ==
  LET after[n \in 0 .. Len(word)] == IF n = 0 THEN states ELSE Pushed(after[n - 1], word[n])
  IN  /\ calls < MaxCalls
      /\ Len(states) + Len(word) <= MaxLen
      /\ calls' = calls + 1
      /\ states' = after[Len(word)]
      /\ content' = Backwards(word) \o content
      /\ UNCHANGED bpe

Kept(s, len) == IF len < Len(s) THEN SubSeq(s, 1, len) ELSE s

(* prependable_encoder_truncate: the last len bytes stay *)
Truncate(len) ==
  /\ calls < MaxCalls
  /\ calls' = calls + 1
  /\ states' = Kept(states, len)
  /\ content' = IF len < Len(content) THEN EndOf(content, len) ELSE content
  /\ UNCHANGED bpe

Words == UNION {[1 .. n -> Bytes] : n \in 2 .. MaxLen}

Next ==
  \/ \E byte \in Bytes : Push(byte)
  \/ \E word \in Words : Extend(word)
  \/ \E len \in 0 .. MaxLen : Truncate(len)

Spec == Init /\ [][Next]_vars

TokenCount == IF states = <<>> THEN 0 ELSE states[Len(states)].count

-----------------------------------------------------------------------------
(***************************************************************************)
(* However the text came about, state n describes the reference encoding   *)
(* of its last n bytes.                                                    *)
(***************************************************************************)
CountsExact ==
  /\ \A n \in 1 .. Len(states) :
       LET encoding == ReferenceEncoding(bpe.vocab, EndOf(content, n))
       IN  /\ states[n].count = Len(encoding)
           /\ states[n].prev_token = encoding[1]
  /\ TokenCount = Len(ReferenceEncoding(bpe.vocab, content))

(***************************************************************************)
(* Cutting back leaves no trace: each state is the one that a push onto    *)
(* the states before it computes.                                          *)
(***************************************************************************)
NoTraceOfTheCut ==
  /\ Len(states) = Len(content)
  /\ \A n \in 1 .. Len(states) :
       states[n] = NewState(SubSeq(states, 1, n - 1), content[Len(content) + 1 - n])
=============================================================================
