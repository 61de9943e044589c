-------------------------- MODULE AppendableEncoder --------------------------
(***************************************************************************)
(* src/appendable_encoder.c: the token count of a text that grows at its   *)
(* end and may be cut back.  There is one state per byte: the state of the *)
(* automaton, the last token of the encoding of the bytes so far and the   *)
(* number of its tokens.                                                   *)
(***************************************************************************)
EXTENDS Automaton

CONSTANTS
  Vocabularies,  \* the dictionaries a behaviour may use
  Bytes,         \* the bytes that are pushed
  MaxLen,        \* bound: length of the text
  MaxCalls       \* bound: calls in one behaviour

VARIABLES
  bpe,      \* the dictionary
  states,   \* enc->states[0 .. nstates)
  content,  \* history: the text; no action reads it
  calls     \* calls made so far; only the bound MaxCalls reads it

vars == <<bpe, states, content, calls>>

NoToken == UINT32_MAX

Init ==
  /\ bpe \in {FromDictionary(vocab) : vocab \in Vocabularies}
  /\ states = <<>>
  /\ content = <<>>
  /\ calls = 0

(* s[start] is the state of the text before the token *)
CountAfter(s, start) == IF start = 0 THEN 1 ELSE s[start].count + 1

Follows(s, start, token) == start = 0 \/ ValidPair(bpe, s[start].last_token, token)

(***************************************************************************)
(* appendable_encoder_push: of the tokens that end with the new byte, the  *)
(* first one that may follow the encoding of the text before it.           *)
(***************************************************************************)
NewState(s, byte) ==
  LET words      == ForwardWords(bpe)
      before     == IF s = <<>> THEN StartState ELSE s[Len(s)].ac_state
      state      == Advance(words, before, byte)
      Start(id)  == Len(s) + 1 - TokenLen(bpe, id)
      candidates == {id \in Outputs(words, state) : Follows(s, Start(id), id)}
      token      == FirstOutput(words, candidates)
  IN  [ac_state   |-> state,
       last_token |-> IF candidates = {} THEN NoToken ELSE token,
       count      |-> IF candidates = {} THEN 0 ELSE CountAfter(s, Start(token))]

Pushed(s, byte) == Append(s, NewState(s, byte))

Push(byte) ==
  /\ calls < MaxCalls
  /\ Len(states) < MaxLen
  /\ calls' = calls + 1
  /\ states' = Pushed(states, byte)
  /\ content' = Append(content, byte)
  /\ UNCHANGED bpe

(* appendable_encoder_extend: one push per byte *)
Extend(word) ==
  LET after[n \in 0 .. Len(word)] == IF n = 0 THEN states ELSE Pushed(after[n - 1], word[n])
  IN  /\ calls < MaxCalls
      /\ Len(states) + Len(word) <= MaxLen
      /\ calls' = calls + 1
      /\ states' = after[Len(word)]
      /\ content' = content \o word
      /\ UNCHANGED bpe

(* a byte too many is kept *)
Kept_OneMore(s, len) == IF len < Len(s) THEN SubSeq(s, 1, len + 1) ELSE s

Kept(s, len) == IF len < Len(s) THEN SubSeq(s, 1, len) ELSE s

(* appendable_encoder_truncate *)
Truncate(len) ==
  /\ calls < MaxCalls
  /\ calls' = calls + 1
  /\ states' = Kept(states, len)
  /\ content' = IF len < Len(content) THEN SubSeq(content, 1, len) ELSE content
  /\ UNCHANGED bpe

Words == UNION {[1 .. n -> Bytes] : n \in 2 .. MaxLen}

Next ==
  \/ \E byte \in Bytes : Push(byte)
  \/ \E word \in Words : Extend(word)
  \/ \E len \in 0 .. MaxLen : Truncate(len)

Spec == Init /\ [][Next]_vars

TokenCount == IF states = <<>> THEN 0 ELSE states[Len(states)].count

-----------------------------------------------------------------------------
(***************************************************************************)
(* However the text came about, each state describes the reference         *)
(* encoding of the text up to its byte.                                    *)
(***************************************************************************)
CountsExact ==
  /\ \A n \in 1 .. Len(states) :
       LET encoding == ReferenceEncoding(bpe.vocab, SubSeq(content, 1, n))
       IN  /\ states[n].count = Len(encoding)
           /\ states[n].last_token = encoding[Len(encoding)]
  /\ TokenCount = Len(ReferenceEncoding(bpe.vocab, content))

(***************************************************************************)
(* Cutting back leaves no trace: each state is the one that a push onto    *)
(* the states before it computes, so after any calls the encoder is the    *)
(* one that a new encoder would be, given the same text.                   *)
(***************************************************************************)
NoTraceOfTheCut ==
  /\ Len(states) = Len(content)
  /\ \A n \in 1 .. Len(states) : states[n] = NewState(SubSeq(states, 1, n - 1), content[n])
=============================================================================
