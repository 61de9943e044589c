---------------------------- MODULE MCTextObjects ----------------------------
(***************************************************************************)
(* The objects that count the tokens of a text, for TLC: a caller holds an *)
(* appendable encoder, a prependable encoder or an interval encoding.  The *)
(* two incremental encoders have the same fields and share the variables   *)
(* here; all three share the dictionary.                                   *)
(***************************************************************************)
EXTENDS IntervalEncoding, SmallDictionaries

CONSTANTS
  IntervalVocabularies,  \* Vocabularies of the interval encoding
  Bytes,                 \* the bytes that are pushed
  MaxLen,                \* bound: length of a pushed text
  MaxCalls               \* bound: calls on an incremental encoder

ASSUME BoundsAssumption == MaxLen \in Nat

(* Every byte that is pushed is a token. *)
ASSUME BytesAssumption ==
  \A vocab \in Vocabularies, byte \in Bytes : \E t \in DOMAIN vocab : vocab[t] = <<byte>>

VARIABLES
  object,                \* which object the caller holds
  states, content, calls \* of AppendableEncoder and PrependableEncoder

Appendable  == INSTANCE AppendableEncoder
Prependable == INSTANCE PrependableEncoder

incremental == <<states, content, calls>>
allVars     == <<vars, object, incremental>>

AllInit ==
  /\ Init
  /\ object \in {"appendable", "prependable", "interval"}
  /\ object = "interval" => bpe.vocab \in IntervalVocabularies
  /\ states = <<>>
  /\ content = <<>>
  /\ calls = 0

intervalOnly == <<pc, ie, tree_size, id, start, end, result, mini>>

AllNext ==
  \/ /\ object = "appendable"
     /\ Appendable!Next
     /\ UNCHANGED <<object, intervalOnly>>
  \/ /\ object = "prependable"
     /\ Prependable!Next
     /\ UNCHANGED <<object, intervalOnly>>
  \/ /\ object = "interval"
     /\ Next
     /\ UNCHANGED <<object, incremental>>

AllSpec == AllInit /\ [][AllNext]_allVars

IntervalTexts == {t \in [1 .. 6 -> {"a", "b"}] : t[1] = "a"}

(***************************************************************************)
(* Dictionaries with which an interval and the whole text disagree about   *)
(* the boundaries for long: three merges, the last one of three bytes or   *)
(* more.  The two bytes may be exchanged, so the first merge starts with a.*)
(***************************************************************************)
LongTokenVocabularies ==
  {Vocabulary(w) : w \in {d \in Dictionaries3 : Len(d[5]) >= 3 /\ d[3][1] = "a"}}

(***************************************************************************)
(* However the text of an incremental encoder came about, state n tells    *)
(* the number of tokens and the outermost token of the reference encoding  *)
(* of the n bytes pushed first.                                            *)
(***************************************************************************)
CountsExact ==
  /\ object = "appendable" => Appendable!CountsExact
  /\ object = "prependable" => Prependable!CountsExact

(***************************************************************************)
(* After any pushes, extensions and cuts an incremental encoder is the one *)
(* that a new encoder would be, given the same text.                       *)
(***************************************************************************)
NoTraceOfTheCut ==
  /\ object = "appendable" => Appendable!NoTraceOfTheCut
  /\ object = "prependable" => Prependable!NoTraceOfTheCut
=============================================================================
