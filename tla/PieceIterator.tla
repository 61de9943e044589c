---------------------------- MODULE PieceIterator ----------------------------
(***************************************************************************)
(* pretok_iter_next of src/tokenizer.c: the pieces of a text, one a step.  *)
(***************************************************************************)
EXTENDS Pretokenizers

CONSTANTS
  Splitters,  \* the native splitters a behaviour may use
  Texts       \* the texts callers pass

(* valid UTF-8: utf8_decode finds a code point at every offset *)
ASSUME TextsAssumption == \A t \in Texts : t \in Seq(Chars)

VARIABLES
  fn,      \* the splitter
  text,
  offset,  \* where the next piece starts
  piece,   \* out_start and out_end of the last call
  ended    \* pretok_iter_next returned false

iter == <<fn, text, offset, piece, ended>>

(* a lookahead match gives its last character back *)
PieceEnd(match) == match.end - (IF match.lookahead THEN 1 ELSE 0)

InitIter ==
  /\ fn \in Splitters
  /\ text \in Texts
  /\ offset = 0
  /\ piece = <<0, 0>>
  /\ ended = FALSE

NextEnd == PieceEnd(Native(fn, text, offset))

(* a splitter that matches nothing ends the iteration like the text's end *)
NoMore == offset >= Len(text) \/ Native(fn, text, offset).end = offset

Piece ==
  /\ ~ended
  /\ ~NoMore
  /\ offset' = NextEnd
  /\ piece' = <<offset, NextEnd>>
  /\ UNCHANGED <<fn, text, ended>>

End ==
  /\ ~ended
  /\ NoMore
  /\ ended' = TRUE
  /\ UNCHANGED <<fn, text, offset, piece>>

NextIter == Piece \/ End

SpecIter == InitIter /\ [][NextIter]_iter

-----------------------------------------------------------------------------
(***************************************************************************)
(* The splitter finds at each offset the iteration reaches what the        *)
(* pattern in its header comment matches there.                            *)
(***************************************************************************)
SplitsAsDocumented ==
  offset < Len(text) => Native(fn, text, offset) = Documented(fn, text, offset)

(***************************************************************************)
(* No piece is empty and the iteration ends only at the end of the text:   *)
(* its caller cannot tell a splitter that gave up in the middle of a text, *)
(* the rest of which would get no tokens, from one that reached its end.   *)
(***************************************************************************)
PiecesCoverText ==
  /\ offset > 0 => piece[1] < piece[2]
  /\ ended => offset = Len(text)
=============================================================================
