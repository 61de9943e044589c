--------------------------- MODULE MCOtherEncoders ---------------------------
(***************************************************************************)
(* The encoders of src/bpe_core.c beside the backtracking one, for TLC: a  *)
(* caller uses one of the four on one text.  TableEncoders and             *)
(* BitfieldEncoder share the variables of EncoderCall.                     *)
(***************************************************************************)
EXTENDS TableEncoders, BitfieldEncoder, SmallDictionaries

bitfieldOnly == <<heap, bits, count>>
tablesOnly   == <<table, state, pos, i, j>>

AllInit == Init /\ heap = <<>> /\ bits = {} /\ count = 0

AllNext ==
  \/ Next /\ UNCHANGED bitfieldOnly
  \/ \E t \in Texts : CallBitfield(t) /\ algo' = "bitfield" /\ UNCHANGED tablesOnly
  \/ Discard /\ UNCHANGED <<algo, tablesOnly>>
  \/ Merge /\ UNCHANGED <<algo, tablesOnly>>
  \/ Collect /\ UNCHANGED <<algo, tablesOnly>>

AllSpec == AllInit /\ [][AllNext]_<<vars, bitfieldOnly>>

ShortTexts == TextsUpTo(5)
LongTexts  == TextsUpTo(6)

(***************************************************************************)
(* include/bpe.h: "Encode via bitfield (priority-heap BPE, also exact)".   *)
(***************************************************************************)
BitfieldExact ==
  algo = "bitfield" /\ pc = "done" => result = ReferenceEncoding(bpe.vocab, text)
=============================================================================
