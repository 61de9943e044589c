------------------------- MODULE MCBacktrackEncoder -------------------------
(***************************************************************************)
(* Instances of BacktrackEncoder for TLC.                                  *)
(***************************************************************************)
EXTENDS BacktrackEncoder, SmallDictionaries

SmallTexts == TextsUpTo(5)
=============================================================================
