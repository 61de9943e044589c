----------------------------- MODULE EncoderCall -----------------------------
(***************************************************************************)
(* A call of an encoder of src/bpe_core.c: what it is given, how far it    *)
(* is, and the tokens it returns.                                          *)
(***************************************************************************)
EXTENDS BytePairEncoding

CONSTANTS
  Vocabularies,  \* the dictionaries a behaviour may use
  Texts          \* the texts callers pass

VARIABLES
  bpe,     \* the dictionary
  pc,      \* "idle", "done", or where the encoder is
  text,    \* the text
  result   \* the token array

(***************************************************************************)
(* No token is empty, UINT32_MAX is none, and every byte of a text is one. *)
(***************************************************************************)
ASSUME VocabularyAssumption ==
  /\ \A t \in Texts : t \in Seq({t[k] : k \in 1 .. Len(t)})
  /\ \A vocab \in Vocabularies :
       /\ DOMAIN vocab \subseteq Nat \ {UINT32_MAX}
       /\ \A id \in DOMAIN vocab :
            /\ vocab[id] \in Seq({vocab[id][k] : k \in 1 .. Len(vocab[id])})
            /\ Len(vocab[id]) > 0
       /\ \A t \in Texts : Complete(vocab, t)

(***************************************************************************)
(* They come from byte pair encoding: ids count from 0, every byte of a    *)
(* token is a token, and every longer token is a merge.                    *)
(***************************************************************************)
ASSUME MergeableAssumption ==
  \A vocab \in Vocabularies :
    /\ \E n \in 0 .. UINT32_MAX : DOMAIN vocab = 0 .. n - 1
    /\ \A id \in DOMAIN vocab : Complete(vocab, vocab[id])
    /\ Mergeable(vocab)
=============================================================================
