-------------------------- MODULE BacktrackEncoder --------------------------
(***************************************************************************)
(* The BacktrackEncoder of src/bpe_core.c (BtEnc) and the operations that  *)
(* drive it: bpe_encode_via_backtracking, bpe_count, bpe_count_till_limit  *)
(* and, with buffers kept from call to call, bpe_encode_piece and          *)
(* bpe_count_piece.                                                        *)
(*                                                                         *)
(* One behaviour is a caller's sequence of calls on one dictionary.  Each  *)
(* iteration of the loop of btenc_step is an action: a candidate token is  *)
(* accepted, replaced by its longest prefix, or, when it has none, the     *)
(* last accepted token is taken back.                                      *)
(*                                                                         *)
(* malloc'd sizes of the token buffer are not modelled; the bit field is,  *)
(* in words of WordBits bits, because a scratch buffer keeps old bits.     *)
(***************************************************************************)
EXTENDS BytePairEncoding

CONSTANTS
  Vocabularies,  \* the dictionaries a behaviour may use
  Texts,         \* the texts callers pass
  Limits,        \* the token_limit values callers pass
  Ops,           \* the operations callers use
  MaxCalls,      \* bound: calls in one behaviour
  LimitSlack,    \* what bpe_count_till_limit adds to its limit: 10
  SIZE_MAX,      \* the largest size_t
  WordBits       \* bits of a bit-field word: 64

ASSUME ConstantsAssumption ==
  /\ SIZE_MAX \in Nat
  /\ Limits \subseteq 0 .. SIZE_MAX
  /\ LimitSlack \in Nat
  /\ MaxCalls \in Nat
  /\ WordBits \in Nat \ {0}
  /\ Ops \subseteq {"encode", "count", "limit", "piece"}

(***************************************************************************)
(* The vocabularies are the ones the encoder is written for ("complete     *)
(* vocabulary", bpe_core.c:161): ids count from 0 and stay below           *)
(* UINT32_MAX, no token is empty, and every byte of a text or of a token   *)
(* is a token by itself.                                                   *)
(***************************************************************************)
ASSUME VocabularyAssumption ==
  /\ \A text \in Texts : text \in Seq({text[k] : k \in 1 .. Len(text)})
  /\ \A vocab \in Vocabularies :
       /\ \E n \in 0 .. UINT32_MAX : DOMAIN vocab = 0 .. n - 1
       /\ \A id \in DOMAIN vocab :
            /\ vocab[id] \in Seq({vocab[id][k] : k \in 1 .. Len(vocab[id])})
            /\ Len(vocab[id]) > 0
            /\ Complete(vocab, vocab[id])
       /\ \A text \in Texts : Complete(vocab, text)

(***************************************************************************)
(* They come from byte pair encoding: every longer token is a merge.       *)
(***************************************************************************)
ASSUME MergeableAssumption == \A vocab \in Vocabularies : Mergeable(vocab)

VARIABLES
  bpe,         \* the dictionary, from bpe_from_dictionary
  pc,          \* "idle": no call; "loop": before a btenc_step; "step": inside one
  op,          \* the running (or last) operation
  limit,       \* its token_limit
  text,        \* its text
  tokens,      \* e->tokens[0 .. token_count)
  pos,         \* e->pos
  next_token,  \* e->next_token
  token,       \* the candidate of btenc_step's loop
  bitfield,    \* the set bits of e->bitfield
  nwords,      \* its size in words
  scratch,     \* the BpeEncScratch: bits and nwords of its bit field
  result,      \* what the last call returned
  calls,       \* calls made so far; only the bound MaxCalls reads it
  ends         \* history: the text positions where the accepted tokens end,
               \* after an initial 0; no action reads it

vars == <<bpe, pc, op, limit, text, tokens, pos, next_token, token, bitfield,
          nwords, scratch, result, calls, ends>>

NoToken == UINT32_MAX

Last(seq) == IF seq = <<>> THEN NoToken ELSE seq[Len(seq)]
Pop(seq)  == SubSeq(seq, 1, Len(seq) - 1)

Words_RoundedDown(bits) == bits \div WordBits

Words(bits) == (bits + WordBits - 1) \div WordBits

(***************************************************************************)
(* bitfield_new sets every bit of the words it allocates; bitfield_reset   *)
(* grows the scratch field if needed and sets the bits of the words this   *)
(* text needs; words beyond them keep what an earlier, longer text left.   *)
(***************************************************************************)
NewBits(bits) == 0 .. Words(bits) * WordBits - 1

(* words that an earlier text left are not set again *)
ResetBits_OnlyNewWords(old, bits) == {b \in NewBits(bits) : b >= scratch.nwords * WordBits} \cup old

ResetBits(old, bits) == NewBits(bits) \cup {b \in old : b >= Words(bits) * WordBits}

Larger(a, b) == IF a > b THEN a ELSE b

EndPos  == pos + TokenLen(bpe, token)

(* e->next_token = end, the other output of the search *)
NextToken_ReturnsEnd(p) ==
  IF p = Len(text) THEN NoToken
  ELSE p + TokenLen(bpe, NextMatch(bpe.vocab, text, p, Len(text)))

NextToken(p) == NextMatch(bpe.vocab, text, p, Len(text))

-----------------------------------------------------------------------------
Dictionaries == {FromDictionary(vocab) : vocab \in Vocabularies}

Init ==
  /\ bpe \in Dictionaries
  /\ pc = "idle"
  /\ op = "none"
  /\ limit = 0
  /\ text = <<>>
  /\ tokens = <<>>
  /\ pos = 0
  /\ next_token = NoToken
  /\ token = NoToken
  /\ bitfield = {}
  /\ nwords = 0
  /\ scratch = [bits |-> {}, nwords |-> 0]     \* calloc
  /\ result = [tokens |-> <<>>, count |-> 0, exceeded |-> FALSE]
  /\ calls = 0
  /\ ends = <<0>>

(***************************************************************************)
(* A caller starts an operation: btenc_new, or btenc_init_reuse for the    *)
(* piece operations.                                                       *)
(***************************************************************************)
Call(o, t, l) ==
  /\ pc = "idle"
  /\ calls < MaxCalls
  /\ calls' = calls + 1
  /\ pc' = "loop"
  /\ op' = o
  /\ limit' = l
  /\ text' = t
  /\ tokens' = <<>>
  /\ pos' = 0
  /\ next_token' = NextMatch(bpe.vocab, t, 0, Len(t))
  /\ IF o = "piece"
     THEN /\ bitfield' = ResetBits(scratch.bits, Len(t) + 1)
          /\ nwords' = Larger(scratch.nwords, Words(Len(t) + 1))
     ELSE /\ bitfield' = NewBits(Len(t) + 1)
          /\ nwords' = Words(Len(t) + 1)
  /\ ends' = <<0>>
  /\ UNCHANGED <<bpe, token, scratch, result>>

(***************************************************************************)
(* The while loop of the operations: bpe_count_till_limit gives up when a  *)
(* step leaves more than limit_buf tokens and the encoding is not done;    *)
(* otherwise the next step begins.  limit_buf is a size_t: for the largest *)
(* limits the sum starts again from 0.                                     *)
(***************************************************************************)
LimitBuf == (limit + LimitSlack) % (SIZE_MAX + 1)

OverLimit == op = "limit" /\ Len(tokens) > LimitBuf

BeginStep ==
  /\ pc = "loop"
  /\ next_token # NoToken
  /\ ~OverLimit
  /\ pc' = "step"
  /\ token' = next_token
  /\ UNCHANGED <<bpe, op, limit, text, tokens, pos, next_token, bitfield,
                 nwords, scratch, result, calls, ends>>

GiveUp ==
  /\ pc = "loop"
  /\ next_token # NoToken
  /\ OverLimit
  /\ pc' = "idle"
  /\ result' = [tokens |-> <<>>, count |-> 0, exceeded |-> TRUE]
  /\ UNCHANGED <<bpe, op, limit, text, tokens, pos, next_token, token,
                 bitfield, nwords, scratch, calls, ends>>

(***************************************************************************)
(* The loop of btenc_step.                                                 *)
(***************************************************************************)
(* the bit is not looked at *)
Acceptable_IgnoresBit == Last(tokens) # NoToken => ValidPair(bpe, Last(tokens), token)

Acceptable ==
  /\ EndPos \in bitfield
  /\ Last(tokens) # NoToken => ValidPair(bpe, Last(tokens), token)

Accept ==
  /\ pc = "step"
  /\ Acceptable
  /\ tokens' = Append(tokens, token)
  /\ pos' = EndPos
  /\ next_token' = NextToken(EndPos)
  /\ ends' = Append(ends, EndPos)
  /\ token' = NoToken
  /\ pc' = "loop"
  /\ UNCHANGED <<bpe, op, limit, text, bitfield, nwords, scratch, result, calls>>

TryShorter ==
  /\ pc = "step"
  /\ ~Acceptable
  /\ bpe.next_prefix_match[token] # NoToken
  /\ token' = bpe.next_prefix_match[token]
  /\ UNCHANGED <<bpe, pc, op, limit, text, tokens, pos, next_token, bitfield,
                 nwords, scratch, result, calls, ends>>

Retreat_ByCandidate == pos - TokenLen(bpe, token)

Retreat == pos - TokenLen(bpe, Last(tokens))

(* the bit is cleared after e->pos has moved *)
Retired_NewPos == bitfield \ {IF tokens = <<>> THEN pos ELSE Retreat}

Retired == bitfield \ {pos}

Backtrack ==
  /\ pc = "step"
  /\ ~Acceptable
  /\ bpe.next_prefix_match[token] = NoToken
  /\ bitfield' = Retired
  /\ IF tokens = <<>>
     THEN /\ next_token' = NoToken
          /\ UNCHANGED <<tokens, pos, ends>>
     ELSE /\ next_token' = Last(tokens)
          /\ tokens' = Pop(tokens)
          /\ pos' = Retreat
          /\ ends' = Pop(ends)
  /\ token' = NoToken
  /\ pc' = "loop"
  /\ UNCHANGED <<bpe, op, limit, text, nwords, scratch, result, calls>>

(***************************************************************************)
(* next_token = UINT32_MAX ends the loop; the operation returns the tokens *)
(* or their number, and btenc_sync_scratch hands the bit field back.       *)
(***************************************************************************)
Return ==
  /\ pc = "loop"
  /\ next_token = NoToken
  /\ pc' = "idle"
  /\ result' = [tokens   |-> IF op \in {"encode", "piece"} THEN tokens ELSE <<>>,
                count    |-> Len(tokens),
                exceeded |-> op = "limit" /\ Len(tokens) > limit]
  /\ scratch' = IF op = "piece" THEN [bits |-> bitfield, nwords |-> nwords] ELSE scratch
  /\ UNCHANGED <<bpe, op, limit, text, tokens, pos, next_token, token,
                 bitfield, nwords, calls, ends>>

Step == BeginStep \/ GiveUp \/ Accept \/ TryShorter \/ Backtrack \/ Return

Next ==
  \/ \E o \in Ops, t \in Texts, l \in Limits : (o # "limit" => l = 0) /\ Call(o, t, l)
  \/ Step

Spec == Init /\ [][Next]_vars

(* The caller may stop calling; a running call is an uninterrupted loop.   *)
FairSpec == Spec /\ WF_vars(Step)
-----------------------------------------------------------------------------
(***************************************************************************)
(* The type invariant.                                                     *)
(***************************************************************************)
TypeOK ==
  /\ bpe.next_prefix_match \in [DOMAIN bpe.vocab -> DOMAIN bpe.vocab \cup {NoToken}]
  /\ pc \in {"idle", "loop", "step"}
  /\ op \in Ops \cup {"none"}
  /\ limit \in Nat
  /\ text \in Texts \cup {<<>>}
  /\ tokens \in Seq(DOMAIN bpe.vocab)
  /\ pos \in Nat
  /\ next_token \in DOMAIN bpe.vocab \cup {NoToken}
  /\ token \in DOMAIN bpe.vocab \cup {NoToken}
  /\ bitfield \subseteq Nat
  /\ nwords \in Nat
  /\ scratch.bits \subseteq Nat /\ scratch.nwords \in Nat
  /\ result.tokens \in Seq(DOMAIN bpe.vocab) /\ result.count \in Nat
  /\ result.exceeded \in BOOLEAN
  /\ calls \in Nat
  /\ ends \in Seq(Nat)

(***************************************************************************)
(* No read past the end of the text and no access past the end of the bit  *)
(* field: the candidate that btenc_step tests ends inside the text, its    *)
(* bit (bitfield_is_set at line 418) and the bit of pos (line 437) lie in  *)
(* an allocated word.                                                      *)
(***************************************************************************)
InBounds ==
  pc = "step" =>
    /\ EndPos <= Len(text)
    /\ Len(text) < nwords * WordBits

(***************************************************************************)
(* The token stack always is a segmentation of the text before pos: the    *)
(* tokens lie end to end from 0 to pos, each one is what the text has      *)
(* there, neighbours are valid pairs, and no boundary the stack uses has   *)
(* been ruled out.  In particular the subtraction at line 444 returns to   *)
(* the position at which the popped token was accepted, and the loop ends  *)
(* at the end of the text or with nothing accepted at all.                 *)
(***************************************************************************)
Segmentation ==
  /\ Len(ends) = Len(tokens) + 1
  /\ ends[1] = 0
  /\ ends[Len(ends)] = pos
  /\ \A i \in 1 .. Len(tokens) :
       /\ ends[i + 1] = ends[i] + TokenLen(bpe, tokens[i])
       /\ OccursAt(bpe.vocab[tokens[i]], text, ends[i], Len(text))
       /\ i > 1 => ValidPair(bpe, tokens[i - 1], tokens[i])
       /\ pc \in {"loop", "step"} => ends[i + 1] \in bitfield
  /\ next_token = NoToken => pos = Len(text) \/ tokens = <<>>

(***************************************************************************)
(* Every backtrack rules out a boundary that no earlier backtrack of the   *)
(* call ruled out: the bit it clears was set.  A call therefore backtracks *)
(* at most once per text position, which is what makes it linear.          *)
(***************************************************************************)
BacktrackRetires ==
  [][pc = "step" /\ next_token' # NoToken /\ Len(tokens') < Len(tokens)
       => pos \in bitfield /\ bitfield' = bitfield \ {pos} /\ pos' < pos]_vars

(***************************************************************************)
(* At every moment the token stack is the reference encoding of the text   *)
(* before pos: pairwise validity is enough for exactness.                  *)
(***************************************************************************)
StackIsEncoding ==
  tokens = ReferenceEncoding(bpe.vocab, SubSeq(text, 1, pos))

(***************************************************************************)
(* A boundary that was ruled out is not one of the reference encoding, so  *)
(* the encoder never throws away the answer.                               *)
(***************************************************************************)
Boundaries(encoding) ==
  LET end[n \in 0 .. Len(encoding)] ==
        IF n = 0 THEN 0 ELSE end[n - 1] + TokenLen(bpe, encoding[n])
  IN  {end[n] : n \in 0 .. Len(encoding)}

AnswerSurvives ==
  pc \in {"loop", "step"} =>
    Boundaries(ReferenceEncoding(bpe.vocab, text)) \subseteq bitfield

Answer == ReferenceEncoding(bpe.vocab, text)

(***************************************************************************)
(* What a finished call returned is the reference encoding of its text or  *)
(* its length, whatever the scratch buffer held before.  A limited count   *)
(* that is returned is exact and within the limit.  If SIZE_MAX is         *)
(* returned, the count exceeds the limit or, as the early exit counts      *)
(* tokens that backtracking would take back, some beginning of the text    *)
(* has more than limit_buf tokens.  (This is weaker than what the header   *)
(* says of the limit, and says little where limit_buf is small because the *)
(* sum has wrapped around.)                                                *)
(***************************************************************************)
TokensOfBeginning(n) == Len(ReferenceEncoding(bpe.vocab, SubSeq(text, 1, n)))

ResultExact ==
  pc = "idle" =>
    /\ op \in {"encode", "piece"} => result.tokens = Answer
    /\ ~result.exceeded => result.count = Len(Answer)
    /\ op = "limit" /\ ~result.exceeded => Len(Answer) <= limit
    /\ result.exceeded =>
         \/ Len(Answer) > limit
         \/ \E n \in 0 .. Len(text) : TokensOfBeginning(n) > LimitBuf

(***************************************************************************)
(* Every call returns, although a step may undo the one before it.         *)
(***************************************************************************)
Returns == pc # "idle" ~> pc = "idle"
=============================================================================
