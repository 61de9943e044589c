-------------------------- MODULE IntervalEncoding --------------------------
(***************************************************************************)
(* src/interval_encoding.c: the token count of any interval of a text,     *)
(* from a tree that is built once.                                         *)
(*                                                                         *)
(* The tree has a node for every prefix of the text; the parent of a       *)
(* prefix is the prefix without the last token of its encoding, so the     *)
(* path from a node to the root is the encoding of that prefix.  tree_id   *)
(* numbers the nodes in preorder and [tree_id, tree_end) are the numbers   *)
(* of a subtree.  A count runs its own backtracking encoder (MiniEnc, a    *)
(* copy of BtEnc, hence an instance of BacktrackEncoder) on the interval,  *)
(* until the tokens it has found meet the path of the interval's end.      *)
(***************************************************************************)
EXTENDS Automaton

CONSTANTS
  Vocabularies,  \* the dictionaries a behaviour may use
  Texts,         \* the texts callers pass
  WordBits       \* bits of a bit-field word: 64

(***************************************************************************)
(* The dictionaries come from byte pair encoding: ids count from 0, every  *)
(* byte of a token is a token, and every longer token is a merge.          *)
(***************************************************************************)
ASSUME DictionaryAssumption ==
  \A vocab \in Vocabularies :
    /\ \E n \in 0 .. UINT32_MAX : DOMAIN vocab = 0 .. n - 1
    /\ \A t \in DOMAIN vocab :
         /\ vocab[t] \in Seq({vocab[t][k] : k \in 1 .. Len(vocab[t])})
         /\ Len(vocab[t]) > 0
         /\ Complete(vocab, vocab[t])
    /\ Mergeable(vocab)

ASSUME TextsAssumption ==
  \A t \in Texts :
    /\ t \in Seq({t[k] : k \in 1 .. Len(t)})
    /\ \A vocab \in Vocabularies : Complete(vocab, t)

ASSUME WordBitsAssumption == WordBits \in Nat \ {0}

VARIABLES
  bpe,         \* the dictionary
  pc,          \* "new", "size", "place", "ready"; in a count "loop" or "step"
  ie,          \* text, last_token, tree_id, tree_end, tree_depth of the object
  tree_size,   \* nodes of each subtree, while it is being built
  id,          \* the loop variable of the two building loops
  start, end,  \* the interval of the count
  result,      \* what the count returned
  text, tokens, pos, next_token, token, bitfield, nwords, ends   \* MiniEnc

mini == <<text, tokens, pos, next_token, token, bitfield, nwords, ends>>
vars == <<bpe, pc, ie, tree_size, id, start, end, result, mini>>

NoToken == UINT32_MAX

Mini == INSTANCE BacktrackEncoder
          WITH Limits <- {0}, Ops <- {"encode"}, MaxCalls <- 0, LimitSlack <- 0,
               SIZE_MAX <- 0,
               op <- "encode", limit <- 0, scratch <- 0, result <- 0, calls <- 0

(***************************************************************************)
(* bpe_encode_all_prefixes: for each prefix, the longest token at its end  *)
(* that may follow the encoding of what is before it.                      *)
(***************************************************************************)
EncodeAllPrefixes(t) ==
  LET words == ForwardWords(bpe)
      state[n \in 0 .. Len(t)] ==
        IF n = 0 THEN StartState ELSE Advance(words, state[n - 1], t[n])
      last[n \in 1 .. Len(t)] ==
        LET Before(tok) == n - TokenLen(bpe, tok)
        IN  FirstOutput(words, {tok \in Outputs(words, state[n]) :
              Before(tok) = 0 \/ ValidPair(bpe, last[Before(tok)], tok)})
  IN  [n \in 1 .. Len(t) |-> last[n]]

Parent(n) == n - TokenLen(bpe, ie.last_token[n])

Init ==
  /\ bpe \in {FromDictionary(vocab) : vocab \in Vocabularies}
  /\ pc = "new"
  /\ ie = [text |-> <<>>, last_token |-> <<>>, tree_id |-> <<>>,
           tree_end |-> <<>>, tree_depth |-> <<>>]
  /\ tree_size = <<>>
  /\ id = 0
  /\ start = 0 /\ end = 0
  /\ result = 0
  /\ text = <<>> /\ tokens = <<>> /\ pos = 0
  /\ next_token = NoToken /\ token = NoToken
  /\ bitfield = {} /\ nwords = 0 /\ ends = <<0>>

-----------------------------------------------------------------------------
(* interval_encoding_new *)

New(t) ==
  /\ pc = "new"
  /\ pc' = "size"
  /\ LET prefixes == 0 .. Len(t)
     IN  /\ ie' = [text       |-> t,
                   last_token |-> EncodeAllPrefixes(t),
                   tree_id    |-> [p \in prefixes |-> 0],
                   tree_end   |-> [p \in prefixes |-> IF p = 0 THEN 1 ELSE 0],
                   tree_depth |-> [p \in prefixes |-> 0]]
         /\ tree_size' = [p \in prefixes |-> 1]
  /\ id' = Len(t)
  /\ UNCHANGED <<bpe, start, end, result, mini>>

(* the subtrees, from the longest prefix to the shortest *)
SizeUp ==
  /\ pc = "size"
  /\ id > 0
  /\ tree_size' = [tree_size EXCEPT ![Parent(id)] = @ + tree_size[id]]
  /\ id' = id - 1
  /\ UNCHANGED <<bpe, pc, ie, start, end, result, mini>>

StartPlacing ==
  /\ pc = "size"
  /\ id = 0
  /\ pc' = "place"
  /\ id' = 1
  /\ UNCHANGED <<bpe, ie, tree_size, start, end, result, mini>>

(* room for the node, but not for its subtree *)
Placed_NoRoom(tree, n) ==
  LET parent == Parent(n)
  IN  [tree EXCEPT !.tree_id[n]    = tree.tree_end[parent],
                   !.tree_end      = [tree.tree_end EXCEPT ![n]      = tree.tree_end[parent] + 1,
                                                           ![parent] = @ + 1],
                   !.tree_depth[n] = tree.tree_depth[parent] + 1]

(* a node takes the next free numbers of its parent's interval *)
Placed(tree, n) ==
  LET parent == Parent(n)
  IN  [tree EXCEPT !.tree_id[n]    = tree.tree_end[parent],
                   !.tree_end      = [tree.tree_end EXCEPT ![n]      = tree.tree_end[parent] + 1,
                                                           ![parent] = @ + tree_size[n]],
                   !.tree_depth[n] = tree.tree_depth[parent] + 1]

Place ==
  /\ pc = "place"
  /\ id <= Len(ie.text)
  /\ ie' = Placed(ie, id)
  /\ id' = id + 1
  /\ UNCHANGED <<bpe, pc, tree_size, start, end, result, mini>>

Ready ==
  /\ pc = "place"
  /\ id > Len(ie.text)
  /\ pc' = "ready"
  /\ UNCHANGED <<bpe, ie, tree_size, id, start, end, result, mini>>

-----------------------------------------------------------------------------
(* interval_encoding_count *)

Slice(s, e) == SubSeq(ie.text, s + 1, e)

(* the words of bf_init: len / 64 + 1 *)
Call(s, e) ==
  /\ pc = "ready"
  /\ pc' = "loop"
  /\ start' = s
  /\ end' = e
  /\ result' = 0
  /\ text' = Slice(s, e)
  /\ tokens' = <<>>
  /\ pos' = 0
  /\ next_token' = NextMatch(bpe.vocab, text', 0, Len(text'))
  /\ token' = NoToken
  /\ nwords' = (e - s) \div WordBits + 1
  /\ bitfield' = 0 .. nwords' * WordBits - 1
  /\ ends' = <<0>>
  /\ UNCHANGED <<bpe, ie, tree_size, id>>

(* the text positions of the encoder's end and of the end of its next token *)
EndAbs  == pos + start
NextEnd == EndAbs + TokenLen(bpe, next_token)

(* the tokens are not compared *)
Met_TreeOnly ==
  /\ tokens # <<>>
  /\ next_token # NoToken
  /\ ie.tree_id[EndAbs] <= ie.tree_id[end]
  /\ ie.tree_id[end] < ie.tree_end[EndAbs]

(***************************************************************************)
(* The encoder has met the path: its position is on the path of the        *)
(* interval's end, with the same token before it, and its next token also  *)
(* is the last one of a prefix.                                            *)
(***************************************************************************)
Met ==
  /\ tokens # <<>>
  /\ next_token # NoToken
  /\ ie.tree_id[EndAbs] <= ie.tree_id[end]
  /\ ie.tree_id[end] < ie.tree_end[EndAbs]
  /\ ie.last_token[EndAbs] = tokens[Len(tokens)]
  /\ ie.last_token[NextEnd] = next_token

EarlyExit ==
  /\ pc = "loop"
  /\ Met
  /\ pc' = "ready"
  /\ result' = Len(tokens) + (ie.tree_depth[end] - ie.tree_depth[EndAbs])
  /\ UNCHANGED <<bpe, ie, tree_size, id, start, end, mini>>

(* mini_step *)
MiniStep ==
  /\ \/ ~Met /\ Mini!BeginStep
     \/ Mini!Accept
     \/ Mini!TryShorter
     \/ Mini!Backtrack
  /\ UNCHANGED <<ie, tree_size, id, start, end, result>>

(* The breaks of lines 173-176 are left out: CountExact shows that they are *)
(* never taken.                                                             *)
Return ==
  /\ pc = "loop"
  /\ next_token = NoToken
  /\ pc' = "ready"
  /\ result' = Len(tokens)
  /\ UNCHANGED <<bpe, ie, tree_size, id, start, end, mini>>

Next ==
  \/ \E t \in Texts : New(t)
  \/ SizeUp \/ StartPlacing \/ Place \/ Ready
  \/ \E s, e \in 0 .. Len(ie.text) : s <= e /\ Call(s, e)
  \/ EarlyExit \/ MiniStep \/ Return

Spec == Init /\ [][Next]_vars

-----------------------------------------------------------------------------
Prefix(p) == SubSeq(ie.text, 1, p)

(* where the tokens of an encoding end *)
Boundaries(encoding) ==
  LET at[n \in 0 .. Len(encoding)] ==
        IF n = 0 THEN 0 ELSE at[n - 1] + TokenLen(bpe, encoding[n])
  IN  {at[n] : n \in 0 .. Len(encoding)}

(***************************************************************************)
(* The finished tree tells of any two prefixes whether the encoding of the *)
(* longer one goes through the end of the shorter one: exactly then its    *)
(* number lies in the interval of the shorter one.  The depth is the       *)
(* number of tokens, and the numbers are 0 .. text_len, each once.         *)
(***************************************************************************)
TreeIntervals ==
  pc = "place" /\ id > Len(ie.text) =>
    /\ {ie.tree_id[p] : p \in 0 .. Len(ie.text)} = 0 .. Len(ie.text)
    /\ \A q \in 0 .. Len(ie.text) :
         LET encoding == ReferenceEncoding(bpe.vocab, Prefix(q))
         IN  /\ ie.tree_depth[q] = Len(encoding)
             /\ \A p \in 0 .. Len(ie.text) :
                  p \in Boundaries(encoding)
                    <=> ie.tree_id[p] <= ie.tree_id[q] /\ ie.tree_id[q] < ie.tree_end[p]

(***************************************************************************)
(* A count is the number of tokens of the interval's own encoding, also    *)
(* when it was taken from the depths of the tree of the whole text.  On    *)
(* the way the encoder stays inside the interval, so the two breaks of the *)
(* loop that guard the arrays of the tree (lines 173-176) cut nothing      *)
(* short.                                                                  *)
(***************************************************************************)
CountExact ==
  /\ pc = "loop" /\ next_token # NoToken => NextEnd <= end
  /\ pc = "ready" => result = Len(ReferenceEncoding(bpe.vocab, SubSeq(ie.text, start + 1, end)))
=============================================================================
