----------------------------- MODULE MCTokenizer -----------------------------
(***************************************************************************)
(* A text's way to its tokens, for TLC: it is cut into pieces (part        *)
(* "split", with many texts), the pieces are encoded with a scratch buffer *)
(* that is used again and again (part "scratch", with the encoder step by  *)
(* step), and both together are the calls of the tokenizer (part "call").  *)
(* A behaviour is about one part.                                          *)
(***************************************************************************)
EXTENDS Tokenizer, SmallDictionaries

CONSTANTS
  Parts,       \* "split", "scratch", "call"
  SplitTexts,  \* the texts of part "split"
  Ops,         \* the operations of part "scratch"
  WordBits     \* of BacktrackEncoder

VARIABLES
  part,
  bpe, pc, tokens, pos, next_token, token, bitfield, nwords, scratch, ends,
  scratch_text, scratch_op, scratch_limit, scratch_result, scratch_calls

Splits == INSTANCE PieceIterator WITH Texts <- SplitTexts

(***************************************************************************)
(* A dictionary that makes the encoder go back from the end of a text to   *)
(* its start: letters 1 .. n, every pair of neighbours, the pairs further  *)
(* right with the lower ranks, and quadruples 2 3 4 5, 6 7 8 9, ...        *)
(* The longest match pairs the letters from the left; if their number is   *)
(* odd, the exact encoding pairs them from the right.                      *)
(***************************************************************************)
DominoWords(n) ==
  [i \in 1 .. n |-> <<i>>]
  \o [i \in 1 .. n - 1 |-> <<n - i, n - i + 1>>]
  \o [i \in 1 .. (n - 1) \div 4 |-> <<4 * i - 2, 4 * i - 1, 4 * i, 4 * i + 1>>]

(* the runs of neighbouring letters *)
Windows(n) ==
  {<<>>} \cup {[k \in 1 .. last - first + 1 |-> first + k - 1] : first, last \in 1 .. n}

Domino5 == {Vocabulary(DominoWords(5))}
Windows5 == Windows(5)

Scratch == INSTANCE BacktrackEncoder WITH
  Vocabularies <- Domino5, Texts <- Windows5, MaxCalls <- 3,
  text <- scratch_text, op <- scratch_op, limit <- scratch_limit,
  result <- scratch_result, calls <- scratch_calls

scratchVars == <<bpe, pc, scratch_op, scratch_limit, scratch_text, tokens, pos, next_token,
                 token, bitfield, nwords, scratch, scratch_result, scratch_calls, ends>>

NoCall ==
  /\ vocab = <<>> /\ buf = <<>>
  /\ op = "count" /\ running = FALSE /\ limit = 0
  /\ count = 0 /\ result = 0 /\ calls = 0

NoText == fn = "none" /\ text = <<>> /\ offset = 0 /\ piece = <<0, 0>> /\ ended = FALSE

AllInit ==
  /\ part \in Parts
  /\ \/ part = "call" /\ Init
     \/ part = "split" /\ Splits!InitIter /\ NoCall
     \/ part = "scratch" /\ NoText /\ NoCall
  /\ Scratch!Init

AllNext ==
  \/ part = "call" /\ Next /\ UNCHANGED <<part, scratchVars>>
  \/ part = "split" /\ NextIter /\ UNCHANGED <<part, vocab, call, scratchVars>>
  \/ part = "scratch" /\ Scratch!Next /\ UNCHANGED <<part, vars>>

AllSpec ==
  /\ AllInit /\ [][AllNext]_<<part, vars, scratchVars>>
  /\ WF_iter(running /\ NextIter)

-----------------------------------------------------------------------------
(* Texts and vocabularies of part "call" *)

(* runs of blanks before, between and after words; three pieces and more *)
TokenizerTexts ==
  (UNION {[1 .. k -> {"x", " "}] : k \in 0 .. 3})
  \cup {<<"x", " ", " ", "x", "x">>, <<"x", "1", "1", "1", "1">>, <<" ", " ", " ", "1">>}

(* merges inside a piece and, in the second, one that no piece allows *)
TokenizerVocabularies ==
  {Vocabulary(<<<<"x">>, <<" ">>, <<"1">>>> \o merges) : merges \in
     {<<<<"x", "x">>, <<" ", "x">>, <<" ", " ">>>>,
      <<<<"x", " ">>, <<"1", "1">>, <<" ", "x">>, <<" ", "x", "x">>>>}}

-----------------------------------------------------------------------------
(* Texts of part "split" *)

TextsOver(chars, n) == UNION {[1 .. k -> chars] : k \in 0 .. n}

(* a newline, a blank and a newline again: the pattern matches all of it *)
HasBlankLine(t) ==
  \E i, j \in 1 .. Len(t) :
    /\ i + 1 < j
    /\ t[i] = "n" /\ t[j] = "n"
    /\ \A k \in i + 1 .. j - 1 : t[k] \in {" ", "t"}

(* everything about blanks, numbers, punctuation *)
LayoutTexts == {t \in TextsOver({" ", "t", "n", "x", "1", "/", "."}, 5) : ~HasBlankLine(t)}

(* everything about words and contractions *)
WordTexts ==
  TextsOver({"s", "r", "e", "l", "S", "X", " ", "'", "."}, 4)
  \cup TextsOver({"s", "l", "X", " ", "'"}, 5)

(* A mark that may start a piece, as no letter before it carries it (the s   *)
(* may end a contraction): the code takes it for a prefix once and for all. *)
HasBareMark(t) ==
  \E i \in 1 .. Len(t) : t[i] = "m" /\ (i = 1 \/ t[i - 1] \notin {"o", "x", "m"})

(* letters without case and the marks on them, without capitals *)
CaselessTexts ==
  {t \in TextsOver({"o", "m", "x", "s", " ", "'", "1", "."}, 4)
           \cup TextsOver({"o", "m", "x", "s", " ", "'"}, 5) : ~HasBareMark(t)}

(* the texts on which code and pattern agree *)
DocumentedTexts == LayoutTexts \cup WordTexts \cup CaselessTexts

(* a letter without case before a capital *)
MixedCaseTexts == TextsOver({"o", "X", "x"}, 4)

-----------------------------------------------------------------------------
(***************************************************************************)
(* The splitters follow their patterns: at each offset that an iteration   *)
(* reaches and, in the texts of the tokenizer's calls, everywhere.  The    *)
(* second part is SplittersAgree, which TokenizerProofs supposes.          *)
(***************************************************************************)
FollowPatterns ==
  /\ SplitsAsDocumented
  /\ part = "call" /\ offset = 0 =>
       \A p \in 0 .. Len(text) - 1 : Native(fn, text, p) = Documented(fn, text, p)

(* What is encoded or counted with a used scratch buffer is what a new one *)
(* would give (see BacktrackEncoder).                                      *)
ResultExact == part = "scratch" => Scratch!ResultExact
=============================================================================
