--------------------------- MODULE Pretokenizers ---------------------------
(***************************************************************************)
(* The hand-written splitters of src/pretok_cl100k.c and                   *)
(* src/pretok_o200k.c, and the regular expressions that their header       *)
(* comments (and the pattern strings of src/pymodule.c) say they implement.*)
(*                                                                         *)
(* A text is a sequence of code points, of which only the class matters:   *)
(*   "s" one of s t m d    "r" one of r v    "e", "l"    "x" other small   *)
(*   "S" one of S T M D    "X" other capital or title case letter, but     *)
(*   not R V E L, which contractions take like the small ones              *)
(*   "o" modifier or other letter   "m" mark   "1" number                  *)
(*   " " space   "t" other whitespace   "n" CR or LF                       *)
(*   "'" apostrophe   "q" U+2019   "/" slash   "." everything else         *)
(* Offsets count code points from 0: the texts are valid UTF-8, so         *)
(* utf8_decode always steps over one code point.                           *)
(***************************************************************************)
EXTENDS Integers, Sequences

LOCAL INSTANCE SequencesExt

Chars == {"s", "r", "e", "l", "x", "S", "X", "o", "m", "1",
          " ", "t", "n", "'", "q", "/", "."}

(* the predicates of pretok_ucd.h *)
Newline    == {"n"}
Whitespace == {" ", "t", "n"}
Number     == {"1"}
Letter     == {"s", "r", "e", "l", "x", "S", "X", "o"}
UpperClass == {"S", "X", "o", "m"}
LowerClass == {"s", "r", "e", "l", "x", "o", "m"}

WordPrefix == Chars \ (Newline \cup Letter \cup Number)
Other      == Chars \ (Whitespace \cup Letter \cup Number)

(* char is found at offset p *)
IsAt(text, p, class) == p < Len(text) /\ text[p + 1] \in class

(* where the run of characters of a class that starts at p ends *)
RunEnd(text, p, class) ==
  CHOOSE q \in p .. Len(text) :
    /\ \A k \in p .. q - 1 : IsAt(text, k, class)
    /\ ~IsAt(text, q, class)

(***************************************************************************)
(* The alternatives.  Each gives the offset where its match from p ends;   *)
(* no match is empty, so p itself stands for "no match".                   *)
(***************************************************************************)
(* the second letter of re, ve and ll is not looked at *)
Contraction_OneLetter(text, p) ==
  IF IsAt(text, p, {"'", "q"}) /\ IsAt(text, p + 1, {"s", "S", "r", "l"})
  THEN p + 2
  ELSE p

(* try_contraction, p0_contraction *)
Contraction(text, p) ==
  IF ~IsAt(text, p, {"'", "q"}) THEN p
  ELSE IF IsAt(text, p + 1, {"s", "S"}) THEN p + 2
  ELSE IF \/ IsAt(text, p + 1, {"r"}) /\ IsAt(text, p + 2, {"e"})
          \/ IsAt(text, p + 1, {"l"}) /\ IsAt(text, p + 2, {"l"})
       THEN p + 3
       ELSE p

(* p0_letters: the prefix counts only if a letter follows *)
Letters(text, p) ==
  LET start == IF IsAt(text, p, WordPrefix) /\ IsAt(text, p + 1, Letter) THEN p + 1 ELSE p
  IN  RunEnd(text, start, Letter)

(* p0_camel: the prefix and the first run are taken once and for all *)
Camel(text, p) ==
  LET first == IF IsAt(text, p, WordPrefix) THEN p + 1 ELSE p
      lower == RunEnd(text, first, UpperClass)
      end   == RunEnd(text, lower, LowerClass)
  IN  IF end = lower THEN p ELSE Contraction(text, end)

(* p0_allcaps *)
AllCaps(text, p) ==
  LET first == IF IsAt(text, p, WordPrefix) THEN p + 1 ELSE p
      lower == RunEnd(text, first, UpperClass)
  IN  IF lower = first THEN p ELSE Contraction(text, RunEnd(text, lower, LowerClass))

(* p0_numbers: at most three *)
Numbers(text, p) ==
  LET end == RunEnd(text, p, Number)
  IN  IF end - p > 3 THEN p + 3 ELSE end

(* p0_punct, with the characters that may trail *)
Punct(text, p, tail) ==
  LET start == IF IsAt(text, p, {" "}) /\ IsAt(text, p + 1, Other) THEN p + 1 ELSE p
      end   == RunEnd(text, start, Other)
  IN  IF end = start THEN p ELSE RunEnd(text, end, tail)

(* p0_ws_newlines: up to the end of the first run of newlines *)
WsNewlines(text, p) ==
  LET blank == RunEnd(text, p, Whitespace \ Newline)
  IN  IF IsAt(text, blank, Newline) THEN RunEnd(text, blank, Newline) ELSE p

(* p0_trailing_ws *)
TrailingWs(text, p) ==
  IF RunEnd(text, p, Whitespace) = Len(text) THEN Len(text) ELSE p

(* a single whitespace character is enough *)
WsLookahead_One(text, p) == RunEnd(text, p, Whitespace)

(* p1_ws_lookahead: two whitespace characters at least *)
WsLookahead(text, p) ==
  LET end == RunEnd(text, p, Whitespace)
  IN  IF end <= p + 1 THEN p ELSE end

(* p2_ws *)
Ws(text, p) == RunEnd(text, p, Whitespace)

(* the end of the first of two alternatives that matches at p *)
Else(p, end, otherwise) == IF end # p THEN end ELSE otherwise

(* the last pattern is forgotten *)
FirstMatch_NoLast(p, first, lookahead, last) ==
  [end |-> Else(p, first, lookahead), lookahead |-> first = p /\ lookahead # p]

(***************************************************************************)
(* The first of the three patterns that matches.                           *)
(***************************************************************************)
FirstMatch(p, first, lookahead, last) ==
  [end       |-> Else(p, first, Else(p, lookahead, last)),
   lookahead |-> first = p /\ lookahead # p]

(* the alternatives that both splitters have, from p0_numbers on *)
NoWord(text, p, tail) ==
  Else(p, Numbers(text, p),
    Else(p, Punct(text, p, tail),
      Else(p, WsNewlines(text, p), TrailingWs(text, p))))

(* pretok_cl100k *)
Cl100k(text, p) ==
  FirstMatch(p,
    Else(p, Contraction(text, p), Else(p, Letters(text, p), NoWord(text, p, Newline))),
    WsLookahead(text, p), Ws(text, p))

(* pretok_o200k *)
O200k(text, p) ==
  FirstMatch(p,
    Else(p, Camel(text, p),
      Else(p, AllCaps(text, p), NoWord(text, p, Newline \cup {"/"}))),
    WsLookahead(text, p), Ws(text, p))

Native(fn, text, p) == IF fn = "cl100k" THEN Cl100k(text, p) ELSE O200k(text, p)

-----------------------------------------------------------------------------
(***************************************************************************)
(* The documented patterns.  A pattern gives all ends of its matches from  *)
(* p, in the order in which a backtracking matcher tries them; what a      *)
(* matcher returns is the first.                                           *)
(***************************************************************************)
One(text, p, class)  == IF IsAt(text, p, class) THEN <<p + 1>> ELSE <<>>
Opt(text, p, class)  == Append(One(text, p, class), p)
Star(text, p, class) == Reverse([i \in 1 .. RunEnd(text, p, class) - p + 1 |-> p + i - 1])
Plus(text, p, class) == SelectSeq(Star(text, p, class), LAMBDA end : end > p)
OneToThree(text, p, class) == SelectSeq(Plus(text, p, class), LAMBDA end : end <= p + 3)

Then(ends, Rest(_)) ==
  LET rest == [end \in ToSet(ends) |-> Rest(end)]
      upto[n \in 0 .. Len(ends)] == IF n = 0 THEN <<>> ELSE upto[n - 1] \o rest[ends[n]]
  IN  upto[Len(ends)]

(* (?i:'s|'t|'re|'ve|'m|'ll|'d) *)
Suffix(text, p) ==
  Then(One(text, p, {"'"}), LAMBDA a :
    One(text, a, {"s", "S"})
    \o Then(One(text, a, {"r"}), LAMBDA b : One(text, b, {"e"}))
    \o Then(One(text, a, {"l"}), LAMBDA b : One(text, b, {"l"})))

OptSuffix(text, p) == Append(Suffix(text, p), p)

(* \p{N}{1,3} | ' '?[^\s\p{L}\p{N}]+[\r\n]* | \s*[\r\n]+ | \s+$ *)
NotAWord(text, p, tail) ==
  OneToThree(text, p, Number)
  \o Then(Opt(text, p, {" "}), LAMBDA a :
       Then(Plus(text, a, Other), LAMBDA b : Star(text, b, tail)))
  \o Then(Star(text, p, Whitespace), LAMBDA a : Plus(text, a, Newline))
  \o SelectSeq(Plus(text, p, Whitespace), LAMBDA end : end = Len(text))

Cl100kWord(text, p) ==
  Suffix(text, p)
  \o Then(Opt(text, p, WordPrefix), LAMBDA a : Plus(text, a, Letter))

O200kWord(text, p) ==
  Then(Opt(text, p, WordPrefix), LAMBDA a :
    Then(Star(text, a, UpperClass), LAMBDA b :
      Then(Plus(text, b, LowerClass), LAMBDA c : OptSuffix(text, c))))
  \o Then(Opt(text, p, WordPrefix), LAMBDA a :
       Then(Plus(text, a, UpperClass), LAMBDA b :
         Then(Star(text, b, LowerClass), LAMBDA c : OptSuffix(text, c))))

(* pattern 0, else pattern 1: \s+\s with lookahead, else pattern 2: \s+ *)
Documented(fn, text, p) ==
  LET pattern0  == IF fn = "cl100k"
                   THEN Cl100kWord(text, p) \o NotAWord(text, p, Newline)
                   ELSE O200kWord(text, p) \o NotAWord(text, p, Newline \cup {"/"})
      pattern1  == Then(Plus(text, p, Whitespace), LAMBDA a : One(text, a, Whitespace))
      pattern2  == Plus(text, p, Whitespace)
      all       == pattern0 \o pattern1 \o pattern2
  IN  [end       |-> Append(all, p)[1],
       lookahead |-> pattern0 = <<>> /\ pattern1 # <<>>]
=============================================================================
