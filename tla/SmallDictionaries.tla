-------------------------- MODULE SmallDictionaries --------------------------
(***************************************************************************)
(* Dictionaries and texts for TLC, shared by the MC modules: all           *)
(* self-encoding dictionaries over two bytes with up to three merges, and  *)
(* all short texts.                                                        *)
(***************************************************************************)
EXTENDS BytePairEncoding

(* A vocabulary from the list of its tokens; the id is the place in the list. *)
Vocabulary(words) == [id \in 0 .. Len(words) - 1 |-> words[id + 1]]

SingleBytes == <<<<"a">>, <<"b">>>>

(***************************************************************************)
(* All self-encoding dictionaries that extend `words` by one token, the    *)
(* join of two earlier ones.                                               *)
(***************************************************************************)
Extensions(words) ==
  {Append(words, words[i] \o words[j]) : i, j \in 1 .. Len(words)}

Proper(dictionaries) ==
  {words \in dictionaries :
     /\ \A i \in 1 .. Len(words) - 1 : words[i] # words[Len(words)]
     /\ SelfEncoding(Vocabulary(words))}

Grow(dictionaries) == Proper(UNION {Extensions(words) : words \in dictionaries})

Dictionaries1 == Grow({SingleBytes})
Dictionaries2 == Grow(Dictionaries1)
Dictionaries3 == Grow(Dictionaries2)

VocabulariesUpTo2 == {Vocabulary(w) : w \in Dictionaries1 \cup Dictionaries2}
VocabulariesUpTo3 == {Vocabulary(w) : w \in Dictionaries1 \cup Dictionaries2 \cup Dictionaries3}

TextsUpTo(n) == UNION {[1 .. k -> {"a", "b"}] : k \in 0 .. n}
=============================================================================
