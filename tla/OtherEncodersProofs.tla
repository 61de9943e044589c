------------------------- MODULE OtherEncodersProofs -------------------------
(***************************************************************************)
(* Proofs about TableEncoders and BitfieldEncoder, for every dictionary    *)
(* and texts of any length: what the minimal encoder returns is minimal,   *)
(* what the table encoder returns is the reference encoding, what the      *)
(* three encoders of TableEncoders return decodes to the text; the heap of *)
(* encode_into_bitfield is one, no possible join is missing from it, and   *)
(* the join with the lowest rank is made first.                            *)
(***************************************************************************)
EXTENDS TableEncoders, BitfieldEncoder, CommonLemmas

-----------------------------------------------------------------------------
(* The bytes of texts and tokens.                                          *)

TokenBytes == UNION {{vocab[id] : id \in DOMAIN vocab} : vocab \in Vocabularies}
AllBytes   == UNION {{word[k] : k \in 1 .. Len(word)} : word \in Texts \cup TokenBytes}

LEMMA ByteSequences ==
  /\ \A t \in Texts : t \in Seq(AllBytes) /\ Len(t) \in Nat
  /\ <<>> \in Seq(AllBytes) /\ Len(<<>>) = 0
  /\ \A vocab \in Vocabularies : \A id \in DOMAIN vocab :
       vocab[id] \in Seq(AllBytes) /\ Len(vocab[id]) \in Nat \ {0}
<1>1. ASSUME NEW word \in Texts \cup TokenBytes,
             word \in Seq({word[k] : k \in 1 .. Len(word)})
      PROVE  word \in Seq(AllBytes) /\ Len(word) \in Nat
  <2>1. {word[k] : k \in 1 .. Len(word)} \subseteq AllBytes
    BY DEF AllBytes
  <2> QED BY <1>1, <2>1, SeqMonotonic, LenProperties
<1>2. \A t \in Texts : t \in Seq(AllBytes) /\ Len(t) \in Nat
  BY <1>1, VocabularyAssumption
<1>3. ASSUME NEW vocab \in Vocabularies, NEW id \in DOMAIN vocab
      PROVE  vocab[id] \in Seq(AllBytes) /\ Len(vocab[id]) \in Nat \ {0}
  <2>1. vocab[id] \in TokenBytes
    BY DEF TokenBytes
  <2>2. /\ vocab[id] \in Seq({vocab[id][k] : k \in 1 .. Len(vocab[id])})
        /\ Len(vocab[id]) > 0
    BY VocabularyAssumption
  <2> QED BY <1>1, <2>1, <2>2
<1> QED BY <1>2, <1>3, EmptySeq

-----------------------------------------------------------------------------
(* The tables.                                                             *)

(* the tokens that end with byte number n *)
TokensAt(n) ==
  {id \in DOMAIN bpe.vocab :
     /\ TokenLen(bpe, id) <= n
     /\ OccursAt(bpe.vocab[id], text, n - TokenLen(bpe, id), n)}

(* the count of the bytes up to number n *)
CountAt(n) == IF n = 0 THEN 0 ELSE table[n].count

(* no tokens spell these bytes with a smaller count *)
MinimalAt(n) ==
  LET before(id) == CountAt(n - TokenLen(bpe, id))
      best       == table[n].token
  IN  /\ best \in TokensAt(n)
      /\ table[n].count = before(best) + 1
      /\ \A id \in TokensAt(n) : before(best) <= before(id)

Entry == [token : DOMAIN bpe.vocab \cup {NoToken}, count : Nat]

StateOK ==
  /\ bpe.vocab \in Vocabularies
  /\ text \in Texts \cup {<<>>}
  /\ table \in Seq(Entry)
  /\ Len(table) <= Len(text)
  /\ algo \in {"none", "table", "minimal", "greedy"}
  /\ pc \in CASE algo = "none"    -> {"idle"}
             [] algo = "table"   -> {"scan", "walk", "reverse", "done", "undefined"}
             [] algo = "minimal" -> {"scan", "walk", "done"}
             [] algo = "greedy"  -> {"match", "done"}
  /\ pc \in {"idle", "scan"} => result = <<>>
  /\ pc \in {"idle", "match"} => table = <<>>
  /\ pc \in {"idle", "scan", "walk"} => i = 0
  /\ pc = "idle" => pos = 0

ScanInv ==
  /\ pc \in {"idle", "scan"} =>
       LongestBeginning(bpe.vocab, SubSeq(text, 1, Len(table)), state)
  /\ algo \in {"table", "minimal"} /\ pc # "scan" => Len(table) = Len(text)
  /\ \A n \in 1 .. Len(table) :
       /\ table[n].token \in TokensAt(n) \cup {NoToken}
       /\ algo = "minimal" => MinimalAt(n)

-----------------------------------------------------------------------------
(* The tokens found.                                                       *)

(* the tokens stand in the text one after the other, from byte to byte *)
Covers(tokens, from, to) ==
  \E bounds \in [0 .. Len(tokens) -> 0 .. Len(text)] :
    /\ bounds[0] = from
    /\ bounds[Len(tokens)] = to
    /\ \A k \in 1 .. Len(tokens) :
         /\ tokens[k] \in DOMAIN bpe.vocab
         /\ bounds[k] = bounds[k - 1] + TokenLen(bpe, tokens[k])
         /\ OccursAt(bpe.vocab[tokens[k]], text, bounds[k - 1], bounds[k])

(* what the reversal makes of the array when n swaps are done *)
Mirrored(tokens, n) ==
  [k \in 1 .. Len(tokens) |->
     IF k \in n + 1 .. Len(tokens) - n THEN tokens[Len(tokens) + 1 - k] ELSE tokens[k]]

(* every entry of the prefix table has a token: TableExact says so *)
EntriesFound == algo = "table" => \A n \in 1 .. Len(table) : table[n].token # NoToken

WalkInv ==
  /\ result \in Seq(DOMAIN bpe.vocab)
  /\ pc \in {"walk", "match"} => pos \in 0 .. Len(text)
  /\ pc = "match" => Covers(result, 0, pos)
  /\ pc = "walk" =>
       Covers(IF algo = "table" THEN Mirrored(result, 0) ELSE result, pos, Len(text))
  /\ pc = "reverse" =>
       /\ i \in Nat
       /\ IF result = <<>> THEN i = 0 /\ j = SIZE_MAX ELSE j = Len(result) - 1 - i
       /\ Covers(Mirrored(result, i), 0, Len(text))
  /\ pc = "done" => Covers(result, 0, Len(text))
  /\ algo = "minimal" /\ pc = "walk" => Len(result) + CountAt(pos) = CountAt(Len(text))
  /\ algo = "minimal" /\ pc = "done" => Len(result) = CountAt(Len(text))

Inv == StateOK /\ ScanInv /\ (EntriesFound => WalkInv)

-----------------------------------------------------------------------------
(* The scan.                                                               *)

LEMMA TextFacts ==
  ASSUME StateOK
  PROVE  /\ text \in Seq(AllBytes) /\ Len(text) \in Nat
         /\ Complete(bpe.vocab, text)
         /\ AreWords(bpe.vocab, AllBytes)
         /\ \A id \in DOMAIN bpe.vocab : TokenLen(bpe, id) \in Nat \ {0}
         /\ NoToken \notin DOMAIN bpe.vocab
         /\ Len(table) \in Nat
<1>1. text \in Seq(AllBytes) /\ Len(text) \in Nat /\ Complete(bpe.vocab, text)
  <2>1. CASE text \in Texts
    BY <2>1, ByteSequences, VocabularyAssumption DEF StateOK
  <2>2. CASE text = <<>>
    BY <2>2, ByteSequences DEF Complete
  <2> QED BY <2>1, <2>2 DEF StateOK
<1>2. AreWords(bpe.vocab, AllBytes)
  BY ByteSequences DEF AreWords, StateOK
<1>3. \A id \in DOMAIN bpe.vocab : TokenLen(bpe, id) \in Nat \ {0}
  BY ByteSequences DEF TokenLen, StateOK
<1>4. NoToken \notin DOMAIN bpe.vocab
  BY VocabularyAssumption DEF NoToken, StateOK
<1>5. Len(table) \in Nat
  BY LenProperties DEF StateOK
<1> QED BY <1>1, <1>2, <1>3, <1>4, <1>5

LEMMA TextUpTo ==
  ASSUME NEW S, NEW s \in Seq(S), NEW n \in 0 .. Len(s)
  PROVE  /\ SubSeq(s, 1, n) \in Seq(S)
         /\ Len(SubSeq(s, 1, n)) = n
         /\ \A k \in 1 .. n : SubSeq(s, 1, n)[k] = s[k]
<1>1. Len(s) \in Nat /\ \A k \in 1 .. n : s[k] \in S
  BY LenProperties, ElementOfSeq
<1>2. /\ SubSeq(s, 1, n) \in Seq(S)
      /\ Len(SubSeq(s, 1, n)) = IF 1 <= n THEN n - 1 + 1 ELSE 0
      /\ \A k \in 1 .. n - 1 + 1 : SubSeq(s, 1, n)[k] = s[1 + k - 1]
  BY <1>1, SubSeqProperties
<1> QED BY <1>1, <1>2

LEMMA NextUpTo ==
  ASSUME NEW S, NEW s \in Seq(S), NEW n \in Nat, n < Len(s)
  PROVE  Append(SubSeq(s, 1, n), s[n + 1]) = SubSeq(s, 1, n + 1)
<1>1. Len(s) \in Nat /\ n \in 0 .. Len(s) /\ n + 1 \in 0 .. Len(s) /\ s[n + 1] \in S
  BY LenProperties, ElementOfSeq
<1> DEFINE a == SubSeq(s, 1, n)
           m == n + 1
           b == SubSeq(s, 1, m)
           x == s[n + 1]
           c == Append(a, x)
<1>2. a \in Seq(S) /\ Len(a) = n /\ \A k \in 1 .. n : a[k] = s[k]
  BY <1>1, TextUpTo
<1>3. b \in Seq(S) /\ Len(b) = m /\ \A k \in 1 .. m : b[k] = s[k]
  <2> HIDE DEF m
  <2> QED BY <1>1, TextUpTo DEF m
<1> HIDE DEF a, b
<1>4. c \in Seq(S) /\ Len(c) = n + 1 /\ c[n + 1] = x /\ \A k \in 1 .. n : c[k] = a[k]
  BY <1>1, <1>2, AppendProperties
<1>5. \A k \in 1 .. n + 1 : c[k] = b[k]
  BY <1>2, <1>3, <1>4
<1> QED BY <1>3, <1>4, <1>5, SeqEqual DEF a, b

(* the automaton finds all tokens that end here *)
LEMMA OutputsAreTokens ==
  ASSUME StateOK, NEW n \in 0 .. Len(text), NEW st,
         LongestBeginning(bpe.vocab, SubSeq(text, 1, n), st)
  PROVE  Outputs(bpe.vocab, st) = TokensAt(n)
<1> DEFINE read == SubSeq(text, 1, n)
           B    == AllBytes
<1>1. /\ text \in Seq(B) /\ Len(text) \in Nat /\ AreWords(bpe.vocab, B)
      /\ \A id \in DOMAIN bpe.vocab : TokenLen(bpe, id) \in Nat \ {0}
  BY TextFacts
<1>2. read \in Seq(B) /\ Len(read) = n /\ \A k \in 1 .. n : read[k] = text[k]
  BY <1>1, TextUpTo
<1> DEFINE words == bpe.vocab
<1>3. LongestBeginning(words, read, st) /\ AreWords(words, B)
  BY <1>1
<1> HIDE DEF read, B, words
<1>4. Outputs(words, st) =
        {id \in DOMAIN words : /\ Len(words[id]) <= Len(read)
                              /\ words[id] = EndOf(read, Len(words[id]))}
  BY <1>2, <1>3, OutputsAreEnds
<1>5. ASSUME NEW id \in DOMAIN bpe.vocab, TokenLen(bpe, id) <= n
      PROVE  bpe.vocab[id] = EndOf(read, TokenLen(bpe, id))
             <=> OccursAt(bpe.vocab[id], text, n - TokenLen(bpe, id), n)
  <2> DEFINE word == bpe.vocab[id]
             len  == Len(word)
             e    == EndOf(read, len)
  <2>1. word \in Seq(B) /\ len \in 0 .. n /\ TokenLen(bpe, id) = len
    BY <1>1, <1>5 DEF AreWords, TokenLen
  <2> HIDE DEF word
  <2>2. e \in Seq(B) /\ Len(e) = len /\ \A k \in 1 .. len : e[k] = read[n - len + k]
    BY <1>2, <2>1, EndFacts
  <2> HIDE DEF e
  <2>3. \A k \in 1 .. len : e[k] = text[n - len + k]
    <3> SUFFICES ASSUME NEW k \in 1 .. len PROVE e[k] = text[n - len + k]
      OBVIOUS
    <3>1. n - len + k \in 1 .. n
      BY <2>1
    <3> QED BY <1>2, <2>2, <3>1
  <2>4. OccursAt(word, text, n - len, n) <=> \A k \in 1 .. len : text[n - len + k] = word[k]
    BY <2>1 DEF OccursAt
  <2>5. word = e <=> \A k \in 1 .. len : e[k] = word[k]
    BY <2>1, <2>2, SeqEqual
  <2> QED BY <2>1, <2>3, <2>4, <2>5 DEF word, e
<1> QED BY <1>2, <1>4, <1>5 DEF TokensAt, TokenLen, words

(* some token ends with each byte: the byte itself *)
LEMMA SomeToken ==
  ASSUME StateOK, NEW n \in 1 .. Len(text)
  PROVE  TokensAt(n) # {}
<1>1. PICK id \in DOMAIN bpe.vocab : bpe.vocab[id] = <<text[n]>>
  BY TextFacts DEF Complete
<1>2. Len(bpe.vocab[id]) = 1 /\ bpe.vocab[id][1] = text[n]
  BY <1>1
<1>3. OccursAt(bpe.vocab[id], text, n - 1, n)
  <2>1. n \in Nat /\ n - 1 + 1 = n
    BY TextFacts
  <2> QED BY <1>2, <2>1 DEF OccursAt
<1>4. id \in TokensAt(n)
  <2>1. TokenLen(bpe, id) = 1 /\ 1 <= n
    BY <1>2 DEF TokenLen
  <2> QED BY <1>3, <2>1 DEF TokensAt
<1> QED BY <1>4

(* bpe_encode_minimal puts a token with the smallest count into the table *)
LEMMA MinimalEntryIsMinimal ==
  ASSUME StateOK, Len(table) < Len(text), algo = "minimal", ScanInv
  PROVE  LET n     == Len(table) + 1
             entry == MinimalEntry(TokensAt(n))
             before(id) == CountAt(n - TokenLen(bpe, id))
         IN  /\ entry.token \in TokensAt(n)
             /\ entry.count = before(entry.token) + 1
             /\ entry.count \in Nat
             /\ \A id \in TokensAt(n) : before(entry.token) <= before(id)
<1> DEFINE n          == Len(table) + 1
           outputs    == TokensAt(n)
           before(id) == CountAt(n - TokenLen(bpe, id))
           best       == FirstOutput(ForwardWords(bpe), Cheapest(outputs))
<1>1. Len(table) \in Nat /\ Len(text) \in Nat /\ n \in 1 .. Len(text)
  BY TextFacts
<1>2. outputs # {}
  BY <1>1, SomeToken
<1>3. ASSUME NEW id \in outputs
      PROVE  /\ id \in DOMAIN bpe.vocab
             /\ TokenLen(bpe, id) \in 1 .. n
             /\ CountBefore(id) = before(id)
             /\ before(id) \in Nat
  <2>1. id \in DOMAIN bpe.vocab /\ TokenLen(bpe, id) <= n
    BY DEF TokensAt
  <2>2. TokenLen(bpe, id) \in Nat \ {0}
    BY <2>1, TextFacts
  <2> HIDE DEF n
  <2>3. TokenLen(bpe, id) \in 1 .. n
    BY <1>1, <2>1, <2>2
  <2>4. Start(id) = n - TokenLen(bpe, id) /\ Start(id) \in 0 .. Len(table)
    BY <1>1, <2>3 DEF Start, n
  <2>5. Start(id) # 0 => table[Start(id)].count \in Nat
    <3> SUFFICES ASSUME Start(id) # 0 PROVE table[Start(id)].count \in Nat
      OBVIOUS
    <3>1. Start(id) \in 1 .. Len(table)
      BY <1>1, <2>4
    <3>2. table[Start(id)] \in Entry
      BY <3>1, ElementOfSeq DEF StateOK
    <3> QED BY <3>2 DEF Entry
  <2> QED BY <2>1, <2>3, <2>4, <2>5 DEF CountBefore, CountAt
<1> HIDE DEF outputs, n
<1>4. Cheapest(outputs) # {}
  <2> DEFINE counts == {before(id) : id \in outputs}
  <2>1. counts \in SUBSET Nat /\ counts # {}
    BY <1>2, <1>3
  <2>2. PICK c \in counts : \A d \in counts : c <= d
    <3> HIDE DEF counts
    <3> QED BY <2>1, LeastExists
  <2>3. PICK id \in outputs : c = before(id)
    OBVIOUS
  <2>4. \A other \in outputs : before(id) <= before(other)
    BY <2>2, <2>3
  <2>5. id \in Cheapest(outputs)
    BY <1>3, <2>4 DEF Cheapest
  <2> QED BY <2>5
<1>5. best \in Cheapest(outputs)
  <2>1. \A id \in Cheapest(outputs) : Len(ForwardWords(bpe)[id]) \in 0 .. n
    BY <1>3 DEF Cheapest, ForwardWords, TokenLen
  <2>2. n \in Nat
    BY <1>1
  <2> QED BY <1>4, <2>1, <2>2, FirstIsOne
<1>6. best \in outputs /\ \A other \in outputs : CountBefore(best) <= CountBefore(other)
  BY <1>5 DEF Cheapest
<1>7. /\ MinimalEntry(outputs).token = best
      /\ MinimalEntry(outputs).count = CountBefore(best) + 1
  BY DEF MinimalEntry
<1> HIDE DEF best
<1>8. /\ best \in outputs
      /\ MinimalEntry(outputs).count = before(best) + 1
      /\ before(best) + 1 \in Nat
      /\ \A id \in outputs : before(best) <= before(id)
  BY <1>3, <1>6, <1>7
<1> QED BY <1>7, <1>8 DEF outputs, n

(* bpe_encode_all_prefixes puts a token that ends here, or none *)
LEMMA PrefixEntryIsToken ==
  ASSUME StateOK, Len(table) < Len(text)
  PROVE  PrefixEntry(TokensAt(Len(table) + 1)).token \in TokensAt(Len(table) + 1) \cup {NoToken}
<1> DEFINE n          == Len(table) + 1
           outputs    == TokensAt(n)
           candidates == {id \in outputs : Follows(id)}
<1>1. n \in Nat
  BY TextFacts
<1>2. \A id \in candidates : Len(ForwardWords(bpe)[id]) \in 0 .. n
  <2> SUFFICES ASSUME NEW id \in outputs PROVE Len(ForwardWords(bpe)[id]) \in 0 .. n
    OBVIOUS
  <2>1. id \in DOMAIN bpe.vocab /\ TokenLen(bpe, id) <= n
    BY DEF TokensAt
  <2>2. TokenLen(bpe, id) \in Nat \ {0}
    BY <2>1, TextFacts
  <2> QED BY <1>1, <2>1, <2>2 DEF ForwardWords, TokenLen
<1>3. candidates # {} => FirstOutput(ForwardWords(bpe), candidates) \in candidates
  <2> HIDE DEF candidates, n
  <2> QED BY <1>1, <1>2, FirstIsOne
<1>4. PrefixEntry(outputs).token =
        IF candidates = {} THEN NoToken ELSE FirstOutput(ForwardWords(bpe), candidates)
  BY DEF PrefixEntry
<1> QED BY <1>3, <1>4

LEMMA ScanKeeps ==
  ASSUME StateOK, ScanInv, Scan
  PROVE  StateOK' /\ ScanInv'
<1> DEFINE n       == Len(table) + 1
           words   == ForwardWords(bpe)
           outputs == Outputs(words, state')
           entry   == IF algo = "table" THEN PrefixEntry(outputs) ELSE MinimalEntry(outputs)
           B       == AllBytes
<1>1. /\ Len(table) \in Nat /\ Len(text) \in Nat /\ n \in 1 .. Len(text)
      /\ text \in Seq(B) /\ AreWords(bpe.vocab, B) /\ text[n] \in B
  <2>1. Len(table) \in Nat /\ Len(text) \in Nat /\ n \in 1 .. Len(text)
    BY TextFacts DEF Scan
  <2>2. text \in Seq(B) /\ AreWords(bpe.vocab, B)
    BY TextFacts
  <2> HIDE DEF n, B
  <2> QED BY <2>1, <2>2, ElementOfSeq
<1>2. /\ algo \in {"table", "minimal"} /\ pc = "scan"
      /\ state' = Advance(words, state, text[n])
      /\ table' = Append(table, entry)
      /\ bpe' = bpe /\ text' = text /\ pc' = pc /\ algo' = algo
      /\ result' = result /\ i' = i /\ pos' = pos
  BY DEF Scan, StateOK
<1>3. LongestBeginning(bpe.vocab, SubSeq(text, 1, n), state')
  <2>1. /\ LongestBeginning(bpe.vocab, SubSeq(text, 1, Len(table)), state)
        /\ SubSeq(text, 1, Len(table)) \in Seq(B)
    BY <1>1, <1>2, TextUpTo DEF ScanInv
  <2>2. Append(SubSeq(text, 1, Len(table)), text[n]) = SubSeq(text, 1, n)
    BY <1>1, NextUpTo
  <2>3. state' = Advance(bpe.vocab, state, text[n])
    BY <1>2 DEF ForwardWords
  <2> DEFINE read == SubSeq(text, 1, Len(table))
             v    == bpe.vocab
             x    == text[n]
  <2>4. LongestBeginning(v, Append(read, x), Advance(v, state, x))
    <3> HIDE DEF read, v, x, B
    <3> QED BY <1>1, <2>1, AdvanceIsLongest DEF read, v, x
  <2> QED BY <2>2, <2>3, <2>4
<1>4. outputs = TokensAt(n)
  <2>1. n \in 0 .. Len(text)
    BY <1>1
  <2> QED BY <1>3, <2>1, OutputsAreTokens DEF ForwardWords
<1>5. /\ entry \in Entry
      /\ entry.token \in TokensAt(n) \cup {NoToken}
      /\ algo = "minimal" =>
           /\ entry.token \in TokensAt(n)
           /\ entry.count = CountAt(n - TokenLen(bpe, entry.token)) + 1
           /\ \A id \in TokensAt(n) :
                CountAt(n - TokenLen(bpe, entry.token)) <= CountAt(n - TokenLen(bpe, id))
  <2>1. \A id \in TokensAt(n) : id \in DOMAIN bpe.vocab
    BY DEF TokensAt
  <2>2. CASE algo = "table"
    <3>1. PrefixEntry(TokensAt(n)).token \in TokensAt(n) \cup {NoToken}
      BY PrefixEntryIsToken DEF Scan
    <3>2. PrefixEntry(TokensAt(n)) =
            [token |-> PrefixEntry(TokensAt(n)).token, count |-> 0]
      BY DEF PrefixEntry
    <3> QED BY <1>4, <2>1, <2>2, <3>1, <3>2 DEF Entry
  <2>3. CASE algo = "minimal"
    <3> DEFINE minimal == MinimalEntry(TokensAt(n))
    <3>1. /\ minimal.token \in TokensAt(n)
          /\ minimal.count = CountAt(n - TokenLen(bpe, minimal.token)) + 1
          /\ minimal.count \in Nat
          /\ \A id \in TokensAt(n) :
               CountAt(n - TokenLen(bpe, minimal.token)) <= CountAt(n - TokenLen(bpe, id))
      BY <2>3, MinimalEntryIsMinimal DEF Scan
    <3>2. minimal = [token |-> minimal.token, count |-> minimal.count]
      BY DEF MinimalEntry
    <3>3. entry = minimal
      BY <1>4, <2>3
    <3> HIDE DEF minimal
    <3> QED BY <2>1, <3>1, <3>2, <3>3 DEF Entry
  <2> QED BY <1>2, <2>2, <2>3
<1> HIDE DEF entry, outputs, words
<1>6. /\ table \in Seq(Entry) /\ table' \in Seq(Entry) /\ Len(table') = n /\ table'[n] = entry
      /\ \A k \in 1 .. Len(table) : table'[k] = table[k]
  BY <1>2, <1>5, AppendProperties DEF StateOK
<1>7. Entry' = Entry /\ \A k : TokensAt(k)' = TokensAt(k)
  BY <1>2 DEF Entry, TokensAt
<1>8. StateOK'
  <2>1. Len(table') <= Len(text')
    BY <1>1, <1>2, <1>6
  <2> QED BY <1>2, <1>6, <1>7, <2>1 DEF StateOK
<1>9. \A k \in 0 .. Len(table) : CountAt(k)' = CountAt(k)
  BY <1>1, <1>6 DEF CountAt
<1>10. ASSUME NEW k \in 1 .. Len(table')
       PROVE  /\ table'[k].token \in TokensAt(k)' \cup {NoToken}
              /\ algo' = "minimal" => MinimalAt(k)'
  <2>1. \A id \in TokensAt(k) : TokenLen(bpe, id) \in Nat \ {0} /\ TokenLen(bpe, id) <= k
    BY TextFacts DEF TokensAt
  <2>2. \A id \in TokensAt(k) :
          /\ k - TokenLen(bpe, id) \in 0 .. Len(table)
          /\ CountAt(k - TokenLen(bpe, id))' = CountAt(k - TokenLen(bpe, id))
    <3> SUFFICES ASSUME NEW id \in TokensAt(k)
                 PROVE  /\ k - TokenLen(bpe, id) \in 0 .. Len(table)
                        /\ CountAt(k - TokenLen(bpe, id))' = CountAt(k - TokenLen(bpe, id))
      OBVIOUS
    <3>1. k - TokenLen(bpe, id) \in 0 .. Len(table)
      BY <1>1, <1>6, <2>1
    <3>2. TokenLen(bpe, id)' = TokenLen(bpe, id)
      BY <1>2 DEF TokenLen
    <3> QED BY <1>9, <3>1, <3>2
  <2>3. CASE k \in 1 .. Len(table)
    <3>1. table[k].token \in TokensAt(k) \cup {NoToken} /\ (algo = "minimal" => MinimalAt(k))
      BY <2>3 DEF ScanInv
    <3>2. table'[k] = table[k]
      BY <1>6, <2>3
    <3> QED BY <1>2, <1>7, <2>2, <3>1, <3>2 DEF MinimalAt, TokenLen
  <2>4. CASE k = n
    <3>1. table'[k] = entry
      BY <1>6, <2>4
    <3> QED BY <1>2, <1>5, <1>7, <2>2, <2>4, <3>1 DEF MinimalAt, TokenLen
  <2> QED BY <1>1, <1>6, <2>3, <2>4
<1>11. ScanInv'
  BY <1>2, <1>3, <1>6, <1>10 DEF ScanInv
<1> QED BY <1>8, <1>11

-----------------------------------------------------------------------------
(* The walk back, the reversal and the greedy matches.                     *)

LEMMA NoBounds ==
  ASSUME NEW n \in Nat, NEW p \in 0 .. n
  PROVE  \E bounds \in [0 .. Len(<<>>) -> 0 .. n] :
           bounds[0] = p /\ bounds[Len(<<>>)] = p /\ 1 .. Len(<<>>) = {}
<1> DEFINE bounds == [k \in 0 .. 0 |-> p]
<1>1. bounds \in [0 .. Len(<<>>) -> 0 .. n] /\ bounds[0] = p
  OBVIOUS
<1>2. Len(<<>>) = 0 /\ 1 .. 0 = {}
  OBVIOUS
<1> HIDE DEF bounds
<1> QED BY <1>1, <1>2

LEMMA TokenAfter ==
  ASSUME StateOK, NEW tokens \in Seq(DOMAIN bpe.vocab), NEW p, NEW q,
         Covers(tokens, p, q), NEW id \in DOMAIN bpe.vocab,
         OccursAt(bpe.vocab[id], text, q, Len(text))
  PROVE  /\ q + TokenLen(bpe, id) \in 0 .. Len(text)
         /\ Covers(Append(tokens, id), p, q + TokenLen(bpe, id))
<1> DEFINE n    == Len(tokens)
           more == Append(tokens, id)
           to   == q + TokenLen(bpe, id)
<1>1. /\ n \in Nat /\ Len(more) = n + 1 /\ more[n + 1] = id
      /\ \A k \in 1 .. n : more[k] = tokens[k]
  BY LenProperties, AppendProperties
<1>2. PICK bounds \in [0 .. n -> 0 .. Len(text)] :
        /\ bounds[0] = p
        /\ bounds[n] = q
        /\ \A k \in 1 .. n :
             /\ tokens[k] \in DOMAIN bpe.vocab
             /\ bounds[k] = bounds[k - 1] + TokenLen(bpe, tokens[k])
             /\ OccursAt(bpe.vocab[tokens[k]], text, bounds[k - 1], bounds[k])
  BY DEF Covers
<1>3. q \in 0 .. Len(text) /\ Len(text) \in Nat /\ TokenLen(bpe, id) \in Nat \ {0}
  <2>1. n \in 0 .. n
    BY <1>1
  <2>2. q \in 0 .. Len(text)
    BY <1>2, <2>1
  <2> QED BY <2>2, TextFacts
<1>4. to \in 0 .. Len(text) /\ OccursAt(bpe.vocab[id], text, q, to)
  BY <1>3 DEF OccursAt, TokenLen
<1> HIDE DEF more, to, n
<1> DEFINE longer == [k \in 0 .. n + 1 |-> IF k = n + 1 THEN to ELSE bounds[k]]
<1>5. longer \in [0 .. n + 1 -> 0 .. Len(text)] /\ longer[0] = p /\ longer[n + 1] = to
  BY <1>1, <1>2, <1>4
<1>6. ASSUME NEW k \in 1 .. n + 1
      PROVE  /\ more[k] \in DOMAIN bpe.vocab
             /\ longer[k] = longer[k - 1] + TokenLen(bpe, more[k])
             /\ OccursAt(bpe.vocab[more[k]], text, longer[k - 1], longer[k])
  <2>1. CASE k \in 1 .. n
    <3>1. longer[k] = bounds[k] /\ longer[k - 1] = bounds[k - 1] /\ more[k] = tokens[k]
      BY <1>1, <2>1
    <3> QED BY <1>2, <2>1, <3>1
  <2>2. CASE k = n + 1
    <3>1. longer[k] = to /\ longer[k - 1] = q /\ more[k] = id
      BY <1>1, <1>2, <2>2
    <3> QED BY <1>4, <3>1 DEF to
  <2> QED BY <1>1, <2>1, <2>2
<1> HIDE DEF longer
<1>7. Covers(more, p, to)
  BY <1>1, <1>5, <1>6 DEF Covers
<1> QED BY <1>4, <1>7 DEF more, to

LEMMA TokenBefore ==
  ASSUME StateOK, NEW tokens \in Seq(DOMAIN bpe.vocab), NEW p \in 0 .. Len(text), NEW q,
         Covers(tokens, p, q), NEW id \in TokensAt(p)
  PROVE  /\ p - TokenLen(bpe, id) \in 0 .. Len(text)
         /\ Covers(<<id>> \o tokens, p - TokenLen(bpe, id), q)
<1> DEFINE n    == Len(tokens)
           more == <<id>> \o tokens
           from == p - TokenLen(bpe, id)
<1>1. id \in DOMAIN bpe.vocab /\ TokenLen(bpe, id) <= p
      /\ OccursAt(bpe.vocab[id], text, from, p)
  BY DEF TokensAt
<1>2. /\ n \in Nat /\ Len(more) = n + 1 /\ more[1] = id
      /\ \A k \in 2 .. n + 1 : more[k] = tokens[k - 1]
  <2> DEFINE S   == DOMAIN bpe.vocab
             one == <<id>>
  <2>1. one \in Seq(S) /\ Len(one) = 1 /\ one[1] = id
    <3>1. id \in S
      BY <1>1
    <3> HIDE DEF S
    <3> QED BY <3>1
  <2>2. n \in Nat /\ tokens \in Seq(S)
    BY LenProperties
  <2> HIDE DEF one, n
  <2>3. /\ Len(one \o tokens) = Len(one) + Len(tokens)
        /\ \A k \in 1 .. Len(one) + Len(tokens) :
             (one \o tokens)[k] = IF k <= Len(one) THEN one[k] ELSE tokens[k - Len(one)]
    <3> HIDE DEF S
    <3> QED BY <2>1, <2>2, ConcatProperties
  <2> QED BY <2>1, <2>2, <2>3 DEF one, n
<1>3. PICK bounds \in [0 .. n -> 0 .. Len(text)] :
        /\ bounds[0] = p
        /\ bounds[n] = q
        /\ \A k \in 1 .. n :
             /\ tokens[k] \in DOMAIN bpe.vocab
             /\ bounds[k] = bounds[k - 1] + TokenLen(bpe, tokens[k])
             /\ OccursAt(bpe.vocab[tokens[k]], text, bounds[k - 1], bounds[k])
  BY DEF Covers
<1>4. /\ Len(text) \in Nat /\ from \in 0 .. Len(text) /\ from + TokenLen(bpe, id) = p
  BY <1>1, TextFacts
<1> HIDE DEF more, from, n
<1> DEFINE longer == [k \in 0 .. n + 1 |-> IF k = 0 THEN from ELSE bounds[k - 1]]
<1>5. longer \in [0 .. n + 1 -> 0 .. Len(text)] /\ longer[0] = from /\ longer[n + 1] = q
  BY <1>2, <1>3, <1>4
<1>6. ASSUME NEW k \in 1 .. n + 1
      PROVE  /\ more[k] \in DOMAIN bpe.vocab
             /\ longer[k] = longer[k - 1] + TokenLen(bpe, more[k])
             /\ OccursAt(bpe.vocab[more[k]], text, longer[k - 1], longer[k])
  <2>1. CASE k \in 2 .. n + 1
    <3>1. /\ longer[k] = bounds[k - 1] /\ longer[k - 1] = bounds[k - 1 - 1]
          /\ more[k] = tokens[k - 1] /\ k - 1 \in 1 .. n
      BY <1>2, <2>1
    <3> QED BY <1>3, <3>1
  <2>2. CASE k = 1
    <3>1. longer[k] = p /\ longer[k - 1] = from /\ more[k] = id
      BY <1>2, <1>3, <2>2
    <3> QED BY <1>1, <1>4, <3>1
  <2> QED BY <1>2, <2>1, <2>2
<1> HIDE DEF longer
<1>7. Covers(more, from, q)
  BY <1>2, <1>5, <1>6 DEF Covers
<1> QED BY <1>4, <1>7 DEF more, from

LEMMA MirroredType ==
  ASSUME NEW S, NEW tokens \in Seq(S), NEW n \in Nat
  PROVE  Mirrored(tokens, n) \in Seq(S) /\ Len(Mirrored(tokens, n)) = Len(tokens)
<1> DEFINE len == Len(tokens)
<1>1. len \in Nat /\ tokens \in [1 .. len -> S]
  BY LenProperties
<1> HIDE DEF len
<1>2. \A k \in 1 .. len : k \in n + 1 .. len - n => len + 1 - k \in 1 .. len
  BY <1>1
<1>3. Mirrored(tokens, n) \in [1 .. len -> S]
  BY <1>1, <1>2 DEF Mirrored, len
<1> QED BY <1>1, <1>3 DEF len

(* a token found later stands further left *)
LEMMA MirroredAppend ==
  ASSUME NEW S, NEW tokens \in Seq(S), NEW x \in S
  PROVE  Mirrored(Append(tokens, x), 0) = <<x>> \o Mirrored(tokens, 0)
<1> DEFINE n    == Len(tokens)
           more == Append(tokens, x)
           rev  == Mirrored(tokens, 0)
           one  == <<x>>
           left == Mirrored(more, 0)
           both == one \o rev
<1>1. /\ n \in Nat /\ more \in Seq(S) /\ Len(more) = n + 1 /\ more[n + 1] = x
      /\ \A k \in 1 .. n : more[k] = tokens[k]
  BY LenProperties, AppendProperties
<1>2. rev \in Seq(S) /\ Len(rev) = n /\ one \in Seq(S) /\ Len(one) = 1 /\ one[1] = x
  BY MirroredType
<1>3. \A k \in 1 .. n : rev[k] = tokens[n + 1 - k]
  BY <1>1 DEF Mirrored
<1>4. left \in Seq(S) /\ Len(left) = n + 1
  <2> HIDE DEF more
  <2> QED BY <1>1, MirroredType
<1>5. \A k \in 1 .. n + 1 : left[k] = more[n + 2 - k]
  <2> HIDE DEF more
  <2> QED BY <1>1 DEF Mirrored
<1> HIDE DEF rev, one, left, more, n
<1>6. /\ both \in Seq(S) /\ Len(both) = n + 1
      /\ \A k \in 1 .. n + 1 : both[k] = IF k <= 1 THEN one[k] ELSE rev[k - 1]
  <2>1. /\ both \in Seq(S) /\ Len(both) = Len(one) + Len(rev)
        /\ \A k \in 1 .. Len(one) + Len(rev) :
             both[k] = IF k <= Len(one) THEN one[k] ELSE rev[k - Len(one)]
    BY <1>2, ConcatProperties
  <2> QED BY <1>1, <1>2, <2>1
<1>7. ASSUME NEW k \in 1 .. n + 1 PROVE left[k] = both[k]
  <2>1. CASE k = 1
    BY <1>1, <1>2, <1>5, <1>6, <2>1
  <2>2. CASE k \in 2 .. n + 1
    <3>1. k - 1 \in 1 .. n /\ n + 2 - k \in 1 .. n /\ n + 1 - (k - 1) = n + 2 - k /\ ~(k <= 1)
      BY <1>1, <2>2
    <3>2. left[k] = tokens[n + 2 - k]
      BY <1>1, <1>5, <3>1
    <3>3. both[k] = tokens[n + 2 - k]
      BY <1>3, <1>6, <3>1
    <3> QED BY <3>2, <3>3
  <2>3. k = 1 \/ k \in 2 .. n + 1
    BY <1>1
  <2> QED BY <2>1, <2>2, <2>3
<1>8. left = both
  BY <1>4, <1>6, <1>7, SeqEqual
<1> QED BY <1>8 DEF left, one, rev, more

(* a swap does what it is there for *)
Swapped(tokens, n, m) ==
  [tokens EXCEPT ![n + 1] = tokens[m + 1], ![m + 1] = tokens[n + 1]]

LEMMA MirroredSwap ==
  ASSUME NEW S, NEW tokens \in Seq(S), NEW n \in Nat, NEW m \in Nat,
         m = Len(tokens) - 1 - n, n < m
  PROVE  /\ Swapped(tokens, n, m) \in Seq(S) /\ Len(Swapped(tokens, n, m)) = Len(tokens)
         /\ Mirrored(Swapped(tokens, n, m), n + 1) = Mirrored(tokens, n)
<1> DEFINE len     == Len(tokens)
           swapped == Swapped(tokens, n, m)
<1>1. len \in Nat /\ tokens \in [1 .. len -> S] /\ n + 1 \in 1 .. len /\ m + 1 \in 1 .. len
      /\ m + 1 = len - n
  BY LenProperties
<1> HIDE DEF len
<1>2. swapped \in [1 .. len -> S]
  BY <1>1 DEF Swapped
<1>3. swapped \in Seq(S) /\ Len(swapped) = len
  BY <1>1, <1>2
<1>4. \A k \in 1 .. len :
        swapped[k] = IF k = m + 1 THEN tokens[n + 1] ELSE IF k = n + 1 THEN tokens[m + 1] ELSE tokens[k]
  BY <1>1 DEF Swapped
<1> HIDE DEF swapped
<1>5. ASSUME NEW k \in 1 .. len
      PROVE  Mirrored(swapped, n + 1)[k] = Mirrored(tokens, n)[k]
  <2>1. Mirrored(swapped, n + 1)[k] =
          IF k \in n + 1 + 1 .. len - (n + 1) THEN swapped[len + 1 - k] ELSE swapped[k]
    BY <1>3 DEF Mirrored
  <2>2. Mirrored(tokens, n)[k] = IF k \in n + 1 .. len - n THEN tokens[len + 1 - k] ELSE tokens[k]
    BY DEF Mirrored, len
  <2>3. CASE k \in n + 2 .. len - n - 1
    <3>1. len + 1 - k \in 1 .. len /\ len + 1 - k # m + 1 /\ len + 1 - k # n + 1
      BY <1>1, <2>3
    <3>2. k \in n + 1 + 1 .. len - (n + 1) /\ k \in n + 1 .. len - n
      BY <1>1, <2>3
    <3> QED BY <1>4, <2>1, <2>2, <3>1, <3>2
  <2>4. CASE k = n + 1
    <3>1. k \notin n + 1 + 1 .. len - (n + 1) /\ k \in n + 1 .. len - n
          /\ len + 1 - k = m + 1 /\ k # m + 1
      BY <1>1, <2>4
    <3> QED BY <1>1, <1>4, <2>1, <2>2, <2>4, <3>1
  <2>5. CASE k = m + 1
    <3>1. k \notin n + 1 + 1 .. len - (n + 1) /\ k \in n + 1 .. len - n /\ len + 1 - k = n + 1
      BY <1>1, <2>5
    <3> QED BY <1>1, <1>4, <2>1, <2>2, <2>5, <3>1
  <2>6. CASE k \notin n + 1 .. len - n
    <3>1. k \notin n + 1 + 1 .. len - (n + 1) /\ k # n + 1 /\ k # m + 1
      BY <1>1, <2>6
    <3> QED BY <1>4, <2>1, <2>2, <2>6, <3>1
  <2> QED BY <1>1, <2>3, <2>4, <2>5, <2>6
<1>6. /\ Mirrored(swapped, n + 1) \in Seq(S) /\ Len(Mirrored(swapped, n + 1)) = len
      /\ Mirrored(tokens, n) \in Seq(S) /\ Len(Mirrored(tokens, n)) = len
  BY <1>3, MirroredType DEF len
<1>7. Mirrored(swapped, n + 1) = Mirrored(tokens, n)
  BY <1>5, <1>6, SeqEqual
<1> QED BY <1>3, <1>7 DEF swapped, len

(* when the indices have met, nothing is left to be mirrored *)
LEMMA MirroredAll ==
  ASSUME NEW S, NEW tokens \in Seq(S), NEW n \in Nat, n >= Len(tokens) - 1 - n
  PROVE  Mirrored(tokens, n) = tokens
<1> DEFINE len == Len(tokens)
<1>1. len \in Nat
  BY LenProperties
<1>2. Mirrored(tokens, n) \in Seq(S) /\ Len(Mirrored(tokens, n)) = len
  BY MirroredType
<1>3. \A k \in 1 .. len : k \in n + 1 .. len - n => len + 1 - k = k
  BY <1>1
<1>4. \A k \in 1 .. len : Mirrored(tokens, n)[k] = tokens[k]
  BY <1>3 DEF Mirrored
<1> QED BY <1>2, <1>4, SeqEqual

-----------------------------------------------------------------------------
(* The invariant is one.                                                   *)

LEMMA InitInv == Init => Inv
<1> SUFFICES ASSUME Init PROVE Inv
  OBVIOUS
<1>1. PICK vocab \in Vocabularies : bpe = FromDictionary(vocab)
  BY DEF Init
<1>2. bpe.vocab \in Vocabularies
  BY <1>1 DEF FromDictionary
<1>3. /\ pc = "idle" /\ algo = "none" /\ text = <<>> /\ table = <<>> /\ state = <<>>
      /\ pos = 0 /\ result = <<>> /\ i = 0
  BY DEF Init, StartState
<1>4. StateOK
  BY <1>2, <1>3 DEF StateOK
<1>5. LongestBeginning(bpe.vocab, SubSeq(text, 1, Len(table)), state)
  <2>1. SubSeq(text, 1, Len(table)) = <<>>
    BY <1>3, SubSeqEmpty
  <2>2. EndOf(<<>>, 0) = <<>>
    BY SubSeqEmpty DEF EndOf
  <2>3. 0 \in Known(bpe.vocab, <<>>) /\ \A m \in Known(bpe.vocab, <<>>) : m <= 0
    BY DEF Known
  <2> QED BY <1>3, <2>1, <2>2, <2>3 DEF LongestBeginning
<1>6. ScanInv
  BY <1>3, <1>5 DEF ScanInv
<1>7. WalkInv
  BY <1>3 DEF WalkInv
<1> QED BY <1>4, <1>6, <1>7 DEF Inv

LEMMA CallInv == ASSUME Inv, NEW a \in {"table", "minimal", "greedy"}, NEW t \in Texts, Call(a, t)
                 PROVE  Inv'
<1>1. /\ pc = "idle" /\ pc' = (IF a = "greedy" THEN "match" ELSE "scan")
      /\ algo' = a /\ text' = t
      /\ bpe' = bpe /\ table' = table /\ state' = state /\ pos' = pos /\ result' = result
      /\ i' = i
  BY DEF Call
<1>2. algo = "none" /\ table = <<>> /\ result = <<>> /\ pos = 0 /\ i = 0
  BY <1>1 DEF Inv, StateOK
<1>3. Len(t) \in Nat
  BY ByteSequences
<1>4. StateOK'
  <2>1. Entry' = Entry
    BY <1>1 DEF Entry
  <2> QED BY <1>1, <1>2, <1>3, <2>1 DEF Inv, StateOK
<1>5. ScanInv'
  <2>1. SubSeq(text, 1, 0) = <<>> /\ SubSeq(t, 1, 0) = <<>>
    BY SubSeqEmpty
  <2>2. LongestBeginning(bpe.vocab, <<>>, state)
    BY <1>1, <1>2, <2>1 DEF Inv, ScanInv
  <2>3. Len(table) = 0 /\ 1 .. 0 = {}
    BY <1>2
  <2> QED BY <1>1, <2>1, <2>2, <2>3 DEF ScanInv
<1>6. WalkInv'
  <2>1. CASE a # "greedy"
    BY <1>1, <1>2, <2>1 DEF WalkInv
  <2>2. CASE a = "greedy"
    <3>1. 0 \in 0 .. Len(text)' /\ Len(text)' \in Nat
      BY <1>1, <1>3
    <3>2. Covers(<<>>, 0, 0)'
      BY <3>1, NoBounds DEF Covers
    <3> QED BY <1>1, <1>2, <2>2, <3>1, <3>2 DEF WalkInv
  <2> QED BY <2>1, <2>2
<1> QED BY <1>4, <1>5, <1>6 DEF Inv

LEMMA ScanStepInv == ASSUME Inv, Scan PROVE Inv'
<1>1. StateOK' /\ ScanInv'
  BY ScanKeeps DEF Inv
<1>2. pc' = "scan" /\ algo' \in {"table", "minimal"} /\ result' = <<>>
  BY DEF Scan, Inv, StateOK
<1>3. WalkInv'
  BY <1>2 DEF WalkInv
<1> QED BY <1>1, <1>3 DEF Inv

(* what every step after the scan leaves alone *)
LEMMA AfterScan ==
  ASSUME StateOK, ScanInv, pc \notin {"idle", "scan"}, pc' \notin {"idle", "scan"},
         UNCHANGED <<bpe, algo, text, table>>,
         algo' = "table" => pc' \in {"walk", "reverse", "done", "undefined"},
         algo' = "minimal" => pc' \in {"walk", "done"},
         algo' = "greedy" => pc' \in {"match", "done"},
         pc' = "match" => pc = "match",
         pc' = "walk" => i' = 0
  PROVE  StateOK' /\ ScanInv' /\ EntriesFound' = EntriesFound
<1>1. bpe' = bpe /\ algo' = algo /\ text' = text /\ table' = table
  OBVIOUS
<1>2. Entry' = Entry /\ EntriesFound' = EntriesFound
  BY <1>1 DEF Entry, EntriesFound
<1>3. StateOK'
  BY <1>1, <1>2 DEF StateOK
<1>4. \A n : TokensAt(n)' = TokensAt(n) /\ MinimalAt(n)' = MinimalAt(n)
  BY <1>1 DEF TokensAt, MinimalAt, CountAt, TokenLen
<1>5. ScanInv'
  BY <1>1, <1>4 DEF ScanInv
<1> QED BY <1>2, <1>3, <1>5

LEMMA CountsAreNat ==
  ASSUME StateOK, NEW n \in 0 .. Len(table)
  PROVE  CountAt(n) \in Nat
<1>1. CASE n = 0
  BY <1>1 DEF CountAt
<1>2. CASE n # 0
  <2>1. n \in 1 .. Len(table)
    BY <1>2, TextFacts
  <2>2. table[n] \in Entry
    BY <2>1, ElementOfSeq DEF StateOK
  <2> QED BY <1>2, <2>2 DEF CountAt, Entry
<1> QED BY <1>1, <1>2

LEMMA EndScanInv == ASSUME Inv, EndScan PROVE Inv'
<1>1. /\ pc = "scan" /\ Len(table) = Len(text) /\ pc' = "walk" /\ pos' = Len(text)
      /\ UNCHANGED <<bpe, algo, text, table, state, result, i, j>>
  BY DEF EndScan
<1>2. algo \in {"table", "minimal"} /\ result = <<>> /\ i = 0 /\ Len(text) \in Nat
  BY <1>1, TextFacts DEF Inv, StateOK
<1>3. StateOK'
  <2>1. Entry' = Entry
    BY <1>1 DEF Entry
  <2> QED BY <1>1, <1>2, <2>1 DEF Inv, StateOK
<1>4. ScanInv'
  <2>1. \A n : TokensAt(n)' = TokensAt(n) /\ MinimalAt(n)' = MinimalAt(n)
    BY <1>1 DEF TokensAt, MinimalAt, CountAt, TokenLen
  <2> QED BY <1>1, <2>1 DEF Inv, ScanInv
<1>5. WalkInv'
  <2>1. Covers(<<>>, Len(text), Len(text))'
    BY <1>1, <1>2, NoBounds DEF Covers
  <2>2. Mirrored(<<>>, 0) = <<>>
    BY DEF Mirrored
  <2>3. Covers(IF algo = "table" THEN Mirrored(result, 0) ELSE result, pos, Len(text))'
    BY <1>1, <1>2, <2>1, <2>2
  <2>4. CountAt(Len(text)) \in Nat
    BY <1>1, <1>2, CountsAreNat DEF Inv
  <2>5. (Len(result) + CountAt(pos) = CountAt(Len(text)))'
    BY <1>1, <1>2, <2>4 DEF CountAt
  <2> QED BY <1>1, <1>2, <2>3, <2>5 DEF WalkInv
<1> QED BY <1>3, <1>4, <1>5 DEF Inv

LEMMA WalkBackInv == ASSUME Inv, WalkBack PROVE Inv'
<1> DEFINE token == table[pos].token
           from  == pos - TokenLen(bpe, token)
<1>1. /\ pc = "walk" /\ pos > 0 /\ pos' = from
      /\ result' = (IF algo = "minimal" THEN <<token>> \o result ELSE Append(result, token))
      /\ pc' = pc /\ i' = i
      /\ UNCHANGED <<bpe, algo, text, table>>
  BY DEF WalkBack
<1>2. algo \in {"table", "minimal"} /\ i = 0 /\ Len(table) = Len(text)
  BY <1>1 DEF Inv, StateOK, ScanInv
<1>3. StateOK' /\ ScanInv' /\ EntriesFound' = EntriesFound
  BY <1>1, <1>2, AfterScan DEF Inv
<1>4. ASSUME EntriesFound PROVE WalkInv'
  <2>1. /\ result \in Seq(DOMAIN bpe.vocab) /\ pos \in 0 .. Len(text)
        /\ Covers(IF algo = "table" THEN Mirrored(result, 0) ELSE result, pos, Len(text))
        /\ algo = "minimal" => Len(result) + CountAt(pos) = CountAt(Len(text))
    BY <1>1, <1>4 DEF Inv, WalkInv
  <2>2. pos \in 1 .. Len(table) /\ Len(text) \in Nat
    BY <1>1, <1>2, <2>1, TextFacts DEF Inv
  <2>3. token \in TokensAt(pos) /\ (algo = "minimal" => MinimalAt(pos))
    BY <1>2, <1>4, <2>2 DEF Inv, ScanInv, EntriesFound, MinimalAt
  <2>4. token \in DOMAIN bpe.vocab /\ TokenLen(bpe, token) \in Nat \ {0}
        /\ TokenLen(bpe, token) <= pos
    BY <2>3, TextFacts DEF Inv, TokensAt
  <2> HIDE DEF token
  <2>5. from \in 0 .. Len(text)
    BY <2>1, <2>2, <2>4
  <2>6. CASE algo = "table"
    <3> DEFINE S     == DOMAIN bpe.vocab
               found == Append(result, token)
               rev   == Mirrored(result, 0)
    <3>1. result \in Seq(S) /\ token \in S /\ 0 \in Nat
      BY <2>1, <2>4
    <3>2. found \in Seq(S) /\ rev \in Seq(S) /\ Mirrored(found, 0) = <<token>> \o rev
      <4> HIDE DEF S
      <4> QED BY <3>1, AppendProperties, MirroredType, MirroredAppend
    <3>3. Covers(rev, pos, Len(text))
      BY <2>1, <2>6
    <3>4. Covers(<<token>> \o rev, from, Len(text))
      <4> HIDE DEF rev, from
      <4> QED BY <2>1, <2>3, <3>2, <3>3, TokenBefore DEF Inv, from
    <3>5. result' = found /\ Covers(Mirrored(found, 0), from, Len(text))
      BY <1>1, <2>6, <3>2, <3>4
    <3> HIDE DEF found, from
    <3>6. Covers(Mirrored(result, 0), pos, Len(text))'
      BY <1>1, <3>5 DEF Covers, Mirrored, TokenLen
    <3> QED BY <1>1, <1>2, <2>5, <2>6, <3>2, <3>5, <3>6 DEF WalkInv
  <2>7. CASE algo = "minimal"
    <3> DEFINE S     == DOMAIN bpe.vocab
               one   == <<token>>
               found == one \o result
    <3>1. result \in Seq(S) /\ token \in S
      BY <2>1, <2>4
    <3>2. found \in Seq(S) /\ Len(found) = Len(result) + 1 /\ Len(result) \in Nat
      <4>1. one \in Seq(S) /\ Len(one) = 1
        <5> HIDE DEF S
        <5> QED BY <3>1
      <4> HIDE DEF S, one
      <4>2. found \in Seq(S) /\ Len(found) = Len(one) + Len(result)
        BY <3>1, <4>1, ConcatProperties
      <4> QED BY <3>1, <4>1, <4>2, LenProperties
    <3>3. Covers(found, from, Len(text))
      <4> HIDE DEF from
      <4> QED BY <2>1, <2>3, <2>7, TokenBefore DEF Inv, from
    <3>4. CountAt(pos) = CountAt(from) + 1
      BY <1>1, <2>3, <2>7 DEF MinimalAt, CountAt, token
    <3>5. CountAt(from) \in Nat
      BY <1>2, <2>5, CountsAreNat DEF Inv
    <3>6. Len(found) + CountAt(from) = CountAt(Len(text))
      BY <2>1, <2>7, <3>2, <3>4, <3>5
    <3>7. result' = found
      BY <1>1, <2>7
    <3> HIDE DEF found, from
    <3>8. Covers(result, pos, Len(text))'
      BY <1>1, <3>3, <3>7 DEF Covers, TokenLen
    <3>9. (Len(result) + CountAt(pos) = CountAt(Len(text)))'
      BY <1>1, <3>6, <3>7 DEF CountAt
    <3> QED BY <1>1, <1>2, <2>5, <2>7, <3>2, <3>7, <3>8, <3>9 DEF WalkInv
  <2> QED BY <1>2, <2>6, <2>7
<1> QED BY <1>3, <1>4 DEF Inv

LEMMA EndWalkInv == ASSUME Inv, EndWalk PROVE Inv'
<1>1. /\ pc = "walk" /\ pos = 0
      /\ pc' = (IF algo = "table" THEN "reverse" ELSE "done")
      /\ j' = (IF algo # "table" THEN 0 ELSE IF result = <<>> THEN SIZE_MAX ELSE Len(result) - 1)
      /\ i' = i /\ result' = result
      /\ UNCHANGED <<bpe, algo, text, table>>
  BY DEF EndWalk
<1>2. algo \in {"table", "minimal"} /\ i = 0
  BY <1>1 DEF Inv, StateOK
<1>3. StateOK' /\ ScanInv' /\ EntriesFound' = EntriesFound
  BY <1>1, <1>2, AfterScan DEF Inv
<1>4. ASSUME EntriesFound PROVE WalkInv'
  <2>1. /\ result \in Seq(DOMAIN bpe.vocab)
        /\ Covers(IF algo = "table" THEN Mirrored(result, 0) ELSE result, 0, Len(text))
        /\ algo = "minimal" => Len(result) + CountAt(0) = CountAt(Len(text))
    BY <1>1, <1>4 DEF Inv, WalkInv
  <2>2. CASE algo = "table"
    <3>1. Covers(Mirrored(result, i), 0, Len(text))'
      <4>1. Mirrored(result, i)' = Mirrored(result, 0)
        BY <1>1, <1>2 DEF Mirrored
      <4>2. Covers(Mirrored(result, 0), 0, Len(text))
        BY <2>1, <2>2
      <4> QED BY <1>1, <4>1, <4>2 DEF Covers, TokenLen
    <3>2. (IF result = <<>> THEN i = 0 /\ j = SIZE_MAX ELSE j = Len(result) - 1 - i)'
      <4>1. Len(result) \in Nat
        BY <2>1, LenProperties
      <4> QED BY <1>1, <1>2, <2>2, <4>1
    <3> QED BY <1>1, <1>2, <2>1, <2>2, <3>1, <3>2 DEF WalkInv
  <2>3. CASE algo = "minimal"
    <3>1. Covers(result, 0, Len(text))'
      BY <1>1, <2>1, <2>3 DEF Covers, TokenLen
    <3>2. (Len(result) = CountAt(Len(text)))'
      <4>1. Len(result) \in Nat /\ CountAt(0) = 0
        BY <2>1, LenProperties DEF CountAt
      <4> QED BY <1>1, <2>1, <2>3, <4>1 DEF CountAt
    <3> QED BY <1>1, <1>2, <2>1, <2>3, <3>1, <3>2 DEF WalkInv
  <2> QED BY <1>2, <2>2, <2>3
<1> QED BY <1>3, <1>4 DEF Inv

LEMMA ReverseInv == ASSUME Inv, SwapEnds \/ SwapOutside \/ EndReverse PROVE Inv'
<1>1. /\ pc = "reverse" /\ pc' \in {"reverse", "undefined", "done"}
      /\ UNCHANGED <<bpe, algo, text, table>>
  BY DEF SwapEnds, SwapOutside, EndReverse
<1>2. algo = "table"
  BY <1>1 DEF Inv, StateOK
<1>3. StateOK' /\ ScanInv' /\ EntriesFound' = EntriesFound
  BY <1>1, <1>2, AfterScan DEF Inv
<1>4. ASSUME EntriesFound PROVE WalkInv'
  <2>1. /\ result \in Seq(DOMAIN bpe.vocab) /\ i \in Nat
        /\ IF result = <<>> THEN i = 0 /\ j = SIZE_MAX ELSE j = Len(result) - 1 - i
        /\ Covers(Mirrored(result, i), 0, Len(text))
    BY <1>1, <1>4 DEF Inv, WalkInv
  <2>2. Len(result) \in Nat /\ (result = <<>> => Len(result) = 0)
    BY <2>1, LenProperties
  <2>3. CASE SwapEnds
    <3> DEFINE swapped == Swapped(result, i, j)
               S       == DOMAIN bpe.vocab
    <3>1. /\ pc' = "reverse" /\ ~(i >= j) /\ j < Len(result)
          /\ result' = swapped /\ i' = i + 1 /\ j' = j - 1
      BY <1>1, <2>3 DEF SwapEnds, Crossed, Swapped
    <3>2. result # <<>> /\ j = Len(result) - 1 - i /\ j \in Nat /\ i < j
      <4>1. result # <<>>
        <5> SUFFICES ASSUME result = <<>> PROVE FALSE
          OBVIOUS
        <5>1. j = SIZE_MAX /\ Len(result) = 0
          BY <2>1, <2>2
        <5> QED BY <3>1, <5>1, SizeMaxAssumption
      <4> QED BY <2>1, <2>2, <3>1, <4>1
    <3>3. /\ swapped \in Seq(S) /\ Len(swapped) = Len(result)
          /\ Mirrored(swapped, i + 1) = Mirrored(result, i)
      <4>1. result \in Seq(S) /\ i \in Nat /\ j \in Nat /\ j = Len(result) - 1 - i /\ i < j
        BY <2>1, <3>2
      <4> HIDE DEF S
      <4> QED BY <4>1, MirroredSwap
    <3> HIDE DEF swapped
    <3>4. swapped # <<>> /\ j' = Len(swapped) - 1 - i' /\ i' \in Nat
      BY <2>1, <2>2, <3>1, <3>2, <3>3
    <3>5. Covers(Mirrored(result, i), 0, Len(text))'
      <4> DEFINE next == i + 1
      <4>1. Covers(Mirrored(swapped, next), 0, Len(text))
        BY <2>1, <3>3
      <4>2. i' = next
        BY <3>1
      <4> HIDE DEF next
      <4>3. Mirrored(result, i)' = Mirrored(swapped, next)
        BY <3>1, <4>2 DEF Mirrored
      <4> QED BY <1>1, <4>1, <4>3 DEF Covers, TokenLen
    <3> QED BY <1>1, <1>2, <3>1, <3>3, <3>4, <3>5 DEF WalkInv
  <2>4. CASE SwapOutside
    BY <1>1, <1>2, <2>1, <2>4 DEF SwapOutside, WalkInv
  <2>5. CASE EndReverse
    <3>1. pc' = "done" /\ i >= j /\ result' = result
      BY <2>5 DEF EndReverse, Crossed
    <3>2. i >= Len(result) - 1 - i
      BY <2>1, <2>2, <3>1
    <3>3. Mirrored(result, i) = result
      BY <2>1, <3>2, MirroredAll
    <3>4. Covers(result, 0, Len(text))'
      BY <1>1, <2>1, <3>1, <3>3, SMTT(60) DEF Covers, TokenLen
    <3> QED BY <1>1, <1>2, <2>1, <3>1, <3>4 DEF WalkInv
  <2> QED BY <2>3, <2>4, <2>5
<1> QED BY <1>3, <1>4 DEF Inv

LEMMA MatchInv == ASSUME Inv, Match \/ EndMatch PROVE Inv'
<1>1. /\ pc = "match" /\ pc' \in {"match", "done"} /\ i' = i
      /\ UNCHANGED <<bpe, algo, text, table>>
  BY DEF Match, EndMatch
<1>2. algo = "greedy" /\ EntriesFound
  BY <1>1 DEF Inv, StateOK, EntriesFound
<1>3. StateOK' /\ ScanInv' /\ EntriesFound' = EntriesFound
  BY <1>1, <1>2, AfterScan DEF Inv
<1>4. /\ result \in Seq(DOMAIN bpe.vocab) /\ pos \in 0 .. Len(text)
      /\ Covers(result, 0, pos) /\ Len(text) \in Nat
  BY <1>1, <1>2, TextFacts DEF Inv, WalkInv
<1>5. CASE Match
  <2> DEFINE token == NextMatch(bpe.vocab, text, pos, Len(text))
             S     == DOMAIN bpe.vocab
  <2>1. /\ pc' = "match" /\ pos < Len(text)
        /\ result' = Append(result, token) /\ pos' = pos + TokenLen(bpe, token)
    BY <1>1, <1>5 DEF Match
  <2>2. token \in S /\ OccursAt(bpe.vocab[token], text, pos, Len(text))
    <3>1. \A id \in DOMAIN bpe.vocab : Len(bpe.vocab[id]) \in Nat
      BY TextFacts DEF Inv, TokenLen
    <3>2. Complete(bpe.vocab, text)
      BY TextFacts DEF Inv
    <3> DEFINE vocab == bpe.vocab
               to    == Len(text)
    <3>3. to \in Nat /\ pos \in Nat /\ pos <= to /\ pos # to
      BY <1>4, <2>1
    <3>4. LET match == NextMatch(vocab, text, pos, to)
          IN  IF pos = to THEN match = UINT32_MAX
              ELSE match \in DOMAIN vocab /\ OccursAt(vocab[match], text, pos, to)
      <4>1. to = Len(text) /\ Complete(vocab, text) /\ \A id \in DOMAIN vocab : Len(vocab[id]) \in Nat
        BY <3>1, <3>2
      <4> HIDE DEF vocab, to
      <4> QED BY <3>3, <4>1, NextMatchComplete
    <3> QED BY <3>3, <3>4
  <2> HIDE DEF token
  <2>3. pos' \in 0 .. Len(text) /\ Covers(result', 0, pos')
    BY <1>4, <2>1, <2>2, TokenAfter DEF Inv
  <2>4. result' \in Seq(S)
    <3>1. result \in Seq(S) /\ token \in S
      BY <1>4, <2>2
    <3> HIDE DEF S
    <3> QED BY <2>1, <3>1, AppendProperties
  <2>5. Covers(result, 0, pos)'
    BY <1>1, <2>3 DEF Covers, TokenLen
  <2> QED BY <1>1, <1>2, <1>3, <2>1, <2>3, <2>4, <2>5 DEF Inv, WalkInv
<1>6. CASE EndMatch
  <2>1. pc' = "done" /\ pos = Len(text) /\ result' = result
    BY <1>4, <1>6 DEF EndMatch
  <2>2. Covers(result, 0, Len(text))'
    BY <1>1, <1>4, <2>1 DEF Covers, TokenLen
  <2> QED BY <1>1, <1>2, <1>3, <1>4, <2>1, <2>2 DEF Inv, WalkInv
<1> QED BY <1>5, <1>6

LEMMA NextInv == Inv /\ [Next]_vars => Inv'
<1> SUFFICES ASSUME Inv, [Next]_vars PROVE Inv'
  OBVIOUS
<1>1. CASE \E a \in {"table", "minimal", "greedy"}, t \in Texts : Call(a, t)
  BY <1>1, CallInv
<1>2. CASE Scan
  BY <1>2, ScanStepInv
<1>3. CASE EndScan
  BY <1>3, EndScanInv
<1>4. CASE WalkBack
  BY <1>4, WalkBackInv
<1>5. CASE EndWalk
  BY <1>5, EndWalkInv
<1>6. CASE SwapEnds \/ SwapOutside \/ EndReverse
  BY <1>6, ReverseInv
<1>7. CASE Match \/ EndMatch
  BY <1>7, MatchInv
<1>8. CASE UNCHANGED vars
  <2>1. UNCHANGED <<bpe, pc, algo, text, table, state, pos, result, i, j>>
    BY <1>8 DEF vars
  <2>2. Entry' = Entry
    BY <2>1 DEF Entry
  <2>3. \A n : TokensAt(n)' = TokensAt(n) /\ MinimalAt(n)' = MinimalAt(n) /\ CountAt(n)' = CountAt(n)
    BY <2>1 DEF TokensAt, MinimalAt, CountAt, TokenLen
  <2>4. \A tokens, from, to : Covers(tokens, from, to)' = Covers(tokens, from, to)
    BY <2>1 DEF Covers, TokenLen
  <2>5. StateOK'
    BY <2>1, <2>2 DEF Inv, StateOK
  <2>6. ScanInv'
    BY <2>1, <2>3 DEF Inv, ScanInv
  <2>7. EntriesFound => WalkInv'
    BY <2>1, <2>3, <2>4 DEF Inv, WalkInv, Mirrored
  <2>8. EntriesFound' = EntriesFound
    BY <2>1 DEF EntriesFound
  <2> QED BY <2>5, <2>6, <2>7, <2>8 DEF Inv
<1> QED BY <1>1, <1>2, <1>3, <1>4, <1>5, <1>6, <1>7, <1>8 DEF Next

(***************************************************************************)
(* The invariant that follows is one of the three encoders: the tables     *)
(* hold what they should, and the tokens found cover the text from the     *)
(* walk's position on (or up to the match's position).                     *)
(***************************************************************************)
THEOREM Invariance == Spec => []Inv
<1>1. Init => Inv
  BY InitInv
<1>2. Inv /\ [Next]_vars => Inv'
  BY NextInv
<1> QED BY <1>1, <1>2, PTL DEF Spec

-----------------------------------------------------------------------------
(* What tokens decode to.                                                  *)

(* bpe_decode_tokens, token by token *)
Decodes(bytes, tokens, n) ==
  /\ bytes \in [0 .. n -> Seq(AllBytes)]
  /\ bytes[0] = <<>>
  /\ \A k \in 1 .. n : bytes[k] = bytes[k - 1] \o bpe.vocab[tokens[k]]

LEMMA DecodeUnfolds ==
  ASSUME StateOK, NEW tokens, Len(tokens) \in Nat,
         \A k \in 1 .. Len(tokens) : tokens[k] \in DOMAIN bpe.vocab
  PROVE  \E bytes : /\ Decodes(bytes, tokens, Len(tokens))
                    /\ Decode(tokens) = bytes[Len(tokens)]
<1> DEFINE n    == Len(tokens)
           S    == Seq(AllBytes)
           step == [nx \in (1 .. n) \X S |-> nx[2] \o bpe.vocab[tokens[nx[1]]]]
           B(f) == [k \in 0 .. n |-> IF k = 0 THEN <<>> ELSE f[k - 1] \o bpe.vocab[tokens[k]]]
           bytes == CHOOSE f : f = B(f)
<1>1. \A k \in 1 .. n : bpe.vocab[tokens[k]] \in S
  BY ByteSequences DEF StateOK
<1>2. <<>> \in S
  BY ByteSequences
<1>3. \A k \in 1 .. n, x \in S : step[<<k, x>>] = x \o bpe.vocab[tokens[k]]
  OBVIOUS
<1>4. \A k \in 1 .. n, x \in S : x \o bpe.vocab[tokens[k]] \in S
  BY <1>1, ConcatProperties
<1>5. StepsIn(step, n, S)
  BY <1>3, <1>4 DEF StepsIn
<1>6. PICK f : Recursion(f, <<>>, step, n, S)
  <2> HIDE DEF step, n, S
  <2> QED BY <1>2, <1>5, RecursionExists DEF n
<1>7. /\ f \in [0 .. n -> S] /\ f[0] = <<>>
      /\ \A k \in 1 .. n : f[k] = f[k - 1] \o bpe.vocab[tokens[k]]
  <2>1. \A k \in 1 .. n : f[k - 1] \in S /\ f[k] = step[<<k, f[k - 1]>>]
    <3> HIDE DEF step, S
    <3> QED BY <1>6 DEF Recursion
  <2> QED BY <1>3, <1>6, <2>1 DEF Recursion
<1> HIDE DEF S
<1>8. f = B(f)
  <2>1. f = [k \in 0 .. n |-> f[k]]
    BY <1>7
  <2>2. \A k \in 0 .. n : f[k] = IF k = 0 THEN <<>> ELSE f[k - 1] \o bpe.vocab[tokens[k]]
    BY <1>7
  <2> QED BY <2>1, <2>2
<1>9. bytes = B(bytes)
  <2> HIDE DEF B
  <2> QED BY <1>8
<1>10. Decode(tokens) = bytes[n]
  BY DEF Decode
<1>11. \A g : g = B(g) => \A k \in 0 .. n : g[k] = IF k = 0 THEN <<>> ELSE g[k - 1] \o bpe.vocab[tokens[k]]
  OBVIOUS
<1> HIDE DEF bytes, B
<1>12. bytes = f
  <2> DEFINE same == {k \in Nat : k <= n => bytes[k] = f[k]}
  <2>1. 0 \in same
    BY <1>8, <1>9, <1>11
  <2>2. ASSUME NEW k \in Nat, k \in same PROVE k + 1 \in same
    <3> SUFFICES ASSUME k + 1 <= n PROVE bytes[k + 1] = f[k + 1]
      OBVIOUS
    <3>1. bytes[k] = f[k] /\ k + 1 \in 0 .. n /\ k + 1 # 0 /\ k + 1 - 1 = k
      BY <2>2
    <3> QED BY <1>8, <1>9, <1>11, <3>1
  <2>3. \A k \in Nat : k \in same
    <3> HIDE DEF same
    <3> QED BY <2>1, <2>2, SetInduction
  <2>4. \A k \in 0 .. n : bytes[k] = f[k]
    BY <2>3
  <2>5. bytes = [k \in 0 .. n |-> bytes[k]]
    BY <1>9 DEF B
  <2> QED BY <1>7, <2>4, <2>5
<1> QED BY <1>7, <1>10, <1>12 DEF Decodes, S

(* one more token that stands in the text *)
LEMMA LongerBeginning ==
  ASSUME NEW S, NEW s \in Seq(S), NEW word \in Seq(S), NEW p \in 0 .. Len(s), NEW q \in 0 .. Len(s),
         q = p + Len(word), OccursAt(word, s, p, q)
  PROVE  SubSeq(s, 1, p) \o word = SubSeq(s, 1, q)
<1> DEFINE a == SubSeq(s, 1, p)
           b == SubSeq(s, 1, q)
           c == a \o word
<1>1. Len(s) \in Nat /\ Len(word) \in Nat
  BY LenProperties
<1>2. a \in Seq(S) /\ Len(a) = p /\ \A k \in 1 .. p : a[k] = s[k]
  BY TextUpTo
<1>3. b \in Seq(S) /\ Len(b) = q /\ \A k \in 1 .. q : b[k] = s[k]
  BY TextUpTo
<1> HIDE DEF a, b
<1>4. /\ c \in Seq(S) /\ Len(c) = Len(a) + Len(word)
      /\ \A k \in 1 .. Len(a) + Len(word) : c[k] = IF k <= Len(a) THEN a[k] ELSE word[k - Len(a)]
  BY <1>2, ConcatProperties
<1> HIDE DEF c
<1>5. ASSUME NEW k \in 1 .. q PROVE c[k] = b[k]
  <2>1. c[k] = IF k <= p THEN a[k] ELSE word[k - p]
    BY <1>2, <1>4
  <2>2. CASE k <= p
    BY <1>2, <1>3, <2>1, <2>2, SMTT(60)
  <2>3. CASE ~(k <= p)
    <3>1. k - p \in 1 .. Len(word) /\ p + (k - p) = k
      BY <1>1, <2>3
    <3>2. s[p + (k - p)] = word[k - p]
      BY <3>1 DEF OccursAt
    <3> QED BY <1>3, <2>1, <2>3, <3>1, <3>2
  <2> QED BY <2>2, <2>3
<1>6. c = b
  BY <1>2, <1>3, <1>4, <1>5, SeqEqual
<1> QED BY <1>6 DEF a, b, c

(* tokens that stand in the text from its first byte to its last decode to it *)
LEMMA CoveringDecodes ==
  ASSUME StateOK, NEW tokens, Len(tokens) \in Nat, Covers(tokens, 0, Len(text))
  PROVE  Decode(tokens) = text
<1> DEFINE n == Len(tokens)
           B == AllBytes
<1>1. PICK bounds \in [0 .. n -> 0 .. Len(text)] :
        /\ bounds[0] = 0
        /\ bounds[n] = Len(text)
        /\ \A k \in 1 .. n :
             /\ tokens[k] \in DOMAIN bpe.vocab
             /\ bounds[k] = bounds[k - 1] + TokenLen(bpe, tokens[k])
             /\ OccursAt(bpe.vocab[tokens[k]], text, bounds[k - 1], bounds[k])
  BY DEF Covers
<1>2. PICK bytes : Decodes(bytes, tokens, n) /\ Decode(tokens) = bytes[n]
  BY <1>1, DecodeUnfolds
<1>3. text \in Seq(B) /\ Len(text) \in Nat
  BY TextFacts
<1> DEFINE good == {k \in Nat : k <= n => bytes[k] = SubSeq(text, 1, bounds[k])}
<1>4. 0 \in good
  BY <1>1, <1>2, SubSeqEmpty DEF Decodes
<1>5. ASSUME NEW k \in Nat, k \in good PROVE k + 1 \in good
  <2> SUFFICES ASSUME k + 1 <= n PROVE bytes[k + 1] = SubSeq(text, 1, bounds[k + 1])
    OBVIOUS
  <2> DEFINE id   == tokens[k + 1]
             word == bpe.vocab[id]
             p    == bounds[k]
             q    == bounds[k + 1]
  <2>1. k + 1 \in 1 .. n /\ k + 1 - 1 = k /\ k \in 0 .. n /\ k + 1 \in 0 .. n
    BY <1>5
  <2>2. id \in DOMAIN bpe.vocab /\ q = p + TokenLen(bpe, id) /\ OccursAt(word, text, p, q)
    BY <1>1, <2>1
  <2>3. p \in 0 .. Len(text) /\ q \in 0 .. Len(text)
    BY <1>1, <2>1
  <2>4. word \in Seq(B) /\ q = p + Len(word)
    BY <2>2, TextFacts DEF AreWords, TokenLen
  <2>5. bytes[k + 1] = bytes[k] \o word /\ bytes[k] = SubSeq(text, 1, p)
    <3>1. bytes[k + 1] = bytes[k] \o bpe.vocab[tokens[k + 1]]
      <4> DEFINE l == k + 1
      <4>1. l \in 1 .. n /\ l - 1 = k
        BY <2>1
      <4> HIDE DEF l, n
      <4>2. bytes[l] = bytes[l - 1] \o bpe.vocab[tokens[l]]
        BY <1>2, <4>1 DEF Decodes
      <4>3. bytes[l] = bytes[k] \o bpe.vocab[tokens[l]]
        BY <4>1, <4>2
      <4> QED BY <4>3 DEF l
    <3>2. bytes[k] = SubSeq(text, 1, bounds[k])
      BY <1>5
    <3> QED BY <2>1, <3>1, <3>2
  <2>6. SubSeq(text, 1, p) \o word = SubSeq(text, 1, q)
    <3> HIDE DEF p, q, word, B
    <3> QED BY <1>3, <2>2, <2>3, <2>4, LongerBeginning
  <2> QED BY <2>5, <2>6
<1>6. n \in good
  <2> HIDE DEF good
  <2> QED BY <1>4, <1>5, SetInduction
<1>7. SubSeq(text, 1, Len(text)) = text
  <2> DEFINE all == SubSeq(text, 1, Len(text))
  <2>1. all \in Seq(B) /\ Len(all) = Len(text) /\ \A k \in 1 .. Len(text) : all[k] = text[k]
    <3> HIDE DEF B
    <3> QED BY <1>3, TextUpTo
  <2> HIDE DEF all
  <2>2. all = text
    BY <1>3, <2>1, SeqEqual
  <2> QED BY <2>2 DEF all
<1>8. bytes[n] = SubSeq(text, 1, bounds[n])
  BY <1>6
<1> QED BY <1>1, <1>2, <1>7, <1>8

(* the count of an entry is the least number of tokens that spell the text *)
(* up to it                                                                *)
LEMMA CountIsLeast ==
  ASSUME StateOK, ScanInv, algo = "minimal", Len(table) = Len(text),
         NEW n \in Nat, NEW tokens \in [1 .. n -> DOMAIN bpe.vocab], Decode(tokens) = text
  PROVE  CountAt(Len(text)) <= n
<1> DEFINE B == AllBytes
<1>1. Len(tokens) = n /\ \A k \in 1 .. n : tokens[k] \in DOMAIN bpe.vocab
  OBVIOUS
<1>2. PICK bytes : Decodes(bytes, tokens, n) /\ bytes[n] = text
  BY <1>1, DecodeUnfolds
<1>3. text \in Seq(B) /\ Len(text) \in Nat
  BY TextFacts
<1>4. \A k \in 0 .. n : bytes[k] \in Seq(B) /\ Len(bytes[k]) \in Nat
  BY <1>2, LenProperties DEF Decodes
<1>5. ASSUME NEW k \in 1 .. n
      PROVE  /\ TokenLen(bpe, tokens[k]) \in Nat \ {0}
             /\ Len(bytes[k]) = Len(bytes[k - 1]) + TokenLen(bpe, tokens[k])
             /\ \A m \in 1 .. Len(bytes[k - 1]) : bytes[k][m] = bytes[k - 1][m]
             /\ \A m \in 1 .. TokenLen(bpe, tokens[k]) :
                  bytes[k][Len(bytes[k - 1]) + m] = bpe.vocab[tokens[k]][m]
  <2> DEFINE word == bpe.vocab[tokens[k]]
             left == bytes[k - 1]
             both == bytes[k]
  <2>1. word \in Seq(B) /\ Len(word) \in Nat \ {0} /\ TokenLen(bpe, tokens[k]) = Len(word)
    BY <1>1, TextFacts DEF AreWords, TokenLen
  <2>2. left \in Seq(B) /\ Len(left) \in Nat
    BY <1>4
  <2>3. both = left \o word
    BY <1>2 DEF Decodes
  <2> HIDE DEF word, left, both, B
  <2>4. /\ Len(both) = Len(left) + Len(word)
        /\ \A m \in 1 .. Len(left) + Len(word) :
             both[m] = IF m <= Len(left) THEN left[m] ELSE word[m - Len(left)]
    BY <2>1, <2>2, <2>3, ConcatProperties
  <2>5. \A m \in 1 .. Len(left) : both[m] = left[m]
    BY <2>1, <2>2, <2>4
  <2>6. \A m \in 1 .. Len(word) : both[Len(left) + m] = word[m]
    <3> SUFFICES ASSUME NEW m \in 1 .. Len(word) PROVE both[Len(left) + m] = word[m]
      OBVIOUS
    <3>1. /\ Len(left) + m \in 1 .. Len(left) + Len(word)
          /\ ~(Len(left) + m <= Len(left)) /\ (Len(left) + m) - Len(left) = m
      BY <2>1, <2>2
    <3> QED BY <2>4, <3>1
  <2> QED BY <2>1, <2>4, <2>5, <2>6 DEF word, left, both
<1> DEFINE IsUpTo(k) ==
             /\ Len(bytes[k]) <= Len(text)
             /\ \A m \in 1 .. Len(bytes[k]) : bytes[k][m] = text[m]
<1>6. \A k \in 0 .. n : IsUpTo(k)
  <2> DEFINE good == {d \in Nat : d <= n => IsUpTo(n - d)}
  <2>1. 0 \in good
    BY <1>2, <1>3
  <2>2. ASSUME NEW d \in Nat, d \in good PROVE d + 1 \in good
    <3> SUFFICES ASSUME d + 1 <= n PROVE IsUpTo(n - (d + 1))
      OBVIOUS
    <3> DEFINE k == n - d
    <3>1. k \in 1 .. n /\ k - 1 = n - (d + 1) /\ k \in 0 .. n /\ k - 1 \in 0 .. n
      OBVIOUS
    <3>2. IsUpTo(k)
      BY <2>2
    <3> HIDE DEF k
    <3>3. IsUpTo(k - 1)
      <4>1. Len(bytes[k - 1]) <= Len(bytes[k]) /\ Len(bytes[k]) \in Nat /\ Len(bytes[k - 1]) \in Nat
        BY <1>4, <1>5, <3>1
      <4>2. \A m \in 1 .. Len(bytes[k - 1]) : m \in 1 .. Len(bytes[k]) /\ bytes[k][m] = bytes[k - 1][m]
        BY <1>5, <3>1, <4>1
      <4> QED BY <1>3, <3>2, <4>1, <4>2
    <3> HIDE DEF IsUpTo
    <3> QED BY <3>1, <3>3
  <2>3. \A d \in Nat : d \in good
    <3> HIDE DEF good
    <3> QED BY <2>1, <2>2, SetInduction
  <2> SUFFICES ASSUME NEW k \in 0 .. n PROVE IsUpTo(k)
    OBVIOUS
  <2>4. n - k \in Nat /\ n - k <= n /\ n - (n - k) = k
    OBVIOUS
  <2> HIDE DEF IsUpTo
  <2>5. IsUpTo(n - (n - k))
    BY <2>3, <2>4
  <2> QED BY <2>4, <2>5
<1> DEFINE few == {k \in Nat : k <= n => CountAt(Len(bytes[k])) <= k}
<1>7. 0 \in few
  <2>1. Len(bytes[0]) = 0
    BY <1>2, ByteSequences DEF Decodes
  <2> QED BY <2>1 DEF CountAt
<1>8. ASSUME NEW k \in Nat, k \in few PROVE k + 1 \in few
  <2> SUFFICES ASSUME k + 1 <= n PROVE CountAt(Len(bytes[k + 1])) <= k + 1
    OBVIOUS
  <2> DEFINE l  == k + 1
             id == tokens[l]
             p  == Len(bytes[k])
             q  == Len(bytes[l])
  <2>1. l \in 1 .. n /\ l - 1 = k /\ k \in 0 .. n /\ l \in 0 .. n
    OBVIOUS
  <2>2. CountAt(p) <= k
    BY <1>8
  <2> HIDE DEF l
  <2>3. /\ TokenLen(bpe, id) \in Nat \ {0} /\ q = p + TokenLen(bpe, id) /\ p \in Nat
        /\ \A m \in 1 .. TokenLen(bpe, id) : bytes[l][p + m] = bpe.vocab[id][m]
    BY <1>4, <1>5, <2>1
  <2>4. q <= Len(text) /\ \A m \in 1 .. q : bytes[l][m] = text[m]
    BY <1>6, <2>1
  <2>5. id \in DOMAIN bpe.vocab
    BY <1>1, <2>1
  <2> HIDE DEF p, q, id
  <2>6. q \in 1 .. Len(table) /\ q - TokenLen(bpe, id) = p /\ p \in 0 .. Len(table)
    BY <1>3, <2>3, <2>4
  <2>7. OccursAt(bpe.vocab[id], text, p, q)
    <3>1. \A m \in 1 .. TokenLen(bpe, id) : text[p + m] = bpe.vocab[id][m]
      <4> SUFFICES ASSUME NEW m \in 1 .. TokenLen(bpe, id) PROVE text[p + m] = bpe.vocab[id][m]
        OBVIOUS
      <4>1. p + m \in 1 .. q
        BY <2>3
      <4> QED BY <2>3, <2>4, <4>1
    <3> QED BY <2>3, <3>1 DEF OccursAt, TokenLen
  <2>8. id \in TokensAt(q)
    BY <2>3, <2>5, <2>6, <2>7 DEF TokensAt
  <2> DEFINE best == table[q].token
  <2>9. /\ best \in TokensAt(q)
        /\ CountAt(q) = CountAt(q - TokenLen(bpe, best)) + 1
        /\ CountAt(q - TokenLen(bpe, best)) <= CountAt(p)
    BY <2>6, <2>8 DEF ScanInv, MinimalAt, CountAt
  <2>10. q - TokenLen(bpe, best) \in 0 .. Len(table)
    <3>1. TokenLen(bpe, best) \in Nat \ {0} /\ TokenLen(bpe, best) <= q
      BY <2>9, TextFacts DEF TokensAt
    <3> HIDE DEF best
    <3> QED BY <2>6, <3>1
  <2>11. CountAt(q - TokenLen(bpe, best)) \in Nat /\ CountAt(p) \in Nat
    BY <2>6, <2>10, CountsAreNat
  <2>12. CountAt(q) <= k + 1
    <3> HIDE DEF best
    <3> QED BY <2>2, <2>9, <2>11
  <2> QED BY <2>12 DEF q, l
<1>9. n \in few
  <2> HIDE DEF few
  <2> QED BY <1>7, <1>8, SetInduction
<1> QED BY <1>2, <1>9

(***************************************************************************)
(* bpe_encode_minimal: no shorter sequence of tokens decodes to the text.  *)
(***************************************************************************)
THEOREM MinimalIsMinimal == Spec => []MinimalIsShortest
<1>1. Inv => MinimalIsShortest
  <2> SUFFICES ASSUME Inv, pc = "done", algo = "minimal",
                      NEW n \in 0 .. Len(result) - 1, NEW tokens \in [1 .. n -> DOMAIN bpe.vocab],
                      Decode(tokens) = text
               PROVE  FALSE
    BY DEF MinimalIsShortest
  <2>1. StateOK /\ ScanInv /\ Len(table) = Len(text)
    BY DEF Inv, ScanInv
  <2>2. /\ result \in Seq(DOMAIN bpe.vocab)
        /\ Len(result) = CountAt(Len(text))
    BY DEF Inv, EntriesFound, WalkInv
  <2>3. Len(result) \in Nat
    BY <2>2, LenProperties
  <2>4. n \in Nat /\ n < Len(result)
    BY <2>3
  <2>5. CountAt(Len(text)) <= n
    BY <2>1, <2>4, CountIsLeast
  <2> QED BY <2>2, <2>3, <2>4, <2>5
<1> QED BY <1>1, Invariance, PTL

(***************************************************************************)
(* What bpe_encode_minimal and bpe_encode_greedy return decodes to the     *)
(* text, and so does what bpe_encode_via_table returns when every entry    *)
(* of its table has a token.  ResultsAlwaysDecode, below, has no such      *)
(* condition: that every entry has one follows from byte pair encoding     *)
(* itself.                                                                 *)
(***************************************************************************)
THEOREM ResultsDecode == Spec => [](EntriesFound => ResultDecodes)
<1>1. Inv => (EntriesFound => ResultDecodes)
  <2> SUFFICES ASSUME Inv, EntriesFound, pc = "done" PROVE Decode(result) = text
    BY DEF ResultDecodes
  <2>1. StateOK /\ result \in Seq(DOMAIN bpe.vocab) /\ Covers(result, 0, Len(text))
    BY DEF Inv, WalkInv
  <2>2. Len(result) \in Nat
    BY <2>1, LenProperties
  <2> QED BY <2>1, <2>2, CoveringDecodes
<1> QED BY <1>1, Invariance, PTL

-----------------------------------------------------------------------------
(* The heap.                                                               *)

Item == [priority : Nat, start : Nat]

Items(h) == {h[k] : k \in 1 .. Len(h)}

IsHeap(h) == \A k \in 2 .. Len(h) : Priority(h, k \div 2) <= Priority(h, k)

LEMMA Halves ==
  ASSUME NEW k \in Nat, k >= 2
  PROVE  k \div 2 \in 1 .. k - 1 /\ (k = 2 * (k \div 2) \/ k = 2 * (k \div 2) + 1)
OBVIOUS

LEMMA HalfOf ==
  ASSUME NEW k \in Nat, NEW u \in Nat, k \div 2 = u
  PROVE  k \in {2 * u, 2 * u + 1}
OBVIOUS

(* nothing is smaller than the top *)
LEMMA TopIsLeast ==
  ASSUME NEW h \in Seq(Item), IsHeap(h), NEW k \in 1 .. Len(h)
  PROVE  Priority(h, 1) <= Priority(h, k)
<1> DEFINE good == {m \in Nat : \A l \in 1 .. Len(h) : l <= m => Priority(h, 1) <= Priority(h, l)}
<1>1. Len(h) \in Nat /\ \A l \in 1 .. Len(h) : Priority(h, l) \in Nat
  <2>1. Len(h) \in Nat /\ \A l \in 1 .. Len(h) : h[l] \in Item
    BY LenProperties, ElementOfSeq
  <2> QED BY <2>1 DEF Priority, Item
<1>2. 0 \in good
  OBVIOUS
<1>3. ASSUME NEW m \in Nat, m \in good PROVE m + 1 \in good
  <2> SUFFICES ASSUME m + 1 \in 1 .. Len(h) PROVE Priority(h, 1) <= Priority(h, m + 1)
    BY <1>1, <1>3
  <2>1. CASE m = 0
    BY <1>1, <2>1
  <2>2. CASE m > 0
    <3> DEFINE l == m + 1
    <3>1. l \in 2 .. Len(h) /\ l \in Nat /\ l >= 2
      BY <2>2
    <3> HIDE DEF l
    <3>2. l \div 2 \in 1 .. l - 1
      BY <3>1, Halves
    <3>3. l \div 2 <= m /\ l \div 2 \in 1 .. Len(h)
      BY <1>1, <3>1, <3>2 DEF l
    <3>4. Priority(h, 1) <= Priority(h, l \div 2)
      BY <1>3, <3>3
    <3>5. Priority(h, l \div 2) <= Priority(h, l)
      BY <3>1 DEF IsHeap
    <3>6. Priority(h, 1) \in Nat /\ Priority(h, l \div 2) \in Nat /\ Priority(h, l) \in Nat
      BY <1>1, <3>1, <3>3
    <3> QED BY <3>4, <3>5, <3>6 DEF l
  <2> QED BY <2>1, <2>2
<1>4. k \in good
  <2> HIDE DEF good
  <2> QED BY <1>2, <1>3, SetInduction
<1> QED BY <1>4

(* the item that moves, and the array it moves in *)
Positions(n) == [at : 1 .. n, data : [1 .. n -> Item]]

Values(n, d) == {d[k] : k \in 1 .. n}

Contents(n, s) == Values(n, s.data)

LEMMA SwapFacts ==
  ASSUME NEW n \in Nat, NEW d \in [1 .. n -> Item], NEW u \in 1 .. n, NEW w \in 1 .. n
  PROVE  /\ Swap(d, u, w) \in [1 .. n -> Item]
         /\ \A k \in 1 .. n :
              Swap(d, u, w)[k] = IF k = u THEN d[w] ELSE IF k = w THEN d[u] ELSE d[k]
         /\ Values(n, Swap(d, u, w)) = Values(n, d)
<1> DEFINE e == Swap(d, u, w)
<1>1. e \in [1 .. n -> Item]
  <2>1. d[u] \in Item /\ d[w] \in Item
    OBVIOUS
  <2>2. [d EXCEPT ![u] = d[w], ![w] = d[u]] \in [1 .. n -> Item]
    BY <2>1
  <2> QED BY <2>2 DEF Swap
<1>2. \A k \in 1 .. n : e[k] = IF k = u THEN d[w] ELSE IF k = w THEN d[u] ELSE d[k]
  BY DEF Swap
<1> HIDE DEF e
<1>3. \A k \in 1 .. n : \E l \in 1 .. n : e[k] = d[l]
  BY <1>2
<1>4. ASSUME NEW k \in 1 .. n PROVE \E l \in 1 .. n : d[k] = e[l]
  <2>1. CASE k = u
    BY <1>2, <2>1
  <2>2. CASE k = w
    BY <1>2, <2>2
  <2>3. CASE k # u /\ k # w
    BY <1>2, <2>3
  <2> QED BY <2>1, <2>2, <2>3
<1>5. Values(n, e) = Values(n, d)
  <2>1. {e[k] : k \in 1 .. n} \subseteq {d[k] : k \in 1 .. n}
    BY <1>3
  <2>2. {d[k] : k \in 1 .. n} \subseteq {e[k] : k \in 1 .. n}
    BY <1>4
  <2> QED BY <2>1, <2>2 DEF Values
<1> QED BY <1>1, <1>2, <1>5 DEF e

(***************************************************************************)
(* heap_push.  Only the item that rises may be smaller than its parent.    *)
(***************************************************************************)
Rising(n, s) ==
  /\ s \in Positions(n)
  /\ \A k \in 2 .. n : k # s.at => Priority(s.data, k \div 2) <= Priority(s.data, k)
  /\ s.at >= 2 => \A k \in 2 .. n : k \div 2 = s.at =>
                    Priority(s.data, s.at \div 2) <= Priority(s.data, k)

Risen(s) == s.at = 1 \/ Priority(s.data, s.at \div 2) <= Priority(s.data, s.at)

LEMMA RiseKeeps ==
  ASSUME NEW n \in Nat, NEW s, Rising(n, s)
  PROVE  /\ Rising(n, Rise(s))
         /\ Contents(n, Rise(s)) = Contents(n, s)
         /\ IF Risen(s) THEN Rise(s) = s ELSE Rise(s).at < s.at
<1>1. CASE Risen(s)
  BY <1>1 DEF Rise, Risen
<1>2. CASE ~Risen(s)
  <2> DEFINE u == s.at
             p == u \div 2
             d == s.data
             e == Swap(d, u, p)
  <2>1. u \in 1 .. n /\ u # 1 /\ d \in [1 .. n -> Item] /\ ~(Priority(d, p) <= Priority(d, u))
    BY <1>2 DEF Rising, Positions, Risen
  <2>2. u \in Nat /\ u >= 2 /\ u \in 2 .. n
    BY <2>1
  <2>3. p \in 1 .. u - 1 /\ p \in 1 .. n
    BY <2>2, Halves
  <2>4. \A k \in 1 .. n : Priority(d, k) \in Nat
    BY <2>1 DEF Priority, Item
  <2>5. /\ \A k \in 2 .. n : k # u => Priority(d, k \div 2) <= Priority(d, k)
        /\ \A k \in 2 .. n : k \div 2 = u => Priority(d, p) <= Priority(d, k)
    BY <2>2 DEF Rising
  <2>6. Rise(s) = [at |-> p, data |-> e]
    BY <1>2 DEF Rise, Risen
  <2> HIDE DEF d, p, u
  <2>7. /\ e \in [1 .. n -> Item]
        /\ \A k \in 1 .. n : e[k] = IF k = u THEN d[p] ELSE IF k = p THEN d[u] ELSE d[k]
        /\ Values(n, e) = Values(n, d)
    BY <2>1, <2>3, SwapFacts
  <2> HIDE DEF e
  <2>8. \A k \in 1 .. n : Priority(e, k) = IF k = u THEN Priority(d, p)
                                          ELSE IF k = p THEN Priority(d, u) ELSE Priority(d, k)
    BY <2>7 DEF Priority
  <2>9. ASSUME NEW k \in 2 .. n, k # p PROVE Priority(e, k \div 2) <= Priority(e, k)
    <3> DEFINE q == k \div 2
    <3> SUFFICES Priority(e, q) <= Priority(e, k)
      OBVIOUS
    <3>1. q \in 1 .. n /\ k \in 1 .. n /\ k # q
      BY Halves
    <3>2. k # u => Priority(d, q) <= Priority(d, k)
      BY <2>5
    <3>3. q = u => Priority(d, p) <= Priority(d, k)
      BY <2>5
    <3>4. k = u => q = p
      BY DEF p
    <3> HIDE DEF q
    <3>5. CASE k = u
      BY <2>1, <2>3, <2>4, <2>8, <3>1, <3>4, <3>5
    <3>6. CASE k # u /\ q = u
      BY <2>4, <2>8, <2>9, <3>1, <3>3, <3>6
    <3>7. CASE k # u /\ q = p
      BY <2>1, <2>3, <2>4, <2>8, <2>9, <3>1, <3>2, <3>7
    <3>8. CASE k # u /\ q # u /\ q # p
      BY <2>4, <2>8, <2>9, <3>1, <3>2, <3>8
    <3> QED BY <3>5, <3>6, <3>7, <3>8
  <2>10. ASSUME p >= 2, NEW k \in 2 .. n, k \div 2 = p
         PROVE  Priority(e, p \div 2) <= Priority(e, k)
    <3> DEFINE q == p \div 2
    <3>1. q \in 1 .. p - 1 /\ q \in 1 .. n /\ p \in 2 .. n /\ k \in 1 .. n /\ p < k
      BY <2>3, <2>10, Halves
    <3>2. Priority(d, q) <= Priority(d, p)
      BY <2>3, <2>5, <3>1
    <3>3. k # u => Priority(d, p) <= Priority(d, k)
      BY <2>5, <2>10
    <3> HIDE DEF q
    <3>4. q # u /\ q # p /\ k # p
      BY <2>3, <3>1
    <3>5. Priority(e, q) = Priority(d, q) /\ Priority(e, k) = IF k = u THEN Priority(d, p) ELSE Priority(d, k)
      BY <2>8, <3>1, <3>4
    <3>6. Priority(d, q) \in Nat /\ Priority(d, p) \in Nat /\ Priority(d, k) \in Nat
      BY <2>4, <2>3, <3>1
    <3> QED BY <3>2, <3>3, <3>5, <3>6 DEF q
  <2>11. Rising(n, [at |-> p, data |-> e])
    BY <2>3, <2>7, <2>9, <2>10 DEF Rising, Positions
  <2>12. Contents(n, [at |-> p, data |-> e]) = Contents(n, s)
    BY <2>7 DEF Contents, d
  <2>13. p < s.at
    BY <2>1, <2>3 DEF u
  <2> QED BY <1>2, <2>6, <2>11, <2>12, <2>13
<1> QED BY <1>1, <1>2

(* heap_push leaves a heap with one more item. *)
LEMMA PushKeepsHeap ==
  ASSUME NEW h \in Seq(Item), IsHeap(h), NEW priority \in Nat, NEW start \in Nat
  PROVE  /\ HeapPush(h, priority, start) \in Seq(Item)
         /\ IsHeap(HeapPush(h, priority, start))
         /\ Items(HeapPush(h, priority, start)) =
              Items(h) \cup {[priority |-> priority, start |-> start]}
<1> DEFINE last  == Len(h) + 1
           item  == [priority |-> priority, start |-> start]
           more  == Append(h, item)
           first == [at |-> last, data |-> more]
           P     == Positions(last)
           step  == [nx \in (1 .. last) \X P |-> Rise(nx[2])]
           B(f)  == [n \in 0 .. last |-> IF n = 0 THEN first ELSE Rise(f[n - 1])]
           up    == CHOOSE f : f = B(f)
<1>1. /\ item \in Item /\ last \in Nat /\ last >= 1 /\ Len(h) \in Nat
      /\ \A k \in 1 .. Len(h) : h[k] \in Item
  <2>1. Len(h) \in Nat /\ \A k \in 1 .. Len(h) : h[k] \in Item
    BY LenProperties, ElementOfSeq
  <2>2. item \in Item
    BY DEF Item
  <2> QED BY <2>1, <2>2
<1>2. /\ more \in [1 .. last -> Item] /\ more[last] = item
      /\ \A k \in 1 .. Len(h) : more[k] = h[k]
  <2> HIDE DEF item
  <2>1. more \in Seq(Item) /\ Len(more) = last
    BY <1>1, AppendProperties
  <2>2. more[last] = item /\ \A k \in 1 .. Len(h) : more[k] = h[k]
    BY <1>1, AppendProperties
  <2>3. more \in [1 .. Len(more) -> Item]
    <3> HIDE DEF more
    <3> QED BY <2>1, LenProperties
  <2> QED BY <2>1, <2>2, <2>3
<1> HIDE DEF item, more
<1>3. Rising(last, first)
  <2>1. first \in Positions(last)
    BY <1>1, <1>2 DEF Positions
  <2>2. ASSUME NEW k \in 2 .. last, k # last PROVE Priority(more, k \div 2) <= Priority(more, k)
    <3>1. k \div 2 \in 1 .. k - 1
      BY Halves
    <3>2. k \in 2 .. Len(h) /\ k \div 2 \in 1 .. Len(h)
      BY <1>1, <2>2, <3>1
    <3>3. Priority(h, k \div 2) <= Priority(h, k)
      BY <3>2 DEF IsHeap
    <3>4. more[k] = h[k] /\ more[k \div 2] = h[k \div 2]
      BY <1>2, <3>2
    <3> QED BY <3>3, <3>4 DEF Priority
  <2>3. \A k \in 2 .. last : k \div 2 # last
    <3> SUFFICES ASSUME NEW k \in 2 .. last PROVE k \div 2 # last
      OBVIOUS
    <3>1. k \div 2 \in 1 .. k - 1
      BY Halves
    <3> QED BY <1>1, <3>1
  <2> HIDE DEF last
  <2> QED BY <2>1, <2>2, <2>3 DEF Rising
<1>4. Contents(last, first) = Items(h) \cup {item}
  <2>1. \A k \in 1 .. last : k \in 1 .. Len(h) \/ k = last
    BY <1>1
  <2>2. {more[k] : k \in 1 .. last} = {h[k] : k \in 1 .. Len(h)} \cup {item}
    <3>1. {more[k] : k \in 1 .. last} \subseteq {h[k] : k \in 1 .. Len(h)} \cup {item}
      BY <1>2, <2>1
    <3>2. ASSUME NEW k \in 1 .. Len(h) PROVE h[k] \in {more[l] : l \in 1 .. last}
      BY <1>1, <1>2
    <3>3. item \in {more[l] : l \in 1 .. last}
      BY <1>1, <1>2
    <3> QED BY <3>1, <3>2, <3>3
  <2> QED BY <2>2 DEF Contents, Values, Items
<1> HIDE DEF last
<1>5. \E f : f = B(f)
  <2>1. StepsIn(step, last, {s \in P : Rising(last, s)})
    BY <1>1, RiseKeeps DEF StepsIn, Rising
  <2>2. first \in {s \in P : Rising(last, s)}
    BY <1>3 DEF Rising
  <2> DEFINE R == {s \in P : Rising(last, s)}
  <2>3. PICK f : Recursion(f, first, step, last, R)
    <3> HIDE DEF step, R, first
    <3> QED BY <1>1, <2>1, <2>2, RecursionExists DEF R
  <2>4. f \in [0 .. last -> R] /\ f[0] = first /\ \A n \in 1 .. last : f[n] = step[<<n, f[n - 1]>>]
    BY <2>3 DEF Recursion
  <2>5. \A n \in 1 .. last : f[n] = Rise(f[n - 1])
    <3> SUFFICES ASSUME NEW n \in 1 .. last PROVE f[n] = Rise(f[n - 1])
      OBVIOUS
    <3>1. n - 1 \in 0 .. last
      BY <1>1
    <3>2. f[n - 1] \in P
      BY <2>4, <3>1
    <3>3. step[<<n, f[n - 1]>>] = Rise(f[n - 1])
      BY <3>2
    <3> QED BY <2>4, <3>3
  <2> HIDE DEF step, R, first
  <2>6. f = [n \in 0 .. last |-> f[n]]
    BY <2>4
  <2>7. \A n \in 0 .. last : f[n] = IF n = 0 THEN first ELSE Rise(f[n - 1])
    BY <1>1, <2>4, <2>5
  <2>8. f = B(f)
    BY <2>6, <2>7
  <2> QED BY <2>8
<1>6. up = B(up)
  <2> HIDE DEF B
  <2> QED BY <1>5
<1>7. HeapPush(h, priority, start) = up[last].data
  BY DEF HeapPush, last, more, item
<1> HIDE DEF up, first
<1>8. up[0] = first /\ \A n \in 1 .. last : up[n] = Rise(up[n - 1])
  <2>1. \A n \in 0 .. last : up[n] = IF n = 0 THEN first ELSE Rise(up[n - 1])
    BY <1>6
  <2> QED BY <1>1, <2>1
<1> DEFINE Good(n) == /\ Rising(last, up[n])
                      /\ Contents(last, up[n]) = Contents(last, first)
                      /\ Risen(up[n]) \/ up[n].at <= last - n
           good == {n \in Nat : n <= last => Good(n)}
<1>9. 0 \in good
  BY <1>1, <1>3, <1>8 DEF first
<1>10. ASSUME NEW n \in Nat, n \in good PROVE n + 1 \in good
  <2> SUFFICES ASSUME n + 1 <= last PROVE Good(n + 1)
    OBVIOUS
  <2> DEFINE m == n + 1
             s == up[n]
  <2>1. m \in 1 .. last /\ m - 1 = n
    BY <1>1
  <2>2. Good(n)
    <3>1. n <= last
      BY <1>1
    <3> HIDE DEF Good
    <3> QED BY <1>10, <3>1
  <2> HIDE DEF m
  <2>3. up[m] = Rise(s)
    BY <1>8, <2>1
  <2>4. /\ Rising(last, Rise(s)) /\ Contents(last, Rise(s)) = Contents(last, s)
        /\ IF Risen(s) THEN Rise(s) = s ELSE Rise(s).at < s.at
    BY <1>1, <2>2, RiseKeeps
  <2>5. Risen(Rise(s)) \/ Rise(s).at <= last - m
    <3>1. CASE Risen(s)
      BY <2>4, <3>1
    <3>2. CASE ~Risen(s)
      <4>1. Rise(s).at \in Nat /\ s.at \in Nat /\ Rise(s).at < s.at /\ s.at <= last - n
        BY <1>1, <2>2, <2>4, <3>2 DEF Rising, Positions
      <4> QED BY <1>1, <2>1, <4>1
    <3> QED BY <3>1, <3>2
  <2>6. Good(m)
    BY <2>2, <2>3, <2>4, <2>5
  <2> QED BY <2>6 DEF m
<1>11. Good(last)
  <2> HIDE DEF Good
  <2>1. \A n \in Nat : n \in good
    <3> HIDE DEF good
    <3> QED BY <1>9, <1>10, SetInduction
  <2> QED BY <1>1, <2>1
<1> DEFINE d == up[last].data
<1>12. d \in [1 .. last -> Item] /\ Risen(up[last]) /\ up[last].at \in 1 .. last
  BY <1>1, <1>11 DEF Rising, Positions
<1>13. d \in Seq(Item) /\ Len(d) = last
  BY <1>1, <1>12
<1>14. IsHeap(d)
  <2> SUFFICES ASSUME NEW k \in 2 .. last PROVE Priority(d, k \div 2) <= Priority(d, k)
    BY <1>13 DEF IsHeap
  <2>1. CASE k = up[last].at
    BY <1>12, <2>1 DEF Risen
  <2>2. CASE k # up[last].at
    BY <1>11, <2>2 DEF Rising
  <2> QED BY <2>1, <2>2
<1>15. Items(d) = Items(h) \cup {item}
  BY <1>4, <1>11, <1>13 DEF Items, Contents, Values
<1> QED BY <1>7, <1>13, <1>14, <1>15 DEF item

(***************************************************************************)
(* heap_pop.  Only the item that sinks may be larger than its children.    *)
(***************************************************************************)
Sinking(n, s) ==
  /\ s \in Positions(n)
  /\ \A k \in 2 .. n : k \div 2 # s.at => Priority(s.data, k \div 2) <= Priority(s.data, k)
  /\ s.at >= 2 => \A k \in 2 .. n : k \div 2 = s.at =>
                    Priority(s.data, s.at \div 2) <= Priority(s.data, k)

Sunk(s) == Smallest(s.data, s.at) = s.at

Family(n, u) == {c \in {u, 2 * u, 2 * u + 1} : c <= n}

LEMMA SmallestIsOne ==
  ASSUME NEW n \in Nat, NEW d \in [1 .. n -> Item], NEW u \in 1 .. n
  PROVE  /\ Smallest(d, u) \in Family(n, u)
         /\ \A c \in Family(n, u) : Priority(d, Smallest(d, u)) <= Priority(d, c)
         /\ Smallest(d, u) # u => Priority(d, Smallest(d, u)) < Priority(d, u)
<1> DEFINE Before(b, c) == Priority(d, b) < Priority(d, c) \/ (Priority(d, b) = Priority(d, c) /\ b <= c)
           F     == Family(n, u)
           left  == IF 2 * u <= n /\ Priority(d, 2 * u) < Priority(d, u) THEN 2 * u ELSE u
           right == IF 2 * u + 1 <= n /\ Priority(d, 2 * u + 1) < Priority(d, left)
                    THEN 2 * u + 1 ELSE left
<1>1. Len(d) = n
  OBVIOUS
<1>2. Smallest(d, u) = CHOOSE b \in F : \A c \in F : Before(b, c)
  BY <1>1 DEF Smallest, Family
<1>3. F \subseteq 1 .. n /\ u \in F
  BY DEF Family
<1>4. \A k \in 1 .. n : Priority(d, k) \in Nat
  BY DEF Priority, Item
<1>5. right \in F /\ \A c \in F : Before(right, c)
  <2>1. left \in {u, 2 * u} /\ left <= n /\ Before(left, u) /\ (2 * u <= n => Before(left, 2 * u))
    BY <1>3, <1>4
  <2>2. left \in 1 .. n
    BY <2>1
  <2> HIDE DEF left
  <2>3. right \in {u, 2 * u, 2 * u + 1} /\ right <= n
    BY <2>1
  <2>4. Before(right, left) /\ (2 * u + 1 <= n => Before(right, 2 * u + 1))
    BY <1>4, <2>1, <2>2
  <2>5. right \in 1 .. n
    BY <2>3
  <2> HIDE DEF right
  <2>6. ASSUME NEW c \in {u, 2 * u}, c <= n PROVE Before(right, c)
    <3>1. Before(left, c) /\ c \in 1 .. n
      BY <2>1, <2>6
    <3> QED BY <1>4, <2>2, <2>4, <2>5, <3>1
  <2>7. \A c \in F : Before(right, c)
    <3> HIDE DEF Before
    <3> QED BY <2>4, <2>6 DEF Family
  <2> QED BY <2>3, <2>7 DEF Family
<1> DEFINE b == CHOOSE b \in F : \A c \in F : Before(b, c)
<1>6. b \in F /\ \A c \in F : Before(b, c)
  <2> HIDE DEF F, Before, right
  <2> QED BY <1>5
<1> HIDE DEF b
<1>7. \A c \in F : Priority(d, b) <= Priority(d, c)
  BY <1>3, <1>4, <1>6
<1>8. b # u => Priority(d, b) < Priority(d, u)
  <2>1. b \in {u, 2 * u, 2 * u + 1} /\ b \in 1 .. n
    BY <1>3, <1>6 DEF Family
  <2>2. Before(b, u)
    BY <1>3, <1>6
  <2>3. b # u => b > u
    BY <2>1
  <2> QED BY <2>2, <2>3, <1>4, <2>1
<1> QED BY <1>2, <1>6, <1>7, <1>8 DEF b

LEMMA SinkKeeps ==
  ASSUME NEW n \in Nat, NEW s, Sinking(n, s)
  PROVE  /\ Sinking(n, Sink(s))
         /\ Contents(n, Sink(s)) = Contents(n, s)
         /\ IF Sunk(s) THEN Sink(s) = s ELSE Sink(s).at > s.at
<1> DEFINE u == s.at
           d == s.data
           c == Smallest(d, u)
           e == Swap(d, u, c)
<1>1. /\ u \in 1 .. n /\ d \in [1 .. n -> Item] /\ s = [at |-> u, data |-> d]
      /\ \A k \in 2 .. n : k \div 2 # u => Priority(d, k \div 2) <= Priority(d, k)
      /\ u >= 2 => \A k \in 2 .. n : k \div 2 = u => Priority(d, u \div 2) <= Priority(d, k)
  BY DEF Sinking, Positions
<1>2. Sink(s) = [at |-> c, data |-> e] /\ (Sunk(s) <=> c = u)
  BY DEF Sink, Sunk
<1> HIDE DEF u, d
<1>3. /\ c \in Family(n, u) /\ c \in 1 .. n /\ c >= u
      /\ \A k \in Family(n, u) : Priority(d, c) <= Priority(d, k)
      /\ c # u => Priority(d, c) < Priority(d, u)
  BY <1>1, SmallestIsOne DEF Family
<1> HIDE DEF c
<1>4. /\ e \in [1 .. n -> Item]
      /\ \A k \in 1 .. n : e[k] = IF k = u THEN d[c] ELSE IF k = c THEN d[u] ELSE d[k]
      /\ Values(n, e) = Values(n, d)
  <2>1. u \in 1 .. n
    BY <1>1
  <2>3. c \in 1 .. n
    BY <1>3
  <2>4. d \in [1 .. n -> Item]
    BY <1>1
  <2>2. /\ Swap(d, u, c) \in [1 .. n -> Item]
        /\ \A k \in 1 .. n :
             Swap(d, u, c)[k] = IF k = u THEN d[c] ELSE IF k = c THEN d[u] ELSE d[k]
        /\ Values(n, Swap(d, u, c)) = Values(n, d)
    BY <2>1, <2>3, <2>4, SwapFacts
  <2> QED BY <2>2
<1> HIDE DEF e
<1>5. Contents(n, Sink(s)) = Contents(n, s)
  <2>1. Sink(s).data = e /\ s.data = d
    BY <1>1, <1>2
  <2> QED BY <1>4, <2>1 DEF Contents
<1>6. \A k \in 1 .. n : Priority(d, k) \in Nat
  BY <1>1 DEF Priority, Item
<1>7. CASE c = u
  <2>1. \A k \in 1 .. n : e[k] = d[k]
    BY <1>4, <1>7
  <2>2. e = d
    BY <1>1, <1>4, <2>1
  <2> QED BY <1>1, <1>2, <1>5, <1>7, <2>2
<1>8. CASE c # u
  <2>1. \A k \in 1 .. n : Priority(e, k) = IF k = u THEN Priority(d, c)
                                          ELSE IF k = c THEN Priority(d, u) ELSE Priority(d, k)
    BY <1>4 DEF Priority
  <2>2. c \in {2 * u, 2 * u + 1} /\ c > u /\ c \div 2 = u
    BY <1>1, <1>3, <1>8 DEF Family
  <2>3. ASSUME NEW k \in 2 .. n, k \div 2 # c PROVE Priority(e, k \div 2) <= Priority(e, k)
    <3> DEFINE q == k \div 2
    <3> SUFFICES Priority(e, q) <= Priority(e, k)
      OBVIOUS
    <3>1. q \in 1 .. n /\ k \in 1 .. n /\ q < k /\ q # c
      BY <2>3, Halves
    <3>2. q # u => Priority(d, q) <= Priority(d, k)
      BY <1>1
    <3>3. q = u => k \in Family(n, u)
      BY <1>1, HalfOf DEF Family
    <3>4. k = u => u >= 2 /\ q = u \div 2
      OBVIOUS
    <3> HIDE DEF q
    <3>5. CASE q = u
      <4>1. Priority(d, c) <= Priority(d, k) /\ k # u
        BY <1>3, <3>1, <3>3, <3>5
      <4>2. Priority(e, q) = Priority(d, c)
        BY <1>1, <2>1, <3>1, <3>5
      <4>3. Priority(e, k) = IF k = c THEN Priority(d, u) ELSE Priority(d, k)
        BY <2>1, <3>1, <4>1
      <4>4. Priority(d, c) \in Nat /\ Priority(d, u) \in Nat /\ Priority(d, k) \in Nat
        BY <1>1, <1>3, <1>6, <3>1
      <4> QED BY <1>3, <1>8, <4>1, <4>2, <4>3, <4>4
    <3>6. CASE k = u
      <4>1. Priority(d, q) <= Priority(d, c)
        <5>1. c \in 2 .. n /\ c \div 2 = u
          BY <1>1, <1>3, <2>2
        <5> QED BY <1>1, <3>4, <3>6, <5>1
      <4>2. Priority(e, q) = Priority(d, q) /\ Priority(e, k) = Priority(d, c)
        BY <2>1, <3>1, <3>6
      <4> QED BY <4>1, <4>2
    <3>7. CASE q # u /\ k # u
      <4>1. k # c
        BY <2>2, <3>7 DEF q
      <4>2. Priority(e, q) = Priority(d, q) /\ Priority(e, k) = Priority(d, k)
        BY <2>1, <3>1, <3>7, <4>1
      <4> QED BY <3>2, <3>7, <4>2
    <3> QED BY <3>5, <3>6, <3>7
  <2>4. ASSUME NEW k \in 2 .. n, k \div 2 = c PROVE Priority(e, c \div 2) <= Priority(e, k)
    <3>1. k # u /\ k # c /\ k \in 1 .. n /\ k \div 2 # u
      <4>1. k \div 2 \in 1 .. k - 1
        BY Halves
      <4> QED BY <1>1, <2>2, <2>4, <4>1
    <3>2. Priority(d, c) <= Priority(d, k)
      BY <1>1, <2>4, <3>1
    <3>3. Priority(e, u) = Priority(d, c) /\ Priority(e, k) = Priority(d, k)
      BY <1>1, <2>1, <3>1
    <3> QED BY <2>2, <3>2, <3>3
  <2>5. Sinking(n, [at |-> c, data |-> e])
    BY <1>3, <1>4, <2>3, <2>4 DEF Sinking, Positions
  <2>6. [at |-> c, data |-> e].at > s.at
    BY <2>2 DEF u
  <2> QED BY <1>2, <1>5, <1>8, <2>5, <2>6
<1> QED BY <1>7, <1>8

(* heap_pop leaves a heap, without the top. *)
LEMMA PopKeepsHeap ==
  ASSUME NEW h \in Seq(Item), IsHeap(h), h # <<>>
  PROVE  /\ HeapPop(h) \in Seq(Item)
         /\ IsHeap(HeapPop(h))
         /\ Items(HeapPop(h)) \subseteq Items(h)
         /\ Items(h) \ {h[1]} \subseteq Items(HeapPop(h))
<1> DEFINE size  == Len(h) - 1
           rest  == [SubSeq(h, 1, size) EXCEPT ![1] = h[size + 1]]
           first == [at |-> 1, data |-> rest]
           P     == {s \in Positions(size) : Sinking(size, s)}
           step  == [nx \in (1 .. size) \X P |-> Sink(nx[2])]
           B(f)  == [n \in 0 .. size |-> IF n = 0 THEN first ELSE Sink(f[n - 1])]
           down  == CHOOSE f : f = B(f)
<1>1. Len(h) \in Nat /\ \A k \in 1 .. Len(h) : h[k] \in Item
  BY LenProperties, ElementOfSeq
<1>0. size \in Int /\ size >= 0 /\ size + 1 = Len(h)
  <2>1. Len(h) # 0
    BY EmptySeq
  <2> QED BY <1>1, <2>1
<1>2. CASE size = 0
  <2>1. HeapPop(h) = <<>>
    BY <1>2 DEF HeapPop
  <2>2. Items(h) = {h[1]} /\ Items(<<>>) = {}
    <3>1. Len(h) = 1 /\ 1 .. 1 = {1} /\ Len(<<>>) = 0 /\ 1 .. 0 = {}
      BY <1>1, <1>2, <1>0
    <3> QED BY <3>1 DEF Items
  <2>3. <<>> \in Seq(Item) /\ IsHeap(<<>>)
    BY DEF IsHeap
  <2> QED BY <2>1, <2>2, <2>3
<1>3. CASE size # 0
  <2>1. size \in Nat /\ size >= 1 /\ size + 1 = Len(h)
    BY <1>3, <1>0
  <2>2. /\ rest \in [1 .. size -> Item] /\ rest[1] = h[size + 1]
        /\ \A k \in 2 .. size : rest[k] = h[k]
    <3> DEFINE sub == SubSeq(h, 1, size)
    <3>1. /\ sub \in Seq(Item) /\ Len(sub) = size
          /\ \A k \in 1 .. size : sub[k] = h[k]
      <4>1. /\ sub \in Seq(Item)
            /\ Len(sub) = IF 1 <= size THEN size - 1 + 1 ELSE 0
            /\ \A k \in 1 .. size - 1 + 1 : sub[k] = h[1 + k - 1]
        <5>1. \A k \in 1 .. size : h[k] \in Item
          BY <1>1, <2>1
        <5> HIDE DEF size
        <5> QED BY <2>1, <5>1, SubSeqProperties
      <4> HIDE DEF size, sub
      <4> QED BY <2>1, <4>1
    <3>2. sub \in [1 .. size -> Item]
      <4> HIDE DEF sub, size
      <4> QED BY <3>1, LenProperties
    <3>3. h[size + 1] \in Item
      BY <1>1, <2>1
    <3> HIDE DEF sub, size
    <3>4. [sub EXCEPT ![1] = h[size + 1]] \in [1 .. size -> Item]
      BY <3>2, <3>3
    <3>5. 1 \in 1 .. size /\ DOMAIN sub = 1 .. size
      BY <2>1, <3>2
    <3>6. \A k \in 2 .. size : k \in 1 .. size /\ k # 1
      OBVIOUS
    <3>7. /\ [sub EXCEPT ![1] = h[size + 1]][1] = h[size + 1]
          /\ \A k \in 2 .. size : [sub EXCEPT ![1] = h[size + 1]][k] = sub[k]
      BY <3>5, <3>6
    <3> QED BY <3>1, <3>4, <3>6, <3>7 DEF sub
  <2>3. HeapPop(h) = down[size].data
    BY <1>3 DEF HeapPop
  <2> HIDE DEF rest
  <2>4. Sinking(size, first)
    <3>1. first \in Positions(size)
      BY <2>1, <2>2 DEF Positions
    <3>2. ASSUME NEW k \in 2 .. size, k \div 2 # 1
          PROVE  Priority(rest, k \div 2) <= Priority(rest, k)
      <4>1. k \div 2 \in 1 .. k - 1
        BY Halves
      <4>2. k \div 2 \in 2 .. size /\ k \in 2 .. Len(h)
        BY <1>1, <3>2, <4>1
      <4>3. Priority(h, k \div 2) <= Priority(h, k)
        BY <4>2 DEF IsHeap
      <4> QED BY <2>2, <4>2, <4>3 DEF Priority
    <3> HIDE DEF size
    <3> QED BY <3>1, <3>2 DEF Sinking
  <2>5. Contents(size, first) \subseteq Items(h) /\ Items(h) \ {h[1]} \subseteq Contents(size, first)
    <3>1. ASSUME NEW k \in 1 .. size PROVE rest[k] \in Items(h)
      <4>1. k = 1 \/ k \in 2 .. size
        BY <2>1
      <4> QED BY <1>1, <2>1, <2>2, <4>1 DEF Items
    <3>2. ASSUME NEW k \in 1 .. Len(h), h[k] # h[1] PROVE \E l \in 1 .. size : rest[l] = h[k]
      <4>1. k = size + 1 \/ k \in 2 .. size
        <5>1. k # 1 /\ k \in 1 .. size + 1
          BY <2>1, <3>2
        <5> HIDE DEF size
        <5> QED BY <2>1, <5>1
      <4>2. CASE k = size + 1
        BY <2>1, <2>2, <4>2
      <4>3. CASE k \in 2 .. size
        BY <2>1, <2>2, <4>3
      <4> QED BY <4>1, <4>2, <4>3
    <3> QED BY <3>1, <3>2 DEF Contents, Values, Items
  <2> HIDE DEF size
  <2>6. \E f : f = B(f)
    <3>1. StepsIn(step, size, P)
      <4> SUFFICES ASSUME NEW n \in 1 .. size, NEW x \in P PROVE step[<<n, x>>] \in P
        BY DEF StepsIn
      <4>1. step[<<n, x>>] = Sink(x)
        OBVIOUS
      <4>2. Sinking(size, Sink(x))
        BY <2>1, SinkKeeps
      <4> QED BY <4>1, <4>2 DEF Sinking
    <3>2. first \in P
      BY <2>4 DEF Sinking
    <3>3. PICK f : Recursion(f, first, step, size, P)
      <4> HIDE DEF step, P, first
      <4> QED BY <2>1, <3>1, <3>2, RecursionExists
    <3>4. f \in [0 .. size -> P] /\ f[0] = first /\ \A n \in 1 .. size : f[n] = step[<<n, f[n - 1]>>]
      BY <3>3 DEF Recursion
    <3>5. \A n \in 1 .. size : f[n] = Sink(f[n - 1])
      <4> SUFFICES ASSUME NEW n \in 1 .. size PROVE f[n] = Sink(f[n - 1])
        OBVIOUS
      <4>1. n - 1 \in 0 .. size
        BY <2>1
      <4>2. f[n - 1] \in P
        BY <3>4, <4>1
      <4>3. step[<<n, f[n - 1]>>] = Sink(f[n - 1])
        BY <4>2
      <4> QED BY <3>4, <4>3
    <3> HIDE DEF step, P, first
    <3>6. f = [n \in 0 .. size |-> f[n]]
      BY <3>4
    <3>7. \A n \in 0 .. size : f[n] = IF n = 0 THEN first ELSE Sink(f[n - 1])
      BY <2>1, <3>4, <3>5
    <3>8. f = B(f)
      BY <3>6, <3>7
    <3> QED BY <3>8
  <2>7. down = B(down)
    <3> HIDE DEF B
    <3> QED BY <2>6
  <2> HIDE DEF down, first
  <2>8. down[0] = first /\ \A n \in 1 .. size : down[n] = Sink(down[n - 1])
    <3>1. \A n \in 0 .. size : down[n] = IF n = 0 THEN first ELSE Sink(down[n - 1])
      BY <2>7
    <3> QED BY <2>1, <3>1
  <2> DEFINE Good(n) == /\ Sinking(size, down[n])
                        /\ Contents(size, down[n]) = Contents(size, first)
                        /\ Sunk(down[n]) \/ down[n].at > n
             good == {n \in Nat : n <= size => Good(n)}
  <2>9. 0 \in good
    BY <2>1, <2>4, <2>8 DEF first
  <2>10. ASSUME NEW n \in Nat, n \in good PROVE n + 1 \in good
    <3> SUFFICES ASSUME n + 1 <= size PROVE Good(n + 1)
      OBVIOUS
    <3> DEFINE m == n + 1
               s == down[n]
    <3>1. m \in 1 .. size /\ m - 1 = n
      BY <2>1
    <3>2. Good(n)
      <4>1. n <= size
        BY <2>1
      <4> HIDE DEF Good
      <4> QED BY <2>10, <4>1
    <3> HIDE DEF m
    <3>3. down[m] = Sink(s)
      BY <2>8, <3>1
    <3>4. /\ Sinking(size, Sink(s)) /\ Contents(size, Sink(s)) = Contents(size, s)
          /\ IF Sunk(s) THEN Sink(s) = s ELSE Sink(s).at > s.at
      BY <2>1, <3>2, SinkKeeps
    <3>5. Sunk(Sink(s)) \/ Sink(s).at > m
      <4>1. CASE Sunk(s)
        BY <3>4, <4>1
      <4>2. CASE ~Sunk(s)
        <5>1. Sink(s).at \in Nat /\ s.at \in Nat /\ Sink(s).at > s.at /\ s.at > n
          BY <2>1, <3>2, <3>4, <4>2 DEF Sinking, Positions
        <5> QED BY <3>1, <5>1
      <4> QED BY <4>1, <4>2
    <3>6. Good(m)
      BY <3>2, <3>3, <3>4, <3>5
    <3> QED BY <3>6 DEF m
  <2>11. Good(size)
    <3> HIDE DEF Good
    <3>1. \A n \in Nat : n \in good
      <4> HIDE DEF good
      <4> QED BY <2>9, <2>10, SetInduction
    <3> QED BY <2>1, <3>1
  <2> DEFINE d == down[size].data
             u == down[size].at
  <2>12. d \in [1 .. size -> Item] /\ u \in 1 .. size /\ Smallest(d, u) = u
    BY <2>1, <2>11 DEF Sinking, Positions, Sunk
  <2>13. d \in Seq(Item) /\ Len(d) = size
    BY <2>1, <2>12
  <2>14. IsHeap(d)
    <3> SUFFICES ASSUME NEW k \in 2 .. size PROVE Priority(d, k \div 2) <= Priority(d, k)
      BY <2>13 DEF IsHeap
    <3>1. CASE k \div 2 # u
      BY <2>11, <3>1 DEF Sinking
    <3>2. CASE k \div 2 = u
      <4>1. k \in Family(size, u)
        BY <2>12, <3>2, HalfOf DEF Family
      <4> HIDE DEF d, u
      <4>2. \A c \in Family(size, u) : Priority(d, Smallest(d, u)) <= Priority(d, c)
        BY <2>1, <2>12, SmallestIsOne
      <4> QED BY <2>12, <3>2, <4>1, <4>2
    <3> QED BY <3>1, <3>2
  <2>15. Items(d) = Contents(size, first)
    BY <2>11, <2>13 DEF Items, Contents, Values
  <2> QED BY <2>3, <2>5, <2>13, <2>14, <2>15
<1> QED BY <1>2, <1>3

-----------------------------------------------------------------------------
(* Boundaries and joins.                                                   *)

Running == pc \in {"loop", "done"}

(* y is the first boundary at or after x, respectively the last one up to x *)
IsNext(B, x, y) == y \in B /\ x <= y /\ \A c \in B : x <= c => y <= c

IsPrevious(B, x, y) == y \in B /\ y <= x /\ \A c \in B : c <= x => c <= y

Boundaries(B, n) == B \subseteq 0 .. n /\ 0 \in B /\ n \in B

JoinIn(vocab, t, start, end) == FindTokenByBytes(vocab, SubSeq(t, start + 1, end))

Candidate(vocab, t, start, end) == [priority |-> JoinIn(vocab, t, start, end), start |-> start]

(* the joins of two neighbouring parts of t, [a, b) and [b, c), are in h *)
AllJoins(h, B, t, vocab) ==
  \A a, b, c \in B :
    /\ IsNext(B, a + 1, b)
    /\ IsNext(B, b + 1, c)
    /\ JoinIn(vocab, t, a, c) # UINT32_MAX
    => Candidate(vocab, t, a, c) \in Items(h)

Starts(h, n) == \A item \in Items(h) : item.start + 2 <= n

(***************************************************************************)
(* The inductive invariant: the heap is one and every possible join is in  *)
(* it; every candidate starts at least two bytes before the end.           *)
(***************************************************************************)
JoinInv ==
  /\ bpe.vocab \in Vocabularies
  /\ heap \in Seq(Item)
  /\ IsHeap(heap)
  /\ Running => /\ text \in Texts
                /\ Boundaries(bits, Len(text))
                /\ Starts(heap, Len(text))
                /\ AllJoins(heap, bits, text, bpe.vocab)

-----------------------------------------------------------------------------
LEMMA TextSlices ==
  ASSUME NEW t \in Texts
  PROVE  /\ Len(t) \in Nat
         /\ \A a, c \in 0 .. Len(t) : a <= c => Len(SubSeq(t, a + 1, c)) = c - a
<1> DEFINE B == {t[k] : k \in 1 .. Len(t)}
<1>1. t \in Seq(B)
  BY VocabularyAssumption
<1> HIDE DEF B
<1>2. Len(t) \in Nat /\ \A k \in 1 .. Len(t) : t[k] \in B
  BY <1>1, LenProperties, ElementOfSeq
<1>3. ASSUME NEW a \in 0 .. Len(t), NEW c \in 0 .. Len(t), a <= c
      PROVE  Len(SubSeq(t, a + 1, c)) = c - a
  <2> DEFINE from == a + 1
  <2>1. from \in Nat /\ c \in Nat /\ \A k \in from .. c : t[k] \in B
    BY <1>2
  <2> HIDE DEF from
  <2>2. Len(SubSeq(t, from, c)) = IF from <= c THEN c - from + 1 ELSE 0
    BY <1>1, <2>1, SubSeqProperties
  <2> QED BY <1>2, <1>3, <2>2 DEF from
<1> QED BY <1>2, <1>3

(* A join that exists is a token with these bytes. *)
LEMMA JoinIsToken ==
  ASSUME NEW vocab \in Vocabularies, NEW bytes, FindTokenByBytes(vocab, bytes) # UINT32_MAX
  PROVE  LET id == FindTokenByBytes(vocab, bytes)
         IN  id \in DOMAIN vocab /\ id \in Nat /\ vocab[id] = bytes
<1>1. \E id \in DOMAIN vocab : vocab[id] = bytes
  BY DEF FindTokenByBytes
<1>2. LET id == FindTokenByBytes(vocab, bytes) IN id \in DOMAIN vocab /\ vocab[id] = bytes
  BY <1>1 DEF FindTokenByBytes
<1> QED BY <1>2, VocabularyAssumption

LEMMA NextExists ==
  ASSUME NEW n \in Nat, NEW B, Boundaries(B, n), NEW x \in 0 .. n
  PROVE  \E y \in B : IsNext(B, x, y)
<1> DEFINE S == {c \in B : x <= c}
<1>1. S \in SUBSET Nat /\ S # {}
  <2>1. B \subseteq 0 .. n /\ n \in B
    BY DEF Boundaries
  <2>2. n \in S /\ \A c \in S : c \in Nat
    BY <2>1
  <2> QED BY <2>2
<1>2. PICK y \in S : \A c \in S : y <= c
  <2> HIDE DEF S
  <2> QED BY <1>1, LeastExists
<1> QED BY <1>2 DEF IsNext

LEMMA PreviousExists ==
  ASSUME NEW n \in Nat, NEW B, Boundaries(B, n), NEW x \in 0 .. n
  PROVE  \E y \in B : IsPrevious(B, x, y)
<1> DEFINE S == {c \in B : c <= x}
<1>1. S \subseteq 0 .. n /\ S # {}
  <2>1. B \subseteq 0 .. n /\ 0 \in B
    BY DEF Boundaries
  <2>2. 0 \in S /\ \A c \in S : c \in 0 .. n
    BY <2>1
  <2> QED BY <2>2
<1>2. PICK y \in S : \A c \in S : c <= y
  <2> HIDE DEF S
  <2> QED BY <1>1, LargestExists
<1> QED BY <1>2 DEF IsPrevious

(* what bitfield_successor and bitfield_predecessor return *)
LEMMA SuccessorIs ==
  ASSUME NEW n \in Nat, Boundaries(bits, n), NEW x \in 0 .. n
  PROVE  /\ IsNext(bits, x, Successor(x))
         /\ \A y : IsNext(bits, x, y) => y = Successor(x)
<1>1. PICK y \in bits : IsNext(bits, x, y)
  BY NextExists
<1>2. IsNext(bits, x, Successor(x))
  BY <1>1 DEF Successor, IsNext
<1>3. ASSUME NEW z, IsNext(bits, x, z) PROVE z = Successor(x)
  <2>1. z \in bits /\ Successor(x) \in bits /\ z <= Successor(x) /\ Successor(x) <= z
    BY <1>2, <1>3 DEF IsNext
  <2>2. \A c \in bits : c \in Nat
    BY DEF Boundaries
  <2>3. z \in Nat /\ Successor(x) \in Nat
    BY <2>1, <2>2
  <2> QED BY <2>1, <2>3
<1> QED BY <1>2, <1>3

LEMMA PredecessorIs ==
  ASSUME NEW n \in Nat, Boundaries(bits, n), NEW x \in 0 .. n
  PROVE  IsPrevious(bits, x, Predecessor(x))
<1>1. PICK y \in bits : IsPrevious(bits, x, y)
  BY PreviousExists
<1> QED BY <1>1 DEF Predecessor, IsPrevious

(* push_join of encode_into_bitfield: a join that is no token adds nothing *)
LEMMA PushJoinFacts ==
  ASSUME bpe.vocab \in Vocabularies, NEW h \in Seq(Item), IsHeap(h), NEW start \in Nat, NEW end
  PROVE  LET g    == PushJoin(h, start, end)
             item == Candidate(bpe.vocab, text, start, end)
         IN  /\ g \in Seq(Item)
             /\ IsHeap(g)
             /\ Items(h) \subseteq Items(g)
             /\ Items(g) \subseteq Items(h) \cup {item}
             /\ JoinIn(bpe.vocab, text, start, end) # UINT32_MAX => item \in Items(g)
<1> DEFINE token == Join(start, end)
           g     == PushJoin(h, start, end)
<1>1. token = JoinIn(bpe.vocab, text, start, end)
  BY DEF Join, JoinIn
<1>2. CASE token = UINT32_MAX
  <2>1. g = h
    BY <1>2 DEF PushJoin
  <2> QED BY <1>1, <1>2, <2>1
<1>3. CASE token # UINT32_MAX
  <2>1. token \in Nat
    BY <1>3, JoinIsToken DEF Join
  <2>2. g = HeapPush(h, token, start)
    BY <1>3 DEF PushJoin
  <2> HIDE DEF token
  <2>3. /\ HeapPush(h, token, start) \in Seq(Item)
        /\ IsHeap(HeapPush(h, token, start))
        /\ Items(HeapPush(h, token, start)) = Items(h) \cup {[priority |-> token, start |-> start]}
    BY <2>1, PushKeepsHeap
  <2> QED BY <1>1, <2>2, <2>3 DEF Candidate
<1> QED BY <1>2, <1>3

-----------------------------------------------------------------------------
(* Call: the heap of the neighbouring bytes.                               *)

PairAt(vocab, t, n) == FindTokenByBytes(vocab, SubSeq(t, n - 1, n))

Seed(vocab, t, n, h) ==
  IF n < 2 THEN <<>>
  ELSE IF PairAt(vocab, t, n) = UINT32_MAX THEN h
       ELSE HeapPush(h, PairAt(vocab, t, n), n - 2)

Heaps == {h \in Seq(Item) : IsHeap(h)}

LEMMA SeedFacts ==
  ASSUME NEW vocab \in Vocabularies, NEW t, NEW n \in Nat, NEW h \in Heaps
  PROVE  LET g    == Seed(vocab, t, n, h)
             item == [priority |-> PairAt(vocab, t, n), start |-> n - 2]
         IN  /\ g \in Heaps
             /\ n < 2 => Items(g) = {}
             /\ n >= 2 => /\ Items(h) \subseteq Items(g)
                          /\ Items(g) \subseteq Items(h) \cup {item}
                          /\ PairAt(vocab, t, n) # UINT32_MAX => item \in Items(g)
<1> DEFINE token == PairAt(vocab, t, n)
           start == n - 2
           g     == Seed(vocab, t, n, h)
<1>1. CASE n < 2
  <2>1. g = <<>> /\ ~(n >= 2)
    BY <1>1 DEF Seed
  <2>2. <<>> \in Seq(Item) /\ IsHeap(<<>>) /\ Items(<<>>) = {}
    BY DEF IsHeap, Items
  <2> QED BY <2>1, <2>2 DEF Heaps
<1>2. CASE n >= 2 /\ token = UINT32_MAX
  <2>1. g = h /\ ~(n < 2)
    BY <1>2 DEF Seed
  <2> QED BY <1>2, <2>1
<1>3. CASE n >= 2 /\ token # UINT32_MAX
  <2>1. token \in Nat
    BY <1>3, JoinIsToken DEF PairAt
  <2>2. start \in Nat
    BY <1>3
  <2>3. g = HeapPush(h, token, start) /\ ~(n < 2)
    BY <1>3 DEF Seed
  <2> HIDE DEF token, start
  <2>4. /\ HeapPush(h, token, start) \in Seq(Item)
        /\ IsHeap(HeapPush(h, token, start))
        /\ Items(HeapPush(h, token, start)) = Items(h) \cup {[priority |-> token, start |-> start]}
    BY <2>1, <2>2, PushKeepsHeap DEF Heaps
  <2> QED BY <2>3, <2>4 DEF Heaps, token, start
<1> QED BY <1>1, <1>2, <1>3

LEMMA SeedsFacts ==
  ASSUME bpe.vocab \in Vocabularies, NEW t \in Texts
  PROVE  /\ Seeds(t) \in Heaps
         /\ Starts(Seeds(t), Len(t))
         /\ \A n \in 2 .. Len(t) : PairAt(bpe.vocab, t, n) # UINT32_MAX =>
              [priority |-> PairAt(bpe.vocab, t, n), start |-> n - 2] \in Items(Seeds(t))
<1> DEFINE N      == Len(t)
           v      == bpe.vocab
           step   == [nx \in (1 .. N) \X Heaps |-> Seed(v, t, nx[1], nx[2])]
           B(f)   == [u \in 0 .. N |->
                        IF u < 2 THEN <<>>
                        ELSE LET token == FindTokenByBytes(bpe.vocab, SubSeq(t, u - 1, u))
                             IN  IF token = UINT32_MAX THEN f[u - 1]
                                 ELSE HeapPush(f[u - 1], token, u - 2)]
           seeded == CHOOSE f : f = B(f)
<1>1. N \in Nat /\ v \in Vocabularies /\ <<>> \in Heaps
  <2>1. <<>> \in Seq(Item) /\ IsHeap(<<>>)
    BY DEF IsHeap
  <2> QED BY <2>1, TextSlices DEF Heaps
<1>2. Seeds(t) = seeded[N]
  BY DEF Seeds
<1>3. \A f : \A u \in 0 .. N : B(f)[u] = Seed(v, t, u, f[u - 1])
  BY DEF Seed, PairAt
<1> HIDE DEF N, v
<1>4. \E f : f = B(f)
  <2>1. StepsIn(step, N, Heaps)
    <3> SUFFICES ASSUME NEW n \in 1 .. N, NEW x \in Heaps PROVE step[<<n, x>>] \in Heaps
      BY DEF StepsIn
    <3>1. step[<<n, x>>] = Seed(v, t, n, x)
      OBVIOUS
    <3>2. n \in Nat
      BY <1>1
    <3>3. Seed(v, t, n, x) \in Heaps
      BY <1>1, <3>2, SeedFacts
    <3> QED BY <3>1, <3>3
  <2>2. PICK f : Recursion(f, <<>>, step, N, Heaps)
    <3> HIDE DEF step
    <3> QED BY <1>1, <2>1, RecursionExists
  <2>3. f \in [0 .. N -> Heaps] /\ f[0] = <<>> /\ \A n \in 1 .. N : f[n] = step[<<n, f[n - 1]>>]
    BY <2>2 DEF Recursion
  <2>4. \A n \in 1 .. N : f[n] = Seed(v, t, n, f[n - 1])
    <3> SUFFICES ASSUME NEW n \in 1 .. N PROVE f[n] = Seed(v, t, n, f[n - 1])
      OBVIOUS
    <3>1. n - 1 \in 0 .. N
      BY <1>1
    <3>2. f[n - 1] \in Heaps
      BY <2>3, <3>1
    <3>3. step[<<n, f[n - 1]>>] = Seed(v, t, n, f[n - 1])
      BY <3>2
    <3> QED BY <2>3, <3>3
  <2> HIDE DEF step
  <2>5. \A n \in 0 .. N : f[n] = B(f)[n]
    <3> SUFFICES ASSUME NEW n \in 0 .. N PROVE f[n] = Seed(v, t, n, f[n - 1])
      BY <1>3
    <3>1. CASE n = 0
      BY <2>3, <3>1 DEF Seed
    <3>2. CASE n # 0
      BY <1>1, <2>4, <3>2
    <3> QED BY <3>1, <3>2
  <2>6. B(f) = [n \in 0 .. N |-> B(f)[n]]
    OBVIOUS
  <2>7. f = [n \in 0 .. N |-> f[n]]
    BY <2>3
  <2> HIDE DEF B
  <2>8. f = B(f)
    BY <2>5, <2>6, <2>7
  <2> QED BY <2>8
<1>5. seeded = B(seeded)
  <2> HIDE DEF B
  <2> QED BY <1>4
<1>6. \A n \in 0 .. N : seeded[n] = Seed(v, t, n, seeded[n - 1])
  <2> HIDE DEF B, seeded
  <2> QED BY <1>3, <1>5
<1> HIDE DEF seeded
<1> DEFINE Pairs(h, n) == \A k \in 2 .. n : PairAt(v, t, k) # UINT32_MAX =>
                            [priority |-> PairAt(v, t, k), start |-> k - 2] \in Items(h)
           Good(n) == seeded[n] \in Heaps /\ Starts(seeded[n], n) /\ Pairs(seeded[n], n)
           good    == {n \in Nat : n <= N => Good(n)}
<1>7. 0 \in good
  <2>1. seeded[0] = <<>>
    BY <1>1, <1>6 DEF Seed
  <2>2. Items(<<>>) = {}
    BY DEF Items
  <2> QED BY <1>1, <2>1, <2>2 DEF Starts
<1>8. ASSUME NEW n \in Nat, n \in good PROVE n + 1 \in good
  <2> SUFFICES ASSUME n + 1 <= N PROVE Good(n + 1)
    OBVIOUS
  <2> DEFINE m == n + 1
             h == seeded[n]
             g == Seed(v, t, m, h)
  <2>1. m \in 0 .. N /\ m \in Nat /\ m - 1 = n
    BY <1>1
  <2>2. h \in Heaps /\ Starts(h, n) /\ Pairs(h, n)
    <3>1. n <= N
      BY <1>1
    <3> QED BY <1>8, <3>1
  <2> HIDE DEF m
  <2>3. seeded[m] = g
    BY <1>6, <2>1
  <2> HIDE DEF h
  <2>4. /\ g \in Heaps
        /\ m < 2 => Items(g) = {}
        /\ m >= 2 => /\ Items(h) \subseteq Items(g)
                     /\ Items(g) \subseteq Items(h) \cup {[priority |-> PairAt(v, t, m), start |-> m - 2]}
                     /\ PairAt(v, t, m) # UINT32_MAX =>
                          [priority |-> PairAt(v, t, m), start |-> m - 2] \in Items(g)
    BY <1>1, <2>1, <2>2, SeedFacts
  <2> HIDE DEF g
  <2>5. Starts(g, m)
    <3> SUFFICES ASSUME NEW item \in Items(g) PROVE item.start + 2 <= m
      BY DEF Starts
    <3>1. m >= 2
      BY <2>1, <2>4
    <3>2. CASE item \in Items(h)
      <4>1. item.start + 2 <= n /\ item.start \in Nat
        <5>1. Len(h) \in Nat /\ \A k \in 1 .. Len(h) : h[k] \in Item
          BY <2>2, LenProperties, ElementOfSeq DEF Heaps
        <5> QED BY <2>2, <3>2, <5>1 DEF Starts, Items, Item
      <4> QED BY <2>1, <4>1
    <3>3. CASE item = [priority |-> PairAt(v, t, m), start |-> m - 2]
      BY <2>1, <3>3
    <3> QED BY <2>4, <3>1, <3>2, <3>3
  <2>6. Pairs(g, m)
    <3> SUFFICES ASSUME NEW k \in 2 .. m, PairAt(v, t, k) # UINT32_MAX
                 PROVE  [priority |-> PairAt(v, t, k), start |-> k - 2] \in Items(g)
      OBVIOUS
    <3>1. CASE k = m
      BY <2>1, <2>4, <3>1
    <3>2. CASE k # m
      <4>1. k \in 2 .. n /\ m >= 2
        BY <2>1, <3>2
      <4> QED BY <2>2, <2>4, <4>1
    <3> QED BY <3>1, <3>2
  <2> QED BY <2>3, <2>4, <2>5, <2>6 DEF m
<1>9. Good(N)
  <2> HIDE DEF Good
  <2>1. \A n \in Nat : n \in good
    <3> HIDE DEF good
    <3> QED BY <1>7, <1>8, SetInduction
  <2> QED BY <1>1, <2>1
<1> QED BY <1>2, <1>9 DEF N, v

-----------------------------------------------------------------------------
LEMMA ItemFacts ==
  ASSUME JoinInv
  PROVE  /\ \A item \in Items(heap) : item \in Item
         /\ heap # <<>> => Top \in Items(heap) /\ Top \in Item
<1>1. Len(heap) \in Nat /\ \A k \in 1 .. Len(heap) : heap[k] \in Item
  BY LenProperties, ElementOfSeq DEF JoinInv
<1>2. heap # <<>> => 1 \in 1 .. Len(heap)
  <2>1. heap # <<>> => Len(heap) # 0
    BY EmptySeq DEF JoinInv
  <2> QED BY <1>1, <2>1
<1> QED BY <1>1, <1>2 DEF Items, Top

(* The parts on both sides of the boundary that the top would remove. *)
LEMMA TopFacts ==
  ASSUME JoinInv, Running, heap # <<>>, Top.start \in bits, Mid < Len(text)
  PROVE  /\ Top.start \in 0 .. Len(text) - 2
         /\ Mid \in bits /\ End \in bits
         /\ Top.start < Mid /\ Mid < End /\ End \in 0 .. Len(text)
         /\ IsNext(bits, Top.start + 1, Mid)
         /\ IsNext(bits, Mid + 1, End)
<1> DEFINE n == Len(text)
           a == Top.start
           m == Mid
<1>1. n \in Nat /\ Boundaries(bits, n) /\ (\A b \in bits : b \in 0 .. n)
  BY TextSlices DEF JoinInv, Boundaries
<1>2. a \in Nat /\ a + 2 <= n
  BY ItemFacts DEF JoinInv, Starts, Item
<1> HIDE DEF a
<1>3. IsNext(bits, a + 1, Successor(a + 1))
  <2>1. a + 1 \in 0 .. n
    BY <1>1, <1>2
  <2> HIDE DEF n
  <2> QED BY <1>1, <2>1, SuccessorIs
<1>4. IsNext(bits, a + 1, m)
  BY <1>3 DEF Mid, a
<1>5. m < n
  OBVIOUS
<1> HIDE DEF m, n
<1>6. m \in bits /\ m \in 0 .. n /\ a < m
  BY <1>1, <1>2, <1>4 DEF IsNext
<1>7. IsNext(bits, m + 1, Successor(m + 1))
  <2>1. m + 1 \in 0 .. n
    BY <1>1, <1>5, <1>6
  <2> QED BY <1>1, <2>1, SuccessorIs
<1>8. IsNext(bits, m + 1, End)
  BY <1>7 DEF End, m
<1>9. End \in bits /\ End \in 0 .. n /\ m < End
  BY <1>1, <1>6, <1>8 DEF IsNext
<1> QED BY <1>1, <1>2, <1>4, <1>6, <1>8, <1>9 DEF a, m, n

(* A candidate that is the join of two neighbouring parts is not discarded. *)
LEMMA NeighboursAreCurrent ==
  ASSUME JoinInv, Running, heap # <<>>,
         NEW a \in bits, NEW b \in bits, NEW c \in bits,
         IsNext(bits, a + 1, b), IsNext(bits, b + 1, c),
         JoinIn(bpe.vocab, text, a, c) # UINT32_MAX,
         Top = Candidate(bpe.vocab, text, a, c)
  PROVE  Current
<1> DEFINE n == Len(text)
<1>1. n \in Nat /\ Boundaries(bits, n) /\ (\A x \in bits : x \in 0 .. n)
  BY TextSlices DEF JoinInv, Boundaries
<1>2. a < b /\ b < c /\ a \in 0 .. n /\ b \in 0 .. n /\ c \in 0 .. n
  BY <1>1 DEF IsNext
<1>3. a + 1 \in 0 .. n /\ b + 1 \in 0 .. n
  BY <1>1, <1>2
<1>4. Top.start = a /\ Top.priority = JoinIn(bpe.vocab, text, a, c)
  BY DEF Candidate
<1> HIDE DEF n
<1>5. Mid = b
  BY <1>1, <1>3, <1>4, SuccessorIs DEF Mid
<1>6. End = c
  BY <1>1, <1>3, <1>5, SuccessorIs DEF End
<1>7. bpe.vocab[Top.priority] = SubSeq(text, a + 1, c)
  BY <1>4, JoinIsToken DEF JoinIn, JoinInv
<1>8. TokenLen(bpe, Top.priority) = c - a
  BY <1>2, <1>7, TextSlices DEF TokenLen, JoinInv, n
<1>9. Mid < Len(text)
  BY <1>1, <1>2, <1>5 DEF n
<1> QED BY <1>4, <1>6, <1>8, <1>9 DEF Current

LEMMA PopFacts ==
  ASSUME JoinInv, heap # <<>>
  PROVE  /\ HeapPop(heap) \in Seq(Item)
         /\ IsHeap(HeapPop(heap))
         /\ Items(HeapPop(heap)) \subseteq Items(heap)
         /\ \A item \in Items(heap) : item # Top => item \in Items(HeapPop(heap))
<1>1. heap \in Seq(Item) /\ IsHeap(heap)
  BY DEF JoinInv
<1>2. /\ HeapPop(heap) \in Seq(Item)
      /\ IsHeap(HeapPop(heap))
      /\ Items(HeapPop(heap)) \subseteq Items(heap)
      /\ Items(heap) \ {heap[1]} \subseteq Items(HeapPop(heap))
  BY <1>1, PopKeepsHeap
<1> QED BY <1>2 DEF Top

-----------------------------------------------------------------------------
(* Merge: the boundary m between [a, m) and [m, e) is removed.             *)

LEMMA NextOfMerged ==
  ASSUME NEW B \in SUBSET Nat, NEW a \in B, NEW m \in B, NEW e \in B, NEW y,
         IsNext(B, a + 1, m), IsNext(B, m + 1, e), IsNext(B \ {m}, a + 1, y)
  PROVE  y = e
<1>1. a \in Nat /\ m \in Nat /\ e \in Nat /\ y \in Nat /\ y \in B /\ y # m
  BY DEF IsNext
<1>2. a + 1 <= m /\ m + 1 <= e /\ a + 1 <= y
  BY DEF IsNext
<1>3. e \in B \ {m} /\ a + 1 <= e
  BY <1>1, <1>2
<1>4. y <= e /\ m <= y
  BY <1>1, <1>2, <1>3 DEF IsNext
<1>5. m + 1 <= y
  BY <1>1, <1>4
<1>6. e <= y
  BY <1>1, <1>5 DEF IsNext
<1> QED BY <1>1, <1>4, <1>6

LEMMA NextOfOthers ==
  ASSUME NEW B \in SUBSET Nat, NEW a \in B, NEW m \in B, NEW x \in B \ {m}, NEW y,
         IsNext(B, a + 1, m), x # a, IsNext(B \ {m}, x + 1, y)
  PROVE  IsNext(B, x + 1, y)
<1>1. a \in Nat /\ m \in Nat /\ x \in Nat /\ y \in Nat /\ y \in B /\ a + 1 <= m /\ x + 1 <= y
  BY DEF IsNext
<1> SUFFICES ASSUME x + 1 <= m PROVE y <= m
  BY <1>1 DEF IsNext
<1>2. CASE x + 1 <= a
  <2>1. a \in B \ {m}
    BY <1>1
  <2>2. y <= a
    BY <1>2, <2>1 DEF IsNext
  <2> QED BY <1>1, <2>2
<1>3. CASE ~(x + 1 <= a)
  <2>1. a + 1 <= x
    BY <1>1, <1>3
  <2>2. m <= x
    BY <2>1 DEF IsNext
  <2> QED BY <1>1, <2>2
<1> QED BY <1>2, <1>3

LEMMA MergeKeeps ==
  ASSUME JoinInv, Merge
  PROVE  JoinInv'
<1> DEFINE n  == Len(text)
           v  == bpe.vocab
           a  == Top.start
           m  == Mid
           e  == End
           z1 == Successor(e + 1)
           p1 == Predecessor(a - 1)
           g0 == HeapPop(heap)
           g1 == IF e < n THEN PushJoin(g0, a, z1) ELSE g0
           g2 == IF a > 0 THEN PushJoin(g1, p1, e) ELSE g1
<1>1. /\ bits' = bits \ {m} /\ heap' = g2 /\ Running /\ Running' /\ heap # <<>>
      /\ UNCHANGED <<bpe, pc, text>>
      /\ a \in bits /\ m < n
  BY DEF Merge, Current, Extended, Running
<1>2. /\ v \in Vocabularies /\ text \in Texts /\ n \in Nat /\ Boundaries(bits, n)
      /\ \A b \in bits : b \in 0 .. n
      /\ bits \in SUBSET Nat
  <2>1. Boundaries(bits, n) /\ text \in Texts /\ v \in Vocabularies
    BY <1>1 DEF JoinInv
  <2>2. n \in Nat
    BY <2>1, TextSlices
  <2>3. bits \subseteq 0 .. n
    BY <2>1 DEF Boundaries
  <2> HIDE DEF n
  <2> QED BY <2>1, <2>2, <2>3
<1>3. /\ a \in 0 .. n - 2 /\ a \in bits /\ m \in bits /\ e \in bits
      /\ a < m /\ m < e /\ e \in 0 .. n
      /\ IsNext(bits, a + 1, m) /\ IsNext(bits, m + 1, e)
  BY <1>1, TopFacts
<1>4. /\ g0 \in Seq(Item) /\ IsHeap(g0)
      /\ Items(g0) \subseteq Items(heap)
      /\ \A item \in Items(heap) : item # Top => item \in Items(g0)
  BY <1>1, PopFacts
<1> HIDE DEF n, a, m, e, g0
<1>5. e < n => IsNext(bits, e + 1, z1) /\ \A y : IsNext(bits, e + 1, y) => y = z1
  <2> SUFFICES ASSUME e < n
               PROVE  IsNext(bits, e + 1, z1) /\ \A y : IsNext(bits, e + 1, y) => y = z1
    OBVIOUS
  <2> DEFINE x == e + 1
  <2>1. x \in 0 .. n
    BY <1>2, <1>3
  <2> HIDE DEF x
  <2>2. IsNext(bits, x, Successor(x)) /\ \A y : IsNext(bits, x, y) => y = Successor(x)
    BY <1>2, <2>1, SuccessorIs
  <2> QED BY <2>2 DEF x
<1>6. a > 0 => IsPrevious(bits, a - 1, p1)
  <2> SUFFICES ASSUME a > 0 PROVE IsPrevious(bits, a - 1, p1)
    OBVIOUS
  <2> DEFINE x == a - 1
  <2>1. x \in 0 .. n
    BY <1>2, <1>3
  <2> HIDE DEF x
  <2>2. IsPrevious(bits, x, Predecessor(x))
    BY <1>2, <2>1, PredecessorIs
  <2> QED BY <2>2 DEF x
<1>7. a > 0 => p1 \in bits /\ p1 < a /\ p1 \in Nat /\ \A c \in bits : c < a => c <= p1
  <2> SUFFICES ASSUME a > 0
               PROVE  p1 \in bits /\ p1 < a /\ p1 \in Nat /\ \A c \in bits : c < a => c <= p1
    OBVIOUS
  <2>1. p1 \in bits /\ p1 <= a - 1 /\ \A c \in bits : c <= a - 1 => c <= p1
    BY <1>6 DEF IsPrevious
  <2> HIDE DEF p1
  <2> QED BY <1>2, <1>3, <2>1
<1> HIDE DEF z1, p1
<1>8. /\ g1 \in Seq(Item) /\ IsHeap(g1) /\ Items(g0) \subseteq Items(g1)
      /\ Items(g1) \subseteq Items(g0) \cup {Candidate(v, text, a, z1)}
      /\ e < n /\ JoinIn(v, text, a, z1) # UINT32_MAX => Candidate(v, text, a, z1) \in Items(g1)
  <2>1. CASE e < n
    <3>1. g1 = PushJoin(g0, a, z1) /\ a \in Nat
      BY <1>3, <2>1
    <3> HIDE DEF g1
    <3> QED BY <1>2, <1>4, <3>1, PushJoinFacts
  <2>2. CASE ~(e < n)
    BY <1>4, <2>2
  <2> QED BY <2>1, <2>2
<1> HIDE DEF g1
<1>9. /\ g2 \in Seq(Item) /\ IsHeap(g2) /\ Items(g1) \subseteq Items(g2)
      /\ Items(g2) \subseteq Items(g1) \cup (IF a > 0 THEN {Candidate(v, text, p1, e)} ELSE {})
      /\ a > 0 /\ JoinIn(v, text, p1, e) # UINT32_MAX => Candidate(v, text, p1, e) \in Items(g2)
  <2>1. CASE a > 0
    <3>1. g2 = PushJoin(g1, p1, e) /\ p1 \in Nat
      BY <1>7, <2>1
    <3> HIDE DEF g2
    <3> QED BY <1>2, <1>8, <2>1, <3>1, PushJoinFacts
  <2>2. CASE ~(a > 0)
    BY <1>8, <2>2
  <2> QED BY <2>1, <2>2
<1> HIDE DEF g2, v
<1>10. Starts(g2, n)
  <2> SUFFICES ASSUME NEW item \in Items(g2) PROVE item.start + 2 <= n
    BY DEF Starts
  <2>1. CASE item \in Items(heap)
    BY <1>1, <2>1 DEF JoinInv, Starts, n
  <2>2. CASE item = Candidate(v, text, a, z1)
    BY <1>2, <1>3, <2>2 DEF Candidate
  <2>3. CASE a > 0 /\ item = Candidate(v, text, p1, e)
    BY <1>2, <1>3, <1>7, <2>3 DEF Candidate
  <2> QED BY <1>4, <1>8, <1>9, <2>1, <2>2, <2>3
<1>11. Boundaries(bits', n)
  <2>1. m # 0 /\ m # n
    BY <1>1, <1>2, <1>3 DEF n
  <2> QED BY <1>1, <1>2, <2>1 DEF Boundaries
<1>12. AllJoins(g2, bits \ {m}, text, v)
  <2> DEFINE C == bits \ {m}
  <2> SUFFICES ASSUME NEW x \in C, NEW y \in C, NEW z \in C,
                      IsNext(C, x + 1, y), IsNext(C, y + 1, z),
                      JoinIn(v, text, x, z) # UINT32_MAX
               PROVE  Candidate(v, text, x, z) \in Items(g2)
    BY DEF AllJoins
  <2>1. x \in 0 .. n /\ y \in 0 .. n /\ z \in 0 .. n /\ x < y /\ y < z
    <3>1. x + 1 <= y /\ y + 1 <= z
      BY DEF IsNext
    <3> HIDE DEF C
    <3>2. x \in bits /\ y \in bits /\ z \in bits
      BY DEF C
    <3> QED BY <1>2, <3>1, <3>2
  <2>2. CASE x = a
    <3>1. y = e
      BY <1>2, <1>3, <2>2, NextOfMerged
    <3>2. IsNext(bits, e + 1, z)
      <4>1. e \in C /\ e # a
        BY <1>2, <1>3
      <4> QED BY <1>2, <1>3, <3>1, <4>1, NextOfOthers
    <3>3. e < n
      BY <1>2, <2>1, <3>1
    <3>4. z = z1
      BY <1>5, <3>2, <3>3
    <3> QED BY <1>8, <1>9, <2>2, <3>3, <3>4
  <2>3. CASE y = a
    <3>1. z = e
      BY <1>2, <1>3, <2>3, NextOfMerged
    <3>2. a > 0
      BY <2>1, <2>3
    <3>3. p1 \in C
      <4>1. p1 # m
        BY <1>2, <1>3, <1>7, <3>2
      <4> QED BY <1>7, <3>2, <4>1
    <3>4. ~(x + 1 <= p1)
      <4>1. x + 1 <= p1 => a <= p1
        BY <2>3, <3>3 DEF IsNext
      <4> QED BY <1>3, <1>7, <3>2, <4>1
    <3>5. x <= p1
      BY <1>7, <2>1, <2>3, <3>2
    <3>6. x = p1
      BY <1>7, <2>1, <3>2, <3>4, <3>5
    <3> QED BY <1>9, <3>1, <3>2, <3>6
  <2>4. CASE x # a /\ y # a
    <3>1. IsNext(bits, x + 1, y)
      BY <1>2, <1>3, <2>4, NextOfOthers
    <3>2. IsNext(bits, y + 1, z)
      BY <1>2, <1>3, <2>4, NextOfOthers
    <3>3. Candidate(v, text, x, z) \in Items(heap)
      BY <1>1, <3>1, <3>2 DEF JoinInv, AllJoins, v
    <3>4. Candidate(v, text, x, z) # Top
      BY <2>4 DEF Candidate, a
    <3> QED BY <1>4, <1>8, <1>9, <3>3, <3>4
  <2> QED BY <2>2, <2>3, <2>4
<1> QED BY <1>1, <1>2, <1>9, <1>10, <1>11, <1>12 DEF JoinInv, v, n

LEMMA CallKeeps ==
  ASSUME JoinInv, NEW t \in Texts, CallBitfield(t)
  PROVE  JoinInv'
<1> DEFINE n == Len(t)
           v == bpe.vocab
           h == Seeds(t)
<1>1. bpe' = bpe /\ text' = t /\ heap' = h /\ bits' = 0 .. n /\ v \in Vocabularies /\ n \in Nat
  BY TextSlices DEF CallBitfield, JoinInv
<1>2. /\ h \in Seq(Item) /\ IsHeap(h) /\ Starts(h, n)
      /\ \A k \in 2 .. n : PairAt(v, t, k) # UINT32_MAX =>
           [priority |-> PairAt(v, t, k), start |-> k - 2] \in Items(h)
  BY <1>1, SeedsFacts DEF Heaps
<1> HIDE DEF n, v, h
<1>3. Boundaries(0 .. n, n)
  BY <1>1 DEF Boundaries
<1>4. AllJoins(h, 0 .. n, t, v)
  <2> SUFFICES ASSUME NEW a \in 0 .. n, NEW b \in 0 .. n, NEW c \in 0 .. n,
                      IsNext(0 .. n, a + 1, b), IsNext(0 .. n, b + 1, c),
                      JoinIn(v, t, a, c) # UINT32_MAX
               PROVE  Candidate(v, t, a, c) \in Items(h)
    BY DEF AllJoins
  <2>1. a + 1 <= b /\ b + 1 <= c
    BY DEF IsNext
  <2>2. a + 1 \in 0 .. n /\ b + 1 \in 0 .. n
    BY <1>1, <2>1
  <2>3. b <= a + 1 /\ c <= b + 1
    BY <2>2 DEF IsNext
  <2>4. c = a + 2 /\ c \in 2 .. n /\ c - 1 = a + 1 /\ c - 2 = a
    BY <1>1, <2>1, <2>3
  <2>5. PairAt(v, t, c) = JoinIn(v, t, a, c)
    BY <2>4 DEF PairAt, JoinIn
  <2> QED BY <1>2, <2>4, <2>5 DEF Candidate
<1> QED BY <1>1, <1>2, <1>3, <1>4 DEF JoinInv, v, n

LEMMA DiscardKeeps ==
  ASSUME JoinInv, Discard
  PROVE  JoinInv'
<1> DEFINE g == HeapPop(heap)
<1>1. /\ heap' = g /\ heap # <<>> /\ ~Current /\ Running
      /\ UNCHANGED <<bpe, pc, text, bits>>
  BY DEF Discard, Running
<1>2. /\ g \in Seq(Item) /\ IsHeap(g) /\ Items(g) \subseteq Items(heap)
      /\ \A item \in Items(heap) : item # Top => item \in Items(g)
  BY <1>1, PopFacts
<1> HIDE DEF g
<1>3. Starts(g, Len(text))
  BY <1>1, <1>2 DEF JoinInv, Starts
<1>4. AllJoins(g, bits, text, bpe.vocab)
  <2> SUFFICES ASSUME NEW a \in bits, NEW b \in bits, NEW c \in bits,
                      IsNext(bits, a + 1, b), IsNext(bits, b + 1, c),
                      JoinIn(bpe.vocab, text, a, c) # UINT32_MAX
               PROVE  Candidate(bpe.vocab, text, a, c) \in Items(g)
    BY DEF AllJoins
  <2>1. Candidate(bpe.vocab, text, a, c) \in Items(heap)
    BY <1>1 DEF JoinInv, AllJoins
  <2>2. Candidate(bpe.vocab, text, a, c) # Top
    BY <1>1, NeighboursAreCurrent
  <2> QED BY <1>2, <2>1, <2>2
<1> QED BY <1>1, <1>2, <1>3, <1>4 DEF JoinInv, Running

LEMMA CollectKeeps ==
  ASSUME JoinInv, Collect
  PROVE  JoinInv'
<1>1. UNCHANGED <<bpe, text, heap, bits>> /\ Running
  BY DEF Collect, Running
<1> QED BY <1>1 DEF JoinInv

(***************************************************************************)
(* JoinInv holds from the start on, and every iteration of the loop of     *)
(* encode_into_bitfield keeps it.                                          *)
(***************************************************************************)
THEOREM JoinInvariance == SpecBitfield => []JoinInv
<1>1. InitBitfield => JoinInv
  <2> SUFFICES ASSUME InitBitfield PROVE JoinInv
    OBVIOUS
  <2>1. bpe.vocab \in Vocabularies
    BY DEF InitBitfield, FromDictionary
  <2>2. heap = <<>> /\ ~Running
    BY DEF InitBitfield, Running
  <2>3. <<>> \in Seq(Item) /\ IsHeap(<<>>)
    BY DEF IsHeap
  <2> QED BY <2>1, <2>2, <2>3 DEF JoinInv
<1>2. JoinInv /\ [NextBitfield]_bitfieldVars => JoinInv'
  <2> SUFFICES ASSUME JoinInv, [NextBitfield]_bitfieldVars PROVE JoinInv'
    OBVIOUS
  <2>1. ASSUME NEW t \in Texts, CallBitfield(t) PROVE JoinInv'
    BY <2>1, CallKeeps
  <2>2. CASE Discard
    BY <2>2, DiscardKeeps
  <2>3. CASE Merge
    BY <2>3, MergeKeeps
  <2>4. CASE Collect
    BY <2>4, CollectKeeps
  <2>5. CASE UNCHANGED bitfieldVars
    BY <2>5 DEF bitfieldVars, JoinInv, Running
  <2> QED BY <2>1, <2>2, <2>3, <2>4, <2>5 DEF NextBitfield
<1> QED BY <1>1, <1>2, PTL DEF SpecBitfield

(* The candidates in the heap that HeapComplete asks for. *)
LEMMA JoinInvComplete ==
  ASSUME JoinInv
  PROVE  HeapComplete
<1> SUFFICES ASSUME Running, NEW p \in Neighbours, JoinOf(p) # UINT32_MAX
             PROVE  \E u \in 1 .. Len(heap) : heap[u] = [priority |-> JoinOf(p), start |-> p[1]]
  BY DEF HeapComplete, Running
<1> DEFINE n == Len(text)
           a == p[1]
           b == p[2]
           c == Successor(b + 1)
<1>1. n \in Nat /\ Boundaries(bits, n) /\ (\A x \in bits : x \in 0 .. n)
  BY TextSlices DEF JoinInv, Boundaries
<1>2. /\ a \in bits /\ b \in bits /\ a < b /\ b < n
      /\ \A x \in bits : x <= a \/ b <= x
  BY DEF Neighbours
<1> HIDE DEF n, a, b
<1>3. IsNext(bits, a + 1, b)
  <2>1. a \in 0 .. n /\ b \in 0 .. n
    BY <1>1, <1>2
  <2> QED BY <1>1, <1>2, <2>1 DEF IsNext
<1>4. IsNext(bits, b + 1, c)
  <2> DEFINE x == b + 1
  <2>1. x \in 0 .. n
    BY <1>1, <1>2
  <2> HIDE DEF x
  <2>2. IsNext(bits, x, Successor(x))
    BY <1>1, <2>1, SuccessorIs
  <2> QED BY <2>2 DEF x
<1>5. JoinOf(p) = JoinIn(bpe.vocab, text, a, c)
  BY DEF JoinOf, Join, JoinIn, a, b
<1> HIDE DEF c
<1>6. c \in bits
  BY <1>4 DEF IsNext
<1>7. Candidate(bpe.vocab, text, a, c) \in Items(heap)
  BY <1>2, <1>3, <1>4, <1>5, <1>6 DEF JoinInv, AllJoins
<1> QED BY <1>5, <1>7 DEF Candidate, Items, a

(***************************************************************************)
(* The loop of encode_into_bitfield misses nothing: as long as it runs,    *)
(* and when it ends, every token that two neighbouring parts form is in    *)
(* the heap.                                                               *)
(***************************************************************************)
THEOREM MissesNothing == SpecBitfield => []HeapComplete
BY JoinInvariance, JoinInvComplete, PTL

(***************************************************************************)
(* The rule of byte pair encoding: whenever encode_into_bitfield joins two *)
(* parts, no other pair of neighbours forms a token of lower rank.         *)
(***************************************************************************)
THEOREM LowestRankFirst == SpecBitfield => LowestFirst
<1> DEFINE Lowest == bits' # bits /\ pc = "loop" =>
                       \A p \in Neighbours : JoinOf(p) = UINT32_MAX \/ Top.priority <= JoinOf(p)
<1>1. JoinInv /\ [NextBitfield]_bitfieldVars => [Lowest]_bitfieldVars
  <2> SUFFICES ASSUME JoinInv, NextBitfield, bits' # bits, pc = "loop",
                      NEW p \in Neighbours, JoinOf(p) # UINT32_MAX
               PROVE  Top.priority <= JoinOf(p)
    OBVIOUS
  <2>1. PICK u \in 1 .. Len(heap) : heap[u] = [priority |-> JoinOf(p), start |-> p[1]]
    BY JoinInvComplete DEF HeapComplete
  <2>2. Priority(heap, 1) <= Priority(heap, u)
    BY TopIsLeast DEF JoinInv
  <2> QED BY <2>1, <2>2 DEF Priority, Top
<1>2. SpecBitfield => [][Lowest]_bitfieldVars
  <2> HIDE DEF Lowest
  <2> QED BY <1>1, JoinInvariance, PTL DEF SpecBitfield
<1> QED BY <1>2 DEF LowestFirst

-----------------------------------------------------------------------------
(* The table encoder is exact.                                             *)

(* The dictionary and the text are those the theory of the reference is about. *)
LEMMA TextUsable ==
  ASSUME StateOK
  PROVE  /\ Usable(bpe.vocab) /\ IsSeq(text) /\ Complete(bpe.vocab, text)
         /\ Len(text) \in Nat /\ Len(table) \in Nat
<1>1. IsSeq(text) /\ Complete(bpe.vocab, text) /\ Len(text) \in Nat /\ Len(table) \in Nat
  BY TextFacts DEF IsSeq
<1>2. bpe.vocab \in Vocabularies
  BY DEF StateOK
<1>3. \A id \in DOMAIN bpe.vocab : IsSeq(bpe.vocab[id]) /\ Len(bpe.vocab[id]) > 0
  BY <1>2, VocabularyAssumption DEF IsSeq
<1>4. Usable(bpe.vocab)
  BY <1>2, <1>3, MergeableAssumption DEF Usable
<1> QED BY <1>1, <1>4

Built == bpe = FromDictionary(bpe.vocab)

EntriesExact ==
  algo = "table" =>
    \A n \in 1 .. Len(table) : table[n].token = LastOf(bpe.vocab, SubSeq(text, 1, n))

(* the tokens found are the end of the encoding *)
WalkExact ==
  algo = "table" =>
    LET R == ReferenceEncoding(bpe.vocab, text)
    IN  /\ pc = "walk" =>
             R = ReferenceEncoding(bpe.vocab, SubSeq(text, 1, pos)) \o Mirrored(result, 0)
        /\ pc = "reverse" => R = Mirrored(result, i)
        /\ pc = "done" => result = R

TableInv == Inv /\ Built /\ EntriesExact /\ WalkExact

(* An exact table has no entry without a token. *)
LEMMA ExactFound ==
  ASSUME StateOK, EntriesExact
  PROVE  EntriesFound
<1> SUFFICES ASSUME algo = "table", NEW n \in 1 .. Len(table)
             PROVE  table[n].token # NoToken
  BY DEF EntriesFound
<1> DEFINE last == LastOf(bpe.vocab, SubSeq(text, 1, n))
           p    == n - Len(bpe.vocab[last])
           v    == bpe.vocab
<1>1. table[n].token = last
  BY DEF EntriesExact
<1>2. n \in 1 .. Len(text)
  BY TextUsable DEF StateOK
<1>3. Usable(v) /\ IsSeq(text) /\ Complete(v, text)
  BY TextUsable
<1>4. MayEnd(v, text, n, last)
  <2> DEFINE w == last
             q == p
  <2>1. w = LastOf(v, SubSeq(text, 1, n)) /\ q = n - Len(v[w])
    OBVIOUS
  <2> HIDE DEF v, w, q
  <2> QED BY <1>2, <1>3, <2>1, OneMayEnd DEF w
<1>5. last \in DOMAIN bpe.vocab
  BY <1>4 DEF MayEnd
<1> QED BY <1>1, <1>5, TextFacts

(* the entry of a byte: the one token that may follow *)
LEMMA PrefixEntryExact ==
  ASSUME StateOK, Built, EntriesExact, algo = "table", Len(table) < Len(text)
  PROVE  PrefixEntry(TokensAt(Len(table) + 1)).token = LastOf(bpe.vocab, SubSeq(text, 1, Len(table) + 1))
<1> DEFINE n          == Len(table) + 1
           v          == bpe.vocab
           outputs    == TokensAt(n)
           candidates == {id \in outputs : Follows(id)}
           last       == LastOf(v, SubSeq(text, 1, n))
           p          == n - Len(v[last])
<1>1. Usable(v) /\ IsSeq(text) /\ Complete(v, text) /\ Len(table) \in Nat /\ Len(text) \in Nat
  BY TextUsable
<1>2. n \in 1 .. Len(text) /\ n \in Nat /\ n - 1 = Len(table)
  BY <1>1
<1>3. \A id : MayEnd(v, text, n, id) <=> id = last
  <2>1. last = LastOf(v, SubSeq(text, 1, n)) /\ p = n - Len(v[last])
    OBVIOUS
  <2> HIDE DEF v, last, p, n
  <2> QED BY <1>1, <1>2, <2>1, OneMayEnd
<1> HIDE DEF last
<1>4. ASSUME NEW id
      PROVE  id \in candidates <=> MayEnd(v, text, n, id)
  <2> DEFINE q == n - Len(v[id])
  <2>1. SUFFICES ASSUME id \in DOMAIN v PROVE id \in candidates <=> MayEnd(v, text, n, id)
    BY DEF TokensAt, MayEnd
  <2>2. Len(v[id]) \in Nat \ {0}
    BY <1>1, <2>1, UsableFacts
  <2>3. TokenLen(bpe, id) = Len(v[id]) /\ Start(id) = q
    BY DEF TokenLen, Start
  <2>4. Len(v[id]) <= n <=> q \in Nat
    BY <1>2, <2>2
  <2>5. id \in outputs <=> q \in Nat /\ OccursAt(v[id], text, q, n)
    BY <2>1, <2>3, <2>4 DEF TokensAt
  <2>6. ASSUME q \in Nat, q # 0
        PROVE  table[q].token = LastOf(v, SubSeq(text, 1, q))
    <3>1. q \in 1 .. Len(table)
      BY <1>2, <2>2, <2>6
    <3> HIDE DEF q, v
    <3> QED BY <3>1 DEF EntriesExact, v
  <2>7. q \in Nat =>
          (Follows(id) <=> q = 0 \/ ValidPair(FromDictionary(v), LastOf(v, SubSeq(text, 1, q)), id))
    BY <2>3, <2>6 DEF Follows, Built
  <2> HIDE DEF outputs
  <2> QED BY <2>1, <2>5, <2>7 DEF MayEnd
<1>5. candidates = {last}
  BY <1>3, <1>4
<1>6. FirstOutput(ForwardWords(bpe), candidates) = last
  <2>1. last \in DOMAIN v
    BY <1>3 DEF MayEnd
  <2>2. Len(v[last]) \in Nat
    BY <1>1, <2>1, UsableFacts
  <2> DEFINE m == Len(v[last])
             c == candidates
             w == ForwardWords(bpe)
  <2>3. m \in Nat /\ c # {} /\ \A id \in c : Len(w[id]) \in 0 .. m
    <3> HIDE DEF candidates
    <3> QED BY <1>5, <2>2 DEF ForwardWords
  <2> HIDE DEF c, m, w
  <2>4. FirstOutput(w, c) \in c
    BY <2>3, FirstIsOne
  <2> QED BY <1>5, <2>4 DEF c, w
<1>7. PrefixEntry(outputs).token =
        IF candidates = {} THEN NoToken ELSE FirstOutput(ForwardWords(bpe), candidates)
  BY DEF PrefixEntry
<1> HIDE DEF candidates
<1> QED BY <1>5, <1>6, <1>7 DEF last

(* A scan step keeps the entries exact. *)
LEMMA ScanExact == ASSUME TableInv, Scan PROVE EntriesExact'
<1> DEFINE n == Len(table) + 1
           entry == PrefixEntry(TokensAt(n))
<1>1. StateOK /\ ScanInv /\ Built /\ EntriesExact
  BY DEF TableInv, Inv
<1>2. StateOK' /\ ScanInv'
  BY <1>1, ScanKeeps
<1>3. /\ pc = "scan" /\ Len(table) < Len(text)
      /\ UNCHANGED <<bpe, pc, algo, text>>
      /\ table' = Append(table, IF algo = "table" THEN PrefixEntry(Outputs(ForwardWords(bpe), state'))
                                ELSE MinimalEntry(Outputs(ForwardWords(bpe), state')))
  BY DEF Scan
<1> SUFFICES ASSUME algo = "table"
             PROVE  \A k \in 1 .. Len(table') : table'[k].token = LastOf(bpe.vocab, SubSeq(text, 1, k))
  BY <1>3 DEF EntriesExact
<1>4. IsSeq(table) /\ Len(table) \in Nat /\ Len(text) \in Nat
  BY <1>1, TextUsable DEF StateOK, IsSeq
<1>5. /\ Len(table') = n
      /\ table'[n] = PrefixEntry(Outputs(ForwardWords(bpe), state'))
      /\ \A k \in 1 .. Len(table) : table'[k] = table[k]
  BY <1>3, <1>4, AppendFacts
<1>6. Outputs(ForwardWords(bpe), state') = TokensAt(n)
  <2>1. LongestBeginning(bpe.vocab, SubSeq(text, 1, n), state')
    BY <1>2, <1>3, <1>5 DEF ScanInv
  <2>2. n \in 0 .. Len(text)
    BY <1>3, <1>4
  <2> QED BY <1>1, <2>1, <2>2, OutputsAreTokens DEF ForwardWords
<1>7. table'[n].token = LastOf(bpe.vocab, SubSeq(text, 1, n))
  BY <1>1, <1>3, <1>5, <1>6, PrefixEntryExact
<1>8. \A k \in 1 .. n : k = n \/ k \in 1 .. Len(table)
  BY <1>4
<1> QED BY <1>1, <1>5, <1>7, <1>8 DEF EntriesExact

(* A step back along the table goes to the last token of what is left. *)
LEMMA WalkStepExact == ASSUME TableInv, WalkBack, algo = "table" PROVE WalkExact'
<1> DEFINE token == table[pos].token
           v     == bpe.vocab
           from  == pos - Len(v[token])
           R     == ReferenceEncoding(v, text)
           B(q)  == ReferenceEncoding(v, SubSeq(text, 1, q))
           S     == DOMAIN v
           rev   == Mirrored(result, 0)
           found == Append(result, token)
<1>1. Inv /\ StateOK /\ ScanInv /\ EntriesExact /\ WalkExact /\ EntriesFound /\ WalkInv
  BY ExactFound DEF TableInv, Inv
<1>2. /\ pc = "walk" /\ pc' = "walk" /\ pos > 0 /\ pos' = from /\ result' = found
      /\ UNCHANGED <<bpe, algo, text, table>>
  BY DEF WalkBack, TokenLen
<1>3. /\ Usable(v) /\ IsSeq(text) /\ Complete(v, text) /\ Len(text) \in Nat
      /\ Len(table) = Len(text) /\ pos \in 0 .. Len(text) /\ result \in Seq(S)
  BY <1>1, <1>2, TextUsable DEF ScanInv, WalkInv
<1>4. pos \in 1 .. Len(text) /\ pos \in 1 .. Len(table)
  BY <1>2, <1>3
<1>5. token = LastOf(v, SubSeq(text, 1, pos))
  BY <1>1, <1>4 DEF EntriesExact
<1>6. /\ \A id : MayEnd(v, text, pos, id) <=> id = token
      /\ IsSeq(B(from))
      /\ B(pos) = Append(B(from), token)
  <2> DEFINE n == pos
             p == from
             last == token
  <2>1. /\ Usable(v) /\ IsSeq(text) /\ Complete(v, text) /\ n \in 1 .. Len(text)
        /\ last = LastOf(v, SubSeq(text, 1, n)) /\ p = n - Len(v[last])
    BY <1>3, <1>4, <1>5
  <2>2. n = pos /\ p = from /\ last = token
    OBVIOUS
  <2> HIDE DEF n, p, last, token, v, from, R, rev, found, S, B
  <2>3. \A id : MayEnd(v, text, n, id) <=> id = last
    BY <2>1, OneMayEnd
  <2>4. IsSeq(ReferenceEncoding(v, SubSeq(text, 1, p)))
    BY <2>1, OneMayEnd
  <2>5. EndsIn(v, text, n, p, last)
    BY <2>1, OneMayEnd
  <2> QED BY <2>2, <2>3, <2>4, <2>5 DEF B, EndsIn
<1> HIDE DEF token, v
<1>7. token \in S
  BY <1>6 DEF MayEnd
<1>8. rev \in Seq(S) /\ Mirrored(found, 0) = <<token>> \o rev
  <2>1. 0 \in Nat
    OBVIOUS
  <2> HIDE DEF S
  <2> QED BY <1>3, <1>7, <2>1, MirroredType, MirroredAppend
<1>9. R = B(pos) \o rev
  BY <1>1, <1>2 DEF WalkExact, v
<1> HIDE DEF S, rev, R, B, found, from
<1>10. IsSeq(rev)
  BY <1>8 DEF IsSeq
<1>11. R = B(from) \o Mirrored(found, 0)
  <2> DEFINE b == B(from)
  <2>1. IsSeq(b) /\ IsSeq(rev) /\ B(pos) = Append(b, token)
    BY <1>6, <1>10
  <2> HIDE DEF b
  <2>2. Append(b, token) \o rev = b \o (<<token>> \o rev)
    BY <2>1, AppendConcat
  <2> QED BY <1>8, <1>9, <2>1, <2>2 DEF b
<1> QED BY <1>2, <1>11 DEF WalkExact, Mirrored, R, B, v

(* Every step keeps the invariant. *)
LEMMA NextTable == TableInv /\ [Next]_vars => TableInv'
<1> SUFFICES ASSUME TableInv, [Next]_vars PROVE TableInv'
  OBVIOUS
<1> DEFINE v == bpe.vocab
           R == ReferenceEncoding(v, text)
<1>1. Inv /\ StateOK /\ ScanInv /\ Built /\ EntriesExact /\ WalkExact /\ EntriesFound /\ WalkInv
  BY ExactFound DEF TableInv, Inv
<1>2. Inv'
  BY <1>1, NextInv
<1>3. bpe' = bpe
  BY DEF Next, Call, Scan, EndScan, WalkBack, EndWalk, SwapEnds, SwapOutside, EndReverse,
         Match, EndMatch, vars
<1>4. Built'
  BY <1>1, <1>3 DEF Built
<1>5. IsSeq(R) /\ Usable(v) /\ IsSeq(text)
  BY <1>1, TextUsable, ReferenceIsValid
<1>6. EntriesExact' /\ WalkExact'
  <2>1. CASE \E a \in {"table", "minimal", "greedy"}, t \in Texts : Call(a, t)
    <3>1. table' = table /\ table = <<>> /\ pc' \in {"match", "scan"}
      BY <1>1, <2>1 DEF Call, StateOK
    <3>2. Len(table') = 0 /\ 1 .. 0 = {}
      BY <3>1
    <3> QED BY <3>1, <3>2 DEF EntriesExact, WalkExact
  <2>2. CASE Scan
    <3>1. pc' = "scan"
      BY <2>2 DEF Scan
    <3> QED BY <2>2, <3>1, ScanExact DEF WalkExact
  <2>3. CASE EndScan
    <3>1. /\ pc = "scan" /\ pc' = "walk" /\ pos' = Len(text)
          /\ UNCHANGED <<bpe, algo, text, table, result>>
      BY <2>3 DEF EndScan
    <3>2. EntriesExact'
      BY <1>1, <3>1 DEF EntriesExact
    <3>3. result = <<>> /\ Mirrored(<<>>, 0) = <<>>
      BY <1>1, <3>1 DEF StateOK, Mirrored
    <3>4. SubSeq(text, 1, Len(text)) = text /\ R \o <<>> = R
      <4> HIDE DEF R
      <4> QED BY <1>5, WholeSeq, NothingBefore
    <3>5. R = ReferenceEncoding(v, SubSeq(text, 1, Len(text))) \o Mirrored(<<>>, 0)
      BY <3>3, <3>4
    <3>6. Mirrored(result, 0)' = Mirrored(<<>>, 0)
      BY <3>1, <3>3 DEF Mirrored
    <3> QED BY <3>1, <3>2, <3>5, <3>6 DEF WalkExact
  <2>4. CASE WalkBack
    <3>1. UNCHANGED <<bpe, algo, text, table>>
      BY <2>4 DEF WalkBack
    <3>2. EntriesExact'
      BY <1>1, <3>1 DEF EntriesExact
    <3>3. algo # "table" => WalkExact'
      BY <3>1 DEF WalkExact
    <3> QED BY <2>4, <3>2, <3>3, WalkStepExact
  <2>5. CASE EndWalk
    <3>1. /\ pc = "walk" /\ pos = 0 /\ (algo = "table" => pc' = "reverse")
          /\ UNCHANGED <<bpe, algo, text, table, result, i>>
      BY <2>5 DEF EndWalk
    <3>2. EntriesExact'
      BY <1>1, <3>1 DEF EntriesExact
    <3>3. ASSUME algo = "table" PROVE R = Mirrored(result, 0) /\ i = 0
      <4>1. R = ReferenceEncoding(v, SubSeq(text, 1, 0)) \o Mirrored(result, 0) /\ i = 0
        BY <1>1, <3>1, <3>3 DEF WalkExact, StateOK
      <4>2. SubSeq(text, 1, 0) = <<>> /\ ReferenceEncoding(v, <<>>) = <<>>
        BY <1>5, EmptyReference, SubSeqEmpty
      <4>3. IsSeq(Mirrored(result, 0))
        <5>1. result \in Seq(DOMAIN v) /\ 0 \in Nat
          BY <1>1 DEF WalkInv
        <5> HIDE DEF v
        <5> QED BY <5>1, MirroredType DEF IsSeq
      <4>4. <<>> \o Mirrored(result, 0) = Mirrored(result, 0)
        BY <4>3, NothingBefore
      <4> QED BY <4>1, <4>2, <4>4
    <3>4. algo = "table" => Mirrored(result, i)' = Mirrored(result, 0)
      BY <3>1, <3>3 DEF Mirrored
    <3> QED BY <3>1, <3>2, <3>3, <3>4 DEF WalkExact
  <2>6. CASE SwapEnds
    <3> DEFINE swapped == Swapped(result, i, j)
               S       == DOMAIN v
    <3>1. /\ pc = "reverse" /\ pc' = "reverse" /\ i < j /\ j < Len(result)
          /\ result' = swapped /\ i' = i + 1
          /\ UNCHANGED <<bpe, algo, text, table>>
          /\ ~(i >= j)
      <4>1. ~(i >= j) /\ algo = "table"
        BY <1>1, <2>6 DEF SwapEnds, Crossed, StateOK
      <4>2. i < j
        <5>1. i \in Nat /\ (result = <<>> => j = SIZE_MAX) /\ (result # <<>> => j = Len(result) - 1 - i)
              /\ Len(result) \in Nat
          BY <1>1, <2>6, <4>1, LenProperties DEF WalkInv, SwapEnds
        <5> QED BY <4>1, <5>1, SizeMaxAssumption
      <4> QED BY <2>6, <4>1, <4>2 DEF SwapEnds, Swapped
    <3>2. EntriesExact'
      BY <1>1, <3>1 DEF EntriesExact
    <3>3. algo = "table" /\ result \in Seq(S) /\ i \in Nat /\ Len(result) \in Nat
          /\ IF result = <<>> THEN i = 0 /\ j = SIZE_MAX ELSE j = Len(result) - 1 - i
      BY <1>1, <3>1, LenProperties DEF WalkInv, StateOK
    <3>4. j = Len(result) - 1 - i /\ j \in Nat
      <4>1. result # <<>>
        <5> SUFFICES ASSUME result = <<>> PROVE FALSE
          OBVIOUS
        <5>1. j = SIZE_MAX /\ Len(result) = 0
          BY <3>3
        <5> QED BY <3>1, <5>1, SizeMaxAssumption
      <4> QED BY <3>1, <3>3, <4>1
    <3>5. Mirrored(swapped, i + 1) = Mirrored(result, i)
      <4> HIDE DEF S, v
      <4> QED BY <3>1, <3>3, <3>4, MirroredSwap
    <3>6. R = Mirrored(result, i)
      BY <1>1, <3>1, <3>3 DEF WalkExact
    <3> HIDE DEF swapped
    <3> DEFINE next == i + 1
    <3>7. R = Mirrored(swapped, next)
      BY <3>5, <3>6
    <3>8. i' = next
      BY <3>1
    <3> HIDE DEF next
    <3>9. Mirrored(result, i)' = Mirrored(swapped, next)
      BY <3>1, <3>8 DEF Mirrored
    <3> QED BY <3>1, <3>2, <3>7, <3>9 DEF WalkExact
  <2>7. CASE SwapOutside
    <3>1. pc' = "undefined" /\ UNCHANGED <<bpe, algo, text, table>>
      BY <2>7 DEF SwapOutside
    <3> QED BY <1>1, <3>1 DEF EntriesExact, WalkExact
  <2>8. CASE EndReverse
    <3>1. /\ pc = "reverse" /\ pc' = "done" /\ i >= j
          /\ UNCHANGED <<bpe, algo, text, table, result>>
      BY <2>8 DEF EndReverse, Crossed
    <3>2. EntriesExact'
      BY <1>1, <3>1 DEF EntriesExact
    <3>3. algo = "table" /\ result \in Seq(DOMAIN v) /\ i \in Nat /\ Len(result) \in Nat
          /\ (result = <<>> => Len(result) = 0 /\ i = 0)
          /\ (result # <<>> => j = Len(result) - 1 - i)
      BY <1>1, <3>1, LenProperties DEF WalkInv, StateOK
    <3>4. i >= Len(result) - 1 - i
      BY <3>1, <3>3
    <3>5. Mirrored(result, i) = result
      BY <3>3, <3>4, MirroredAll
    <3>6. R = result
      BY <1>1, <3>1, <3>3, <3>5 DEF WalkExact
    <3> QED BY <3>1, <3>2, <3>6 DEF WalkExact
  <2>9. CASE Match \/ EndMatch
    <3>1. pc = "match" /\ UNCHANGED <<bpe, algo, text, table>>
      BY <2>9 DEF Match, EndMatch
    <3>2. algo = "greedy"
      BY <1>1, <3>1 DEF StateOK
    <3> QED BY <3>1, <3>2 DEF EntriesExact, WalkExact
  <2>10. CASE UNCHANGED vars
    <3>1. UNCHANGED <<bpe, pc, algo, text, table, pos, result, i>>
      BY <2>10 DEF vars
    <3> QED BY <1>1, <3>1 DEF EntriesExact, WalkExact, Mirrored
  <2> QED BY <2>1, <2>2, <2>3, <2>4, <2>5, <2>6, <2>7, <2>8, <2>9, <2>10 DEF Next
<1> QED BY <1>2, <1>4, <1>6 DEF TableInv

(* It holds at first. *)
LEMMA InitTable == Init => TableInv
<1> SUFFICES ASSUME Init PROVE TableInv
  OBVIOUS
<1>1. PICK vocab \in Vocabularies : bpe = FromDictionary(vocab)
  BY DEF Init
<1>2. bpe.vocab = vocab
  BY <1>1 DEF FromDictionary
<1>3. Built
  BY <1>1, <1>2 DEF Built
<1>4. algo = "none"
  BY DEF Init
<1> QED BY <1>3, <1>4, InitInv DEF TableInv, EntriesExact, WalkExact

(***************************************************************************)
(* The entries of bpe_encode_all_prefixes and the tokens that the walk     *)
(* back over them collects are those of the reference encoding.            *)
(***************************************************************************)
THEOREM TableInvariance == Spec => []TableInv
  BY InitTable, NextTable, PTL DEF Spec

(***************************************************************************)
(* For every dictionary byte pair encoding can build and every text: each  *)
(* entry that bpe_encode_all_prefixes makes is the last token of the       *)
(* reference encoding of the text up to its byte, and what                 *)
(* bpe_encode_via_table returns is the reference encoding.                 *)
(***************************************************************************)
THEOREM TableAlwaysExact == Spec => []TableExact
<1>1. TableInv => TableExact
  BY DEF TableInv, EntriesExact, WalkExact, TableExact, LastOf
<1> QED BY <1>1, TableInvariance, PTL

(***************************************************************************)
(* For every such dictionary: what the table, the minimal and the greedy   *)
(* encoder return decodes to the text.                                     *)
(***************************************************************************)
THEOREM ResultsAlwaysDecode == Spec => []ResultDecodes
<1>1. TableInv => EntriesFound
  BY ExactFound DEF TableInv, Inv
<1> QED BY <1>1, TableInvariance, ResultsDecode, PTL
=============================================================================
