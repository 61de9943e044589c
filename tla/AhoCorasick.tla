---------------------------- MODULE AhoCorasick ----------------------------
(***************************************************************************)
(* src/ac_bpe.c: how an automaton is built from the tokens and how it      *)
(* runs.  The tokens go into a trie; a breadth-first search over it finds  *)
(* for each node its failure link and its chain of outputs; a second one   *)
(* packs the trie into a double array, where the child of slot s by byte c *)
(* is slot t = base[s] + c if check[t] = s.  The automaton keeps the       *)
(* arrays and runs on slots only.                                          *)
(*                                                                         *)
(* A trie node is named by the bytes on its path, so the root is <<>> and  *)
(* trie_depth is the length of the name; the sorted edge lists are the     *)
(* nodes one byte longer.  Bytes are 0 .. NumBytes-1.  One call of         *)
(* ac_builder_add, one iteration of each breadth-first loop and one byte   *)
(* of a text are one action each.                                          *)
(***************************************************************************)
EXTENDS Automaton

CONSTANTS
  Vocabularies,  \* the token lists a behaviour may start from
  NumBytes,      \* 256
  MinSlots,      \* da_cap is at least this: 512
  ReadBytes,     \* the bytes that texts consist of
  MaxRead        \* bound: bytes read

Bytes == 0 .. NumBytes - 1

ASSUME ByteAssumption ==
  /\ NumBytes \in Nat \ {0}
  /\ MinSlots \in Nat /\ MinSlots >= NumBytes
  /\ ReadBytes \subseteq Bytes

(* there are tokens, each of at least one byte, and every id is a token id *)
ASSUME VocabularyAssumption ==
  \A vocab \in Vocabularies :
    /\ \E n \in 1 .. UINT32_MAX : DOMAIN vocab = 0 .. n - 1
    /\ \A id \in DOMAIN vocab : vocab[id] \in Seq(Bytes) \ {<<>>}

VARIABLES
  words,     \* the tokens, read backwards if the kind is AC_KIND_OVERLAPPING_REV
  pc,        \* "add", "search", "pack", "ready"
  added,     \* number of tokens added
  trie,      \* node -> token, UINT32_MAX if none ends here
  fail,      \* trie_fail
  output,    \* trie_output: node -> index in outputs, 0: none
  outputs,   \* the output cells 1 .. noutputs-1
  queue,     \* queue[qh .. qt)
  base,      \* da_base
  check,     \* da_check, -1: free
  slot,      \* trie_to_da, for the nodes that have a slot
  next_base, \* no free slot below it
  cells,     \* slot -> [fail, output]
  state,     \* it->state
  read       \* history: the bytes read; no action of the code reads it

build == <<trie, fail, output, outputs, queue, base, check, slot, next_base, cells>>
vars  == <<words, pc, added, build, state, read>>

AC_INVALID_TOKEN == UINT32_MAX
Root == <<>>
Nodes == DOMAIN trie

Init ==
  /\ \E vocab \in Vocabularies : words \in {vocab, [id \in DOMAIN vocab |-> Backwards(vocab[id])]}
  /\ pc = "add"
  /\ added = 0
  /\ trie = [n \in {Root} |-> AC_INVALID_TOKEN]
  /\ fail = [n \in {} |-> Root]
  /\ output = [n \in {Root} |-> 0]
  /\ outputs = <<>>
  /\ queue = <<>>
  /\ base = <<>> /\ check = <<>>
  /\ slot = [n \in {Root} |-> 0]
  /\ next_base = 1
  /\ cells = <<>>
  /\ state = 0
  /\ read = <<>>

-----------------------------------------------------------------------------
(* The trie *)

(* tb_insert: the path of the word; of equal words the first one counts *)
Inserted(word, token) ==
  [n \in Nodes \cup {SubSeq(word, 1, k) : k \in 0 .. Len(word)} |->
     IF n \in Nodes /\ (n # word \/ trie[n] # AC_INVALID_TOKEN) THEN trie[n]
     ELSE IF n = word THEN token ELSE AC_INVALID_TOKEN]

Add ==
  /\ pc = "add"
  /\ added < Cardinality(DOMAIN words)
  /\ trie' = Inserted(words[added], added)
  /\ added' = added + 1
  /\ UNCHANGED <<words, pc, fail, output, outputs, queue, base, check, slot,
                 next_base, cells, state, read>>

(* the children of a node, and in the order of its edges *)
ChildSet(node) == {n \in Nodes : \E byte \in Bytes : n = Append(node, byte)}
Byte(node) == node[Len(node)]

Children(node) ==
  LET places == 1 .. Cardinality(ChildSet(node))
  IN  CHOOSE order \in [places -> ChildSet(node)] :
        \A j, k \in places : j < k => Byte(order[j]) < Byte(order[k])

(* f, and g where f has no value *)
With(f, g) == [x \in DOMAIN f \cup DOMAIN g |-> IF x \in DOMAIN f THEN f[x] ELSE g[x]]

-----------------------------------------------------------------------------
(* Phase 1: failure links and outputs *)

StartSearch ==
  /\ pc = "add"
  /\ added = Cardinality(DOMAIN words)
  /\ pc' = "search"
  /\ queue' = Children(Root)
  /\ fail' = [n \in ChildSet(Root) \cup {Root} |-> Root]
  /\ UNCHANGED <<words, added, trie, output, outputs, base, check, slot,
                 next_base, cells, state, read>>

(* the walk along the failure links of the parent *)
FailOf(parent, byte) ==
  LET walk[n \in DOMAIN fail] ==
        IF Append(n, byte) \in Nodes THEN Append(n, byte)
        ELSE IF n = Root THEN Root ELSE walk[fail[n]]
  IN  walk[fail[parent]]

OutputCell(node) ==
  [token |-> trie[node], start_offset |-> Len(node), next |-> output[fail[node]]]

Visit ==
  /\ pc = "search"
  /\ queue # <<>>
  /\ LET node == Head(queue)
     IN  /\ IF trie[node] # AC_INVALID_TOKEN
            THEN /\ outputs' = Append(outputs, OutputCell(node))
                 /\ output' = With([n \in {node} |-> Len(outputs) + 1], output)
            ELSE /\ outputs' = outputs
                 /\ output' = With([n \in {node} |-> output[fail[node]]], output)
         /\ fail' = With([n \in ChildSet(node) |-> FailOf(node, Byte(n))], fail)
         /\ queue' = Tail(queue) \o Children(node)
  /\ UNCHANGED <<words, pc, added, trie, base, check, slot, next_base, cells, state, read>>

-----------------------------------------------------------------------------
(* Phase 2: the double array *)

Slots(n)  == 0 .. n - 1
Capacity  == Cardinality(DOMAIN check)

(* da_grow: doubled until it is large enough; new slots are free *)
Grown(array, needed, new) ==
  LET cap[n \in 0 .. needed] == IF n = 0 THEN Cardinality(DOMAIN array) ELSE 2 * cap[n - 1]
      Enough(n) == cap[n] >= needed
      large     == cap[CHOOSE n \in 0 .. needed : Enough(n) /\ \A m \in 0 .. n - 1 : ~Enough(m)]
  IN  [t \in Slots(large) |-> IF t \in DOMAIN array THEN array[t] ELSE new]

StartPack ==
  /\ pc = "search"
  /\ queue = <<>>
  /\ pc' = "pack"
  /\ LET cap == IF 2 * Cardinality(Nodes) < MinSlots THEN MinSlots ELSE 2 * Cardinality(Nodes)
     IN  /\ base' = [t \in Slots(cap) |-> 0]
         /\ check' = [t \in Slots(cap) |-> IF t = 0 THEN 0 ELSE -1]
  /\ queue' = <<Root>>
  /\ UNCHANGED <<words, added, trie, fail, output, outputs, slot, next_base, cells, state, read>>

(* only the slot of the first child has to be free *)
Fits_FirstChild(node, b) ==
  b + Byte(Children(node)[1]) \in DOMAIN check => check[b + Byte(Children(node)[1])] = -1

(* every child finds a free slot; slots that are not there yet are free *)
Fits(node, b) ==
  \A child \in ChildSet(node) :
    b + Byte(child) \in DOMAIN check => check[b + Byte(child)] = -1

Pack ==
  /\ pc = "pack"
  /\ queue # <<>>
  /\ ChildSet(Head(queue)) # {}
  /\ LET node     == Head(queue)
         b        == CHOOSE x \in next_base .. Capacity :
                       Fits(node, x) /\ \A y \in next_base .. x - 1 : ~Fits(node, y)
         SlotOf   == [n \in ChildSet(node) |-> b + Byte(n)]
         taken    == {SlotOf[n] : n \in ChildSet(node)}
         filled   == [t \in DOMAIN Grown(check, b + NumBytes, -1) |->
                        IF t \in taken THEN slot[node] ELSE Grown(check, b + NumBytes, -1)[t]]
         free     == {t \in DOMAIN filled : t >= next_base /\ filled[t] = -1}
     IN  /\ base' = [Grown(base, b + NumBytes, 0) EXCEPT ![slot[node]] = b]
         /\ check' = filled
         /\ slot' = With(SlotOf, slot)
         /\ queue' = Tail(queue) \o Children(node)
         /\ next_base' = IF free = {} THEN Cardinality(DOMAIN filled)
                         ELSE CHOOSE t \in free : \A u \in free : t <= u
  /\ UNCHANGED <<words, pc, added, trie, fail, output, outputs, cells, state, read>>

PackLeaf ==
  /\ pc = "pack"
  /\ queue # <<>>
  /\ ChildSet(Head(queue)) = {}
  /\ queue' = Tail(queue)
  /\ UNCHANGED <<words, pc, added, trie, fail, output, outputs, base, check, slot,
                 next_base, cells, state, read>>

(* Phase 3; the trie and the tables that belong to it are freed *)
Assemble ==
  /\ pc = "pack"
  /\ queue = <<>>
  /\ pc' = "ready"
  /\ cells' = [t \in {slot[n] : n \in Nodes} |->
                 LET node == CHOOSE n \in Nodes : slot[n] = t
                 IN  [fail |-> slot[fail[node]], output |-> output[node]]]
  /\ UNCHANGED <<words, added, trie, fail, output, outputs, queue, base, check, slot,
                 next_base, state, read>>

-----------------------------------------------------------------------------
(* The automaton *)

(* one failure link, then back to the start *)
Step_OneLink(s, byte) ==
  LET t == base[s] + byte
      u == base[cells[s].fail] + byte
  IN  IF check[t] = s THEN t ELSE IF check[u] = cells[s].fail THEN u ELSE 0

(* ac_step *)
Step(s, byte) ==
  LET walk[r \in DOMAIN cells] ==
        IF check[base[r] + byte] = r THEN base[r] + byte
        ELSE IF r = 0 THEN 0 ELSE walk[cells[r].fail]
  IN  walk[s]

(* the output cells of a chain, as ac_iter_next_match goes through them *)
Chain(first) ==
  LET from[o \in 0 .. Len(outputs)] ==
        IF o = 0 THEN <<>> ELSE <<outputs[o]>> \o from[outputs[o].next]
  IN  from[first]

(* ac_iter_advance *)
Read(byte) ==
  /\ pc = "ready"
  /\ Len(read) < MaxRead
  /\ state' = Step(state, byte)
  /\ read' = Append(read, byte)
  /\ UNCHANGED <<words, pc, added, build>>

(* the search ends with the first byte that ends a token *)
Over_AtFirst(best, s) == best.token # AC_INVALID_TOKEN

(* the loop of ac_leftmost_longest breaks *)
Over(best, s) == best.token # AC_INVALID_TOKEN /\ s = 0

(***************************************************************************)
(* ac_leftmost_longest: every match of every state on the way is compared  *)
(* with the best one so far.                                               *)
(***************************************************************************)
LeftmostLongest(text) ==
  LET Better(best, match, stop) ==
        LET begin == stop - match.start_offset
        IN  IF \/ best.token = AC_INVALID_TOKEN
               \/ begin < best.start
               \/ begin = best.start /\ stop > best.stop
            THEN [token |-> match.token, start |-> begin, stop |-> stop]
            ELSE best
      at[n \in 0 .. Len(text)] ==        \* state and best match after n bytes
        IF n = 0 THEN [state |-> 0, best |-> [token |-> AC_INVALID_TOKEN, start |-> 0, stop |-> 0]]
        ELSE IF n > 1 /\ Over(at[n - 1].best, at[n - 1].state) THEN at[n - 1]
        ELSE LET s     == Step(at[n - 1].state, text[n])
                 chain == Chain(cells[s].output)
                 best[k \in 0 .. Len(chain)] ==
                   IF k = 0 THEN at[n - 1].best ELSE Better(best[k - 1], chain[k], n)
             IN  [state |-> s, best |-> best[Len(chain)]]
  IN  at[Len(text)].best

Next ==
  \/ Add
  \/ StartSearch \/ Visit
  \/ StartPack \/ Pack \/ PackLeaf \/ Assemble
  \/ \E byte \in ReadBytes : Read(byte)

Spec == Init /\ [][Next]_vars

-----------------------------------------------------------------------------
(***************************************************************************)
(* The double array is the trie: nodes have different slots, and in every  *)
(* slot that is complete the test of ac_step answers for every byte whether*)
(* the node has that child, with all indices inside the arrays.  Slots of  *)
(* other nodes, bases that were never set and the root's own slot answer   *)
(* no.                                                                     *)
(***************************************************************************)
DoubleArrayIsTrie ==
  pc \in {"pack", "ready"} =>
    /\ DOMAIN base = DOMAIN check
    /\ \A m, n \in DOMAIN slot : slot[m] = slot[n] => m = n
    /\ \A n \in DOMAIN slot : (\A k \in 1 .. Len(queue) : queue[k] # n) =>
         \A byte \in Bytes :
           LET t == base[slot[n]] + byte
           IN  /\ t \in DOMAIN check
               /\ check[t] = slot[n] <=> Append(n, byte) \in Nodes
               /\ Append(n, byte) \in Nodes => slot[Append(n, byte)] = t

(***************************************************************************)
(* The automaton is the one of module Automaton: after any bytes it is in  *)
(* the slot of the abstract state, and it yields the tokens that end here, *)
(* longest first.                                                          *)
(***************************************************************************)
AbstractState ==
  LET after[n \in 0 .. Len(read)] ==
        IF n = 0 THEN StartState ELSE Advance(words, after[n - 1], read[n])
  IN  after[Len(read)]

IsAutomaton ==
  pc = "ready" =>
    /\ state = slot[AbstractState]
    /\ LET found == Outputs(words, AbstractState)
           chain == Chain(cells[state].output)
       IN  /\ {words[chain[k].token] : k \in 1 .. Len(chain)} = {words[id] : id \in found}
           /\ found # {} => words[chain[1].token] = words[FirstOutput(words, found)]

(***************************************************************************)
(* The search finds the match that starts first and the longest one of     *)
(* those; it may stop early, but not before that one is found.             *)
(***************************************************************************)
SearchIsNextMatch ==
  pc = "ready" =>
    LET best  == LeftmostLongest(read)
        match == NextMatch(words, read, 0, Len(read))
    IN  IF match = UINT32_MAX THEN best.token = AC_INVALID_TOKEN
        ELSE /\ best.token # AC_INVALID_TOKEN
             /\ words[best.token] = words[match]
             /\ OccursAt(words[match], read, best.start, best.stop)
             /\ \A s \in 0 .. best.start - 1, id \in DOMAIN words : ~OccursAt(words[id], read, s, Len(read))
=============================================================================
