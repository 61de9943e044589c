# c-bpe in TLA+

A TLA+ model of c-bpe, a byte pair encoder in C with a Python interface: what
the encoders, the splitters, the dictionary with its hash tables and automata,
the thread pool, and the first use of the Python package do, step by step; TLC
configurations that check them on small instances; and theorems that TLAPS proves
for every value of the constants: that the backtracking, the table and both
incremental encoders compute the reference encoding, and what holds of the
minimal, the greedy and the bit-field encoder, the thread pool, the pair map, the
loop over the pieces of a text, the tokenizer and the loading of the tables.

Paths are those of the repository (`src/bpe_core.c`, `include/bpe.h`, ...).

## 1. The system

| Component | State it keeps | Operations | Talks to |
|---|---|---|---|
| Dictionary (`src/bpe_core.c`, `include/bpe.h`) | token bytes, `split_left/right`, `pair_lookup`, `next_prefix_match`, two automata; immutable once built | `bpe_from_dictionary`, `bpe_from_blob`, `bpe_is_valid_token_pair`, `bpe_next_match`, `bpe_self_check` | hash maps, automaton |
| Backtracking encoder (`BtEnc` in `src/bpe_core.c`, `include/bitfield.h`) | token stack, position, next candidate, bit field of allowed boundaries; optionally a scratch buffer kept from call to call | `bpe_encode_via_backtracking`, `bpe_count`, `bpe_count_till_limit`, `bpe_encode_piece`, `bpe_count_piece` | dictionary |
| Other encoders (`src/bpe_core.c`) | per call: prefix table, table of minimal counts, heap and bit field | `bpe_encode_via_table`, `_minimal`, `_greedy`, `_via_bitfield`, `bpe_decode_tokens` | dictionary, automaton |
| Aho-Corasick automaton (`src/ac_bpe.c`) | while it is built: trie, queue, links; then a double array | `ac_builder_add`, `ac_build`, iteration, `ac_leftmost_longest` | dictionary |
| Appendable, prependable encoders | one state per byte: automaton state, last token, count | push, extend, truncate, token_count | dictionary, automaton |
| Interval encoding | tree over the prefixes of a text, numbered in preorder | `interval_encoding_new`, `interval_encoding_count` | dictionary, own copy of the backtracking encoder |
| Splitters (`src/pretok_cl100k.c`, `src/pretok_o200k.c`) | none | one match at an offset | Unicode tables |
| Tokenizer (`src/tokenizer.c`) | per call: offset, buffer, count | `pretok_iter_next`, encode, encode_into, count, count_till_limit | splitters, backtracking encoder |
| Thread pool (`src/threadpool.c`) | worker threads, bounded queue, one completion tracker per running batch | create, destroy, three batch calls | tokenizer |
| Batch wrapper (`src/parallel.c`) | the global pool, a once flag | three batch calls | thread pool |
| Extension module (`src/pymodule.c`) | two global tokenizers | Python types and methods; releases the interpreter lock for batches | tokenizer, batch wrapper |
| Python package (`python/c_bpe`) | decompressed tables on disk | `_ensure_decompressed` | extension module |
| Hash maps (`include/fnv_hash.h`) | open-addressing tables | put, get, grow | dictionary |
| LRU cache (`include/lru_cache.h`) | table and list | put, get, evict | nobody: included nowhere |

What is hard in it, and what makes each part correct:

* The **backtracking encoder** takes accepted tokens back. It is right only if
  it never rules out a boundary of the exact encoding, rules out a boundary at
  most once (this is also why it ends), and never trusts a bit that an earlier
  text left in a scratch buffer.
* The **thread pool** decrements a completion counter without the mutex under
  which the caller tests it, and the tracker lives on the caller's stack. No
  wakeup may be lost on any of its three condition variables, every output is
  written once before its call returns, and nobody should touch a tracker that
  is gone.
* The **automaton** is built by two breadth-first passes that need the results
  of shorter nodes, and packed into an array that grows while a place is being
  searched.
* The **incremental encoders** cut and grow a text in any order; nothing of
  what was cut may be left.
* The **interval encoding** stops counting as soon as it meets the tree of the
  whole text, and replaces the rest by a difference of depths.
* The **splitters** replace a backtracking regular expression by hand-written
  greedy loops.
* The **tokenizer** shares one buffer and one limit over many pieces, and
  cannot tell a splitter that gave up from the end of the text.
* The **hash tables** of the dictionary probe without a bound and keep no keys:
  of two tokens with the same 32-bit hash the second is never found, and the
  merges that need it are silently missing. The entries of a pair map displace
  each other, also around the end of the array.
* The **first use of the package** decompresses a file that other threads and
  processes look for at the same time, and loads it without comparing its length
  with its contents. That a process has one tokenizer rests on the interpreter
  lock alone.
* The **global pool** is created by whichever thread needs it first, while others
  wait for it, with or without the interpreter lock; a process may fork.

PROJECT.json lists these hazards line by line with the properties that cover
them, and for those not covered yet why.

## 2. Modules

| Module | Code | Its state and actions |
|---|---|---|
| `NoToken` | `UINT32_MAX` | the value for "no token" |
| `BytePairEncoding` | dictionary functions | no state; recursive functions, and `ReferenceEncoding`, byte pair encoding by its definition: join the pair of lowest rank, leftmost first |
| `JoinStages` | | the stages of byte pair encoding as sets of boundaries, and what it means that merges are right; definitions for the proofs, no model |
| `BacktrackEncoder` | `BtEnc`, its drivers and the scratch interface | `tokens`, `pos`, `next_token`, `bitfield`, ... as in the struct; `BeginStep`, `Accept`, `TryShorter`, `Backtrack` are the iterations of `btenc_step`'s loop, `Call`, `GiveUp`, `Return` the drivers; `ends` is history |
| `BacktrackEncoderProofs` | | theorems about it |
| `EncoderCall` | a call of an encoder of `src/bpe_core.c` | what `TableEncoders` and `BitfieldEncoder` share: dictionary, text, result, and what is assumed of them |
| `TableEncoders` | table, minimal, greedy encoders, decoder | one action per loop iteration |
| `BitfieldEncoder` | `bpe_encode_via_bitfield` | the heap as an array with its sifts; `Discard` and `Merge` are the two outcomes of a pop |
| `OtherEncodersProofs` | | theorems about `TableEncoders` and `BitfieldEncoder` |
| `Automaton` | what the users of `src/ac_bpe.c` see | no state: a state is the longest suffix that begins a token, outputs are the tokens that end there |
| `AhoCorasick` | `src/ac_bpe.c` | `Add`, `Visit`, `Pack`, `Assemble`: the trie, both passes and the double array; `Read`, `LeftmostLongest`: its use |
| `OpenAddressing` | `include/fnv_hash.h` | no state: probe, insertion, lookup and growth on an array of slots |
| `PairMap` | the `PairMap` there | `slots`, `count` and an arbitrary hash function; `PairInsert`, which grows |
| `PartialMap` | | the abstract map: entries are added, none changes |
| `DictionaryProofs` | | theorems about `AhoCorasick` and `PairMap` |
| `HashedDictionary` | `bpe_from_dictionary`, `bpe_self_check` | both hash tables and the split table; `PutToken` and `MergeToken` are the two loops' bodies, `SelfCheck` the check with any choice of the heap among equal ranks |
| `AppendableEncoder`, `PrependableEncoder` | the files of these names | `states` is the array of the object; one action per function |
| `TextObjectsProofs` | | theorems about both incremental encoders, and about the tree and the counts of the interval encoding (an INSTANCE of `BacktrackEncoderProofs` for the encoder of a count) |
| `IntervalEncoding` | `src/interval_encoding.c` | `SizeUp` and `Place` are the two building loops; a count runs an INSTANCE of `BacktrackEncoder`, of which `mini_step` is a copy |
| `Pretokenizers` | both splitters | no state: each alternative of each splitter as a function, and the documented patterns as lists of ends in backtracking order |
| `PieceIterator` | `pretok_iter_next` | `offset` and the last piece |
| `Tokenizer` | `src/tokenizer.c` | composes `PieceIterator` with the encoders by what they return; one action per piece |
| `TokenizerProofs` | | theorems about it and `PieceIterator`, with lemmas about every alternative of both splitters |
| `CommonLemmas` | | least and largest elements, induction over a set of naturals, existence of recursive functions, places of a ring, what `bpe_next_match` finds; the theory of the reference encoding; no model, for the other proofs |
| `ThreadPool` | `src/threadpool.c` | a program counter per worker and per caller, queue, tracker; a section under the queue's mutex is one action, the tracker's mutex is explicit. At its end stands the mapping to `BatchService` (`Call`, `Service`) |
| `BatchService` | `include/threadpool.h` | the abstract service: submit, do each item once, return |
| `ThreadPoolProofs` | | theorems about the pool: the batches, the wakeups, the refinement |
| `InterpreterLock` | CPython, as `src/pymodule.c` uses it | a program counter per thread, the holder of the lock per process |
| `PrecomputedTables` | `python/c_bpe/openai.py`, `build_cl100k`, `load_blob_file`, how much `bpe_from_blob` reads | the file as a sequence of chunks that several writers write and readers read chunk by chunk; `Fail` is an OSError, `Crash` a killed process |
| `PrecomputedTablesProofs` | | theorems about them |
| `GlobalPool` | `src/parallel.c`, its callers in `src/pymodule.c` | the once flag and the pool of each process; `Fork` |
| `SmallDictionaries`, `MC*` | | instances for TLC. `MCOtherEncoders` (the other encoders), `MCDictionary` (automaton, pair map, hashed dictionary), `MCTextObjects` (the three text objects), `MCTokenizer` (splitters, scratch buffer, tokenizer) and `MCPackage` (tables, pool) put several modules side by side, with a choice at the start |

How they depend on each other:

    NoToken
      |
    BytePairEncoding --+-- BacktrackEncoder ---- IntervalEncoding (INSTANCE)
                       +-- JoinStages ---------- CommonLemmas
                       +-- Automaton ----------- AppendableEncoder, PrependableEncoder,
                       |                         TableEncoders, IntervalEncoding, AhoCorasick
                       +-- EncoderCall --------- TableEncoders, BitfieldEncoder
                       +-- HashedDictionary ---- OpenAddressing
                       +-- Tokenizer ----------- PieceIterator --- Pretokenizers
    OpenAddressing --- PairMap --- refines --- PartialMap
    ThreadPool --- refines --- BatchService
    InterpreterLock --+-- PrecomputedTables --+-- MCPackage
                      +-- GlobalPool ---------+

Abstractions common to all modules: memory allocation succeeds; token buffers
are sequences (their capacity is modelled where it matters, in `Tokenizer`);
bytes and code points are members of small sets; the bit field is the set of
its set bits, with its size in words in `BacktrackEncoder`; except in
`HashedDictionary`, the hash maps are the functions they implement, which is what
the run `Dictionary` shows of them. A mutation operator such as `Full_TooLate` stands
before the definition `Full` it is a faulty version of; PROJECT.json says which
property each one breaks.

## 3. Runs

Unless said otherwise, "every small dictionary" is every dictionary over two
bytes whose tokens are built by up to two or three merges and in which every
token encodes to itself (the precondition `bpe_self_check` states). Two bytes
and three merges are enough for overlapping merges, for ranks that contradict
the longest match and for backtracking over several tokens.

| Run | What it shows |
|---|---|
| `BacktrackExact` | Every small dictionary with up to three merges, texts of up to five bytes, encoded or counted up to a limit with a slack of 2 instead of 10. At every step the stack is the reference encoding of the text before `pos` (`StackIsEncoding`), a segmentation into valid pairs (`Segmentation`); no boundary of the answer is ruled out (`AnswerSurvives`); each backtrack clears a bit that was set (`BacktrackRetires`); calls return. |
| `PoolSafety` | Three callers, two workers, batches of up to two, queue of two, spurious wakeups, failing thread creation. Callers and workers are symmetric. |
| `PoolLiveness` | Two callers, two workers, queue of one: batches return, destruction returns, and `BatchService` is implemented, its fairness included. |
| `PoolTracker` (violation) | A tracker that dies under a worker. |
| `OtherEncoders` | One call of any of the four other encoders, every small dictionary with up to three merges, texts of up to five bytes. The table encoder is exact, the minimal one minimal, and the results of all four decode to the text. The heap of the bit-field encoder holds every possible join, its stale entries are recognised, the lowest rank is joined first. |
| `BitfieldTies` (violation) | Of equal ranks the heap may return the later one first. The shortest text has six bytes, one more than in `OtherEncoders`. |
| `Dictionary` | Three parts. Automata: all lists of three tokens of up to three bytes; links, double array, and the answers after any four bytes; the array starts with four slots so that it grows. Pair map: four keys in any order under all hash functions into three values, which collide or wrap around the end; the smallest capacity is 2 instead of 16, so the map grows twice (in the program it never does: its only caller makes room for four times the number of tokens). Dictionaries: every small dictionary with up to three merges, with hashes of six bits and factors that make none, some or all of its tokens collide: without a collision, and whenever `bpe_self_check` passes, lookups and merges are exact (`SelfCheckIsEnough`). |
| `TextObjects` | One object per behaviour. The incremental encoders: any three pushes, extensions and cuts of texts of up to five bytes. The interval encoding: texts of six bytes that begin with a and all their intervals, with dictionaries that have a token of three bytes or more, where an interval and the text disagree for longest. |
| `Tokenizer` | Three parts. Splitters: both against their patterns on all texts of up to four code points of three alphabets (layout; words and contractions; letters without case and marks), and up to five of layout and of the other two with fewer letters. Excluded are the constructs of disagreements 6 to 8 below, where code and pattern part. Scratch buffer: three calls in a row, with one, with fresh ones, or limited counts. Words of two bits make texts of five bytes need three words; a slack of 1 instead of 10 makes the early exit of `bpe_count_till_limit` happen; the dictionary makes the encoder go back from the end of a text to its start. No bit of an earlier text changes a result, a limited count that is returned is exact, and the early exit is taken only if a beginning of the text has more than `limit_buf` tokens. Limits are 0 to 3 and `SIZE_MAX` itself (2000 here), for which `limit_buf` wraps around to 0. Tokenizer: two calls of any operation; the buffer holds the reference's tokens at every step, counts and limits agree with it, calls return. The first capacity is 1 instead of 256, so it has to be doubled, and more than once. |
| `SplitMixedCase` (violation) | A letter without case before a capital. |
| `Package` | Two processes, one with two threads; a file of two chunks; one kill. Any thread may find the file missing and write it, with any interleaving of chunks, fail at any point, or load. Unless a writer was at work during the load or was stopped half way, what is loaded is complete (`BlobConsumed`): two chunks are enough for a writer to be overtaken, truncated by another, and to leave a hole. One tokenizer per process (`InitialisedOnce`). Batches, `get_num_threads` and other calls in both processes, a pool that cannot be created or has no threads, and forks: calls return but for the two ways of disagreement 10 (`CallsReturn`). |
| `FirstUse` (violation) | The load beside a writer. |

Deadlock is checked in `PoolLiveness`. It is off in the sequential models, whose
behaviours end after the last call, in `PoolSafety` and `PoolTracker`, where a
worker may be stuck on a destroyed mutex, and in `Package` and `FirstUse`, where
a batch may wait for a pool without threads.

### Disagreements between the code and what is said of it

2, 4, 8 and 9 are the violation runs `PoolTracker`, `BitfieldTies`,
`SplitMixedCase` and `FirstUse`. The others came up while the code was being translated; the
models behave like the code there, and the runs leave the case out by their
constants or do not claim anything about it.

1. `include/bpe.h:156`: SIZE_MAX "if count exceeds token_limit". The early exit
   (`src/bpe_core.c:470`) counts tokens that would still be taken back. With 49
   letters, their 48 neighbour pairs and 12 quadruples (`DominoWords(49)`) the
   search holds 24 tokens on the way to an encoding of 13, and a limit of 13 is
   reported as exceeded. Of an exceeded limit `ResultExact` claims only that the
   count is larger or that some beginning of the text has more than `limit_buf`
   tokens; so the answer is right for texts of at most `limit_buf` bytes.
   And `limit_buf`, a `size_t`, is the limit plus 10 only up to `SIZE_MAX - 10`. For a
   limit of `SIZE_MAX`, which `count_till_limit(text, -1)` passes from Python
   (`src/pymodule.c:354`), it is 9, and a first piece of more than 10 tokens makes an
   unlimited count report that the limit is exceeded. The models compute this
   sum as the code does (`LimitBuf`) and the run `Tokenizer` has such a limit.
2. `include/threadpool.h:6`: "the caller blocks until every item is done". The
   last worker still has to lock and signal the tracker (`src/threadpool.c:125`)
   when its owner may already have destroyed it.
3. `include/threadpool.h:18`: "Create pool with `nthreads` worker threads". If
   no thread can be started the pool is returned all the same, and a batch waits
   for ever. `PoolLiveness` has at least one thread (`MinWorkers = 1`).
4. `include/bpe.h:199`: the bit-field encoder is "also exact". Its heap does not
   order equal ranks by position.
5. `include/bpe.h:215`: the table encoder is "exact". For the empty text it
   swaps an element outside its array (action `SwapOutside`; nothing is claimed
   of a behaviour after it).
6. `src/pretok_cl100k.c:10`: `\s*[\r\n]+`. A newline, a blank and a newline are
   one match of it, the code stops after the first newline. Lines of blanks
   between paragraphs are split differently.
7. `src/pretok_cl100k.c:6`: contractions have an ASCII apostrophe; the code also
   takes U+2019.
8. `src/pretok_o200k.c:6`: the code does not give characters of two classes
   back, so a letter without case (for example a Chinese one) and a capital
   after it become one piece instead of two. The same holds for a mark that is
   taken as the prefix.

9. `src/bpe_core.c:791`: "could assert p - blob == blob_len". Two threads at the
   first use: one writes the table file, the other sees that it exists
   (`python/c_bpe/openai.py:47`), loads what is there, and `bpe_from_blob` reads
   past its end. The same happens in every later process if a writer was killed
   or failed half way, because a file that exists is never written again.
   `BlobConsumed` excludes exactly these two cases.
10. `src/parallel.c:5`: "The pool is created once on first use". The child of a
    fork has the pool but not its threads, so a batch in it waits for ever; so
    does every batch if no thread could be started (see 3). In a child that is
    forked while another thread is in `call_once`, systems differ; on some,
    every later call waits. `CallsReturn` excludes exactly these (`Stranded`).
11. `bpe_self_check` (`include/bpe.h`) may fail for a dictionary that is exact,
    because it uses the encoder of disagreement 4: it is a sufficient test and
    not a necessary one, and `SelfCheckIsEnough` states one direction only.

More that no run shows: `README.md:231` takes the answer of `count_till_limit` for a
position in the text, and None for a text within the limit, but the answer is a number of
tokens and None stands for a text beyond it; the comment of `src/parallel.c:3` describes workers that
spin on an epoch, but they wait on condition variables; `include/pretok.h:37`
describes a parameter `is_tail` that does not exist; `README.md:262` documents
options of a parallel call (`min_batch_size`, ...), which `src/pymodule.c:421`
accepts and ignores; and in a package directory that cannot be written
`cl100k_base()` raises the OSError of `openai.py:53`, although the C code could
build the tokenizer from the dictionary (action `Fail` ends the call).

## 4. Fairness

* Sequential encoders and the tokenizer: weak fairness of the steps of a running
  call, as the calling thread runs its loop. No fairness on making a call.
* Thread pool: weak fairness of each caller that is inside `pool_run`, of each
  worker, and of the joining of exited workers: the operating system keeps
  running every thread that can run, and hands a free mutex to a waiter. A
  thread in `cnd_wait` needs a signal: a spurious wakeup is possible but never
  assumed. Nobody has to submit a batch or to destroy the pool. In
  `PoolLiveness` the undefined behaviour of disagreement 2 is assumed to fail
  cleanly (`LateTouch = {"error"}`); with "stuck" a worker may be lost.

* Package: weak fairness of each thread that is inside a call, and strong fairness
  of taking the interpreter lock: CPython makes a holder give it up to a thread
  that waits. No fairness of starting a call, of a failure, a kill or a fork.

## 5. Proofs

Checked by TLAPS for every value of the constants:

### Exactness

An encoder is exact if it computes `ReferenceEncoding`: byte pair encoding by its
definition, which joins the pair of lowest rank, leftmost first, until no two
neighbours form a token. Only the bit-field encoder works that way. The others
search for a cutting of the text into tokens in which every two neighbours pass
`bpe_is_valid_token_pair`. That there is exactly one, and that it is the
reference encoding, is what `include/bpe.h:162` and `:215` rest on ("matches
tiktoken exactly", "exact"); the second half of `CommonLemmas` proves it, for any dictionary that satisfies
`Mergeable` and any text made of its tokens.

* The assumption. `Mergeable(vocab)`: no two tokens have the same bytes, and
  `bpe_from_dictionary` finds two parts for each token of more than one byte.
  Dictionaries that byte pair encoding was trained to have are like this, and TLC
  evaluates it for the dictionaries of the runs `BacktrackExact`, `OtherEncoders`
  and `TextObjects`. It cannot be left out, and the
  precondition "every token encodes to itself" is not enough: with the bytes
  a, b, c, d as tokens 0 to 3 and bc = 4, ab = 5, cd = 6, abcd = 7, bcd = 8
  every token encodes to itself (abcd by way of a, bcd), yet the code finds no
  merge for abcd: ab, cd is not a valid pair, and bcd has the higher rank.
* The stages (`JoinStages`). The state of the reference is the set of boundaries
  that are left; each join takes one away. `IsStage(rank, lo, hi, B)` says
  that B occurs while the region lo .. hi is encoded on its own. As long as
  the boundaries of a region stand, what happens inside it does not depend on what
  is around it (`Projection`), because the lowest join of the whole that lies
  inside is the lowest join inside.
* Where a token is, the region encodes to that token, through the two parts that
  the dictionary has for it, and the boundary between them falls last
  (`MergesTo`). The proof is by the rank of the token, and it needs the pair
  test for lower ranks, whose proof needs `MergesTo` for lower ranks.
* The pair test. The loop of `bpe_is_valid_token_pair` undoes the last merge of
  either token, the higher one first, and asks at each step whether the pair at
  the boundary has a merge of a rank below the one just undone. It answers
  exactly the question whether a join breaks the boundary between the two tokens
  before both are complete (`BrokenSmaller`, `StandsSmaller`). The limit is
  `t1` when the left token was undone and `t2 + 1` when the right one was: of
  equal ranks the left one goes first.
* The dictionary. `bpe_from_dictionary` walks the chain of prefixes of each token
  and takes the first whose rest is a token, both with lower ranks and a
  valid pair under the merges found so far. All merges are found and right
  (`DictionaryFinished`): parts that are a valid pair are the parts the reference
  joins last.
* So a cutting into valid neighbours is the reference encoding
  (`ValidIsReference`), the reference encoding is one (`ReferenceIsValid`), and of
  the tokens that end with a text just one is valid after the encoding of
  what is before it (`OneMayEnd`, and `OneMayBegin` for the other side). The
  incremental encoders and the table encoder rest on these two.

**`BacktrackEncoderProofs`**: any dictionary and texts of any length, any word
size and any history of calls, under `VocabularyAssumption`: ids count from 0,
no token is empty, every byte of a token or a text is a token ("complete
vocabulary", `src/bpe_core.c:161`); for exactness, `MergeableAssumption`.

* `TypeCorrect`, `AccessesInBounds`, `AlwaysSegmentation`, `BacktracksRetire`.
* The invariant `Inv` adds to these what they need to be inductive: the
  candidate occurs in the text at `pos` and so does its whole chain of prefixes
  (lemmas `PrefixIsPrefix`, `DictionaryFacts`), the recorded boundaries rise, and
  the bits up to the end of the text lie in the allocated words, whatever an
  earlier call left. `Segmentation` alone is not inductive, because a backtrack
  returns to a boundary whose bit was tested when it was pushed. The lemmas about
  `NextMatch` say that a search at a byte that is a token finds a token there.
  They are proved from the well-foundedness of the naturals (`LargestExists`).
* `StackAlwaysExact` (`StackIsEncoding`) follows from `AlwaysSegmentation` and
  `ValidIsReference`: a stack of valid neighbours is the encoding of what it covers.
* `AnswerAlwaysSurvives` (`AnswerSurvives`) needs a stronger invariant. `ExactInv`
  says with `Tried` that every token longer than the candidate in hand that
  occurs at `pos`, and every token longer than one on the stack that occurs
  where that one begins, was turned down for a reason that lasts: its end is ruled
  out, or it is not valid after its predecessor. When nothing is left to try, a
  boundary of the answer at `pos` would need a token there that was turned down
  although the answer has it.
* `ResultsAlwaysExact` (`ResultExact` of `BacktrackEncoder`): what the operations
  return. The answer's own token is among the candidates at every boundary, so
  the search never runs out of candidates before the end of the text: if the loop
  ends with `Return`, the stack is the whole encoding. If it ends with `GiveUp`, the
  stack, which has more than `limit_buf` tokens, is the encoding of a beginning of the
  text. This is all that is true of the early exit; that the count of the whole
  text exceeds the limit does not follow (disagreement 1).

**`OtherEncodersProofs`, `TableEncoders`**: any dictionary and texts of any length,
under `VocabularyAssumption` (as above, except that ids may be any numbers without
`UINT32_MAX`) and `SizeMaxAssumption` (texts are shorter than `SIZE_MAX`).

* `MinimalIsMinimal` (`MinimalIsShortest`): no shorter sequence of tokens decodes
  to the text. Three parts: the automaton reads one byte at a time, and its state
  is the longest end of what was read that begins a token, so its outputs are all
  the tokens that end there (`AdvanceIsLongest`, `OutputsAreTokens`); with these
  every count in the table is one more than the least count before it
  (`MinimalAt`); and any tokens that decode to the text end, one after the
  other, at bytes whose counts grow by at most one (`CountIsLeast`).
* `ResultsDecode` (`ResultDecodes`): the tokens found cover the text without a gap
  (`Covers`), from the walk's position to its end or from its start to the match's
  position. The table encoder reverses its array in place; `Mirrored` says
  what it will read when n swaps are done, and each swap keeps it
  (`MirroredSwap`). The theorem has the hypothesis `EntriesFound`, that no entry
  of the prefix table is `UINT32_MAX`: for the minimal and the greedy encoder
  it is empty.
* `TableAlwaysExact` (`TableExact`), under `MergeableAssumption`: entry n of the
  table is the last token of the reference encoding of the first n bytes. Among the
  outputs of the automaton at byte n the code takes the first that is valid after
  the entry where it begins; `OneMayEnd` says that there is one, that it is the only
  one, and which. The walk back then reads the whole encoding. With it
  `ResultsAlwaysDecode` (`ResultDecodes`) has no hypothesis left.

**`OtherEncodersProofs`, `BitfieldEncoder`**: any dictionary and texts of any
length, under the same `VocabularyAssumption`.

* `MissesNothing` (`HeapComplete`) and `LowestRankFirst` (`LowestFirst`).
* The heap: while an item rises, only it may be smaller than its parent, and while
  one sinks, only it may be larger than a child (`Rising`, `Sinking`); both loops
  stop within as many rounds as there are items, so that `heap_push` adds one item
  to a heap and `heap_pop` removes the top from it (`PushKeepsHeap`,
  `PopKeepsHeap`), and the top is the least (`TopIsLeast`).
* The invariant `JoinInv`: every token formed by two neighbouring parts has its
  candidate in the heap. A candidate is compared by the length of its token only;
  it can be discarded without loss because the join of two neighbours always
  has that length (`NeighboursAreCurrent`). A merge changes the neighbours of the
  new part only, and these two joins are pushed (`MergeKeeps`). That every
  candidate starts at least two bytes before the end keeps the searches for the
  next boundary defined.
* What this does not give is exactness: among equal ranks the heap does not
  take the leftmost (disagreement 4).

**`TextObjectsProofs`, incremental encoders**: both of them, any dictionary, any bytes
and any number of calls, under `BoundsAssumption` (the bound `MaxLen` is a number); of
`AllSpec`, in which a caller holds one object.

* `CutLeavesNoTrace` (`NoTraceOfTheCut`): after any pushes, extensions and cuts the
  states are those of a new encoder that is given the same text, so that no state
  of the part that was cut off is ever read again.
* The invariant `TextInv`: there are as many states as bytes, and state k is what a
  push of byte k onto the first k - 1 states computes (`Traced`). The two encoders
  differ in which byte of the text is byte k (`Byte`), and one proof with the
  object as a parameter serves both: a push, an extension and a cut leave the
  bytes before them what they were (`LongerBytes`, `ExtendedBytes`, `CutBytes`).
  For the prependable encoder this is where a cut at the wrong end would fail. An
  extension is a recursion over its bytes, whose states exist (`PushesExist`).
* `CountsAlwaysExact` (`CountsExact`), under `DictionaryAssumption` of
  `IntervalEncoding` and `BytesAssumption` (as above: ids count from 0, every byte of
  a token and every byte that is pushed is a token, `Mergeable`): state n has the number of tokens and the last (or first) token of the
  reference encoding of the n bytes pushed first. Each state is what a push computes
  (`Traced`), so this is a statement about one push: the automaton's state is the
  longest beginning of a token (for the prependable encoder: of a token
  read backwards) among the ends of the bytes read, its outputs are all tokens
  that end there (`OutputsAreEnds`), the one that passes the pair test with the
  outermost token of the state before its first byte is the one of the
  encoding (`OneMayEnd`, `OneMayBegin`), and it adds one to that state's count.
  `BytesInvariance` says that the text consists of bytes that were pushed.

**`TextObjectsProofs`, `IntervalEncoding`**: any dictionary and text, under
`DictionaryAssumption` and `TextsAssumption` (every byte of a text is a token).

* `TreeAlwaysIntervals` (`TreeIntervals`): of any two prefixes, the number of the
  longer one lies in the interval of the shorter one exactly if its encoding has
  a boundary there; the numbers are 0 .. `text_len`, and the depths are token counts.
* Three parts. `bpe_encode_all_prefixes` finds the last token of every prefix
  (`LastTokens`), by `OneMayEnd` as for the table encoder. So the encoding of a
  prefix is that of its parent and one token (`ParentPath`), and the boundaries of
  the encodings are the paths of a tree (`IsTree`, `PrefixTree`). The rest is about
  any tree whose parents are smaller numbers than their children: adding up sizes
  from the last node to the first counts the subtrees (`SizeBelow`, `BelowStep`), and
  giving each node the next free numbers of its parent's interval
  numbers it in preorder (`Numbered`, `NextNumbered`, `AllNumbered`).
* The invariant `TreeInv`: before node k, `tree_size` counts for each node the
  subtrees of its children from k on (`Sized`), then the nodes before k have
  disjoint or nested intervals, each with room for the subtrees not yet placed
  (`PlacedUpTo`). That the room suffices is where `Placed_NoRoom` fails: of the
  children of a node, the later ones would share numbers with the descendants of the
  earlier ones. The counts change none of it.

**`ThreadPoolProofs`**: any number of callers and workers, any batch size and
queue capacity, under `PoolAssumption`.

* `TypeCorrect`, `CounterIsExact`, `BatchIsComplete`, `CounterIsAlive`.
* The invariant `Inv`: how far each batch is (`Progress`), that only pushed items
  are in the pool (`PlacedArePushed`), that the counter is the number of items
  not yet counted, each in one place (`CounterExact`), and that an output is
  written once, when its item has left the queue and its worker (`WrittenOnce`).
  `CounterExact` is needed for `BatchComplete`: a caller sees only the number 0,
  and this number has to mean that no item is left anywhere.

The wakeups and the refinement, in the second half of the module; `PoolAssumption`
also says that callers and workers are finitely many (their numbers are compared
with the length of the queue).

* `ItemsAreFetched` (`EveryItemFetched`) and `SlotsAreFilled`
  (`EverySlotFilled`): while a worker waits on `not_empty` there are at least as
  many workers on their way to the queue as items in it, and likewise for
  `not_full`. Each is inductive with the type invariant, but only because the pool
  signals once per push and once per pop: a step that wakes nobody leaves one
  item more than fetchers.
* `SleepersAreNotified` (`SleeperNotified`): the signal of the last worker is
  still ahead of a caller that sleeps on a counter that is 0. The invariant
  `TrackerInv` adds which worker owes this signal: between its `fetch_sub` and
  its `cnd_signal` it is the only one, and the caller holds the tracker's mutex
  from its test to its sleep.
* `PoolRefinesService`: `Spec => Service!Steps`, the initial state and every step
  of `BatchService` under the mapping at the end of `ThreadPool`. Every action is a
  step of the service or a stutter; that a return of `pool_run` is a return of the
  service needs `BatchIsComplete`. The fairness of `BatchService` (`Service!Spec`)
  is what the run `PoolLiveness` adds.

**`DictionaryProofs`, `AhoCorasick`**: any tokens, duplicates included, under
`VocabularyAssumption` (there is a token, none is empty, the ids count from 0 and
are below `UINT32_MAX`) and `ByteAssumption` (the first array has a slot for each byte).
Without tokens the root never gets a base, and byte 0 in the root passes the test of
`ac_step` for slot 0, the root itself; that changes no state, but it is why
`DoubleArrayIsTrie` needs a token.

* `BuildInvariance`: the invariant of the construction, in three parts, one per phase.
  `TrieInv`: the nodes are the beginnings of the tokens added so far. `SearchInv`:
  each failure link leads to the longest proper end that is a node (`FailLinks`),
  each chain of outputs has the words its node ends with, longest first
  (`Matches`). It is inductive only with the order of the breadth-first queue (`AtDepth`): all
  nodes of smaller depth are finished when a link is computed, and that is what the walk
  of `FailOf` needs (`WalkFinds`, an induction over the length of the node).
  `PackInv`: a slot is taken exactly if it belongs to a node, no slot belongs to two,
  a node that left the queue has all its children at its base, and every base leaves
  `NumBytes` slots in the array. The last part is why no index leaves the arrays,
  also from slots that have no base of their own.
* `DoubleArrayAlwaysTrie` (`DoubleArrayIsTrie`) follows from `PackInv`: a slot whose
  check is that of the node belongs to a node, and this node is a child of that one.
* `AutomatonAlways` (`IsAutomaton`) adds `ReadInv`: the state is the slot of the longest
  end of the bytes read that is a node. A step keeps it because the longest end of
  one more byte is found among the ends of the last one (`LongestNext`), so
  the whole text need not be looked at.
* `SearchAlwaysNextMatch` (`SearchIsNextMatch`): after n bytes the search holds the
  first and longest of all matches that end at n or before (`BestUpTo`, `BestStep`).
  If it stops in the root, it also holds it of every longer text (`BestStays`): a
  match that starts before n and ends after it would be, up to n, a
  beginning of a token, and so a longer end than the root. The action `Read` and
  this search are what `bpe_next_match` and the encoders take from the
  automaton, so with this the search that `BytePairEncoding` has as an operator
  (`NextMatch`) is what the arrays compute.

**`DictionaryProofs`, `PairMap`**: any keys, hash function and order of insertions, under
`CapacityAssumption` (the smallest capacity is at least 2) and `KeysAssumption`
(the first capacities and the number of keys are below 2^32: the map's counters
are `uint32_t`).

* `PairMapIsMap` (`ImplementsMap`): the map refines `PartialMap`, also when an
  insertion moves all entries to a larger array.
* The invariant `PairInv`: no key is in two slots, every entry is reached from its
  own place by a probe that meets no empty slot before it, the counter is the
  number of slots in use, and at most half the slots, rounded up, are in use.
  The last part is why one slot is always empty (`SomeRoom`), and so why the
  unbounded probing loops end; with a smallest capacity of 1 it fails. A probe
  that crosses the end of the array is handled by `RingPlace` and `RingOnce`.

**`TokenizerProofs`**: both splitters, documented and native, texts of any length
over the classes of code points (`TextsAssumption`), any vocabularies, limits and
history of calls, under `TokenizerAssumption` (the first capacity is positive,
texts are shorter than `SIZE_MAX`).

* `PiecesCover` (`PiecesCoverText`): the iterator reports the end of a text only
  at its end. The lemmas say of each alternative of each splitter that it ends
  behind its start and not behind the text, or does not match, and that at every
  character some alternative matches. The blanks are where this could fail:
  the alternative that leaves one blank to the next word looks one character
  ahead and has to be left with at least one.
* `EncodesExactly` (`EncodesAsReference`) and `CountsAreRight` (`CountsAgree`):
  the buffer of `tokenizer_encode` and `_encode_into` holds exactly the reference's
  tokens at each piece, whatever an earlier, longer text left in it and however
  often it is doubled; counts and limits agree with it.
* The invariant `TokenizerInv`: what is in the buffer, or counted, followed by
  what the reference has from the next piece on, is what the reference has for the
  whole text (`BufferInv`, `RunningInv`). `count \in 0 .. offset` (no piece has
  more tokens than characters) keeps `SIZE_MAX` free as the answer for an
  exceeded limit, and `count <= limit` keeps the remaining limit a number: the
  subtraction in the code is unsigned. The early exit of a piece compares with
  `limit_buf` of the limit that is left, which is `limit_buf` of the whole limit
  less what was counted, whether the sum wraps around or not (`SharedLimit`). So
  `CountsAgree` states the exceeded answer for texts of at most `limit_buf` bytes.
* Both theorems carry the hypothesis `SplittersAgree`: on the texts in question
  the hand-written splitter finds at each offset the match of the documented pattern.
  This is not true of every text (disagreements 6 to 8), so it cannot be
  an assumption on the code; `FollowPatterns` has TLC check it for the texts of the
  run `Tokenizer`. What
  the theorems say is therefore that nothing but these disagreements separates the
  tokenizer from its reference. The encoder enters by what it returns, as in
  the model; that the backtracking encoder returns it is
  `ResultsAlwaysExact` of `BacktrackEncoderProofs`.

`CommonLemmas` has what replaces induction: a set of naturals with 0 and with
successors is all of them (`SetInduction`), because the naturals are
well-founded; a recursive function is a CHOOSE, so its equation holds only after
a function with that equation has been shown to exist (`RecursionExists`, and in
`TokenizerProofs` the same for functions that recur from the end of a piece).

**`PrecomputedTablesProofs`**: any number of processes, threads, chunks, kills
and failed writes, under `ThreadsAssumption` (every thread has a process) and
`ChunksAssumption` (the file has at least one chunk; no file is not a file).

* `OnlyOneTokenizer` (`InitialisedOnce`) and `LoadedAsWritten` (`BlobConsumed`),
  of `SpecTables`, the tables alone and without fairness.
* The invariant `Inv` has one part for each. `OneTokenizer` says that a thread
  between the test of `g_cl100k` and its assignment finds it NULL; with
  `GilKept` there is only one such thread in a process. `MissingIsComing` says
  why many writers do no harm as long as all of them finish: every chunk
  that is not in the file still has a writer that comes to it, also after
  another writer has truncated the file, because that one starts from chunk 1. So a loader that meets no writer and no trace of
  a stopped one meets the whole file, and this stays so to the end of its load
  (`CleanLoads`), because a writer that comes later marks the load as disturbed.

Not provable with these tools, and left to TLC: liveness under fairness and
ENABLED, and with them the fairness of the refinement of `BatchService`; and the
splitters against their patterns (`FollowPatterns`), lists in backtracking order
that a recursion builds.

Only model-checked so far although a proof may be within reach: `SelfCheckIsEnough`. The `ResultExact` of the run `Tokenizer` is that of
`BacktrackEncoder` for the calls with a scratch buffer there.

## 6. Not modelled, and what comes next

In this order:

1. Proofs: what `bpe_self_check` rules out (`SelfCheckIsEnough`).
2. `RingQueue`, the array with head and tail that `ThreadPool` has as a sequence,
   refining it.
3. The strings a batch borrows from its caller's list while it runs without the
   interpreter lock (`src/pymodule.c:440`), with reference counts.
4. `bpe_from_blob` as the inverse of the generator: that the arrays it copies are
   those `bpe_from_dictionary` would build.

Conversions between Python objects and arrays (`pylist_to_tokens` and its
handling of negative and large integers, `src/pymodule.c:192`) are short
sequential functions that a unit test reaches; they are listed as a hazard and not
modelled.

The LRU cache comes last: no file includes it at this commit.

Left out for good: the Unicode tables (data), PCRE2 and the former automaton
`src/ac_bpe_old.c` (not built), generated token tables and their generator, the
Rust original, tests and benchmarks (read as documentation). The fallback of the
tokenizer for a missing splitter passes the whole text to the encoders; no such
tokenizer is ever built.

## 7. Running

    tlc -workers 2 -config PoolSafety.cfg MCThreadPool.tla
    tlapm ThreadPoolProofs.tla

PROJECT.json names the module and the configuration of every run.
