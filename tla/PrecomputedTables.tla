------------------------- MODULE PrecomputedTables -------------------------
(***************************************************************************)
(* From cl100k_base() in Python to the tokenizer: python/c_bpe/openai.py   *)
(* decompresses the precomputed tables on first use, src/pymodule.c loads  *)
(* them into the one tokenizer of the process.  The processes share the    *)
(* file.  A process may be killed and started again at any point.          *)
(*                                                                         *)
(* The two tokenizers cl100k and o200k have the same code; this is one of  *)
(* them.  The file consists of chunks 1 .. NumChunks, which are written    *)
(* and read one at a time; 0 is a chunk of a hole.                         *)
(***************************************************************************)
EXTENDS InterpreterLock, Integers, Sequences

CONSTANTS
  NumChunks,
  NoFile,
  MaxCrashes  \* bound: processes killed

ASSUME ChunksAssumption ==
  /\ NumChunks \in Nat \ {0}
  /\ NoFile \notin Seq(Nat)

VARIABLES
  archive,  \* the .bin.gz file is there
  file,     \* contents of the .bin file
  written,  \* thread -> chunks it has written
  size,     \* thread -> fsize in load_blob_file
  buf,      \* thread -> what it has read
  g,        \* process -> g_cl100k, as an index in built; 0: NULL
  handle,   \* thread -> the tokenizer it was given, 0: none yet
  built,    \* history: process -> how each of its tokenizers was made
  beside,   \* history: the threads that load beside a writer
  torn,     \* history: a writer stopped before it was done
  crashes

files    == <<archive, file, torn, crashes>>
locals   == <<written, size, buf, beside>>
loaded   == <<g, handle, built>>
tableVars == <<files, locals, loaded>>

Writers == {t \in Threads : pc[t] = "write"}
Loaders == {t \in Threads : pc[t] = "fread"}

InitTables ==
  /\ archive \in BOOLEAN
  /\ file = NoFile
  /\ written = [t \in Threads |-> 0]
  /\ size = [t \in Threads |-> 0]
  /\ buf = [t \in Threads |-> <<>>]
  /\ g = [p \in Processes |-> 0]
  /\ handle = [t \in Threads |-> 0]
  /\ built = [p \in Processes |-> <<>>]
  /\ beside = {}
  /\ torn = FALSE
  /\ crashes = 0

-----------------------------------------------------------------------------
(* _ensure_decompressed; Python code needs the GIL, a system call does not *)

Exists(t) ==
  /\ pc[t] = "idle" /\ GilFree(t)
  /\ Goto(t, IF file = NoFile /\ archive THEN "open" ELSE "enter")
  /\ UNCHANGED <<gil, tableVars>>

(* open(bin_file, "wb") truncates what another writer has written so far *)
OpenFile(t) ==
  /\ pc[t] = "open"
  /\ Goto(t, "write")
  /\ file' = <<>>
  /\ beside' = beside \cup Loaders
  /\ UNCHANGED <<gil, archive, torn, crashes, written, size, buf, loaded>>

(* at the end of the file, wherever it is *)
Written_Appended(contents, n) == Append(contents, n)

(* chunk n at its own offset; a gap before it is a hole *)
Written(contents, n) ==
  [i \in 1 .. (IF n > Len(contents) THEN n ELSE Len(contents)) |->
     IF i = n THEN n ELSE IF i <= Len(contents) THEN contents[i] ELSE 0]

WriteChunk(t) ==
  /\ pc[t] = "write"
  /\ file' = Written(file, written[t] + 1)
  /\ LET done == written[t] + 1 = NumChunks
     IN  /\ written' = [written EXCEPT ![t] = IF done THEN 0 ELSE @ + 1]
         /\ Goto(t, IF done THEN "enter" ELSE "write")
  /\ UNCHANGED <<gil, archive, torn, crashes, size, buf, beside, loaded>>

(* An OSError ends the call; what is written stays. *)
Fail(t) ==
  /\ pc[t] \in {"open", "write"}
  /\ Goto(t, "idle")
  /\ torn' = (torn \/ pc[t] = "write")
  /\ written' = [written EXCEPT ![t] = 0]
  /\ UNCHANGED <<gil, archive, file, crashes, size, buf, beside, loaded>>

-----------------------------------------------------------------------------
(* py_cl100k_base, build_cl100k, load_blob_file *)

(* the GIL is given up on the way *)
Keeper_GivenUp(t) == NoThread

(* The GIL is kept from the test of g_cl100k to its assignment: the import *)
(* of a module that is there already does not give it up.                  *)
Keeper(t) == t

Enter(t) ==
  /\ pc[t] = "enter" /\ GilFree(t)
  /\ LET tok == g[ProcessOf[t]]
     IN  IF tok # 0
         THEN Goto(t, "idle") /\ handle' = [handle EXCEPT ![t] = tok] /\ UNCHANGED gil
         ELSE Goto(t, "load") /\ GilTo(t, Keeper(t)) /\ UNCHANGED handle
  /\ UNCHANGED <<files, locals, g, built>>

(* fopen and ftell; a file that is empty counts as missing *)
StartLoad(t) ==
  /\ pc[t] = "load"
  /\ Goto(t, "fread")
  /\ size' = [size EXCEPT ![t] = IF file = NoFile THEN 0 ELSE Len(file)]
  /\ beside' = IF Writers = {} THEN beside ELSE beside \cup {t}
  /\ UNCHANGED <<gil, files, written, buf, loaded>>

(* the file ends before its size was read: somebody has truncated it *)
Short(t) == Len(buf[t]) < size[t] /\ Len(file) <= Len(buf[t])

ReadChunk(t) ==
  /\ pc[t] = "fread"
  /\ Len(buf[t]) < size[t] /\ ~Short(t)
  /\ buf' = [buf EXCEPT ![t] = Append(@, file[Len(@) + 1])]
  /\ UNCHANGED <<gil, pc, files, written, size, beside, loaded>>

(* bpe_from_blob reads as many chunks as the header in the first one says; *)
(* a header of zeros says that nothing follows.                            *)
Consumed(blob) == IF blob[1] = 1 THEN NumChunks ELSE 0

(***************************************************************************)
(* The tokenizer is made from the blob or, if there is none or fread came  *)
(* short, from the dictionary.                                             *)
(***************************************************************************)
Build(t) ==
  /\ pc[t] = "fread"
  /\ Len(buf[t]) = size[t] \/ Short(t)
  /\ LET p   == ProcessOf[t]
         how == IF buf[t] = <<>> \/ Short(t) THEN [exact |-> TRUE, disturbed |-> FALSE]
                ELSE [exact |-> Consumed(buf[t]) = size[t], disturbed |-> torn \/ t \in beside]
         tok == Len(built[p]) + 1
     IN  /\ built' = [built EXCEPT ![p] = Append(@, how)]
         /\ g' = [g EXCEPT ![p] = tok]
         /\ handle' = [handle EXCEPT ![t] = tok]
  /\ Goto(t, "idle")
  /\ GilTo(t, NoThread)
  /\ size' = [size EXCEPT ![t] = 0]
  /\ buf' = [buf EXCEPT ![t] = <<>>]
  /\ beside' = beside \ {t}
  /\ UNCHANGED <<files, written>>

(* A process is killed and started again. *)
Crash(p) ==
  LET own == ThreadsOf(p)
      Reset(f, value) == [t \in Threads |-> IF t \in own THEN value ELSE f[t]]
  IN  /\ crashes < MaxCrashes
      /\ \E t \in own : pc[t] # "idle"
      /\ crashes' = crashes + 1
      /\ torn' = (torn \/ own \cap Writers # {})
      /\ pc' = Reset(pc, "idle")
      /\ gil' = [gil EXCEPT ![p] = NoThread]
      /\ written' = Reset(written, 0)
      /\ size' = Reset(size, 0)
      /\ buf' = Reset(buf, <<>>)
      /\ beside' = beside \ own
      /\ g' = [g EXCEPT ![p] = 0]
      /\ built' = [built EXCEPT ![p] = <<>>]
      /\ handle' = Reset(handle, 0)
      /\ UNCHANGED <<archive, file>>

WriteStep(t) == OpenFile(t) \/ WriteChunk(t)
LoadStep(t)  == StartLoad(t) \/ ReadChunk(t) \/ Build(t)

NextTables ==
  \/ \E t \in Threads : Exists(t) \/ WriteStep(t) \/ Fail(t) \/ Enter(t) \/ LoadStep(t)
  \/ \E p \in Processes : Crash(p)

SpecTables == InitThreads /\ InitTables /\ [][NextTables]_<<pc, gil, tableVars>>

(* A thread in a call is scheduled, and gets the GIL (see InterpreterLock). *)
FairTables ==
  \A t \in Threads :
    /\ WF_<<pc, gil, tableVars>>(WriteStep(t) \/ LoadStep(t))
    /\ SF_<<pc, gil, tableVars>>(Enter(t))

-----------------------------------------------------------------------------
(***************************************************************************)
(* A tokenizer that is made from the file uses exactly the bytes that were *)
(* read, the assertion that bpe_from_blob only mentions, although any      *)
(* number of processes and threads may find the file missing and write it  *)
(* at the same time.  Two cases are left out, and there the code does read *)
(* past the blob or gets an empty dictionary: somebody was writing during  *)
(* the load, or a writer was stopped half way, by a kill or an error.      *)
(***************************************************************************)
BlobConsumed ==
  \A p \in Processes : \A i \in DOMAIN built[p] : built[p][i].disturbed \/ built[p][i].exact

(***************************************************************************)
(* "Global singleton tokenizers (initialised once, never freed)": no two   *)
(* threads build one, and all Tokenizer objects of a process share it.     *)
(***************************************************************************)
InitialisedOnce ==
  /\ \A p \in Processes : Len(built[p]) <= 1
  /\ \A t \in Threads : handle[t] # 0 => handle[t] = g[ProcessOf[t]]
=============================================================================
