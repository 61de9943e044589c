---------------------- MODULE PrecomputedTablesProofs ----------------------
(***************************************************************************)
(* Proofs about PrecomputedTables, for any number of threads, processes,   *)
(* chunks and kills.                                                       *)
(***************************************************************************)
EXTENDS PrecomputedTables, TLAPS

-----------------------------------------------------------------------------
(* The inductive invariant.                                                *)

(***************************************************************************)
(* The types; there is a file whenever somebody writes it, or reads more   *)
(* than nothing of it; a thread has local state only where it uses it.     *)
(***************************************************************************)
TypeOK ==
  /\ pc \in [Threads -> {"idle", "open", "write", "enter", "load", "fread"}]
  /\ gil \in [Processes -> Threads \cup {NoThread}]
  /\ file \in Seq(Nat) \cup {NoFile}
  /\ written \in [Threads -> Nat]
  /\ size \in [Threads -> Nat]
  /\ buf \in [Threads -> Seq(Nat)]
  /\ g \in [Processes -> Nat]
  /\ handle \in [Threads -> Nat]
  /\ built \in [Processes -> Seq([exact : BOOLEAN, disturbed : BOOLEAN])]
  /\ beside \subseteq Threads
  /\ torn \in BOOLEAN

LocalState ==
  \A t \in Threads :
    /\ pc[t] = "write" \/ size[t] # 0 => file \in Seq(Nat)
    /\ pc[t] # "write" => written[t] = 0
    /\ pc[t] # "fread" => size[t] = 0 /\ buf[t] = <<>>

(* A thread keeps the GIL exactly from the test of g_cl100k to the result. *)
GilKept == \A t \in Threads : HasGil(t) <=> pc[t] \in {"load", "fread"}

(***************************************************************************)
(* The tokenizer is the only one, nobody builds another once it is there,  *)
(* and it is what all threads have.                                        *)
(***************************************************************************)
OneTokenizer ==
  /\ \A p \in Processes : Len(built[p]) = g[p] /\ g[p] <= 1
  /\ \A t \in Threads :
       /\ pc[t] \in {"load", "fread"} => g[ProcessOf[t]] = 0
       /\ handle[t] # 0 => handle[t] = g[ProcessOf[t]]

(***************************************************************************)
(* As long as no writer has stopped half way, every chunk that is not in   *)
(* the file will still be written by one of the writers.                   *)
(***************************************************************************)
MissingIsComing ==
  /\ \A t \in Writers : written[t] < NumChunks
  /\ file # NoFile =>
       /\ Len(file) <= NumChunks
       /\ ~torn => \A i \in 1 .. NumChunks :
            \/ i <= Len(file) /\ file[i] = i
            \/ \E t \in Writers : written[t] < i

(***************************************************************************)
(* A thread that loads undisturbed has found no file, or the whole file    *)
(* with no writer about, and has read a beginning of it.                   *)
(***************************************************************************)
LoadsWhole(t) ==
  /\ Writers = {}
  /\ size[t] # 0 =>
       /\ size[t] = NumChunks
       /\ Len(file) = NumChunks
       /\ \A i \in 1 .. NumChunks : file[i] = i
       /\ \A i \in 1 .. Len(buf[t]) : buf[t][i] = i

CleanLoads ==
  \A t \in Loaders :
    /\ Len(buf[t]) <= size[t]
    /\ torn \/ t \in beside \/ LoadsWhole(t)

Inv ==
  TypeOK /\ LocalState /\ GilKept /\ OneTokenizer /\ MissingIsComing /\ CleanLoads
    /\ BlobConsumed

-----------------------------------------------------------------------------
(* The file after a chunk was written. *)
LEMMA WrittenIsSequence ==
  ASSUME NEW contents \in Seq(Nat), NEW n \in Nat \ {0}
  PROVE  /\ Written(contents, n) \in Seq(Nat)
         /\ Len(Written(contents, n)) = IF n > Len(contents) THEN n ELSE Len(contents)
         /\ \A i \in 1 .. Len(Written(contents, n)) :
              Written(contents, n)[i] =
                IF i = n THEN n ELSE IF i <= Len(contents) THEN contents[i] ELSE 0
<1> DEFINE len == IF n > Len(contents) THEN n ELSE Len(contents)
           chunk(i) == IF i = n THEN n ELSE IF i <= Len(contents) THEN contents[i] ELSE 0
<1>1. len \in Nat
  OBVIOUS
<1>2. \A i \in 1 .. len : chunk(i) \in Nat
  OBVIOUS
<1>3. Written(contents, n) = [i \in 1 .. len |-> chunk(i)]
  BY DEF Written
<1> HIDE DEF len, chunk
<1>4. /\ [i \in 1 .. len |-> chunk(i)] \in Seq(Nat)
      /\ Len([i \in 1 .. len |-> chunk(i)]) = len
      /\ \A i \in 1 .. len : [j \in 1 .. len |-> chunk(j)][i] = chunk(i)
  BY <1>1, <1>2
<1>5. /\ Written(contents, n) \in Seq(Nat)
      /\ Len(Written(contents, n)) = len
      /\ \A i \in 1 .. Len(Written(contents, n)) : Written(contents, n)[i] = chunk(i)
  BY <1>3, <1>4
<1> QED BY <1>5 DEF len, chunk

-----------------------------------------------------------------------------
LEMMA InitInv == InitThreads /\ InitTables => Inv
<1> SUFFICES ASSUME InitThreads, InitTables PROVE Inv
  OBVIOUS
<1> USE DEF InitThreads, InitTables
<1>1. \A p \in Processes : built[p] = <<>> /\ g[p] = 0 /\ gil[p] = NoThread
  OBVIOUS
<1>2. \A t \in Threads : pc[t] = "idle" /\ written[t] = 0 /\ size[t] = 0
                         /\ buf[t] = <<>> /\ handle[t] = 0
  OBVIOUS
<1>3. TypeOK
  <2>1. <<>> \in Seq(Nat) /\ <<>> \in Seq([exact : BOOLEAN, disturbed : BOOLEAN])
    OBVIOUS
  <2>2. /\ pc \in [Threads -> {"idle", "open", "write", "enter", "load", "fread"}]
        /\ gil \in [Processes -> Threads \cup {NoThread}]
        /\ file \in Seq(Nat) \cup {NoFile}
        /\ beside \subseteq Threads /\ torn \in BOOLEAN
    OBVIOUS
  <2>3. /\ written \in [Threads -> Nat] /\ size \in [Threads -> Nat]
        /\ g \in [Processes -> Nat] /\ handle \in [Threads -> Nat]
    OBVIOUS
  <2>4. buf \in [Threads -> Seq(Nat)]
    BY <2>1
  <2>5. built \in [Processes -> Seq([exact : BOOLEAN, disturbed : BOOLEAN])]
    BY <2>1
  <2> QED BY <2>2, <2>3, <2>4, <2>5 DEF TypeOK
<1>4. Writers = {} /\ Loaders = {}
  BY <1>2 DEF Writers, Loaders
<1>5. LocalState
  <2> HIDE DEF InitThreads, InitTables
  <2>1. \A t \in Threads : ~(pc[t] = "write" \/ size[t] # 0)
    BY <1>2
  <2>2. \A t \in Threads : written[t] = 0 /\ size[t] = 0 /\ buf[t] = <<>>
    BY <1>2, Zenon
  <2> QED BY <2>1, <2>2, Zenon DEF LocalState
<1>6. GilKept
  BY <1>1, <1>2, ThreadsAssumption DEF GilKept, HasGil
<1>7. OneTokenizer
  BY <1>1, <1>2, ThreadsAssumption DEF OneTokenizer
<1>8. MissingIsComing /\ CleanLoads
  BY <1>4 DEF MissingIsComing, CleanLoads
<1>9. BlobConsumed
  BY <1>1 DEF BlobConsumed
<1> QED BY <1>3, <1>5, <1>6, <1>7, <1>8, <1>9 DEF Inv

-----------------------------------------------------------------------------
(* One lemma per action. *)
LEMMA ExistsInv ==
  ASSUME Inv, NEW t \in Threads, Exists(t)
  PROVE  Inv'
<1> USE DEF Inv, Exists, Goto, files, locals, loaded, tableVars
<1>1. /\ pc[t] = "idle" /\ pc' \in [Threads -> {"idle", "open", "write", "enter", "load", "fread"}]
      /\ pc'[t] \in {"open", "enter"}
      /\ \A u \in Threads \ {t} : pc'[u] = pc[u]
  BY DEF TypeOK
<1>2. TypeOK'
  BY <1>1 DEF TypeOK
<1>3. Writers' = Writers /\ Loaders' = Loaders
  BY <1>1 DEF Writers, Loaders
<1>4. LocalState'
  BY <1>1 DEF LocalState
<1>5. GilKept'
  BY <1>1 DEF GilKept, HasGil
<1>6. OneTokenizer'
  BY <1>1 DEF OneTokenizer
<1>7. MissingIsComing'
  BY <1>3 DEF MissingIsComing
<1>8. CleanLoads'
  BY <1>3 DEF CleanLoads, LoadsWhole
<1>9. BlobConsumed'
  BY DEF BlobConsumed
<1> QED BY <1>2, <1>4, <1>5, <1>6, <1>7, <1>8, <1>9

LEMMA OpenFileInv ==
  ASSUME Inv, NEW t \in Threads, OpenFile(t)
  PROVE  Inv'
<1> USE DEF Inv, OpenFile, Goto, loaded
<1>1. /\ pc[t] = "open" /\ pc' \in [Threads -> {"idle", "open", "write", "enter", "load", "fread"}]
      /\ pc'[t] = "write"
      /\ \A u \in Threads \ {t} : pc'[u] = pc[u]
  BY DEF TypeOK
<1>2. TypeOK'
  <2>1. file' \in Seq(Nat) /\ Loaders \subseteq Threads
    BY DEF Loaders
  <2> QED BY <1>1, <2>1 DEF TypeOK
<1>3. Writers' = Writers \cup {t} /\ Loaders' = Loaders
  BY <1>1 DEF Writers, Loaders
<1>4. LocalState'
  <2>1. file' \in Seq(Nat)
    OBVIOUS
  <2> QED BY <1>1, <2>1 DEF LocalState
<1>5. GilKept'
  BY <1>1 DEF GilKept, HasGil
<1>6. OneTokenizer'
  BY <1>1 DEF OneTokenizer
<1>7. MissingIsComing'
  <2>1. written'[t] = 0 /\ written' = written
    BY <1>1 DEF LocalState
  <2>2. Len(file') = 0
    OBVIOUS
  <2> QED BY <1>3, <2>1, <2>2, ChunksAssumption DEF MissingIsComing
<1>8. CleanLoads'
  BY <1>3 DEF CleanLoads
<1>9. BlobConsumed'
  BY DEF BlobConsumed
<1> QED BY <1>2, <1>4, <1>5, <1>6, <1>7, <1>8, <1>9

LEMMA FailInv ==
  ASSUME Inv, NEW t \in Threads, Fail(t)
  PROVE  Inv'
<1> USE DEF Inv, Fail, Goto, loaded
<1>1. /\ pc[t] \in {"open", "write"}
      /\ pc' \in [Threads -> {"idle", "open", "write", "enter", "load", "fread"}]
      /\ pc'[t] = "idle"
      /\ \A u \in Threads \ {t} : pc'[u] = pc[u]
  BY DEF TypeOK
<1>2. TypeOK'
  <2>1. written' \in [Threads -> Nat] /\ torn' \in BOOLEAN
    BY DEF TypeOK
  <2> QED BY <1>1, <2>1 DEF TypeOK
<1>3. Writers' = Writers \ {t} /\ Loaders' = Loaders
  BY <1>1 DEF Writers, Loaders
<1>4. LocalState'
  BY <1>1 DEF LocalState, TypeOK
<1>5. GilKept'
  BY <1>1 DEF GilKept, HasGil
<1>6. OneTokenizer'
  BY <1>1 DEF OneTokenizer
<1>7. ~torn' => ~torn /\ Writers' = Writers
  BY <1>1, <1>3 DEF Writers
<1>8. \A u \in Writers' : u \in Writers /\ written'[u] = written[u]
  BY <1>3 DEF TypeOK, Writers
<1>9. MissingIsComing'
  BY <1>7, <1>8 DEF MissingIsComing
<1>10. CleanLoads'
  BY <1>3, <1>7 DEF CleanLoads, LoadsWhole
<1>11. BlobConsumed'
  BY DEF BlobConsumed
<1> QED BY <1>2, <1>4, <1>5, <1>6, <1>9, <1>10, <1>11

LEMMA WriteChunkInv ==
  ASSUME Inv, NEW t \in Threads, WriteChunk(t)
  PROVE  Inv'
<1> USE DEF Inv, WriteChunk, Goto, loaded
<1> DEFINE n == written[t] + 1
<1>1. /\ pc[t] = "write" /\ t \in Writers
      /\ pc' \in [Threads -> {"idle", "open", "write", "enter", "load", "fread"}]
      /\ pc'[t] = IF n = NumChunks THEN "enter" ELSE "write"
      /\ \A u \in Threads \ {t} : pc'[u] = pc[u]
  BY DEF TypeOK, Writers
<1>2. /\ written' \in [Threads -> Nat]
      /\ written'[t] = IF n = NumChunks THEN 0 ELSE n
      /\ \A u \in Threads \ {t} : written'[u] = written[u]
  BY DEF TypeOK
<1>3. /\ file \in Seq(Nat) /\ file # NoFile
      /\ n \in Nat \ {0} /\ n <= NumChunks
      /\ Len(file) <= NumChunks /\ Len(file) \in Nat
      /\ file' = Written(file, n)
  <2>1. file \in Seq(Nat)
    BY <1>1 DEF LocalState
  <2>2. file # NoFile
    BY <2>1, ChunksAssumption
  <2>3. written[t] \in Nat /\ written[t] < NumChunks
    BY <1>1 DEF TypeOK, MissingIsComing
  <2> QED BY <2>1, <2>2, <2>3, ChunksAssumption DEF MissingIsComing
<1>4. /\ file' \in Seq(Nat)
      /\ Len(file') = IF n > Len(file) THEN n ELSE Len(file)
      /\ \A i \in 1 .. Len(file') :
           file'[i] = IF i = n THEN n ELSE IF i <= Len(file) THEN file[i] ELSE 0
  <2> HIDE DEF n
  <2> QED BY <1>3, WrittenIsSequence
<1>5. TypeOK'
  BY <1>1, <1>2, <1>4 DEF TypeOK
<1>6. LocalState'
  BY <1>1, <1>2, <1>4 DEF LocalState
<1>7. GilKept'
  BY <1>1 DEF GilKept, HasGil
<1>8. OneTokenizer'
  BY <1>1 DEF OneTokenizer
<1>9. Loaders' = Loaders
  BY <1>1 DEF Loaders
<1>10. \A u \in Writers' : u \in Writers /\ written'[u] < NumChunks
  <2> SUFFICES ASSUME NEW u \in Writers'
               PROVE  u \in Writers /\ written'[u] < NumChunks
    OBVIOUS
  <2>1. CASE u = t
    BY <2>1, <1>1, <1>2, <1>3, ChunksAssumption DEF Writers
  <2>2. CASE u # t
    BY <2>2, <1>1, <1>2 DEF Writers, MissingIsComing
  <2> QED BY <2>1, <2>2
<1>11. ASSUME ~torn', NEW i \in 1 .. NumChunks
       PROVE  \/ i <= Len(file') /\ file'[i] = i
              \/ \E u \in Writers' : written'[u] < i
  <2>1. CASE i = n
    BY <2>1, <1>3, <1>4
  <2>2. CASE i # n /\ i <= Len(file) /\ file[i] = i
    BY <2>2, <1>3, <1>4
  <2>3. CASE \E u \in Writers : u # t /\ written[u] < i
    BY <2>3, <1>1, <1>2 DEF Writers
  <2>4. CASE i # n /\ written[t] < i
    <3>1. n < i /\ n # NumChunks
      BY <2>4, <1>1, <1>3, ChunksAssumption DEF TypeOK
    <3>2. t \in Writers' /\ written'[t] < i
      BY <3>1, <1>1, <1>2 DEF Writers
    <3> QED BY <3>2
  <2> QED BY <2>1, <2>2, <2>3, <2>4, <1>3, <1>11 DEF MissingIsComing
<1>12. MissingIsComing'
  BY <1>3, <1>4, <1>10, <1>11 DEF MissingIsComing
<1>13. CleanLoads'
  BY <1>1, <1>9 DEF CleanLoads, LoadsWhole
<1>14. BlobConsumed'
  BY DEF BlobConsumed
<1> QED BY <1>5, <1>6, <1>7, <1>8, <1>12, <1>13, <1>14

LEMMA EnterInv ==
  ASSUME Inv, NEW t \in Threads, Enter(t)
  PROVE  Inv'
<1> USE DEF Inv, Enter, Goto, GilTo, Keeper, files, locals
<1> DEFINE p == ProcessOf[t]
<1>1. /\ pc[t] = "enter" /\ gil[p] = NoThread /\ p \in Processes
      /\ pc' \in [Threads -> {"idle", "open", "write", "enter", "load", "fread"}]
      /\ pc'[t] = IF g[p] # 0 THEN "idle" ELSE "load"
      /\ \A u \in Threads \ {t} : pc'[u] = pc[u]
  BY ThreadsAssumption DEF TypeOK, GilFree
<1>2. /\ handle' \in [Threads -> Nat]
      /\ handle'[t] = IF g[p] # 0 THEN g[p] ELSE handle[t]
      /\ \A u \in Threads \ {t} : handle'[u] = handle[u]
  BY <1>1 DEF TypeOK
<1>3. /\ gil' \in [Processes -> Threads \cup {NoThread}]
      /\ gil'[p] = IF g[p] # 0 THEN NoThread ELSE t
      /\ \A q \in Processes \ {p} : gil'[q] = gil[q]
  <2>1. CASE g[p] # 0
    BY <2>1, <1>1 DEF TypeOK
  <2>2. CASE g[p] = 0
    <3>1. gil' = [gil EXCEPT ![p] = t]
      BY <2>2
    <3>2. gil \in [Processes -> Threads \cup {NoThread}]
      BY DEF TypeOK
    <3> HIDE DEF p, Inv, Enter
    <3> QED BY <2>2, <3>1, <3>2, <1>1
  <2> QED BY <2>1, <2>2
<1>4. TypeOK'
  BY <1>1, <1>2, <1>3 DEF TypeOK
<1>5. Writers' = Writers /\ Loaders' = Loaders
  BY <1>1 DEF Writers, Loaders
<1>6. LocalState'
  BY <1>1 DEF LocalState
<1>7. GilKept'
  <2> SUFFICES ASSUME NEW u \in Threads
               PROVE  gil'[ProcessOf[u]] = u <=> pc'[u] \in {"load", "fread"}
    BY DEF GilKept, HasGil
  <2>1. CASE u = t
    BY <2>1, <1>1, <1>3, ThreadsAssumption
  <2>2. CASE u # t
    BY <2>2, <1>1, <1>3, ThreadsAssumption DEF GilKept, HasGil
  <2> QED BY <2>1, <2>2
<1>8. OneTokenizer'
  BY <1>1, <1>2 DEF OneTokenizer
<1>9. MissingIsComing'
  BY <1>5 DEF MissingIsComing
<1>10. CleanLoads'
  BY <1>5 DEF CleanLoads, LoadsWhole
<1>11. BlobConsumed'
  BY DEF BlobConsumed
<1> QED BY <1>4, <1>6, <1>7, <1>8, <1>9, <1>10, <1>11

LEMMA StartLoadInv ==
  ASSUME Inv, NEW t \in Threads, StartLoad(t)
  PROVE  Inv'
<1> USE DEF Inv, StartLoad, Goto, files, loaded
<1>1. /\ pc[t] = "load"
      /\ pc' \in [Threads -> {"idle", "open", "write", "enter", "load", "fread"}]
      /\ pc'[t] = "fread"
      /\ \A u \in Threads \ {t} : pc'[u] = pc[u]
  BY DEF TypeOK
<1>2. file # NoFile => file \in Seq(Nat) /\ Len(file) \in Nat
  BY DEF TypeOK
<1>3. /\ size' \in [Threads -> Nat]
      /\ size'[t] = IF file = NoFile THEN 0 ELSE Len(file)
      /\ \A u \in Threads \ {t} : size'[u] = size[u]
  BY <1>2 DEF TypeOK
<1>4. TypeOK'
  BY <1>1, <1>3 DEF TypeOK
<1>5. Writers' = Writers /\ Loaders' = Loaders \cup {t}
  BY <1>1 DEF Writers, Loaders
<1>6. LocalState'
  BY <1>1, <1>2, <1>3 DEF LocalState
<1>7. GilKept'
  BY <1>1 DEF GilKept, HasGil
<1>8. OneTokenizer'
  BY <1>1 DEF OneTokenizer
<1>9. MissingIsComing'
  BY <1>5 DEF MissingIsComing
<1>10. buf'[t] = <<>> /\ Len(buf'[t]) = 0
  BY <1>1 DEF LocalState
<1>11. \/ torn' \/ t \in beside'
       \/ LoadsWhole(t)'
  <2> SUFFICES ASSUME ~torn, Writers = {}
               PROVE  LoadsWhole(t)'
    BY DEF Writers
  <2>1. CASE file = NoFile
    BY <2>1, <1>3, <1>5 DEF LoadsWhole
  <2>2. CASE file # NoFile
    <3>1. \A i \in 1 .. NumChunks : i <= Len(file) /\ file[i] = i
      BY <2>2 DEF MissingIsComing
    <3>2. Len(file) = NumChunks
      BY <2>2, <3>1, <1>2, ChunksAssumption DEF MissingIsComing
    <3> QED BY <2>2, <3>1, <3>2, <1>3, <1>5, <1>10 DEF LoadsWhole
  <2> QED BY <2>1, <2>2
<1>12. ASSUME NEW u \in Loaders, u # t
       PROVE  /\ Len(buf'[u]) <= size'[u]
              /\ torn' \/ u \in beside' \/ LoadsWhole(u)'
  <2>1. u \in Threads /\ size'[u] = size[u] /\ buf' = buf /\ file' = file
    BY <1>12, <1>3 DEF Loaders
  <2>2. Len(buf'[u]) <= size'[u]
    BY <2>1 DEF CleanLoads
  <2>3. torn \/ u \in beside \/ LoadsWhole(u)
    BY DEF CleanLoads
  <2>4. LoadsWhole(u) => LoadsWhole(u)'
    BY <2>1, <1>5 DEF LoadsWhole
  <2> QED BY <2>2, <2>3, <2>4
<1>13. CleanLoads'
  BY <1>3, <1>5, <1>10, <1>11, <1>12, <1>2 DEF CleanLoads
<1>14. BlobConsumed'
  BY DEF BlobConsumed
<1> QED BY <1>4, <1>6, <1>7, <1>8, <1>9, <1>13, <1>14

LEMMA ReadChunkInv ==
  ASSUME Inv, NEW t \in Threads, ReadChunk(t)
  PROVE  Inv'
<1> USE DEF Inv, ReadChunk, files, loaded
<1> DEFINE n == Len(buf[t]) + 1
<1>1. /\ pc[t] = "fread" /\ t \in Loaders
      /\ buf[t] \in Seq(Nat) /\ Len(buf[t]) < size[t] /\ size[t] \in Nat
      /\ Len(buf[t]) \in Nat
  BY DEF TypeOK, Loaders
<1>2. file \in Seq(Nat)
  BY <1>1 DEF LocalState
<1>3. n \in 1 .. Len(file) /\ file[n] \in Nat
  <2>1. Len(file) \in Nat /\ Len(buf[t]) < Len(file)
    BY <1>1, <1>2 DEF Short
  <2> QED BY <2>1, <1>1, <1>2
<1>4. /\ buf' \in [Threads -> Seq(Nat)]
      /\ buf'[t] = Append(buf[t], file[n])
      /\ \A u \in Threads \ {t} : buf'[u] = buf[u]
  BY <1>1, <1>3 DEF TypeOK
<1>5. TypeOK'
  BY <1>4 DEF TypeOK
<1>6. Writers' = Writers /\ Loaders' = Loaders
  BY DEF Writers, Loaders
<1>7. LocalState'
  BY <1>1, <1>4 DEF LocalState
<1>8. GilKept'
  BY DEF GilKept, HasGil
<1>9. OneTokenizer'
  BY DEF OneTokenizer
<1>10. MissingIsComing'
  BY <1>6 DEF MissingIsComing
<1>11. /\ Len(buf'[t]) = n
       /\ \A i \in 1 .. Len(buf'[t]) : buf'[t][i] = IF i = n THEN file[n] ELSE buf[t][i]
  BY <1>1, <1>3, <1>4
<1>12. ASSUME NEW u \in Loaders
       PROVE  /\ Len(buf'[u]) <= size'[u]
              /\ torn' \/ u \in beside' \/ LoadsWhole(u)'
  <2>1. CASE u = t
    <3>1. Len(buf'[u]) <= size'[u]
      BY <2>1, <1>1, <1>11
    <3>2. torn \/ t \in beside \/ LoadsWhole(t)
      BY <1>1 DEF CleanLoads
    <3>3. ASSUME LoadsWhole(t) PROVE LoadsWhole(t)'
      <4>1. /\ Writers' = {} /\ size'[t] = NumChunks /\ Len(file') = NumChunks
            /\ \A i \in 1 .. NumChunks : file'[i] = i
        BY <3>3, <1>1, <1>6 DEF LoadsWhole
      <4>2. \A i \in 1 .. Len(buf[t]) : buf[t][i] = i
        BY <3>3, <1>1 DEF LoadsWhole
      <4>3. \A i \in 1 .. Len(buf'[t]) : buf'[t][i] = i
        BY <4>1, <4>2, <1>1, <1>3, <1>11
      <4> QED BY <4>1, <4>3 DEF LoadsWhole
    <3> QED BY <2>1, <3>1, <3>2, <3>3
  <2>2. CASE u # t
    BY <2>2, <1>4, <1>6 DEF CleanLoads, LoadsWhole, Loaders
  <2> QED BY <2>1, <2>2
<1>13. CleanLoads'
  BY <1>6, <1>12 DEF CleanLoads
<1>14. BlobConsumed'
  BY DEF BlobConsumed
<1> QED BY <1>5, <1>7, <1>8, <1>9, <1>10, <1>13, <1>14

LEMMA BuildInv ==
  ASSUME Inv, NEW t \in Threads, Build(t)
  PROVE  Inv'
<1> DEFINE p == ProcessOf[t]
           how == IF buf[t] = <<>> \/ Short(t) THEN [exact |-> TRUE, disturbed |-> FALSE]
                  ELSE [exact |-> Consumed(buf[t]) = size[t], disturbed |-> torn \/ t \in beside]
<1>1. /\ p \in Processes /\ pc[t] = "fread" /\ t \in Loaders /\ HasGil(t)
      /\ g[p] = 0 /\ Len(built[p]) = 0 /\ built[p] = <<>>
  <2>1. p \in Processes /\ pc[t] = "fread" /\ t \in Loaders
    BY ThreadsAssumption DEF Build, Loaders
  <2>2. HasGil(t) /\ g[p] = 0 /\ Len(built[p]) = 0
    BY <2>1 DEF Inv, GilKept, OneTokenizer
  <2>3. built[p] = <<>>
    BY <2>1, <2>2 DEF Inv, TypeOK
  <2> QED BY <2>1, <2>2, <2>3
<1>2. /\ pc' \in [Threads -> {"idle", "open", "write", "enter", "load", "fread"}]
      /\ pc'[t] = "idle"
      /\ \A u \in Threads \ {t} : pc'[u] = pc[u]
  BY DEF Inv, TypeOK, Build, Goto
<1>3. /\ gil' \in [Processes -> Threads \cup {NoThread}]
      /\ gil'[p] = NoThread
      /\ \A q \in Processes \ {p} : gil'[q] = gil[q]
  BY <1>1 DEF Inv, TypeOK, Build, GilTo
<1>4. how \in [exact : BOOLEAN, disturbed : BOOLEAN]
  <2>1. (Consumed(buf[t]) = size[t]) \in BOOLEAN /\ (torn \/ t \in beside) \in BOOLEAN
    OBVIOUS
  <2>2. CASE buf[t] = <<>> \/ Short(t)
    <3>1. how = [exact |-> TRUE, disturbed |-> FALSE]
      BY <2>2
    <3> QED BY <3>1
  <2>3. CASE ~(buf[t] = <<>> \/ Short(t))
    <3> DEFINE e == Consumed(buf[t]) = size[t]
               d == torn \/ t \in beside
    <3>1. how = [exact |-> e, disturbed |-> d]
      BY <2>3
    <3>2. e \in BOOLEAN /\ d \in BOOLEAN
      BY <2>1
    <3> HIDE DEF e, d, how
    <3> QED BY <3>1, <3>2
  <2> QED BY <2>2, <2>3
<1>5. ~how.disturbed => how.exact
  <2> SUFFICES ASSUME buf[t] # <<>>, ~Short(t), ~torn, t \notin beside
               PROVE  Consumed(buf[t]) = size[t]
    BY Zenon
  <2>1. /\ buf[t] \in Seq(Nat) /\ Len(buf[t]) \in Nat /\ Len(buf[t]) # 0
        /\ size[t] \in Nat /\ Len(buf[t]) <= size[t]
    BY <1>1 DEF Inv, TypeOK, CleanLoads
  <2>2. LoadsWhole(t) /\ size[t] # 0
    BY <1>1, <2>1 DEF Inv, CleanLoads
  <2>3. size[t] = NumChunks /\ buf[t][1] = 1
    BY <2>1, <2>2 DEF LoadsWhole
  <2> QED BY <2>3 DEF Consumed
<1>6. /\ built' \in [Processes -> Seq([exact : BOOLEAN, disturbed : BOOLEAN])]
      /\ built'[p] = <<how>> /\ Len(built'[p]) = 1
      /\ \A q \in Processes \ {p} : built'[q] = built[q]
  <2>1. built' = [built EXCEPT ![p] = Append(built[p], how)]
    BY DEF Build
  <2> HIDE DEF how, p
  <2>2. Append(built[p], how) = <<how>>
    BY <1>1, <1>4
  <2>3. <<how>> \in Seq([exact : BOOLEAN, disturbed : BOOLEAN])
    BY <1>4
  <2>4. built' = [built EXCEPT ![p] = <<how>>]
    BY <2>1, <2>2
  <2> QED BY <2>3, <2>4, <1>1 DEF Inv, TypeOK
<1>7. /\ g' \in [Processes -> Nat] /\ g'[p] = 1
      /\ \A q \in Processes \ {p} : g'[q] = g[q]
  <2>1. g' = [g EXCEPT ![p] = 1]
    BY <1>1 DEF Build
  <2> QED BY <2>1, <1>1 DEF Inv, TypeOK
<1>8. /\ handle' \in [Threads -> Nat] /\ handle'[t] = 1
      /\ \A u \in Threads \ {t} : handle'[u] = handle[u]
  <2>1. handle' = [handle EXCEPT ![t] = 1]
    BY <1>1 DEF Build
  <2> QED BY <2>1 DEF Inv, TypeOK
<1>9. /\ size' \in [Threads -> Nat] /\ size'[t] = 0
      /\ buf' \in [Threads -> Seq(Nat)] /\ buf'[t] = <<>>
      /\ \A u \in Threads \ {t} : size'[u] = size[u] /\ buf'[u] = buf[u]
  <2>1. <<>> \in Seq(Nat)
    OBVIOUS
  <2> QED BY <2>1 DEF Inv, TypeOK, Build
<1>10. file' = file /\ torn' = torn /\ written' = written /\ beside' = beside \ {t}
  BY DEF Build, files
<1>11. TypeOK'
  BY <1>2, <1>3, <1>6, <1>7, <1>8, <1>9, <1>10 DEF Inv, TypeOK
<1>12. Writers' = Writers /\ Loaders' = Loaders \ {t}
  BY <1>1, <1>2 DEF Writers, Loaders
<1>13. LocalState'
  <2> SUFFICES ASSUME NEW u \in Threads
               PROVE  /\ pc'[u] = "write" \/ size'[u] # 0 => file' \in Seq(Nat)
                      /\ pc'[u] # "write" => written'[u] = 0
                      /\ pc'[u] # "fread" => size'[u] = 0 /\ buf'[u] = <<>>
    BY DEF LocalState
  <2>1. CASE u = t
    BY <2>1, <1>1, <1>2, <1>9, <1>10 DEF Inv, LocalState
  <2>2. CASE u # t
    BY <2>2, <1>2, <1>9, <1>10 DEF Inv, LocalState
  <2> QED BY <2>1, <2>2
<1>14. \A u \in Threads : u # t /\ pc[u] \in {"load", "fread"} => ProcessOf[u] # p
  BY <1>1 DEF Inv, GilKept, HasGil
<1>15. GilKept'
  <2> SUFFICES ASSUME NEW u \in Threads
               PROVE  gil'[ProcessOf[u]] = u <=> pc'[u] \in {"load", "fread"}
    BY DEF GilKept, HasGil
  <2>1. CASE ProcessOf[u] = p
    BY <2>1, <1>2, <1>3, <1>14, ThreadsAssumption
  <2>2. CASE ProcessOf[u] # p
    BY <2>2, <1>2, <1>3, ThreadsAssumption DEF Inv, GilKept, HasGil
  <2> QED BY <2>1, <2>2
<1>16. OneTokenizer'
  <2>1. \A q \in Processes : Len(built'[q]) = g'[q] /\ g'[q] <= 1
    <3>1. Len(built'[p]) = 1 /\ g'[p] = 1
      BY <1>6, <1>7
    <3>2. \A q \in Processes \ {p} : built'[q] = built[q] /\ g'[q] = g[q]
      BY <1>6, <1>7
    <3>3. \A q \in Processes : Len(built[q]) = g[q] /\ g[q] <= 1
      BY DEF Inv, OneTokenizer
    <3>4. ASSUME NEW q \in Processes PROVE Len(built'[q]) = g'[q] /\ g'[q] <= 1
      <4>1. CASE q = p
        BY <4>1, <3>1
      <4>2. CASE q # p
        BY <4>2, <3>2, <3>3
      <4> QED BY <4>1, <4>2
    <3> QED BY <3>4
  <2>2. ASSUME NEW u \in Threads
        PROVE  /\ pc'[u] \in {"load", "fread"} => g'[ProcessOf[u]] = 0
               /\ handle'[u] # 0 => handle'[u] = g'[ProcessOf[u]]
    <3>1. CASE u = t
      BY <3>1, <1>2, <1>7, <1>8
    <3>2. CASE u # t /\ ProcessOf[u] = p
      BY <3>2, <1>1, <1>2, <1>8, <1>14 DEF Inv, OneTokenizer
    <3>3. CASE u # t /\ ProcessOf[u] # p
      BY <3>3, <1>2, <1>7, <1>8, ThreadsAssumption DEF Inv, OneTokenizer
    <3> QED BY <3>1, <3>2, <3>3
  <2> QED BY <2>1, <2>2 DEF OneTokenizer
<1>17. MissingIsComing'
  BY <1>10, <1>12 DEF Inv, MissingIsComing
<1>18. CleanLoads'
  BY <1>9, <1>10, <1>12 DEF Inv, CleanLoads, LoadsWhole, Loaders
<1>19. BlobConsumed'
  <2> SUFFICES ASSUME NEW q \in Processes, NEW i \in DOMAIN built'[q]
               PROVE  built'[q][i].disturbed \/ built'[q][i].exact
    BY DEF BlobConsumed
  <2>1. CASE q = p
    <3> HIDE DEF how
    <3>1. built'[q] = <<how>>
      BY <2>1, <1>6
    <3>2. i = 1 /\ built'[q][i] = how
      BY <3>1
    <3> QED BY <3>2, <1>5
  <2>2. CASE q # p
    BY <2>2, <1>6 DEF Inv, BlobConsumed
  <2> QED BY <2>1, <2>2
<1> QED BY <1>11, <1>13, <1>15, <1>16, <1>17, <1>18, <1>19 DEF Inv

LEMMA CrashInv ==
  ASSUME Inv, NEW p \in Processes, Crash(p)
  PROVE  Inv'
<1> DEFINE own == ThreadsOf(p)
<1>1. \A u \in Threads : u \in own <=> ProcessOf[u] = p
  BY DEF ThreadsOf
<1>2. file' = file /\ beside' = beside \ own /\ torn' = (torn \/ own \cap Writers # {})
  BY DEF Crash
<1>3. /\ pc' = [u \in Threads |-> IF u \in own THEN "idle" ELSE pc[u]]
      /\ written' = [u \in Threads |-> IF u \in own THEN 0 ELSE written[u]]
      /\ size' = [u \in Threads |-> IF u \in own THEN 0 ELSE size[u]]
      /\ buf' = [u \in Threads |-> IF u \in own THEN <<>> ELSE buf[u]]
      /\ handle' = [u \in Threads |-> IF u \in own THEN 0 ELSE handle[u]]
  BY Zenon DEF Crash
<1>4. /\ gil' = [gil EXCEPT ![p] = NoThread]
      /\ g' = [g EXCEPT ![p] = 0]
      /\ built' = [built EXCEPT ![p] = <<>>]
  BY DEF Crash
<1> HIDE DEF own
<1>5. \A u \in own \cap Threads : /\ pc'[u] = "idle" /\ written'[u] = 0 /\ size'[u] = 0
                                  /\ buf'[u] = <<>> /\ handle'[u] = 0
  BY <1>3
<1>6. \A u \in Threads \ own : /\ pc'[u] = pc[u] /\ written'[u] = written[u]
                               /\ size'[u] = size[u] /\ buf'[u] = buf[u]
                               /\ handle'[u] = handle[u]
  BY <1>3
<1>7. TypeOK'
  <2>1. <<>> \in Seq(Nat) /\ <<>> \in Seq([exact : BOOLEAN, disturbed : BOOLEAN])
    OBVIOUS
  <2>2. /\ pc' \in [Threads -> {"idle", "open", "write", "enter", "load", "fread"}]
        /\ written' \in [Threads -> Nat] /\ size' \in [Threads -> Nat]
        /\ handle' \in [Threads -> Nat]
    BY <1>3 DEF Inv, TypeOK
  <2>3. buf' \in [Threads -> Seq(Nat)]
    BY <2>1, <1>3 DEF Inv, TypeOK
  <2>4. built' \in [Processes -> Seq([exact : BOOLEAN, disturbed : BOOLEAN])]
    BY <2>1, <1>4 DEF Inv, TypeOK
  <2>5. gil' \in [Processes -> Threads \cup {NoThread}] /\ g' \in [Processes -> Nat]
    BY <1>4 DEF Inv, TypeOK
  <2>6. file' \in Seq(Nat) \cup {NoFile} /\ beside' \subseteq Threads /\ torn' \in BOOLEAN
    BY <1>2 DEF Inv, TypeOK
  <2> QED BY <2>2, <2>3, <2>4, <2>5, <2>6 DEF TypeOK
<1>8. /\ gil'[p] = NoThread /\ g'[p] = 0 /\ built'[p] = <<>>
      /\ \A q \in Processes \ {p} : gil'[q] = gil[q] /\ g'[q] = g[q] /\ built'[q] = built[q]
  BY <1>4 DEF Inv, TypeOK
<1>9. Writers' = Writers \ own /\ Loaders' = Loaders \ own
  BY <1>5, <1>6 DEF Writers, Loaders
<1>10. ~torn' => ~torn /\ Writers' = Writers
  BY <1>2, <1>9
<1>11. LocalState'
  <2> SUFFICES ASSUME NEW u \in Threads
               PROVE  /\ pc'[u] = "write" \/ size'[u] # 0 => file' \in Seq(Nat)
                      /\ pc'[u] # "write" => written'[u] = 0
                      /\ pc'[u] # "fread" => size'[u] = 0 /\ buf'[u] = <<>>
    BY DEF LocalState
  <2>1. CASE u \in own
    BY <2>1, <1>5
  <2>2. CASE u \notin own
    BY <2>2, <1>2, <1>6 DEF Inv, LocalState
  <2> QED BY <2>1, <2>2
<1>12. GilKept'
  <2> SUFFICES ASSUME NEW u \in Threads
               PROVE  gil'[ProcessOf[u]] = u <=> pc'[u] \in {"load", "fread"}
    BY DEF GilKept, HasGil
  <2>1. CASE u \in own
    BY <2>1, <1>1, <1>5, <1>8, ThreadsAssumption
  <2>2. CASE u \notin own
    BY <2>2, <1>1, <1>6, <1>8, ThreadsAssumption DEF Inv, GilKept, HasGil
  <2> QED BY <2>1, <2>2
<1>13. OneTokenizer'
  <2>1. \A q \in Processes : Len(built'[q]) = g'[q] /\ g'[q] <= 1
    BY <1>8 DEF Inv, OneTokenizer
  <2>2. ASSUME NEW u \in Threads
        PROVE  /\ pc'[u] \in {"load", "fread"} => g'[ProcessOf[u]] = 0
               /\ handle'[u] # 0 => handle'[u] = g'[ProcessOf[u]]
    <3>1. CASE u \in own
      BY <3>1, <1>5
    <3>2. CASE u \notin own
      BY <3>2, <1>1, <1>6, <1>8, ThreadsAssumption DEF Inv, OneTokenizer
    <3> QED BY <3>1, <3>2
  <2> QED BY <2>1, <2>2 DEF OneTokenizer
<1>14. \A u \in Writers' : u \in Writers /\ written'[u] = written[u]
  BY <1>6, <1>9 DEF Writers
<1>15. MissingIsComing'
  BY <1>2, <1>10, <1>14 DEF Inv, MissingIsComing
<1>16. ASSUME NEW u \in Loaders'
       PROVE  /\ Len(buf'[u]) <= size'[u]
              /\ torn' \/ u \in beside' \/ LoadsWhole(u)'
  <2>1. u \in Loaders /\ u \notin own /\ size'[u] = size[u] /\ buf'[u] = buf[u]
    BY <1>6, <1>9 DEF Loaders
  <2>2. Len(buf'[u]) <= size'[u]
    BY <2>1 DEF Inv, CleanLoads
  <2>3. torn \/ u \in beside \/ LoadsWhole(u)
    BY <2>1 DEF Inv, CleanLoads
  <2>4. LoadsWhole(u) /\ ~torn' => LoadsWhole(u)'
    BY <2>1, <1>2, <1>10 DEF LoadsWhole
  <2> QED BY <2>1, <2>2, <2>3, <2>4, <1>2
<1>17. CleanLoads'
  BY <1>16 DEF CleanLoads
<1>18. BlobConsumed'
  <2>1. DOMAIN <<>> = {}
    OBVIOUS
  <2> QED BY <2>1, <1>8 DEF Inv, BlobConsumed
<1> QED BY <1>7, <1>11, <1>12, <1>13, <1>15, <1>17, <1>18 DEF Inv

-----------------------------------------------------------------------------
LEMMA NextInv == Inv /\ [NextTables]_<<pc, gil, tableVars>> => Inv'
<1> SUFFICES ASSUME Inv, [NextTables]_<<pc, gil, tableVars>> PROVE Inv'
  OBVIOUS
<1>1. ASSUME NEW t \in Threads, Exists(t) PROVE Inv'
  BY <1>1, ExistsInv
<1>2. ASSUME NEW t \in Threads, WriteStep(t) PROVE Inv'
  BY <1>2, OpenFileInv, WriteChunkInv DEF WriteStep
<1>3. ASSUME NEW t \in Threads, Fail(t) PROVE Inv'
  BY <1>3, FailInv
<1>4. ASSUME NEW t \in Threads, Enter(t) PROVE Inv'
  BY <1>4, EnterInv
<1>5. ASSUME NEW t \in Threads, LoadStep(t) PROVE Inv'
  BY <1>5, StartLoadInv, ReadChunkInv, BuildInv DEF LoadStep
<1>6. ASSUME NEW p \in Processes, Crash(p) PROVE Inv'
  BY <1>6, CrashInv
<1>7. CASE UNCHANGED <<pc, gil, tableVars>>
  BY <1>7 DEF Inv, TypeOK, LocalState, GilKept, HasGil, OneTokenizer, MissingIsComing,
     CleanLoads, LoadsWhole, BlobConsumed, Writers, Loaders, tableVars, files, locals, loaded
<1> QED BY <1>1, <1>2, <1>3, <1>4, <1>5, <1>6, <1>7 DEF NextTables

LEMMA AlwaysInv == SpecTables => []Inv
<1> QED BY InitInv, NextInv, PTL DEF SpecTables

(***************************************************************************)
(* However many threads and processes ask for the tokenizer, fail to write *)
(* the file or are killed: no process builds two tokenizers, and all its   *)
(* threads share the one there is (python/c_bpe/openai.py, pymodule.c).    *)
(***************************************************************************)
THEOREM OnlyOneTokenizer == SpecTables => []InitialisedOnce
<1>1. Inv => InitialisedOnce
  BY DEF Inv, OneTokenizer, InitialisedOnce
<1> QED BY <1>1, AlwaysInv, PTL

(***************************************************************************)
(* A tokenizer made from the file uses exactly the bytes it read, as       *)
(* bpe_from_blob says it should, unless a writer was about or had stopped. *)
(***************************************************************************)
THEOREM LoadedAsWritten == SpecTables => []BlobConsumed
<1>1. Inv => BlobConsumed
  BY DEF Inv
<1> QED BY <1>1, AlwaysInv, PTL
=============================================================================
