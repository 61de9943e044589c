-------------------------- MODULE ThreadPoolProofs --------------------------
(***************************************************************************)
(* Proofs about ThreadPool, for any number of callers, workers and items   *)
(* and any queue capacity: the counter of a batch, then the wakeups, and   *)
(* last that the pool implements BatchService.                             *)
(***************************************************************************)
EXTENDS ThreadPool, FiniteSetTheorems, SequenceTheorems, TLAPS

-----------------------------------------------------------------------------
(* The inductive invariant.                                                *)

(***************************************************************************)
(* How far a caller is with its batch: it has items left to push exactly   *)
(* while it pushes or waits for space, and it goes past its wait only with *)
(* the counter at 0.                                                       *)
(***************************************************************************)
Progress ==
  \A c \in Callers :
    /\ pushed[c] <= size[c]
    /\ cpc[c] = "idle" => size[c] = 0
    /\ cpc[c] \in {"push", "wait_space"} => pushed[c] < size[c]
    /\ cpc[c] \notin {"idle", "push", "wait_space"} => pushed[c] = size[c]
    /\ cpc[c] \in {"unlock", "destroy", "returned"} => remaining[c] = 0

(* Only items that were pushed are in the pool. *)
PlacedArePushed ==
  \A it \in InQueue \cup Held : it[2] <= pushed[it[1]]

(* The output of an item is written once, after it was pushed, when it is  *)
(* neither queued nor being executed.                                      *)
Running == {item[w] : w \in {v \in Workers : wpc[v] = "run"}}

WrittenOnce ==
  \A c \in Callers, i \in 1 .. MaxBatch :
    written[<<c, i>>] =
      IF i <= pushed[c] /\ <<c, i>> \notin InQueue \cup Running THEN 1 ELSE 0

Inv ==
  TypeOK /\ Progress /\ PlacedArePushed /\ CounterExact /\ WrittenOnce

LEMMA InitInv == Init => Inv
<1> SUFFICES ASSUME Init PROVE Inv
  OBVIOUS
<1> USE DEF Init
<1>1. TypeOK
  <2>1. PICK started \in SUBSET Workers :
          wpc = [w \in Workers |-> IF w \in started THEN "fetch" ELSE "absent"]
    OBVIOUS
  <2>2. /\ \A w \in Workers : wpc[w] \in {"fetch", "absent"}
        /\ wpc = [w \in Workers |-> wpc[w]]
    BY <2>1
  <2>3. queue \in Seq(Items) /\ Len(queue) = 0
    OBVIOUS
  <2>4. /\ wpc \in [Workers -> {"absent", "fetch", "wait_item", "run", "count", "notify",
                               "signal", "release", "stuck", "exited"}]
        /\ \A w \in Workers : wpc[w] \in {"run", "count", "notify", "signal", "release"}
             => item[w] \in Items
    <3> HIDE DEF Init
    <3> QED BY <2>2
  <2>5. item \in [Workers -> Items \cup {<<>>}]
    OBVIOUS
  <2>6. /\ size \in [Callers -> 0 .. MaxBatch] /\ pushed \in [Callers -> 0 .. MaxBatch]
        /\ remaining \in [Callers -> 0 .. MaxBatch]
        /\ Len(queue) <= QueueCapacity
    BY PoolAssumption
  <2>7. /\ cpc \in [Callers -> {"idle", "push", "wait_space", "lock", "test", "sleep",
                               "wait_done", "unlock", "destroy", "returned"}]
        /\ holder \in [Callers -> Callers \cup Workers \cup {None}]
        /\ alive \in [Callers -> BOOLEAN]
        /\ shutdown \in BOOLEAN /\ freed \in BOOLEAN
        /\ written \in [Items -> Nat]
    OBVIOUS
  <2> QED BY <2>3, <2>4, <2>5, <2>6, <2>7 DEF TypeOK
<1>2. InQueue = {} /\ Held = {} /\ Running = {} /\ Holding = {}
  BY DEF InQueue, Held, Running, Holding
<1>3. \A c \in Callers : Pending(c) = {}
  BY DEF Pending
<1>4. CounterExact
  <2>1. Len(queue) = 0
    OBVIOUS
  <2>2. \A c \in Callers : remaining[c] = Cardinality(Pending(c))
    BY <1>3, FS_EmptySet
  <2> QED BY <1>2, <2>1, <2>2 DEF CounterExact
<1>5. Progress /\ PlacedArePushed /\ WrittenOnce
  BY <1>2 DEF Progress, PlacedArePushed, WrittenOnce, Items
<1> QED BY <1>1, <1>4, <1>5 DEF Inv

(***************************************************************************)
(* A step that keeps the places of all items keeps the counting part of    *)
(* the invariant.                                                          *)
(***************************************************************************)
LEMMA SamePlaces ==
  ASSUME Inv, InQueue' = InQueue, Holding' = Holding, Running' = Running,
         UNCHANGED <<item, size, pushed, queue, remaining, written>>
  PROVE  PlacedArePushed' /\ CounterExact' /\ WrittenOnce'
<1>1. Held' = Held
  BY DEF Held
<1>2. \A c \in Callers : Pending(c)' = Pending(c)
  BY <1>1 DEF Pending
<1> QED BY <1>1, <1>2 DEF Inv, PlacedArePushed, CounterExact, WrittenOnce

-----------------------------------------------------------------------------
(* Steps that move no item.                                                *)

(* A change of program counters in which nobody starts or stops running an *)
(* item.                                                                   *)
NoItemMoves ==
  /\ \A w \in Workers : \A p \in {"run", "count"} : wpc'[w] = p <=> wpc[w] = p
  /\ UNCHANGED <<item, size, pushed, queue, remaining, written>>

LEMMA NoItemMovesInv ==
  ASSUME Inv, NoItemMoves
  PROVE  PlacedArePushed' /\ CounterExact' /\ WrittenOnce'
<1>1. InQueue' = InQueue
  BY DEF NoItemMoves, InQueue
<1>2. Holding' = Holding
  BY DEF NoItemMoves, Holding
<1>3. Running' = Running
  BY DEF NoItemMoves, Running
<1> QED BY <1>1, <1>2, <1>3, SamePlaces DEF NoItemMoves

LEMMA CallerMovesInv ==
  ASSUME Inv, NEW c \in Callers,
         \/ WaitForSpace(c) \/ LockTracker(c) \/ TestRemaining(c)
         \/ Sleep(c) \/ UnlockTracker(c) \/ DestroyTracker(c)
  PROVE  Inv'
<1> USE DEF WaitForSpace, LockTracker, MoreToDo, TestRemaining, Sleep, UnlockTracker, DestroyTracker
<1>1. NoItemMoves
  BY DEF NoItemMoves, poolVars, trackerVars
<1>2. TypeOK'
  <2>1. CASE WaitForSpace(c)
    BY <2>1 DEF Inv, TypeOK, poolVars, trackerVars
  <2>2. CASE LockTracker(c)
    BY <2>2 DEF Inv, TypeOK, poolVars, trackerVars
  <2>3. CASE TestRemaining(c)
    BY <2>3 DEF Inv, TypeOK, poolVars, trackerVars
  <2>4. CASE Sleep(c)
    BY <2>4 DEF Inv, TypeOK, poolVars, trackerVars
  <2>5. CASE UnlockTracker(c)
    BY <2>5 DEF Inv, TypeOK, poolVars, trackerVars
  <2>6. CASE DestroyTracker(c)
    BY <2>6 DEF Inv, TypeOK, poolVars, trackerVars
  <2> QED BY <2>1, <2>2, <2>3, <2>4, <2>5, <2>6
<1>3. Progress'
  <2>1. CASE WaitForSpace(c)
    BY <2>1 DEF Inv, TypeOK, Progress, poolVars, trackerVars
  <2>2. CASE LockTracker(c)
    BY <2>2 DEF Inv, TypeOK, Progress, poolVars, trackerVars
  <2>3. CASE TestRemaining(c)
    BY <2>3 DEF Inv, TypeOK, Progress, poolVars, trackerVars
  <2>4. CASE Sleep(c)
    BY <2>4 DEF Inv, TypeOK, Progress, poolVars, trackerVars
  <2>5. CASE UnlockTracker(c)
    BY <2>5 DEF Inv, TypeOK, Progress, poolVars, trackerVars
  <2>6. CASE DestroyTracker(c)
    BY <2>6 DEF Inv, TypeOK, Progress, poolVars, trackerVars
  <2> QED BY <2>1, <2>2, <2>3, <2>4, <2>5, <2>6
<1> QED BY <1>1, <1>2, <1>3, NoItemMovesInv DEF Inv

LEMMA WorkerMovesInv ==
  ASSUME Inv, NEW w \in Workers,
         \/ WaitForItem(w) \/ Exit(w) \/ LockToNotify(w) \/ SignalDone(w)
         \/ Release(w) \/ TouchDestroyed(w)
  PROVE  Inv'
<1> USE DEF WaitForItem, Exit, LockToNotify, SignalDone, Release, TouchDestroyed
<1>1. NoItemMoves
  BY DEF Inv, TypeOK, NoItemMoves, callerVars, trackerVars
<1>2. TypeOK'
  <2>1. w \in Workers /\ wpc[w] \in {"notify", "signal", "release"} => Caller(w) \in Callers
    BY DEF Inv, TypeOK, Items, Caller
  <2>2. CASE SignalDone(w)
    BY <2>1, <2>2 DEF Inv, TypeOK, callerVars, trackerVars
  <2>3. CASE LockToNotify(w)
    BY <2>1, <2>3 DEF Inv, TypeOK, callerVars, trackerVars
  <2>6. CASE Release(w)
    BY <2>1, <2>6 DEF Inv, TypeOK, callerVars, trackerVars
  <2>4. CASE TouchDestroyed(w)
    BY <2>4 DEF Inv, TypeOK, callerVars, trackerVars
  <2>5. CASE WaitForItem(w) \/ Exit(w)
    BY <2>5 DEF Inv, TypeOK, callerVars, trackerVars
  <2> QED BY <2>2, <2>3, <2>4, <2>5, <2>6
<1>3. Progress'
  BY DEF Inv, TypeOK, Progress, callerVars, trackerVars
<1> QED BY <1>1, <1>2, <1>3, NoItemMovesInv DEF Inv

LEMMA PoolMovesInv ==
  ASSUME Inv, WakeSpuriously \/ Shutdown \/ Free \/ UNCHANGED vars
  PROVE  Inv'
<1> USE DEF WakeSpuriously, AfterWait, Idle, Woken, Shutdown, Free, vars, poolVars, callerVars, trackerVars
<1>1. NoItemMoves
  BY DEF Inv, TypeOK, NoItemMoves
<1>2. TypeOK'
  BY DEF Inv, TypeOK
<1>3. Progress'
  BY DEF Inv, TypeOK, Progress
<1> QED BY <1>1, <1>2, <1>3, NoItemMovesInv DEF Inv

-----------------------------------------------------------------------------
(* Steps that move an item.                                                *)

LEMMA PendingFinite ==
  ASSUME TypeOK, NEW c \in Callers
  PROVE  /\ IsFiniteSet(Pending(c))
         /\ Cardinality(Pending(c)) \in Nat /\ Cardinality(Pending(c)) <= size[c]
<1>1. size[c] \in Nat
  BY DEF TypeOK
<1>2. IsFiniteSet(1 .. size[c]) /\ Cardinality(1 .. size[c]) = size[c]
  BY <1>1, FS_Interval
<1>3. Pending(c) \in SUBSET (1 .. size[c])
  BY DEF Pending
<1>4. IsFiniteSet(Pending(c)) /\ Cardinality(Pending(c)) <= size[c]
  BY <1>2, <1>3, FS_Subset
<1> QED BY <1>4, FS_CardinalityType

LEMMA StartInv ==
  ASSUME Inv, NEW c \in Callers, NEW n \in 0 .. MaxBatch, Start(c, n)
  PROVE  Inv'
<1> USE DEF Start, poolVars
<1>1. pushed[c] = 0 /\ size[c] = 0
  BY DEF Inv, Progress, TypeOK
<1>2. TypeOK'
  BY DEF Inv, TypeOK
<1>3. Progress'
  BY <1>1 DEF Inv, TypeOK, Progress
<1>4. InQueue' = InQueue /\ Holding' = Holding /\ Held' = Held /\ Running' = Running
  BY DEF InQueue, Holding, Held, Running
<1>5. PlacedArePushed' /\ WrittenOnce'
  BY <1>4 DEF Inv, PlacedArePushed, WrittenOnce
<1>6. ASSUME NEW d \in Callers PROVE remaining'[d] = Cardinality(Pending(d)')
  <2>1. CASE d = c
    <3>1. Pending(d)' = 1 .. n
      BY <1>1, <2>1 DEF Pending, Inv, TypeOK
    <3>2. remaining'[d] = n /\ n \in Nat
      BY <2>1 DEF Inv, TypeOK
    <3> QED BY <3>1, <3>2, FS_Interval
  <2>2. CASE d # c
    <3>1. Pending(d)' = Pending(d)
      BY <1>4, <2>2 DEF Pending, Inv, TypeOK
    <3>2. remaining'[d] = remaining[d]
      BY <2>2 DEF Inv, TypeOK
    <3> QED BY <3>1, <3>2 DEF Inv, CounterExact
  <2> QED BY <2>1, <2>2
<1>7. CounterExact'
  BY <1>4, <1>6 DEF Inv, CounterExact
<1> QED BY <1>2, <1>3, <1>5, <1>7 DEF Inv

LEMMA PushInv ==
  ASSUME Inv, NEW c \in Callers, Push(c)
  PROVE  Inv'
<1> DEFINE new == <<c, pushed[c] + 1>>
<1>1. /\ queue \in Seq(Items) /\ pushed[c] \in Nat /\ size[c] \in 0 .. MaxBatch
      /\ pushed[c] < size[c] /\ pushed[c] + 1 \in 1 .. MaxBatch
      /\ new \in Items /\ queue' = Append(queue, new)
  <2>1. /\ queue \in Seq(Items) /\ pushed[c] \in 0 .. MaxBatch /\ size[c] \in 0 .. MaxBatch
        /\ queue' = Append(queue, new)
    BY DEF Inv, TypeOK, Push
  <2>2. pushed[c] < size[c]
    BY DEF Inv, Progress, Push
  <2>3. pushed[c] \in Nat /\ pushed[c] + 1 \in 1 .. MaxBatch
    BY <2>1, <2>2, PoolAssumption
  <2> QED BY <2>1, <2>2, <2>3 DEF Items
<1>2. /\ Len(queue) \in Nat /\ queue' \in Seq(Items) /\ Len(queue') = Len(queue) + 1
      /\ \A i \in 1 .. Len(queue) : queue'[i] = queue[i]
      /\ queue'[Len(queue) + 1] = new
  BY <1>1, AppendProperties
<1>3. InQueue' = InQueue \cup {new}
  <2>1. \A i \in 1 .. Len(queue') : i \in 1 .. Len(queue) \/ i = Len(queue) + 1
    BY <1>2
  <2>2. \A i \in 1 .. Len(queue) : i \in 1 .. Len(queue')
    BY <1>2
  <2>3. Len(queue) + 1 \in 1 .. Len(queue')
    BY <1>2
  <2> QED BY <1>2, <2>1, <2>2, <2>3 DEF InQueue
<1>4. wpc' \in [Workers -> {"absent", "fetch", "wait_item", "run", "count", "notify",
                            "signal", "release", "stuck", "exited"}]
      /\ \A w \in Workers : wpc'[w] # wpc[w] => wpc[w] = "wait_item" /\ wpc'[w] = "fetch"
  BY DEF Inv, TypeOK, Push, SignalNotEmpty, Idle
<1>5. Holding' = Holding /\ Held' = Held /\ Running' = Running
  <2>1. item' = item
    BY DEF Push
  <2>2. \A w \in Workers : \A p \in {"run", "count"} : wpc'[w] = p <=> wpc[w] = p
    BY <1>4
  <2>3. Holding' = Holding
    BY <2>2 DEF Holding
  <2>4. Running' = Running
    BY <2>1, <2>2 DEF Running
  <2> QED BY <2>1, <2>3, <2>4 DEF Held
<1>6. new \notin InQueue \cup Held
  BY <1>1 DEF Inv, PlacedArePushed
<1>7. TypeOK'
  <2>1. Len(queue') <= QueueCapacity
    BY <1>1, <1>2, PoolAssumption DEF Push, Full, Inv, TypeOK
  <2>2. item' = item /\ \A w \in Workers : wpc'[w] \in {"run", "count", "notify", "signal", "release"}
          => item'[w] \in Items
    BY <1>4 DEF Inv, TypeOK, Push
  <2>3. /\ pushed' \in [Callers -> 0 .. MaxBatch]
        /\ cpc' \in [Callers -> {"idle", "push", "wait_space", "lock", "test", "sleep",
                                 "wait_done", "unlock", "destroy", "returned"}]
    BY <1>1 DEF Inv, TypeOK, Push
  <2> QED BY <1>2, <1>4, <2>1, <2>2, <2>3 DEF Inv, TypeOK, Push, trackerVars
<1>8. Progress'
  BY <1>1 DEF Inv, TypeOK, Progress, Push, trackerVars
<1>9. PlacedArePushed'
  <2>1. \A it \in InQueue \cup Held : it \in Items
    BY <1>1 DEF InQueue, Held, Holding, Inv, TypeOK
  <2>2. \A d \in Callers : pushed[d] <= pushed'[d] /\ pushed[d] \in Nat /\ pushed'[d] \in Nat
    BY <1>1 DEF Inv, TypeOK, Push
  <2>3. pushed'[c] = pushed[c] + 1
    BY DEF Inv, TypeOK, Push
  <2>4. ASSUME NEW it \in InQueue \cup Held PROVE it[2] <= pushed'[it[1]]
    <3>1. it[1] \in Callers /\ it[2] \in Nat /\ it[2] <= pushed[it[1]]
      BY <2>1 DEF Inv, PlacedArePushed, Items
    <3> QED BY <2>2, <3>1
  <2>5. new[2] <= pushed'[new[1]]
    BY <1>1, <2>3
  <2> QED BY <1>3, <1>5, <2>4, <2>5 DEF PlacedArePushed
<1>10. CounterExact'
  <2>1. ASSUME NEW d \in Callers PROVE Pending(d)' = Pending(d)
    <3>1. size' = size /\ pushed'[d] = IF d = c THEN pushed[d] + 1 ELSE pushed[d]
      BY DEF Inv, TypeOK, Push
    <3>2. \A i : <<d, i>> = new <=> d = c /\ i = pushed[c] + 1
      OBVIOUS
    <3>3. size[d] \in Nat /\ pushed[d] \in Nat
      BY DEF Inv, TypeOK
    <3>4. ASSUME NEW i \in 1 .. size[d]
          PROVE  i > pushed'[d] \/ <<d, i>> \in InQueue' \cup Held'
                   <=> i > pushed[d] \/ <<d, i>> \in InQueue \cup Held
      BY <1>3, <1>5, <3>1, <3>2, <3>3
    <3> QED BY <3>1, <3>4 DEF Pending
  <2>2. remaining' = remaining /\ item' = item
    BY DEF Push, trackerVars
  <2>3. ASSUME NEW i \in 1 .. Len(queue'), NEW j \in 1 .. Len(queue'), queue'[i] = queue'[j]
        PROVE  i = j
    <3>1. \A k \in 1 .. Len(queue) : queue'[k] # new
      BY <1>2, <1>6 DEF InQueue
    <3>2. CASE i = Len(queue) + 1 \/ j = Len(queue) + 1
      <4>1. (i = Len(queue) + 1 \/ i \in 1 .. Len(queue)) /\ (j = Len(queue) + 1 \/ j \in 1 .. Len(queue))
        BY <1>2
      <4> QED BY <1>2, <2>3, <3>1, <3>2, <4>1
    <3>3. CASE i \in 1 .. Len(queue) /\ j \in 1 .. Len(queue)
      BY <1>2, <2>3, <3>3 DEF Inv, CounterExact
    <3> QED BY <1>2, <3>2, <3>3
  <2>4. InQueue' \cap Held' = {}
    BY <1>3, <1>5, <1>6 DEF Inv, CounterExact
  <2> QED BY <1>5, <2>1, <2>2, <2>3, <2>4 DEF Inv, CounterExact
<1>11. WrittenOnce'
  <2> SUFFICES ASSUME NEW d \in Callers, NEW i \in 1 .. MaxBatch
               PROVE  written'[<<d, i>>] =
                        IF i <= pushed'[d] /\ <<d, i>> \notin InQueue' \cup Running' THEN 1 ELSE 0
    BY DEF WrittenOnce
  <2>1. written' = written /\ pushed'[d] = IF d = c THEN pushed[d] + 1 ELSE pushed[d]
    BY DEF Inv, TypeOK, Push
  <2>2. <<d, i>> = new <=> d = c /\ i = pushed[c] + 1
    OBVIOUS
  <2>3. pushed[d] \in Nat
    BY DEF Inv, TypeOK
  <2>4. written[<<d, i>>] = IF i <= pushed[d] /\ <<d, i>> \notin InQueue \cup Running THEN 1 ELSE 0
    BY DEF Inv, WrittenOnce
  <2> QED BY <1>3, <1>5, <2>1, <2>2, <2>3, <2>4
<1> QED BY <1>7, <1>8, <1>9, <1>10, <1>11 DEF Inv

LEMMA DequeueInv ==
  ASSUME Inv, NEW w \in Workers, Dequeue(w)
  PROVE  Inv'
<1> DEFINE first == Head(queue)
<1>1. /\ queue \in Seq(Items) /\ queue # <<>> /\ queue' = Tail(queue)
      /\ Len(queue) \in Nat \ {0} /\ first \in Items /\ first = queue[1]
      /\ queue' \in Seq(Items) /\ Len(queue') = Len(queue) - 1
      /\ \A i \in 1 .. Len(queue') : queue'[i] = queue[i + 1]
  <2>1. queue \in Seq(Items) /\ queue # <<>> /\ queue' = Tail(queue)
    BY DEF Inv, TypeOK, Dequeue, Remainder
  <2>2. Len(queue) \in Nat \ {0}
    BY <2>1, EmptySeq, LenProperties
  <2>3. first = queue[1]
    BY <2>1
  <2> QED BY <2>1, <2>2, <2>3, HeadTailProperties
<1>2. first \in InQueue /\ first \notin InQueue' /\ InQueue = InQueue' \cup {first}
  <2>1. 1 \in 1 .. Len(queue) /\ \A i \in 1 .. Len(queue') : i + 1 \in 1 .. Len(queue) /\ i + 1 # 1
    BY <1>1
  <2>2. ASSUME NEW i \in 1 .. Len(queue), i # 1
        PROVE  i - 1 \in 1 .. Len(queue') /\ queue'[i - 1] = queue[i]
    <3>1. i - 1 \in 1 .. Len(queue') /\ (i - 1) + 1 = i
      BY <1>1, <2>2
    <3> QED BY <1>1, <3>1
  <2>3. first \in InQueue
    BY <1>1, <2>1 DEF InQueue
  <2>4. first \notin InQueue'
    BY <1>1, <2>1 DEF InQueue, Inv, CounterExact
  <2>5. InQueue' \cup {first} \subseteq InQueue
    BY <1>1, <2>1, <2>3 DEF InQueue
  <2>6. InQueue \subseteq InQueue' \cup {first}
    <3> SUFFICES ASSUME NEW i \in 1 .. Len(queue), i # 1 PROVE queue[i] \in InQueue'
      BY <1>1 DEF InQueue
    <3> QED BY <2>2 DEF InQueue
  <2> QED BY <2>3, <2>4, <2>5, <2>6
<1>3. /\ wpc[w] = "fetch" /\ wpc' = [wpc EXCEPT ![w] = "run"]
      /\ item' = [item EXCEPT ![w] = first]
  BY DEF Dequeue
<1>4. /\ w \notin Holding /\ Holding' = Holding \cup {w}
      /\ \A v \in Holding : item'[v] = item[v] /\ v # w
      /\ item'[w] = first
  BY <1>3 DEF Holding, Inv, TypeOK
<1>5. Held' = Held \cup {first}
  BY <1>4 DEF Held
<1>6. Running' = Running \cup {first}
  <2>1. \A v \in Workers : wpc'[v] = "run" <=> v = w \/ wpc[v] = "run"
    BY <1>3 DEF Inv, TypeOK
  <2>2. \A v \in Workers : wpc[v] = "run" => item'[v] = item[v]
    BY <1>3 DEF Inv, TypeOK
  <2>3. item'[w] = first
    BY <1>4
  <2> QED BY <2>1, <2>2, <2>3 DEF Running
<1>7. InQueue' \cup Held' = InQueue \cup Held /\ InQueue' \cup Running' = InQueue \cup Running
  BY <1>2, <1>5, <1>6
<1>8. /\ cpc' \in [Callers -> {"idle", "push", "wait_space", "lock", "test", "sleep",
                               "wait_done", "unlock", "destroy", "returned"}]
      /\ \A c \in Callers : cpc'[c] # cpc[c] => cpc[c] = "wait_space" /\ cpc'[c] = "push"
  BY DEF Inv, TypeOK, Dequeue, SignalNotFull, Blocked
<1>9. UNCHANGED <<size, pushed, remaining, written>>
  BY DEF Dequeue, trackerVars
<1>10. TypeOK'
  <2>1. /\ wpc' \in [Workers -> {"absent", "fetch", "wait_item", "run", "count", "notify",
                                 "signal", "release", "stuck", "exited"}]
        /\ item' \in [Workers -> Items \cup {<<>>}]
        /\ \A v \in Workers : wpc'[v] \in {"run", "count", "notify", "signal", "release"}
             => item'[v] \in Items
    BY <1>1, <1>3 DEF Inv, TypeOK
  <2>2. Len(queue') <= QueueCapacity
    BY <1>1, PoolAssumption DEF Inv, TypeOK
  <2> QED BY <1>1, <1>8, <2>1, <2>2 DEF Inv, TypeOK, Dequeue, trackerVars
<1>11. Progress'
  BY <1>8, <1>9 DEF Inv, Progress
<1>12. PlacedArePushed' /\ WrittenOnce'
  BY <1>7, <1>9 DEF Inv, PlacedArePushed, WrittenOnce
<1>13. CounterExact'
  <2>1. \A c \in Callers : Pending(c)' = Pending(c)
    BY <1>7, <1>9 DEF Pending
  <2>2. \A i, j \in 1 .. Len(queue') : queue'[i] = queue'[j] => i = j
    <3>1. \A i \in 1 .. Len(queue') : i + 1 \in 1 .. Len(queue)
      BY <1>1
    <3> QED BY <1>1, <3>1 DEF Inv, CounterExact
  <2>3. first \notin Held
    BY <1>2 DEF Inv, CounterExact
  <2>4. \A u, v \in Holding' : item'[u] = item'[v] => u = v
    BY <1>4, <2>3 DEF Inv, CounterExact, Held
  <2>5. InQueue' \cap Held' = {}
    BY <1>2, <1>5 DEF Inv, CounterExact
  <2> QED BY <1>9, <2>1, <2>2, <2>4, <2>5 DEF Inv, CounterExact
<1> QED BY <1>10, <1>11, <1>12, <1>13 DEF Inv

LEMMA ExecuteInv ==
  ASSUME Inv, NEW w \in Workers, Execute(w)
  PROVE  Inv'
<1>1. /\ wpc[w] = "run" /\ wpc' = [wpc EXCEPT ![w] = "count"]
      /\ item[w] \in Items /\ written' = [written EXCEPT ![item[w]] = @ + 1]
      /\ UNCHANGED <<item, queue, cpc, size, pushed, remaining>>
  BY DEF Inv, TypeOK, Execute, callerVars, trackerVars
<1>2. InQueue' = InQueue
  BY <1>1 DEF InQueue
<1>3. Holding' = Holding /\ w \in Holding /\ Held' = Held
  <2>1. Holding' = Holding /\ w \in Holding
    BY <1>1 DEF Holding, Inv, TypeOK
  <2> QED BY <1>1, <2>1 DEF Held
<1>4. item[w] \in Running /\ Running' = Running \ {item[w]} /\ item[w] \notin InQueue
  <2>1. \A v \in Workers : wpc'[v] = "run" <=> v # w /\ wpc[v] = "run"
    BY <1>1 DEF Inv, TypeOK
  <2>2. \A v \in Workers : wpc[v] = "run" /\ item[v] = item[w] => v = w
    BY <1>1 DEF Inv, CounterExact, Holding
  <2>3. item[w] \in Held
    BY <1>3 DEF Held
  <2>4. item[w] \notin InQueue
    BY <2>3 DEF Inv, CounterExact
  <2>5. item[w] \in Running /\ Running' = Running \ {item[w]}
    BY <1>1, <2>1, <2>2 DEF Running
  <2> QED BY <2>4, <2>5
<1>5. TypeOK'
  <2>1. written' \in [Items -> Nat]
    BY <1>1 DEF Inv, TypeOK
  <2> QED BY <1>1, <2>1 DEF Inv, TypeOK, Execute, callerVars, trackerVars
<1>6. Progress'
  BY <1>1 DEF Inv, Progress
<1>7. PlacedArePushed'
  BY <1>1, <1>2, <1>3 DEF Inv, PlacedArePushed
<1>8. CounterExact'
  <2>1. \A c \in Callers : Pending(c)' = Pending(c)
    BY <1>1, <1>2, <1>3 DEF Pending
  <2> QED BY <1>1, <1>2, <1>3, <2>1 DEF Inv, CounterExact
<1>9. WrittenOnce'
  <2> SUFFICES ASSUME NEW c \in Callers, NEW i \in 1 .. MaxBatch
               PROVE  written'[<<c, i>>] =
                        IF i <= pushed[c] /\ <<c, i>> \notin InQueue \cup Running' THEN 1 ELSE 0
    BY <1>1, <1>2 DEF WrittenOnce
  <2>1. written[<<c, i>>] = IF i <= pushed[c] /\ <<c, i>> \notin InQueue \cup Running THEN 1 ELSE 0
    BY DEF Inv, WrittenOnce
  <2>2. <<c, i>> \in Items
    BY DEF Items
  <2>3. CASE <<c, i>> = item[w]
    <3>1. i <= pushed[c]
      <4>1. item[w] \in Held
        BY <1>3 DEF Held
      <4> QED BY <2>3, <4>1 DEF Inv, PlacedArePushed
    <3>2. written[<<c, i>>] = 0
      BY <1>4, <2>1, <2>3
    <3>3. written'[<<c, i>>] = 1
      <4>1. written \in [Items -> Nat] /\ written' = [written EXCEPT ![item[w]] = @ + 1]
        BY <1>1 DEF Inv, TypeOK
      <4>2. written'[item[w]] = written[item[w]] + 1
        BY <1>1, <4>1
      <4> QED BY <2>3, <3>2, <4>2
    <3> QED BY <1>4, <2>3, <3>1, <3>3
  <2>4. CASE <<c, i>> # item[w]
    <3>1. written'[<<c, i>>] = written[<<c, i>>]
      BY <1>1, <2>2, <2>4 DEF Inv, TypeOK
    <3> QED BY <1>4, <2>1, <2>4, <3>1
  <2> QED BY <2>3, <2>4
<1> QED BY <1>5, <1>6, <1>7, <1>8, <1>9 DEF Inv

LEMMA CountDownInv ==
  ASSUME Inv, NEW w \in Workers, CountDown(w)
  PROVE  Inv'
<1>1. /\ wpc[w] = "count" /\ item[w] \in Items
      /\ wpc'[w] \in {"notify", "fetch"}
      /\ \A v \in Workers : v # w => wpc'[v] = wpc[v]
      /\ UNCHANGED <<item, queue, cpc, size, pushed, written>>
  BY DEF Inv, TypeOK, CountDown, callerVars
<1>2. PICK c \in Callers, k \in 1 .. MaxBatch : item[w] = <<c, k>>
  BY <1>1 DEF Items
<1>3. remaining' = [remaining EXCEPT ![c] = @ - 1]
  BY <1>2 DEF CountDown, Caller
<1>4. InQueue' = InQueue
  BY <1>1 DEF InQueue
<1>5. w \in Holding /\ Holding' = Holding \ {w} /\ Running' = Running
  <2>1. w \in Holding /\ Holding' = Holding \ {w}
    BY <1>1 DEF Holding
  <2>2. \A v \in Workers : wpc'[v] = "run" <=> wpc[v] = "run"
    BY <1>1
  <2>3. Running' = Running
    BY <1>1, <2>2 DEF Running
  <2> QED BY <2>1, <2>3
<1>6. <<c, k>> \in Held /\ Held' = Held \ {<<c, k>>} /\ <<c, k>> \notin InQueue
  <2>1. \A v \in Holding : item[v] = item[w] => v = w
    BY <1>5 DEF Inv, CounterExact
  <2>2. <<c, k>> \in Held
    BY <1>2, <1>5 DEF Held
  <2>3. Held' = Held \ {<<c, k>>}
    BY <1>1, <1>2, <1>5, <2>1 DEF Held
  <2> QED BY <2>2, <2>3 DEF Inv, CounterExact
<1>7. k \in 1 .. size[c] /\ k <= pushed[c]
  <2>1. k <= pushed[c]
    BY <1>6 DEF Inv, PlacedArePushed
  <2>2. pushed[c] \in Nat /\ size[c] \in Nat /\ pushed[c] <= size[c]
    BY DEF Inv, TypeOK, Progress
  <2> QED BY <2>1, <2>2
<1>8. k \in Pending(c) /\ Pending(c)' = Pending(c) \ {k}
  <2>1. k \in Pending(c)
    BY <1>6, <1>7 DEF Pending
  <2>2. ASSUME NEW i \in 1 .. size[c]
        PROVE  i > pushed[c] \/ <<c, i>> \in InQueue \cup Held'
                 <=> i # k /\ (i > pushed[c] \/ <<c, i>> \in InQueue \cup Held)
    <3>1. pushed[c] \in Nat
      BY DEF Inv, TypeOK
    <3>2. CASE i = k
      BY <1>6, <1>7, <3>1, <3>2
    <3>3. CASE i # k
      BY <1>6, <3>3
    <3> QED BY <3>2, <3>3
  <2> QED BY <1>1, <1>4, <2>1, <2>2 DEF Pending
<1>9. \A d \in Callers : d # c => Pending(d)' = Pending(d)
  BY <1>1, <1>4, <1>6 DEF Pending
<1>10. /\ remaining[c] = Cardinality(Pending(c)) /\ remaining[c] \in 1 .. MaxBatch
       /\ remaining[c] - 1 = Cardinality(Pending(c)')
  <2>1. IsFiniteSet(Pending(c))
    BY PendingFinite DEF Inv
  <2>2. remaining[c] = Cardinality(Pending(c)) /\ remaining[c] \in 0 .. MaxBatch
    BY DEF Inv, CounterExact, TypeOK
  <2>3. Cardinality(Pending(c) \ {k}) = Cardinality(Pending(c)) - 1
    BY <1>8, <2>1, FS_RemoveElement
  <2>4. Pending(c) # {}
    BY <1>8
  <2>5. Cardinality(Pending(c)) # 0
    BY <2>1, <2>4, FS_EmptySet
  <2> QED BY <1>8, <2>2, <2>3, <2>5, PoolAssumption
<1>11. TypeOK'
  <2>1. remaining' \in [Callers -> 0 .. MaxBatch]
    BY <1>3, <1>10, PoolAssumption DEF Inv, TypeOK
  <2>2. /\ wpc' \in [Workers -> {"absent", "fetch", "wait_item", "run", "count", "notify",
                                 "signal", "release", "stuck", "exited"}]
        /\ \A v \in Workers : wpc'[v] \in {"run", "count", "notify", "signal", "release"}
             => item'[v] \in Items
    BY <1>1 DEF Inv, TypeOK, CountDown
  <2> QED BY <1>1, <2>1, <2>2 DEF Inv, TypeOK, CountDown
<1>12. Progress'
  <2>1. \A d \in Callers : remaining[d] = 0 => remaining'[d] = 0
    BY <1>3, <1>10 DEF Inv, TypeOK
  <2> QED BY <1>1, <2>1 DEF Inv, Progress
<1>13. PlacedArePushed'
  BY <1>1, <1>4, <1>6 DEF Inv, PlacedArePushed
<1>14. CounterExact'
  <2>1. \A d \in Callers : remaining'[d] = Cardinality(Pending(d)')
    BY <1>3, <1>9, <1>10 DEF Inv, TypeOK, CounterExact
  <2> QED BY <1>1, <1>4, <1>5, <1>6, <2>1 DEF Inv, CounterExact
<1>15. WrittenOnce'
  BY <1>1, <1>4, <1>5 DEF Inv, WrittenOnce
<1> QED BY <1>11, <1>12, <1>13, <1>14, <1>15 DEF Inv

-----------------------------------------------------------------------------
(* The theorems.                                                           *)

LEMMA NextInv == Inv /\ [Next]_vars => Inv'
<1> SUFFICES ASSUME Inv, [Next]_vars PROVE Inv'
  OBVIOUS
<1>1. CASE \E c \in Callers, n \in 0 .. MaxBatch : Start(c, n)
  BY <1>1, StartInv
<1>2. CASE \E c \in Callers : CallerStep(c)
  BY <1>2, PushInv, CallerMovesInv DEF CallerStep
<1>3. CASE \E w \in Workers : WorkerStep(w)
  BY <1>3, DequeueInv, ExecuteInv, CountDownInv, WorkerMovesInv DEF WorkerStep
<1>4. CASE WakeSpuriously \/ Shutdown \/ Free \/ UNCHANGED vars
  BY <1>4, PoolMovesInv
<1> QED BY <1>1, <1>2, <1>3, <1>4 DEF Next, Terminated

THEOREM Invariance == Spec => []Inv
  BY InitInv, NextInv, PTL DEF Spec

(***************************************************************************)
(* Type correctness; the queue never exceeds its capacity and the counter  *)
(* of a tracker never goes below zero.                                     *)
(***************************************************************************)
THEOREM TypeCorrect == Spec => []TypeOK
<1>1. Inv => TypeOK
  BY DEF Inv
<1> QED BY <1>1, Invariance, PTL

(***************************************************************************)
(* tracker.remaining is the number of items of the batch still to do, and  *)
(* each of these is in one place only.                                     *)
(***************************************************************************)
THEOREM CounterIsExact == Spec => []CounterExact
<1>1. Inv => CounterExact
  BY DEF Inv
<1> QED BY <1>1, Invariance, PTL

(* A caller that has seen the counter at 0 has all its outputs. *)
LEMMA ZeroIsComplete == Inv => BatchComplete
<1> SUFFICES ASSUME Inv, NEW c \in Callers, cpc[c] \in {"unlock", "destroy", "returned"},
                    NEW i \in 1 .. size[c]
             PROVE  written[<<c, i>>] = 1
  BY DEF BatchComplete, Batch
<1>1. remaining[c] = 0 /\ pushed[c] = size[c]
  BY DEF Inv, Progress
<1>2. Pending(c) = {}
  <2>1. IsFiniteSet(Pending(c)) /\ Cardinality(Pending(c)) = 0
    BY <1>1, PendingFinite DEF Inv, CounterExact
  <2> QED BY <2>1, FS_EmptySet
<1>3. <<c, i>> \notin InQueue \cup Held
  BY <1>2 DEF Pending
<1>4. <<c, i>> \notin Running
  BY <1>3 DEF Running, Held, Holding
<1>5. i \in 1 .. MaxBatch /\ i <= pushed[c]
  BY <1>1, PoolAssumption DEF Inv, TypeOK
<1> QED BY <1>3, <1>4, <1>5 DEF Inv, WrittenOnce

(***************************************************************************)
(* A caller of pool_run returns only after every output slot of its batch  *)
(* was written, exactly once.                                              *)
(***************************************************************************)
THEOREM BatchIsComplete == Spec => []BatchComplete
BY ZeroIsComplete, Invariance, PTL

(* An item in the pool belongs to a call that has not seen its counter at 0. *)
LEMMA PlacedIsOpen ==
  ASSUME Inv, NEW it \in InQueue \cup Held
  PROVE  /\ it \in Items /\ it[1] \in Callers /\ it[2] \in 1 .. size[it[1]]
         /\ cpc[it[1]] \notin {"idle", "unlock", "destroy", "returned"}
<1>1. it \in Items
  BY DEF Inv, TypeOK, InQueue, Held, Holding
<1>2. PICK c \in Callers, i \in 1 .. MaxBatch : it = <<c, i>>
  BY <1>1 DEF Items
<1>3. i <= pushed[c] /\ pushed[c] <= size[c] /\ pushed[c] \in Nat /\ size[c] \in Nat
  BY <1>2 DEF Inv, TypeOK, Progress, PlacedArePushed
<1>4. i \in Pending(c)
  BY <1>2, <1>3 DEF Pending
<1>5. remaining[c] # 0
  <2>1. IsFiniteSet(Pending(c)) /\ remaining[c] = Cardinality(Pending(c))
    BY PendingFinite DEF Inv, CounterExact
  <2> QED BY <1>4, <2>1, FS_EmptySet
<1>6. cpc[c] \notin {"idle", "unlock", "destroy", "returned"}
  BY <1>3, <1>5 DEF Inv, Progress
<1> QED BY <1>1, <1>2, <1>3, <1>6

(***************************************************************************)
(* The counter a worker decrements always belongs to a tracker that its    *)
(* caller has not destroyed.                                               *)
(***************************************************************************)
AliveWhileOpen ==
  \A c \in Callers : cpc[c] \notin {"idle", "returned"} => alive[c]

LEMMA AliveNext == Inv /\ AliveWhileOpen /\ [Next]_vars => AliveWhileOpen'
<1> SUFFICES ASSUME Inv, AliveWhileOpen, [Next]_vars PROVE AliveWhileOpen'
  OBVIOUS
<1> USE DEF Inv, TypeOK, AliveWhileOpen, poolVars, callerVars, trackerVars
<1>1. ASSUME NEW c \in Callers, NEW n \in 0 .. MaxBatch, Start(c, n) PROVE AliveWhileOpen'
  BY <1>1 DEF Start
<1>2. ASSUME NEW c \in Callers, CallerStep(c) PROVE AliveWhileOpen'
  BY <1>2 DEF CallerStep, Push, WaitForSpace, LockTracker, TestRemaining, Sleep,
              UnlockTracker, DestroyTracker
<1>3. ASSUME NEW w \in Workers, WorkerStep(w) PROVE AliveWhileOpen'
  <2>1. CASE Dequeue(w)
    BY <2>1 DEF Dequeue, SignalNotFull, Blocked
  <2>2. CASE SignalDone(w)
    BY <2>2 DEF SignalDone
  <2>3. CASE ~Dequeue(w) /\ ~SignalDone(w)
    BY <1>3, <2>3 DEF WorkerStep, WaitForItem, Exit, Execute, CountDown, LockToNotify,
                      Release, TouchDestroyed
  <2> QED BY <2>1, <2>2, <2>3
<1>4. CASE WakeSpuriously \/ Shutdown \/ Free \/ UNCHANGED vars
  BY <1>4 DEF WakeSpuriously, AfterWait, Shutdown, Free, vars
<1> QED BY <1>1, <1>2, <1>3, <1>4 DEF Next, Terminated

THEOREM CounterIsAlive == Spec => []CounterAlive
<1>1. Init => AliveWhileOpen
  BY DEF Init, AliveWhileOpen
<1>2. Inv /\ AliveWhileOpen => CounterAlive
  BY PlacedIsOpen DEF CounterAlive, AliveWhileOpen
<1> QED BY <1>1, <1>2, Invariance, AliveNext, PTL DEF Spec

-----------------------------------------------------------------------------
(* The queue: not_empty and not_full.                                      *)

Fetching == {w \in Workers : wpc[w] = "fetch"}
Pushing  == {c \in Callers : cpc[c] = "push"}

LEMMA Sizes ==
  ASSUME NEW U, IsFiniteSet(U), NEW T \in SUBSET U
  PROVE  /\ IsFiniteSet(T) /\ Cardinality(T) \in Nat
         /\ \A S \in SUBSET T : Cardinality(S) \in Nat /\ Cardinality(S) <= Cardinality(T)
         /\ \A x \in T : Cardinality(T \ {x}) = Cardinality(T) - 1
<1>1. IsFiniteSet(T)
  BY FS_Subset
<1>2. \A S \in SUBSET T : IsFiniteSet(S) /\ Cardinality(S) <= Cardinality(T)
  BY <1>1, FS_Subset
<1>3. \A x \in T : Cardinality(T \ {x}) = Cardinality(T) - 1
  BY <1>1, FS_RemoveElement
<1> QED BY <1>1, <1>2, <1>3, FS_CardinalityType

LEMMA QueueLength ==
  ASSUME TypeOK
  PROVE  Len(queue) \in Nat /\ QueueCapacity \in Nat /\ Len(queue) <= QueueCapacity
<1>1. queue \in Seq(Items) /\ Len(queue) <= QueueCapacity
  BY DEF TypeOK
<1> QED BY <1>1, LenProperties, PoolAssumption

(***************************************************************************)
(* A step that takes nobody from the fetchers, sends nobody to wait and    *)
(* leaves the queue alone keeps EveryItemFetched; likewise for the callers *)
(* that push and EverySlotFilled.                                          *)
(***************************************************************************)
LEMMA MoreFetching ==
  ASSUME TypeOK, EveryItemFetched,
         Fetching \subseteq Fetching', Idle' \subseteq Idle, queue' = queue
  PROVE  EveryItemFetched'
<1>1. Fetching' \in SUBSET Workers
  BY DEF Fetching
<1>2. /\ Cardinality(Fetching) \in Nat /\ Cardinality(Fetching') \in Nat
      /\ Cardinality(Fetching) <= Cardinality(Fetching')
  BY <1>1, Sizes, PoolAssumption
<1> QED BY <1>2, QueueLength DEF EveryItemFetched, Fetching

LEMMA MorePushing ==
  ASSUME TypeOK, EverySlotFilled,
         Pushing \subseteq Pushing', Blocked' \subseteq Blocked, queue' = queue
  PROVE  EverySlotFilled'
<1>1. Pushing' \in SUBSET Callers
  BY DEF Pushing
<1>2. /\ Cardinality(Pushing) \in Nat /\ Cardinality(Pushing') \in Nat
      /\ Cardinality(Pushing) <= Cardinality(Pushing')
  BY <1>1, Sizes, PoolAssumption
<1> QED BY <1>2, QueueLength DEF EverySlotFilled, Pushing

(* queue_push adds an item and wakes a worker, if one waits. *)
LEMMA PushWakes ==
  ASSUME TypeOK, EveryItemFetched, EverySlotFilled, NEW c \in Callers, Push(c)
  PROVE  EveryItemFetched' /\ EverySlotFilled'
<1>1. /\ queue \in Seq(Items) /\ Len(queue') = Len(queue) + 1 /\ Len(queue) \in Nat
      /\ QueueCapacity \in Nat
  <2>1. queue \in Seq(Items) /\ queue' = Append(queue, <<c, pushed[c] + 1>>)
    BY DEF Push, TypeOK
  <2> QED BY <2>1, QueueLength
<1>2. EveryItemFetched'
  <2>1. CASE Idle = {}
    <3>1. wpc' = wpc
      BY <2>1 DEF Push, SignalNotEmpty
    <3> QED BY <2>1, <3>1 DEF EveryItemFetched, Idle
  <2>2. CASE Idle # {}
    <3>1. PICK w \in Idle : wpc' = [wpc EXCEPT ![w] = "fetch"]
      BY <2>2 DEF Push, SignalNotEmpty
    <3>2. Fetching' \in SUBSET Workers /\ w \in Fetching' /\ Fetching' \ {w} = Fetching
      BY <3>1 DEF Fetching, Idle, TypeOK
    <3>3. /\ Cardinality(Fetching') \in Nat
          /\ Cardinality(Fetching) = Cardinality(Fetching') - 1
      BY <3>2, Sizes, PoolAssumption
    <3>4. Cardinality(Fetching) >= Len(queue)
      BY <2>2 DEF EveryItemFetched, Fetching
    <3>5. Cardinality(Fetching') >= Len(queue')
      BY <1>1, <3>3, <3>4
    <3> QED BY <3>5 DEF EveryItemFetched, Fetching
  <2> QED BY <2>1, <2>2
<1>3. EverySlotFilled'
  <2> SUFFICES ASSUME Blocked' # {}
               PROVE  Cardinality(Pushing') >= QueueCapacity - Len(queue')
    BY DEF EverySlotFilled, Pushing
  <2>1. cpc[c] = "push" /\ \A d \in Callers : d # c => cpc'[d] = cpc[d]
    BY DEF Push, TypeOK
  <2>2. cpc'[c] # "wait_space"
    BY DEF Push, TypeOK
  <2>3. Blocked # {}
    BY <2>1, <2>2 DEF Blocked
  <2>4. Cardinality(Pushing) >= QueueCapacity - Len(queue)
    BY <2>3 DEF EverySlotFilled, Pushing
  <2>5. Pushing \in SUBSET Callers /\ c \in Pushing
    BY <2>1 DEF Pushing
  <2>6. Cardinality(Pushing) \in Nat /\ Cardinality(Pushing \ {c}) = Cardinality(Pushing) - 1
    BY <2>5, Sizes, PoolAssumption
  <2>7. Pushing' \in SUBSET Callers /\ Pushing \ {c} \in SUBSET Pushing'
    BY <2>1 DEF Pushing
  <2>8. /\ Cardinality(Pushing') \in Nat
        /\ Cardinality(Pushing \ {c}) <= Cardinality(Pushing')
    BY <2>7, Sizes, PoolAssumption
  <2> QED BY <1>1, <2>4, <2>6, <2>8
<1> QED BY <1>2, <1>3

(* queue_pop takes an item and wakes a caller, if one waits. *)
LEMMA DequeueWakes ==
  ASSUME TypeOK, EveryItemFetched, EverySlotFilled, NEW w \in Workers, Dequeue(w)
  PROVE  EveryItemFetched' /\ EverySlotFilled'
<1>1. /\ queue \in Seq(Items) /\ Len(queue') = Len(queue) - 1 /\ Len(queue) \in Nat
      /\ QueueCapacity \in Nat
  <2>1. queue \in Seq(Items) /\ queue # <<>> /\ queue' = Tail(queue)
    BY DEF Dequeue, Remainder, TypeOK
  <2> QED BY <2>1, QueueLength
<1>2. EveryItemFetched'
  <2> SUFFICES ASSUME Idle' # {} PROVE Cardinality(Fetching') >= Len(queue')
    BY DEF EveryItemFetched, Fetching
  <2>1. wpc[w] = "fetch" /\ wpc' = [wpc EXCEPT ![w] = "run"]
    BY DEF Dequeue
  <2>2. Idle # {} /\ Fetching \in SUBSET Workers /\ w \in Fetching /\ Fetching' = Fetching \ {w}
    BY <2>1 DEF Idle, Fetching, TypeOK
  <2>3. /\ Cardinality(Fetching) \in Nat
        /\ Cardinality(Fetching') = Cardinality(Fetching) - 1
    BY <2>2, Sizes, PoolAssumption
  <2>4. Cardinality(Fetching) >= Len(queue)
    BY <2>2 DEF EveryItemFetched, Fetching
  <2> QED BY <1>1, <2>3, <2>4
<1>3. EverySlotFilled'
  <2> SUFFICES ASSUME Blocked' # {}
               PROVE  Cardinality(Pushing') >= QueueCapacity - Len(queue')
    BY DEF EverySlotFilled, Pushing
  <2>1. Blocked # {}
    BY DEF Dequeue, SignalNotFull, Blocked, TypeOK
  <2>2. PICK c \in Blocked : cpc' = [cpc EXCEPT ![c] = "push"]
    BY <2>1 DEF Dequeue, SignalNotFull
  <2>3. Pushing' \in SUBSET Callers /\ c \in Pushing' /\ Pushing' \ {c} = Pushing
    BY <2>2 DEF Blocked, Pushing, TypeOK
  <2>4. /\ Cardinality(Pushing') \in Nat
        /\ Cardinality(Pushing) = Cardinality(Pushing') - 1
    BY <2>3, Sizes, PoolAssumption
  <2>5. Cardinality(Pushing) >= QueueCapacity - Len(queue)
    BY <2>1 DEF EverySlotFilled, Pushing
  <2> QED BY <1>1, <2>4, <2>5
<1> QED BY <1>2, <1>3

(* A worker or a caller that goes to wait finds the queue empty or full. *)
LEMMA WaitWakes ==
  ASSUME TypeOK, EveryItemFetched, EverySlotFilled,
         \/ \E w \in Workers : WaitForItem(w) \/ Exit(w)
         \/ \E c \in Callers : WaitForSpace(c)
  PROVE  EveryItemFetched' /\ EverySlotFilled'
<1>1. CASE \E w \in Workers : WaitForItem(w) \/ Exit(w)
  <2>1. queue = <<>> /\ queue' = queue /\ cpc' = cpc
    BY <1>1 DEF WaitForItem, Exit, callerVars
  <2>2. Len(queue') = 0
    BY <2>1
  <2>3. Fetching' \in SUBSET Workers
    BY DEF Fetching
  <2>4. Cardinality(Fetching') \in Nat
    BY <2>3, Sizes, PoolAssumption
  <2>5. EveryItemFetched'
    BY <2>2, <2>4 DEF EveryItemFetched, Fetching
  <2> QED BY <2>1, <2>5 DEF EverySlotFilled, Blocked
<1>2. CASE \E c \in Callers : WaitForSpace(c)
  <2>1. Len(queue) = QueueCapacity /\ queue' = queue /\ wpc' = wpc
    BY <1>2 DEF WaitForSpace, Full, poolVars
  <2>2. Pushing' \in SUBSET Callers
    BY DEF Pushing
  <2>3. Cardinality(Pushing') \in Nat
    BY <2>2, Sizes, PoolAssumption
  <2>4. EverySlotFilled'
    BY <2>1, <2>3, QueueLength DEF EverySlotFilled, Pushing
  <2> QED BY <2>1, <2>4 DEF EveryItemFetched, Idle
<1> QED BY <1>1, <1>2

(* Every other step leaves the queue alone and takes nobody from those on  *)
(* the way to it.                                                          *)
LEMMA OthersWake ==
  ASSUME TypeOK, EveryItemFetched, EverySlotFilled, queue' = queue,
         \A w \in Workers : wpc'[w] # wpc[w] => wpc[w] # "fetch" /\ wpc'[w] # "wait_item",
         \A c \in Callers : cpc'[c] # cpc[c] => cpc[c] # "push" /\ cpc'[c] # "wait_space"
  PROVE  EveryItemFetched' /\ EverySlotFilled'
<1>1. Fetching \subseteq Fetching' /\ Idle' \subseteq Idle
  BY DEF Fetching, Idle
<1>2. Pushing \subseteq Pushing' /\ Blocked' \subseteq Blocked
  BY DEF Pushing, Blocked
<1> QED BY <1>1, <1>2, MoreFetching, MorePushing

LEMMA QueueWakesNext ==
  TypeOK /\ EveryItemFetched /\ EverySlotFilled /\ [Next]_vars
    => EveryItemFetched' /\ EverySlotFilled'
<1> SUFFICES ASSUME TypeOK, EveryItemFetched, EverySlotFilled, [Next]_vars
             PROVE  EveryItemFetched' /\ EverySlotFilled'
  OBVIOUS
<1>1. CASE \E c \in Callers, n \in 0 .. MaxBatch : Start(c, n)
  BY <1>1, OthersWake DEF Start, poolVars, TypeOK
<1>2. ASSUME NEW c \in Callers, CallerStep(c) PROVE EveryItemFetched' /\ EverySlotFilled'
  <2>1. CASE Push(c)
    BY <2>1, PushWakes
  <2>2. CASE WaitForSpace(c)
    BY <2>2, WaitWakes
  <2>3. CASE LockTracker(c) \/ TestRemaining(c) \/ Sleep(c) \/ UnlockTracker(c) \/ DestroyTracker(c)
    BY <2>3, OthersWake
       DEF LockTracker, TestRemaining, Sleep, UnlockTracker, DestroyTracker, poolVars, TypeOK
  <2> QED BY <1>2, <2>1, <2>2, <2>3 DEF CallerStep
<1>3. ASSUME NEW w \in Workers, WorkerStep(w) PROVE EveryItemFetched' /\ EverySlotFilled'
  <2>1. CASE Dequeue(w)
    BY <2>1, DequeueWakes
  <2>2. CASE WaitForItem(w) \/ Exit(w)
    BY <2>2, WaitWakes
  <2>3. CASE Execute(w) \/ CountDown(w) \/ LockToNotify(w) \/ Release(w) \/ TouchDestroyed(w)
    BY <2>3, OthersWake
       DEF Execute, CountDown, LockToNotify, Release, TouchDestroyed, callerVars, TypeOK
  <2>4. CASE SignalDone(w)
    BY <2>4, OthersWake DEF SignalDone, TypeOK
  <2> QED BY <1>3, <2>1, <2>2, <2>3, <2>4 DEF WorkerStep
<1>4. CASE WakeSpuriously
  BY <1>4, OthersWake DEF WakeSpuriously, AfterWait, Idle, callerVars, poolVars, TypeOK
<1>5. CASE Shutdown \/ Free \/ UNCHANGED vars
  BY <1>5, OthersWake DEF Shutdown, Woken, Free, vars, callerVars, poolVars, Idle, TypeOK
<1> QED BY <1>1, <1>2, <1>3, <1>4, <1>5 DEF Next, Terminated

LEMMA QueueWakes == Spec => [](EveryItemFetched /\ EverySlotFilled)
<1>1. Init => EveryItemFetched /\ EverySlotFilled
  BY DEF Init, EveryItemFetched, EverySlotFilled, Idle, Blocked
<1> QED BY <1>1, QueueWakesNext, TypeCorrect, PTL DEF Spec

(***************************************************************************)
(* While a worker waits for an item, every queued item has a worker on the *)
(* way to fetch it: signalling not_empty once per push is enough.          *)
(***************************************************************************)
THEOREM ItemsAreFetched == Spec => []EveryItemFetched
BY QueueWakes, PTL

(***************************************************************************)
(* While a caller waits for space, every free slot has a caller on the way *)
(* to fill it: signalling not_full once per pop is enough.                 *)
(***************************************************************************)
THEOREM SlotsAreFilled == Spec => []EverySlotFilled
BY QueueWakes, PTL

-----------------------------------------------------------------------------
(* The tracker: done_cv.                                                   *)

(* Whoever is inside a section of the tracker's mutex owns it, as long as  *)
(* the mutex exists.                                                       *)
OwnerInside ==
  /\ \A c \in Callers : cpc[c] \in {"test", "sleep", "unlock"} => holder[c] = c
  /\ \A w \in Workers : wpc[w] \in {"signal", "release"} /\ alive[Caller(w)]
       => holder[Caller(w)] = w

(* An item that a worker has, or had last, was pushed: no worker can still *)
(* hold an item of a call that has only begun.                             *)
TakenArePushed ==
  \A w \in Workers : item[w] \in Items => item[w][2] <= pushed[item[w][1]]

TrackerInv == AliveWhileOpen /\ TakenArePushed /\ OwnerInside /\ SleeperNotified

LEMMA TrackerInit == Init => TrackerInv
BY DEF Init, TrackerInv, AliveWhileOpen, TakenArePushed, OwnerInside, SleeperNotified, Items

(* A worker that is not waiting has an item of some caller. *)
LEMMA CallerOf ==
  ASSUME TypeOK, NEW w \in Workers,
         wpc[w] \in {"run", "count", "notify", "signal", "release"}
  PROVE  /\ item[w] \in Items /\ Caller(w) \in Callers
         /\ item[w][2] \in 1 .. MaxBatch
BY DEF TypeOK, Items, Caller

LEMMA TakenNext == Inv /\ TakenArePushed /\ [Next]_vars => TakenArePushed'
<1> SUFFICES ASSUME Inv, TakenArePushed, [Next]_vars PROVE TakenArePushed'
  OBVIOUS
<1>1. CASE item' = item
  <2>1. \A c \in Callers : pushed[c] \in Nat /\ pushed'[c] \in Nat /\ pushed[c] <= pushed'[c]
    <3>1. CASE pushed' = pushed
      BY <3>1 DEF Inv, TypeOK
    <3>2. CASE \E c \in Callers : Push(c)
      BY <3>2 DEF Inv, TypeOK, Push
    <3>3. pushed' = pushed \/ \E c \in Callers : Push(c)
      BY DEF Next, Start, CallerStep, WaitForSpace, LockTracker, TestRemaining, Sleep,
             UnlockTracker, DestroyTracker, WorkerStep, WaitForItem, Exit, Dequeue, Execute,
             CountDown, LockToNotify, SignalDone, Release, TouchDestroyed, WakeSpuriously,
             Shutdown, Free, Terminated, vars, callerVars, poolVars, trackerVars
    <3> QED BY <3>1, <3>2, <3>3
  <2> QED BY <1>1, <2>1 DEF TakenArePushed, Items
<1>2. CASE \E w \in Workers : Dequeue(w)
  <2>1. PICK w \in Workers : Dequeue(w)
    BY <1>2
  <2>2. /\ queue \in Seq(Items) /\ queue # <<>> /\ pushed' = pushed
        /\ item' = [item EXCEPT ![w] = Head(queue)]
    BY <2>1 DEF Dequeue, Inv, TypeOK
  <2>3. Head(queue) = queue[1] /\ 1 \in 1 .. Len(queue)
    BY <2>2, HeadTailProperties, LenProperties, EmptySeq
  <2>4. Head(queue)[2] <= pushed[Head(queue)[1]]
    BY <2>3 DEF Inv, PlacedArePushed, InQueue
  <2> QED BY <2>2, <2>4 DEF TakenArePushed, Inv, TypeOK
<1>3. item' = item \/ \E w \in Workers : Dequeue(w)
  BY DEF Next, Start, CallerStep, Push, WaitForSpace, LockTracker, TestRemaining, Sleep,
         UnlockTracker, DestroyTracker, WorkerStep, WaitForItem, Exit, Execute, CountDown,
         LockToNotify, SignalDone, Release, TouchDestroyed, WakeSpuriously, Shutdown, Free,
         Terminated, vars, callerVars, poolVars, trackerVars
<1> QED BY <1>1, <1>2, <1>3

LEMMA TrackerStart ==
  ASSUME Inv, TrackerInv, NEW c \in Callers, NEW n \in 0 .. MaxBatch, Start(c, n)
  PROVE  OwnerInside' /\ SleeperNotified'
<1>1. /\ cpc[c] = "idle" /\ pushed[c] = 0 /\ cpc'[c] \in {"lock", "push"}
      /\ \A d \in Callers : d # c => cpc'[d] = cpc[d] /\ remaining'[d] = remaining[d]
                                     /\ alive'[d] = alive[d]
      /\ UNCHANGED <<wpc, item, holder>>
  BY DEF Start, poolVars, Inv, Progress, TypeOK
<1>2. \A w \in Workers : wpc[w] \in {"signal", "release"} => Caller(w) \in Callers \ {c}
  BY <1>1, CallerOf DEF TrackerInv, TakenArePushed, Inv, Caller
<1>3. OwnerInside'
  BY <1>1, <1>2 DEF OwnerInside, TrackerInv, Caller
<1>4. SleeperNotified'
  BY <1>1 DEF SleeperNotified, TrackerInv, Caller
<1> QED BY <1>3, <1>4

(* The steps of a caller on its own tracker. *)
LEMMA TrackerCaller ==
  ASSUME Inv, TrackerInv, NEW c \in Callers, CallerStep(c)
  PROVE  OwnerInside' /\ SleeperNotified'
<1>1. \A d \in Callers : d # c => cpc'[d] = cpc[d] /\ holder'[d] = holder[d] /\ alive'[d] = alive[d]
  BY DEF CallerStep, Push, WaitForSpace, LockTracker, TestRemaining, Sleep, UnlockTracker,
         DestroyTracker, trackerVars, Inv, TypeOK
<1>2. item' = item /\ remaining' = remaining
  BY DEF CallerStep, Push, WaitForSpace, LockTracker, TestRemaining, Sleep, UnlockTracker,
         DestroyTracker, trackerVars, poolVars
<1>3. \A w \in Workers, p \in {"notify", "signal", "release"} : wpc'[w] = p <=> wpc[w] = p
  BY DEF CallerStep, Push, SignalNotEmpty, Idle, WaitForSpace, LockTracker, TestRemaining,
         Sleep, UnlockTracker, DestroyTracker, poolVars, Inv, TypeOK
<1>4. \A w \in Workers : wpc[w] \in {"signal", "release"} => Caller(w) \in Callers
  BY CallerOf DEF Inv
<1>5. OwnerInside'
  <2>1. cpc'[c] \in {"test", "sleep", "unlock"} => holder'[c] = c
    BY DEF CallerStep, Push, WaitForSpace, LockTracker, TestRemaining, Sleep, UnlockTracker,
           DestroyTracker, trackerVars, Inv, TypeOK, TrackerInv, OwnerInside
  <2>2. ASSUME NEW w \in Workers, wpc[w] \in {"signal", "release"}, Caller(w) = c, alive'[c]
        PROVE  holder'[c] = w
    <3>1. alive[c] => holder[c] = w
      BY <2>2 DEF TrackerInv, OwnerInside
    <3>2. alive[c]
      BY <2>2 DEF CallerStep, Push, WaitForSpace, LockTracker, TestRemaining, Sleep,
                  UnlockTracker, DestroyTracker, trackerVars, Inv, TypeOK
    <3>3. w # c /\ w # None
      BY <2>2, PoolAssumption
    <3>4. holder'[c] = holder[c]
      BY <3>1, <3>2, <3>3
         DEF CallerStep, Push, WaitForSpace, LockTracker, TestRemaining, Sleep, UnlockTracker,
             DestroyTracker, trackerVars, TrackerInv, OwnerInside
    <3> QED BY <3>1, <3>2, <3>4
  <2> QED BY <1>1, <1>2, <1>3, <1>4, <2>1, <2>2 DEF OwnerInside, TrackerInv, Caller
<1>6. SleeperNotified'
  <2> SUFFICES ASSUME NEW d \in Callers, cpc'[d] \in {"sleep", "wait_done"}, remaining[d] = 0
               PROVE  \E w \in Workers :
                        /\ wpc'[w] = "notify" \/ (wpc'[w] = "signal" /\ cpc'[d] = "wait_done")
                        /\ item[w][1] = d
    BY <1>2 DEF SleeperNotified, Caller
  <2>1. cpc[d] \in {"sleep", "wait_done"} /\ (cpc[d] = "wait_done" => cpc'[d] = "wait_done")
    BY <1>1 DEF CallerStep, Push, WaitForSpace, LockTracker, TestRemaining, MoreToDo, Sleep,
                UnlockTracker, DestroyTracker, Inv, TypeOK
  <2>2. PICK w \in Workers :
          /\ wpc[w] = "notify" \/ (wpc[w] = "signal" /\ cpc[d] = "wait_done")
          /\ item[w][1] = d
    BY <2>1 DEF TrackerInv, SleeperNotified, Caller
  <2> QED BY <1>3, <2>1, <2>2
<1> QED BY <1>5, <1>6

(* The steps of a worker that do not touch the mutex. *)
LEMMA TrackerWorker ==
  ASSUME Inv, TrackerInv, NEW w \in Workers,
         \/ WaitForItem(w) \/ Exit(w) \/ Dequeue(w) \/ Execute(w) \/ CountDown(w)
         \/ TouchDestroyed(w)
  PROVE  OwnerInside' /\ SleeperNotified'
<1>1. \A v \in Workers : v # w => wpc'[v] = wpc[v] /\ item'[v] = item[v]
  BY DEF WaitForItem, Exit, Dequeue, Execute, CountDown, TouchDestroyed, Inv, TypeOK
<1>2. holder' = holder /\ alive' = alive /\ wpc'[w] \notin {"signal", "release"}
  BY DEF WaitForItem, Exit, Dequeue, Execute, CountDown, TouchDestroyed, Inv, TypeOK, trackerVars
<1>3. \A c \in Callers : cpc'[c] # cpc[c] => cpc[c] = "wait_space" /\ cpc'[c] = "push"
  BY DEF WaitForItem, Exit, Dequeue, SignalNotFull, Blocked, Execute, CountDown, TouchDestroyed,
         callerVars, Inv, TypeOK
<1>4. OwnerInside'
  BY <1>1, <1>2, <1>3 DEF OwnerInside, TrackerInv, Caller
<1>5. SleeperNotified'
  <2> SUFFICES ASSUME NEW c \in Callers, cpc'[c] \in {"sleep", "wait_done"}, remaining'[c] = 0
               PROVE  \E v \in Workers :
                        /\ wpc'[v] = "notify" \/ (wpc'[v] = "signal" /\ cpc'[c] = "wait_done")
                        /\ item'[v][1] = c
    BY DEF SleeperNotified, Caller
  <2>1. cpc'[c] = cpc[c]
    BY <1>3
  <2>2. CASE remaining[c] = 0
    <3>1. PICK v \in Workers :
            /\ wpc[v] = "notify" \/ (wpc[v] = "signal" /\ cpc[c] = "wait_done")
            /\ item[v][1] = c
      BY <2>1, <2>2 DEF TrackerInv, SleeperNotified, Caller
    <3>2. v # w
      <4> SUFFICES ASSUME v = w PROVE FALSE
        OBVIOUS
      <4>1. TouchDestroyed(w) /\ ~alive[c]
        BY <3>1 DEF WaitForItem, Exit, Dequeue, Execute, CountDown, TouchDestroyed, Caller
      <4> QED BY <2>1, <4>1 DEF TrackerInv, AliveWhileOpen
    <3> QED BY <1>1, <2>1, <3>1, <3>2
  <2>3. CASE remaining[c] # 0
    <3>1. CountDown(w)
      BY <2>3 DEF WaitForItem, Exit, Dequeue, Execute, TouchDestroyed, trackerVars
    <3>2. /\ remaining' = [remaining EXCEPT ![Caller(w)] = @ - 1]
          /\ remaining \in [Callers -> 0 .. MaxBatch]
      BY <3>1 DEF CountDown, Inv, TypeOK
    <3>3. Caller(w) = c /\ remaining[c] - 1 = 0 /\ remaining[c] \in Int
      BY <2>3, <3>2, PoolAssumption
    <3>4. wpc'[w] = "notify" /\ item'[w][1] = c
      BY <3>1, <3>3 DEF CountDown, Inv, TypeOK, Caller
    <3> QED BY <3>4
  <2> QED BY <2>2, <2>3
<1> QED BY <1>4, <1>5

(* The steps of the last worker of a batch through the mutex. *)
LEMMA TrackerNotify ==
  ASSUME Inv, TrackerInv, NEW w \in Workers,
         LockToNotify(w) \/ SignalDone(w) \/ Release(w)
  PROVE  OwnerInside' /\ SleeperNotified'
<1> DEFINE d == Caller(w)
<1>1. /\ d \in Callers /\ alive[d] /\ item' = item /\ remaining' = remaining /\ alive' = alive
      /\ \A v \in Workers : v # w => wpc'[v] = wpc[v]
      /\ \A c \in Callers : c # d => holder'[c] = holder[c] /\ cpc'[c] = cpc[c]
      /\ \A v \in Workers : wpc[v] \in {"signal", "release"} => Caller(v) \in Callers
      /\ w \notin Callers /\ w # None
  BY CallerOf, PoolAssumption
     DEF LockToNotify, SignalDone, Release, trackerVars, callerVars, Inv, TypeOK
<1> HIDE DEF d
<1>2. CASE LockToNotify(w)
  <2>1. /\ wpc[w] = "notify" /\ wpc'[w] = "signal" /\ holder[d] = None /\ holder'[d] = w
        /\ cpc' = cpc
    BY <1>1, <1>2 DEF LockToNotify, callerVars, Inv, TypeOK, d
  <2>2. cpc[d] \notin {"test", "sleep", "unlock"}
    BY <1>1, <2>1, PoolAssumption DEF TrackerInv, OwnerInside
  <2>3. \A v \in Workers : wpc[v] \in {"signal", "release"} => Caller(v) # d
    BY <1>1, <2>1, PoolAssumption DEF TrackerInv, OwnerInside
  <2>4. OwnerInside'
    <3>1. \A c \in Callers : cpc[c] \in {"test", "sleep", "unlock"} => holder'[c] = c
      BY <1>1, <2>2 DEF TrackerInv, OwnerInside
    <3>2. ASSUME NEW v \in Workers, wpc'[v] \in {"signal", "release"}, alive[Caller(v)]
          PROVE  holder'[Caller(v)] = v
      <4>1. CASE v = w
        BY <2>1, <4>1 DEF d
      <4>2. CASE v # w
        BY <1>1, <2>3, <3>2, <4>2 DEF TrackerInv, OwnerInside
      <4> QED BY <4>1, <4>2
    <3> QED BY <1>1, <2>1, <3>1, <3>2 DEF OwnerInside, Caller
  <2>5. SleeperNotified'
    BY <1>1, <2>1, <2>2 DEF SleeperNotified, TrackerInv, Caller, d
  <2> QED BY <2>4, <2>5
<1>3. CASE SignalDone(w)
  <2>1. /\ wpc[w] = "signal" /\ wpc'[w] = "release" /\ holder' = holder
        /\ cpc'[d] # "wait_done"
        /\ cpc'[d] # cpc[d] => cpc'[d] = "lock"
    BY <1>1, <1>3 DEF SignalDone, trackerVars, Inv, TypeOK, d
  <2>2. holder[d] = w
    BY <1>1, <2>1 DEF TrackerInv, OwnerInside, d
  <2>3. cpc[d] # "sleep"
    BY <1>1, <2>2 DEF TrackerInv, OwnerInside
  <2>4. OwnerInside'
    BY <1>1, <2>1 DEF TrackerInv, OwnerInside, Caller, d
  <2>5. SleeperNotified'
    BY <1>1, <2>1, <2>3 DEF SleeperNotified, TrackerInv, Caller, d
  <2> QED BY <2>4, <2>5
<1>4. CASE Release(w)
  <2>1. wpc[w] = "release" /\ wpc'[w] = "fetch" /\ holder'[d] = None /\ cpc' = cpc
    BY <1>1, <1>4 DEF Release, callerVars, Inv, TypeOK, d
  <2>2. holder[d] = w
    BY <1>1, <2>1 DEF TrackerInv, OwnerInside, d
  <2>3. cpc[d] \notin {"test", "sleep", "unlock"}
    BY <1>1, <2>2 DEF TrackerInv, OwnerInside
  <2>4. \A v \in Workers : v # w /\ wpc[v] \in {"signal", "release"} => Caller(v) # d
    BY <1>1, <2>2 DEF TrackerInv, OwnerInside
  <2>5. OwnerInside'
    BY <1>1, <2>1, <2>3, <2>4 DEF TrackerInv, OwnerInside, Caller
  <2>6. SleeperNotified'
    BY <1>1, <2>1 DEF SleeperNotified, TrackerInv, Caller
  <2> QED BY <2>5, <2>6
<1> QED BY <1>2, <1>3, <1>4

LEMMA TrackerNext == Inv /\ TrackerInv /\ [Next]_vars => TrackerInv'
<1> SUFFICES ASSUME Inv, TrackerInv, [Next]_vars PROVE TrackerInv'
  OBVIOUS
<1>1. AliveWhileOpen' /\ TakenArePushed'
  BY AliveNext, TakenNext DEF TrackerInv
<1>2. OwnerInside' /\ SleeperNotified'
  <2>1. CASE \E c \in Callers, n \in 0 .. MaxBatch : Start(c, n)
    BY <2>1, TrackerStart
  <2>2. CASE \E c \in Callers : CallerStep(c)
    BY <2>2, TrackerCaller
  <2>3. CASE \E w \in Workers : WorkerStep(w)
    BY <2>3, TrackerWorker, TrackerNotify DEF WorkerStep
  <2>4. CASE WakeSpuriously \/ Shutdown \/ Free \/ UNCHANGED vars
    <3>1. UNCHANGED <<item, holder, alive, remaining>>
      BY <2>4 DEF WakeSpuriously, Shutdown, Free, vars, poolVars, callerVars, trackerVars
    <3>2. \A w \in Workers, p \in {"notify", "signal", "release"} : wpc'[w] = p <=> wpc[w] = p
      BY <2>4 DEF WakeSpuriously, Shutdown, Woken, Free, vars, poolVars, callerVars, Idle, Inv, TypeOK
    <3>3. \A c \in Callers : cpc'[c] # cpc[c] => cpc'[c] \in {"push", "lock"}
      BY <2>4 DEF WakeSpuriously, AfterWait, Shutdown, Free, vars, poolVars, callerVars, Inv, TypeOK
    <3>4. OwnerInside'
      BY <3>1, <3>2, <3>3 DEF OwnerInside, TrackerInv, Caller
    <3>5. SleeperNotified'
      BY <3>1, <3>2, <3>3 DEF SleeperNotified, TrackerInv, Caller
    <3> QED BY <3>4, <3>5
  <2> QED BY <2>1, <2>2, <2>3, <2>4 DEF Next, Terminated
<1> QED BY <1>1, <1>2 DEF TrackerInv

THEOREM TrackerInvariance == Spec => []TrackerInv
BY TrackerInit, TrackerNext, Invariance, PTL DEF Spec

(***************************************************************************)
(* A caller that sleeps, or has decided to, on a counter that is already 0 *)
(* still has the signal of the last worker ahead of it, although that      *)
(* worker changed the counter without the mutex.                           *)
(***************************************************************************)
THEOREM SleepersAreNotified == Spec => []SleeperNotified
<1>1. TrackerInv => SleeperNotified
  BY DEF TrackerInv
<1> QED BY <1>1, TrackerInvariance, PTL

-----------------------------------------------------------------------------
(* The refinement of BatchService.                                         *)

(* The state of the service, by the names of the mapping. *)
CallState == [c \in Callers |-> Call(c)]
DoneState == [c \in Callers |-> {i \in 1 .. size[c] : written[<<c, i>>] > 0}]

LEMMA ServiceInit == Init => Service!Init
<1> SUFFICES ASSUME Init PROVE Service!Init
  OBVIOUS
<1>1. CallState = [c \in Callers |-> "idle"]
  BY DEF Init, CallState, Call
<1>2. DoneState = [c \in Callers |-> {}]
  BY DEF Init, DoneState
<1>3. size = [c \in Callers |-> 0]
  BY DEF Init
<1> QED BY <1>1, <1>2, <1>3 DEF Service!Init, CallState, DoneState

LEMMA ServiceStutters ==
  ASSUME size' = size, written' = written, \A c \in Callers : Call(c)' = Call(c)
  PROVE  UNCHANGED Service!vars
BY DEF Service!vars, CallState, DoneState

(* pool_run begins: the batch is submitted, and none of it is done. *)
LEMMA StartSubmits ==
  ASSUME Inv, NEW c \in Callers, NEW n \in 0 .. MaxBatch, Start(c, n)
  PROVE  Service!Submit(c)
<1>1. /\ cpc[c] = "idle" /\ cpc'[c] \in {"lock", "push"} /\ pushed[c] = 0 /\ size[c] = 0
      /\ \A d \in Callers : d # c => cpc'[d] = cpc[d]
      /\ size' = [size EXCEPT ![c] = n] /\ written' = written
  BY DEF Start, Inv, Progress, TypeOK
<1>2. CallState[c] = "idle" /\ CallState' = [CallState EXCEPT ![c] = "open"]
  BY <1>1 DEF CallState, Call
<1>3. \A i \in 1 .. MaxBatch : ~(written[<<c, i>>] > 0)
  BY <1>1 DEF Inv, WrittenOnce
<1>4. {i \in 1 .. n : written[<<c, i>>] > 0} = {}
  BY <1>3, PoolAssumption
<1>5. DoneState' = DoneState
  <2>1. ASSUME NEW d \in Callers
        PROVE  {i \in 1 .. size'[d] : written'[<<d, i>>] > 0}
                 = {i \in 1 .. size[d] : written[<<d, i>>] > 0}
    <3>1. CASE d = c
      <4>1. size'[c] = n /\ 1 .. size[c] = {}
        BY <1>1 DEF Inv, TypeOK
      <4> QED BY <1>1, <1>4, <3>1, <4>1
    <3>2. CASE d # c
      BY <1>1, <3>2 DEF Inv, TypeOK
    <3> QED BY <3>1, <3>2
  <2> QED BY <2>1 DEF DoneState
<1> QED BY <1>1, <1>2, <1>5 DEF Service!Submit, CallState, DoneState

(* A worker writes an output slot: one more item of an open batch is done. *)
LEMMA ExecuteDoes ==
  ASSUME Inv, NEW w \in Workers, Execute(w)
  PROVE  \E c \in Callers : \E i \in 1 .. size[c] : Service!Do(c, i)
<1>1. wpc[w] = "run" /\ item[w] \in Held /\ item[w] \in Running
  BY DEF Execute, Held, Holding, Running
<1>2. PICK c \in Callers, i \in 1 .. MaxBatch : item[w] = <<c, i>>
  BY <1>1, PlacedIsOpen DEF Items
<1>3. i \in 1 .. size[c] /\ cpc[c] \notin {"idle", "returned"}
  BY <1>1, <1>2, PlacedIsOpen
<1>4. /\ written \in [Items -> Nat] /\ <<c, i>> \in Items
      /\ written' = [written EXCEPT ![<<c, i>>] = @ + 1]
      /\ size' = size /\ cpc' = cpc
  BY <1>2 DEF Execute, callerVars, Inv, TypeOK, Items
<1>5. written[<<c, i>>] = 0 /\ written'[<<c, i>>] = 1
  <2>1. written[<<c, i>>] = 0
    BY <1>1, <1>2 DEF Inv, WrittenOnce
  <2> QED BY <1>4, <2>1
<1>6. \A d \in Callers, j \in 1 .. MaxBatch :
        <<d, j>> # <<c, i>> => written'[<<d, j>>] = written[<<d, j>>]
  BY <1>4 DEF Items
<1>7. \A d \in Callers : 1 .. size[d] \subseteq 1 .. MaxBatch
  BY PoolAssumption DEF Inv, TypeOK
<1>8. CallState[c] = "open" /\ CallState' = CallState
  BY <1>3, <1>4 DEF CallState, Call
<1>9. i \notin DoneState[c]
  BY <1>5 DEF DoneState
<1>10. DoneState' = [DoneState EXCEPT ![c] = @ \cup {i}]
  <2>1. ASSUME NEW d \in Callers, d # c
        PROVE  {j \in 1 .. size'[d] : written'[<<d, j>>] > 0}
                 = {j \in 1 .. size[d] : written[<<d, j>>] > 0}
    BY <1>4, <1>6, <1>7, <2>1
  <2>2. {j \in 1 .. size'[c] : written'[<<c, j>>] > 0}
          = {j \in 1 .. size[c] : written[<<c, j>>] > 0} \cup {i}
    <3>1. ASSUME NEW j \in 1 .. size[c]
          PROVE  written'[<<c, j>>] > 0 <=> written[<<c, j>>] > 0 \/ j = i
      <4>1. CASE j = i
        BY <1>5, <4>1
      <4>2. CASE j # i
        BY <1>6, <1>7, <4>2
      <4> QED BY <4>1, <4>2
    <3> QED BY <1>3, <1>4, <3>1
  <2> QED BY <2>1, <2>2 DEF DoneState
<1>11. Service!Do(c, i)
  BY <1>4, <1>8, <1>9, <1>10 DEF Service!Do, CallState, DoneState
<1> QED BY <1>3, <1>11

(* pool_run returns: every item of its batch is done. *)
LEMMA DestroyReturnsBatch ==
  ASSUME Inv, NEW c \in Callers, DestroyTracker(c)
  PROVE  Service!Return(c)
<1>1. /\ cpc[c] = "destroy" /\ cpc' = [cpc EXCEPT ![c] = "returned"]
      /\ size' = size /\ written' = written
  BY DEF DestroyTracker
<1>2. \A i \in 1 .. size[c] : written[<<c, i>>] = 1
  BY <1>1, ZeroIsComplete DEF BatchComplete, Batch
<1>3. DoneState[c] = 1 .. size[c] /\ DoneState' = DoneState
  BY <1>1, <1>2 DEF DoneState
<1>4. CallState[c] = "open" /\ CallState' = [CallState EXCEPT ![c] = "returned"]
  BY <1>1 DEF CallState, Call, Inv, TypeOK
<1> QED BY <1>1, <1>3, <1>4 DEF Service!Return, CallState, DoneState

(* Every other step is invisible to a user of the service. *)
LEMMA ServiceStep == Inv /\ [Next]_vars => [Service!Next]_(Service!vars)
<1> SUFFICES ASSUME Inv, [Next]_vars PROVE [Service!Next]_(Service!vars)
  OBVIOUS
<1>1. CASE \E c \in Callers, n \in 0 .. MaxBatch : Start(c, n)
  BY <1>1, StartSubmits DEF Service!Next
<1>2. ASSUME NEW c \in Callers, CallerStep(c) PROVE [Service!Next]_(Service!vars)
  <2>1. CASE DestroyTracker(c)
    BY <2>1, DestroyReturnsBatch DEF Service!Next
  <2>2. CASE ~DestroyTracker(c)
    <3>1. size' = size /\ written' = written
      BY <1>2, <2>2 DEF CallerStep, Push, WaitForSpace, LockTracker, TestRemaining, Sleep,
                        UnlockTracker
    <3>2. \A d \in Callers : Call(d)' = Call(d)
      BY <1>2, <2>2 DEF CallerStep, Push, WaitForSpace, LockTracker, TestRemaining, Sleep,
                        UnlockTracker, Call, Inv, TypeOK
    <3> QED BY <3>1, <3>2, ServiceStutters
  <2> QED BY <2>1, <2>2
<1>3. ASSUME NEW w \in Workers, WorkerStep(w) PROVE [Service!Next]_(Service!vars)
  <2>1. CASE Execute(w)
    BY <2>1, ExecuteDoes DEF Service!Next
  <2>2. CASE ~Execute(w)
    <3>1. size' = size /\ written' = written
      BY <1>3, <2>2 DEF WorkerStep, WaitForItem, Exit, Dequeue, CountDown, LockToNotify,
                        SignalDone, Release, TouchDestroyed, callerVars
    <3>2. \A d \in Callers : Call(d)' = Call(d)
      <4>1. CASE Dequeue(w)
        BY <4>1 DEF Dequeue, SignalNotFull, Blocked, Call, Inv, TypeOK
      <4>2. CASE SignalDone(w)
        BY <4>2 DEF SignalDone, Call, Inv, TypeOK
      <4>3. CASE ~Dequeue(w) /\ ~SignalDone(w)
        BY <1>3, <2>2, <4>3 DEF WorkerStep, WaitForItem, Exit, CountDown, LockToNotify, Release,
                                TouchDestroyed, callerVars, Call
      <4> QED BY <4>1, <4>2, <4>3
    <3> QED BY <3>1, <3>2, ServiceStutters
  <2> QED BY <2>1, <2>2
<1>4. CASE WakeSpuriously \/ Shutdown \/ Free \/ UNCHANGED vars
  <2>1. size' = size /\ written' = written
    BY <1>4 DEF WakeSpuriously, Shutdown, Free, vars, callerVars
  <2>2. \A d \in Callers : Call(d)' = Call(d)
    BY <1>4 DEF WakeSpuriously, AfterWait, Shutdown, Free, vars, callerVars, Call, Inv, TypeOK
  <2> QED BY <2>1, <2>2, ServiceStutters
<1> QED BY <1>1, <1>2, <1>3, <1>4 DEF Next, Terminated

(***************************************************************************)
(* The pool implements the service of parallel.h: whatever the callers,    *)
(* the workers and the queue do, what a caller of pool_run can see is a    *)
(* submitted batch, items done once each, and a return after the last one. *)
(***************************************************************************)
THEOREM PoolRefinesService == Spec => Service!Steps
BY ServiceInit, ServiceStep, Invariance, PTL DEF Spec, Service!Steps
=============================================================================
