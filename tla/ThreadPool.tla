----------------------------- MODULE ThreadPool -----------------------------
(***************************************************************************)
(* The work-queue thread pool of src/threadpool.c: the worker threads, the *)
(* callers of pool_run (several at once: the Python methods release the    *)
(* GIL), the bounded queue between them, the completion tracker on the     *)
(* stack of each caller, and bpe_pool_destroy.                             *)
(*                                                                         *)
(* A section under the queue's mutex is one action: nothing else reads or  *)
(* writes the queue.  The tracker's mutex is explicit, because its counter *)
(* is decremented without it and because its owner destroys it.  A thread  *)
(* in cnd_wait is at a program counter of its own; cnd_signal moves one    *)
(* waiter on, and any waiter may wake without a signal.                    *)
(*                                                                         *)
(* A caller is one call of pool_run.  Item <<c, i>> is the i-th text of    *)
(* the call c.                                                             *)
(***************************************************************************)
EXTENDS Integers, Sequences, FiniteSets

CONSTANTS
  Callers,        \* calls of pool_run
  Workers,        \* threads that bpe_pool_create asks for (nthreads)
  MaxBatch,       \* bound: texts in a batch
  QueueCapacity,  \* QUEUE_CAPACITY
  MinWorkers,     \* thrd_create succeeds for at least this many threads
  LateTouch,      \* outcomes of locking or signalling a destroyed tracker
  None            \* holder of a free mutex

ASSUME PoolAssumption ==
  /\ IsFiniteSet(Callers) /\ IsFiniteSet(Workers)
  /\ MaxBatch \in Nat
  /\ QueueCapacity \in Nat \ {0}
  /\ MinWorkers \in Nat
  /\ LateTouch \subseteq {"error", "stuck"}
  /\ Callers \cap Workers = {}
  /\ None \notin Callers \cup Workers

VARIABLES
  wpc,        \* program counter of each worker
  item,       \* the WorkItem of each worker: <<caller, index>>
  cpc,        \* program counter of each caller
  size,       \* n of each batch
  pushed,     \* items of the batch already queued (the loop's i)
  queue,      \* q->items from head to tail
  shutdown,   \* q->shutdown
  freed,      \* bpe_pool_destroy has freed the pool
  remaining,  \* tracker.remaining
  holder,     \* owner of tracker.mtx
  alive,      \* the tracker is initialised and not yet destroyed
  written     \* how often the output slot of each item was written

poolVars    == <<wpc, item, queue, shutdown, freed>>
callerVars  == <<cpc, size, pushed>>
trackerVars == <<remaining, holder, alive>>
vars        == <<poolVars, callerVars, trackerVars, written>>

Items     == Callers \X (1 .. MaxBatch)
Batch(c)  == {c} \X (1 .. size[c])
Idle      == {w \in Workers : wpc[w] = "wait_item"}
Blocked   == {c \in Callers : cpc[c] = "wait_space"}
Caller(w) == item[w][1]

Init ==
  /\ \E started \in SUBSET Workers :
       /\ Cardinality(started) >= MinWorkers
       /\ wpc = [w \in Workers |-> IF w \in started THEN "fetch" ELSE "absent"]
  /\ item = [w \in Workers |-> <<>>]
  /\ cpc = [c \in Callers |-> "idle"]
  /\ size = [c \in Callers |-> 0]
  /\ pushed = [c \in Callers |-> 0]
  /\ queue = <<>>
  /\ shutdown = FALSE
  /\ freed = FALSE
  /\ remaining = [c \in Callers |-> 0]
  /\ holder = [c \in Callers |-> None]
  /\ alive = [c \in Callers |-> FALSE]
  /\ written = [it \in Items |-> 0]

-----------------------------------------------------------------------------
(* Callers: pool_run.                                                      *)

Start(c, n) ==
  /\ cpc[c] = "idle"
  /\ ~shutdown
  /\ cpc' = [cpc EXCEPT ![c] = IF n = 0 THEN "lock" ELSE "push"]
  /\ size' = [size EXCEPT ![c] = n]
  /\ remaining' = [remaining EXCEPT ![c] = n]
  /\ alive' = [alive EXCEPT ![c] = TRUE]
  /\ UNCHANGED <<pushed, holder, poolVars, written>>

Full_TooLate == Len(queue) > QueueCapacity

Full == Len(queue) = QueueCapacity

(* signals only when the queue was empty *)
SignalNotEmpty_OnlyFirst ==
  IF Idle = {} \/ queue # <<>> THEN UNCHANGED wpc
  ELSE \E w \in Idle : wpc' = [wpc EXCEPT ![w] = "fetch"]

(* cnd_signal(&q->not_empty) *)
SignalNotEmpty ==
  IF Idle = {} THEN UNCHANGED wpc
  ELSE \E w \in Idle : wpc' = [wpc EXCEPT ![w] = "fetch"]

(* queue_push *)
Push(c) ==
  /\ cpc[c] = "push"
  /\ ~Full
  /\ queue' = Append(queue, <<c, pushed[c] + 1>>)
  /\ pushed' = [pushed EXCEPT ![c] = @ + 1]
  /\ cpc' = [cpc EXCEPT ![c] = IF pushed[c] + 1 = size[c] THEN "lock" ELSE "push"]
  /\ SignalNotEmpty
  /\ UNCHANGED <<item, shutdown, freed, size, trackerVars, written>>

WaitForSpace(c) ==
  /\ cpc[c] = "push"
  /\ Full
  /\ cpc' = [cpc EXCEPT ![c] = "wait_space"]
  /\ UNCHANGED <<size, pushed, poolVars, trackerVars, written>>

LockTracker(c) ==
  /\ cpc[c] = "lock"
  /\ holder[c] = None
  /\ holder' = [holder EXCEPT ![c] = c]
  /\ cpc' = [cpc EXCEPT ![c] = "test"]
  /\ UNCHANGED <<size, pushed, poolVars, remaining, alive, written>>

MoreToDo_OffByOne(c) == remaining[c] > 1

MoreToDo(c) == remaining[c] > 0

TestRemaining(c) ==
  /\ cpc[c] = "test"
  /\ cpc' = [cpc EXCEPT ![c] = IF MoreToDo(c) THEN "sleep" ELSE "unlock"]
  /\ UNCHANGED <<size, pushed, poolVars, trackerVars, written>>

(* cnd_wait releases the mutex and starts to wait in one step *)
Sleep(c) ==
  /\ cpc[c] = "sleep"
  /\ cpc' = [cpc EXCEPT ![c] = "wait_done"]
  /\ holder' = [holder EXCEPT ![c] = None]
  /\ UNCHANGED <<size, pushed, poolVars, remaining, alive, written>>

UnlockTracker(c) ==
  /\ cpc[c] = "unlock"
  /\ cpc' = [cpc EXCEPT ![c] = "destroy"]
  /\ holder' = [holder EXCEPT ![c] = None]
  /\ UNCHANGED <<size, pushed, poolVars, remaining, alive, written>>

(* cnd_destroy, mtx_destroy, return: the tracker's stack frame is gone *)
DestroyTracker(c) ==
  /\ cpc[c] = "destroy"
  /\ cpc' = [cpc EXCEPT ![c] = "returned"]
  /\ alive' = [alive EXCEPT ![c] = FALSE]
  /\ UNCHANGED <<size, pushed, poolVars, remaining, holder, written>>

CallerStep(c) ==
  \/ Push(c) \/ WaitForSpace(c) \/ LockTracker(c) \/ TestRemaining(c)
  \/ Sleep(c) \/ UnlockTracker(c) \/ DestroyTracker(c)

-----------------------------------------------------------------------------
(* Workers: worker_fn.                                                     *)

WaitForItem(w) ==
  /\ wpc[w] = "fetch"
  /\ queue = <<>>
  /\ ~shutdown
  /\ wpc' = [wpc EXCEPT ![w] = "wait_item"]
  /\ UNCHANGED <<item, queue, shutdown, freed, callerVars, trackerVars, written>>

Exit(w) ==
  /\ wpc[w] = "fetch"
  /\ queue = <<>>
  /\ shutdown
  /\ wpc' = [wpc EXCEPT ![w] = "exited"]
  /\ UNCHANGED <<item, queue, shutdown, freed, callerVars, trackerVars, written>>

(* signals only when the queue was full *)
SignalNotFull_OnlyFull ==
  IF Blocked = {} \/ ~Full THEN UNCHANGED cpc
  ELSE \E c \in Blocked : cpc' = [cpc EXCEPT ![c] = "push"]

(* cnd_signal(&q->not_full) *)
SignalNotFull ==
  IF Blocked = {} THEN UNCHANGED cpc
  ELSE \E c \in Blocked : cpc' = [cpc EXCEPT ![c] = "push"]

Remainder_HeadNotAdvanced ==
  IF Len(queue) = QueueCapacity THEN queue ELSE Tail(queue)

Remainder == Tail(queue)

Dequeue(w) ==
  /\ wpc[w] = "fetch"
  /\ queue # <<>>
  /\ item' = [item EXCEPT ![w] = Head(queue)]
  /\ queue' = Remainder
  /\ wpc' = [wpc EXCEPT ![w] = "run"]
  /\ SignalNotFull
  /\ UNCHANGED <<shutdown, freed, size, pushed, trackerVars, written>>

(* execute_work_item writes the caller's output slot *)
Execute(w) ==
  /\ wpc[w] = "run"
  /\ wpc' = [wpc EXCEPT ![w] = "count"]
  /\ written' = [written EXCEPT ![item[w]] = @ + 1]
  /\ UNCHANGED <<item, queue, shutdown, freed, callerVars, trackerVars>>

(* atomic_fetch_sub; the worker that takes the last one notifies *)
CountDown(w) ==
  /\ wpc[w] = "count"
  /\ remaining' = [remaining EXCEPT ![Caller(w)] = @ - 1]
  /\ wpc' = [wpc EXCEPT ![w] = IF remaining[Caller(w)] = 1 THEN "notify" ELSE "fetch"]
  /\ UNCHANGED <<item, queue, shutdown, freed, callerVars, holder, alive, written>>

(* signals without taking the mutex *)
LockToNotify_NoLock(w) ==
  /\ wpc[w] = "notify"
  /\ alive[Caller(w)]
  /\ wpc' = [wpc EXCEPT ![w] = "signal"]
  /\ UNCHANGED <<item, queue, shutdown, freed, callerVars, trackerVars, written>>

LockToNotify(w) ==
  /\ wpc[w] = "notify"
  /\ alive[Caller(w)]
  /\ holder[Caller(w)] = None
  /\ holder' = [holder EXCEPT ![Caller(w)] = w]
  /\ wpc' = [wpc EXCEPT ![w] = "signal"]
  /\ UNCHANGED <<item, queue, shutdown, freed, callerVars, remaining, alive, written>>

SignalDone(w) ==
  /\ wpc[w] = "signal"
  /\ alive[Caller(w)]
  /\ wpc' = [wpc EXCEPT ![w] = "release"]
  /\ cpc' = IF cpc[Caller(w)] = "wait_done" THEN [cpc EXCEPT ![Caller(w)] = "lock"] ELSE cpc
  /\ UNCHANGED <<item, queue, shutdown, freed, size, pushed, trackerVars, written>>

Release(w) ==
  /\ wpc[w] = "release"
  /\ alive[Caller(w)]
  /\ holder' = [holder EXCEPT ![Caller(w)] = None]
  /\ wpc' = [wpc EXCEPT ![w] = "fetch"]
  /\ UNCHANGED <<item, queue, shutdown, freed, callerVars, remaining, alive, written>>

(***************************************************************************)
(* The caller has already destroyed the tracker.  Locking or signalling it *)
(* is undefined: the calls fail and the worker goes on, or, once the stack *)
(* holds other data, the worker never comes back from mtx_lock.            *)
(***************************************************************************)
TouchDestroyed(w) ==
  /\ wpc[w] \in {"notify", "signal", "release"}
  /\ ~alive[Caller(w)]
  /\ \E outcome \in LateTouch :
       wpc' = [wpc EXCEPT ![w] = IF outcome = "error" THEN "fetch" ELSE "stuck"]
  /\ UNCHANGED <<item, queue, shutdown, freed, callerVars, trackerVars, written>>

WorkerStep(w) ==
  \/ WaitForItem(w) \/ Exit(w) \/ Dequeue(w) \/ Execute(w) \/ CountDown(w)
  \/ LockToNotify(w) \/ SignalDone(w) \/ Release(w) \/ TouchDestroyed(w)

-----------------------------------------------------------------------------
(* the wait for the batch is in an if, not in a loop *)
AfterWait_NoLoop(p) == IF p = "wait_space" THEN "push" ELSE "unlock"

AfterWait(p) == IF p = "wait_space" THEN "push" ELSE "lock"

(* C11 lets cnd_wait return without a signal; every wait is in a loop. *)
WakeSpuriously ==
  \/ \E w \in Idle :
       /\ wpc' = [wpc EXCEPT ![w] = "fetch"]
       /\ UNCHANGED <<item, queue, shutdown, freed, callerVars, trackerVars, written>>
  \/ \E c \in Callers :
       /\ cpc[c] \in {"wait_space", "wait_done"}
       /\ cpc' = [cpc EXCEPT ![c] = AfterWait(cpc[c])]
       /\ UNCHANGED <<size, pushed, poolVars, trackerVars, written>>

(***************************************************************************)
(* bpe_pool_destroy.  Its caller must not overlap it with pool_run.        *)
(***************************************************************************)
(* one worker is woken instead of all *)
Woken_One ==
  LET first == CHOOSE w \in Idle : TRUE
  IN  [w \in Workers |-> IF Idle # {} /\ w = first THEN "fetch" ELSE wpc[w]]

Woken == [w \in Workers |-> IF w \in Idle THEN "fetch" ELSE wpc[w]]

Shutdown ==
  /\ ~shutdown
  /\ \A c \in Callers : cpc[c] \in {"idle", "returned"}
  /\ shutdown' = TRUE
  /\ wpc' = Woken
  /\ UNCHANGED <<item, queue, freed, callerVars, trackerVars, written>>

Free ==
  /\ shutdown
  /\ ~freed
  /\ \A w \in Workers : wpc[w] \in {"exited", "absent"}     \* thrd_join
  /\ freed' = TRUE
  /\ UNCHANGED <<wpc, item, queue, shutdown, callerVars, trackerVars, written>>

Terminated == freed /\ UNCHANGED vars

Next ==
  \/ \E c \in Callers : \/ \E n \in 0 .. MaxBatch : Start(c, n)
                        \/ CallerStep(c)
  \/ \E w \in Workers : WorkerStep(w)
  \/ WakeSpuriously
  \/ Shutdown
  \/ Free
  \/ Terminated

Spec == Init /\ [][Next]_vars

(***************************************************************************)
(* The operating system keeps running every thread that can run, and       *)
(* hands a free mutex to a thread that waits for it.  Nobody has to start  *)
(* a batch or to shut the pool down.                                       *)
(***************************************************************************)
FairSpec ==
  /\ Spec
  /\ \A c \in Callers : WF_vars(CallerStep(c))
  /\ \A w \in Workers : WF_vars(WorkerStep(w))
  /\ WF_vars(Free)

-----------------------------------------------------------------------------
TypeOK ==
  /\ wpc \in [Workers -> {"absent", "fetch", "wait_item", "run", "count", "notify",
                          "signal", "release", "stuck", "exited"}]
  /\ item \in [Workers -> Items \cup {<<>>}]
  /\ \A w \in Workers : wpc[w] \in {"run", "count", "notify", "signal", "release"}
       => item[w] \in Items
  /\ cpc \in [Callers -> {"idle", "push", "wait_space", "lock", "test", "sleep",
                          "wait_done", "unlock", "destroy", "returned"}]
  /\ size \in [Callers -> 0 .. MaxBatch]
  /\ pushed \in [Callers -> 0 .. MaxBatch]
  /\ queue \in Seq(Items) /\ Len(queue) <= QueueCapacity
  /\ shutdown \in BOOLEAN /\ freed \in BOOLEAN
  /\ remaining \in [Callers -> 0 .. MaxBatch]
  /\ holder \in [Callers -> Callers \cup Workers \cup {None}]
  /\ alive \in [Callers -> BOOLEAN]
  /\ written \in [Items -> Nat]

(***************************************************************************)
(* threadpool.h: "the caller blocks until every item is done".  Once a     *)
(* caller has seen remaining = 0, every output slot of its batch has been  *)
(* written, exactly once.                                                  *)
(***************************************************************************)
BatchComplete ==
  \A c \in Callers : cpc[c] \in {"unlock", "destroy", "returned"} =>
    \A it \in Batch(c) : written[it] = 1

(***************************************************************************)
(* The counter is the number of items of the batch that are still to be    *)
(* pushed, queued, executed or counted; every such item is in exactly one  *)
(* of these places.                                                        *)
(***************************************************************************)
InQueue == {queue[i] : i \in 1 .. Len(queue)}
Holding == {w \in Workers : wpc[w] \in {"run", "count"}}
Held    == {item[w] : w \in Holding}

Pending(c) == {i \in 1 .. size[c] : i > pushed[c] \/ <<c, i>> \in InQueue \cup Held}

CounterExact ==
  /\ \A c \in Callers : remaining[c] = Cardinality(Pending(c))
  /\ \A i, j \in 1 .. Len(queue) : queue[i] = queue[j] => i = j
  /\ \A v, w \in Holding : item[v] = item[w] => v = w
  /\ InQueue \cap Held = {}

(***************************************************************************)
(* As long as an item of a batch is anywhere in the pool, the tracker it   *)
(* points to exists: the decrement at line 123 never hits a dead counter.  *)
(***************************************************************************)
CounterAlive ==
  \A it \in InQueue \cup Held : alive[it[1]]

(***************************************************************************)
(* No lost wakeup between pushers and workers: when a worker waits, every  *)
(* queued item has a worker of its own on the way to fetch it; when a      *)
(* caller waits for space, every free slot has a caller on the way to fill *)
(* it.                                                                     *)
(***************************************************************************)
EveryItemFetched ==
  Idle # {} => Cardinality({w \in Workers : wpc[w] = "fetch"}) >= Len(queue)

EverySlotFilled ==
  Blocked # {} =>
    Cardinality({c \in Callers : cpc[c] = "push"}) >= QueueCapacity - Len(queue)

(***************************************************************************)
(* No lost wakeup at the end of a batch, although the counter changes      *)
(* without the mutex: a caller that sleeps, or has decided to, when the    *)
(* counter is 0 still has the signal of the last worker ahead of it.       *)
(***************************************************************************)
SleeperNotified ==
  \A c \in Callers :
    cpc[c] \in {"sleep", "wait_done"} /\ remaining[c] = 0 =>
      \E w \in Workers :
        /\ wpc[w] = "notify" \/ (wpc[w] = "signal" /\ cpc[c] = "wait_done")
        /\ Caller(w) = c

(***************************************************************************)
(* threadpool.h again, read as the safety of the tracker on the caller's   *)
(* stack: when a call has returned, no worker is still busy with one of    *)
(* its items.                                                              *)
(***************************************************************************)
ItemsDoneAtReturn ==
  \A c \in Callers, w \in Workers :
    cpc[c] = "returned" /\ item[w] \in Batch(c) =>
      wpc[w] \notin {"run", "count", "notify", "signal", "release"}

(***************************************************************************)
(* Every batch returns, and a shutdown ends with the pool freed.           *)
(***************************************************************************)
BatchReturns == \A c \in Callers : cpc[c] # "idle" ~> cpc[c] = "returned"

DestroyReturns == shutdown ~> freed

-----------------------------------------------------------------------------
(***************************************************************************)
(* The pool implements the service: a call is open from pool_run's first   *)
(* line to its return, an item is done when its output slot is written.    *)
(***************************************************************************)
Call(c) ==
  IF cpc[c] \in {"idle", "returned"} THEN cpc[c] ELSE "open"

Service == INSTANCE BatchService WITH
  call <- [c \in Callers |-> Call(c)],
  size <- size,
  done <- [c \in Callers |-> {i \in 1 .. size[c] : written[<<c, i>>] > 0}]

ImplementsService == Service!Spec
=============================================================================
