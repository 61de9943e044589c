----------------------------- MODULE GlobalPool -----------------------------
(***************************************************************************)
(* src/parallel.c under the Python calls that use it: the pool of the      *)
(* process is created by whichever thread needs it first, with the GIL     *)
(* (get_num_threads) or without (a batch).  A process may fork.            *)
(***************************************************************************)
EXTENDS InterpreterLock

VARIABLES
  once,  \* process -> g_pool_init_flag: "no", "running", "done"
  pool   \* process -> g_pool: "none" yet, "null", "empty" (no worker), "threads"

poolVars == <<once, pool>>

InitPool ==
  /\ once = [p \in Processes |-> "no"]
  /\ pool = [p \in Processes |-> "none"]

(* The texts of a batch are taken under the GIL, which is then given up. *)
TakeTexts(t) ==
  /\ pc[t] = "idle" /\ GilFree(t)
  /\ Goto(t, "get_pool")
  /\ UNCHANGED <<gil, poolVars>>

(* get_num_threads keeps it. *)
NumThreads(t) ==
  /\ pc[t] = "idle" /\ GilFree(t)
  /\ Goto(t, "get_pool")
  /\ GilTo(t, t)
  /\ UNCHANGED poolVars

(* every other C call, cl100k_base included, keeps the GIL for a while *)
OtherCall(t) ==
  /\ pc[t] = "idle" /\ GilFree(t)
  /\ Goto(t, "other")
  /\ GilTo(t, t)
  /\ UNCHANGED poolVars

EndOtherCall(t) ==
  /\ pc[t] = "other"
  /\ Goto(t, "idle")
  /\ GilTo(t, NoThread)
  /\ UNCHANGED poolVars

-----------------------------------------------------------------------------
(* get_pool: the first thread creates the pool ... *)
CallOnce(t) ==
  /\ pc[t] = "get_pool"
  /\ once[ProcessOf[t]] = "no"
  /\ once' = [once EXCEPT ![ProcessOf[t]] = "running"]
  /\ Goto(t, "create")
  /\ UNCHANGED <<gil, pool>>

(* the initialisation runs Python code *)
MayCreate_WithGil(t) == pc[t] = "create" /\ (GilFree(t) \/ HasGil(t))

(* init_pool is C code all through *)
MayCreate(t) == pc[t] = "create"

(* out of memory, out of threads, or well *)
CreatePool(t) ==
  /\ MayCreate(t)
  /\ \E outcome \in {"null", "empty", "threads"} :
       pool' = [pool EXCEPT ![ProcessOf[t]] = outcome]
  /\ once' = [once EXCEPT ![ProcessOf[t]] = "done"]
  /\ Goto(t, "get_pool")
  /\ UNCHANGED gil

(* ... and all others wait until it is there *)
GetPool(t) ==
  /\ pc[t] = "get_pool"
  /\ once[ProcessOf[t]] = "done"
  /\ IF HasGil(t) THEN Goto(t, "idle") /\ GilTo(t, NoThread)
     ELSE Goto(t, "run") /\ UNCHANGED gil
  /\ UNCHANGED poolVars

(***************************************************************************)
(* A pool with threads works the batch off (module ThreadPool); without a  *)
(* pool the caller does; a pool without threads never does.                *)
(***************************************************************************)
RunBatch(t) ==
  /\ pc[t] = "run"
  /\ pool[ProcessOf[t]] # "empty"
  /\ Goto(t, "finish")
  /\ UNCHANGED <<gil, poolVars>>

(* back with the GIL; the number of threads is at hand *)
Finish(t) ==
  /\ pc[t] = "finish" /\ GilFree(t)
  /\ Goto(t, "idle")
  /\ UNCHANGED <<gil, poolVars>>

(***************************************************************************)
(* os.fork() by thread t: process q becomes its child, with the memory of  *)
(* the parent but no other thread of it, so no worker either.  Of a        *)
(* call_once that another thread is inside some systems begin again in the *)
(* child, others wait for that thread.                                     *)
(***************************************************************************)
Fork(t, q) ==
  LET p == ProcessOf[t]
  IN  /\ pc[t] = "idle" /\ GilFree(t)
      /\ p # q /\ once[q] = "no"
      /\ \A u \in ThreadsOf(q) : pc[u] = "idle"
      /\ \E flag \in IF once[p] = "running" THEN {"no", "running"} ELSE {once[p]} :
           once' = [once EXCEPT ![q] = flag]
      /\ pool' = [pool EXCEPT ![q] = IF pool[p] = "threads" THEN "empty" ELSE pool[p]]
      /\ UNCHANGED <<pc, gil>>

OwnStep(t) ==
  EndOtherCall(t) \/ CallOnce(t) \/ CreatePool(t) \/ GetPool(t) \/ RunBatch(t)

NextPool ==
  \/ \E t \in Threads :
       TakeTexts(t) \/ NumThreads(t) \/ OtherCall(t) \/ OwnStep(t) \/ Finish(t)
  \/ \E t \in Threads, q \in Processes : Fork(t, q)

(* A thread in a call is scheduled, and gets the GIL (see InterpreterLock). *)
FairPool ==
  \A t \in Threads :
    WF_<<pc, gil, poolVars>>(OwnStep(t)) /\ SF_<<pc, gil, poolVars>>(Finish(t))

-----------------------------------------------------------------------------
(* the thread that was to create the pool is not in this process *)
CreatorLost(p) == once[p] = "running" /\ \A t \in ThreadsOf(p) : pc[t] # "create"

(* the only ways a call may wait for ever *)
Stranded(t) ==
  \/ pc[t] = "run" /\ pool[ProcessOf[t]] = "empty"
  \/ CreatorLost(ProcessOf[t])

(***************************************************************************)
(* Every call returns, although one thread may wait for the pool with the  *)
(* GIL and another for the GIL.  The exceptions: a batch waits for ever in *)
(* a process whose pool has no threads, because none could be created or   *)
(* because it is the child of a fork; so does every call in a child forked *)
(* while the pool was being created.                                       *)
(***************************************************************************)
CallsReturn == \A t \in Threads : pc[t] # "idle" ~> pc[t] = "idle" \/ Stranded(t)
=============================================================================
