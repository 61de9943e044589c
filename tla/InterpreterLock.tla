-------------------------- MODULE InterpreterLock --------------------------
(***************************************************************************)
(* The threads of several Python processes, each process with its          *)
(* interpreter lock (GIL).  A thread in a C call is at a label, and idle   *)
(* while it runs other Python code, which gives the GIL up between any two *)
(* steps.  So gil names only a thread that keeps the GIL from one step to  *)
(* the next, as the C code of src/pymodule.c does wherever it is not       *)
(* between Py_BEGIN_ALLOW_THREADS and Py_END_ALLOW_THREADS.                *)
(*                                                                         *)
(* Taking the GIL is strongly fair in the modules that extend this one: a  *)
(* thread that waits for it gets it at some time, although others come     *)
(* back for it, because CPython makes the holder give it up to a waiting   *)
(* thread.                                                                 *)
(***************************************************************************)
CONSTANTS
  Threads, Processes,
  ProcessOf,  \* thread -> its process
  NoThread

ASSUME ThreadsAssumption ==
  /\ ProcessOf \in [Threads -> Processes]
  /\ NoThread \notin Threads

VARIABLES
  pc,  \* thread -> "idle" or the label of its next step
  gil  \* process -> the thread that keeps its GIL, or NoThread

ThreadsOf(p)   == {t \in Threads : ProcessOf[t] = p}
GilFree(t)     == gil[ProcessOf[t]] = NoThread
HasGil(t)      == gil[ProcessOf[t]] = t
Goto(t, label) == pc' = [pc EXCEPT ![t] = label]
GilTo(t, u)    == gil' = [gil EXCEPT ![ProcessOf[t]] = u]

InitThreads ==
  /\ pc = [t \in Threads |-> "idle"]
  /\ gil = [p \in Processes |-> NoThread]
=============================================================================
