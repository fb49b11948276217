---------------------------- MODULE WorkerDaemon ----------------------------
(***************************************************************************)
(* The threads of the vr server (src/src/worker/worker.cc): run starts     *)
(* them, each registers with the job server and takes one job after the    *)
(* other, and join waits for them.  stop, which would end the loop of a    *)
(* thread, is never called.                                                *)
(*                                                                         *)
(* The job server is external: it gives a job to any thread that asks.     *)
(***************************************************************************)
EXTENDS Integers, FiniteSets

CONSTANTS
  Threads,   \* of the calls of run
  MaxJobs    \* a bound: how many jobs arrive

ASSUME DaemonAssumption == IsFiniteSet(Threads) /\ MaxJobs \in Nat

VARIABLES
  thread,      \* where each thread is
  is_running,
  taken        \* how many jobs have arrived

daemonVars == <<thread, is_running, taken>>

DaemonInit ==
  /\ thread = [w \in Threads |-> "none"]
  /\ is_running = FALSE
  /\ taken = 0

ThreadGoto(w, from, to) ==
  /\ thread[w] = from
  /\ thread' = [thread EXCEPT ![w] = to]

\* run: is_running is set, and the next thread started.
StartThread(w) ==
  /\ ThreadGoto(w, "none", "register")
  /\ is_running' = TRUE
  /\ UNCHANGED taken

\* gearman_worker_create, _add_server and _define_function ...
Register(w) ==
  /\ ThreadGoto(w, "register", "loop")
  /\ UNCHANGED <<is_running, taken>>

\* ... or the thread ends at once.
RegisterFails(w) ==
  /\ ThreadGoto(w, "register", "exited")
  /\ UNCHANGED <<is_running, taken>>

\* gearman_worker_work calls the function of the thread.
TakeJob(w) ==
  /\ ThreadGoto(w, "loop", "busy")
  /\ is_running
  /\ taken < MaxJobs
  /\ taken' = taken + 1
  /\ UNCHANGED is_running

\* The function returns or throws: the thread goes on, after 10 s if it must.
EndJob(w) ==
  /\ ThreadGoto(w, "busy", "loop")
  /\ UNCHANGED <<is_running, taken>>

\* join waits for the first thread only.
JoinedMutant == is_running => \E w \in Threads : thread[w] \in {"none", "exited"}

\* join has waited for every thread that was started.
Joined == is_running => \A w \in Threads : thread[w] \in {"none", "exited"}
=============================================================================
