------------------------------ MODULE VrServer ------------------------------
(***************************************************************************)
(* The vr server: the threads of WorkerDaemon that recognise (Lasers) and  *)
(* those that work on text (TextJob) in one process, whose main thread     *)
(* loads what they use, waits for them and unloads it again.  The threads  *)
(* of run("vr_realtime", ...) are the subject of RealtimePool.             *)
(***************************************************************************)
EXTENDS Lasers, TextJob

\* Each thread is started for one function; those of vr_text_only and vr_text are
\* as many as the workers for "unsegment".
ASSUME ServerAssumption ==
  /\ Threads = SttThreads \cup TextThreads
  /\ SttThreads \cap TextThreads = {}
  /\ ~HasUnsegment => \A k \in TextKinds, w \in TextThreads : k[w] = "ssp"

vars == <<daemonVars, laserVars, textVars>>

Init == DaemonInit /\ LaserInit /\ TextInit

RunText(w) == Alive /\ TextStep(w) /\ UNCHANGED laserVars

Next ==
  \/ LaserStep /\ UNCHANGED textVars
  \/ \E w \in TextThreads :
       \/ RunText(w)
       \/ \E h \in Handles : Alive /\ BeginText(w, h) /\ UNCHANGED laserVars

Spec == Init /\ [][Next]_vars

-----------------------------------------------------------------------------

\* Every variable has its type.
TypeOK ==
  /\ thread \in [Threads -> {"none", "register", "loop", "busy", "exited"}]
  /\ is_running \in BOOLEAN /\ taken \in 0 .. MaxJobs
  /\ LaserTypeOK /\ TextTypeOK

\* Nothing that a job uses is gone before the job is over, unless an exception
\* ends the server: the masters outlive the children in use, the post-processor
\* the jobs that call it, and `sil`, of which a stale pointer is kept, is freed once.
UnloadLast ==
  /\ MastersLast /\ SilOnce
  /\ main # "aborted" =>
       \A w \in TextThreads : thread[w] = "busy" /\ kind[w] # "ssp" => post
=============================================================================
