---------------------------- MODULE RealtimePool ----------------------------
(***************************************************************************)
(* The pool of real-time recognition channels of the vr server, as the     *)
(* shipped build compiles it (-DUSE_REALTIME_POOL).                        *)
(*                                                                         *)
(* VRServer::initialize starts the worker threads first and fills the      *)
(* channel map afterwards, one create_channel call per worker.  A worker   *)
(* that gets a job scans the map under m_mxChannel for the first channel   *)
(* whose m_CurrState is 0, sets it to 1, decodes on it outside the lock,   *)
(* and writes 0 back, again outside the lock.  The scan is modelled one    *)
(* map entry at a time, so that releases and insertions fall between its   *)
(* steps.                                                                  *)
(***************************************************************************)
EXTENDS Integers, FiniteSets

CONSTANTS
  Workers,      \* the threads of run("vr_realtime", ...)
  NumChannels,  \* getTotalWorkers("realtime"): how many channels are created
  Rank,         \* the order of the keys std::to_string(i) in the std::map
  NoWorker, NoChannel,
  EarlyJobs,    \* may a job arrive before initialize has filled the map?
  Failures      \* may create_channel fail or throw, and a decode throw?

Channels == 0 .. NumChannels - 1

ASSUME PoolAssumption ==
  /\ IsFiniteSet(Workers)
  /\ NumChannels \in Nat
  /\ Rank \in [Channels -> Nat]
  /\ \A c, d \in Channels : Rank[c] = Rank[d] => c = d
  /\ NoWorker \notin Workers
  /\ NoChannel \notin Channels
  /\ EarlyJobs \in BOOLEAN
  /\ Failures \in BOOLEAN

VARIABLES
  phase,      \* where initialize is: the create loop, join, the close loop
  next,       \* i of the two loops over the channels
  channel,    \* the map: no entry, an entry still holding nullptr, or ready
  currState,  \* m_CurrState of each channel: 0 standby, 1 working
  mxChannel,  \* the worker that holds m_mxChannel
  pc,         \* where each worker is
  node,       \* the local `node` of VRServer::stt
  rc,         \* what VRServer::stt returns; "failure" for a rejected workload
  lost        \* history: the channels whose last decode has thrown

mainVars == <<phase, next, channel>>
vars == <<mainVars, currState, mxChannel, pc, node, rc, lost>>

Init ==
  /\ phase = "create"
  /\ next = 0
  /\ channel = [c \in Channels |-> "absent"]
  /\ currState = [c \in Channels |-> 0]
  /\ mxChannel = NoWorker
  /\ pc = [w \in Workers |-> "starting"]
  /\ node = [w \in Workers |-> NoChannel]
  /\ rc = [w \in Workers |-> "none"]
  /\ lost = {}

-----------------------------------------------------------------------------
(* The thread that runs VRServer::initialize. *)

\* A null dereference or an exception that leaves initialize while the worker
\* threads are joinable: the process ends, with all its threads.
Terminate ==
  /\ phase' = "crashed"
  /\ mxChannel' = NoWorker
  /\ pc' = [w \in Workers |-> "exited"]

\* channel[call_id] first inserts an entry with a null pointer ...
InsertEntry ==
  /\ phase = "create" /\ next < NumChannels
  /\ channel[next] = "absent"
  /\ channel' = [channel EXCEPT ![next] = "null"]
  /\ UNCHANGED <<phase, next, currState, mxChannel, pc, node, rc, lost>>

\* ... and then the assignment stores the new object in it.
AssignEntry ==
  /\ phase = "create" /\ next < NumChannels
  /\ channel[next] = "null"
  /\ channel' = [channel EXCEPT ![next] = "ready"]
  /\ next' = next + 1
  /\ UNCHANGED <<phase, currState, mxChannel, pc, node, rc, lost>>

\* create_channel returns EXIT_FAILURE, which the loop does not look at.
CreateFails ==
  /\ Failures
  /\ phase = "create" /\ next < NumChannels
  /\ channel[next] = "absent"
  /\ next' = next + 1
  /\ UNCHANGED <<phase, channel, currState, mxChannel, pc, node, rc, lost>>

\* The constructor of RealtimeSTT throws std::system_error.
CreateThrows ==
  /\ Failures
  /\ phase = "create" /\ next < NumChannels
  /\ channel[next] = "absent"
  /\ Terminate
  /\ UNCHANGED <<next, channel, currState, node, rc, lost>>

CreateDone ==
  /\ phase = "create" /\ next = NumChannels
  /\ phase' = "join"
  /\ UNCHANGED <<next, channel, currState, mxChannel, pc, node, rc, lost>>

JoinMutant ==
  /\ phase = "join"
  /\ phase' = "close"
  /\ next' = 0
  /\ UNCHANGED <<channel, currState, mxChannel, pc, node, rc, lost>>

Join ==
  /\ phase = "join"
  /\ \A w \in Workers : pc[w] = "exited"
  /\ phase' = "close"
  /\ next' = 0
  /\ UNCHANGED <<channel, currState, mxChannel, pc, node, rc, lost>>

\* close_channel: erase the entry, if there is one.
CloseChannel ==
  /\ phase = "close" /\ next < NumChannels
  /\ channel' = [channel EXCEPT ![next] = "absent"]
  /\ next' = next + 1
  /\ UNCHANGED <<phase, currState, mxChannel, pc, node, rc, lost>>

UnloadLaserModule ==
  /\ phase = "close" /\ next = NumChannels
  /\ phase' = "done"
  /\ UNCHANGED <<next, channel, currState, mxChannel, pc, node, rc, lost>>

-----------------------------------------------------------------------------
(* A worker thread. *)

Goto(w, from, to) ==
  /\ pc[w] = from
  /\ pc' = [pc EXCEPT ![w] = to]

\* worker_thread: gearman_worker_create, add_server and define_function.
Register(w) ==
  /\ Goto(w, "starting", "idle")
  /\ UNCHANGED <<mainVars, lost, currState, mxChannel, node, rc>>

RegisterFails(w) ==
  /\ Goto(w, "starting", "exited")
  /\ UNCHANGED <<mainVars, lost, currState, mxChannel, node, rc>>

JobsArrive == EarlyJobs \/ phase # "create"

\* job_rt_stt parses CALL_ID|CMD|DATA and calls VRServer::stt ...
Receive(w) ==
  /\ JobsArrive
  /\ Goto(w, "idle", "lock")
  /\ UNCHANGED <<mainVars, lost, currState, mxChannel, node, rc>>

\* rc keeps its initial 0 when nothing has been decoded.
RejectMutant(w) ==
  /\ JobsArrive
  /\ Goto(w, "idle", "reply")
  /\ rc' = [rc EXCEPT ![w] = "success"]
  /\ UNCHANGED <<mainVars, lost, currState, mxChannel, node>>

\* ... and sends fail for a workload it cannot parse.
Reject(w) ==
  /\ JobsArrive
  /\ Goto(w, "idle", "reply")
  /\ rc' = [rc EXCEPT ![w] = "failure"]
  /\ UNCHANGED <<mainVars, lost, currState, mxChannel, node>>

\* Without the lock_guard.
LockMutant(w) ==
  /\ Goto(w, "lock", "scan")
  /\ UNCHANGED <<mainVars, lost, currState, mxChannel, node, rc>>

Lock(w) ==
  /\ mxChannel = NoWorker
  /\ Goto(w, "lock", "scan")
  /\ mxChannel' = w
  /\ UNCHANGED <<mainVars, lost, currState, node, rc>>

InMap == {c \in Channels : channel[c] # "absent"}

\* The entries the iterator has still to visit.
Ahead(w) == {c \in InMap : node[w] = NoChannel \/ Rank[c] > Rank[node[w]]}

\* c is the entry the iterator of w comes to next.
IsNext(w, c) == c \in Ahead(w) /\ \A d \in Ahead(w) : Rank[c] <= Rank[d]

\* The entry is busy: node points to it and the loop goes on.
ScanBusy(w) ==
  /\ pc[w] = "scan"
  /\ \E c \in Channels :
       /\ IsNext(w, c)
       /\ channel[c] = "ready" /\ currState[c] = 1
       /\ node' = [node EXCEPT ![w] = c]
  /\ UNCHANGED <<mainVars, lost, currState, mxChannel, pc, rc>>

\* The state is set after the lock has been released.
ClaimMutant(w) ==
  \E c \in Channels :
    /\ IsNext(w, c)
    /\ channel[c] = "ready" /\ currState[c] = 0
    /\ node' = [node EXCEPT ![w] = c]
    /\ mxChannel' = NoWorker
    /\ Goto(w, "scan", "stt")
    /\ lost' = lost \ {c}
    /\ UNCHANGED <<mainVars, currState, rc>>

\* The entry is free: it is claimed, and the guard releases the lock.
Claim(w) ==
  \E c \in Channels :
    /\ IsNext(w, c)
    /\ channel[c] = "ready" /\ currState[c] = 0
    /\ node' = [node EXCEPT ![w] = c]
    /\ currState' = [currState EXCEPT ![c] = 1]
    /\ mxChannel' = NoWorker
    /\ Goto(w, "scan", "stt")
    /\ lost' = lost \ {c}
    /\ UNCHANGED <<mainVars, rc>>

\* The entry still holds nullptr: node->getCurrState() dereferences it.
ScanNull(w) ==
  /\ pc[w] = "scan"
  /\ \E c \in Channels : IsNext(w, c) /\ channel[c] = "null"
  /\ Terminate
  /\ UNCHANGED <<next, channel, currState, node, rc, lost>>

\* The lock is released by hand, and not on this path.
ScanEndMutant(w) ==
  /\ Ahead(w) = {} /\ node[w] # NoChannel
  /\ Goto(w, "scan", "stt")
  /\ UNCHANGED <<mainVars, lost, currState, mxChannel, node, rc>>

\* The scan has run off the end with every entry busy: node is left at the
\* last entry, and `if (node)` lets the worker decode on it all the same.
ScanEndShared(w) ==
  /\ Ahead(w) = {} /\ node[w] # NoChannel
  /\ Goto(w, "scan", "stt")
  /\ mxChannel' = NoWorker
  /\ UNCHANGED <<mainVars, lost, currState, node, rc>>

\* The map is empty: node is null and rc keeps its initial 0, success.
ScanEndEmpty(w) ==
  /\ Ahead(w) = {} /\ node[w] = NoChannel
  /\ Goto(w, "scan", "reply")
  /\ mxChannel' = NoWorker
  /\ rc' = [rc EXCEPT ![w] = "success"]
  /\ UNCHANGED <<mainVars, lost, currState, node>>

\* node->stt(...) returns.
Stt(w) ==
  /\ Goto(w, "stt", "release")
  /\ \E r \in {"success", "failure"} : rc' = [rc EXCEPT ![w] = r]
  /\ UNCHANGED <<mainVars, lost, currState, mxChannel, node>>

\* An exception (std::bad_alloc) leaves VRServer::stt before it has reset the
\* state; worker_thread catches it and goes on, the job is never answered.
SttThrows(w) ==
  /\ Failures
  /\ Goto(w, "stt", "idle")
  /\ lost' = lost \cup {node[w]}
  /\ node' = [node EXCEPT ![w] = NoChannel]
  /\ UNCHANGED <<mainVars, currState, mxChannel, rc>>

\* A failed decode returns before the state is reset.
ReleaseMutant(w) ==
  /\ Goto(w, "release", "reply")
  /\ currState' = [currState EXCEPT ![node[w]] = IF rc[w] = "failure" THEN @ ELSE 0]
  /\ lost' = lost \ {node[w]}
  /\ UNCHANGED <<mainVars, mxChannel, node, rc>>

\* node->setCurrState(0), whether or not this worker had set it.
Release(w) ==
  /\ Goto(w, "release", "reply")
  /\ currState' = [currState EXCEPT ![node[w]] = 0]
  /\ lost' = lost \ {node[w]}
  /\ UNCHANGED <<mainVars, mxChannel, node, rc>>

\* job_rt_stt answers the job; the next call starts with a fresh node.
Reply(w) ==
  /\ Goto(w, "reply", "idle")
  /\ node' = [node EXCEPT ![w] = NoChannel]
  /\ rc' = [rc EXCEPT ![w] = "none"]
  /\ UNCHANGED <<mainVars, lost, currState, mxChannel>>

-----------------------------------------------------------------------------

MainStep ==
  \/ InsertEntry \/ AssignEntry \/ CreateFails \/ CreateThrows \/ CreateDone
  \/ Join \/ CloseChannel \/ UnloadLaserModule

\* The steps of a worker between taking a job and answering it, the wait for
\* the lock aside.
Progress(w) ==
  \/ Register(w) \/ RegisterFails(w)
  \/ ScanBusy(w) \/ Claim(w) \/ ScanNull(w) \/ ScanEndShared(w) \/ ScanEndEmpty(w)
  \/ Stt(w) \/ SttThrows(w) \/ Release(w) \/ Reply(w)

WorkerStep(w) == Receive(w) \/ Reject(w) \/ Lock(w) \/ Progress(w)

Next == MainStep \/ \E w \in Workers : WorkerStep(w)

\* A thread that can run does run, and the decoder returns.  Nothing is assumed
\* of the arrival of jobs, nor of the order in which the mutex admits waiters.
Fairness == WF_vars(MainStep) /\ \A w \in Workers : WF_vars(Progress(w))

Safety == Init /\ [][Next]_vars

Spec == Safety /\ Fairness

-----------------------------------------------------------------------------

\* Every variable keeps its type, and the locals of a worker agree with where
\* it is: VRServer::stt decodes and releases only on a channel, and the mutex
\* is held by exactly the worker that scans.
TypeOK ==
  /\ phase \in {"create", "join", "close", "done", "crashed"}
  /\ next \in 0 .. NumChannels
  /\ channel \in [Channels -> {"absent", "null", "ready"}]
  /\ currState \in [Channels -> {0, 1}]
  /\ mxChannel \in Workers \cup {NoWorker}
  /\ pc \in [Workers -> {"starting", "idle", "lock", "scan", "stt", "release",
                         "reply", "exited"}]
  /\ node \in [Workers -> Channels \cup {NoChannel}]
  /\ rc \in [Workers -> {"none", "success", "failure"}]
  /\ lost \subseteq Channels
  /\ \A w \in Workers : pc[w] \in {"stt", "release"} => node[w] # NoChannel
  /\ \A w \in Workers : pc[w] \in {"lock", "idle", "starting"} => node[w] = NoChannel
  /\ \A w \in Workers : pc[w] = "scan" <=> mxChannel = w

\* Worker w is inside channel c: it decodes on it or is about to free it.
Holds(w, c) == pc[w] \in {"stt", "release"} /\ node[w] = c

\* Two workers never decode on one RealtimeSTT: its frontend, its decoder and
\* its two buffers are shared by whoever calls stt on it (rt.cc:220-322).
Exclusive ==
  \A c \in Channels : \A v, w \in Workers : Holds(v, c) /\ Holds(w, c) => v = w

\* "0: stanby, 1: working" (vr.hpp:152): a channel someone works on has state 1.
WorkingIsFlagged ==
  \A c \in Channels : (\E w \in Workers : Holds(w, c)) => currState[c] = 1

\* A channel whose state is 1 is in some worker's hands: however the pool was
\* shared, no channel is lost to it except by an exception out of its decode.
FlaggedIsHeld ==
  phase # "crashed" =>
    \A c \in Channels \ lost : currState[c] = 1 => \E w \in Workers : Holds(w, c)

\* VRServer::stt returns success, and the job is answered with a result, only if
\* a channel decoded its audio.
SuccessIsDecoded ==
  \A w \in Workers : pc[w] = "reply" /\ rc[w] = "success" => node[w] # NoChannel

\* close_channel erases a channel only when no worker can reach it any more.
ClosedIsUnused ==
  [][\A c \in Channels : channel[c] = "ready" /\ channel'[c] = "absent"
        => \A w \in Workers : pc[w] = "exited"]_vars

\* The scan under m_mxChannel ends, even while the map grows under it.
MutexReleased == mxChannel # NoWorker ~> mxChannel = NoWorker

\* A channel that is marked working is marked standby again later, unless its
\* decode throws or the process ends.
StateReset ==
  \A c \in Channels : currState[c] = 1 ~> (currState[c] = 0 \/ c \in lost \/ phase = "crashed")

\* With a full pool the worker threads see exclusive leases that are returned.
Lease == INSTANCE ChannelLease
           WITH lease <- [w \in Workers |->
                            IF pc[w] \in {"stt", "release"} THEN node[w] ELSE NoChannel]
LeaseSpec == Lease!Spec
=============================================================================
