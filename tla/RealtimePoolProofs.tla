------------------------- MODULE RealtimePoolProofs -------------------------
(***************************************************************************)
(* What RealtimePool promises for every number of workers and channels.    *)
(*                                                                         *)
(* The first part holds of the program as it is, whatever the constants.   *)
(* The second part is about a full pool: at least as many channels as      *)
(* workers, every one of them created before the first job arrives.  Its   *)
(* argument is the pigeonhole principle: a worker that takes the lock      *)
(* holds no channel, so that some channel is free, it stays free while the *)
(* lock is held, and the scan finds it or another one before it ends.      *)
(***************************************************************************)
EXTENDS RealtimePool, FiniteSetTheorems, TLAPS

-----------------------------------------------------------------------------
(* Every constant. *)

\* When initialize closes the channels, it has joined every worker.
ClosingIsAlone ==
  phase \in {"close", "done"} => \A w \in Workers : pc[w] = "exited"

AnyPool == TypeOK /\ ClosingIsAlone /\ FlaggedIsHeld

\* The initial state has the types, and nobody holds or has flagged a channel.
LEMMA AnyPoolInit == Init => AnyPool
BY PoolAssumption DEF Init, AnyPool, TypeOK, ClosingIsAlone, FlaggedIsHeld, Channels

\* The types are kept by every step.
LEMMA TypeStep == TypeOK /\ [Next]_vars => TypeOK'
<1> SUFFICES ASSUME TypeOK, [Next]_vars PROVE TypeOK'
  OBVIOUS
<1> USE PoolAssumption DEF TypeOK, Channels
<1>1. CASE InsertEntry  BY <1>1 DEF InsertEntry
<1>2. CASE AssignEntry  BY <1>2 DEF AssignEntry
<1>3. CASE CreateFails  BY <1>3 DEF CreateFails
<1>4. CASE CreateThrows  BY <1>4 DEF CreateThrows, Terminate
<1>5. CASE CreateDone  BY <1>5 DEF CreateDone
<1>6. CASE Join  BY <1>6 DEF Join
<1>7. CASE CloseChannel  BY <1>7 DEF CloseChannel
<1>8. CASE UnloadLaserModule  BY <1>8 DEF UnloadLaserModule
<1>9. ASSUME NEW w \in Workers, WorkerStep(w) PROVE TypeOK'
  <2> USE DEF Goto, mainVars
  <2>1. CASE Receive(w)  BY <2>1 DEF Receive
  <2>2. CASE Reject(w)  BY <2>2 DEF Reject
  <2>3. CASE Lock(w)  BY <2>3 DEF Lock
  <2>4. CASE Register(w)  BY <2>4 DEF Register
  <2>5. CASE RegisterFails(w)  BY <2>5 DEF RegisterFails
  <2>6. CASE ScanBusy(w)  BY <2>6 DEF ScanBusy
  <2>7. CASE Claim(w)  BY <2>7 DEF Claim
  <2>8. CASE ScanNull(w)  BY <2>8 DEF ScanNull, Terminate
  <2>9. CASE ScanEndShared(w)  BY <2>9 DEF ScanEndShared
  <2>10. CASE ScanEndEmpty(w)  BY <2>10 DEF ScanEndEmpty
  <2>11. CASE Stt(w)  BY <2>11 DEF Stt
  <2>12. CASE Release(w)  BY <2>12 DEF Release
  <2>13. CASE Reply(w)  BY <2>13 DEF Reply
  <2>14. CASE SttThrows(w)  BY <2>14 DEF SttThrows
  <2> QED  BY <1>9, <2>1, <2>2, <2>3, <2>4, <2>5, <2>6, <2>7, <2>8, <2>9, <2>10,
              <2>11, <2>12, <2>13, <2>14 DEF WorkerStep, Progress
<1>10. CASE UNCHANGED vars  BY <1>10 DEF vars, mainVars
<1> QED  BY <1>1, <1>2, <1>3, <1>4, <1>5, <1>6, <1>7, <1>8, <1>9, <1>10
         DEF Next, MainStep

\* After join no worker runs again.
LEMMA ClosingStep == TypeOK /\ ClosingIsAlone /\ [Next]_vars => ClosingIsAlone'
<1> SUFFICES ASSUME TypeOK, ClosingIsAlone, [Next]_vars PROVE ClosingIsAlone'
  OBVIOUS
<1> USE DEF ClosingIsAlone
<1>1. CASE MainStep
  BY <1>1 DEF MainStep, InsertEntry, AssignEntry, CreateFails, CreateThrows, CreateDone,
              Join, CloseChannel, UnloadLaserModule, Terminate
<1>2. ASSUME NEW w \in Workers, WorkerStep(w) PROVE ClosingIsAlone'
  <2>1. pc[w] # "exited"
    BY <1>2 DEF WorkerStep, Progress, Goto, Receive, Reject, Lock, Register, RegisterFails,
                ScanBusy, Claim, ScanNull, ScanEndShared, ScanEndEmpty, Stt, SttThrows,
                Release, Reply
  <2>2. phase' = phase \/ phase' = "crashed"
    BY <1>2 DEF WorkerStep, Progress, Goto, Receive, Reject, Lock, Register, RegisterFails,
                ScanBusy, Claim, ScanNull, ScanEndShared, ScanEndEmpty, Stt, SttThrows,
                Release, Reply,
                Terminate, mainVars
  <2> QED  BY <2>1, <2>2
<1>3. CASE UNCHANGED vars  BY <1>3 DEF vars, mainVars
<1> QED  BY <1>1, <1>2, <1>3 DEF Next

\* A channel that is flagged stays in somebody's hands until it is reset.
LEMMA FlaggedStep == TypeOK /\ FlaggedIsHeld /\ [Next]_vars => FlaggedIsHeld'
<1> SUFFICES ASSUME TypeOK, FlaggedIsHeld, [Next]_vars,
                    phase' # "crashed", NEW c \in Channels \ lost', currState'[c] = 1
             PROVE  \E w \in Workers : Holds(w, c)'
  BY DEF FlaggedIsHeld
<1> USE DEF Holds
<1>1. CASE MainStep
  BY <1>1 DEF MainStep, InsertEntry, AssignEntry, CreateFails, CreateThrows, CreateDone,
              Join, CloseChannel, UnloadLaserModule, Terminate, FlaggedIsHeld
<1>2. ASSUME NEW w \in Workers, WorkerStep(w) PROVE \E v \in Workers : Holds(v, c)'
  <2>1. CASE Claim(w)
    <3>1. PICK d \in Channels :
            /\ node' = [node EXCEPT ![w] = d]
            /\ currState' = [currState EXCEPT ![d] = 1]
            /\ lost' = lost \ {d}
      BY <2>1 DEF Claim
    <3>2. pc[w] = "scan" /\ pc' = [pc EXCEPT ![w] = "stt"] /\ phase' = phase
      BY <2>1 DEF Claim, Goto, mainVars
    <3>3. CASE c = d  BY <3>1, <3>2, <3>3 DEF TypeOK
    <3>4. CASE c # d
      <4>1. currState[c] = 1 /\ c \notin lost  BY <3>1, <3>4 DEF TypeOK
      <4>2. PICK v \in Workers : Holds(v, c)  BY <4>1, <3>2 DEF FlaggedIsHeld
      <4>3. v # w  BY <4>2, <3>2
      <4> QED  BY <4>2, <4>3, <3>1, <3>2 DEF TypeOK
    <3> QED  BY <3>3, <3>4
  <2>2. CASE Release(w)
    <3>1. /\ pc[w] = "release" /\ pc' = [pc EXCEPT ![w] = "reply"] /\ phase' = phase
          /\ currState' = [currState EXCEPT ![node[w]] = 0] /\ node' = node
          /\ lost' = lost \ {node[w]}
      BY <2>2 DEF Release, Goto, mainVars
    <3>2. c # node[w] /\ currState[c] = 1 /\ c \notin lost  BY <3>1 DEF TypeOK
    <3>3. PICK v \in Workers : Holds(v, c)  BY <3>1, <3>2 DEF FlaggedIsHeld
    <3> QED  BY <3>1, <3>2, <3>3 DEF TypeOK
  <2>3. CASE Stt(w)
    BY <2>3 DEF Stt, Goto, mainVars, TypeOK, FlaggedIsHeld
  <2>4. CASE ScanBusy(w) \/ Reply(w)
    BY <2>4 DEF ScanBusy, Reply, Goto, mainVars, TypeOK, FlaggedIsHeld
  <2>5. CASE ScanEndShared(w) \/ ScanEndEmpty(w)
    BY <2>5 DEF ScanEndShared, ScanEndEmpty, Goto, mainVars, TypeOK, FlaggedIsHeld
  <2>6. CASE ScanNull(w)  BY <2>6 DEF ScanNull, Terminate
  <2>7. CASE Receive(w) \/ Reject(w) \/ Lock(w) \/ Register(w) \/ RegisterFails(w)
    BY <2>7 DEF Receive, Reject, Lock, Register, RegisterFails, Goto, mainVars, TypeOK,
                FlaggedIsHeld
  <2>8. CASE SttThrows(w)
    <3>1. /\ pc' = [pc EXCEPT ![w] = "idle"] /\ node' = [node EXCEPT ![w] = NoChannel]
          /\ lost' = lost \cup {node[w]} /\ phase' = phase /\ currState' = currState
      BY <2>8 DEF SttThrows, Goto, mainVars
    <3>2. PICK v \in Workers : Holds(v, c)  BY <3>1 DEF FlaggedIsHeld
    <3>3. v # w  BY <3>1, <3>2
    <3> QED  BY <3>1, <3>2, <3>3 DEF TypeOK
  <2> QED  BY <1>2, <2>1, <2>2, <2>3, <2>4, <2>5, <2>6, <2>7, <2>8 DEF WorkerStep, Progress
<1>3. CASE UNCHANGED vars  BY <1>3 DEF vars, mainVars, FlaggedIsHeld
<1> QED  BY <1>1, <1>2, <1>3 DEF Next

\* AnyPool is an invariant.
LEMMA AnyPoolInvariant == Spec => []AnyPool
<1>1. AnyPool /\ [Next]_vars => AnyPool'
  BY TypeStep, ClosingStep, FlaggedStep DEF AnyPool
<1> QED  BY AnyPoolInit, <1>1, PTL DEF Spec, Safety

\* Every variable keeps its type, and the mutex belongs to the worker that
\* scans (VRServer::stt, vr.cc:1279-1301).
THEOREM TypeCorrect == Spec => []TypeOK
<1>1. AnyPool => TypeOK  BY DEF AnyPool
<1> QED  BY AnyPoolInvariant, <1>1, PTL

\* No channel is lost to the pool, exceptions aside: one whose m_CurrState is 1 is
\* in the hands of a worker, even when several share it or creating some failed.
THEOREM NoChannelLost == Spec => []FlaggedIsHeld
<1>1. AnyPool => FlaggedIsHeld  BY DEF AnyPool
<1> QED  BY AnyPoolInvariant, <1>1, PTL

\* close_channel never erases a channel that a worker can still reach.
THEOREM CloseIsSafe == Spec => ClosedIsUnused
<1>1. AnyPool /\ [Next]_vars
        => [\A c \in Channels : channel[c] = "ready" /\ channel'[c] = "absent"
              => \A w \in Workers : pc[w] = "exited"]_vars
  <2> SUFFICES ASSUME AnyPool, Next, NEW c \in Channels,
                      channel[c] = "ready", channel'[c] = "absent"
               PROVE  \A w \in Workers : pc[w] = "exited"
    OBVIOUS
  <2>1. phase = "close"
    <3>1. CASE MainStep
      BY <3>1 DEF MainStep, InsertEntry, AssignEntry, CreateFails, CreateThrows, CreateDone,
                  Join, CloseChannel, UnloadLaserModule, Terminate, AnyPool, TypeOK
    <3>2. ASSUME NEW w \in Workers, WorkerStep(w) PROVE FALSE
      <4>1. channel' = channel
        BY <3>2 DEF WorkerStep, Progress, Receive, Reject, Lock, Register, RegisterFails,
                    ScanBusy, Claim, ScanNull, ScanEndShared, ScanEndEmpty, Stt, SttThrows,
                    Release, Reply, mainVars
      <4> QED  BY <4>1
    <3> QED  BY <3>1, <3>2 DEF Next
  <2> QED  BY <2>1 DEF AnyPool, ClosingIsAlone
<1> QED  BY AnyPoolInvariant, <1>1, PTL DEF Spec, Safety, ClosedIsUnused

-----------------------------------------------------------------------------
(* A full pool. *)

FullPool == ~EarlyJobs /\ ~Failures /\ Cardinality(Workers) <= NumChannels

\* While the map is filled, it is ready up to next and nobody has a job.
Filling ==
  phase = "create" =>
    /\ \A w \in Workers : pc[w] \in {"starting", "idle", "exited"}
    /\ \A c \in Channels : c < next => channel[c] = "ready"

\* While jobs are served, every channel is there.
Serving == phase = "join" => \A c \in Channels : channel[c] = "ready"

\* A worker that scans has a free channel in front of it.
FreeAhead ==
  \A w \in Workers : pc[w] = "scan" =>
    \E c \in Channels :
      currState[c] = 0 /\ (node[w] = NoChannel \/ Rank[c] > Rank[node[w]])

\* Nothing has thrown.
NothingFailed == phase # "crashed" /\ lost = {}

Full ==
  /\ AnyPool
  /\ NothingFailed
  /\ Filling
  /\ Serving
  /\ Exclusive
  /\ WorkingIsFlagged
  /\ FreeAhead
  /\ SuccessIsDecoded

\* Nobody holds anything at the start.
LEMMA FullInit == Init => Full
BY AnyPoolInit, PoolAssumption
   DEF Init, Full, NothingFailed, Filling, Serving, Exclusive, WorkingIsFlagged, FreeAhead,
       SuccessIsDecoded, Holds, Channels

\* Some channel is free whenever a worker holds none: the others are too few.
LEMMA SomeChannelIsFree ==
  ASSUME FullPool, TypeOK, FlaggedIsHeld, NothingFailed,
         NEW w \in Workers, pc[w] \notin {"stt", "release"}
  PROVE  \E c \in Channels : currState[c] = 0
<1> SUFFICES ASSUME \A c \in Channels : currState[c] = 1 PROVE FALSE
  BY DEF TypeOK
<1> DEFINE others == Workers \ {w}
<1>1. PICK holder \in [Channels -> others] : \A c \in Channels : Holds(holder[c], c)
  <2> DEFINE h == [c \in Channels |-> CHOOSE v \in Workers : Holds(v, c)]
  <2>1. \A c \in Channels : h[c] \in Workers /\ Holds(h[c], c)
    BY DEF FlaggedIsHeld, NothingFailed
  <2>2. h \in [Channels -> others]
    BY <2>1 DEF Holds
  <2> QED  BY <2>1, <2>2
<1>2. IsFiniteSet(others) /\ Cardinality(others) = Cardinality(Workers) - 1
  BY FS_RemoveElement, PoolAssumption
<1>3. IsFiniteSet(Channels) /\ Cardinality(Channels) = NumChannels
  <2>1. NumChannels - 1 \in Int /\ 0 \in Int  BY PoolAssumption
  <2>2. Cardinality(0 .. NumChannels - 1)
          = IF 0 > NumChannels - 1 THEN 0 ELSE (NumChannels - 1) - 0 + 1
    BY <2>1, FS_Interval
  <2> QED  BY <2>1, <2>2, FS_Interval, PoolAssumption DEF Channels
<1>4. Cardinality(others) < Cardinality(Channels)
  <2>1. Cardinality(Workers) \in Nat  BY FS_CardinalityType, PoolAssumption
  <2> QED  BY <1>2, <1>3, <2>1, PoolAssumption DEF FullPool
<1> HIDE DEF others
<1>5. \E x, y \in Channels : x # y /\ holder[x] = holder[y]
  BY <1>1, <1>2, <1>3, <1>4, FS_PigeonHole
<1> QED  BY <1>1, <1>5 DEF Holds

\* The steps of initialize keep the pool full.
LEMMA FullMainStep == FullPool /\ Full /\ MainStep => Full'
<1> SUFFICES ASSUME FullPool, Full, MainStep PROVE Full'
  OBVIOUS
<1>1. AnyPool'
  BY TypeStep, ClosingStep, FlaggedStep DEF Full, AnyPool, Next
<1>2. UNCHANGED <<currState, mxChannel, pc, node, rc, lost>>
  BY DEF MainStep, InsertEntry, AssignEntry, CreateFails, CreateThrows, CreateDone, Join,
         CloseChannel, UnloadLaserModule, FullPool
<1>3. NothingFailed' /\ Filling' /\ Serving'
  <2> USE <1>2, PoolAssumption
      DEF FullPool, Full, NothingFailed, AnyPool, TypeOK, Filling, Serving, Channels
  <2>1. CASE InsertEntry  BY <2>1 DEF InsertEntry
  <2>2. CASE AssignEntry  BY <2>2 DEF AssignEntry
  <2>3. CASE CreateDone  BY <2>3 DEF CreateDone
  <2>4. CASE Join  BY <2>4 DEF Join
  <2>5. CASE CloseChannel  BY <2>5 DEF CloseChannel
  <2>6. CASE UnloadLaserModule  BY <2>6 DEF UnloadLaserModule
  <2> QED  BY <2>1, <2>2, <2>3, <2>4, <2>5, <2>6
           DEF MainStep, CreateFails, CreateThrows
<1>4. Exclusive' /\ WorkingIsFlagged' /\ FreeAhead' /\ SuccessIsDecoded'
  BY <1>2 DEF Full, Exclusive, WorkingIsFlagged, FreeAhead, SuccessIsDecoded, Holds
<1> QED  BY <1>1, <1>3, <1>4 DEF Full

\* Once a worker has a job, initialize waits in join.
LEMMA BusyMeansJoin ==
  ASSUME Full, NEW w \in Workers, pc[w] \notin {"starting", "idle", "exited"}
  PROVE  phase = "join"
BY DEF Full, AnyPool, TypeOK, ClosingIsAlone, NothingFailed, Filling

\* A scan of a full pool ends with a claim only.
LEMMA NoOtherEnd ==
  ASSUME FullPool, Full, NEW w \in Workers
  PROVE  ~ScanNull(w) /\ ~ScanEndShared(w) /\ ~ScanEndEmpty(w)
<1> SUFFICES ASSUME pc[w] = "scan" PROVE ~ScanNull(w) /\ Ahead(w) # {}
  BY DEF ScanNull, ScanEndShared, ScanEndEmpty, Goto
<1>1. \A c \in Channels : channel[c] = "ready"
  BY BusyMeansJoin DEF Full, Serving
<1>2. PICK c \in Channels : node[w] = NoChannel \/ Rank[c] > Rank[node[w]]
  BY DEF Full, FreeAhead
<1>3. c \in Ahead(w)  BY <1>1, <1>2 DEF Ahead, InMap
<1> QED  BY <1>1, <1>3 DEF ScanNull

\* A worker that is not scanning moves without disturbing the pool.
LEMMA FullOutsideScan ==
  ASSUME FullPool, Full, NEW w \in Workers,
         Register(w) \/ RegisterFails(w) \/ Receive(w) \/ Reject(w) \/ Stt(w) \/ Reply(w)
  PROVE  Full'
<1>1. AnyPool'
  BY TypeStep, ClosingStep, FlaggedStep DEF Full, AnyPool, Next, WorkerStep, Progress
<1>2. UNCHANGED <<phase, next, channel, currState, mxChannel, lost>>
  BY DEF Register, RegisterFails, Receive, Reject, Stt, Reply, mainVars
<1>3. Filling' /\ Serving'
  BY <1>2 DEF Full, AnyPool, TypeOK, Filling, Serving, FullPool, JobsArrive, Goto,
              Register, RegisterFails, Receive, Reject, Stt, Reply
<1>4. \A v \in Workers, c \in Channels : Holds(v, c)' <=> Holds(v, c)
  BY DEF Full, AnyPool, TypeOK, Holds, Goto,
         Register, RegisterFails, Receive, Reject, Stt, Reply
<1>5. Exclusive' /\ WorkingIsFlagged'
  BY <1>2, <1>4 DEF Full, Exclusive, WorkingIsFlagged
<1>6. FreeAhead'
  BY <1>2 DEF Full, AnyPool, TypeOK, FreeAhead, Goto,
              Register, RegisterFails, Receive, Reject, Stt, Reply
<1>7. SuccessIsDecoded'
  BY DEF Full, AnyPool, TypeOK, SuccessIsDecoded, Goto,
         Register, RegisterFails, Receive, Reject, Stt, Reply
<1> QED  BY <1>1, <1>2, <1>3, <1>5, <1>6, <1>7 DEF Full, NothingFailed

\* A worker that takes the lock has a free channel ahead of it.
LEMMA FullLock ==
  ASSUME FullPool, Full, NEW w \in Workers, Lock(w)
  PROVE  Full'
<1>1. AnyPool'
  BY TypeStep, ClosingStep, FlaggedStep DEF Full, AnyPool, Next, WorkerStep
<1>2. /\ pc[w] = "lock" /\ pc' = [pc EXCEPT ![w] = "scan"] /\ mxChannel = NoWorker
      /\ UNCHANGED <<phase, next, channel, currState, node, rc, lost>>
  BY DEF Lock, Goto, mainVars
<1>3. Filling' /\ Serving'
  BY <1>2, BusyMeansJoin DEF Full, Filling, Serving
<1>4. \A v \in Workers, c \in Channels : Holds(v, c)' <=> Holds(v, c)
  BY <1>2 DEF Full, AnyPool, TypeOK, Holds
<1>5. Exclusive' /\ WorkingIsFlagged'
  BY <1>2, <1>4 DEF Full, Exclusive, WorkingIsFlagged
<1>6. PICK c \in Channels : currState[c] = 0
  BY <1>2, SomeChannelIsFree DEF Full, AnyPool
<1>7. node[w] = NoChannel
  BY <1>2 DEF Full, AnyPool, TypeOK
<1>8. FreeAhead'
  BY <1>2, <1>6, <1>7 DEF Full, AnyPool, TypeOK, FreeAhead
<1>9. SuccessIsDecoded'
  BY <1>2 DEF Full, AnyPool, TypeOK, SuccessIsDecoded
<1> QED  BY <1>1, <1>2, <1>3, <1>5, <1>8, <1>9 DEF Full, NothingFailed

\* A busy entry is left behind, the free one is still ahead.
LEMMA FullScanBusy ==
  ASSUME FullPool, Full, NEW w \in Workers, ScanBusy(w)
  PROVE  Full'
<1>1. AnyPool'
  BY TypeStep, ClosingStep, FlaggedStep DEF Full, AnyPool, Next, WorkerStep, Progress
<1>2. PICK c \in Channels :
        IsNext(w, c) /\ currState[c] = 1 /\ node' = [node EXCEPT ![w] = c]
  BY DEF ScanBusy
<1>3. /\ pc[w] = "scan" /\ mxChannel = w
      /\ UNCHANGED <<phase, next, channel, currState, mxChannel, pc, rc, lost>>
  BY DEF ScanBusy, mainVars, Full, AnyPool, TypeOK
<1>4. Filling' /\ Serving'
  BY <1>3 DEF Full, Filling, Serving
<1>5. \A v \in Workers, d \in Channels : Holds(v, d)' <=> Holds(v, d)
  BY <1>2, <1>3 DEF Full, AnyPool, TypeOK, Holds
<1>6. Exclusive' /\ WorkingIsFlagged'
  BY <1>3, <1>5 DEF Full, Exclusive, WorkingIsFlagged
<1>7. PICK d \in Channels :
        currState[d] = 0 /\ (node[w] = NoChannel \/ Rank[d] > Rank[node[w]])
  BY <1>3 DEF Full, FreeAhead
<1>8. d \in Ahead(w)
  BY <1>3, <1>7, BusyMeansJoin DEF Ahead, InMap, Full, Serving
<1>9. Rank[d] > Rank[c]
  <2>1. Rank[c] <= Rank[d]  BY <1>2, <1>8 DEF IsNext
  <2>2. c # d  BY <1>2, <1>7
  <2> QED  BY <2>1, <2>2, PoolAssumption
<1>10. FreeAhead'
  <2> SUFFICES ASSUME NEW v \in Workers, pc'[v] = "scan"
               PROVE  \E e \in Channels :
                        currState'[e] = 0 /\ (node'[v] = NoChannel \/ Rank[e] > Rank[node'[v]])
    BY DEF FreeAhead
  <2>1. v = w  BY <1>3 DEF Full, AnyPool, TypeOK
  <2> QED  BY <2>1, <1>2, <1>3, <1>7, <1>9 DEF Full, AnyPool, TypeOK
<1>11. SuccessIsDecoded'
  BY <1>2, <1>3 DEF Full, AnyPool, TypeOK, SuccessIsDecoded
<1> QED  BY <1>1, <1>3, <1>4, <1>6, <1>10, <1>11 DEF Full, NothingFailed

\* A claimed channel was in nobody's hands.
LEMMA FullClaim ==
  ASSUME FullPool, Full, NEW w \in Workers, Claim(w)
  PROVE  Full'
<1>1. AnyPool'
  BY TypeStep, ClosingStep, FlaggedStep DEF Full, AnyPool, Next, WorkerStep, Progress
<1>2. PICK c \in Channels : /\ currState[c] = 0
                            /\ node' = [node EXCEPT ![w] = c]
                            /\ currState' = [currState EXCEPT ![c] = 1]
                            /\ lost' = lost \ {c}
  BY DEF Claim
<1>3. /\ pc[w] = "scan" /\ pc' = [pc EXCEPT ![w] = "stt"] /\ mxChannel = w
      /\ UNCHANGED <<phase, next, channel, rc>>
  BY DEF Claim, Goto, mainVars, Full, AnyPool, TypeOK
<1>4. Filling' /\ Serving'
  BY <1>3, BusyMeansJoin DEF Full, Filling, Serving
<1>5. \A v \in Workers : ~Holds(v, c)
  BY <1>2 DEF Full, WorkingIsFlagged
<1>6. \A v \in Workers, d \in Channels :
        Holds(v, d)' <=> (IF v = w THEN d = c ELSE Holds(v, d))
  BY <1>2, <1>3 DEF Full, AnyPool, TypeOK, Holds
<1>7. Exclusive' /\ WorkingIsFlagged'
  BY <1>2, <1>3, <1>5, <1>6 DEF Full, AnyPool, TypeOK, Exclusive, WorkingIsFlagged
<1>8. FreeAhead'
  BY <1>3 DEF Full, AnyPool, TypeOK, FreeAhead
<1>9. SuccessIsDecoded'
  BY <1>2, <1>3 DEF Full, AnyPool, TypeOK, SuccessIsDecoded
<1> QED  BY <1>1, <1>2, <1>3, <1>4, <1>7, <1>8, <1>9 DEF Full, NothingFailed

\* A released channel had no other holder.
LEMMA FullRelease ==
  ASSUME FullPool, Full, NEW w \in Workers, Release(w)
  PROVE  Full'
<1>1. AnyPool'
  BY TypeStep, ClosingStep, FlaggedStep DEF Full, AnyPool, Next, WorkerStep, Progress
<1>2. /\ pc[w] = "release" /\ pc' = [pc EXCEPT ![w] = "reply"]
      /\ currState' = [currState EXCEPT ![node[w]] = 0]
      /\ lost' = lost \ {node[w]}
      /\ UNCHANGED <<phase, next, channel, mxChannel, node, rc>>
  BY DEF Release, Goto, mainVars
<1>3. Filling' /\ Serving'
  BY <1>2, BusyMeansJoin DEF Full, Filling, Serving
<1>4. node[w] \in Channels /\ Holds(w, node[w])
  BY <1>2 DEF Full, AnyPool, TypeOK, Holds
<1>5. \A v \in Workers, d \in Channels : Holds(v, d)' <=> v # w /\ Holds(v, d)
  BY <1>2 DEF Full, AnyPool, TypeOK, Holds
<1>6. \A v \in Workers, d \in Channels : Holds(v, d)' => d # node[w]
  BY <1>4, <1>5 DEF Full, Exclusive
<1>7. Exclusive' /\ WorkingIsFlagged'
  BY <1>2, <1>5, <1>6 DEF Full, AnyPool, TypeOK, Exclusive, WorkingIsFlagged
<1>8. FreeAhead'
  BY <1>2 DEF Full, AnyPool, TypeOK, FreeAhead
<1>9. SuccessIsDecoded'
  BY <1>2, <1>4, PoolAssumption DEF Full, AnyPool, TypeOK, SuccessIsDecoded
<1> QED  BY <1>1, <1>2, <1>3, <1>7, <1>8, <1>9 DEF Full, NothingFailed

\* A full pool stays full.
LEMMA FullStep == FullPool /\ Full /\ [Next]_vars => Full'
<1> SUFFICES ASSUME FullPool, Full, [Next]_vars PROVE Full'
  OBVIOUS
<1>1. CASE MainStep  BY <1>1, FullMainStep
<1>2. ASSUME NEW w \in Workers, WorkerStep(w) PROVE Full'
  BY <1>2, FullOutsideScan, FullLock, FullScanBusy, FullClaim, FullRelease, NoOtherEnd
     DEF WorkerStep, Progress, SttThrows, FullPool
<1>3. CASE UNCHANGED vars
  BY <1>3 DEF vars, mainVars, Full, AnyPool, TypeOK, ClosingIsAlone, FlaggedIsHeld,
              NothingFailed, Filling, Serving, Exclusive, WorkingIsFlagged, FreeAhead, SuccessIsDecoded, Holds
<1> QED  BY <1>1, <1>2, <1>3 DEF Next

\* The invariant of a full pool holds for ever.
LEMMA FullInvariant == ASSUME FullPool PROVE Spec => []Full
<1>1. Full /\ [Next]_vars => Full'  BY FullStep
<1> QED  BY FullInit, <1>1, PTL DEF Spec, Safety

\* In a full pool no two workers decode on one RealtimeSTT, whose buffers and
\* decoder state nothing else protects (rt.cc:220-322).
THEOREM FullPoolIsExclusive == ASSUME FullPool PROVE Spec => []Exclusive
<1>1. Full => Exclusive  BY DEF Full
<1> QED  BY FullInvariant, <1>1, PTL

\* In a full pool m_CurrState means what vr.hpp:152 says: it is 1 while a worker
\* decodes on the channel.
THEOREM FullPoolIsFlagged == ASSUME FullPool PROVE Spec => []WorkingIsFlagged
<1>1. Full => WorkingIsFlagged  BY DEF Full
<1> QED  BY FullInvariant, <1>1, PTL

\* In a full pool a job answered with success has been decoded.
THEOREM FullPoolDecodes == ASSUME FullPool PROVE Spec => []SuccessIsDecoded
<1>1. Full => SuccessIsDecoded  BY DEF Full
<1> QED  BY FullInvariant, <1>1, PTL

\* A full pool implements ChannelLease: every step of the code takes a channel
\* nobody holds, returns one, or leaves the leases alone.
THEOREM FullPoolLeases == ASSUME FullPool PROVE Spec => Lease!Safety
<1> DEFINE lease == [w \in Workers |->
                       IF pc[w] \in {"stt", "release"} THEN node[w] ELSE NoChannel]
<1>1. Init => Lease!Init
  BY DEF Init, Lease!Init
<1>2. Full /\ [Next]_vars => [Lease!Next]_lease
  <2> SUFFICES ASSUME Full, [Next]_vars PROVE Lease!Next \/ lease' = lease
    OBVIOUS
  <2> USE DEF Goto, mainVars
  <2>1. CASE MainStep
    BY <2>1 DEF MainStep, InsertEntry, AssignEntry, CreateFails, CreateThrows, CreateDone,
                Join, CloseChannel, UnloadLaserModule, FullPool
  <2>2. ASSUME NEW w \in Workers, Claim(w) PROVE Lease!Next
    <3>1. PICK c \in Channels : /\ currState[c] = 0
                                /\ node' = [node EXCEPT ![w] = c]
      BY <2>2 DEF Claim
    <3>2. pc[w] = "scan" /\ pc' = [pc EXCEPT ![w] = "stt"]
      BY <2>2 DEF Claim
    <3>3. \A v \in Workers : ~Holds(v, c)
      BY <3>1 DEF Full, WorkingIsFlagged
    <3>4. lease[w] = NoChannel /\ \A v \in Workers : lease[v] # c
      BY <3>2, <3>3, PoolAssumption DEF Holds
    <3>5. lease' = [lease EXCEPT ![w] = c]
      BY <3>1, <3>2 DEF Full, AnyPool, TypeOK
    <3> QED  BY <3>4, <3>5 DEF Lease!Next, Lease!Take
  <2>3. ASSUME NEW w \in Workers, Release(w) PROVE Lease!Next
    <3>1. /\ pc[w] = "release" /\ pc' = [pc EXCEPT ![w] = "reply"] /\ node' = node
          /\ node[w] # NoChannel
      BY <2>3 DEF Release, Full, AnyPool, TypeOK
    <3>2. lease[w] # NoChannel /\ lease' = [lease EXCEPT ![w] = NoChannel]
      BY <3>1 DEF Full, AnyPool, TypeOK
    <3> QED  BY <3>2 DEF Lease!Next, Lease!Return
  <2>4. ASSUME NEW w \in Workers,
               \/ Register(w) \/ RegisterFails(w) \/ Receive(w) \/ Reject(w)
               \/ Lock(w) \/ ScanBusy(w) \/ Stt(w) \/ Reply(w)
        PROVE  lease' = lease
    BY <2>4 DEF Full, AnyPool, TypeOK,
                Register, RegisterFails, Receive, Reject, Lock, ScanBusy, Stt, Reply
  <2>5. CASE UNCHANGED vars  BY <2>5 DEF vars
  <2> QED  BY <2>1, <2>2, <2>3, <2>4, <2>5, NoOtherEnd
           DEF Next, WorkerStep, Progress, SttThrows, FullPool
<1> QED  BY <1>1, <1>2, FullInvariant, PTL DEF Spec, Safety, Lease!Safety
=============================================================================
