------------------------------- MODULE Lasers -------------------------------
(***************************************************************************)
(* Who owns the recognisers of the vr server, and on which GPU they are:   *)
(* the main thread (initialize, loadLaserModule, create_channel,           *)
(* unloadLaserModule, ~VRServer in src/src/vr/vr.cc and vr_server.cc)      *)
(* creates one master laser, or one for each of two GPUs, and a child of   *)
(* it for each channel; a vr_stt thread creates one for each job           *)
(* (VRServer::stt, whose loop over the recording is the subject of         *)
(* Decode).  With two GPUs they all use idGPU and stt_job_count, members   *)
(* without a lock, to choose.                                              *)
(***************************************************************************)
EXTENDS WorkerDaemon

CONSTANTS
  SttThreads,   \* run("vr_stt", ...)
  Main,         \* the thread of main
  Channels,     \* getTotalWorkers("realtime")
  HasUnsegment, \* is getTotalWorkers("unsegment") above zero?
  GpuNums,      \* the values of stt.gpu_num to consider
  IdGpu         \* stt.idGPU

ASSUME LaserAssumption ==
  /\ SttThreads \subseteq Threads /\ Main \notin Threads
  /\ Channels \in Nat /\ HasUnsegment \in BOOLEAN
  /\ GpuNums \subseteq {1, 2}
  /\ IdGpu \in Nat

Creators == SttThreads \cup {Main}

VARIABLES
  numGPU,          \* never changes
  main,            \* where the main thread is
  masters,         \* the master lasers that exist: "one", or "gpu0" and "gpu1"
  sil, sil_frees,  \* has the buffer `sil` been allocated; how often freed
  post,            \* has the post-processor been initialised and not closed?
  channel,         \* the children of the channels
  idGPU, stt_job_count,
  at,              \* where each thread is on its way to a child
  count,           \* what it has read of stt_job_count
  target,          \* the master it has chosen
  child,           \* the child of its job, 0 for none
  children,        \* the children that exist, each with its number, its master, the
                   \*   GPU it was created for, and whether it is used or leaked
  raced            \* history: has another thread written idGPU since it did?

gpuVars == <<idGPU, stt_job_count, raced>>
localVars == <<at, count, target, child>>
moduleVars == <<masters, sil, sil_frees, post>>
laserVars == <<numGPU, main, moduleVars, channel, gpuVars, localVars, children>>

LaserInit ==
  /\ numGPU \in GpuNums
  /\ main = "load"
  /\ masters = {} /\ sil = FALSE /\ sil_frees = 0 /\ post = FALSE
  /\ channel = {}
  /\ idGPU = IdGpu /\ stt_job_count = 1
  /\ at = [p \in Creators |-> "idle"]
  /\ count = [p \in Creators |-> 0]
  /\ target = [p \in Creators |-> "one"]
  /\ child = [p \in Creators |-> 0]
  /\ children = {}
  /\ raced = [p \in Creators |-> FALSE]

-----------------------------------------------------------------------------
(* loadLaserModule and unloadLaserModule. *)

Alive == main \notin {"end", "aborted"}

MainGoto(from, to) ==
  /\ main = from /\ main' = to
  /\ UNCHANGED numGPU

AllMasters == IF numGPU = 2 THEN {"gpu0", "gpu1"} ELSE {"one"}

\* sil_dnn cannot be opened, or a master cannot be created: what there is of the
\* module is not unloaded.
LoadFails ==
  /\ MainGoto("load", "destroy")
  /\ masters' \in {{}, {"gpu0"} \cap AllMasters}
  /\ UNCHANGED <<sil, sil_frees, post, channel, gpuVars, localVars, children, daemonVars>>

CreateMasters ==
  /\ MainGoto("load", "configure")
  /\ masters' = AllMasters
  /\ UNCHANGED <<sil, sil_frees, post, channel, gpuVars, localVars, children, daemonVars>>

\* The masters are freed and their pointers cleared; `sil` is freed, but the
\* pointer stays.
UnloadLaserModule ==
  /\ masters' = {}
  /\ sil_frees' = IF sil THEN sil_frees + 1 ELSE sil_frees
  /\ post' = FALSE
  /\ UNCHANGED sil

\* readSLaserConfig fails, or malloc.
ConfigureFails ==
  /\ MainGoto("configure", "destroy")
  /\ UnloadLaserModule
  /\ UNCHANGED <<channel, gpuVars, localVars, children, daemonVars>>

AllocateSil ==
  /\ MainGoto("configure", "post")
  /\ sil' = TRUE
  /\ UNCHANGED <<masters, sil_frees, post, channel, gpuVars, localVars, children, daemonVars>>

\* The silence cannot be read, or Lat2cnWordNbestOutInit fails.
PostFails ==
  /\ MainGoto("post", "destroy")
  /\ UnloadLaserModule
  /\ UNCHANGED <<channel, gpuVars, localVars, children, daemonVars>>

\* Without workers for "unsegment" nobody needs the post-processor.
InitPost ==
  /\ MainGoto("post", "run")
  /\ post' = HasUnsegment
  /\ UNCHANGED <<masters, sil, sil_frees, channel, gpuVars, localVars, children, daemonVars>>

-----------------------------------------------------------------------------
(* The rest of initialize, and the destructor. *)

\* The threads for vr_stt are the first.
RunThread ==
  /\ main = "run"
  /\ \E w \in Threads :
       /\ w \notin SttThreads => \A s \in SttThreads : thread[s] # "none"
       /\ StartThread(w)
  /\ UNCHANGED laserVars

AllRun ==
  /\ \A w \in Threads : thread[w] # "none"
  /\ MainGoto("run", "channels")
  /\ UNCHANGED <<moduleVars, channel, gpuVars, localVars, children, daemonVars>>

\* std::thread or an allocation of create_channel throws: the stack is unwound
\* past join, and ~VRServer unloads the module, whoever still uses it; then the
\* destructor of a thread that can be joined ends the process.
Throw ==
  /\ main \in {"run", "channels"} /\ at[Main] = "idle"
  /\ main' = "unwind"
  /\ UNCHANGED <<numGPU, moduleVars, channel, gpuVars, localVars, children, daemonVars>>

\* create_channel for each of the channels, whether or not it succeeds: `count`
\* is how many the loop has tried.
NextChannel ==
  /\ main = "channels" /\ at[Main] = "idle"
  /\ count[Main] < Channels
  /\ at' = [at EXCEPT ![Main] = "choose"]
  /\ count' = [count EXCEPT ![Main] = @ + 1]
  /\ UNCHANGED <<numGPU, main, moduleVars, channel, gpuVars, target, child, children,
                 daemonVars>>

ChannelsDone ==
  /\ count[Main] = Channels /\ at[Main] = "idle"
  /\ MainGoto("channels", "join")
  /\ UNCHANGED <<moduleVars, channel, gpuVars, localVars, children, daemonVars>>

Join ==
  /\ Joined
  /\ MainGoto("join", "close")
  /\ UNCHANGED <<moduleVars, channel, gpuVars, localVars, children, daemonVars>>

Numbered(S) == {c \in children : c.no \in S}

\* close_channel for each channel: no thread holds its RealtimeSTT any more.
CloseChannels ==
  /\ MainGoto("close", "unload")
  /\ channel' = {}
  /\ children' = children \ Numbered(channel)
  /\ UNCHANGED <<moduleVars, gpuVars, localVars, daemonVars>>

Unload ==
  /\ MainGoto("unload", "destroy")
  /\ UnloadLaserModule
  /\ UNCHANGED <<channel, gpuVars, localVars, children, daemonVars>>

\* ~VRServer looks at master_laser, which two GPUs do not use.
Destroy ==
  /\ main \in {"destroy", "unwind"}
  /\ main' = IF main = "destroy" THEN "end" ELSE "aborted"
  /\ IF "one" \in masters THEN UnloadLaserModule ELSE UNCHANGED moduleVars
  /\ UNCHANGED <<numGPU, channel, gpuVars, localVars, children, daemonVars>>

-----------------------------------------------------------------------------
(* A child, for a channel or for a job. *)

AtGoto(p, from, to) ==
  /\ Alive
  /\ at[p] = from
  /\ at' = [at EXCEPT ![p] = to]
  /\ UNCHANGED <<numGPU, main, moduleVars>>

\* __job_stt calls stt.
BeginStt(w) ==
  /\ AtGoto(w, "idle", "choose")
  /\ TakeJob(w)
  /\ UNCHANGED <<channel, gpuVars, count, target, child, children>>

\* Where a return leaves the thread: a job is over, create_channel is called again.
Return(p) == IF p = Main THEN UNCHANGED daemonVars ELSE EndJob(p)

\* The front end cannot be created or configured.
NoFrontEnd(p) ==
  /\ AtGoto(p, "choose", "idle")
  /\ Return(p)
  /\ UNCHANGED <<channel, gpuVars, count, target, child, children>>

OneGpu(p) ==
  /\ numGPU = 1
  /\ AtGoto(p, "choose", "create")
  /\ UNCHANGED <<channel, gpuVars, count, target, child, children, daemonVars>>

\* idGPU = stt_job_count % 2; in create_channel the parameter of this name hides
\* the member, and is channel.size().
ChooseGpu(p) ==
  /\ numGPU = 2
  /\ AtGoto(p, "choose", "branch")
  /\ idGPU' = (IF p = Main THEN Cardinality(channel) ELSE stt_job_count) % 2
  /\ raced' = [q \in Creators |-> q # p /\ at[q] \in {"branch", "create"}]
  /\ UNCHANGED <<stt_job_count, channel, count, target, child, children, daemonVars>>

\* The branches are swapped.
BranchMutant(p) ==
  /\ AtGoto(p, "branch", "create")
  /\ target' = [target EXCEPT ![p] = IF idGPU = 0 THEN "gpu1" ELSE "gpu0"]
  /\ UNCHANGED <<channel, gpuVars, count, child, children, daemonVars>>

\* if (idGPU == 0)
Branch(p) ==
  /\ AtGoto(p, "branch", "create")
  /\ target' = [target EXCEPT ![p] = IF idGPU = 0 THEN "gpu0" ELSE "gpu1"]
  /\ UNCHANGED <<channel, gpuVars, count, child, children, daemonVars>>

\* The next child gets the place of one that is gone.
Free == CHOOSE n \in 1 .. Cardinality(children) + 1 : Numbered({n}) = {}

\* What led to the choice of a GPU is of no further use.
Forget(p) ==
  /\ target' = [target EXCEPT ![p] = "one"]
  /\ raced' = [raced EXCEPT ![p] = FALSE]

\* createChildLaserDNN(target, ..., idGPU, ...), where idGPU is read again.
CreateChild(p) ==
  /\ AtGoto(p, "create", IF p = Main THEN "channel" ELSE IF numGPU = 2 THEN "count" ELSE "decode")
  /\ child' = [child EXCEPT ![p] = Free]
  /\ children' = children \cup {[no |-> Free, master |-> target[p], gpu |-> idGPU,
                                 raced |-> raced[p], fate |-> "used"]}
  /\ Forget(p)
  /\ UNCHANGED <<channel, idGPU, stt_job_count, count, daemonVars>>

\* It returns NULL, and stt_job_count stays: the next job tries the same GPU.
NoChild(p) ==
  /\ AtGoto(p, "create", "idle")
  /\ Return(p)
  /\ Forget(p)
  /\ UNCHANGED <<channel, idGPU, stt_job_count, count, child, children>>

\* stt_job_count++ reads ...
ReadCount(w) ==
  /\ AtGoto(w, "count", "increment")
  /\ count' = [count EXCEPT ![w] = stt_job_count]
  /\ UNCHANGED <<channel, gpuVars, target, child, children, daemonVars>>

\* ... and writes.
WriteCount(w) ==
  /\ AtGoto(w, "increment", "decode")
  /\ stt_job_count' = count[w] + 1
  /\ count' = [count EXCEPT ![w] = 0]
  /\ UNCHANGED <<idGPU, raced, channel, target, child, children, daemonVars>>

Own(p) == Numbered({child[p]})
LetGo(p) == child' = [child EXCEPT ![p] = 0]

\* channel[call_id] = realtime_stt
AddChannel ==
  /\ main = "channels"
  /\ AtGoto(Main, "channel", "idle")
  /\ channel' = channel \cup {child[Main]}
  /\ LetGo(Main)
  /\ UNCHANGED <<gpuVars, count, target, children, daemonVars>>

\* malloc(feature_vector) fails: a shared_ptr frees the child.
NoChannel ==
  /\ AtGoto(Main, "channel", "idle")
  /\ children' = children \ Own(Main)
  /\ LetGo(Main)
  /\ UNCHANGED <<channel, gpuVars, count, target, daemonVars>>

\* The child is freed when a new one is about to be created.
SttSucceedsMutant(w) ==
  /\ AtGoto(w, "decode", "idle")
  /\ EndJob(w)
  /\ LetGo(w)
  /\ UNCHANGED <<channel, gpuVars, count, target, children>>

\* freeChildLaserDNN, at the end of stt.
SttSucceeds(w) ==
  /\ AtGoto(w, "decode", "idle")
  /\ EndJob(w)
  /\ children' = children \ Own(w)
  /\ LetGo(w)
  /\ UNCHANGED <<channel, gpuVars, count, target>>

\* The thread keeps what it has leaked.
SttFailsMutant(w) ==
  /\ AtGoto(w, "decode", "idle")
  /\ EndJob(w)
  /\ children' = {IF c \in Own(w) THEN [c EXCEPT !.fate = "leaked"] ELSE c : c \in children}
  /\ UNCHANGED <<channel, gpuVars, count, target, child>>

\* Every other return, and an exception, leaves the child behind.
SttFails(w) ==
  /\ AtGoto(w, "decode", "idle")
  /\ EndJob(w)
  /\ children' = {IF c \in Own(w) THEN [c EXCEPT !.fate = "leaked"] ELSE c : c \in children}
  /\ LetGo(w)
  /\ UNCHANGED <<channel, gpuVars, count, target>>

-----------------------------------------------------------------------------

RegisterThread(w) ==
  /\ Alive
  /\ Register(w) \/ RegisterFails(w)
  /\ UNCHANGED laserVars

MainStep ==
  \/ LoadFails \/ CreateMasters \/ ConfigureFails \/ AllocateSil \/ PostFails \/ InitPost
  \/ RunThread \/ AllRun \/ NextChannel \/ ChannelsDone \/ Join
  \/ CloseChannels \/ Unload \/ Destroy \/ AddChannel \/ NoChannel

CreatorStep(p) ==
  NoFrontEnd(p) \/ OneGpu(p) \/ ChooseGpu(p) \/ Branch(p) \/ CreateChild(p) \/ NoChild(p)

SttStep(w) == CreatorStep(w) \/ ReadCount(w) \/ WriteCount(w) \/ SttSucceeds(w) \/ SttFails(w)

LaserStep ==
  \/ MainStep \/ CreatorStep(Main) \/ Throw
  \/ \E w \in Threads : RegisterThread(w)
  \/ \E w \in SttThreads : BeginStt(w) \/ SttStep(w)

-----------------------------------------------------------------------------
(* Properties *)

\* Every variable of this module has its type, and a thread has a child exactly
\* between its creation and the end of the job or of create_channel.
LaserTypeOK ==
  /\ numGPU \in GpuNums
  /\ main \in {"load", "configure", "post", "run", "channels", "join", "close", "unload",
               "destroy", "unwind", "end", "aborted"}
  /\ masters \subseteq {"one", "gpu0", "gpu1"}
  /\ sil \in BOOLEAN /\ sil_frees \in Nat /\ post \in BOOLEAN
  /\ idGPU \in Nat /\ stt_job_count \in 1 .. MaxJobs + 1
  /\ at \in [Creators -> {"idle", "choose", "branch", "create", "count", "increment",
                          "decode", "channel"}]
  /\ count \in [Creators -> Nat]
  /\ target \in [Creators -> {"one", "gpu0", "gpu1"}]
  /\ child \in [Creators -> Nat]
  /\ \A p \in Creators : child[p] # 0 <=> at[p] \in {"count", "increment", "decode", "channel"}
  /\ channel \subseteq Nat
  /\ children \subseteq [no : Nat, master : {"one", "gpu0", "gpu1"}, gpu : Nat,
                         raced : BOOLEAN, fate : {"used", "leaked"}]
  /\ raced \in [Creators -> BOOLEAN]

\* A child that no failed job has leaked belongs to exactly one job in progress or
\* channel, and each of those has its child: no path through stt and
\* create_channel frees a child that another thread has, or frees one twice, or
\* loses one of a job that succeeds.
ChildFate ==
  LET Users(n) == {p \in Creators : child[p] = n} \cup {i \in channel : i = n}
      Used == {c.no : c \in {d \in children : d.fate = "used"}}
  IN  /\ \A n \in Used : Cardinality(Users(n)) = 1
      /\ \A p \in Creators : child[p] # 0 => child[p] \in Used
      /\ channel \subseteq Used

GpuOf(master) == IF master = "gpu0" THEN 0 ELSE 1

\* A child is created with the GPU of its master, unless another thread has
\* written idGPU meanwhile: the race is the only way to mix them up.
GpuOfChild ==
  \A c \in children : numGPU = 2 /\ ~c.raced => c.gpu = GpuOf(c.master)

\* The masters outlive the children that are in use, unless an exception ends
\* the server.
MastersLast ==
  main # "aborted" => \A c \in children : c.fate = "used" => c.master \in masters

\* `sil`, of which a stale pointer is kept, is freed once, whichever way the
\* server ends.
SilOnce == sil_frees <= 1
=============================================================================
