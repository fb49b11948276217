--------------------------- MODULE VrServerProofs ---------------------------
(***************************************************************************)
(* What VrServer promises for every number of threads, channels and jobs.  *)
(***************************************************************************)
EXTENDS VrServer, FiniteSetTheorems, TLAPS

-----------------------------------------------------------------------------
(* The jobs on text. *)

\* The steps of Lasers leave the jobs on text alone.
LEMMA ByText ==
  ASSUME [Next]_vars
  PROVE  \/ UNCHANGED textVars
         \/ \E w \in TextThreads : TextStep(w) \/ \E h \in Handles : BeginText(w, h)
BY DEF Next, vars, RunText

\* The types of the variables of TextJob.
LEMMA TextTypeStep ==
  ASSUME TextTypeOK, taken' \in 0 .. MaxJobs, [Next]_vars
  PROVE  TextTypeOK'
<1> USE TextAssumption, DaemonAssumption DEF TextTypeOK, Contents
<1>1. CASE UNCHANGED textVars  BY <1>1 DEF textVars
<1>2. ASSUME NEW w \in TextThreads, NEW h \in Handles, BeginText(w, h) PROVE TextTypeOK'
  BY <1>2 DEF BeginText
<1>3. ASSUME NEW w \in TextThreads, TextStep(w) PROVE TextTypeOK'
  <2>1. NoJob \in [no : 0 .. MaxJobs, handle : Handles]
    BY DEF NoJob
  <2>2. /\ Payload(w) \in Contents
        /\ \A done \in {"all", "part"} : <<tjob[w].no, done>> \in Contents
        /\ \A e \in {"mlf", "txt", "cls"} : File(w, e) \in Paths
        /\ Output(w) \in Paths
    BY DEF Payload, File, Output, Paths
  <2> USE <2>1, <2>2 DEF TextGoto, Fail, Answer
  <2>3. CASE TooSmall(w)  BY <2>3 DEF TooSmall
  <2>4. CASE Unsegment(w)  BY <2>4 DEF Unsegment
  <2>5. CASE UnsegmentThrows(w)  BY <2>5 DEF UnsegmentThrows
  <2>6. CASE SaveData(w)  BY <2>6 DEF SaveData
  <2>7. CASE Convert(w)  BY <2>7 DEF Convert
  <2>8. CASE ConvertFails(w)  BY <2>8 DEF ConvertFails
  <2>9. CASE ReadText(w)  BY <2>9 DEF ReadText
  <2>10. CASE ReadFails(w)  BY <2>10 DEF ReadFails
  <2>11. CASE RemoveFiles(w)  BY <2>11 DEF RemoveFiles
  <2>12. CASE SendComplete(w)  BY <2>12 DEF SendComplete
  <2> QED  BY <1>3, <2>3, <2>4, <2>5, <2>6, <2>7, <2>8, <2>9, <2>10, <2>11, <2>12 DEF TextStep
<1> QED  BY <1>1, <1>2, <1>3, ByText

\* A job that met no other job of its handle is alone with its files ...
Alone ==
  \A v, w \in TextThreads :
    /\ v # w /\ tpc[v] # "idle" /\ tpc[w] # "idle"
    /\ tjob[v].handle = tjob[w].handle
    => clash[v] /\ clash[w]

\* ... and what it read last was made from its payload, if that was saved.
Following ==
  \A w \in TextThreads :
    saved[w] /\ ~clash[w] =>
      /\ tpc[w] = "convert" => kind[w] # "only" /\ files[File(w, "mlf")] = Payload(w)
      /\ tpc[w] = "read" => kind[w] # "only" /\ files[Output(w)] = Payload(w)
      /\ tpc[w] \in {"remove", "send"} => text[w] = Payload(w)

\* A job that begins is told of every other job of its handle, and marks them.
LEMMA AloneStep == ASSUME TextTypeOK, Alone, [Next]_vars PROVE Alone'
<1> USE DEF Alone
<1>1. CASE UNCHANGED textVars  BY <1>1 DEF textVars
<1>2. ASSUME NEW w \in TextThreads, NEW h \in Handles, BeginText(w, h) PROVE Alone'
  <2> DEFINE others == {v \in TextThreads \ {w} : tpc[v] # "idle" /\ tjob[v].handle = h}
  <2>1. /\ tpc[w] = "idle" /\ tpc' = [tpc EXCEPT ![w] = "check"]
        /\ tjob' = [tjob EXCEPT ![w] = [no |-> taken', handle |-> h]]
        /\ clash' = [v \in TextThreads |-> IF v = w THEN others # {} ELSE clash[v] \/ v \in others]
    BY <1>2 DEF BeginText
  <2> QED  BY <2>1 DEF TextTypeOK
<1>3. ASSUME NEW w \in TextThreads, TextStep(w) PROVE Alone'
  <2>1. \A v \in TextThreads : tpc'[v] # "idle" =>
          tpc[v] # "idle" /\ tjob'[v] = tjob[v] /\ clash'[v] = clash[v]
    <3> USE DEF TextTypeOK, TextGoto, Fail, Answer
    <3>1. CASE TooSmall(w) \/ UnsegmentThrows(w) \/ ConvertFails(w) \/ ReadFails(w)
               \/ SendComplete(w)
      BY <3>1 DEF TooSmall, UnsegmentThrows, ConvertFails, ReadFails, SendComplete
    <3>2. CASE Unsegment(w) \/ SaveData(w) \/ Convert(w) \/ ReadText(w) \/ RemoveFiles(w)
      BY <3>2 DEF Unsegment, SaveData, Convert, ReadText, RemoveFiles
    <3> QED  BY <1>3, <3>1, <3>2 DEF TextStep
  <2> QED  BY <2>1
<1> QED  BY <1>1, <1>2, <1>3, ByText

\* Another job's step changes no file of a job that is alone.
LEMMA FollowingStep == ASSUME TextTypeOK, Alone, Following, [Next]_vars PROVE Following'
<1> USE DEF Following
<1>1. CASE UNCHANGED textVars  BY <1>1 DEF textVars, File, Output, Payload
<1>2. ASSUME NEW w \in TextThreads, NEW h \in Handles, BeginText(w, h) PROVE Following'
  BY <1>2 DEF BeginText, TextTypeOK, File, Output, Payload
<1>3. ASSUME NEW w \in TextThreads, TextStep(w) PROVE Following'
  <2> SUFFICES ASSUME NEW v \in TextThreads, saved'[v], ~clash'[v]
      PROVE /\ tpc'[v] = "convert" => kind'[v] # "only" /\ files'[File(v, "mlf")'] = Payload(v)'
            /\ tpc'[v] = "read" => kind'[v] # "only" /\ files'[Output(v)'] = Payload(v)'
            /\ tpc'[v] \in {"remove", "send"} => text'[v] = Payload(v)'
    OBVIOUS
  <2> USE DEF TextTypeOK, TextGoto, Fail, Answer, File, Output, Payload, Paths
  <2>1. CASE v = w
    <3>1. CASE TooSmall(w) \/ UnsegmentThrows(w) \/ ConvertFails(w) \/ ReadFails(w)
               \/ SendComplete(w)
      BY <2>1, <3>1 DEF TooSmall, UnsegmentThrows, ConvertFails, ReadFails, SendComplete
    <3>2. CASE Unsegment(w)  BY <2>1, <3>2 DEF Unsegment
    <3>3. CASE SaveData(w)
      <4>1. PICK done \in {"all", "part", "nothing"} :
              /\ files' = IF done = "nothing" THEN files
                          ELSE [files EXCEPT ![File(w, "mlf")] = <<tjob[w].no, done>>]
              /\ saved' = [saved EXCEPT ![w] = done = "all"]
        BY <3>3 DEF SaveData
      <4>2. done = "all"  BY <2>1, <4>1
      <4>3. files'[File(w, "mlf")] = Payload(w)  BY <4>1, <4>2
      <4>4. tpc'[w] = "convert" /\ tjob' = tjob /\ kind' = kind /\ kind[w] # "only"
        BY <3>3 DEF SaveData
      <4> QED  BY <2>1, <4>3, <4>4
    <3>4. CASE Convert(w)
      <4>1. tpc[w] = "convert" /\ tpc'[w] = "read" /\ UNCHANGED <<tjob, kind, saved, clash>>
        BY <3>4 DEF Convert
      <4>2. kind[w] # "only" /\ files[File(w, "mlf")] = Payload(w)  BY <2>1, <4>1
      <4>3. files' = [files EXCEPT ![Output(w)] = files[File(w, "mlf")]]
        BY <3>4 DEF Convert
      <4>4. files'[Output(w)] = Payload(w)  BY <4>2, <4>3
      <4> QED  BY <2>1, <4>1, <4>2, <4>4
    <3>5. CASE ReadText(w)
      <4>1. tpc[w] = "read" /\ tpc'[w] = "remove" /\ UNCHANGED <<tjob, kind, saved, clash>>
        BY <3>5 DEF ReadText
      <4>2. files[Output(w)] = Payload(w)  BY <2>1, <4>1
      <4>3. text' = [text EXCEPT ![w] = files[Output(w)]]
        BY <3>5 DEF ReadText
      <4>4. text'[w] = Payload(w)  BY <4>2, <4>3
      <4> QED  BY <2>1, <4>1, <4>4
    <3>6. CASE RemoveFiles(w)
      <4>1. /\ tpc[w] = "remove" /\ tpc'[w] = "send"
            /\ UNCHANGED <<tjob, kind, text, saved, clash>>
        BY <3>6 DEF RemoveFiles
      <4> QED  BY <2>1, <4>1
    <3> QED  BY <1>3, <3>1, <3>2, <3>3, <3>4, <3>5, <3>6 DEF TextStep
  <2>2. CASE v # w
    <3>1. tpc[w] # "idle" /\ UNCHANGED <<tpc[v], tjob[v], kind[v], text[v], saved[v], clash[v]>>
      <4>1. CASE TooSmall(w) \/ UnsegmentThrows(w) \/ ConvertFails(w) \/ ReadFails(w)
                 \/ SendComplete(w)
        BY <2>2, <4>1 DEF TooSmall, UnsegmentThrows, ConvertFails, ReadFails, SendComplete
      <4>2. CASE Unsegment(w) \/ SaveData(w) \/ Convert(w) \/ ReadText(w) \/ RemoveFiles(w)
        BY <2>2, <4>2 DEF Unsegment, SaveData, Convert, ReadText, RemoveFiles
      <4> QED  BY <1>3, <4>1, <4>2 DEF TextStep
    <3>2. tpc[v] # "idle" => tjob[v].handle # tjob[w].handle
      BY <2>2, <3>1 DEF Alone
    <3>3. \A p \in Paths : p[1] # tjob[w].handle => files'[p] = files[p]
      <4> SUFFICES ASSUME NEW p \in Paths, p[1] # tjob[w].handle PROVE files'[p] = files[p]
        OBVIOUS
      <4>1. \A e : p # File(w, e)  OBVIOUS
      <4>2. p # Output(w)  BY <4>1
      <4>3. files \in [Paths -> Contents]  OBVIOUS
      <4> HIDE DEF TextTypeOK, File, Output, Payload, Paths
      <4>4. CASE SaveData(w)  BY <4>1, <4>3, <4>4 DEF SaveData
      <4>5. CASE Convert(w)  BY <4>2, <4>3, <4>5 DEF Convert
      <4>6. CASE ConvertFails(w)  BY <4>2, <4>3, <4>6 DEF ConvertFails
      <4>7. CASE RemoveFiles(w)  BY <4>1, <4>2, <4>3, <4>7 DEF RemoveFiles
      <4>8. CASE UNCHANGED files  BY <4>8
      <4> QED  BY <1>3, <4>4, <4>5, <4>6, <4>7, <4>8
               DEF TextStep, TooSmall, UnsegmentThrows, ReadFails, SendComplete, Unsegment, ReadText
    <3>4. \A e \in {"mlf", "txt", "cls"} : tpc[v] # "idle" => files'[File(v, e)] = files[File(v, e)]
      BY <3>2, <3>3
    <3>5. tpc[v] # "idle" => files'[Output(v)] = files[Output(v)]
      BY <3>4
    <3> QED  BY <3>1, <3>4, <3>5
  <2> QED  BY <2>1, <2>2
<1> QED  BY <1>1, <1>2, <1>3, ByText

-----------------------------------------------------------------------------
(* The steps as the recognisers see them. *)

\* A step of a job on text: it begins, goes on or ends.
TextMove(w) ==
  /\ Alive
  /\ UNCHANGED laserVars /\ is_running' = is_running
  /\ \/ thread' = thread /\ taken' = taken
     \/ thread[w] = "busy" /\ thread' = [thread EXCEPT ![w] = "loop"] /\ taken' = taken
     \/ thread[w] = "loop" /\ thread' = [thread EXCEPT ![w] = "busy"]
        /\ taken < MaxJobs /\ taken' = taken + 1

SttStepOnly(w) ==
  BeginStt(w) \/ ReadCount(w) \/ WriteCount(w) \/ SttSucceeds(w) \/ SttFails(w)

\* Every step is one of main, of the recognisers, of a worker that registers, or
\* of a job on text, of which the recognisers see the thread only.
LEMMA Steps ==
  ASSUME [Next]_vars
  PROVE  \/ MainStep \/ Throw
         \/ \E p \in Creators : CreatorStep(p)
         \/ \E w \in SttThreads : SttStepOnly(w)
         \/ \E w \in Threads : RegisterThread(w)
         \/ \E w \in TextThreads : TextMove(w)
         \/ UNCHANGED <<daemonVars, laserVars>>
<1>1. CASE LaserStep
  BY <1>1 DEF LaserStep, SttStep, SttStepOnly, Creators
<1>2. ASSUME NEW w \in TextThreads, RunText(w) PROVE TextMove(w)
  BY <1>2 DEF RunText, TextStep, TextMove, TextGoto, Fail, Answer, TooSmall, Unsegment,
              UnsegmentThrows, SaveData, Convert, ConvertFails, ReadText, ReadFails,
              RemoveFiles, SendComplete, EndJob, ThreadGoto, daemonVars
<1>3. ASSUME NEW w \in TextThreads, NEW h \in Handles, Alive, BeginText(w, h),
             UNCHANGED laserVars
      PROVE  TextMove(w)
  BY <1>3 DEF TextMove, BeginText, TakeJob, ThreadGoto
<1>4. CASE UNCHANGED vars  BY <1>4 DEF vars
<1> QED  BY <1>1, <1>2, <1>3, <1>4 DEF Next

Threading ==
  /\ thread \in [Threads -> {"none", "register", "loop", "busy", "exited"}]
  /\ is_running \in BOOLEAN /\ taken \in 0 .. MaxJobs

\* The types of the variables of WorkerDaemon.
LEMMA ThreadingStep == ASSUME Threading, [Next]_vars PROVE Threading'
<1> USE DaemonAssumption, LaserAssumption, TextAssumption
    DEF Threading, ThreadGoto, StartThread, Register, RegisterFails, TakeJob, EndJob
<1>1. CASE MainStep
  BY <1>1 DEF MainStep, LoadFails, CreateMasters, ConfigureFails, AllocateSil, PostFails, InitPost,
              RunThread, AllRun, NextChannel, ChannelsDone, Join, CloseChannels, Unload, Destroy,
              AddChannel, NoChannel, daemonVars
<1>2. CASE Throw  BY <1>2 DEF Throw, daemonVars
<1>3. ASSUME NEW p \in Creators, CreatorStep(p) PROVE Threading'
  BY <1>3 DEF CreatorStep, NoFrontEnd, OneGpu, ChooseGpu, Branch, CreateChild, NoChild,
              Return, Creators, daemonVars
<1>4. ASSUME NEW w \in SttThreads, SttStepOnly(w) PROVE Threading'
  BY <1>4 DEF SttStepOnly, BeginStt, ReadCount, WriteCount, SttSucceeds, SttFails, daemonVars
<1>5. ASSUME NEW w \in Threads, RegisterThread(w) PROVE Threading'
  BY <1>5 DEF RegisterThread
<1>6. ASSUME NEW w \in TextThreads, TextMove(w) PROVE Threading'
  BY <1>6 DEF TextMove
<1>7. CASE UNCHANGED <<daemonVars, laserVars>>  BY <1>7 DEF daemonVars
<1> QED  BY <1>1, <1>2, <1>3, <1>4, <1>5, <1>6, <1>7, Steps

\* The place of the next child is a number that no child has.
LEMMA FreeIsFree ==
  ASSUME IsFiniteSet(children), \A c \in children : c.no \in Nat
  PROVE  Free \in Nat \ {0} /\ \A c \in children : c.no # Free
<1> DEFINE n == Cardinality(children)
           places == 1 .. n + 1
           numbers == {c.no : c \in children}
<1>1. n \in Nat  BY FS_CardinalityType
<1>2. IsFiniteSet(numbers) /\ Cardinality(numbers) <= n
  <2> DEFINE number == [c \in children |-> c.no]
  <2>1. number \in Surjection(children, numbers)  BY DEF Surjection
  <2> HIDE DEF number
  <2> QED  BY <2>1, FS_Surjection
<1>3. IsFiniteSet(places) /\ Cardinality(places) = n + 1
  <2>1. 1 \in Int /\ n + 1 \in Int  BY <1>1
  <2>2. Cardinality(places) = IF 1 > n + 1 THEN 0 ELSE (n + 1) - 1 + 1
    BY <2>1, FS_Interval
  <2> QED  BY <2>1, <2>2, <1>1, FS_Interval
<1>4. \E i \in places : i \notin numbers
  <2> SUFFICES ASSUME places \subseteq numbers PROVE FALSE
    OBVIOUS
  <2>1. Cardinality(places) <= Cardinality(numbers)  BY <1>2, FS_Subset
  <2>2. Cardinality(numbers) \in Nat  BY <1>2, FS_CardinalityType
  <2> QED  BY <1>1, <1>2, <1>3, <2>1, <2>2
<1>5. \A i : Numbered({i}) = {} <=> i \notin numbers
  BY DEF Numbered
<1>6. \E i \in places : Numbered({i}) = {}
  BY <1>4, <1>5
<1>7. Free \in places /\ Numbered({Free}) = {}
  BY <1>6 DEF Free
<1>8. Free \notin numbers  BY <1>5, <1>7
<1>9. \A c \in children : c.no # Free  BY <1>8
<1>10. Free \in Nat \ {0}
  <2> HIDE DEF Free
  <2> QED  BY <1>1, <1>7
<1> QED  BY <1>9, <1>10

\* unload_laser_module leaves no master, and frees the silence once.
LEMMA UnloadTypes ==
  ASSUME UnloadLaserModule, sil \in BOOLEAN, sil_frees \in Nat
  PROVE  /\ masters' = {} /\ post' = FALSE /\ sil' = sil
         /\ sil_frees' \in Nat /\ sil_frees' <= sil_frees + 1
<1>1. CASE sil  BY <1>1 DEF UnloadLaserModule
<1>2. CASE ~sil  BY <1>2 DEF UnloadLaserModule
<1> QED  BY <1>1, <1>2

\* The types of the variables of Lasers, but for the bound on stt_job_count.
LEMMA LaserTypeStep ==
  ASSUME LaserTypeOK, IsFiniteSet(children), IsFiniteSet(channel), Threading,
         stt_job_count' \in 1 .. MaxJobs + 1, [Next]_vars
  PROVE  LaserTypeOK'
<1> USE DaemonAssumption, LaserAssumption
    DEF LaserTypeOK, Threading, MainGoto, AtGoto, AllMasters, LetGo, Forget,
        moduleVars, gpuVars, localVars, Creators
<1>1. CASE MainStep
  <2>1. CASE LoadFails \/ CreateMasters
    BY <2>1 DEF LoadFails, CreateMasters
  <2>8. CASE ConfigureFails \/ PostFails \/ Unload
    BY <2>8, UnloadTypes DEF ConfigureFails, PostFails, Unload
  <2>9. CASE AllocateSil \/ InitPost
    BY <2>9 DEF AllocateSil, InitPost
  <2>10. CASE AllRun \/ ChannelsDone \/ Join
    BY <2>10 DEF AllRun, ChannelsDone, Join
  <2>2. CASE RunThread  BY <2>2 DEF RunThread, laserVars
  <2>3. CASE NextChannel  BY <2>3 DEF NextChannel
  <2>4. CASE CloseChannels  BY <2>4 DEF CloseChannels, Numbered
  <2>5. CASE Destroy
    <3>1. CASE UnloadLaserModule  BY <2>5, <3>1, UnloadTypes DEF Destroy
    <3>2. CASE UNCHANGED moduleVars  BY <2>5, <3>2 DEF Destroy
    <3> QED  BY <2>5, <3>1, <3>2 DEF Destroy
  <2>6. CASE AddChannel
    <3>1. /\ at[Main] = "channel" /\ at' = [at EXCEPT ![Main] = "idle"]
          /\ channel' = channel \cup {child[Main]}
          /\ child' = [child EXCEPT ![Main] = 0]
          /\ UNCHANGED <<numGPU, main, moduleVars, gpuVars, count, target, children>>
      BY <2>6 DEF AddChannel
    <3>2. channel' \subseteq Nat
      <4>1. child[Main] \in Nat /\ channel \subseteq Nat  OBVIOUS
      <4> QED  BY ONLY <3>1, <4>1
    <3>3. \A p \in Creators : child'[p] # 0 <=> at'[p] \in {"count", "increment", "decode", "channel"}
      BY <3>1
    <3> QED  BY <3>1, <3>2, <3>3
  <2>7. CASE NoChannel  BY <2>7 DEF NoChannel
  <2> QED  BY <1>1, <2>1, <2>2, <2>3, <2>4, <2>5, <2>6, <2>7, <2>8, <2>9, <2>10 DEF MainStep
<1>2. CASE Throw  BY <1>2 DEF Throw
<1>3. ASSUME NEW p \in Creators, CreatorStep(p) PROVE LaserTypeOK'
  <2>1. CASE NoFrontEnd(p)  BY <2>1 DEF NoFrontEnd
  <2>6. CASE OneGpu(p)  BY <2>6 DEF OneGpu
  <2>5. CASE NoChild(p)  BY <2>5 DEF NoChild
  <2>2. CASE ChooseGpu(p)
    <3>1. idGPU' \in Nat
      <4>1. stt_job_count % 2 \in Nat  OBVIOUS
      <4>2. Cardinality(channel) % 2 \in Nat  BY FS_CardinalityType
      <4> QED  BY <2>2, <4>1, <4>2 DEF ChooseGpu
    <3> QED  BY <2>2, <3>1 DEF ChooseGpu
  <2>3. CASE Branch(p)  BY <2>3 DEF Branch
  <2>4. CASE CreateChild(p)
    <3>1. Free \in Nat \ {0}  BY FreeIsFree
    <3> HIDE DEF Free
    <3> QED  BY <2>4, <3>1 DEF CreateChild
  <2> QED  BY <1>3, <2>1, <2>2, <2>3, <2>4, <2>5, <2>6 DEF CreatorStep
<1>4. ASSUME NEW w \in SttThreads, SttStepOnly(w) PROVE LaserTypeOK'
  <2>1. CASE BeginStt(w)  BY <2>1 DEF BeginStt
  <2>4. CASE ReadCount(w)  BY <2>4 DEF ReadCount
  <2>5. CASE WriteCount(w)  BY <2>5 DEF WriteCount
  <2>2. CASE SttSucceeds(w)  BY <2>2 DEF SttSucceeds
  <2>3. CASE SttFails(w)  BY <2>3 DEF SttFails
  <2> QED  BY <1>4, <2>1, <2>2, <2>3, <2>4, <2>5 DEF SttStepOnly
<1>5. ASSUME NEW w \in Threads, RegisterThread(w) PROVE LaserTypeOK'
  BY <1>5 DEF RegisterThread, laserVars
<1>6. ASSUME NEW w \in TextThreads, TextMove(w) PROVE LaserTypeOK'
  BY <1>6 DEF TextMove, laserVars
<1>7. CASE UNCHANGED <<daemonVars, laserVars>>  BY <1>7 DEF laserVars
<1> QED  BY <1>1, <1>2, <1>3, <1>4, <1>5, <1>6, <1>7, Steps

\* What a step may do to the children and the channels.
LEMMA ChildrenChange ==
  ASSUME [Next]_vars
  PROVE  /\ \/ children' \subseteq children
            \/ \E c : children' = children \cup {c}
            \/ \E w \in SttThreads :
                 children' = {IF c \in Own(w) THEN [c EXCEPT !.fate = "leaked"] ELSE c : c \in children}
         /\ \/ channel' \subseteq channel
            \/ \E n : channel' = channel \cup {n}
<1> USE DEF MainGoto, AtGoto, gpuVars, localVars
<1>1. CASE MainStep
  BY <1>1 DEF MainStep, LoadFails, CreateMasters, ConfigureFails, AllocateSil, PostFails, InitPost,
              RunThread, AllRun, NextChannel, ChannelsDone, Join, CloseChannels, Unload, Destroy,
              AddChannel, NoChannel, laserVars
<1>2. CASE Throw  BY <1>2 DEF Throw
<1>3. ASSUME NEW p \in Creators, CreatorStep(p)
      PROVE  channel' = channel /\ (children' = children \/ \E c : children' = children \cup {c})
  BY <1>3 DEF CreatorStep, NoFrontEnd, OneGpu, ChooseGpu, Branch, CreateChild, NoChild
<1>4. ASSUME NEW w \in SttThreads, SttStepOnly(w)
      PROVE  /\ channel' = channel
             /\ \/ children' \subseteq children
                \/ children' = {IF c \in Own(w) THEN [c EXCEPT !.fate = "leaked"] ELSE c : c \in children}
  BY <1>4 DEF SttStepOnly, BeginStt, ReadCount, WriteCount, SttSucceeds, SttFails
<1>5. ASSUME NEW w \in Threads, RegisterThread(w) PROVE children' = children /\ channel' = channel
  BY <1>5 DEF RegisterThread, laserVars
<1>6. ASSUME NEW w \in TextThreads, TextMove(w) PROVE children' = children /\ channel' = channel
  BY <1>6 DEF TextMove, laserVars
<1>7. CASE UNCHANGED <<daemonVars, laserVars>>  BY <1>7 DEF laserVars
<1> QED  BY <1>1, <1>2, <1>3, <1>4, <1>5, <1>6, <1>7, Steps

FinitelyMany == IsFiniteSet(children) /\ IsFiniteSet(channel)

\* At most one child and one channel are created in a step.
LEMMA FiniteStep == ASSUME FinitelyMany, [Next]_vars PROVE FinitelyMany'
<1>1. ASSUME NEW w \in SttThreads
      PROVE  IsFiniteSet({IF c \in Own(w) THEN [c EXCEPT !.fate = "leaked"] ELSE c : c \in children})
  <2> DEFINE leak == [c \in children |-> IF c \in Own(w) THEN [c EXCEPT !.fate = "leaked"] ELSE c]
             leaked == {IF c \in Own(w) THEN [c EXCEPT !.fate = "leaked"] ELSE c : c \in children}
  <2>1. leak \in Surjection(children, leaked)  BY DEF Surjection
  <2> HIDE DEF leak
  <2> QED  BY <2>1, FS_Surjection DEF FinitelyMany
<1> QED  BY <1>1, ChildrenChange, FS_Subset, FS_AddElement DEF FinitelyMany

\* The jobs that have not counted themselves yet.
Pending == {w \in SttThreads : at[w] \in {"choose", "branch", "create", "count", "increment"}}

\* However the increments of stt_job_count run into each other, it counts no job
\* twice.
CountBound ==
  /\ stt_job_count \in Nat \ {0} /\ stt_job_count + Cardinality(Pending) <= taken + 1
  /\ \A w \in SttThreads : at[w] = "increment" =>
       count[w] >= 1 /\ count[w] + Cardinality(Pending) <= taken + 1

\* The cardinalities of sets of stt workers.
LEMMA FewPending ==
  ASSUME NEW S, S \subseteq SttThreads
  PROVE  /\ IsFiniteSet(S) /\ Cardinality(S) \in Nat
         /\ \A T : T \subseteq S => Cardinality(T) <= Cardinality(S)
         /\ \A w \in S : Cardinality(S \ {w}) = Cardinality(S) - 1
         /\ \A w \in SttThreads : Cardinality(S \cup {w}) <= Cardinality(S) + 1
<1>1. IsFiniteSet(S)
  BY FS_Subset, DaemonAssumption, LaserAssumption
<1>2. Cardinality(S) \in Nat  BY <1>1, FS_CardinalityType
<1>3. \A T : T \subseteq S => Cardinality(T) <= Cardinality(S)  BY <1>1, FS_Subset
<1>4. \A w \in S : Cardinality(S \ {w}) = Cardinality(S) - 1  BY <1>1, FS_RemoveElement
<1>5. ASSUME NEW w \in SttThreads PROVE Cardinality(S \cup {w}) <= Cardinality(S) + 1
  <2>1. \/ Cardinality(S \cup {w}) = Cardinality(S)
        \/ Cardinality(S \cup {w}) = Cardinality(S) + 1
    BY <1>1, FS_AddElement
  <2> QED  BY <1>2, <2>1
<1> QED  BY <1>1, <1>2, <1>3, <1>4, <1>5

\* A job leaves Pending with its increment; the one that reads and the one that
\* writes stt_job_count need not see each other.
LEMMA CountStep ==
  ASSUME LaserTypeOK, Threading, Threading', CountBound, [Next]_vars
  PROVE  CountBound'
<1> USE DEF Threading, LaserTypeOK
<1>1. Pending \subseteq SttThreads /\ Pending' \subseteq SttThreads
  BY DEF Pending
<1>2. Cardinality(Pending) \in Nat /\ Cardinality(Pending') \in Nat
  BY <1>1, FewPending
<1>3. ASSUME taken' - Cardinality(Pending') >= taken - Cardinality(Pending),
             \/ stt_job_count' = stt_job_count
             \/ \E w \in SttThreads :
                  /\ at[w] = "increment" /\ stt_job_count' = count[w] + 1
                  /\ taken' - Cardinality(Pending') >= taken - Cardinality(Pending) + 1,
             \A w \in SttThreads : at'[w] = "increment" =>
               \/ at[w] = "increment" /\ count'[w] = count[w]
               \/ count'[w] = stt_job_count
      PROVE  CountBound'
  <2>1. taken \in Int /\ taken' \in Int /\ stt_job_count \in Int
        /\ \A w \in SttThreads : count[w] \in Int
    BY DaemonAssumption DEF Creators
  <2>2. stt_job_count' \in Nat \ {0} /\ stt_job_count' + Cardinality(Pending') <= taken' + 1
    BY ONLY <1>2, <1>3, <2>1, CountBound DEF CountBound
  <2>3. \A w \in SttThreads : at'[w] = "increment" =>
          count'[w] >= 1 /\ count'[w] + Cardinality(Pending') <= taken' + 1
    BY ONLY <1>2, <1>3, <2>1, CountBound DEF CountBound
  <2> QED  BY <2>2, <2>3 DEF CountBound
<1>4. ASSUME Pending' \subseteq Pending, taken' = taken,
             \A w \in SttThreads : at'[w] = "increment" => at[w] = "increment" /\ count'[w] = count[w],
             stt_job_count' = stt_job_count
      PROVE  CountBound'
  <2>1. Cardinality(Pending') <= Cardinality(Pending)  BY <1>1, <1>4, FewPending
  <2> QED  BY <1>2, <1>3, <1>4, <2>1
<1> USE DEF MainGoto, AtGoto, gpuVars, localVars
<1>5. CASE MainStep \/ Throw
  <2>1. /\ \A w \in SttThreads : at'[w] = at[w] /\ count'[w] = count[w]
        /\ taken' = taken /\ stt_job_count' = stt_job_count
    BY <1>5, LaserAssumption
       DEF MainStep, LoadFails, CreateMasters, ConfigureFails, AllocateSil, PostFails, InitPost,
           RunThread, AllRun, NextChannel, ChannelsDone, Join, CloseChannels, Unload, Destroy,
           AddChannel, NoChannel, Throw, StartThread, laserVars, daemonVars, Creators
  <2> QED  BY <1>4, <2>1 DEF Pending
<1>6. ASSUME NEW p \in Creators, CreatorStep(p) PROVE CountBound'
  <2>1. /\ at[p] \in {"choose", "branch", "create"}
        /\ at' = [at EXCEPT ![p] = at'[p]] /\ at'[p] # "increment"
        /\ taken' = taken /\ count' = count /\ stt_job_count' = stt_job_count
    BY <1>6 DEF CreatorStep, NoFrontEnd, OneGpu, ChooseGpu, Branch, CreateChild, NoChild, Return,
                EndJob, Forget, daemonVars
  <2>2. \A w \in SttThreads : at'[w] = at[w] \/ w = p  BY <2>1 DEF Creators
  <2>3. Pending' \subseteq Pending  BY <2>1, <2>2 DEF Pending
  <2>4. \A w \in SttThreads : at'[w] = "increment" => at[w] = "increment"  BY <2>1, <2>2
  <2> QED  BY <1>4, <2>1, <2>3, <2>4
<1>7. ASSUME NEW w \in SttThreads, SttStepOnly(w) PROVE CountBound'
  <2>1. CASE BeginStt(w)
    <3>1. taken' = taken + 1 /\ Pending' \subseteq Pending \cup {w}
      BY <2>1 DEF BeginStt, TakeJob, Pending
    <3>2. Cardinality(Pending') <= Cardinality(Pending) + 1
      <4>1. Pending \cup {w} \subseteq SttThreads  BY <1>1
      <4>2. Cardinality(Pending') <= Cardinality(Pending \cup {w})
        BY <3>1, <4>1, FewPending
      <4>3. Cardinality(Pending \cup {w}) <= Cardinality(Pending) + 1
        BY <1>1, FewPending
      <4>4. Cardinality(Pending \cup {w}) \in Nat
        BY <4>1, FewPending
      <4> QED  BY <1>2, <4>2, <4>3, <4>4
    <3>3. /\ \A v \in SttThreads : at'[v] = "increment" => at[v] = "increment" /\ count'[v] = count[v]
          /\ stt_job_count' = stt_job_count
      BY <2>1 DEF BeginStt
    <3> QED  BY <1>2, <1>3, <3>1, <3>2, <3>3
  <2>2. CASE ReadCount(w)
    <3>1. Pending' = Pending /\ taken' = taken /\ stt_job_count' = stt_job_count
      BY <2>2 DEF ReadCount, Pending, daemonVars
    <3>2. \A v \in SttThreads : at'[v] = "increment" =>
            \/ at[v] = "increment" /\ count'[v] = count[v]
            \/ count'[v] = stt_job_count
      BY <2>2 DEF ReadCount, Creators
    <3> QED  BY <1>2, <1>3, <3>1, <3>2
  <2>3. CASE WriteCount(w)
    <3>1. at[w] = "increment" /\ Pending' = Pending \ {w} /\ w \in Pending /\ taken' = taken
      <4>1. at[w] = "increment" /\ at' = [at EXCEPT ![w] = "decode"] /\ taken' = taken
        BY <2>3 DEF WriteCount, daemonVars
      <4> QED  BY <4>1 DEF Pending, Creators
    <3>2. Cardinality(Pending') = Cardinality(Pending) - 1
      BY <1>1, <3>1, FewPending
    <3>3. stt_job_count' = count[w] + 1
      BY <2>3 DEF WriteCount
    <3>4. \A v \in SttThreads : at'[v] = "increment" => at[v] = "increment" /\ count'[v] = count[v]
      BY <2>3 DEF WriteCount
    <3>5. taken' - Cardinality(Pending') >= taken - Cardinality(Pending) + 1
      BY <1>2, <3>1, <3>2
    <3>6. taken' - Cardinality(Pending') >= taken - Cardinality(Pending)
      BY <1>2, <3>1, <3>2
    <3> QED  BY <1>3, <3>1, <3>3, <3>4, <3>5, <3>6
  <2>4. CASE SttSucceeds(w) \/ SttFails(w)
    <3>1. /\ at[w] = "decode" /\ at' = [at EXCEPT ![w] = "idle"]
          /\ taken' = taken /\ count' = count /\ stt_job_count' = stt_job_count
      BY <2>4 DEF SttSucceeds, SttFails, EndJob
    <3>2. Pending' = Pending  BY <3>1 DEF Pending, Creators
    <3> QED  BY <1>4, <3>1, <3>2
  <2> QED  BY <1>7, <2>1, <2>2, <2>3, <2>4 DEF SttStepOnly
<1>8. ASSUME NEW w \in Threads, RegisterThread(w) PROVE CountBound'
  BY <1>4, <1>8 DEF RegisterThread, Register, RegisterFails, laserVars, Pending
<1>9. ASSUME NEW w \in TextThreads, TextMove(w) PROVE CountBound'
  <2>1. Pending' = Pending /\ taken' >= taken /\ UNCHANGED <<at, count, stt_job_count>>
    BY <1>9 DEF TextMove, laserVars, Pending
  <2> QED  BY <1>2, <1>3, <2>1
<1>10. CASE UNCHANGED <<daemonVars, laserVars>>
  BY <1>4, <1>10 DEF daemonVars, laserVars, Pending
<1> QED  BY <1>5, <1>6, <1>7, <1>8, <1>9, <1>10, Steps

-----------------------------------------------------------------------------
(* What the module keeps in memory, and for how long. *)

\* The stages in which no thread of run works, and no child is in use.
Quiet == {"load", "configure", "post", "close", "unload", "destroy", "end"}

Loaded == {"run", "channels", "join", "close", "unload", "unwind"}

\* What is loaded at each stage; what needs it runs at no other.
Stages ==
  /\ main = "load" => masters = {} /\ ~sil /\ sil_frees = 0
  /\ main = "configure" => masters = AllMasters /\ ~sil /\ sil_frees = 0
  /\ main = "post" => masters = AllMasters /\ sil_frees = 0
  /\ main \in Loaded => masters = AllMasters /\ post = HasUnsegment /\ sil_frees = 0
  /\ main = "destroy" => "one" \notin masters
  /\ SilOnce

Working ==
  /\ main \in {"load", "configure", "post"} => \A w \in Threads : thread[w] = "none"
  /\ ~is_running => \A w \in Threads : thread[w] = "none"
  /\ main \in Quiet => \A w \in Threads : thread[w] \in {"none", "exited"}
  /\ \A w \in SttThreads : at[w] # "idle" => thread[w] = "busy"
  /\ at[Main] # "idle" => main = "channels"

\* main loads, runs and unloads in this order, and so does each way to fail.
LEMMA StagesStep == ASSUME LaserTypeOK, Stages, [Next]_vars PROVE Stages'
<1> USE LaserAssumption
    DEF Stages, MainGoto, AtGoto, AllMasters, SilOnce, Loaded, moduleVars, gpuVars, localVars
<1>1. CASE MainStep
  <2> USE DEF LaserTypeOK
  <2>1. CASE LoadFails \/ CreateMasters
    BY <2>1 DEF LoadFails, CreateMasters
  <2>2. CASE ConfigureFails \/ PostFails \/ Unload
    <3>1. UnloadLaserModule /\ main' = "destroy" /\ sil_frees = 0
      BY <2>2 DEF ConfigureFails, PostFails, Unload
    <3>2. masters' = {} /\ sil_frees' <= 1  BY <3>1, UnloadTypes
    <3> QED  BY <3>1, <3>2
  <2>3. CASE AllocateSil \/ InitPost
    BY <2>3 DEF AllocateSil, InitPost
  <2>4. CASE RunThread  BY <2>4 DEF RunThread, laserVars
  <2>5. CASE AllRun \/ ChannelsDone \/ Join
    BY <2>5 DEF AllRun, ChannelsDone, Join
  <2>6. CASE NextChannel \/ AddChannel \/ NoChannel
    <3>1. UNCHANGED <<numGPU, main, masters, sil, sil_frees, post>>
      BY <2>6 DEF NextChannel, AddChannel, NoChannel
    <3> QED  BY <3>1
  <2>8. CASE CloseChannels  BY <2>8 DEF CloseChannels
  <2>7. CASE Destroy
    <3>1. CASE main = "destroy"  BY <2>7, <3>1 DEF Destroy
    <3>2. CASE main = "unwind"
      <4>1. main' = "aborted" /\ sil_frees = 0 /\ (UnloadLaserModule \/ UNCHANGED moduleVars)
        BY <2>7, <3>2 DEF Destroy
      <4>2. CASE UnloadLaserModule  BY <4>1, <4>2, UnloadTypes
      <4>3. CASE UNCHANGED moduleVars  BY <4>1, <4>3
      <4> QED  BY <4>1, <4>2, <4>3
    <3> QED  BY <2>7, <3>1, <3>2 DEF Destroy
  <2> QED  BY <1>1, <2>1, <2>2, <2>3, <2>4, <2>5, <2>6, <2>7, <2>8 DEF MainStep
<1>2. CASE Throw  BY <1>2 DEF Throw
<1>3. ASSUME NEW p \in Creators, CreatorStep(p) PROVE Stages'
  BY <1>3 DEF CreatorStep, NoFrontEnd, OneGpu, ChooseGpu, Branch, CreateChild, NoChild
<1>4. ASSUME NEW w \in SttThreads, SttStepOnly(w) PROVE Stages'
  BY <1>4 DEF SttStepOnly, BeginStt, ReadCount, WriteCount, SttSucceeds, SttFails
<1>5. ASSUME NEW w \in Threads, RegisterThread(w) PROVE Stages'
  BY <1>5 DEF RegisterThread, laserVars
<1>6. ASSUME NEW w \in TextThreads, TextMove(w) PROVE Stages'
  BY <1>6 DEF TextMove, laserVars
<1>7. CASE UNCHANGED <<daemonVars, laserVars>>  BY <1>7 DEF laserVars
<1> QED  BY <1>1, <1>2, <1>3, <1>4, <1>5, <1>6, <1>7, Steps

\* The worker threads live between run() and the joins.
LEMMA WorkingStep == ASSUME LaserTypeOK, Threading, Working, [Next]_vars PROVE Working'
<1> USE LaserAssumption, TextAssumption, ServerAssumption
    DEF Working, Threading, Quiet, MainGoto, AtGoto, moduleVars, gpuVars, localVars, Creators
<1>1. CASE MainStep
  <2> USE DEF LaserTypeOK
  <2>1. CASE LoadFails \/ CreateMasters \/ ConfigureFails \/ AllocateSil \/ PostFails \/ InitPost
    BY <2>1 DEF LoadFails, CreateMasters, ConfigureFails, AllocateSil, PostFails, InitPost, daemonVars
  <2>2. CASE RunThread  BY <2>2 DEF RunThread, StartThread, ThreadGoto, laserVars
  <2>3. CASE AllRun \/ ChannelsDone \/ CloseChannels \/ Unload \/ Destroy
    BY <2>3 DEF AllRun, ChannelsDone, CloseChannels, Unload, Destroy, daemonVars
  <2>4. CASE Join  BY <2>4 DEF Join, Joined, daemonVars
  <2>5. CASE NextChannel \/ AddChannel \/ NoChannel
    BY <2>5 DEF NextChannel, AddChannel, NoChannel, daemonVars
  <2> QED  BY <1>1, <2>1, <2>2, <2>3, <2>4, <2>5 DEF MainStep
<1>2. CASE Throw  BY <1>2 DEF Throw, daemonVars
<1>3. ASSUME NEW p \in Creators, CreatorStep(p) PROVE Working'
  <2> USE DEF LaserTypeOK
  <2>1. /\ at[p] # "idle" /\ at' = [at EXCEPT ![p] = at'[p]] /\ main' = main /\ is_running' = is_running
        /\ \/ UNCHANGED thread
           \/ p # Main /\ at'[p] = "idle" /\ thread[p] = "busy" /\ thread' = [thread EXCEPT ![p] = "loop"]
    BY <1>3 DEF CreatorStep, NoFrontEnd, OneGpu, ChooseGpu, Branch, CreateChild, NoChild, Return,
                EndJob, ThreadGoto, daemonVars
  <2> QED  BY <2>1
<1>4. ASSUME NEW w \in SttThreads, SttStepOnly(w) PROVE Working'
  <2> USE DEF LaserTypeOK, ThreadGoto, TakeJob, EndJob
  <2>1. CASE BeginStt(w)  BY <2>1 DEF BeginStt
  <2>2. CASE ReadCount(w) \/ WriteCount(w)  BY <2>2 DEF ReadCount, WriteCount, daemonVars
  <2>3. CASE SttSucceeds(w) \/ SttFails(w)  BY <2>3 DEF SttSucceeds, SttFails
  <2> QED  BY <1>4, <2>1, <2>2, <2>3 DEF SttStepOnly
<1>5. ASSUME NEW w \in Threads, RegisterThread(w) PROVE Working'
  BY <1>5 DEF RegisterThread, Register, RegisterFails, ThreadGoto, laserVars
<1>6. ASSUME NEW w \in TextThreads, TextMove(w) PROVE Working'
  BY <1>6 DEF TextMove, laserVars
<1>7. CASE UNCHANGED <<daemonVars, laserVars>>  BY <1>7 DEF daemonVars, laserVars
<1> QED  BY <1>1, <1>2, <1>3, <1>4, <1>5, <1>6, <1>7, Steps

-----------------------------------------------------------------------------
(* The choice of a GPU. *)

Choosing == {p \in Creators : at[p] \in {"branch", "create"}}

\* What a thread has chosen is what idGPU still says, unless it has been raced.
Choices ==
  /\ \A p \in Creators : at[p] = "branch" => numGPU = 2
  /\ numGPU = 2 /\ Choosing # {} => idGPU \in {0, 1}
  /\ \A p \in Creators :
       at[p] = "create" /\ numGPU = 2 =>
         target[p] \in AllMasters /\ (~raced[p] => idGPU = GpuOf(target[p]))
  /\ \A p \in Creators : numGPU = 1 => target[p] = "one"
  /\ \A c \in children : c.master \in AllMasters
  /\ GpuOfChild

\* Nothing chosen, nothing created.
LEMMA SameChoices ==
  ASSUME Choices, UNCHANGED <<numGPU, idGPU, target, raced>>,
         \A p \in Creators : at'[p] \in {"branch", "create"} => at'[p] = at[p],
         \A c \in children' :
           \E d \in children : c.master = d.master /\ c.gpu = d.gpu /\ c.raced = d.raced
  PROVE  Choices'
BY DEF Choices, Choosing, AllMasters, GpuOfChild, GpuOf

\* Between the choice of a GPU and the creation on it, only a race can change
\* idGPU, and it leaves a mark.
LEMMA ChoicesStep ==
  ASSUME LaserTypeOK, FinitelyMany, Choices, [Next]_vars
  PROVE  Choices'
<1> USE LaserAssumption DEF MainGoto, AtGoto, moduleVars, gpuVars, localVars
<1>1. CASE MainStep \/ Throw
  <2>1. /\ UNCHANGED <<numGPU, idGPU, target, raced>>
        /\ \A p \in Creators : at'[p] \in {"branch", "create"} => at'[p] = at[p]
        /\ children' \subseteq children
    BY <1>1 DEF MainStep, LoadFails, CreateMasters, ConfigureFails, AllocateSil, PostFails, InitPost,
                RunThread, AllRun, NextChannel, ChannelsDone, Join, CloseChannels, Unload, Destroy,
                AddChannel, NoChannel, Throw, laserVars, LaserTypeOK
  <2> QED  BY <2>1, SameChoices
<1>2. ASSUME NEW p \in Creators, CreatorStep(p) PROVE Choices'
  <2>1. CASE NoFrontEnd(p)
    BY <2>1, SameChoices DEF NoFrontEnd, LaserTypeOK
  <2>2. CASE OneGpu(p)
    BY <2>2 DEF OneGpu, LaserTypeOK, Choices, Choosing, AllMasters, GpuOfChild, GpuOf
  <2>3. CASE ChooseGpu(p)
    <3>1. idGPU' \in {0, 1}
      <4>1. stt_job_count \in Int /\ Cardinality(channel) \in Int
        BY FS_CardinalityType DEF FinitelyMany, LaserTypeOK
      <4>2. stt_job_count % 2 \in {0, 1} /\ Cardinality(channel) % 2 \in {0, 1}
        BY <4>1
      <4> QED  BY <2>3, <4>2 DEF ChooseGpu
    <3>2. /\ at' = [at EXCEPT ![p] = "branch"] /\ numGPU = 2
          /\ UNCHANGED <<numGPU, target, children>>
          /\ raced' = [q \in Creators |-> q # p /\ at[q] \in {"branch", "create"}]
      BY <2>3 DEF ChooseGpu
    <3> QED  BY <3>1, <3>2 DEF LaserTypeOK, Choices, Choosing, AllMasters, GpuOfChild, GpuOf
  <2>4. CASE Branch(p)
    <3>1. /\ at[p] = "branch" /\ at' = [at EXCEPT ![p] = "create"]
          /\ target' = [target EXCEPT ![p] = IF idGPU = 0 THEN "gpu0" ELSE "gpu1"]
          /\ UNCHANGED <<numGPU, idGPU, raced, children>>
      BY <2>4 DEF Branch
    <3>2. numGPU = 2 /\ idGPU \in {0, 1}  BY <3>1 DEF Choices, Choosing
    <3> QED  BY <3>1, <3>2 DEF LaserTypeOK, Choices, Choosing, AllMasters, GpuOfChild, GpuOf
  <2>5. CASE CreateChild(p) \/ NoChild(p)
    <3>1. /\ at[p] = "create" /\ at'[p] \notin {"branch", "create"}
          /\ \A q \in Creators : q # p => at'[q] = at[q]
          /\ target' = [target EXCEPT ![p] = "one"] /\ raced' = [raced EXCEPT ![p] = FALSE]
          /\ UNCHANGED <<numGPU, idGPU>>
      BY <2>5 DEF CreateChild, NoChild, Forget, LaserTypeOK
    <3>6. \A c \in children' :
            \/ c \in children
            \/ c.master = target[p] /\ c.gpu = idGPU /\ c.raced = raced[p]
      BY <2>5 DEF CreateChild, NoChild
    <3>2. target[p] \in AllMasters /\ (numGPU = 2 /\ ~raced[p] => idGPU = GpuOf(target[p]))
      BY <3>1 DEF Choices, AllMasters, LaserTypeOK
    <3>3. \A c \in children' : c.master \in AllMasters
      BY <3>2, <3>6 DEF Choices
    <3>4. \A c \in children' : numGPU = 2 /\ ~c.raced => c.gpu = GpuOf(c.master)
      BY <3>2, <3>6 DEF Choices, GpuOfChild
    <3>5. \A q \in Creators : q # p => at'[q] = at[q] /\ target'[q] = target[q] /\ raced'[q] = raced[q]
      BY <3>1 DEF LaserTypeOK
    <3> QED  BY <3>1, <3>3, <3>4, <3>5
             DEF LaserTypeOK, Choices, Choosing, AllMasters, GpuOfChild, GpuOf
  <2> QED  BY <1>2, <2>1, <2>2, <2>3, <2>4, <2>5 DEF CreatorStep
<1>3. ASSUME NEW w \in SttThreads, SttStepOnly(w) PROVE Choices'
  <2>1. /\ UNCHANGED <<numGPU, idGPU, target, raced>>
        /\ \A p \in Creators : at'[p] \in {"branch", "create"} => at'[p] = at[p]
    BY <1>3 DEF SttStepOnly, BeginStt, ReadCount, WriteCount, SttSucceeds, SttFails, LaserTypeOK
  <2>2. \A c \in children' :
          \E d \in children : c.master = d.master /\ c.gpu = d.gpu /\ c.raced = d.raced
    <3>1. CASE children' \subseteq children  BY <3>1
    <3>2. CASE SttFails(w)  BY <3>2 DEF SttFails, LaserTypeOK
    <3> QED  BY <1>3, <3>1, <3>2 DEF SttStepOnly, BeginStt, ReadCount, WriteCount, SttSucceeds
  <2> QED  BY <2>1, <2>2, SameChoices
<1>4. ASSUME NEW w \in Threads, RegisterThread(w) PROVE Choices'
  BY <1>4, SameChoices DEF RegisterThread, laserVars
<1>5. ASSUME NEW w \in TextThreads, TextMove(w) PROVE Choices'
  BY <1>5, SameChoices DEF TextMove, laserVars
<1>6. CASE UNCHANGED <<daemonVars, laserVars>>  BY <1>6, SameChoices DEF laserVars
<1> QED  BY <1>1, <1>2, <1>3, <1>4, <1>5, <1>6, Steps

-----------------------------------------------------------------------------
(* The children and who has them. *)

Exists(n) == \E c \in children : c.no = n /\ c.fate = "used"

\* The conjuncts of ChildFate, for each pair of owners.
Owned ==
  /\ \A c, d \in children : c.no = d.no => c = d
  /\ \A c \in children : c.no # 0
  /\ \A p, q \in Creators : child[p] # 0 /\ child[p] = child[q] => p = q
  /\ \A p \in Creators : child[p] # 0 => Exists(child[p]) /\ child[p] \notin channel
  /\ \A n \in channel : Exists(n)
  /\ \A c \in children : c.fate = "used" => c.no \in channel \/ \E p \in Creators : child[p] = c.no

\* Before the threads start, and once the channels are closed.
NoneInUse == main \in Quiet \ {"close"} => \A c \in children : c.fate = "leaked"

\* Nothing changes hands.
LEMMA SameOwners ==
  ASSUME Owned, UNCHANGED <<child, channel, children>>
  PROVE  Owned'
BY DEF Owned, Exists

\* The child of p is given back, and freed.
LEMMA ChildFreed ==
  ASSUME LaserTypeOK, Owned, NEW p \in Creators, child[p] # 0,
         child' = [child EXCEPT ![p] = 0], children' = children \ Own(p), channel' = channel
  PROVE  Owned'
<1>1. \A q \in Creators : child'[q] = IF q = p THEN 0 ELSE child[q]
  BY DEF LaserTypeOK
<1>2. \A c : c \in children' <=> c \in children /\ c.no # child[p]
  BY DEF Own, Numbered
<1>3. \A n : n # child[p] /\ Exists(n) => Exists(n)'
  BY <1>2 DEF Exists
<1>4. \A q \in Creators : child'[q] # 0 => child[q] # child[p]
  BY <1>1 DEF Owned
<1>5. 0 \notin channel  BY DEF Owned, Exists
<1> QED  BY <1>1, <1>2, <1>3, <1>4, <1>5 DEF Owned

\* A child is created with its owner, goes to the channels with AddChannel, and
\* is freed or leaked where its owner lets it go.
LEMMA OwnedStep ==
  ASSUME LaserTypeOK, FinitelyMany, Working, Owned, Threading, [Next]_vars
  PROVE  Owned'
<1> USE LaserAssumption DEF MainGoto, AtGoto, moduleVars, gpuVars, localVars, LetGo
<1>1. CASE MainStep
  <2>1. CASE CloseChannels
    <3>1. \A p \in Creators : child[p] = 0
      BY <2>1 DEF CloseChannels, Working, Quiet, LaserTypeOK, Creators
    <3>2. children' = {c \in children : c.no \notin channel} /\ channel' = {} /\ child' = child
      BY <2>1 DEF CloseChannels, Numbered
    <3> QED  BY <3>1, <3>2 DEF Owned, Exists
  <2>2. CASE AddChannel
    <3>1. /\ at[Main] = "channel" /\ channel' = channel \cup {child[Main]}
          /\ child' = [child EXCEPT ![Main] = 0] /\ children' = children
      BY <2>2 DEF AddChannel
    <3>2. Main \in Creators /\ child[Main] # 0  BY <3>1 DEF Creators, LaserTypeOK
    <3>3. \A q \in Creators : child'[q] = IF q = Main THEN 0 ELSE child[q]
      BY <3>1 DEF LaserTypeOK
    <3>4. \A n : Exists(n)' <=> Exists(n)  BY <3>1 DEF Exists
    <3> QED  BY <3>1, <3>2, <3>3, <3>4 DEF Owned
  <2>3. CASE NoChannel
    BY <2>3, ChildFreed DEF NoChannel, Creators, LaserTypeOK
  <2>4. CASE UNCHANGED <<child, channel, children>>  BY <2>4, SameOwners
  <2> QED
    BY <1>1, <2>1, <2>2, <2>3, <2>4
    DEF MainStep, LoadFails, CreateMasters, ConfigureFails, AllocateSil, PostFails, InitPost,
        RunThread, AllRun, NextChannel, ChannelsDone, Join, Unload, Destroy, laserVars
<1>2. CASE Throw  BY <1>2, SameOwners DEF Throw
<1>3. ASSUME NEW p \in Creators, CreatorStep(p) PROVE Owned'
  <2>1. CASE CreateChild(p)
    <3>1. PICK n : n = Free  OBVIOUS
    <3>2. n # 0 /\ \A c \in children : c.no # n
      BY <3>1, FreeIsFree DEF FinitelyMany, LaserTypeOK
    <3>3. PICK new :
            /\ new.no = n /\ new.fate = "used"
            /\ children' = children \cup {new}
      BY <2>1, <3>1 DEF CreateChild
    <3>4. at[p] = "create" /\ child' = [child EXCEPT ![p] = n] /\ channel' = channel
      BY <2>1, <3>1 DEF CreateChild
    <3>5. \A q \in Creators : child'[q] = IF q = p THEN n ELSE child[q]
      BY <3>4 DEF LaserTypeOK
    <3>6. child[p] = 0  BY <3>4 DEF LaserTypeOK
    <3>7. n \notin channel /\ \A q \in Creators : child[q] # n
      BY <3>2 DEF Owned, Exists
    <3>8. Exists(n)' /\ \A m : Exists(m) => Exists(m)'  BY <3>3 DEF Exists
    <3> QED  BY <3>2, <3>3, <3>4, <3>5, <3>6, <3>7, <3>8 DEF Owned
  <2>2. CASE UNCHANGED <<child, channel, children>>  BY <2>2, SameOwners
  <2> QED  BY <1>3, <2>1, <2>2 DEF CreatorStep, NoFrontEnd, OneGpu, ChooseGpu, Branch, NoChild
<1>4. ASSUME NEW w \in SttThreads, SttStepOnly(w) PROVE Owned'
  <2>1. CASE SttSucceeds(w)
    BY <2>1, ChildFreed DEF SttSucceeds, Creators, LaserTypeOK
  <2>2. CASE SttFails(w)
    <3>1. /\ at[w] = "decode" /\ child' = [child EXCEPT ![w] = 0] /\ channel' = channel
          /\ children' = {IF c \in Own(w) THEN [c EXCEPT !.fate = "leaked"] ELSE c : c \in children}
      BY <2>2 DEF SttFails
    <3>2. w \in Creators /\ child[w] # 0  BY <3>1 DEF Creators, LaserTypeOK
    <3>3. \A q \in Creators : child'[q] = IF q = w THEN 0 ELSE child[q]
      BY <3>1 DEF LaserTypeOK
    <3>4. \A c \in children' : \E d \in children :
            /\ c.no = d.no
            /\ d.no = child[w] => c = [d EXCEPT !.fate = "leaked"] /\ c.fate = "leaked"
            /\ d.no # child[w] => c = d
      BY <3>1 DEF Own, Numbered, LaserTypeOK
    <3>5. \A d \in children : d.no # child[w] => d \in children'
      BY <3>1 DEF Own, Numbered
    <3>6. \A n : n # child[w] /\ Exists(n) => Exists(n)'  BY <3>5 DEF Exists
    <3>7. \A q \in Creators : child'[q] # 0 => child[q] # child[w]
      BY <3>2, <3>3 DEF Owned
    <3> QED  BY <3>1, <3>2, <3>3, <3>4, <3>6, <3>7 DEF Owned
  <2>3. CASE UNCHANGED <<child, channel, children>>  BY <2>3, SameOwners
  <2> QED  BY <1>4, <2>1, <2>2, <2>3 DEF SttStepOnly, BeginStt, ReadCount, WriteCount
<1>5. ASSUME NEW w \in Threads, RegisterThread(w) PROVE Owned'
  BY <1>5, SameOwners DEF RegisterThread, laserVars
<1>6. ASSUME NEW w \in TextThreads, TextMove(w) PROVE Owned'
  BY <1>6, SameOwners DEF TextMove, laserVars
<1>7. CASE UNCHANGED <<daemonVars, laserVars>>  BY <1>7, SameOwners DEF laserVars
<1> QED  BY <1>1, <1>2, <1>3, <1>4, <1>5, <1>6, <1>7, Steps

\* Nothing is decoded outside the stages in which threads work.
LEMMA NoneInUseStep ==
  ASSUME LaserTypeOK, Threading, Working, Owned, NoneInUse, [Next]_vars
  PROVE  NoneInUse'
<1> USE LaserAssumption DEF NoneInUse, Quiet, MainGoto, AtGoto, moduleVars, gpuVars, localVars
<1>1. CASE MainStep
  <2>1. CASE CloseChannels
    <3>1. \A p \in Creators : child[p] = 0
      BY <2>1 DEF CloseChannels, Working, LaserTypeOK, Creators
    <3>2. children' = {c \in children : c.no \notin channel}
      BY <2>1 DEF CloseChannels, Numbered
    <3>3. \A c \in children : c.fate \in {"used", "leaked"}  BY DEF LaserTypeOK
    <3> QED  BY <3>1, <3>2, <3>3 DEF Owned
  <2>2. CASE LoadFails \/ CreateMasters \/ ConfigureFails \/ AllocateSil \/ PostFails \/ InitPost
             \/ Unload \/ Destroy
    BY <2>2 DEF LoadFails, CreateMasters, ConfigureFails, AllocateSil, PostFails, InitPost,
                Unload, Destroy
  <2>3. CASE RunThread \/ AllRun \/ NextChannel \/ ChannelsDone \/ Join \/ AddChannel
    BY <2>3 DEF RunThread, AllRun, NextChannel, ChannelsDone, Join, AddChannel, laserVars
  <2>4. CASE NoChannel
    BY <2>4, LaserAssumption DEF NoChannel, Working
  <2> QED  BY <1>1, <2>1, <2>2, <2>3, <2>4 DEF MainStep
<1>2. CASE Throw  BY <1>2 DEF Throw
<1>3. ASSUME NEW p \in Creators, CreatorStep(p) PROVE NoneInUse'
  <2>1. at[p] # "idle" /\ main' = main
    BY <1>3 DEF CreatorStep, NoFrontEnd, OneGpu, ChooseGpu, Branch, CreateChild, NoChild
  <2>2. main \notin Quiet  BY <2>1, LaserAssumption DEF Working, Creators, Threading
  <2> QED  BY <2>1, <2>2
<1>4. ASSUME NEW w \in SttThreads, SttStepOnly(w) PROVE NoneInUse'
  <2>1. main' = main /\ (at[w] # "idle" \/ children' = children)
    BY <1>4 DEF SttStepOnly, BeginStt, ReadCount, WriteCount, SttSucceeds, SttFails
  <2>2. at[w] # "idle" => main \notin Quiet  BY LaserAssumption DEF Working, Threading
  <2> QED  BY <2>1, <2>2
<1>5. ASSUME NEW w \in Threads, RegisterThread(w) PROVE NoneInUse'
  BY <1>5 DEF RegisterThread, laserVars
<1>6. ASSUME NEW w \in TextThreads, TextMove(w) PROVE NoneInUse'
  BY <1>6 DEF TextMove, laserVars
<1>7. CASE UNCHANGED <<daemonVars, laserVars>>  BY <1>7 DEF laserVars
<1> QED  BY <1>1, <1>2, <1>3, <1>4, <1>5, <1>6, <1>7, Steps

-----------------------------------------------------------------------------
(* Every constant. *)

Inv ==
  /\ Threading /\ LaserTypeOK /\ TextTypeOK /\ FinitelyMany
  /\ CountBound /\ Stages /\ Working /\ Choices /\ Owned /\ NoneInUse
  /\ Alone /\ Following

\* The invariant holds when main starts ...
LEMMA InvInit == Init => Inv
<1> SUFFICES ASSUME DaemonInit, LaserInit, TextInit PROVE Inv
  BY DEF Init
<1>1. Threading
  <2>1. is_running \in BOOLEAN  BY DEF DaemonInit
  <2>2. taken \in 0 .. MaxJobs  BY DaemonAssumption DEF DaemonInit
  <2> QED  BY <2>1, <2>2 DEF DaemonInit, Threading
<1> USE DaemonAssumption, LaserAssumption, TextAssumption, LeftoversAssumption
<1>2. LaserTypeOK
  <2>1. \A p \in Creators : child[p] = 0 /\ at[p] = "idle"  BY DEF LaserInit
  <2>2. stt_job_count \in 1 .. MaxJobs + 1  BY DEF LaserInit
  <2> QED  BY <2>1, <2>2 DEF LaserInit, LaserTypeOK
<1>3. TextTypeOK
  <2>1. NoJob \in [no : 0 .. MaxJobs, handle : Handles]  BY DEF NoJob
  <2>2. files \in [Paths -> Contents]  BY DEF TextInit, Contents
  <2> QED  BY <2>1, <2>2 DEF TextInit, TextTypeOK, Contents
<1>4. FinitelyMany  BY FS_EmptySet DEF LaserInit, FinitelyMany
<1>5. CountBound
  <2>1. Pending = {}  BY DEF LaserInit, Pending, Creators
  <2>2. Cardinality(Pending) = 0  BY <2>1, FS_EmptySet
  <2> QED  BY <2>2 DEF LaserInit, DaemonInit, CountBound, Creators
<1>6. Stages  BY DEF LaserInit, Stages, SilOnce, Loaded
<1>7. Working  BY DEF LaserInit, DaemonInit, Working, Creators
<1>8. Choices  BY DEF LaserInit, Choices, Choosing, GpuOfChild
<1>9. Owned /\ NoneInUse  BY DEF LaserInit, Owned, Exists, NoneInUse
<1>10. Alone /\ Following  BY DEF TextInit, Alone, Following
<1> QED  BY <1>1, <1>2, <1>3, <1>4, <1>5, <1>6, <1>7, <1>8, <1>9, <1>10 DEF Inv

\* ... every step keeps it ...
LEMMA InvStep == Inv /\ [Next]_vars => Inv'
<1> SUFFICES ASSUME Inv, [Next]_vars PROVE Inv'
  OBVIOUS
<1> USE DEF Inv
<1>1. Threading'  BY ThreadingStep
<1>2. CountBound'  BY <1>1, CountStep
<1>3. stt_job_count' \in 1 .. MaxJobs + 1
  <2>1. Cardinality(Pending') \in Nat  BY FewPending DEF Pending
  <2> QED  BY <1>1, <1>2, <2>1, DaemonAssumption DEF CountBound, Threading
<1>4. LaserTypeOK'  BY <1>3, LaserTypeStep DEF FinitelyMany
<1>5. TextTypeOK' /\ Alone' /\ Following'
  BY <1>1, TextTypeStep, AloneStep, FollowingStep DEF Threading
<1>6. FinitelyMany'  BY FiniteStep
<1>7. Stages' /\ Working'  BY StagesStep, WorkingStep
<1>8. Choices' /\ Owned' /\ NoneInUse'  BY ChoicesStep, OwnedStep, NoneInUseStep
<1> QED  BY <1>1, <1>2, <1>4, <1>5, <1>6, <1>7, <1>8

\* ... and it holds for ever.
LEMMA InvHolds == Spec => []Inv
<1> QED  BY InvInit, InvStep, PTL DEF Spec

\* The state has the types of TypeOK, whatever the number of threads, channels
\* and jobs; lost increments keep stt_job_count within the number of jobs.
THEOREM TypeCorrect == Spec => []TypeOK
<1>1. Inv => TypeOK  BY DEF Inv, Threading, TypeOK
<1> QED  BY <1>1, InvHolds, PTL

\* A child that is not leaked has one owner, and no owner loses its child: no
\* path through VRServer::stt or create_channel frees what another thread uses.
THEOREM ChildrenHaveOneOwner == Spec => []ChildFate
<1>1. Inv => ChildFate
  <2> SUFFICES ASSUME Owned PROVE ChildFate
    BY DEF Inv
  <2>1. ASSUME NEW c \in children, c.fate = "used"
        PROVE  Cardinality({p \in Creators : child[p] = c.no} \cup {i \in channel : i = c.no}) = 1
    <3> DEFINE Users == {p \in Creators : child[p] = c.no} \cup {i \in channel : i = c.no}
    <3>1. \E x : Users = {x}
      <4>1. CASE c.no \in channel
        <5>1. Users = {c.no}  BY <2>1, <4>1 DEF Owned
        <5> QED  BY <5>1
      <4>2. CASE c.no \notin channel
        <5>1. PICK p \in Creators : child[p] = c.no  BY <2>1, <4>2 DEF Owned
        <5>2. Users = {p}  BY <2>1, <4>2, <5>1 DEF Owned
        <5> QED  BY <5>2
      <4> QED  BY <4>1, <4>2
    <3> HIDE DEF Users
    <3>2. Cardinality(Users) = 1  BY <3>1, FS_Singleton
    <3> QED  BY <3>2 DEF Users
  <2>2. \A n : n \in {c.no : c \in {d \in children : d.fate = "used"}} <=> Exists(n)
    BY DEF Exists
  <2>3. \A n : Exists(n) =>
          Cardinality({p \in Creators : child[p] = n} \cup {i \in channel : i = n}) = 1
    BY <2>1 DEF Exists
  <2>4. \A p \in Creators : child[p] # 0 => Exists(child[p])  BY DEF Owned
  <2>5. \A n \in channel : Exists(n)  BY DEF Owned
  <2> HIDE DEF Exists
  <2> QED  BY <2>2, <2>3, <2>4, <2>5 DEF ChildFate
<1> QED  BY <1>1, InvHolds, PTL

\* The GPU and the master of a child agree, unless idGPU has been raced.
THEOREM ChildOnItsGpu == Spec => []GpuOfChild
<1>1. Inv => GpuOfChild  BY DEF Inv, Choices
<1> QED  BY <1>1, InvHolds, PTL

\* The masters, the post-processor and the silence outlive what uses them.
THEOREM NothingUnloadedInUse == Spec => []UnloadLast
<1>1. Inv => UnloadLast
  <2> SUFFICES ASSUME LaserTypeOK, TextTypeOK, Threading, Stages, Working, Choices, NoneInUse
               PROVE  UnloadLast
    BY DEF Inv
  <2>1. main # "aborted" => main \in Loaded \/ main \in Quiet \ {"close"}
    BY DEF LaserTypeOK, Loaded, Quiet
  <2>2. MastersLast
    BY <2>1 DEF MastersLast, NoneInUse, Stages, Choices
  <2>3. SilOnce  BY DEF Stages
  <2>4. \A w \in TextThreads : kind[w] # "ssp" => HasUnsegment
    BY ServerAssumption DEF TextTypeOK
  <2>5. main # "aborted" => \A w \in TextThreads : thread[w] = "busy" /\ kind[w] # "ssp" => post
    BY <2>1, <2>4, TextAssumption DEF Working, Quiet, Stages, Loaded
  <2> QED  BY <2>2, <2>3, <2>5 DEF UnloadLast
<1> QED  BY <1>1, InvHolds, PTL

\* A text is made from its own payload, if that was saved and the handle was
\* not used by another job at the time.
THEOREM TextsAreOwn == Spec => []OwnText
<1>1. Inv => OwnText  BY DEF Inv, Following, OwnText
<1> QED  BY <1>1, InvHolds, PTL
=============================================================================
