---------------------------- MODULE SttJobProofs ----------------------------
(***************************************************************************)
(* What SttJob promises for every number of workers, recordings, retries   *)
(* and jobs, whatever an earlier process has left in tmp_path.             *)
(***************************************************************************)
EXTENDS SttJob, SequenceTheorems, TLAPS

-----------------------------------------------------------------------------
(* Types, and the locals at each point of job_stt. *)

Fetch == {"fetch", "curl", "download", "connected", "again", "retry", "reconnected", "attempt",
          "load"}

\* Behind these points input_file has a name.
Named == {"loadpcm", "clean", "unlink", "part", "recognise"}

\* The locals of worker w.
Local(w) ==
  /\ pc[w] = "idle" <=> job[w] = NoRecording
  /\ input[w] # NoPlace => input[w] \in {job[w], Base[job[w]]}
  /\ input[w] \in Recordings => protocol[w] = "file"
  /\ pc[w] \in Fetch \cup {"check", "idle"} => input[w] = NoPlace
  /\ pc[w] \in Named => input[w] # NoPlace
  /\ pc[w] \in Fetch \cup {"idle"} => buffer[w] = {}
  /\ pc[w] \in {"reconnected", "attempt"} => tries[w] > 0
  /\ pc[w] \in Fetch \ {"fetch", "curl"} => config.use = "true"
  /\ pc[w] \in {"convert", "decode", "separate"} /\ input[w] = NoPlace => config.use = "unset"
  /\ config.use = "unset" => input[w] = NoPlace
  /\ pc[w] = "idle" => made[w] = {}
  /\ pc[w] # "returned" => answer[w] = "none"

Locals == \A w \in Workers : Local(w)

\* A recording has a name in tmp_path.
LEMMA BaseIs == \A r \in Recordings : Base[r] \in Bases /\ r \in Places /\ Base[r] \in Places
BY DEF Bases, Places

\* What is found to be the protocol of a payload, and to be its audio.
LEMMA PayloadIs ==
  ASSUME NEW w \in Workers, job[w] \in Recordings
  PROVE  /\ CheckProtocol(job[w]) \in Protos
         /\ Payload(w) \in SUBSET Audio
<1>1. <<job[w], "in">> \in Audio  BY DEF Audio, Kinds
<1>2. Proto[job[w]] \in Protos \cup {"unknown"}  BY JobAssumption
<1> QED  BY <1>1, <1>2 DEF CheckProtocol, Protos, Payload

\* A step leaves the locals of the other workers alone; a job that arrives may
\* clash with theirs.
LEMMA OtherWorkers ==
  ASSUME TypeOK, NEW w \in Workers,
         Work(w) \/ \E r \in Recordings : Receive(w, r),
         NEW v \in Workers, v # w
  PROVE  /\ UNCHANGED <<pc[v], job[v], protocol[v], buffer[v], data[v], input[v], tries[v],
                        part[v], result[v], answer[v], made[v]>>
         /\ clash[v] => clash'[v]
         /\ config' = config
<1> USE DEF TypeOK, Goto, Answer, FailDownload, locals, Make, LoadFile, Prepared, Remove
<1>1. CASE \E r \in Recordings : Receive(w, r)  BY <1>1 DEF Receive
<1>2. CASE TooSmall(w) \/ LockCurl(w) \/ DownloadData(w) \/ DownloadDataThrows(w)
  BY <1>2 DEF TooSmall, LockCurl, DownloadData, DownloadDataThrows
<1>3. CASE FetchNothing(w) \/ FetchRemote(w) \/ FetchThrows(w)
  BY <1>3 DEF FetchNothing, FetchRemote, FetchThrows
<1>4. CASE Download(w) \/ DownloadFails(w) \/ Connect(w) \/ AwaitConnected(w)
  BY <1>4 DEF Download, DownloadFails, Connect, AwaitConnected
<1>5. CASE ReconnectFails(w) \/ ConnectFails(w) \/ RetryWorks(w) \/ RetryFails(w)
  BY <1>5 DEF ReconnectFails, ConnectFails, RetryWorks, RetryFails
<1>6. CASE RetryGivesUp(w) \/ LoadLocal(w) \/ LoadLocalFails(w)
  BY <1>6 DEF RetryGivesUp, LoadLocal, LoadLocalFails
<1>7. CASE Unsupported(w) \/ TakeAsItIs(w)
  BY <1>7 DEF Unsupported, TakeAsItIs
<1>8. CASE UseOriginal(w) \/ Store(w) \/ StoreFails(w) \/ UseLocal(w)
  BY <1>8 DEF UseOriginal, Store, StoreFails, UseLocal
<1>9. CASE Convert(w) \/ ConvertFails(w) \/ Decode(w) \/ DecodeFails(w)
  BY <1>9 DEF Convert, ConvertFails, Decode, DecodeFails
<1>10. CASE Separate(w) \/ SeparateFails(w) \/ NoProgram(w)
  BY <1>10 DEF Separate, SeparateFails, NoProgram
<1>11. CASE LoadPcm(w) \/ LoadPcmFails(w) \/ Clean(w)
  BY <1>11 DEF LoadPcm, LoadPcmFails, Clean
<1>12. CASE Unlink(w) \/ LoadPart(w) \/ LoadPartFails(w)
  BY <1>12 DEF Unlink, LoadPart, LoadPartFails
<1>13. CASE RecognisePart(w) \/ RecognisePartFails(w) \/ Recognise(w)
  BY <1>13 DEF RecognisePart, RecognisePartFails, Recognise
<1>14. CASE RecogniseFails(w) \/ Send(w) \/ Return(w)
  BY <1>14 DEF RecogniseFails, Send, Return
<1> QED  BY <1>1, <1>2, <1>3, <1>4, <1>5, <1>6, <1>7, <1>8, <1>9, <1>10, <1>11, <1>12, <1>13, <1>14
         DEF Work, Fetching, Preparing, Recognising

\* A file made at one of its two places is a file of tmp_path or beside the
\* original, and it holds audio.
LEMMA MakeTypes ==
  ASSUME TypeOK, NEW w \in Workers, NEW p \in Paths, NEW a \in Audio, Make(w, p, a)
  PROVE  files' \in [Paths -> Audio \cup {NoFile}] /\ made' \in [Workers -> SUBSET Paths]
<1>1. files' \in [Paths -> Audio \cup {NoFile}]  BY DEF Make, TypeOK
<1>2. made[w] \cup {p} \in SUBSET Paths  BY DEF TypeOK
<1> QED  BY <1>1, <1>2 DEF Make, TypeOK

\* Files that are removed are not there.
LEMMA RemoveTypes ==
  ASSUME TypeOK, NEW S, Remove(S)
  PROVE  files' \in [Paths -> Audio \cup {NoFile}]
BY DEF Remove, TypeOK

\* What is loaded from a file is audio.
LEMMA LoadTypes ==
  ASSUME TypeOK, NEW w \in Workers, NEW old \in SUBSET Audio, NEW p \in Paths,
         files[p] # NoFile, LoadFile(w, old, p)
  PROVE  /\ buffer' \in [Workers -> SUBSET Audio] /\ data' \in [Workers -> SUBSET Audio]
         /\ buffer'[w] = old \cup {files[p]} /\ data'[w] = old \cup {files[p]}
<1>1. old \cup {files[p]} \in SUBSET Audio  BY DEF TypeOK
<1> QED  BY <1>1 DEF LoadFile, TypeOK

\* The types and the locals of a worker that fetches its recording.
LEMMA FetchingTypes ==
  ASSUME TypeOK, NEW w \in Workers, Local(w), Fetching(w)
  PROVE  TypeOK' /\ Local(w)'
<1> USE JobAssumption DEF TypeOK, Points, Local, Goto, Answer, FailDownload, locals, Fetch, Named
<1>1. pc[w] # "idle" /\ job[w] \in Recordings
  BY DEF Fetching, TooSmall, LockCurl, DownloadData, DownloadDataThrows, FetchNothing, FetchRemote,
         FetchThrows, Download, DownloadFails, Connect, AwaitConnected, ReconnectFails,
         ConnectFails, RetryWorks, RetryFails, RetryGivesUp, LoadLocal, LoadLocalFails
<1>2. Base[job[w]] \in Places /\ LocalFile(w) \in Paths /\ <<job[w], "in">> \in Paths \cap Audio
  BY <1>1, BaseIs DEF LocalFile, Paths, Kinds, Audio, Places
<1>3. CASE TooSmall(w) \/ DownloadDataThrows(w) \/ FetchThrows(w)
  <2>1. CASE TooSmall(w)  BY <1>1, <2>1 DEF TooSmall
  <2>2. CASE DownloadDataThrows(w)
    <3>1. \E from \in {"fetch", "curl"} : FailDownload(w, from)
      BY <2>2 DEF DownloadDataThrows
    <3>2. UNCHANGED <<files, connected, made>>  BY <2>2 DEF DownloadDataThrows
    <3> QED  BY <1>1, <3>1, <3>2
  <2>3. CASE FetchThrows(w)  BY <1>1, <2>3 DEF FetchThrows
  <2> QED  BY <1>3, <2>1, <2>2, <2>3
<1>4. CASE LockCurl(w) \/ DownloadData(w)
  <2>1. CASE LockCurl(w)  BY <1>1, <2>1 DEF LockCurl
  <2>2. CASE DownloadData(w)
    <3>1. PICK got \in SUBSET Audio :
            /\ buffer' = [buffer EXCEPT ![w] = got]
            /\ data' = [data EXCEPT ![w] = IF CheckProtocol(job[w]) = "none" THEN Payload(w) ELSE got]
      <4>1. Proto[job[w]] = "file" /\ NoFile # files[<<job[w], "in">>] =>
              {files[<<job[w], "in">>]} \in SUBSET Audio
        BY <1>2
      <4>2. {<<job[w], "in">>} \in SUBSET Audio /\ {} \in SUBSET Audio  BY <1>2
      <4> QED  BY <2>2, <4>1, <4>2 DEF DownloadData
    <3>2. buffer' \in [Workers -> SUBSET Audio] /\ data' \in [Workers -> SUBSET Audio]
      <4>1. (IF CheckProtocol(job[w]) = "none" THEN Payload(w) ELSE got) \in SUBSET Audio
        BY <1>1, PayloadIs
      <4> QED  BY <3>1, <4>1
    <3>3. /\ protocol' = [protocol EXCEPT ![w] = CheckProtocol(job[w])]
          /\ pc' = [pc EXCEPT ![w] = "check"] /\ pc[w] \in {"fetch", "curl"}
          /\ UNCHANGED <<config, taken, job, clash, files, connected, input, tries, part, result,
                          answer, made>>
      BY <2>2 DEF DownloadData
    <3>4. protocol' \in [Workers -> Protos]  BY <1>1, <3>3, PayloadIs
    <3> QED  BY <1>1, <3>2, <3>3, <3>4
  <2> QED  BY <1>4, <2>1, <2>2
<1>5. CASE FetchNothing(w)
  <2>1. data' \in [Workers -> SUBSET Audio]
    BY <1>1, <1>5, PayloadIs DEF FetchNothing
  <2>2. PICK p \in Protos : protocol' = [protocol EXCEPT ![w] = p]
    BY <1>5 DEF FetchNothing
  <2> QED  BY <1>1, <1>5, <2>1, <2>2 DEF FetchNothing
<1>6. CASE FetchRemote(w)  BY <1>1, <1>6, PayloadIs DEF FetchRemote
<1>7. CASE Download(w) \/ RetryWorks(w)
  <2>1. files' \in [Paths -> Audio \cup {NoFile}] /\ made' \in [Workers -> SUBSET Paths]
    BY <1>2, <1>7, MakeTypes DEF Download, RetryWorks
  <2>2. CASE Download(w)  BY <1>1, <2>1, <2>2 DEF Download
  <2>3. CASE RetryWorks(w)  BY <1>1, <2>1, <2>3 DEF RetryWorks
  <2> QED  BY <1>7, <2>2, <2>3
<1>8. CASE DownloadFails(w)
  <2>1. pc' = [pc EXCEPT ![w] = "retry"] /\ pc[w] \in {"download", "again"}
    BY <1>8 DEF DownloadFails
  <2> QED  BY <1>1, <1>8, <2>1 DEF DownloadFails
<1>9. CASE Connect(w)
  <2>1. \E t \in {"connected", "reconnected"} : pc' = [pc EXCEPT ![w] = t]
    BY <1>9 DEF Connect
  <2>2. pc[w] \in Fetch  BY <1>9 DEF Connect
  <2> QED  BY <1>1, <1>9, <2>1, <2>2 DEF Connect
<1>10. CASE AwaitConnected(w)
  <2>1. \E t \in {"again", "attempt"} : pc' = [pc EXCEPT ![w] = t]
    BY <1>10 DEF AwaitConnected
  <2>2. pc[w] \in Fetch  BY <1>10 DEF AwaitConnected
  <2> QED  BY <1>1, <1>10, <2>1, <2>2 DEF AwaitConnected
<1>11. CASE ReconnectFails(w) \/ RetryGivesUp(w)
  <2>1. CASE ReconnectFails(w)  BY <1>1, <2>1 DEF ReconnectFails
  <2>2. CASE RetryGivesUp(w)  BY <1>1, <2>2 DEF RetryGivesUp
  <2> QED  BY <1>11, <2>1, <2>2
<1>12. CASE ConnectFails(w)  BY <1>1, <1>12 DEF ConnectFails
<1>13. CASE RetryFails(w)
  <2>1. tries' \in [Workers -> 0 .. Retries]
    <3>1. tries[w] \in 0 .. Retries /\ tries[w] > 0 /\ tries' = [tries EXCEPT ![w] = tries[w] - 1]
      BY <1>13 DEF RetryFails
    <3>2. tries[w] - 1 \in 0 .. Retries  BY <3>1
    <3> QED  BY <3>1, <3>2
  <2> QED  BY <1>1, <1>13, <2>1 DEF RetryFails
<1>14. CASE LoadLocal(w)
  <2>1. buffer[w] \cup {files[LocalFile(w)]} \in SUBSET Audio  BY <1>2, <1>14 DEF LoadLocal
  <2>2. buffer' \in [Workers -> SUBSET Audio] /\ buffer'[w] \in SUBSET Audio
    BY <1>14, <2>1 DEF LoadLocal
  <2>3. data' \in [Workers -> SUBSET Audio]  BY <1>1, <1>14, <2>2, PayloadIs DEF LoadLocal
  <2> QED  BY <1>1, <1>14, <2>2, <2>3 DEF LoadLocal
<1>15. CASE LoadLocalFails(w)  BY <1>1, <1>15 DEF LoadLocalFails
<1> QED  BY <1>3, <1>4, <1>5, <1>6, <1>7, <1>8, <1>9, <1>10, <1>11, <1>12, <1>13, <1>14, <1>15
         DEF Fetching

\* The types and the locals of a worker that prepares its recording.
LEMMA PreparingTypes ==
  ASSUME TypeOK, NEW w \in Workers, Local(w), Preparing(w)
  PROVE  TypeOK' /\ Local(w)'
<1> USE JobAssumption DEF TypeOK, Points, Local, Goto, Answer, locals, Fetch, Named
<1>1. pc[w] # "idle" /\ job[w] \in Recordings
  BY DEF Preparing, Unsupported, TakeAsItIs, UseOriginal, Store, StoreFails, UseLocal, Prepared,
         Convert, ConvertFails, Decode, DecodeFails, Separate, SeparateFails, NoProgram
<1>2. /\ Base[job[w]] \in Places /\ job[w] \in Places /\ LocalFile(w) \in Paths
      /\ input[w] # NoPlace => \A k \in Kinds : Path(w, k) \in Paths
  BY <1>1, BaseIs DEF LocalFile, Paths, Kinds, Path
<1>3. ASSUME NEW place \in {NoPlace, job[w], Base[job[w]]}, Prepared(w, place),
             place = job[w] => protocol[w] = "file", place = NoPlace <=> config.use = "unset",
             files' \in [Paths -> Audio \cup {NoFile}], made' \in [Workers -> SUBSET Paths]
      PROVE  TypeOK' /\ Local(w)'
  <2>1. Program(w) \in {"none", "convert", "decode", "separate"}  BY DEF Program
  <2>2. pc' \in [Workers -> Points] /\ pc'[w] \in {"convert", "decode", "separate"}
    BY <1>3, <2>1 DEF Prepared
  <2>3. buffer' \in [Workers -> SUBSET Audio]  BY <1>3 DEF Prepared
  <2>4. input' \in [Workers -> Places \cup {NoPlace}] /\ input'[w] = place
    BY <1>2, <1>3 DEF Prepared
  <2>5. UNCHANGED <<config, taken, job, clash, connected, protocol, data, tries, part, result, answer>>
    BY <1>3 DEF Prepared
  <2>6. place \in Recordings => place = job[w]  BY <1>1, <1>3, BaseIs
  <2>7. TypeOK'  BY <1>3, <2>2, <2>3, <2>4, <2>5
  <2>8. pc[w] # "returned" /\ answer'[w] = "none"  BY <1>3, <2>5 DEF Prepared
  <2>9. Local(w)'  BY <1>1, <1>3, <2>2, <2>4, <2>5, <2>6, <2>8
  <2> QED  BY <2>7, <2>9
<1>4. CASE Unsupported(w) \/ StoreFails(w)
  <2>1. CASE Unsupported(w)  BY <1>1, <2>1 DEF Unsupported
  <2>2. CASE StoreFails(w)  BY <1>1, <2>2 DEF StoreFails
  <2> QED  BY <1>4, <2>1, <2>2
<1>5. CASE TakeAsItIs(w)
  <2>1. input' \in [Workers -> Places \cup {NoPlace}]
        /\ input'[w] \in {NoPlace, Base[job[w]]}
    <3>1. input[w] = NoPlace  BY <1>5 DEF TakeAsItIs
    <3>2. PICK place \in {NoPlace, Base[job[w]]} : input' = [input EXCEPT ![w] = place]
      <4>1. input = [input EXCEPT ![w] = NoPlace]  BY <3>1
      <4> QED  BY <1>5, <3>1, <4>1 DEF TakeAsItIs
    <3> QED  BY <1>2, <3>2
  <2>2. input'[w] \in Recordings => FALSE  BY <1>1, <2>1, BaseIs
  <2> QED  BY <1>1, <1>5, <2>1, <2>2 DEF TakeAsItIs
<1>6. CASE UseOriginal(w) \/ UseLocal(w)
  <2>1. files' = files /\ made' = made  BY <1>6 DEF UseOriginal, UseLocal
  <2>2. Base[job[w]] # job[w]  BY <1>1, BaseIs
  <2>3. NoPlace # job[w]  BY <1>1
  <2>4. \E place \in {NoPlace, job[w], Base[job[w]]} :
          /\ Prepared(w, place) /\ (place = job[w] => protocol[w] = "file")
          /\ place = NoPlace <=> config.use = "unset"
    <3>1. CASE UseOriginal(w)  BY <2>2, <2>3, <3>1 DEF UseOriginal
    <3>2. CASE UseLocal(w)
      <4>1. config.use \in {"true", "false", "unset"}  BY DEF ConfigType
      <4>2. Base[job[w]] # NoPlace  BY <1>1, BaseIs
      <4> QED  BY <2>2, <2>3, <3>2, <4>1, <4>2 DEF UseLocal
    <3> QED  BY <1>6, <3>1, <3>2
  <2> QED  BY <1>3, <2>1, <2>4
<1>7. CASE Store(w)
  <2>1. files' \in [Paths -> Audio \cup {NoFile}] /\ made' \in [Workers -> SUBSET Paths]
    BY <1>2, <1>7, MakeTypes DEF Store
  <2>2. Base[job[w]] # job[w] /\ Base[job[w]] # NoPlace  BY <1>1, BaseIs
  <2> QED  BY <1>3, <1>7, <2>1, <2>2 DEF Store
<1>8. CASE Convert(w) \/ ConvertFails(w)
  <2>1. CASE Convert(w)  BY <1>1, <2>1 DEF Convert
  <2>2. CASE ConvertFails(w)  BY <1>1, <2>2 DEF ConvertFails
  <2> QED  BY <1>8, <2>1, <2>2
<1>9. CASE Decode(w)
  <2>1. PICK a \in Given(w) : Make(w, Path(w, "pcm"), <<a[1], "pcm">>)
    BY <1>9 DEF Decode
  <2>2. a \in Audio /\ input[w] # NoPlace  BY <2>1 DEF Given
  <2>3. <<a[1], "pcm">> \in Audio /\ Path(w, "pcm") \in Paths
    BY <1>2, <2>2 DEF Audio, Kinds
  <2>4. files' \in [Paths -> Audio \cup {NoFile}] /\ made' \in [Workers -> SUBSET Paths]
    BY <2>1, <2>3, MakeTypes
  <2> QED  BY <1>1, <1>9, <2>2, <2>4 DEF Decode
<1>10. CASE DecodeFails(w) \/ SeparateFails(w)
  <2>1. CASE DecodeFails(w)  BY <1>1, <2>1, RemoveTypes DEF DecodeFails
  <2>2. CASE SeparateFails(w)  BY <1>1, <2>2, RemoveTypes DEF SeparateFails
  <2> QED  BY <1>10, <2>1, <2>2
<1>11. CASE Separate(w)
  <2>1. PICK a \in Given(w) :
          files' = [files EXCEPT ![Path(w, "left")] = <<a[1], "left">>,
                                 ![Path(w, "right")] = <<a[1], "right">>]
    BY <1>11 DEF Separate
  <2>2. a \in Audio /\ input[w] # NoPlace  BY <2>1 DEF Given
  <2>3. <<a[1], "left">> \in Audio /\ <<a[1], "right">> \in Audio
        /\ Path(w, "left") \in Paths /\ Path(w, "right") \in Paths
    BY <1>2, <2>2 DEF Audio, Kinds
  <2>4. files' \in [Paths -> Audio \cup {NoFile}]  BY <2>1, <2>3
  <2>5. made[w] \cup {Path(w, "left"), Path(w, "right")} \in SUBSET Paths  BY <2>3
  <2>6. made' \in [Workers -> SUBSET Paths]  BY <1>11, <2>5 DEF Separate
  <2> QED  BY <1>1, <1>11, <2>2, <2>4, <2>6 DEF Separate
<1>12. CASE NoProgram(w)
  <2>1. pc' = [pc EXCEPT ![w] = "returned"] /\ answer' = [answer EXCEPT ![w] = "fail"]
        /\ pc[w] \in {"convert", "decode", "separate"} /\ UNCHANGED <<config, taken, job, clash>>
    BY <1>12 DEF NoProgram
  <2> QED  BY <1>1, <1>12, <2>1, RemoveTypes DEF NoProgram
<1> QED  BY <1>4, <1>5, <1>6, <1>7, <1>8, <1>9, <1>10, <1>11, <1>12 DEF Preparing

\* The types and the locals of a worker that recognises and answers.
LEMMA RecognisingTypes ==
  ASSUME TypeOK, NEW w \in Workers, Local(w), Recognising(w)
  PROVE  TypeOK' /\ Local(w)'
<1> USE JobAssumption DEF TypeOK, Points, Local, Goto, Answer, locals, Fetch, Named
<1>1. pc[w] # "idle" /\ job[w] \in Recordings
  BY DEF Recognising, LoadPcm, LoadPcmFails, Clean, Unlink, LoadPart, LoadPartFails,
         RecognisePart, RecognisePartFails, Recognise, RecogniseFails, Send
<1>2. \A k \in Kinds : input[w] # NoPlace => Path(w, k) \in Paths
  BY <1>1, BaseIs DEF Paths, Kinds, Path
<1>3. CASE LoadPcm(w)
  <2>1. Path(w, "pcm") \in Paths  BY <1>2, <1>3 DEF LoadPcm, Kinds
  <2>2. buffer' \in [Workers -> SUBSET Audio] /\ data' \in [Workers -> SUBSET Audio]
    BY <1>3, <2>1, LoadTypes DEF LoadPcm
  <2> QED  BY <1>1, <1>3, <2>2 DEF LoadPcm
<1>4. CASE LoadPart(w)
  <2>1. PartFile(w) \in Paths  BY <1>2, <1>4 DEF LoadPart, PartFile, Kinds
  <2>2. buffer' \in [Workers -> SUBSET Audio] /\ data' \in [Workers -> SUBSET Audio]
    BY <1>4, <2>1, LoadTypes DEF LoadPart
  <2> QED  BY <1>1, <1>4, <2>2 DEF LoadPart
<1>5. CASE LoadPcmFails(w) \/ LoadPartFails(w) \/ RecognisePartFails(w)
  <2>1. CASE LoadPcmFails(w)  BY <1>1, <2>1 DEF LoadPcmFails
  <2>2. CASE LoadPartFails(w)  BY <1>1, <2>2 DEF LoadPartFails
  <2>3. CASE RecognisePartFails(w)  BY <1>1, <2>3 DEF RecognisePartFails
  <2> QED  BY <1>5, <2>1, <2>2, <2>3
<1>6. CASE Clean(w) \/ Unlink(w)
  <2>1. CASE Clean(w)  BY <1>1, <2>1, RemoveTypes DEF Clean
  <2>2. CASE Unlink(w)  BY <1>1, <2>2, RemoveTypes DEF Unlink
  <2> QED  BY <1>6, <2>1, <2>2
<1>7. CASE RecognisePart(w)
  <2>1. result' \in [Workers -> Seq(SUBSET Audio)]
    <3>1. Append(result[w], data[w]) \in Seq(SUBSET Audio)  OBVIOUS
    <3> QED  BY <1>7, <3>1 DEF RecognisePart
  <2>2. part' \in [Workers -> 1 .. 2] /\ pc' \in [Workers -> Points]
        /\ pc[w] \in Named /\ pc'[w] \in {"part", "send"}
    <3>1. CASE part[w] < 2 /\ Goto(w, "recognise", "part") /\ part' = [part EXCEPT ![w] = @ + 1]
      <4>1. part[w] \in 1 .. 2  OBVIOUS
      <4>2. part[w] + 1 \in 1 .. 2  BY <3>1, <4>1, SMT
      <4> QED  BY <3>1, <4>2
    <3>2. CASE part[w] = 2 /\ Goto(w, "recognise", "send") /\ UNCHANGED part
      BY <3>2
    <3> QED  BY <1>7, <3>1, <3>2 DEF RecognisePart
  <2>3. files' \in [Paths -> Audio \cup {NoFile}]  BY <1>7, RemoveTypes DEF RecognisePart
  <2>4. buffer' \in [Workers -> SUBSET Audio]  BY <1>7 DEF RecognisePart
  <2>5. UNCHANGED <<config, taken, job, clash, connected, protocol, data, input, tries, answer, made>>
    BY <1>7 DEF RecognisePart
  <2> QED  BY <1>1, <2>1, <2>2, <2>3, <2>4, <2>5
<1>8. CASE Recognise(w)
  <2>1. result' \in [Workers -> Seq(SUBSET Audio)]  BY <1>8 DEF Recognise
  <2> QED  BY <1>1, <1>8, <2>1, RemoveTypes DEF Recognise
<1>9. CASE RecogniseFails(w)  BY <1>1, <1>9, RemoveTypes DEF RecogniseFails
<1>10. CASE Send(w)
  <2>1. PICK a \in {"success", "unsent"} : Answer(w, "send", a)  BY <1>10 DEF Send
  <2> QED  BY <1>1, <1>10, <2>1 DEF Send
<1> QED  BY <1>3, <1>4, <1>5, <1>6, <1>7, <1>8, <1>9, <1>10 DEF Recognising

\* The types and the locals of a worker that begins or ends a job.
LEMMA JobTypes ==
  ASSUME TypeOK, NEW w \in Workers, Local(w), Return(w) \/ \E r \in Recordings : Receive(w, r)
  PROVE  TypeOK' /\ Local(w)'
<1> USE JobAssumption DEF TypeOK, Points, Local, Fetch, Named
<1>1. CASE Return(w)
  <2>1. result' \in [Workers -> Seq(SUBSET Audio)]  BY <1>1 DEF Return
  <2>2. pc[w] = "returned" /\ pc' \in [Workers -> Points] /\ pc'[w] = "idle"
        /\ job' \in [Workers -> Recordings \cup {NoRecording}] /\ job'[w] = NoRecording
        /\ input' \in [Workers -> Places \cup {NoPlace}] /\ input'[w] = NoPlace
    BY <1>1 DEF Return
  <2>3. /\ protocol' \in [Workers -> Protos]
        /\ buffer' \in [Workers -> SUBSET Audio] /\ buffer'[w] = {}
        /\ data' \in [Workers -> SUBSET Audio]
        /\ tries' \in [Workers -> 0 .. Retries] /\ part' \in [Workers -> 1 .. 2]
        /\ answer' \in [Workers -> {"none", "success", "unsent", "fail", "E10200", "E20400"}]
        /\ answer'[w] = "none" /\ made'[w] = {}
        /\ made' \in [Workers -> SUBSET Paths] /\ clash' \in [Workers -> BOOLEAN]
    BY <1>1 DEF Return, Protos
  <2>4. UNCHANGED <<config, taken, files, connected>>  BY <1>1 DEF Return
  <2>5. NoPlace \notin Recordings  OBVIOUS
  <2> QED  BY <2>1, <2>2, <2>3, <2>4, <2>5
<1>2. CASE \E r \in Recordings : Receive(w, r)
  <2>1. PICK r \in Recordings : Receive(w, r)  BY <1>2
  <2>2. clash' \in [Workers -> BOOLEAN]
    <3>1. \A v \in Workers : clash[v] \in BOOLEAN  OBVIOUS
    <3> QED  BY <2>1, <3>1 DEF Receive
  <2>3. taken' \in 0 .. MaxJobs  BY <2>1 DEF Receive
  <2>4. pc' \in [Workers -> Points] /\ pc'[w] = "fetch" /\ pc[w] = "idle"
        /\ job' \in [Workers -> Recordings \cup {NoRecording}] /\ job'[w] = r
    BY <2>1 DEF Receive
  <2>5. UNCHANGED <<config, files, connected, locals, answer, made>>  BY <2>1 DEF Receive
  <2>6. input[w] = NoPlace /\ buffer[w] = {} /\ answer[w] = "none" /\ NoPlace \notin Recordings
        /\ r # NoRecording
    BY <2>4
  <2> QED  BY <2>2, <2>3, <2>4, <2>5, <2>6 DEF locals
<1> QED  BY <1>1, <1>2

\* Initially, and after every step, the variables have their types and the locals
\* of the workers agree with the points they are at.
LEMMA InitTypes ==
  ASSUME Init  PROVE  TypeOK /\ Locals
<1> USE JobAssumption, FileAssumption
<1>1. files \in [Paths -> Audio \cup {NoFile}]
  <2>1. PICK r \in Leftovers \cup {NoRecording} : files = Disk(r)  BY DEF Init
  <2>2. \A p \in Originals : p \in Audio  BY DEF Originals, Audio, Kinds
  <2>3. \A p \in Paths : r # NoRecording => <<r, p[2]>> \in Audio
    BY DEF Paths, Audio
  <2> QED  BY <2>1, <2>2, <2>3 DEF Disk
<1>2. TypeOK
  <2>1. <<>> \in Seq(SUBSET Audio)  OBVIOUS
  <2>2. /\ config \in Configs /\ connected \in BOOLEAN /\ taken \in 0 .. MaxJobs
        /\ pc \in [Workers -> Points] /\ job \in [Workers -> Recordings \cup {NoRecording}]
        /\ protocol \in [Workers -> Protos] /\ part \in [Workers -> 1 .. 2]
    BY DEF Init, Points, Protos
  <2>3. /\ buffer \in [Workers -> SUBSET Audio] /\ data \in [Workers -> SUBSET Audio]
        /\ input \in [Workers -> Places \cup {NoPlace}] /\ tries \in [Workers -> 0 .. Retries]
        /\ result \in [Workers -> Seq(SUBSET Audio)]
    BY <2>1 DEF Init
  <2>4. /\ answer \in [Workers -> {"none", "success", "unsent", "fail", "E10200", "E20400"}]
        /\ made \in [Workers -> SUBSET Paths] /\ clash \in [Workers -> BOOLEAN]
    BY DEF Init
  <2> QED  BY <1>1, <2>2, <2>3, <2>4 DEF TypeOK
<1>3. Locals  BY DEF Init, Locals, Local, Fetch, Named
<1> QED  BY <1>2, <1>3

\* Every step keeps the types and the locals.
LEMMA StepTypes ==
  ASSUME TypeOK, Locals, [Next]_vars  PROVE  TypeOK' /\ Locals'
<1>1. CASE Disconnect
  BY <1>1 DEF Disconnect, TypeOK, Locals, Local, locals
<1>2. ASSUME NEW w \in Workers, Work(w) \/ \E r \in Recordings : Receive(w, r)
      PROVE  TypeOK' /\ Locals'
  <2>1. TypeOK' /\ Local(w)'
    BY <1>2, FetchingTypes, PreparingTypes, RecognisingTypes, JobTypes DEF Work, Locals
  <2>2. \A v \in Workers : v # w => Local(v)'
    BY <1>2, OtherWorkers DEF Locals, Local
  <2> QED  BY <2>1, <2>2 DEF Locals
<1>3. CASE UNCHANGED vars  BY <1>3 DEF vars, locals, TypeOK, Locals, Local
<1> QED  BY <1>1, <1>2, <1>3 DEF Next

\* The variables have their types: in particular a part of a separated recording
\* is one of its two channels, and the attempts left never fall below zero.
THEOREM TypeCorrect == Spec => []TypeOK
<1>1. Init => TypeOK /\ Locals  BY InitTypes
<1>2. TypeOK /\ Locals /\ [Next]_vars => TypeOK' /\ Locals'  BY StepTypes
<1> QED  BY <1>1, <1>2, PTL DEF Spec

-----------------------------------------------------------------------------
(* The files that a worker changes. *)

\* A worker changes a file only in tmp_path, under the name of its recording, or
\* beside its original, which changes only when its recognition fails.
LEMMA Touched ==
  ASSUME TypeOK, NEW w \in Workers, Local(w),
         Work(w) \/ \E r \in Recordings : Receive(w, r),
         NEW p \in Paths, files'[p] # files[p]
  PROVE  /\ job[w] \in Recordings
         /\ p[1] \in {job[w], Base[job[w]]}
         /\ p = <<job[w], "in">> =>
              pc[w] = "stt" /\ answer'[w] = "fail" /\ files'[p] = NoFile
<1> USE JobAssumption DEF TypeOK, Local, Goto, Answer, FailDownload, locals, Fetch, Named
<1>1. job[w] \in Recordings
  <2>1. pc[w] # "idle"
    <3>2. CASE \E r \in Recordings : Receive(w, r)  BY <3>2 DEF Receive
    <3>3. CASE Return(w)  BY <3>3 DEF Return
    <3>4. CASE Fetching(w)
      BY <3>4 DEF Fetching, TooSmall, LockCurl, DownloadData, DownloadDataThrows, FetchNothing,
         FetchRemote, FetchThrows, Download, DownloadFails, Connect, AwaitConnected,
         ReconnectFails, ConnectFails, RetryWorks, RetryFails, RetryGivesUp, LoadLocal,
         LoadLocalFails
    <3>5. CASE Preparing(w)
      BY <3>5 DEF Preparing, Unsupported, TakeAsItIs, UseOriginal, Store, StoreFails, UseLocal,
         Prepared, Convert, ConvertFails, Decode, DecodeFails, Separate, SeparateFails, NoProgram
    <3>6. CASE Recognising(w)
      BY <3>6 DEF Recognising, LoadPcm, LoadPcmFails, Clean, Unlink, LoadPart, LoadPartFails,
         RecognisePart, RecognisePartFails, Recognise, RecogniseFails, Send
    <3> QED  BY <3>2, <3>3, <3>4, <3>5, <3>6 DEF Work
  <2> QED  BY <2>1
<1>2. Base[job[w]] # job[w]  BY <1>1, BaseIs
<1>3. ASSUME input[w] # NoPlace, \E k \in {"pcm", "left", "right"} : p = Path(w, k)
      PROVE  p[1] \in {job[w], Base[job[w]]} /\ p # <<job[w], "in">>
  BY <1>3 DEF Path
<1>4. ASSUME p \in Temporary(w)
      PROVE  p[1] \in {job[w], Base[job[w]]} /\ p # <<job[w], "in">>
  BY <1>1, <1>2, <1>4 DEF Temporary, InputFile, Path
<1>5. ASSUME p = LocalFile(w)
      PROVE  p[1] \in {job[w], Base[job[w]]} /\ p # <<job[w], "in">>
  BY <1>2, <1>5 DEF LocalFile
<1>6. CASE Fetching(w)
  <2>1. p = LocalFile(w)
    BY <1>6 DEF Fetching, TooSmall, LockCurl, DownloadData, DownloadDataThrows, FetchNothing,
       FetchRemote, FetchThrows, Download, DownloadFails, Connect, AwaitConnected,
       ReconnectFails, ConnectFails, RetryWorks, RetryFails, RetryGivesUp, LoadLocal,
       LoadLocalFails, Make
  <2> QED  BY <1>1, <1>5, <2>1
<1>7. CASE Preparing(w)
  <2>1. \/ p = LocalFile(w) \/ p \in Temporary(w)
        \/ input[w] # NoPlace /\ \E k \in {"pcm", "left", "right"} : p = Path(w, k)
    <3>1. CASE Unsupported(w) \/ TakeAsItIs(w) \/ UseOriginal(w) \/ Store(w) \/ StoreFails(w)
      BY <1>7, <3>1 DEF Unsupported, TakeAsItIs, UseOriginal, Store, StoreFails, Make
    <3>2. CASE UseLocal(w) \/ Convert(w) \/ ConvertFails(w)
      BY <1>7, <3>2 DEF UseLocal, Convert, ConvertFails
    <3>3. CASE Decode(w)  BY <1>7, <3>3 DEF Decode, Make, Given
    <3>4. CASE DecodeFails(w) \/ SeparateFails(w) \/ NoProgram(w)
      BY <1>7, <3>4 DEF DecodeFails, SeparateFails, NoProgram, Remove
    <3>5. CASE Separate(w)  BY <1>7, <3>5 DEF Separate, Given
    <3> QED  BY <1>7, <3>1, <3>2, <3>3, <3>4, <3>5 DEF Preparing
  <2>2. p[1] \in {job[w], Base[job[w]]} /\ p # <<job[w], "in">>
    BY <1>3, <1>4, <1>5, <2>1
  <2> QED  BY <1>1, <2>2
<1>8. CASE Recognising(w)
  <2>1. \/ p \in Temporary(w)
        \/ input[w] # NoPlace /\ \E k \in {"pcm", "left", "right"} : p = Path(w, k)
        \/ /\ input[w] # NoPlace /\ p = Path(w, "in")
           /\ pc[w] = "stt" /\ answer'[w] = "fail" /\ files'[p] = NoFile
    <3>1. CASE LoadPcm(w) \/ LoadPcmFails(w) \/ LoadPart(w) \/ LoadPartFails(w)
      BY <3>1 DEF LoadPcm, LoadPcmFails, LoadPart, LoadPartFails
    <3>2. CASE Clean(w) \/ Unlink(w) \/ Recognise(w)
      BY <3>2 DEF Clean, Unlink, Recognise, Remove
    <3>3. CASE RecognisePart(w)  BY <3>3 DEF RecognisePart, Remove, PartFile
    <3>4. CASE RecognisePartFails(w) \/ Send(w)  BY <3>4 DEF RecognisePartFails, Send
    <3>5. CASE RecogniseFails(w)  BY <3>5 DEF RecogniseFails, Remove, InputFile
    <3> QED  BY <1>8, <3>1, <3>2, <3>3, <3>4, <3>5 DEF Recognising
  <2>2. p[1] \in {job[w], Base[job[w]]}
    <3>1. CASE input[w] # NoPlace /\ p = Path(w, "in")  BY <3>1 DEF Path
    <3> QED  BY <1>3, <1>4, <2>1, <3>1
  <2>3. p = <<job[w], "in">> =>
          pc[w] = "stt" /\ answer'[w] = "fail" /\ files'[p] = NoFile
    BY <1>3, <1>4, <2>1
  <2> QED  BY <1>1, <2>2, <2>3
<1>9. CASE Return(w) \/ \E r \in Recordings : Receive(w, r)
  BY <1>9 DEF Return, Receive
<1> QED  BY <1>6, <1>7, <1>8, <1>9 DEF Work

\* OriginalKept, of a single step.
OriginalKeptStep ==
  \A r \in Recordings :
    LET original == <<r, "in">>
    IN  files'[original] # files[original] =>
          \E w \in Workers : job[w] = r /\ pc[w] = "stt" /\ answer'[w] = "fail"

\* The original of a file:// recording survives its job, unless its recognition
\* fails: every other call of std::remove is for a file in tmp_path.
THEOREM OriginalsSurvive == Spec => OriginalKept
<1>1. Init => TypeOK /\ Locals  BY InitTypes
<1>2. TypeOK /\ Locals /\ [Next]_vars => TypeOK' /\ Locals'  BY StepTypes
<1>3. TypeOK /\ Locals /\ [Next]_vars => [OriginalKeptStep]_vars
  <2> SUFFICES ASSUME TypeOK, Locals, Next, NEW r \in Recordings,
                      files'[<<r, "in">>] # files[<<r, "in">>]
               PROVE  \E w \in Workers : job[w] = r /\ pc[w] = "stt" /\ answer'[w] = "fail"
    BY DEF OriginalKeptStep
  <2>1. <<r, "in">> \in Paths  BY DEF Paths, Places, Kinds
  <2>2. PICK w \in Workers : Work(w) \/ \E q \in Recordings : Receive(w, q)
    BY DEF Next, Disconnect
  <2>3. job[w] \in Recordings /\ r \in {job[w], Base[job[w]]}
        /\ (<<r, "in">> = <<job[w], "in">> => pc[w] = "stt" /\ answer'[w] = "fail")
    BY <2>1, <2>2, Touched DEF Locals
  <2>4. r = job[w]  BY <2>3, BaseIs, JobAssumption
  <2> QED  BY <2>3, <2>4
<1> QED  BY <1>1, <1>2, <1>3, PTL DEF Spec, OriginalKept, OriginalKeptStep

-----------------------------------------------------------------------------
(* What a job has, at each point, when no job on a recording of its name has run
   beside it. *)

\* The texts that the branch of recording r makes of it.
Decoded(r) ==
  CASE Fmt[r] = "stereo" -> <<{<<r, "left">>}, {<<r, "right">>}>>
    [] Fmt[r] = "encoded" -> <<{<<r, "pcm">>}>>
    [] OTHER -> <<{<<r, "in">>}>>

Answered(w) == pc[w] = "returned" /\ answer[w] \in {"success", "unsent"}

\* An original holds itself or has been removed.
OriginalsTrue ==
  \A r \in Recordings : Proto[r] = "file" => files[<<r, "in">>] \in {<<r, "in">>, NoFile}

\* Two jobs whose recordings share a name know of it.
Alone ==
  \A v, w \in Workers :
    v # w /\ pc[v] # "idle" /\ pc[w] # "idle" /\ ~clash[w] =>
      job[v] # job[w] /\ Base[job[v]] # Base[job[w]]

\* Up to the format of the recording, worker w has it and nothing else.
OwnRecording(w) ==
  LET own == <<job[w], "in">>
  IN  /\ pc[w] \notin {"fetch", "curl", "returned"} => protocol[w] = CheckProtocol(job[w])
      /\ pc[w] = "load" => files[LocalFile(w)] = own
      /\ pc[w] = "check" => data[w] = {own} /\ (config.use = "true" => files[LocalFile(w)] = own)
      /\ pc[w] \in {"convert", "decode", "separate"} /\ input[w] # NoPlace =>
           files[Path(w, "in")] \in {own, NoFile}

\* Behind it, worker w has what the branch of its recording makes of it.
OwnAudio(w) ==
  LET r == job[w]
      left == {<<r, "left">>}
  IN  /\ pc[w] = "convert" => Fmt[r] = "standard" /\ data[w] = {<<r, "in">>}
      /\ pc[w] \in {"decode", "loadpcm", "clean"} => Fmt[r] = "encoded"
      /\ pc[w] \in {"decode", "loadpcm"} => buffer[w] = {}
      /\ pc[w] = "loadpcm" => files[Path(w, "pcm")] = <<r, "pcm">>
      /\ pc[w] = "clean" => data[w] = {<<r, "pcm">>}
      /\ pc[w] = "stt" => Fmt[r] \in {"raw", "standard", "encoded"} /\ Decoded(r) = <<data[w]>>
      /\ pc[w] \in {"separate", "unlink", "part", "recognise"} => Fmt[r] = "stereo"
      /\ pc[w] \in {"unlink", "part", "recognise"} => files[Path(w, "right")] = <<r, "right">>
      /\ pc[w] \in {"unlink", "part", "recognise"} /\ part[w] = 1 => files[Path(w, "left")] = <<r, "left">>
      /\ pc[w] \in {"part", "recognise"} => result[w] = IF part[w] = 1 THEN <<>> ELSE <<left>>
      /\ pc[w] = "recognise" => data[w] = IF part[w] = 1 THEN left ELSE {<<r, "right">>}
      /\ pc[w] = "send" \/ Answered(w) => Fmt[r] # "unsupported" /\ result[w] = Decoded(r)

Has(w) == OwnRecording(w) /\ OwnAudio(w)

\* Or it has nobody's audio, because nothing was fetched.
Nothing(w) ==
  /\ Unfetched(job[w])
  /\ pc[w] \in {"check", "stt", "send", "returned"}
  /\ pc[w] \in {"check", "stt"} => data[w] = {}
  /\ pc[w] = "send" \/ Answered(w) => result[w] = <<{}>>

Own(w) == Has(w) \/ Nothing(w)

\* The files beside its input that worker w has made and that are there.
Live(w, k) == input[w] # NoPlace /\ Path(w, k) \in made[w] /\ files[Path(w, k)] # NoFile

LocalLive(w) == LocalFile(w) \in made[w] /\ files[LocalFile(w)] # NoFile

\* The download that stays in tmp_path.
Kept(w) ==
  /\ config.use = "true"
  /\ protocol[w] = "file" \/ (Fmt[job[w]] = "standard" /\ ~config.spk)

\* The files that worker w has made are where it will remove them.
Tidy(w) ==
  /\ config.use = "unset" => made[w] = {}
  /\ pc[w] = "fetch" \/ (pc[w] \in Fetch \cup {"check"} /\ config.use # "true") => made[w] = {}
  /\ \A p \in made[w] :
       p = LocalFile(w) \/ (input[w] # NoPlace /\ \E k \in {"pcm", "left", "right"} : p = Path(w, k))
  /\ LocalFile(w) \in made[w] => config.use = "true" \/ protocol[w] # "file"
  /\ pc[w] \in {"convert", "decode", "separate", "loadpcm", "clean", "unlink"} /\ LocalFile(w) \in made[w]
       => input[w] = Base[job[w]]
  /\ pc[w] = "stt" /\ LocalLive(w) => input[w] = Base[job[w]] \/ Kept(w)
  /\ (pc[w] \in {"part", "recognise", "send"} \/ Answered(w)) /\ LocalLive(w) => Kept(w)
  /\ Live(w, "pcm") => pc[w] \in {"loadpcm", "clean", "returned"} /\ ~Answered(w)
  /\ Live(w, "left") =>
       \/ pc[w] = "unlink" \/ (pc[w] \in {"part", "recognise"} /\ part[w] = 1)
       \/ pc[w] = "returned" /\ ~Answered(w)
  /\ Live(w, "right") => pc[w] \in {"unlink", "part", "recognise", "returned"} /\ ~Answered(w)

\* The count of the parts begins with the first.
FirstPart(w) ==
  pc[w] \notin {"part", "recognise", "send", "returned"} => part[w] = 1 /\ result[w] = <<>>

\* What is so of each worker's job.
Job(w) == FirstPart(w) /\ (pc[w] # "idle" /\ ~clash[w] => Own(w) /\ Tidy(w))

JobsInv == OriginalsTrue /\ Alone /\ \A w \in Workers : Job(w)

-----------------------------------------------------------------------------
(* The invariant of the jobs: steps of the other workers, and failures. *)

\* The files under the name of a recording are touched by its own job only.
LEMMA Elsewhere ==
  ASSUME TypeOK, Locals, Alone, NEW v \in Workers, NEW w \in Workers, v # w,
         Work(v) \/ \E r \in Recordings : Receive(v, r),
         pc[w] # "idle", ~clash[w], NEW k \in Kinds
  PROVE  /\ files'[<<job[w], k>>] = files[<<job[w], k>>]
         /\ files'[<<Base[job[w]], k>>] = files[<<Base[job[w]], k>>]
<1>1. job[w] \in Recordings  BY DEF TypeOK, Locals, Local
<1>2. ASSUME NEW p \in Paths, p[1] \in {job[w], Base[job[w]]}, files'[p] # files[p]
      PROVE  FALSE
  <2>1. job[v] \in Recordings /\ p[1] \in {job[v], Base[job[v]]}
    BY <1>2, Touched DEF Locals
  <2>2. pc[v] # "idle"  BY <2>1, JobAssumption DEF Locals, Local
  <2>3. job[v] # job[w] /\ Base[job[v]] # Base[job[w]]  BY <2>2 DEF Alone
  <2>4. Base[job[w]] \in Bases /\ Base[job[v]] \in Bases /\ Bases \cap Recordings = {}
    BY <1>1, <2>1, BaseIs, JobAssumption
  <2> QED  BY <1>1, <1>2, <2>1, <2>3, <2>4
<1>3. <<job[w], k>> \in Paths /\ <<Base[job[w]], k>> \in Paths
  BY <1>1, BaseIs DEF Paths
<1> QED  BY <1>2, <1>3

\* So they leave what a worker knows of its job as it is.
LEMMA OthersJob ==
  ASSUME TypeOK, Locals, Alone, NEW v \in Workers, NEW w \in Workers, v # w,
         Work(v) \/ \E r \in Recordings : Receive(v, r),
         Job(w)
  PROVE  Job(w)'
<1>1. /\ UNCHANGED <<pc[w], job[w], protocol[w], buffer[w], data[w], input[w], tries[w],
                     part[w], result[w], answer[w], made[w]>>
      /\ clash[w] => clash'[w]
      /\ config' = config
  BY OtherWorkers
<1>2. FirstPart(w)'  BY <1>1 DEF Job, FirstPart
<1> SUFFICES ASSUME pc[w] # "idle", ~clash[w]  PROVE Own(w)' /\ Tidy(w)'
  BY <1>1, <1>2 DEF Job, TypeOK
<1>3. Own(w) /\ Tidy(w)  BY DEF Job
<1>4. \A k \in Kinds : /\ files'[<<job[w], k>>] = files[<<job[w], k>>]
                       /\ files'[<<Base[job[w]], k>>] = files[<<Base[job[w]], k>>]
  BY Elsewhere
<1>5. files'[LocalFile(w)] = files[LocalFile(w)] /\ LocalFile(w)' = LocalFile(w)
  BY <1>1, <1>4 DEF LocalFile, Kinds
<1>6. \A k : Path(w, k)' = Path(w, k)  BY <1>1 DEF Path
<1>7. \A k \in Kinds : input[w] # NoPlace => files'[Path(w, k)] = files[Path(w, k)]
  BY <1>4 DEF Path, Locals, Local
<1>8. Answered(w)' = Answered(w)  BY <1>1 DEF Answered
<1>9. Own(w)'
  <2>1. Has(w) => Has(w)'
    BY <1>1, <1>5, <1>6, <1>7, <1>8
       DEF Has, OwnRecording, OwnAudio, Decoded, Kinds, Locals, Local, Named
  <2>2. Nothing(w) => Nothing(w)'  BY <1>1, <1>8 DEF Nothing, Unfetched
  <2> QED  BY <1>3, <2>1, <2>2 DEF Own
<1>10. Tidy(w)'
  <2>1. \A k \in Kinds : Live(w, k)' = Live(w, k)  BY <1>1, <1>6, <1>7 DEF Live
  <2>2. LocalLive(w)' = LocalLive(w) /\ Kept(w)' = Kept(w)
    BY <1>1, <1>5 DEF LocalLive, Kept
  <2> QED  BY <1>1, <1>3, <1>5, <1>6, <1>8, <2>1, <2>2 DEF Tidy, Kinds
<1> QED  BY <1>9, <1>10

\* A job that fails has nothing more to show.
LEMMA FailedJob ==
  ASSUME NEW w \in Workers, Job(w), pc[w] # "idle",
         pc'[w] = "returned", answer'[w] \notin {"success", "unsent"},
         UNCHANGED <<config, job, clash, input, protocol, made>>
  PROVE  Job(w)'
<1>1. ~Answered(w)' /\ FirstPart(w)'  BY DEF Answered, FirstPart
<1>2. Own(w)'  BY <1>1 DEF Own, Has, OwnRecording, OwnAudio
<1>3. LocalFile(w)' = LocalFile(w) /\ \A k : Path(w, k)' = Path(w, k)
  BY DEF LocalFile, Path
<1>4. Tidy(w) => Tidy(w)'  BY <1>1, <1>3 DEF Tidy, Fetch
<1> QED  BY <1>1, <1>2, <1>4 DEF Job

-----------------------------------------------------------------------------
(* The invariant of the jobs: the steps of the job itself. *)

\* The names that a job goes by are distinct.
LEMMA Names ==
  ASSUME NEW w \in Workers, job[w] \in Recordings
  PROVE  /\ Base[job[w]] # job[w] /\ Base[job[w]] # NoPlace /\ job[w] # NoPlace
         /\ <<job[w], "in">> # NoFile /\ <<job[w], "in">> \in Paths
         /\ LocalFile(w) \in Paths
<1>1. Base[job[w]] \in Bases /\ Base[job[w]] \in Places /\ job[w] \in Places  BY BaseIs
<1>2. <<job[w], "in">> \in Audio  BY DEF Audio, Kinds
<1> QED  BY <1>1, <1>2, JobAssumption, FileAssumption DEF Paths, Kinds, LocalFile

\* A job that fetches its recording gets its own.
LEMMA FetchingOwn ==
  ASSUME TypeOK, OriginalsTrue, NEW w \in Workers, Local(w), Job(w), Fetching(w)
  PROVE  Job(w)'
<1> USE DEF Goto, Answer, FailDownload, locals
<1>1. /\ pc[w] \in Fetch /\ UNCHANGED <<config, job, clash, input, part, result>>
      /\ input[w] = NoPlace /\ buffer[w] = {} /\ job[w] \in Recordings
  <2>1. pc[w] \in Fetch /\ UNCHANGED <<config, job, clash, input, part, result>>
    BY DEF Fetching, TooSmall, LockCurl, DownloadData, DownloadDataThrows, FetchNothing,
       FetchRemote, FetchThrows, Download, DownloadFails, Connect, AwaitConnected,
       ReconnectFails, ConnectFails, RetryWorks, RetryFails, RetryGivesUp, LoadLocal,
       LoadLocalFails, Fetch
  <2> QED  BY <2>1 DEF Local, TypeOK, Fetch
<1>2. pc[w] # "idle"  BY <1>1 DEF Fetch
<1>3. FirstPart(w)'
  BY <1>1 DEF Fetch, FirstPart, Job
<1>4. CASE TooSmall(w) \/ DownloadDataThrows(w) \/ FetchThrows(w) \/ ReconnectFails(w)
           \/ RetryGivesUp(w) \/ LoadLocalFails(w)
  <2>1. /\ pc'[w] = "returned" /\ answer'[w] \notin {"success", "unsent"}
        /\ UNCHANGED <<protocol, made>>
    BY <1>4 DEF TooSmall, DownloadDataThrows, FetchThrows, ReconnectFails, RetryGivesUp,
       LoadLocalFails, TypeOK
  <2> QED  BY <1>1, <1>2, <2>1, FailedJob
<1> SUFFICES ASSUME ~clash[w], ~(TooSmall(w) \/ DownloadDataThrows(w) \/ FetchThrows(w)
                      \/ ReconnectFails(w) \/ RetryGivesUp(w) \/ LoadLocalFails(w))
             PROVE  Own(w)' /\ Tidy(w)'
  BY <1>1, <1>3, <1>4 DEF Job
<1>5. Own(w) /\ Tidy(w)  BY <1>2 DEF Job
<1>6. LocalFile(w)' = LocalFile(w)  BY <1>1 DEF LocalFile
<1>7. \A k : ~Live(w, k)'  BY <1>1 DEF Live
<1>8. \A p \in made[w] : p = LocalFile(w)  BY <1>1, <1>5 DEF Tidy
<1>9. CASE DownloadData(w)
  <2>1. pc[w] \in {"fetch", "curl"} /\ pc'[w] = "check" /\ config.use = "false"
        /\ protocol'[w] = CheckProtocol(job[w]) /\ made' = made
    BY <1>9 DEF DownloadData, TypeOK
  <2>2. data'[w] = {<<job[w], "in">>} \/ (data'[w] = {} /\ Proto[job[w]] = "unknown")
    BY <1>1, <1>9, JobAssumption
       DEF DownloadData, TypeOK, OriginalsTrue, CheckProtocol, Payload, Protos
  <2>3. made'[w] = {}  BY <1>5, <2>1 DEF Tidy, Fetch
  <2>4. Own(w)'
    <3>1. CASE data'[w] = {<<job[w], "in">>}
      BY <1>1, <2>1, <3>1 DEF Own, Has, OwnRecording, OwnAudio, Answered
    <3>2. CASE data'[w] = {} /\ Proto[job[w]] = "unknown"
      BY <1>1, <2>1, <3>2 DEF Own, Nothing, Unfetched, Answered
    <3> QED  BY <2>2, <3>1, <3>2
  <2>5. Tidy(w)'  BY <1>1, <1>7, <2>1, <2>3 DEF Tidy, LocalLive, Answered
  <2> QED  BY <2>4, <2>5
<1>10. CASE FetchNothing(w)
  <2>1. pc'[w] = "check" /\ config.use = "unset" /\ made' = made
    BY <1>10 DEF FetchNothing, TypeOK
  <2>2. made'[w] = {}  BY <1>5, <2>1 DEF Tidy
  <2>3. data'[w] = {} \/ (data'[w] = {<<job[w], "in">>} /\ protocol'[w] = CheckProtocol(job[w]))
    BY <1>10 DEF FetchNothing, TypeOK, Payload, CheckProtocol
  <2>4. Own(w)'
    <3>1. CASE data'[w] = {}  BY <1>1, <2>1, <3>1 DEF Own, Nothing, Unfetched, Answered
    <3>2. CASE data'[w] = {<<job[w], "in">>} /\ protocol'[w] = CheckProtocol(job[w])
      BY <1>1, <2>1, <3>2 DEF Own, Has, OwnRecording, OwnAudio, Answered
    <3> QED  BY <2>3, <3>1, <3>2
  <2>5. Tidy(w)'  BY <1>1, <1>7, <2>1, <2>2 DEF Tidy, LocalLive, Answered
  <2> QED  BY <2>4, <2>5
<1>11. ASSUME pc'[w] \in Fetch \ {"fetch", "curl", "load"}, config.use = "true",
              protocol'[w] = CheckProtocol(job[w]), made'[w] = made[w]
       PROVE  Own(w)' /\ Tidy(w)'
  <2>1. Own(w)'  BY <1>1, <1>11 DEF Own, Has, OwnRecording, OwnAudio, Answered, Fetch
  <2>2. \A p \in made'[w] : p = LocalFile(w)'  BY <1>6, <1>8, <1>11
  <2>3. Tidy(w)'  BY <1>1, <1>7, <1>11, <2>2 DEF Tidy, LocalLive, Answered, Fetch
  <2> QED  BY <2>1, <2>3
<1>12. CASE FetchRemote(w)
  <2>1. pc'[w] = "download" /\ config.use = "true" /\ protocol'[w] = CheckProtocol(job[w])
        /\ made' = made
    BY <1>12 DEF FetchRemote, TypeOK
  <2> QED  BY <1>11, <2>1 DEF Fetch
<1>13. pc[w] \notin {"fetch", "curl"} =>
         /\ config.use = "true" /\ protocol[w] = CheckProtocol(job[w])
         /\ pc[w] = "load" => files[LocalFile(w)] = <<job[w], "in">>
  BY <1>1, <1>5 DEF Own, Has, Nothing, OwnRecording, Local, Fetch
<1>14. CASE DownloadFails(w) \/ Connect(w) \/ AwaitConnected(w) \/ ConnectFails(w) \/ RetryFails(w)
  <2>1. /\ pc[w] \notin {"fetch", "curl"} /\ pc'[w] \in {"retry", "connected", "reconnected", "again", "attempt"}
        /\ UNCHANGED <<protocol, made>>
    BY <1>14 DEF DownloadFails, Connect, AwaitConnected, ConnectFails, RetryFails, TypeOK
  <2> QED  BY <1>11, <1>13, <2>1 DEF Fetch
<1>15. CASE RetryWorks(w) \/ Download(w)
  <2>1. /\ pc[w] \notin {"fetch", "curl"}
        /\ pc'[w] \in {"load", "returned"} /\ ~Answered(w)'
        /\ files'[LocalFile(w)] = <<job[w], "in">> /\ made'[w] = made[w] \cup {LocalFile(w)}
        /\ protocol' = protocol
    BY <1>1, <1>15, Names DEF RetryWorks, Download, Make, TypeOK, Answered
  <2>2. config.use = "true" /\ protocol'[w] = CheckProtocol(job[w])  BY <1>13, <2>1
  <2>3. Own(w)'  BY <1>1, <1>6, <2>1, <2>2 DEF Own, Has, OwnRecording, OwnAudio
  <2>4. \A p \in made'[w] : p = LocalFile(w)'  BY <1>6, <1>8, <2>1
  <2>5. Tidy(w)'  BY <1>1, <1>7, <2>1, <2>2, <2>4 DEF Tidy, LocalLive, Fetch
  <2> QED  BY <2>3, <2>5
<1>16. CASE LoadLocal(w)
  <2>1. pc[w] = "load" /\ pc'[w] = "check" /\ config.use = "true" /\ protocol' = protocol
        /\ made' = made /\ files' = files
    BY <1>13, <1>16 DEF LoadLocal, TypeOK
  <2>2. files[LocalFile(w)] = <<job[w], "in">> /\ protocol[w] = CheckProtocol(job[w])
    BY <1>13, <2>1
  <2>3. data'[w] = {<<job[w], "in">>} \/ (data'[w] = {} /\ Proto[job[w]] = "unknown")
    BY <1>1, <1>16, <2>2 DEF LoadLocal, TypeOK, Payload, CheckProtocol
  <2>4. Own(w)'
    <3>1. CASE data'[w] = {<<job[w], "in">>}
      BY <1>1, <1>6, <2>1, <2>2, <3>1 DEF Own, Has, OwnRecording, OwnAudio, Answered
    <3>2. CASE data'[w] = {} /\ Proto[job[w]] = "unknown"
      BY <1>1, <2>1, <3>2 DEF Own, Nothing, Unfetched, Answered
    <3> QED  BY <2>3, <3>1, <3>2
  <2>5. \A p \in made'[w] : p = LocalFile(w)'  BY <1>6, <1>8, <2>1
  <2>6. Tidy(w)'  BY <1>1, <1>7, <2>1, <2>5 DEF Tidy, LocalLive, Fetch, Answered
  <2> QED  BY <2>4, <2>6
<1>17. CASE LockCurl(w)
  <2>1. pc[w] = "fetch" /\ pc'[w] = "curl" /\ made' = made /\ config.use = "false"
    BY <1>17 DEF LockCurl, TypeOK
  <2>2. made'[w] = {}  BY <1>5, <2>1 DEF Tidy
  <2>3. Own(w)'  BY <2>1 DEF Own, Has, OwnRecording, OwnAudio, Answered
  <2>4. Tidy(w)'  BY <1>1, <1>7, <2>1, <2>2 DEF Tidy, LocalLive, Answered
  <2> QED  BY <2>3, <2>4
<1> QED  BY <1>9, <1>10, <1>12, <1>14, <1>15, <1>16, <1>17 DEF Fetching

\* The format that job_stt finds is that of the recording it has.
LEMMA FormatFound ==
  ASSUME NEW w \in Workers, job[w] \in Recordings, data[w] = {<<job[w], "in">>}
  PROVE  \A f : FormatIs(w, f) <=> f = Fmt[job[w]]
<1>1. \A r : {<<job[w], "in">>} = {<<r, "in">>} <=> r = job[w]
  <2>1. \A r : <<job[w], "in">> = <<r, "in">> <=> r = job[w]  OBVIOUS
  <2> QED  BY <2>1, Zenon
<1>2. Heard(w) = {job[w]}  BY <1>1 DEF Heard
<1> QED  BY <1>2 DEF FormatIs

\* Without a recording it finds too little for a format.
LEMMA NothingFound ==
  ASSUME NEW w \in Workers, data[w] = {}
  PROVE  \A f : FormatIs(w, f) <=> f = "raw"
<1>1. Heard(w) = {}  BY DEF Heard
<1>2. Branch(CheckWaveFormat(Short)) = "raw"  BY DEF Branch, CheckWaveFormat, Short, Plain
<1> QED  BY <1>1, <1>2 DEF FormatIs

\* A job that hands its recording to a program gets back what becomes of it.
LEMMA PreparingOwn ==
  ASSUME TypeOK, OriginalsTrue, NEW w \in Workers, Local(w), Job(w), Preparing(w)
  PROVE  Job(w)'
<1> USE DEF Goto, Answer, locals
<1> DEFINE Prepares == {"check", "convert", "decode", "separate"}
<1>1. /\ pc[w] \in Prepares /\ UNCHANGED <<config, job, clash, part, result, data, protocol>>
      /\ job[w] \in Recordings
  <2>1. pc[w] \in Prepares /\ UNCHANGED <<config, job, clash, part, result, data, protocol>>
    BY DEF Preparing, Unsupported, TakeAsItIs, UseOriginal, Store, StoreFails, UseLocal,
       Prepared, Convert, ConvertFails, Decode, DecodeFails, Separate, SeparateFails, NoProgram
  <2> QED  BY <2>1 DEF Local, TypeOK
<1>2. pc[w] # "idle"  BY <1>1
<1>3. FirstPart(w)'  BY <1>1 DEF FirstPart, Job
<1> DEFINE Failing == \/ Unsupported(w) \/ StoreFails(w) \/ ConvertFails(w) \/ DecodeFails(w)
                      \/ SeparateFails(w) \/ NoProgram(w)
<1>4. CASE Failing
  <2>1. /\ pc'[w] = "returned" /\ answer'[w] \notin {"success", "unsent"}
        /\ UNCHANGED <<input, made>>
    BY <1>4 DEF Unsupported, StoreFails, ConvertFails, DecodeFails, SeparateFails, NoProgram,
       TypeOK
  <2> QED  BY <1>1, <1>2, <2>1, FailedJob
<1> SUFFICES ASSUME ~clash[w], ~Failing  PROVE Own(w)' /\ Tidy(w)'
  BY <1>1, <1>3, <1>4 DEF Job
<1> HIDE DEF Failing
<1>5. Own(w) /\ Tidy(w)  BY <1>2 DEF Job
<1>6. LocalFile(w)' = LocalFile(w) /\ LocalFile(w) \in Paths /\ LocalFile(w) = <<Base[job[w]], "in">>
  BY <1>1, Names DEF LocalFile
<1>7. Has(w) => protocol[w] = CheckProtocol(job[w])
  BY <1>1 DEF Has, OwnRecording
<1>8. ASSUME pc[w] = "check"
      PROVE  /\ Has(w) =>
                  /\ data[w] = {<<job[w], "in">>} /\ \A f : FormatIs(w, f) <=> f = Fmt[job[w]]
                  /\ config.use = "true" => files[LocalFile(w)] = <<job[w], "in">>
             /\ Nothing(w) => data[w] = {} /\ \A f : FormatIs(w, f) <=> f = "raw"
             /\ config.use # "true" => made[w] = {}
             /\ \A p \in made[w] : p = LocalFile(w)
             /\ part[w] = 1 /\ result[w] = <<>> /\ input[w] = NoPlace
  <2>1. Has(w) =>
          /\ data[w] = {<<job[w], "in">>} /\ \A f : FormatIs(w, f) <=> f = Fmt[job[w]]
          /\ config.use = "true" => files[LocalFile(w)] = <<job[w], "in">>
    BY <1>1, <1>8, FormatFound DEF Has, OwnRecording
  <2>2. Nothing(w) => data[w] = {} /\ \A f : FormatIs(w, f) <=> f = "raw"
    BY <1>8, NothingFound DEF Nothing
  <2>3. part[w] = 1 /\ result[w] = <<>> /\ input[w] = NoPlace
    BY <1>8 DEF Job, FirstPart, Local
  <2>4. config.use # "true" => made[w] = {}  BY <1>5, <1>8 DEF Tidy
  <2>5. \A p \in made[w] : p = LocalFile(w)  BY <1>5, <2>3 DEF Tidy
  <2> QED  BY <2>1, <2>2, <2>3, <2>4, <2>5
<1>9. CASE TakeAsItIs(w)
  <2>1. /\ pc[w] = "check" /\ pc'[w] = "stt" /\ UNCHANGED <<files, made>>
        /\ FormatIs(w, "raw") \/ (FormatIs(w, "standard") /\ ~config.spk)
        /\ FormatIs(w, "raw") /\ ~FormatIs(w, "standard") /\ config.use = "true" => input'[w] = Base[job[w]]
        /\ input'[w] \in {NoPlace, Base[job[w]]}
    BY <1>8, <1>9 DEF TakeAsItIs, TypeOK
  <2>2. Has(w) => Fmt[job[w]] \in {"raw", "standard"}  BY <1>8, <2>1
  <2>3. Own(w)'
    <3>1. Has(w) => Decoded(job[w]) = <<data[w]>>  BY <1>8, <2>1, <2>2 DEF Decoded
    <3>2. Decoded(job[w])' = Decoded(job[w])  BY <1>1 DEF Decoded
    <3>3. Has(w) => Has(w)'
      BY <1>1, <1>7, <2>1, <2>2, <3>1, <3>2 DEF Has, OwnRecording, OwnAudio, Answered
    <3>4. Nothing(w) => Nothing(w)'
      BY <1>1, <1>8, <2>1 DEF Nothing, Unfetched, Answered
    <3> QED  BY <1>5, <3>3, <3>4 DEF Own
  <2>4. \A p \in made'[w] : p = LocalFile(w)'  BY <1>6, <1>8, <2>1
  <2>5. \A k \in {"pcm", "left", "right"} : ~Live(w, k)'
    BY <1>6, <2>4 DEF Live, Path
  <2>6. LocalLive(w)' => input'[w] = Base[job[w]] \/ Kept(w)'
    <3>1. LocalLive(w)' => config.use = "true"  BY <1>8, <2>1 DEF LocalLive
    <3>2. Nothing(w) \/ Fmt[job[w]] = "raw" => input'[w] = Base[job[w]] \/ config.use # "true"
      BY <1>5, <1>8, <2>1 DEF Own
    <3>3. Has(w) => Fmt[job[w]] = "raw" \/ (Fmt[job[w]] = "standard" /\ ~config.spk)
      BY <1>8, <2>1
    <3> QED  BY <1>1, <1>5, <3>1, <3>2, <3>3 DEF Kept, Own
  <2>7. config.use = "unset" => made'[w] = {}  BY <1>8, <2>1
  <2>8. LocalFile(w)' \in made'[w] => config'.use = "true"  BY <1>1, <1>8, <2>1, <2>4
  <2>9. Tidy(w)'  BY <1>1, <2>1, <2>4, <2>5, <2>6, <2>7, <2>8 DEF Tidy, Answered, Fetch
  <2> QED  BY <2>3, <2>9
<1>10. ASSUME ~TakeAsItIs(w)  PROVE Has(w)
  <2> SUFFICES ASSUME Nothing(w)  PROVE FALSE  BY <1>5 DEF Own
  <2>1. pc[w] = "check"  BY <1>1 DEF Nothing
  <2>2. Program(w) = "none"  BY <1>8, <2>1 DEF Program
  <2>3. CASE UseOriginal(w) \/ Store(w) \/ UseLocal(w)
    BY <2>2, <2>3 DEF UseOriginal, Store, UseLocal, Prepared
  <2>4. CASE Convert(w) \/ Decode(w) \/ Separate(w)
    BY <2>1, <2>4 DEF Convert, Decode, Separate
  <2> QED  BY <1>10, <2>3, <2>4 DEF Preparing, Failing
<1>11. ASSUME NEW place, Prepared(w, place), Has(w),
              place # NoPlace => files'[<<place, "in">>] \in {<<job[w], "in">>, NoFile},
              \A p \in made'[w] : p = LocalFile(w),
              LocalFile(w) \in made'[w] =>
                /\ config.use = "true" \/ (config.use = "false" /\ protocol[w] # "file")
                /\ place = Base[job[w]]
       PROVE  Own(w)' /\ Tidy(w)'
  <2>1. /\ pc[w] = "check" /\ pc'[w] = Program(w) /\ Program(w) # "none" /\ input'[w] = place
        /\ answer' = answer
        /\ Program(w) = "decode" => buffer'[w] = {}
    BY <1>11 DEF Prepared, TypeOK
  <2>2. Program(w) \in {"convert", "decode", "separate"}  BY <2>1 DEF Program
  <2>3. /\ data[w] = {<<job[w], "in">>}
        /\ Fmt[job[w]] = CASE Program(w) = "convert" -> "standard"
                           [] Program(w) = "decode" -> "encoded"
                           [] OTHER -> "stereo"
    BY <1>8, <1>11, <2>1, <2>2 DEF Program
  <2>4. Path(w, "in")' = <<place, "in">>  BY <2>1 DEF Path
  <2>5. Own(w)'
    BY <1>1, <1>7, <1>11, <2>1, <2>2, <2>3, <2>4 DEF Own, Has, OwnRecording, OwnAudio, Answered
  <2>6. \A k \in {"pcm", "left", "right"} : ~Live(w, k)'
    BY <1>6, <1>11 DEF Live, Path
  <2>7. config.use = "unset" => made'[w] = {}  BY <1>11
  <2>8. \A p \in made'[w] : p = LocalFile(w)'  BY <1>6, <1>11
  <2>9. Tidy(w)'
    BY <1>1, <1>6, <1>11, <2>1, <2>2, <2>6, <2>7, <2>8 DEF Tidy, Answered, Fetch
  <2> QED  BY <2>5, <2>9
<1>12. CASE UseOriginal(w)
  <2>1. Prepared(w, job[w]) /\ config.use = "false" /\ protocol[w] = "file"
        /\ UNCHANGED <<files, made>> /\ pc[w] = "check" /\ ~TakeAsItIs(w)
    BY <1>12 DEF UseOriginal, Prepared, TakeAsItIs, Program, TypeOK
  <2>2. Has(w)  BY <1>10, <2>1
  <2>3. files'[<<job[w], "in">>] \in {<<job[w], "in">>, NoFile}
    BY <1>1, <1>7, <2>1, <2>2 DEF OriginalsTrue, CheckProtocol
  <2>4. made'[w] = {}  BY <1>8, <2>1
  <2> QED  BY <1>11, <2>1, <2>2, <2>3, <2>4
<1>13. CASE Store(w)
  <2>1. PICK a \in data[w] : Make(w, LocalFile(w), a)  BY <1>13 DEF Store
  <2>2. Prepared(w, Base[job[w]]) /\ config.use = "false" /\ protocol[w] # "file" /\ pc[w] = "check"
        /\ ~TakeAsItIs(w)
    BY <1>13 DEF Store, Prepared, TakeAsItIs, Program, TypeOK
  <2>3. Has(w)  BY <1>10, <2>2
  <2>4. files'[<<Base[job[w]], "in">>] = <<job[w], "in">>
    BY <1>6, <1>8, <2>1, <2>2, <2>3 DEF Make, TypeOK
  <2>5. made'[w] = {LocalFile(w)}
    <3>1. made[w] = {}  BY <1>8, <2>2
    <3> QED  BY <2>1, <3>1 DEF Make, TypeOK
  <2> QED  BY <1>11, <2>2, <2>4, <2>5, <2>3
<1>14. CASE UseLocal(w)
  <2>1. Has(w)
    <3>1. ~TakeAsItIs(w)  BY <1>14 DEF UseLocal, Prepared, TakeAsItIs, Program, TypeOK
    <3> QED  BY <1>10, <3>1
  <2>2. CASE config.use = "true"
    <3>1. Prepared(w, Base[job[w]]) /\ UNCHANGED <<files, made>> /\ pc[w] = "check"
      BY <1>14, <2>2 DEF UseLocal, Prepared
    <3>2. files'[<<Base[job[w]], "in">>] = <<job[w], "in">>  BY <1>6, <1>8, <2>2, <2>1, <3>1
    <3>3. \A p \in made'[w] : p = LocalFile(w)  BY <1>8, <3>1
    <3> QED  BY <1>11, <2>2, <2>1, <3>1, <3>2, <3>3
  <2>3. CASE config.use # "true"
    <3>1. Prepared(w, NoPlace) /\ UNCHANGED <<files, made>> /\ pc[w] = "check" /\ config.use # "false"
      BY <1>14, <2>3 DEF UseLocal, Prepared
    <3>2. config.use = "unset"  BY <2>3, <3>1, JobAssumption DEF TypeOK, ConfigType
    <3>3. made'[w] = {}  BY <1>8, <2>3, <3>1
    <3> QED  BY <1>11, <2>1, <3>1, <3>2, <3>3
  <2> QED  BY <2>2, <2>3
<1>15. CASE Convert(w)
  <2>1. pc[w] = "convert" /\ pc'[w] = "stt" /\ UNCHANGED <<files, input, made>>
    BY <1>15 DEF Convert, TypeOK
  <2>2. \A k : Live(w, k)' = Live(w, k)  BY <2>1 DEF Live, Path
  <2>3. Own(w)'
    BY <1>1, <1>5, <2>1 DEF Own, Has, Nothing, OwnRecording, OwnAudio, Decoded, Answered
  <2>4. Tidy(w)'
    BY <1>1, <1>5, <1>6, <2>1, <2>2 DEF Tidy, LocalLive, Answered, Fetch, Path
  <2> QED  BY <2>3, <2>4
<1>16. CASE Decode(w)
  <2>1. PICK a \in Given(w) : Make(w, Path(w, "pcm"), <<a[1], "pcm">>)  BY <1>16 DEF Decode
  <2>2. pc[w] = "decode" /\ pc'[w] = "loadpcm" /\ UNCHANGED <<input, buffer, answer>>
    BY <1>16 DEF Decode, TypeOK
  <2>3. input[w] # NoPlace /\ files[Path(w, "in")] = a /\ a # NoFile
    BY <2>1, FileAssumption DEF Given
  <2>4. Path(w, "pcm") \in Paths /\ Path(w, "pcm") # LocalFile(w) /\ \A k : Path(w, k)' = Path(w, k)
    BY <1>1, <1>6, <2>2, <2>3, BaseIs DEF Path, Paths, Kinds, Local
  <2>5. files' = [files EXCEPT ![Path(w, "pcm")] = <<a[1], "pcm">>]
        /\ made'[w] = made[w] \cup {Path(w, "pcm")}
    BY <2>1 DEF Make, TypeOK
  <2>6. config.use # "unset"  BY <2>3 DEF Local
  <2>7. Has(w) /\ a = <<job[w], "in">>
    BY <1>5, <2>2, <2>3 DEF Own, Has, Nothing, OwnRecording
  <2>8. files'[Path(w, "pcm")] = <<job[w], "pcm">>  BY <2>4, <2>5, <2>7 DEF TypeOK
  <2>9. Own(w)'
    BY <1>1, <1>7, <2>2, <2>4, <2>7, <2>8 DEF Own, Has, OwnRecording, OwnAudio, Answered
  <2>10. \A k \in {"left", "right"} : ~Live(w, k)'
    <3>1. \A k \in {"left", "right"} : ~Live(w, k) /\ Path(w, k) # Path(w, "pcm")
      BY <1>5, <2>2 DEF Tidy, Path
    <3>2. \A k \in {"left", "right"} : files'[Path(w, k)] = files[Path(w, k)]
      BY <1>1, <2>3, <2>5, <3>1, BaseIs DEF TypeOK, Paths, Kinds, Path, Local
    <3> QED  BY <2>2, <2>4, <2>5, <3>1, <3>2 DEF Live
  <2>11. \A p \in made'[w] :
           p = LocalFile(w)' \/ (input'[w] # NoPlace /\ \E k \in {"pcm", "left", "right"} : p = Path(w, k)')
    BY <1>5, <1>6, <2>2, <2>3, <2>4, <2>5 DEF Tidy
  <2>12. LocalFile(w)' \in made'[w] => LocalFile(w) \in made[w]  BY <1>6, <2>4, <2>5
  <2>13. Tidy(w)'
    BY <1>1, <1>5, <2>2, <2>6, <2>10, <2>11, <2>12 DEF Tidy, Answered, Fetch
  <2> QED  BY <2>9, <2>13
<1>17. CASE Separate(w)
  <2>1. PICK a \in Given(w) :
          files' = [files EXCEPT ![Path(w, "left")] = <<a[1], "left">>,
                                 ![Path(w, "right")] = <<a[1], "right">>]
    BY <1>17 DEF Separate
  <2>2. pc[w] = "separate" /\ pc'[w] = "unlink" /\ UNCHANGED <<input, answer>>
        /\ made'[w] = made[w] \cup {Path(w, "left"), Path(w, "right")}
    BY <1>17 DEF Separate, TypeOK
  <2>3. input[w] # NoPlace /\ files[Path(w, "in")] = a /\ a # NoFile
    BY <2>1, FileAssumption DEF Given
  <2>4. \A k \in {"pcm", "left", "right"} : Path(w, k) \in Paths /\ Path(w, k) # LocalFile(w)
    BY <1>1, <1>6, <2>3, BaseIs DEF Path, Paths, Kinds, Local
  <2>5. \A k : Path(w, k)' = Path(w, k)  BY <2>2 DEF Path
  <2>6. config.use # "unset"  BY <2>3 DEF Local
  <2>7. Has(w) /\ a = <<job[w], "in">>
    BY <1>5, <2>2, <2>3 DEF Own, Has, Nothing, OwnRecording
  <2>8. /\ files'[Path(w, "left")] = <<job[w], "left">>
        /\ files'[Path(w, "right")] = <<job[w], "right">>
        /\ files'[Path(w, "pcm")] = files[Path(w, "pcm")]
    <3>1. Path(w, "left") # Path(w, "right") /\ Path(w, "pcm") # Path(w, "right")
          /\ Path(w, "pcm") # Path(w, "left")
      BY DEF Path
    <3> QED  BY <2>1, <2>4, <2>7, <3>1 DEF TypeOK
  <2>9. part'[w] = 1 /\ result'[w] = <<>>  BY <1>1, <2>2 DEF Job, FirstPart
  <2>10. Own(w)'
    BY <1>1, <1>7, <2>2, <2>5, <2>7, <2>8, <2>9 DEF Own, Has, OwnRecording, OwnAudio, Answered
  <2>11. ~Live(w, "pcm")'
    <3>1. ~Live(w, "pcm") /\ Path(w, "pcm") \notin {Path(w, "left"), Path(w, "right")}
      BY <1>5, <2>2 DEF Tidy, Path
    <3> QED  BY <2>2, <2>5, <2>8, <3>1 DEF Live
  <2>12. \A p \in made'[w] :
           p = LocalFile(w)' \/ (input'[w] # NoPlace /\ \E k \in {"pcm", "left", "right"} : p = Path(w, k)')
    BY <1>5, <1>6, <2>2, <2>3, <2>5 DEF Tidy
  <2>13. LocalFile(w)' \in made'[w] => LocalFile(w) \in made[w]  BY <1>6, <2>2, <2>4
  <2>14. Tidy(w)'
    BY <1>1, <1>5, <2>2, <2>6, <2>11, <2>12, <2>13 DEF Tidy, Answered, Fetch
  <2> QED  BY <2>10, <2>14
<1> QED  BY <1>9, <1>12, <1>13, <1>14, <1>15, <1>16, <1>17 DEF Preparing, Failing

\* The texts of two parts, one behind the other.
LEMMA TwoParts ==
  ASSUME NEW S, NEW l \in S, NEW r \in S
  PROVE  Append(<<>>, l) = <<l>> /\ Append(<<l>>, r) = <<l, r>>
<1>1. <<>> \in Seq(S) /\ <<l>> \in Seq(S) /\ <<l, r>> \in Seq(S)  OBVIOUS
<1>2. Append(<<>>, l) = <<l>>
  <2>1. Append(<<>>, l) \in Seq(S) /\ Len(Append(<<>>, l)) = 1 /\ Append(<<>>, l)[1] = l
    BY <1>1
  <2>2. \A i \in 1 .. 1 : Append(<<>>, l)[i] = <<l>>[i]  BY <2>1
  <2> QED  BY <1>1, <2>1, <2>2, SeqEqual
<1>3. Append(<<l>>, r) = <<l, r>>
  <2>1. Append(<<l>>, r) \in Seq(S) /\ Len(Append(<<l>>, r)) = 2
        /\ Append(<<l>>, r)[1] = l /\ Append(<<l>>, r)[2] = r
    BY <1>1
  <2>2. \A i \in 1 .. 2 : Append(<<l>>, r)[i] = <<l, r>>[i]  BY <2>1
  <2> QED  BY <1>1, <2>1, <2>2, SeqEqual
<1> QED  BY <1>2, <1>3

\* A job that recognises hears what is its own, and removes what it has made.
LEMMA RecognisingOwn ==
  ASSUME TypeOK, NEW w \in Workers, Local(w), Job(w), Recognising(w)
  PROVE  Job(w)'
<1> USE DEF Goto, Answer, locals
<1> DEFINE Recognises == {"loadpcm", "clean", "unlink", "part", "recognise", "stt", "send"}
<1>1. /\ pc[w] \in Recognises /\ UNCHANGED <<config, job, clash, input, protocol, made>>
      /\ job[w] \in Recordings
  <2>1. pc[w] \in Recognises /\ UNCHANGED <<config, job, clash, input, protocol, made>>
    BY DEF Recognising, LoadPcm, LoadPcmFails, Clean, Unlink, LoadPart, LoadPartFails,
       RecognisePart, RecognisePartFails, Recognise, RecogniseFails, Send
  <2> QED  BY <2>1 DEF Local, TypeOK
<1>2. pc[w] # "idle"  BY <1>1
<1> DEFINE Failing == \/ LoadPcmFails(w) \/ LoadPartFails(w) \/ RecognisePartFails(w)
                      \/ RecogniseFails(w)
<1>3. CASE Failing
  <2>1. pc'[w] = "returned" /\ answer'[w] \notin {"success", "unsent"}
    BY <1>3 DEF LoadPcmFails, LoadPartFails, RecognisePartFails, RecogniseFails, TypeOK
  <2> QED  BY <1>1, <1>2, <2>1, FailedJob
<1>4. ASSUME ~Failing  PROVE FirstPart(w)'
  <2>1. CASE LoadPcm(w) \/ Clean(w) \/ Unlink(w) \/ LoadPart(w)
    <3>1. UNCHANGED <<part, result>> /\ pc[w] \in {"loadpcm", "clean", "unlink", "part"}
      BY <2>1 DEF LoadPcm, Clean, Unlink, LoadPart
    <3>2. CASE pc[w] = "part"
      BY <2>1, <3>2 DEF LoadPcm, Clean, Unlink, LoadPart, TypeOK, FirstPart
    <3> QED  BY <3>1, <3>2 DEF Job, FirstPart
  <2>2. CASE RecognisePart(w) \/ Recognise(w) \/ Send(w)
    <3>1. pc'[w] \in {"part", "send", "returned"}
      BY <2>2 DEF RecognisePart, Recognise, Send, TypeOK
    <3> QED  BY <3>1 DEF FirstPart
  <2> QED  BY <1>4, <2>1, <2>2 DEF Recognising
<1> SUFFICES ASSUME ~clash[w], ~Failing  PROVE Own(w)' /\ Tidy(w)'
  BY <1>1, <1>3, <1>4 DEF Job
<1> HIDE DEF Failing
<1>5. Own(w) /\ Tidy(w)  BY <1>2 DEF Job
<1>6. /\ LocalFile(w)' = LocalFile(w) /\ LocalFile(w) \in Paths
      /\ LocalFile(w) = <<Base[job[w]], "in">>
      /\ \A k : Path(w, k)' = Path(w, k)
      /\ \A k \in Kinds : input[w] # NoPlace => Path(w, k) \in Paths
  BY <1>1, Names, BaseIs DEF LocalFile, Path, Paths, Local
<1>7. /\ Has(w) => protocol[w] = CheckProtocol(job[w])
      /\ pc[w] \notin {"stt", "send"} => Has(w)
  BY <1>1, <1>5 DEF Own, Has, Nothing, OwnRecording
<1>8. ASSUME \A k \in {"pcm", "left", "right"} : Live(w, k)' => Live(w, k),
             LocalLive(w)' => LocalLive(w)
      PROVE  /\ config'.use = "unset" => made'[w] = {}
             /\ \A p \in made'[w] :
                  \/ p = LocalFile(w)'
                  \/ input'[w] # NoPlace /\ \E k \in {"pcm", "left", "right"} : p = Path(w, k)'
             /\ LocalFile(w)' \in made'[w] => config'.use = "true" \/ protocol'[w] # "file"
             /\ Kept(w)' = Kept(w)
  BY <1>1, <1>5, <1>6 DEF Tidy, Kept
<1>9. ASSUME NEW p \in Paths, files'[p] # NoFile, NEW S, Remove(S)
      PROVE  p \notin S /\ files[p] # NoFile
  BY <1>9 DEF Remove
<1>10. CASE LoadPcm(w)
  <2>1. pc[w] = "loadpcm" /\ pc'[w] = "clean" /\ UNCHANGED <<files, answer>>
    BY <1>10 DEF LoadPcm, TypeOK
  <2>2. data'[w] = buffer[w] \cup {files[Path(w, "pcm")]}
    BY <1>10 DEF LoadPcm, LoadFile, TypeOK
  <2>3. Own(w)'
    BY <1>1, <1>7, <2>1, <2>2 DEF Own, Has, OwnRecording, OwnAudio, Answered
  <2>4. \A k : Live(w, k)' = Live(w, k)  BY <1>1, <1>6, <2>1 DEF Live
  <2>5. LocalLive(w)' = LocalLive(w)  BY <1>1, <1>6, <2>1 DEF LocalLive
  <2>6. Tidy(w)'
    BY <1>1, <1>5, <1>6, <1>8, <2>1, <2>4, <2>5 DEF Tidy, Answered, Fetch
  <2> QED  BY <2>3, <2>6
<1>11. CASE Clean(w)
  <2>1. pc[w] = "clean" /\ pc'[w] = "stt" /\ UNCHANGED <<answer, data>>
        /\ Remove({Path(w, "pcm")} \cup Temporary(w))
    BY <1>11 DEF Clean, TypeOK
  <2>2. Own(w)'
    <3>1. Fmt[job[w]] = "encoded" /\ Decoded(job[w]) = <<data[w]>>
      BY <1>7, <2>1 DEF Has, OwnAudio, Decoded
    <3>2. Decoded(job[w])' = Decoded(job[w])  BY <1>1 DEF Decoded
    <3> QED  BY <1>1, <1>7, <2>1, <3>1, <3>2 DEF Own, Has, OwnRecording, OwnAudio, Answered
  <2>3. \A k \in {"pcm", "left", "right"} : Live(w, k)' => Live(w, k) /\ k # "pcm"
    BY <1>1, <1>6, <1>9, <2>1 DEF Live, Kinds
  <2>4. LocalLive(w)' => LocalLive(w) /\ LocalFile(w) \notin Temporary(w)
    BY <1>1, <1>6, <1>9, <2>1 DEF LocalLive
  <2>5. LocalLive(w)' => input[w] = Base[job[w]]
    BY <1>5, <2>1, <2>4 DEF Tidy, LocalLive
  <2>6. Tidy(w)'
    BY <1>1, <1>5, <1>6, <1>8, <2>1, <2>3, <2>4, <2>5 DEF Tidy, Answered, Fetch
  <2> QED  BY <2>2, <2>6
<1>12. CASE Unlink(w)
  <2>1. pc[w] = "unlink" /\ pc'[w] = "part" /\ UNCHANGED <<answer, data, part, result>>
        /\ Remove(Temporary(w))
    BY <1>12 DEF Unlink, TypeOK
  <2>2. \A k \in {"left", "right"} : files'[Path(w, k)] = files[Path(w, k)]
    <3>1. input[w] # NoPlace  BY <2>1 DEF Local, Named
    <3>2. \A k \in {"left", "right"} : Path(w, k) \notin Temporary(w)
      BY DEF Temporary, InputFile, Path
    <3> QED  BY <1>6, <2>1, <3>1, <3>2 DEF Remove, Kinds
  <2>3. part[w] = 1 /\ result[w] = <<>>  BY <2>1 DEF Job, FirstPart
  <2>4. Own(w)'
    BY <1>1, <1>6, <1>7, <2>1, <2>2, <2>3 DEF Own, Has, OwnRecording, OwnAudio, Answered
  <2>5. \A k \in {"pcm", "left", "right"} : Live(w, k)' => Live(w, k)
    BY <1>1, <1>6, <1>9, <2>1 DEF Live, Kinds
  <2>6. LocalLive(w)' => LocalLive(w) /\ LocalFile(w) \notin Temporary(w)
    BY <1>1, <1>6, <1>9, <2>1 DEF LocalLive
  <2>7. LocalLive(w)' => Kept(w)
    <3>1. LocalLive(w)' => input[w] = Base[job[w]]  BY <1>5, <2>1, <2>6 DEF Tidy, LocalLive
    <3>2. LocalLive(w)' => protocol[w] = "file"
      BY <1>1, <1>6, <2>6, <3>1, Names DEF Temporary, InputFile, Path
    <3>3. LocalLive(w)' => config.use = "true"  BY <1>5, <2>6, <3>2 DEF Tidy, LocalLive
    <3> QED  BY <3>2, <3>3 DEF Kept
  <2>8. Tidy(w)'
    BY <1>1, <1>5, <1>6, <1>8, <2>1, <2>3, <2>5, <2>6, <2>7 DEF Tidy, Answered, Fetch
  <2> QED  BY <2>4, <2>8
<1>13. CASE LoadPart(w)
  <2>1. pc[w] = "part" /\ pc'[w] = "recognise" /\ UNCHANGED <<files, answer, part, result>>
        /\ data'[w] = {files[PartFile(w)]}
    BY <1>13 DEF LoadPart, LoadFile, TypeOK
  <2>2. data'[w] = IF part[w] = 1 THEN {<<job[w], "left">>} ELSE {<<job[w], "right">>}
    BY <1>7, <2>1 DEF Has, OwnAudio, PartFile, TypeOK
  <2>3. Own(w)'
    BY <1>1, <1>6, <1>7, <2>1, <2>2 DEF Own, Has, OwnRecording, OwnAudio, Answered
  <2>4. \A k : Live(w, k)' = Live(w, k)  BY <1>1, <1>6, <2>1 DEF Live
  <2>5. LocalLive(w)' = LocalLive(w)  BY <1>1, <1>6, <2>1 DEF LocalLive
  <2>6. Tidy(w)'
    BY <1>1, <1>5, <1>6, <1>8, <2>1, <2>4, <2>5 DEF Tidy, Answered, Fetch
  <2> QED  BY <2>3, <2>6
<1>14. CASE RecognisePart(w)
  <2>1. /\ pc[w] = "recognise" /\ UNCHANGED answer /\ Remove({PartFile(w)})
        /\ result'[w] = Append(result[w], data[w])
        /\ \/ part[w] = 1 /\ part'[w] = 2 /\ pc'[w] = "part"
           \/ part[w] = 2 /\ part'[w] = 2 /\ pc'[w] = "send"
    <3>1. part[w] \in 1 .. 2 /\ part[w] \in Nat  BY DEF TypeOK
    <3>2. part[w] < 2 => part[w] = 1 /\ part[w] + 1 = 2  BY <3>1
    <3> QED  BY <1>14, <3>1, <3>2 DEF RecognisePart, TypeOK
  <2>2. part[w] = 1 => files'[Path(w, "right")] = files[Path(w, "right")]
    <3>1. input[w] # NoPlace  BY <2>1 DEF Local, Named
    <3>2. part[w] = 1 => Path(w, "right") # PartFile(w)  BY DEF PartFile, Path
    <3> QED  BY <1>6, <2>1, <3>1, <3>2 DEF Remove, Kinds
  <2>3. /\ part[w] = 1 => result'[w] = <<{<<job[w], "left">>}>>
        /\ part[w] = 2 => result'[w] = <<{<<job[w], "left">>}, {<<job[w], "right">>}>>
    <3> DEFINE left == {<<job[w], "left">>}
               right == {<<job[w], "right">>}
    <3>1. /\ part[w] = 1 => result[w] = <<>> /\ data[w] = left
          /\ part[w] = 2 => result[w] = <<left>> /\ data[w] = right
      BY <1>7, <2>1 DEF Has, OwnAudio
    <3> HIDE DEF left, right
    <3>2. Append(<<>>, left) = <<left>> /\ Append(<<left>>, right) = <<left, right>>
      BY TwoParts, left \in {left, right}, right \in {left, right}
    <3>3. /\ part[w] = 1 => result'[w] = <<left>>
          /\ part[w] = 2 => result'[w] = <<left, right>>
      BY <2>1, <3>1, <3>2
    <3> QED  BY <3>3 DEF left, right
  <2>4. Decoded(job[w])' = <<{<<job[w], "left">>}, {<<job[w], "right">>}>> /\ Fmt[job[w]] = "stereo"
    BY <1>1, <1>7, <2>1 DEF Has, OwnAudio, Decoded
  <2>5. Own(w)'
    <3>1. CASE part[w] = 1
      <4>1. OwnRecording(w)'  BY <1>1, <1>7, <2>1, <3>1 DEF OwnRecording
      <4>2. files[Path(w, "right")] = <<job[w], "right">>
        BY <1>7, <2>1, <3>1 DEF Has, OwnAudio
      <4>3. /\ pc'[w] = "part" /\ part'[w] = 2 /\ result'[w] = <<{<<job[w], "left">>}>>
            /\ job' = job /\ files'[Path(w, "right")'] = <<job[w], "right">>
            /\ Fmt[job[w]] = "stereo"
        <5>1. pc'[w] = "part" /\ part'[w] = 2  BY <2>1, <3>1
        <5>2. result'[w] = <<{<<job[w], "left">>}>> /\ Fmt[job[w]] = "stereo"
          BY <2>3, <2>4, <3>1
        <5>3. Path(w, "right")' = Path(w, "right")  BY <1>6
        <5>4. files'[Path(w, "right")] = <<job[w], "right">>  BY <2>2, <3>1, <4>2
        <5> QED  BY <1>1, <5>1, <5>2, <5>3, <5>4
      <4>4. OwnAudio(w)'  BY <4>3 DEF OwnAudio, Answered
      <4> QED  BY <4>1, <4>4 DEF Own, Has
    <3>2. CASE part[w] = 2
      <4>1. OwnRecording(w)'  BY <1>1, <1>7, <2>1, <3>2 DEF OwnRecording
      <4>2. pc'[w] = "send" /\ result'[w] = Decoded(job[w])' /\ Fmt[job[w]] = "stereo" /\ job' = job
        <5>1. pc'[w] = "send"  BY <2>1, <3>2
        <5>2. result'[w] = Decoded(job[w])' /\ Fmt[job[w]] = "stereo"  BY <2>3, <2>4, <3>2
        <5> QED  BY <1>1, <5>1, <5>2
      <4>3. OwnAudio(w)'  BY <4>2 DEF OwnAudio, Answered
      <4> QED  BY <4>1, <4>3 DEF Own, Has
    <3> QED  BY <2>1, <3>1, <3>2
  <2>6. \A k \in {"pcm", "left", "right"} : Live(w, k)' => Live(w, k) /\ Path(w, k) # PartFile(w)
    BY <1>1, <1>6, <1>9, <2>1 DEF Live, Kinds
  <2>7. LocalLive(w)' => LocalLive(w)
    BY <1>1, <1>6, <1>9, <2>1 DEF LocalLive
  <2>8. /\ ~Live(w, "left")'
        /\ part[w] = 2 => ~Live(w, "right")'
    BY <1>5, <2>1, <2>6 DEF PartFile, Tidy
  <2>9. Tidy(w)'
    BY <1>1, <1>5, <1>6, <1>8, <2>1, <2>6, <2>7, <2>8 DEF Tidy, Answered, Fetch
  <2> QED  BY <2>5, <2>9
<1>15. CASE Recognise(w)
  <2>1. pc[w] = "stt" /\ pc'[w] = "send" /\ UNCHANGED <<answer, data>>
        /\ Remove(Temporary(w)) /\ result'[w] = <<data[w]>>
    BY <1>15 DEF Recognise, TypeOK
  <2>2. Decoded(job[w])' = Decoded(job[w])  BY <1>1 DEF Decoded
  <2>3. Own(w)'
    <3>1. Has(w) => Has(w)'
      BY <1>1, <1>7, <2>1, <2>2 DEF Has, OwnRecording, OwnAudio, Answered
    <3>2. Nothing(w) => Nothing(w)'  BY <1>1, <2>1 DEF Nothing, Unfetched, Answered
    <3> QED  BY <1>5, <3>1, <3>2 DEF Own
  <2>4. \A k \in {"pcm", "left", "right"} : Live(w, k)' => Live(w, k)
    BY <1>1, <1>6, <1>9, <2>1 DEF Live, Kinds
  <2>5. LocalLive(w)' => LocalLive(w) /\ LocalFile(w) \notin Temporary(w)
    BY <1>1, <1>6, <1>9, <2>1 DEF LocalLive
  <2>6. LocalLive(w)' => Kept(w)
    <3>1. LocalLive(w)' => input[w] = Base[job[w]] \/ Kept(w)  BY <1>5, <2>1, <2>5 DEF Tidy
    <3>2. LocalLive(w)' /\ ~Kept(w) => protocol[w] = "file"
      BY <1>1, <1>6, <2>5, <3>1, Names DEF Temporary, InputFile, Path
    <3>3. LocalLive(w)' /\ ~Kept(w) => config.use = "true"  BY <1>5, <2>5, <3>2 DEF Tidy, LocalLive
    <3> QED  BY <3>2, <3>3 DEF Kept
  <2>7. Tidy(w)'
    BY <1>1, <1>5, <1>6, <1>8, <2>1, <2>4, <2>5, <2>6 DEF Tidy, Answered, Fetch
  <2> QED  BY <2>3, <2>7
<1>16. CASE Send(w)
  <2>1. pc[w] = "send" /\ pc'[w] = "returned" /\ UNCHANGED <<files, result>>
    BY <1>16 DEF Send, TypeOK
  <2>2. Decoded(job[w])' = Decoded(job[w])  BY <1>1 DEF Decoded
  <2>3. Own(w)'
    <3>1. Has(w) => Has(w)'
      BY <1>1, <2>1, <2>2 DEF Has, OwnRecording, OwnAudio, Answered
    <3>2. Nothing(w) => Nothing(w)'  BY <1>1, <2>1 DEF Nothing, Unfetched, Answered
    <3> QED  BY <1>5, <3>1, <3>2 DEF Own
  <2>4. \A k : Live(w, k)' = Live(w, k)  BY <1>1, <1>6, <2>1 DEF Live
  <2>5. LocalLive(w)' = LocalLive(w)  BY <1>1, <1>6, <2>1 DEF LocalLive
  <2>6. \A k \in {"pcm", "left", "right"} : ~Live(w, k)  BY <1>5, <2>1 DEF Tidy
  <2>7. LocalLive(w) => Kept(w)  BY <1>5, <2>1 DEF Tidy
  <2>8. Tidy(w)'
    BY <1>1, <1>5, <1>6, <1>8, <2>1, <2>4, <2>5, <2>6, <2>7 DEF Tidy, Fetch
  <2> QED  BY <2>3, <2>8
<1> QED  BY <1>10, <1>11, <1>12, <1>13, <1>14, <1>15, <1>16 DEF Recognising, Failing

\* A job that arrives has made nothing; one that has returned is forgotten.
LEMMA ReceiveReturnOwn ==
  ASSUME TypeOK, NEW w \in Workers, Local(w), Job(w),
         Return(w) \/ \E r \in Recordings : Receive(w, r)
  PROVE  Job(w)'
<1>1. CASE Return(w)
  BY <1>1 DEF Return, TypeOK, Job, FirstPart
<1>2. CASE \E r \in Recordings : Receive(w, r)
  <2>1. PICK r \in Recordings : Receive(w, r)  BY <1>2
  <2>2. pc[w] = "idle" /\ pc'[w] = "fetch" /\ UNCHANGED <<input, part, result, made>>
    BY <2>1 DEF Receive, TypeOK, locals
  <2>3. FirstPart(w)'  BY <2>2 DEF Job, FirstPart
  <2>4. made'[w] = {} /\ input'[w] = NoPlace  BY <2>2 DEF Local
  <2>5. Own(w)'  BY <2>2 DEF Own, Has, OwnRecording, OwnAudio, Answered
  <2>6. Tidy(w)'  BY <2>2, <2>4 DEF Tidy, Live, LocalLive, Answered
  <2> QED  BY <2>3, <2>5, <2>6 DEF Job
<1> QED  BY <1>1, <1>2

\* Jobs that begin beside one another, on recordings of one name, know of it.
LEMMA AloneStep ==
  ASSUME TypeOK, Locals, Alone, NEW u \in Workers,
         Work(u) \/ \E r \in Recordings : Receive(u, r)
  PROVE  Alone'
<1>1. ASSUME NEW v \in Workers, v # u
      PROVE  UNCHANGED <<pc[v], job[v]>> /\ (clash[v] => clash'[v])
  BY <1>1, OtherWorkers
<1>2. CASE Work(u)
  <2>1. UNCHANGED <<job, clash>> \/ pc'[u] = "idle"
    <3>1. CASE Fetching(u)
      BY <3>1 DEF Fetching, TooSmall, LockCurl, DownloadData, DownloadDataThrows, FetchNothing,
       FetchRemote, FetchThrows, Download, DownloadFails, Connect, AwaitConnected,
       ReconnectFails, ConnectFails, RetryWorks, RetryFails, RetryGivesUp, LoadLocal,
       LoadLocalFails, Goto, Answer, FailDownload
    <3>2. CASE Preparing(u)
      BY <3>2 DEF Preparing, Unsupported, TakeAsItIs, UseOriginal, Store, StoreFails, UseLocal,
       Prepared, Convert, ConvertFails, Decode, DecodeFails, Separate, SeparateFails, NoProgram,
       Goto, Answer
    <3>3. CASE Recognising(u)
      BY <3>3 DEF Recognising, LoadPcm, LoadPcmFails, Clean, Unlink, LoadPart, LoadPartFails,
       RecognisePart, RecognisePartFails, Recognise, RecogniseFails, Send, Goto, Answer
    <3>4. CASE Return(u)  BY <3>4 DEF Return, TypeOK
    <3> QED  BY <1>2, <3>1, <3>2, <3>3, <3>4 DEF Work
  <2>2. pc[u] # "idle"
    <3>1. CASE Fetching(u)
      BY <3>1 DEF Fetching, TooSmall, LockCurl, DownloadData, DownloadDataThrows, FetchNothing,
       FetchRemote, FetchThrows, Download, DownloadFails, Connect, AwaitConnected,
       ReconnectFails, ConnectFails, RetryWorks, RetryFails, RetryGivesUp, LoadLocal,
       LoadLocalFails, Goto, Answer, FailDownload
    <3>2. CASE Preparing(u)
      BY <3>2 DEF Preparing, Unsupported, TakeAsItIs, UseOriginal, Store, StoreFails, UseLocal,
       Prepared, Convert, ConvertFails, Decode, DecodeFails, Separate, SeparateFails, NoProgram,
       Goto, Answer
    <3>3. CASE Recognising(u)
      BY <3>3 DEF Recognising, LoadPcm, LoadPcmFails, Clean, Unlink, LoadPart, LoadPartFails,
       RecognisePart, RecognisePartFails, Recognise, RecogniseFails, Send, Goto, Answer
    <3>4. CASE Return(u)  BY <3>4 DEF Return
    <3> QED  BY <1>2, <3>1, <3>2, <3>3, <3>4 DEF Work
  <2>3. ASSUME NEW v \in Workers, NEW w \in Workers, v # w,
               pc'[v] # "idle", pc'[w] # "idle", ~clash'[w]
        PROVE  job'[v] # job'[w] /\ Base[job'[v]] # Base[job'[w]]
    <3>1. \A x \in Workers : pc'[x] # "idle" =>
            pc[x] # "idle" /\ job'[x] = job[x] /\ (~clash'[x] => ~clash[x])
      BY <1>1, <2>1, <2>2
    <3> QED  BY <2>3, <3>1 DEF Alone
  <2> QED  BY <2>3 DEF Alone
<1>3. CASE \E r \in Recordings : Receive(u, r)
  <2>1. PICK r \in Recordings : Receive(u, r)  BY <1>3
  <2>2. /\ pc[u] = "idle" /\ job'[u] = r
        /\ clash'[u] <=> Overlap(u, r) # {}
        /\ \A v \in Workers \ {u} : clash'[v] <=> (clash[v] \/ v \in Overlap(u, r))
    BY <2>1 DEF Receive, TypeOK
  <2>3. ASSUME NEW v \in Workers, NEW w \in Workers, v # w,
               pc'[v] # "idle", pc'[w] # "idle", ~clash'[w]
        PROVE  job'[v] # job'[w] /\ Base[job'[v]] # Base[job'[w]]
    <3>1. CASE w = u
      <4>1. v \notin Overlap(u, r)  BY <2>2, <2>3, <3>1
      <4>2. pc[v] # "idle" /\ job'[v] = job[v]  BY <1>1, <2>3, <3>1
      <4> QED  BY <2>2, <2>3, <3>1, <4>1, <4>2 DEF Overlap
    <3>2. CASE v = u
      <4>1. w \notin Overlap(u, r)  BY <2>2, <2>3, <3>2
      <4>2. pc[w] # "idle" /\ job'[w] = job[w]  BY <1>1, <2>3, <3>2
      <4> QED  BY <2>2, <2>3, <3>2, <4>1, <4>2 DEF Overlap
    <3>3. CASE v # u /\ w # u
      <4>1. UNCHANGED <<pc[v], job[v], pc[w], job[w]>> /\ ~clash[w]  BY <1>1, <2>3, <3>3
      <4> QED  BY <2>3, <4>1 DEF Alone
    <3> QED  BY <3>1, <3>2, <3>3
  <2> QED  BY <2>3 DEF Alone
<1> QED  BY <1>2, <1>3

\* The invariant of the jobs holds before any has arrived.
LEMMA InitJobs ==
  ASSUME Init  PROVE  JobsInv
<1>1. OriginalsTrue
  <2>1. PICK r \in Leftovers \cup {NoRecording} : files = Disk(r)  BY DEF Init
  <2>2. ASSUME NEW q \in Recordings, Proto[q] = "file"
        PROVE  <<q, "in">> \in Originals /\ <<q, "in">> \in Paths
    BY <2>2 DEF Originals, Paths, Places, Kinds
  <2> QED  BY <2>1, <2>2 DEF OriginalsTrue, Disk
<1>2. Alone /\ \A w \in Workers : Job(w)  BY DEF Init, Alone, Job, FirstPart
<1> QED  BY <1>1, <1>2 DEF JobsInv

\* Every step keeps the invariant of the jobs.
LEMMA StepJobs ==
  ASSUME TypeOK, Locals, JobsInv, [Next]_vars  PROVE  JobsInv'
<1> USE DEF JobsInv
<1>1. CASE Disconnect \/ UNCHANGED vars
  <2>1. UNCHANGED <<config, files, pc, job, protocol, buffer, data, input, part, result,
                    answer, made, clash>>
    BY <1>1 DEF Disconnect, vars, locals
  <2>2. OriginalsTrue' /\ Alone'  BY <2>1 DEF OriginalsTrue, Alone
  <2>3. ASSUME NEW w \in Workers  PROVE  Job(w)'
    <3>1. LocalFile(w)' = LocalFile(w) /\ \A k : Path(w, k)' = Path(w, k)
      BY <2>1 DEF LocalFile, Path
    <3>2. (FirstPart(w) <=> FirstPart(w)') /\ (Answered(w) <=> Answered(w)')
          /\ (LocalLive(w) <=> LocalLive(w)') /\ (Kept(w) <=> Kept(w)')
          /\ \A k : Live(w, k) <=> Live(w, k)'
      BY <2>1, <3>1 DEF FirstPart, Answered, LocalLive, Kept, Live
    <3>3. Own(w) => Own(w)'
      BY <2>1, <3>1, <3>2 DEF Own, Has, Nothing, Unfetched, OwnRecording, OwnAudio, Decoded
    <3>4. Tidy(w) => Tidy(w)'  BY <2>1, <3>1, <3>2 DEF Tidy
    <3> QED  BY <2>1, <3>2, <3>3, <3>4 DEF Job
  <2> QED  BY <2>2, <2>3
<1>2. ASSUME NEW u \in Workers, Work(u) \/ \E r \in Recordings : Receive(u, r)
      PROVE  JobsInv'
  <2>1. Local(u) /\ Job(u)  BY DEF Locals
  <2>2. OriginalsTrue'
    <3>1. ASSUME NEW r \in Recordings, Proto[r] = "file", files'[<<r, "in">>] # files[<<r, "in">>]
          PROVE  files'[<<r, "in">>] = NoFile
      <4>1. <<r, "in">> \in Paths  BY DEF Paths, Places, Kinds
      <4>2. job[u] \in Recordings /\ r \in {job[u], Base[job[u]]}
            /\ (<<r, "in">> = <<job[u], "in">> => files'[<<r, "in">>] = NoFile)
        BY <1>2, <2>1, <3>1, <4>1, Touched
      <4> QED  BY <4>2, BaseIs, JobAssumption
    <3> QED  BY <3>1 DEF OriginalsTrue
  <2>3. Alone'  BY <1>2, AloneStep
  <2>4. Job(u)'
    BY <1>2, <2>1, FetchingOwn, PreparingOwn, RecognisingOwn, ReceiveReturnOwn DEF Work
  <2>5. \A w \in Workers : w # u => Job(w)'  BY <1>2, OthersJob
  <2> QED  BY <2>2, <2>3, <2>4, <2>5
<1> QED  BY <1>1, <1>2 DEF Next

-----------------------------------------------------------------------------
(* What the jobs promise. *)

\* The types, the locals and the invariant of the jobs hold together.
LEMMA Invariance == Spec => [](TypeOK /\ Locals /\ JobsInv)
<1>1. Init => TypeOK /\ Locals /\ JobsInv  BY InitTypes, InitJobs
<1>2. TypeOK /\ Locals /\ JobsInv /\ [Next]_vars => (TypeOK /\ Locals /\ JobsInv)'
  BY StepTypes, StepJobs
<1> QED  BY <1>1, <1>2, PTL DEF Spec

\* Where the first bytes tell what a recording is, its branch makes the texts
\* that are expected of it.
LEMMA DecodedExpected ==
  ASSUME NEW r \in Recordings, ~Disguised(r), Fmt[r] # "unsupported"
  PROVE  Decoded(r) = Expected(r)
<1> DEFINE h == Header[r]
<1>1. /\ h \in Headers /\ Speech[r] \in {"samples", "mono", "two"}
      /\ Fmt[r] = Branch(CheckWaveFormat(h))
  BY JobAssumption DEF Fmt
<1>2. h.start \in {"short", "RIFF", "sync", "ID3", "other"}  BY <1>1 DEF Headers
<1>3. CASE Speech[r] = "samples"
  <2>1. h.start \in {"other", "short"}  BY <1>3 DEF Disguised
  <2>2. Fmt[r] = "raw"  BY <1>1, <2>1 DEF CheckWaveFormat, Branch
  <2> QED  BY <1>3, <2>2 DEF Decoded, Expected
<1>4. CASE Speech[r] = "two"
  <2>1. (h.start = "RIFF" /\ h.wavefmt /\ h.channels = 2)
        \/ (h.start = "sync" /\ h.version # 1 /\ h.layer # 0 /\ h.mode # 3)
    BY <1>4, HeaderAssumption DEF Disguised
  <2>2. CASE h.start = "RIFF" /\ h.wavefmt /\ h.channels = 2
    <3>1. Fmt[r] = "stereo"  BY <1>1, <2>2 DEF CheckWaveFormat, Riffs, Branch
    <3>2. Decoded(r) = <<{<<r, "left">>}, {<<r, "right">>}>>  BY <3>1 DEF Decoded
    <3>3. Expected(r) = <<{<<r, "left">>}, {<<r, "right">>}>>  BY <1>4, <2>2 DEF Expected, Playable
    <3> QED  BY <3>2, <3>3
  <2>3. CASE h.start = "sync" /\ h.version # 1 /\ h.layer # 0 /\ h.mode # 3
    <3>1. Fmt[r] = "unsupported"  BY <1>1, <2>3 DEF CheckWaveFormat, Branch
    <3> QED  BY <3>1
  <2> QED  BY <2>1, <2>2, <2>3
<1>5. CASE Speech[r] = "mono"
  <2>1. CASE Playable(h)
    <3>1. Fmt[r] = "standard"  BY <1>1, <2>1 DEF Playable, CheckWaveFormat, Riffs, Branch
    <3> QED  BY <1>5, <2>1, <3>1 DEF Decoded, Expected
  <2>2. CASE ~Playable(h)
    <3>1. CASE h.start = "ID3"
      <4>1. Fmt[r] = "encoded"  BY <1>1, <3>1 DEF CheckWaveFormat, Branch
      <4> QED  BY <1>5, <2>2, <4>1 DEF Decoded, Expected
    <3>2. CASE h.start = "RIFF"
      <4>1. ~(h.wavefmt /\ h.channels = 2)  BY <1>5, <3>2, HeaderAssumption
      <4>2. Fmt[r] = "encoded"
        BY <1>1, <2>2, <3>2, <4>1 DEF CheckWaveFormat, Riffs, Branch, Playable
      <4> QED  BY <1>5, <2>2, <4>2 DEF Decoded, Expected
    <3>3. CASE h.start = "sync"
      <4>1. h.version # 1 /\ h.layer # 0  BY <1>5, <3>3, HeaderAssumption
      <4>2. Fmt[r] = "encoded"
        BY <1>1, <3>3, <4>1 DEF CheckWaveFormat, Branch
      <4> QED  BY <1>5, <2>2, <4>2 DEF Decoded, Expected
    <3> QED  BY <1>5, <3>1, <3>2, <3>3, HeaderAssumption
  <2> QED  BY <2>1, <2>2
<1> QED  BY <1>1, <1>3, <1>4, <1>5

\* The branch of a recording makes texts of its own audio.
LEMMA DecodedOwn ==
  ASSUME NEW r \in Recordings, NEW i \in DOMAIN Decoded(r)
  PROVE  Decoded(r)[i] \subseteq {r} \X Kinds
<1>1. /\ {<<r, "in">>} \subseteq {r} \X Kinds /\ {<<r, "pcm">>} \subseteq {r} \X Kinds
      /\ {<<r, "left">>} \subseteq {r} \X Kinds /\ {<<r, "right">>} \subseteq {r} \X Kinds
  BY DEF Kinds
<1>2. CASE Fmt[r] = "stereo"
  <2>1. Decoded(r) = <<{<<r, "left">>}, {<<r, "right">>}>>  BY <1>2 DEF Decoded
  <2>2. i \in {1, 2}  BY <2>1
  <2> QED  BY <1>1, <2>1, <2>2
<1>3. CASE Fmt[r] # "stereo"
  <2>1. Decoded(r) = <<{<<r, "pcm">>}>> \/ Decoded(r) = <<{<<r, "in">>}>>  BY <1>3 DEF Decoded
  <2>2. i = 1  BY <2>1
  <2> QED  BY <1>1, <2>1, <2>2
<1> QED  BY <1>2, <1>3

\* A job that succeeds has recognised nobody else's recording, for any number of
\* workers and whatever is left in tmp_path, if no job on a recording of the same
\* name runs beside it (vr_server.cc:564).  It has recognised every channel of its
\* own, unless its first bytes are misleading, or nothing was fetched: then perhaps
\* nothing but the bytes of its name (vr_server.cc:1010-1017).
THEOREM ResultIsOwn == Spec => []OwnResult
<1>1. TypeOK /\ Locals /\ JobsInv => OwnResult
  <2> SUFFICES ASSUME TypeOK, Locals, JobsInv, NEW w \in Workers,
                      pc[w] = "returned", answer[w] = "success", ~clash[w]
               PROVE  /\ \A i \in DOMAIN result[w] : result[w][i] \subseteq {job[w]} \X Kinds
                      /\ \/ result[w] = Expected(job[w])
                         \/ Disguised(job[w])
                         \/ Unfetched(job[w]) /\ result[w] = <<{}>>
    BY DEF OwnResult
  <2>1. job[w] \in Recordings  BY DEF TypeOK, Locals, Local
  <2>2. Own(w) /\ Answered(w)  BY DEF JobsInv, Job, Answered
  <2>3. CASE Has(w)
    <3>1. Fmt[job[w]] # "unsupported" /\ result[w] = Decoded(job[w])
      BY <2>2, <2>3 DEF Has, OwnAudio
    <3> QED  BY <2>1, <3>1, DecodedExpected, DecodedOwn
  <2>4. CASE Nothing(w)
    <3>1. Unfetched(job[w]) /\ result[w] = <<{}>>  BY <2>2, <2>4 DEF Nothing
    <3> QED  BY <3>1
  <2> QED  BY <2>2, <2>3, <2>4 DEF Own
<1> QED  BY <1>1, Invariance, PTL

\* A successful job leaves none of its files in tmp_path but a download that it
\* takes for an original, or whose name it has not kept (vr_server.cc:1103-1107).
THEOREM SuccessIsClean == Spec => []CleanSuccess
<1>1. TypeOK /\ Locals /\ JobsInv => CleanSuccess
  <2> SUFFICES ASSUME TypeOK, Locals, JobsInv, NEW w \in Workers,
                      pc[w] = "returned", answer[w] = "success", ~clash[w],
                      NEW p \in made[w], files[p] # NoFile
               PROVE  /\ config.use = "true" /\ p = LocalFile(w)
                      /\ protocol[w] = "file" \/ (Fmt[job[w]] = "standard" /\ ~config.spk)
    BY DEF CleanSuccess
  <2>1. Tidy(w) /\ Answered(w)  BY DEF JobsInv, Job, Answered
  <2>2. \A k \in {"pcm", "left", "right"} : ~Live(w, k)  BY <2>1 DEF Tidy
  <2>3. p = LocalFile(w)  BY <2>1, <2>2 DEF Tidy, Live
  <2>4. Kept(w)  BY <2>1, <2>3 DEF Tidy, LocalLive
  <2> QED  BY <2>3, <2>4 DEF Kept
<1> QED  BY <1>1, Invariance, PTL
=============================================================================
