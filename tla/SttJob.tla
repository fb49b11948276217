------------------------------- MODULE SttJob -------------------------------
(***************************************************************************)
(* job_stt of the vr server (src/src/vr/vr_server.cc): a worker thread of  *)
(* run("vr_stt", ...) gets a recording, or the name of one, fetches it,    *)
(* looks at its format, has it converted or split into channels by another *)
(* program if need be, recognises it and answers the job.                  *)
(*                                                                         *)
(* The workers share the directory tmp_path, in which every file is named  *)
(* after the recording, and one connection to the file server.  The model  *)
(* keeps the files, who made them and what they hold, and what is decoded. *)
(***************************************************************************)
EXTENDS WaveFormat, Sequences, FiniteSets

CONSTANTS
  Workers,       \* the threads of run("vr_stt", ...)
  Recordings,    \* what jobs are about
  Proto,         \* Proto[r]: what a job gets of it: "none", the audio itself; or its name
                 \*   under "file", a "remote" protocol (mount, read without curl, is
                 \*   taken for one) or an "unknown" one
  Base,          \* Base[r]: its name in tmp_path, without the extension
  Header,        \* Header[r]: its first bytes
  Speech,        \* Speech[r]: what it is: "samples", "mono" or "two" channels of them
                 \*   behind a header, to be decoded or not
  Configs,       \* use (protocol.use), type (protocol.type), spk (spk.enable), and
                 \*   are stt.decoder, stt.separator set, protocol.protocol = type?
  Retries,       \* the 3 of `for (int i = 0; i < 3; i++)`
  Leftovers,     \* recordings of which an earlier process may have left files
  MaxJobs,       \* a bound: how many jobs arrive
  NoRecording, NoPlace, NoFile

Bases == {Base[r] : r \in Recordings}
Protos == {"none", "file", "remote"}

\* What checkProtocol finds: a protocol that is not in protocol_list is none.
CheckProtocol(r) == IF Proto[r] = "unknown" THEN "none" ELSE Proto[r]

ConfigType == [use : {"true", "false", "unset"}, type : {"sftp", "ftps"}, spk : BOOLEAN,
               decoder : BOOLEAN, separator : BOOLEAN, reconnect : BOOLEAN]

ASSUME JobAssumption ==
  /\ IsFiniteSet(Workers) /\ IsFiniteSet(Recordings)
  /\ Proto \in [Recordings -> Protos \cup {"unknown"}]
  /\ Header \in [Recordings -> Headers]
  /\ Speech \in [Recordings -> {"samples", "mono", "two"}]
  /\ DOMAIN Base = Recordings
  /\ Configs \subseteq ConfigType
  /\ Leftovers \subseteq Recordings
  /\ Retries \in Nat \ {0} /\ MaxJobs \in Nat
  /\ Bases \cap Recordings = {}
  /\ NoRecording \notin Recordings
  /\ NoPlace \notin Recordings \cup Bases

\* The fields of a header tell how many channels follow it.
ASSUME HeaderAssumption ==
  \A r \in Recordings :
    LET h == Header[r]
    IN  Speech[r] # "samples" =>
          \/ h.start = "ID3"
          \/ h.start = "RIFF" /\ (h.wavefmt => (h.channels = 2 <=> Speech[r] = "two"))
          \/ h.start = "sync" /\ h.version # 1 /\ h.layer # 0 /\ (h.mode = 3 <=> Speech[r] = "mono")

\* A place is a path without its ending: beside the original, or in tmp_path.
Places == Recordings \cup Bases
Kinds == {"in", "pcm", "left", "right"}
Paths == Places \X Kinds
Audio == Recordings \X Kinds

\* The branch of job_stt that recording r takes.
Fmt == [r \in Recordings |-> Branch(CheckWaveFormat(Header[r]))]

ASSUME FileAssumption == NoFile \notin Audio

VARIABLES
  config,       \* the configuration; never changes
  files,        \* what each file holds, or NoFile
  connected,    \* is the one sftp or ftps object connected?
  taken,        \* how many jobs have arrived
  pc, job,      \* where each worker is, and with which recording
  protocol,     \* the local of this name
  buffer,       \* what has been loaded into the vector and not cleared
  data,         \* what the pointer of this name points to
  input,        \* the place of input_file, or NoPlace for ""
  tries, part,  \* attempts left to download; ch_idx + 1
  result,       \* what each text of the result was recognised from
  answer,       \* what the job is answered
  made,         \* history: the files the job has made
  clash         \* history: has it met a job on a recording of the same name?

locals == <<protocol, buffer, data, input, tries, part, result>>
vars == <<config, files, connected, taken, pc, job, locals, answer, made, clash>>

\* The originals, which are never in tmp_path.
Originals == {<<r, "in">> : r \in {q \in Recordings : Proto[q] = "file"}}

\* The files that a job on r has in tmp_path, should the process end there.
LeftBy(r) ==
  {<<Base[r], "in">>} \cup
  {<<Base[r], k>> : k \in CASE Fmt[r] = "stereo" -> {"left", "right"}
                          [] Fmt[r] = "encoded" -> {"pcm"}
                          [] OTHER -> {}}

\* Files on the disk, with those that an earlier process has left about r.
Disk(r) ==
  [p \in Paths |-> IF p \in Originals THEN p
                   ELSE IF r # NoRecording /\ p \in LeftBy(r) THEN <<r, p[2]>> ELSE NoFile]

Init ==
  /\ config \in Configs
  /\ \E r \in Leftovers \cup {NoRecording} : files = Disk(r)
  /\ connected = (config.use = "true")
  /\ taken = 0
  /\ pc = [w \in Workers |-> "idle"]
  /\ job = [w \in Workers |-> NoRecording]
  /\ protocol = [w \in Workers |-> "none"]
  /\ buffer = [w \in Workers |-> {}]
  /\ data = [w \in Workers |-> {}]
  /\ input = [w \in Workers |-> NoPlace]
  /\ tries = [w \in Workers |-> 0]
  /\ part = [w \in Workers |-> 1]
  /\ result = [w \in Workers |-> <<>>]
  /\ answer = [w \in Workers |-> "none"]
  /\ made = [w \in Workers |-> {}]
  /\ clash = [w \in Workers |-> FALSE]

-----------------------------------------------------------------------------

Goto(w, from, to) ==
  /\ pc[w] = from
  /\ pc' = [pc EXCEPT ![w] = to]
  /\ UNCHANGED <<config, taken, job, clash>>

\* gearman_job_send_complete or gearman_job_send_fail, and return.
Answer(w, from, a) ==
  /\ Goto(w, from, "returned")
  /\ answer' = [answer EXCEPT ![w] = a]

\* The answer of a failed download is the code of fail_download.
FailDownload(w, from) ==
  /\ Answer(w, from, "E10200")
  /\ UNCHANGED locals

\* std::remove, which does nothing for a file that is not there.
Remove(S) == files' = [p \in Paths |-> IF p \in S THEN NoFile ELSE files[p]]

Path(w, kind) == <<input[w], kind>>
InputFile(w) == IF input[w] = NoPlace THEN {} ELSE {Path(w, "in")}

\* if (protocol != PROTOCOL_FILE) std::remove(input_file.c_str())
Temporary(w) == IF protocol[w] = "file" THEN {} ELSE InputFile(w)

\* File p is created, or overwritten, with audio a.
Make(w, p, a) ==
  /\ files' = [files EXCEPT ![p] = a]
  /\ made' = [made EXCEPT ![w] = @ \cup {p}]

LocalFile(w) == <<Base[job[w]], "in">>

\* A file is loaded behind what the vector already holds.
LoadFile(w, old, p) ==
  /\ buffer' = [buffer EXCEPT ![w] = old \cup {files[p]}]
  /\ data' = [data EXCEPT ![w] = old \cup {files[p]}]

\* What check_wave_format finds; without a recording it finds too little.
Heard(w) == {r \in Recordings : data[w] = {<<r, "in">>}}
FormatIs(w, f) ==
  IF Heard(w) = {} THEN f = Branch(CheckWaveFormat(Short)) ELSE f \in {Fmt[r] : r \in Heard(w)}

-----------------------------------------------------------------------------
(* A job arrives and its recording is fetched. *)

\* Two recordings of one name meet in one file of tmp_path.
Overlap(w, r) ==
  {v \in Workers \ {w} : pc[v] # "idle" /\ (job[v] = r \/ Base[job[v]] = Base[r])}

Receive(w, r) ==
  /\ pc[w] = "idle" /\ taken < MaxJobs
  /\ taken' = taken + 1
  /\ pc' = [pc EXCEPT ![w] = "fetch"]
  /\ job' = [job EXCEPT ![w] = r]
  /\ clash' = [v \in Workers |-> IF v = w THEN Overlap(w, r) # {}
                                 ELSE clash[v] \/ v \in Overlap(w, r)]
  /\ UNCHANGED <<config, files, connected, locals, answer, made>>

\* Less than ten bytes.
TooSmall(w) ==
  /\ Answer(w, "fetch", "fail")
  /\ Proto[job[w]] = "none"
  /\ UNCHANGED <<files, connected, locals, made>>

\* The audio of a payload that is taken for audio: a name holds none.
Payload(w) == IF Proto[job[w]] = "none" THEN {<<job[w], "in">>} ELSE {}

\* protocol.use = false: for a URL, downloadData takes curl_lock.
LockCurl(w) ==
  /\ Goto(w, "fetch", "curl")
  /\ config.use = "false" /\ Proto[job[w]] = "remote"
  /\ \A v \in Workers : pc[v] # "curl"
  /\ UNCHANGED <<files, connected, locals, answer, made>>

\* It has read the file or the URL, or there was none to read.
DownloadData(w) ==
  LET r == job[w]
      got == CASE Proto[r] = "file" -> {files[<<r, "in">>]}
               [] Proto[r] = "remote" -> {<<r, "in">>}
               [] OTHER -> {}
  IN  /\ \/ Goto(w, "fetch", "check") /\ Proto[r] # "remote"
         \/ Goto(w, "curl", "check")
      /\ config.use = "false"
      /\ NoFile \notin got
      /\ protocol' = [protocol EXCEPT ![w] = CheckProtocol(r)]
      /\ buffer' = [buffer EXCEPT ![w] = got]
      /\ data' = [data EXCEPT ![w] = IF CheckProtocol(r) = "none" THEN Payload(w) ELSE got]
      /\ UNCHANGED <<files, connected, input, tries, part, result, answer, made>>

DownloadDataThrows(w) ==
  /\ \/ FailDownload(w, "fetch") /\ Proto[job[w]] = "file"
     \/ FailDownload(w, "curl")
  /\ config.use = "false"
  /\ UNCHANGED <<files, connected, made>>

\* protocol.use is not set: nothing is fetched and `protocol` is read although
\* nothing has assigned it.  As none, the payload itself is taken for audio.
FetchNothing(w) ==
  /\ Goto(w, "fetch", "check")
  /\ config.use = "unset"
  /\ \E p \in Protos :
       /\ protocol' = [protocol EXCEPT ![w] = p]
       /\ data' = [data EXCEPT ![w] = IF p = "none" THEN Payload(w) ELSE {}]
  /\ UNCHANGED <<files, connected, buffer, input, tries, part, result, answer, made>>

\* protocol.use = true: whatever the protocol, a path is cut out of the payload,
\* of audio too, and __sftp_download or __ftps_download starts.
FetchRemote(w) ==
  /\ Goto(w, "fetch", "download")
  /\ config.use = "true"
  /\ protocol' = [protocol EXCEPT ![w] = CheckProtocol(job[w])]
  /\ UNCHANGED <<files, connected, buffer, data, input, tries, part, result, answer, made>>

\* There is no '/' to cut it at.
FetchThrows(w) ==
  /\ FailDownload(w, "fetch")
  /\ config.use = "true"
  /\ UNCHANGED <<files, connected, made>>

-----------------------------------------------------------------------------
(* __sftp_download and __ftps_download, on the connection of all workers.
   They differ only in AwaitConnected. *)

\* The peer closes the connection.
Disconnect ==
  /\ connected
  /\ connected' = FALSE
  /\ UNCHANGED <<config, files, taken, pc, job, locals, answer, made, clash>>

\* The file arrives at the first attempt, or after a reconnection.  What is cut out
\* of audio names none.
Download(w) ==
  /\ connected
  /\ \E from \in {"download", "again"} : Goto(w, from, "load")
  /\ Proto[job[w]] # "none"
  /\ Make(w, LocalFile(w), <<job[w], "in">>)
  /\ UNCHANGED <<connected, locals, answer>>

DownloadFails(w) ==
  /\ \/ connected /\ Goto(w, "download", "retry")
     \/ Goto(w, "again", "retry")
  /\ tries' = [tries EXCEPT ![w] = Retries]
  /\ UNCHANGED <<files, connected, protocol, buffer, data, input, part, result, answer, made>>

\* init_sftp or init_ftps has connected and authenticated: for the one attempt
\* when the connection was closed, if protocol.protocol allows it, and for each
\* attempt of the loop.
Connect(w) ==
  /\ \/ ~connected /\ config.reconnect /\ Goto(w, "download", "connected")
     \/ tries[w] > 0 /\ Goto(w, "retry", "reconnected")
  /\ connected' = TRUE
  /\ UNCHANGED <<files, locals, answer, made>>

\* The loop at the end of init_sftp; init_ftps has none.
AwaitConnected(w) ==
  /\ connected \/ config.type = "ftps"
  /\ \/ Goto(w, "connected", "again")
     \/ Goto(w, "reconnected", "attempt")
  /\ UNCHANGED <<files, connected, locals, answer, made>>

\* Without a connection the download has failed; or an option is not set.
ReconnectFails(w) ==
  /\ FailDownload(w, "download")
  /\ ~connected
  /\ \E c \in BOOLEAN : connected' = c
  /\ UNCHANGED <<files, made>>

\* In the loop the download is attempted all the same.
ConnectFails(w) ==
  /\ Goto(w, "retry", "attempt")
  /\ tries[w] > 0
  /\ \E c \in BOOLEAN : connected' = c
  /\ UNCHANGED <<files, locals, answer, made>>

\* Also the attempt that succeeds ends in `success = false` behind the loop.
RetryWorks(w) ==
  /\ FailDownload(w, "attempt")
  /\ connected /\ Proto[job[w]] # "none"
  /\ Make(w, LocalFile(w), <<job[w], "in">>)
  /\ UNCHANGED connected

RetryFailsMutant(w) ==
  /\ Goto(w, "attempt", "retry")
  /\ UNCHANGED <<files, connected, locals, answer, made>>

RetryFails(w) ==
  /\ Goto(w, "attempt", "retry")
  /\ tries' = [tries EXCEPT ![w] = @ - 1]
  /\ UNCHANGED <<files, connected, protocol, buffer, data, input, part, result, answer, made>>

\* The last attempt has failed; or the first finds an option that is not set.
RetryGivesUp(w) ==
  /\ FailDownload(w, "retry")
  /\ tries[w] \in {0, Retries}
  /\ UNCHANGED <<files, connected, made>>

\* __load_file(local_file, buffer); under a protocol that is none, data is the
\* payload all the same.
LoadLocal(w) ==
  /\ Goto(w, "load", "check")
  /\ files[LocalFile(w)] # NoFile
  /\ buffer' = [buffer EXCEPT ![w] = @ \cup {files[LocalFile(w)]}]
  /\ data' = [data EXCEPT ![w] = IF protocol[w] = "none" THEN Payload(w) ELSE buffer'[w]]
  /\ UNCHANGED <<files, connected, protocol, input, tries, part, result, answer, made>>

LoadLocalFails(w) ==
  /\ Answer(w, "load", "fail")
  /\ files[LocalFile(w)] = NoFile
  /\ UNCHANGED <<files, connected, locals, made>>

-----------------------------------------------------------------------------
(* The recording is looked at and, if need be, handed to another program. *)

\* A stereo MPEG.  input_file is still empty: the file that was downloaded is not
\* removed.
Unsupported(w) ==
  /\ Answer(w, "check", "fail")
  /\ FormatIs(w, "unsupported")
  /\ UNCHANGED <<files, connected, locals, made>>

\* RAW PCM, or a standard wave, whose header is skipped (and whose file is
\* never assigned to input_file).
TakeAsItIs(w) ==
  /\ Goto(w, "check", "stt")
  /\ \/ /\ FormatIs(w, "raw")
        /\ input' = [input EXCEPT ![w] = IF config.use = "true" THEN Base[job[w]] ELSE @]
     \/ /\ FormatIs(w, "standard") /\ ~config.spk
        /\ UNCHANGED input
  /\ UNCHANGED <<files, connected, protocol, buffer, data, tries, part, result, answer, made>>

\* The program that works on a file of each format.
Program(w) ==
  IF FormatIs(w, "standard") THEN IF config.spk THEN "convert" ELSE "none"
  ELSE IF FormatIs(w, "encoded") THEN "decode"
  ELSE IF FormatIs(w, "stereo") THEN "separate" ELSE "none"

\* The buffer is cleared, except where the audio is still to be recognised from
\* it, or is separated.
Prepared(w, place) ==
  /\ Goto(w, "check", Program(w))
  /\ Program(w) # "none"
  /\ input' = [input EXCEPT ![w] = place]
  /\ buffer' = [buffer EXCEPT ![w] =
                  IF Program(w) = "decode" \/ (Program(w) = "convert" /\ config.use # "false")
                  THEN {} ELSE @]
  /\ UNCHANGED <<connected, protocol, data, tries, part, result, answer>>

\* With protocol.use = false, __store_file: the original of file:// is used.
UseOriginal(w) ==
  /\ config.use = "false" /\ protocol[w] = "file"
  /\ Prepared(w, job[w])
  /\ UNCHANGED <<files, made>>

Store(w) ==
  /\ config.use = "false" /\ protocol[w] # "file"
  /\ Prepared(w, Base[job[w]])
  /\ \E a \in data[w] : Make(w, LocalFile(w), a)

StoreFails(w) ==
  /\ Answer(w, "check", "fail")
  /\ config.use = "false" /\ protocol[w] # "file" /\ Program(w) # "none"
  /\ UNCHANGED <<files, connected, locals, made>>

\* Otherwise input_file = local_file, "" if nothing was downloaded.
UseLocal(w) ==
  /\ config.use # "false"
  /\ Prepared(w, IF config.use = "true" THEN Base[job[w]] ELSE NoPlace)
  /\ UNCHANGED <<files, made>>

\* The file that a program is given, if it is there.
Given(w) == {a \in Audio : input[w] # NoPlace /\ files[Path(w, "in")] = a}

\* stt.decoder with spk_16k_only: writes a file for another worker.
Convert(w) ==
  /\ Goto(w, "convert", "stt")
  /\ config.decoder /\ Given(w) # {}
  /\ UNCHANGED <<files, connected, locals, answer, made>>

ConvertFails(w) ==
  /\ Answer(w, "convert", "E20400")
  /\ config.decoder
  /\ UNCHANGED <<files, connected, locals, made>>

\* stt.decoder: leaves the PCM file beside the input.
Decode(w) ==
  /\ Goto(w, "decode", "loadpcm")
  /\ config.decoder
  /\ \E a \in Given(w) : Make(w, Path(w, "pcm"), <<a[1], "pcm">>)
  /\ UNCHANGED <<connected, locals, answer>>

DecodeFails(w) ==
  /\ Answer(w, "decode", "E20400")
  /\ config.decoder
  /\ Remove(Temporary(w))
  /\ UNCHANGED <<connected, locals, made>>

\* stt.separator: leaves two files beside the input.
Separate(w) ==
  /\ Goto(w, "separate", "unlink")
  /\ config.separator
  /\ \E a \in Given(w) :
       files' = [files EXCEPT ![Path(w, "left")] = <<a[1], "left">>,
                              ![Path(w, "right")] = <<a[1], "right">>]
  /\ made' = [made EXCEPT ![w] = @ \cup {Path(w, "left"), Path(w, "right")}]
  /\ UNCHANGED <<connected, locals, answer>>

SeparateFails(w) ==
  /\ Answer(w, "separate", "fail")
  /\ config.separator
  /\ Remove(Temporary(w))
  /\ UNCHANGED <<connected, locals, made>>

\* The program is not set.
NoProgram(w) ==
  /\ \/ ~config.decoder /\ \E from \in {"convert", "decode"} : Answer(w, from, "fail")
     \/ ~config.separator /\ Answer(w, "separate", "fail")
  /\ Remove(Temporary(w))
  /\ UNCHANGED <<connected, locals, made>>

-----------------------------------------------------------------------------
(* The audio is loaded and recognised. *)

LoadPcm(w) ==
  /\ Goto(w, "loadpcm", "clean")
  /\ files[Path(w, "pcm")] # NoFile
  /\ LoadFile(w, buffer[w], Path(w, "pcm"))
  /\ UNCHANGED <<files, connected, protocol, input, tries, part, result, answer, made>>

LoadPcmFails(w) ==
  /\ Answer(w, "loadpcm", "fail")
  /\ files[Path(w, "pcm")] = NoFile
  /\ UNCHANGED <<files, connected, locals, made>>

\* The buffer is cleared, but `data` still points to what it held.
CleanMutant(w) ==
  /\ Goto(w, "clean", "stt")
  /\ Remove({Path(w, "pcm")} \cup InputFile(w))
  /\ buffer' = [buffer EXCEPT ![w] = {}]
  /\ UNCHANGED <<connected, protocol, data, input, tries, part, result, answer, made>>

Clean(w) ==
  /\ Goto(w, "clean", "stt")
  /\ Remove({Path(w, "pcm")} \cup Temporary(w))
  /\ buffer' = [buffer EXCEPT ![w] = {}]
  /\ UNCHANGED <<connected, protocol, data, input, tries, part, result, answer, made>>

UnlinkMutant(w) ==
  /\ Goto(w, "unlink", "part")
  /\ UNCHANGED <<files, connected, locals, answer, made>>

Unlink(w) ==
  /\ Goto(w, "unlink", "part")
  /\ Remove(Temporary(w))
  /\ UNCHANGED <<connected, locals, answer, made>>

PartFile(w) == Path(w, IF part[w] = 1 THEN "left" ELSE "right")

LoadPartMutant(w) ==
  /\ Goto(w, "part", "recognise")
  /\ files[PartFile(w)] # NoFile
  /\ LoadFile(w, buffer[w], PartFile(w))
  /\ UNCHANGED <<files, connected, protocol, input, tries, part, result, answer, made>>

LoadPart(w) ==
  /\ Goto(w, "part", "recognise")
  /\ files[PartFile(w)] # NoFile
  /\ LoadFile(w, {}, PartFile(w))
  /\ UNCHANGED <<files, connected, protocol, input, tries, part, result, answer, made>>

LoadPartFails(w) ==
  /\ Answer(w, "part", "E20400")
  /\ files[PartFile(w)] = NoFile
  /\ UNCHANGED <<files, connected, locals, made>>

RecognisePartMutant(w) ==
  /\ Goto(w, "recognise", IF part[w] <= 2 THEN "part" ELSE "send")
  /\ part' = [part EXCEPT ![w] = @ + 1]
  /\ result' = [result EXCEPT ![w] = Append(@, data[w])]
  /\ Remove({PartFile(w)})
  /\ buffer' = [buffer EXCEPT ![w] = {}]
  /\ UNCHANGED <<connected, protocol, data, input, tries, answer, made>>

RecognisePart(w) ==
  /\ \/ part[w] < 2 /\ Goto(w, "recognise", "part") /\ part' = [part EXCEPT ![w] = @ + 1]
     \/ part[w] = 2 /\ Goto(w, "recognise", "send") /\ UNCHANGED part
  /\ result' = [result EXCEPT ![w] = Append(@, data[w])]
  /\ Remove({PartFile(w)})
  /\ buffer' = [buffer EXCEPT ![w] = {}]
  /\ UNCHANGED <<connected, protocol, data, input, tries, answer, made>>

RecognisePartFails(w) ==
  /\ Answer(w, "recognise", "fail")
  /\ UNCHANGED <<files, connected, locals, made>>

Recognise(w) ==
  /\ Goto(w, "stt", "send")
  /\ result' = [result EXCEPT ![w] = <<data[w]>>]
  /\ Remove(Temporary(w))
  /\ UNCHANGED <<connected, protocol, buffer, data, input, tries, part, answer, made>>

\* Here input_file is removed whatever the protocol.
RecogniseFails(w) ==
  /\ Answer(w, "stt", "fail")
  /\ Remove(InputFile(w))
  /\ UNCHANGED <<connected, locals, made>>

Send(w) ==
  /\ \E a \in {"success", "unsent"} : Answer(w, "send", a)
  /\ UNCHANGED <<files, connected, locals, made>>

\* job_stt returns: its locals are gone.
Return(w) ==
  /\ pc[w] = "returned"
  /\ pc' = [pc EXCEPT ![w] = "idle"]
  /\ job' = [job EXCEPT ![w] = NoRecording]
  /\ protocol' = [protocol EXCEPT ![w] = "none"]
  /\ buffer' = [buffer EXCEPT ![w] = {}]
  /\ data' = [data EXCEPT ![w] = {}]
  /\ input' = [input EXCEPT ![w] = NoPlace]
  /\ tries' = [tries EXCEPT ![w] = 0]
  /\ part' = [part EXCEPT ![w] = 1]
  /\ result' = [result EXCEPT ![w] = <<>>]
  /\ answer' = [answer EXCEPT ![w] = "none"]
  /\ made' = [made EXCEPT ![w] = {}]
  /\ clash' = [clash EXCEPT ![w] = FALSE]
  /\ UNCHANGED <<config, files, connected, taken>>

-----------------------------------------------------------------------------

Fetching(w) ==
  \/ TooSmall(w) \/ LockCurl(w) \/ DownloadData(w) \/ DownloadDataThrows(w)
  \/ FetchNothing(w) \/ FetchRemote(w) \/ FetchThrows(w)
  \/ Download(w) \/ DownloadFails(w) \/ Connect(w) \/ AwaitConnected(w)
  \/ ReconnectFails(w) \/ ConnectFails(w)
  \/ RetryWorks(w) \/ RetryFails(w) \/ RetryGivesUp(w)
  \/ LoadLocal(w) \/ LoadLocalFails(w)

Preparing(w) ==
  \/ Unsupported(w) \/ TakeAsItIs(w)
  \/ UseOriginal(w) \/ Store(w) \/ StoreFails(w) \/ UseLocal(w)
  \/ Convert(w) \/ ConvertFails(w) \/ Decode(w) \/ DecodeFails(w)
  \/ Separate(w) \/ SeparateFails(w) \/ NoProgram(w)

Recognising(w) ==
  \/ LoadPcm(w) \/ LoadPcmFails(w) \/ Clean(w)
  \/ Unlink(w) \/ LoadPart(w) \/ LoadPartFails(w)
  \/ RecognisePart(w) \/ RecognisePartFails(w)
  \/ Recognise(w) \/ RecogniseFails(w) \/ Send(w)

Work(w) == Fetching(w) \/ Preparing(w) \/ Recognising(w) \/ Return(w)

Next ==
  \/ Disconnect
  \/ \E w \in Workers : Work(w) \/ \E r \in Recordings : Receive(w, r)

\* Worker w is in a call that nothing ends but an answer of the file server: no
\* timeout is set (vr_server.cc:158, 224-225, worker.cc:354-388).
Calls(w) ==
  \/ pc[w] \in {"curl", "again", "attempt"}
  \/ pc[w] = "download" /\ (connected \/ config.reconnect)
  \/ pc[w] = "retry" /\ tries[w] > 0

\* It is, or it waits for curl_lock, which another keeps in its call.
Waits(w) ==
  \/ Calls(w)
  \/ /\ pc[w] = "fetch" /\ config.use = "false" /\ Proto[job[w]] = "remote"
     /\ \E v \in Workers : pc[v] = "curl"

\* A thread that can go on by itself does; nothing makes jobs arrive, the file
\* server answer or its connections break.
Spec == Init /\ [][Next]_vars /\ \A w \in Workers : WF_vars(~Waits(w) /\ Work(w))

-----------------------------------------------------------------------------
(* Properties *)

Points == {"idle", "fetch", "curl", "download", "connected", "again", "retry", "reconnected",
           "attempt", "load", "check", "convert", "decode", "loadpcm", "clean",
           "separate", "unlink", "part", "recognise", "stt", "send", "returned"}

\* Every variable has its type; a part is one of the two channels.
TypeOK ==
  /\ config \in Configs
  /\ files \in [Paths -> Audio \cup {NoFile}]
  /\ connected \in BOOLEAN
  /\ taken \in 0..MaxJobs
  /\ pc \in [Workers -> Points]
  /\ job \in [Workers -> Recordings \cup {NoRecording}]
  /\ protocol \in [Workers -> Protos]
  /\ buffer \in [Workers -> SUBSET Audio]
  /\ data \in [Workers -> SUBSET Audio]
  /\ input \in [Workers -> Places \cup {NoPlace}]
  /\ tries \in [Workers -> 0..Retries]
  /\ part \in [Workers -> 1..2]
  /\ result \in [Workers -> Seq(SUBSET Audio)]
  /\ answer \in [Workers -> {"none", "success", "unsent", "fail", "E10200", "E20400"}]
  /\ made \in [Workers -> SUBSET Paths]
  /\ clash \in [Workers -> BOOLEAN]

\* One channel of 8000 samples of 16 bits a second behind the header of a wave.
Playable(h) ==
  /\ h.start = "RIFF" /\ h.wavefmt
  /\ h.sample_rate = 8000 /\ h.bits = 16 /\ h.channels = 1

\* What the texts of the answer must have been recognised from: each channel by
\* itself, decoded first if it is not a wave that can be recognised as it is.
Expected(r) ==
  CASE Speech[r] = "two" -> <<{<<r, "left">>}, {<<r, "right">>}>>
    [] Speech[r] = "samples" \/ Playable(Header[r]) -> <<{<<r, "in">>}>>
    [] OTHER -> <<{<<r, "pcm">>}>>

\* The first bytes do not tell what it is: a tag, or a chunk, hides the channels,
\* or the first sample of raw PCM passes for the start of an MPEG frame.
Disguised(r) ==
  \/ Speech[r] = "two" /\ (Header[r].start = "ID3" \/ (Header[r].start = "RIFF" /\ ~Header[r].wavefmt))
  \/ Speech[r] = "samples" /\ Header[r].start \notin {"other", "short"}

\* protocol.use is not set, as in the files the program is shipped with, or the
\* protocol of the name is none that it knows.
Unfetched(r) == config.use = "unset" \/ Proto[r] = "unknown"

\* A job that succeeds has recognised nobody else's recording, whatever earlier jobs
\* left behind in tmp_path, unless one on a recording of the same name ran beside
\* it: __store_file and job_stt name their files after the recording
\* (vr_server.cc:564).  It has recognised every channel of its own, each once and by
\* itself, unless the first bytes do not tell what it is (Disguised), or nothing was
\* fetched (Unfetched): then it may answer success on the bytes of the name, or on an
\* empty buffer, and on those only (vr_server.cc:1010-1017).
OwnResult ==
  \A w \in Workers :
    pc[w] = "returned" /\ answer[w] = "success" /\ ~clash[w] =>
      /\ \A i \in DOMAIN result[w] : result[w][i] \subseteq {job[w]} \X Kinds
      /\ \/ result[w] = Expected(job[w])
         \/ Disguised(job[w])
         \/ Unfetched(job[w]) /\ result[w] = <<{}>>

\* The original of a file:// recording survives its job, which removes files
\* only if protocol != PROTOCOL_FILE, unless its recognition fails: there the
\* condition is missing (vr_server.cc:1327).
OriginalKept ==
  [][\A r \in Recordings :
       LET original == <<r, "in">>
       IN  files'[original] # files[original] =>
             \E w \in Workers : job[w] = r /\ pc[w] = "stt" /\ answer'[w] = "fail"]_vars

\* A successful job leaves none of its files in tmp_path, unless it downloaded
\* one over sftp or ftps and either takes it for an original (file://) or never
\* put its name into input_file (a standard wave).
CleanSuccess ==
  \A w \in Workers :
    pc[w] = "returned" /\ answer[w] = "success" /\ ~clash[w] =>
      \A p \in made[w] :
        files[p] # NoFile =>
          /\ config.use = "true" /\ p = LocalFile(w)
          /\ protocol[w] = "file" \/ (Fmt[job[w]] = "standard" /\ ~config.spk)

\* Every job returns, whatever fails and whenever the connection is lost, unless
\* its worker stays for ever in one call to the file server, or before curl_lock
\* while another does: no answer may come, and the calls have no timeout.  The
\* attempts come to an end, and so does every wait for the lock that is not one for
\* an answer.  It holds over ftps; init_sftp may wait for ever by itself
\* (vr_server.cc:189-198).
JobReturns ==
  \A w \in Workers :
    (pc[w] = "fetch" ~> pc[w] = "idle") \/ (<>[]Waits(w) /\ <>[][pc'[w] = pc[w]]_pc)

=============================================================================
