------------------------------- MODULE TextJob -------------------------------
(***************************************************************************)
(* The jobs of the vr server that work on text: job_unsegment ("only"),    *)
(* job_unsegment_with_time ("time") and job_ssp ("ssp")                    *)
(* (src/src/vr/vr_server.cc), with VRServer::unsegment_with_time and ssp   *)
(* (src/src/vr/vr.cc).  The latter two save their payload in a file of     *)
(* tmp_path named after the handle of the job, have it converted into      *)
(* another file, and read that.                                            *)
(*                                                                         *)
(* The job server numbers its handles from 1 again when it is restarted: a *)
(* handle may be met again while files of, or even a thread on, the job    *)
(* that had it before are still there.  The converters are external.       *)
(***************************************************************************)
EXTENDS WorkerDaemon

CONSTANTS
  TextThreads,   \* run("vr_text_only", ...), ("vr_text", ...) and ("vr_ssp", ...)
  TextKinds,     \* what these may run: functions from TextThreads to "only", "time"
                 \*   and "ssp"
  Handles,
  SspUtil,       \* the values of `is ssp.util set?` to consider
  Leftovers,     \* the sets of files an earlier process may have left
  NoText

ASSUME TextAssumption ==
  /\ TextThreads \subseteq Threads
  /\ TextKinds \subseteq [TextThreads -> {"only", "time", "ssp"}]
  /\ Handles # {}
  /\ SspUtil \subseteq BOOLEAN
  /\ NoText \notin Int \X {"all", "part"}

Paths == Handles \X {"mlf", "txt", "cls"}

ASSUME LeftoversAssumption == Leftovers \subseteq SUBSET Paths

\* What a file holds, or a text has been made from: the payload of job n, or only
\* a part of it.  Job 0 is of an earlier process.
Contents == ((0 .. MaxJobs) \X {"all", "part"}) \cup {NoText}

NoJob == [no |-> 0, handle |-> CHOOSE h \in Handles : TRUE]

VARIABLES
  useUtil,      \* never changes
  kind,         \* the function each thread was started with; never changes
  files,
  tpc,          \* where each thread is in its function
  tjob,         \* the number and the handle of its job
  text,         \* what it has read
  saved,        \* history: has the payload been written as a whole?
  clash         \* history: has the handle been used by another job meanwhile?

textVars == <<useUtil, kind, files, tpc, tjob, text, saved, clash>>

\* A process that ended on the way, or a job that failed, has left its files.
TextInit ==
  /\ useUtil \in SspUtil /\ kind \in TextKinds
  /\ \E old \in Leftovers : files = [p \in Paths |-> IF p \in old THEN <<0, "all">> ELSE NoText]
  /\ tpc = [w \in TextThreads |-> "idle"]
  /\ tjob = [w \in TextThreads |-> NoJob]
  /\ text = [w \in TextThreads |-> NoText]
  /\ saved = [w \in TextThreads |-> TRUE]
  /\ clash = [w \in TextThreads |-> FALSE]

-----------------------------------------------------------------------------

TextGoto(w, from, to) ==
  /\ tpc[w] = from
  /\ tpc' = [tpc EXCEPT ![w] = to]
  /\ UNCHANGED <<useUtil, kind, tjob, clash>>

File(w, ending) == <<tjob[w].handle, ending>>
Output(w) == File(w, IF kind[w] = "time" THEN "txt" ELSE "cls")
Payload(w) == <<tjob[w].no, "all">>

\* gearman_job_send_fail or _complete, and return.
Answer(w, from) ==
  /\ tpc[w] = from /\ tpc' = [tpc EXCEPT ![w] = "idle"]
  /\ EndJob(w)
  /\ tjob' = [tjob EXCEPT ![w] = NoJob]
  /\ text' = [text EXCEPT ![w] = NoText]
  /\ saved' = [saved EXCEPT ![w] = TRUE]
  /\ clash' = [clash EXCEPT ![w] = FALSE]
  /\ UNCHANGED <<useUtil, kind>>

Fail(w, from) == Answer(w, from) /\ UNCHANGED files

BeginText(w, h) ==
  /\ TakeJob(w)
  /\ tpc[w] = "idle" /\ tpc' = [tpc EXCEPT ![w] = "check"]
  /\ tjob' = [tjob EXCEPT ![w] = [no |-> taken', handle |-> h]]
  /\ LET others == {v \in TextThreads \ {w} : tpc[v] # "idle" /\ tjob[v].handle = h}
     IN  clash' = [v \in TextThreads |-> IF v = w THEN others # {} ELSE clash[v] \/ v \in others]
  /\ UNCHANGED <<useUtil, kind, files, text, saved>>

\* Less than ten bytes.
TooSmall(w) == Fail(w, "check")

\* VRServer::unsegment, in memory.
Unsegment(w) ==
  /\ kind[w] = "only"
  /\ TextGoto(w, "check", "send")
  /\ text' = [text EXCEPT ![w] = Payload(w)]
  /\ UNCHANGED <<files, saved, daemonVars>>

UnsegmentThrows(w) == kind[w] = "only" /\ Fail(w, "check")

\* The file is opened to append to it.
SaveDataMutant(w) ==
  /\ kind[w] # "only"
  /\ TextGoto(w, "check", "convert")
  /\ \E done \in {"all", "part", "nothing"} :
       /\ files' = IF done = "nothing" \/ files[File(w, "mlf")] # NoText THEN files
                   ELSE [files EXCEPT ![File(w, "mlf")] = <<tjob[w].no, done>>]
       /\ saved' = [saved EXCEPT ![w] = done = "all"]
  /\ UNCHANGED <<text, daemonVars>>

\* save_data never fails: no exception is enabled and no state looked at, be the
\* file written in part or not opened at all.
SaveData(w) ==
  /\ kind[w] # "only"
  /\ TextGoto(w, "check", "convert")
  /\ \E done \in {"all", "part", "nothing"} :
       /\ files' = IF done = "nothing" THEN files
                   ELSE [files EXCEPT ![File(w, "mlf")] = <<tjob[w].no, done>>]
       /\ saved' = [saved EXCEPT ![w] = done = "all"]
  /\ UNCHANGED <<text, daemonVars>>

\* SPLPostProcMLF, or the program of ssp.
Convert(w) ==
  /\ TextGoto(w, "convert", "read")
  /\ files[File(w, "mlf")] # NoText
  /\ files' = [files EXCEPT ![Output(w)] = files[File(w, "mlf")]]
  /\ UNCHANGED <<text, saved, daemonVars>>

\* It fails, but the shell has created the file by then: ssp.util is run with > .
ConvertFails(w) ==
  /\ Answer(w, "convert")
  /\ files' = IF kind[w] = "ssp" /\ useUtil
              THEN [files EXCEPT ![Output(w)] = <<tjob[w].no, "part">>] ELSE files

ReadText(w) ==
  /\ TextGoto(w, "read", "remove")
  /\ files[Output(w)] # NoText
  /\ text' = [text EXCEPT ![w] = files[Output(w)]]
  /\ UNCHANGED <<files, saved, daemonVars>>

\* The output cannot be opened, or an exception is thrown.
ReadFails(w) == Fail(w, "read")

\* std::remove of both files; ssp unlinks its own.
RemoveFiles(w) ==
  /\ TextGoto(w, "remove", "send")
  /\ files' = [files EXCEPT ![File(w, "mlf")] = NoText, ![Output(w)] = NoText]
  /\ UNCHANGED <<text, saved, daemonVars>>

\* That the answer could not be sent is logged only.
SendComplete(w) == Answer(w, "send") /\ UNCHANGED files

-----------------------------------------------------------------------------

TextStep(w) ==
  \/ TooSmall(w) \/ Unsegment(w) \/ UnsegmentThrows(w) \/ SaveData(w)
  \/ Convert(w) \/ ConvertFails(w) \/ ReadText(w) \/ ReadFails(w)
  \/ RemoveFiles(w) \/ SendComplete(w)

-----------------------------------------------------------------------------
(* Properties *)

\* Every variable of this module has its type.
TextTypeOK ==
  /\ useUtil \in SspUtil /\ kind \in TextKinds
  /\ files \in [Paths -> Contents]
  /\ tpc \in [TextThreads -> {"idle", "check", "convert", "read", "remove", "send"}]
  /\ tjob \in [TextThreads -> [no : 0 .. MaxJobs, handle : Handles]]
  /\ text \in [TextThreads -> Contents]
  /\ saved \in [TextThreads -> BOOLEAN] /\ clash \in [TextThreads -> BOOLEAN]

\* A text that is about to be answered has been made from the payload of its own
\* job, the whole of it, whatever an earlier job of the same handle has left, if
\* the payload could be saved and no other job had the handle at the time.
OwnText ==
  \A w \in TextThreads : tpc[w] = "send" /\ saved[w] /\ ~clash[w] => text[w] = Payload(w)
=============================================================================
