------------------------------- MODULE Decode -------------------------------
(***************************************************************************)
(* The frame loop of the recogniser: VRServer::stt for a whole recording   *)
(* (src/src/vr/vr.cc) and RealtimeSTT::stt for a piece of a call           *)
(* (src/src/vr/rt.cc), which is the same loop on objects that outlive the  *)
(* call.  A recording is cut into chunks; the front end turns them into    *)
(* frames, late and a varying number at a time; the decoder is given the   *)
(* frames, and asked for its text and reset after every reset_period of    *)
(* them, and at the end.                                                   *)
(*                                                                         *)
(* The unit of length is what makes one frame (80 samples).  The front end *)
(* and the decoder are external: what they answer is left open, and either *)
(* may refuse a reset and keep what it holds.                              *)
(***************************************************************************)
EXTENDS Integers, Sequences, SequencesExt

CONSTANTS
  Modes,       \* whether to look at RealtimeSTT::stt (TRUE), VRServer::stt (FALSE)
  Lengths,     \* of the recordings or pieces
  ReadSize,    \* read_size
  Stack,       \* LDA_LEN_FRAMESTACK
  Silence,     \* the 40 frames of silence of getFinalResult
  Periods,     \* what reset_period may be
  MaxCalls     \* a bound: how many calls are made

ASSUME DecodeAssumption ==
  /\ Modes \subseteq BOOLEAN
  /\ Lengths \subseteq Nat /\ Periods \subseteq Nat
  /\ ReadSize \in Nat \ {0}
  /\ Stack \in Nat /\ Silence \in Nat /\ MaxCalls \in Nat

\* A frame is known by its place in all that is spoken on the channel, call after
\* call.  The copies of a first frame that fill the stack, and silence, are no speech.
Frames == Nat
Filler == 0
Fillers(n) == [i \in 1 .. n |-> Filler]

Speech(frames) ==
  FlattenSeq([i \in DOMAIN frames |-> IF frames[i] = Filler THEN <<>> ELSE <<frames[i]>>])

VARIABLES
  realtime,        \* which of the two functions; never changes
  reset_period,
  pc, call, len,   \* where the call is, its number and the length of its buffer
  spoken,          \* how many frames were spoken before this call
  offset, index, last_position,
  front,           \* what the front end has been given and not yet given back
  feature_vector,  \* the frames of the current batch
  laser,           \* the frames that the decoder has taken in this call since its reset
  kept,            \* the speech of earlier calls that it holds before them
  result,          \* the pieces of text, each with its frames and its times
  fed, heard, left \* history: what this call has given to the front end, which frames
                   \*   of speech it has given to the decoder, and how many the front
                   \*   end held when the call began to read

history == <<fed, heard, left>>
locals == <<call, len, spoken, offset, index, last_position, result>>
engine == <<front, feature_vector, laser, kept>>
vars == <<realtime, reset_period, pc, locals, engine, history>>

Init ==
  /\ realtime \in Modes
  /\ reset_period \in Periods
  /\ pc = "idle"
  /\ call = 0 /\ len = 0 /\ spoken = 0
  /\ offset = 0 /\ index = 0 /\ last_position = 0
  /\ front = <<>> /\ feature_vector = <<>> /\ laser = <<>> /\ kept = <<>>
  /\ result = <<>>
  /\ fed = <<>> /\ heard = <<>> /\ left = 0

-----------------------------------------------------------------------------

Goto(from, to) ==
  /\ pc = from /\ pc' = to
  /\ UNCHANGED <<realtime, reset_period, call, len, spoken>>

\* create_channel publishes a channel first and calls set_reset_period then:
\* a call that is already running sees the value change.
SetResetPeriod ==
  /\ realtime
  /\ reset_period' \in Periods
  /\ UNCHANGED <<realtime, pc, locals, engine, history>>

\* VRServer::stt creates a front end and a child laser for each call.
Call(n) ==
  /\ pc = "idle" /\ call < MaxCalls
  /\ pc' = "reset"
  /\ call' = call + 1 /\ len' = n
  /\ IF realtime THEN UNCHANGED <<front, laser, kept>>
     ELSE front' = <<>> /\ laser' = <<>> /\ kept' = <<>>
  /\ UNCHANGED <<realtime, reset_period, spoken, offset, index, last_position,
                 feature_vector, result, history>>

\* The front end is not reset.
ResetMutant ==
  /\ Goto("reset", "first")
  /\ kept' \in {<<>>, kept \o Speech(laser)} /\ laser' = <<>>
  /\ UNCHANGED <<offset, index, last_position, front, feature_vector, result, history>>

\* resetSLaser and resetLFrontEnd.  Nobody looks at their results: one that fails
\* leaves what an earlier call has put there.
Reset ==
  /\ Goto("reset", "first")
  /\ kept' \in {<<>>, kept \o Speech(laser)} /\ laser' = <<>>
  /\ front' \in {<<>>, front} /\ left' = Len(front')
  /\ UNCHANGED <<offset, index, last_position, feature_vector, result, fed, heard>>

-----------------------------------------------------------------------------
(* The loops over the recording. *)

rsize == IF ReadSize > len - offset THEN len - offset ELSE ReadSize
Chunk == [i \in 1 .. rsize |-> spoken + offset + i]

\* The front end gives back the first of the frames it holds, or none, and the
\* batch begins with `stack`.  It keeps the rest, or drops it and begins anew
\* (FSTATUS reset: what it holds is too short to be speech).
GiveFrames(held, stack) ==
  \E n \in 0 .. Len(held) :
    /\ front' \in {<<>>, SubSeq(held, n + 1, Len(held))}
    /\ feature_vector' = IF n = 0 THEN <<>> ELSE stack \o SubSeq(held, 1, n)

\* stepFrameLFrontEnd on the next chunk.  What it returns is ignored: it is a status,
\* for the front end knows no failure (frontend_api.h).
StepFrame(stack) ==
  /\ offset < len
  /\ fed' = fed \o Chunk
  /\ GiveFrames(front \o Chunk, stack)

\* stepSARecFrameExt for each of the frames.
Take(frames) ==
  /\ laser' = laser \o frames
  /\ heard' = heard \o Speech(frames)

TakeBatch ==
  /\ Take(feature_vector)
  /\ index' = index + Len(feature_vector)

ReadFirst ==
  /\ StepFrame(Fillers(Stack))
  /\ IF feature_vector' = <<>>
     THEN Goto("first", "first") /\ offset' = offset + ReadSize
     ELSE Goto("first", "step_first") /\ UNCHANGED offset
  /\ UNCHANGED <<index, last_position, laser, kept, result, heard, left>>

\* The first batch ends the first loop; behind it, offset += read_size.
StepFirstMutant ==
  /\ Goto("step_first", "loop")
  /\ TakeBatch
  /\ UNCHANGED <<offset, last_position, front, feature_vector, kept, result, fed, left>>

StepFirst ==
  /\ Goto("step_first", "loop")
  /\ TakeBatch
  /\ offset' = offset + ReadSize
  /\ UNCHANGED <<last_position, front, feature_vector, kept, result, fed, left>>

NoFirst ==
  /\ Goto("first", "loop")
  /\ offset >= len
  /\ offset' = offset + ReadSize
  /\ UNCHANGED <<index, last_position, engine, result, history>>

Read ==
  /\ StepFrame(<<>>)
  /\ IF feature_vector' = <<>>
     THEN Goto("loop", "loop") /\ offset' = offset + ReadSize
     ELSE Goto("loop", "step") /\ UNCHANGED offset
  /\ UNCHANGED <<index, last_position, laser, kept, result, heard, left>>

Step ==
  /\ TakeBatch
  /\ IF index' > reset_period
     THEN Goto("step", "final") /\ UNCHANGED offset
     ELSE Goto("step", "loop") /\ offset' = offset + ReadSize
  /\ UNCHANGED <<last_position, front, feature_vector, kept, result, fed, left>>

\* The decoder refuses a frame, having taken those before it.
StepFails ==
  /\ \E from \in {"step_first", "step", "step_flush"} : Goto(from, "failed")
  /\ \E n \in 0 .. Len(feature_vector) - 1 : Take(SubSeq(feature_vector, 1, n))
  /\ UNCHANGED <<offset, index, last_position, front, feature_vector, kept, result, fed, left>>

-----------------------------------------------------------------------------
(* getFinalResult and the end of the call. *)

\* The decoder takes frames of silence.  They are not counted: index is what the
\* caller calls the next frame.
Quiet(n) == laser' = laser \o Fillers(n)

\* The decoder is given silence behind the frames and says what they were, and what
\* it has kept.  The last line it prints ends, in the caller's count, before the
\* frames, with them, or in the silence; with no line, `end` stays 0.
Ends == {0, index, index + Silence}
Piece(start, end) ==
  [old |-> kept, frames |-> Speech(laser), start |-> start, end |-> end]

AdjustedResultMutant ==
  /\ Quiet(Silence)
  /\ \E end \in Ends :
       /\ result' = Append(result, Piece(last_position, last_position + end))
       /\ last_position' = end

AdjustedResult ==
  /\ Quiet(Silence)
  /\ \E end \in Ends :
       /\ result' = Append(result, Piece(last_position, last_position + end))
       /\ last_position' = last_position + end

\* The decoder refuses a frame of the silence, or has no result behind it.
NoResult ==
  /\ \E n \in 0 .. Silence : Quiet(n)
  /\ UNCHANGED <<last_position, result>>

Final ==
  /\ Goto("final", "clear")
  /\ AdjustedResult
  /\ UNCHANGED <<offset, index, front, feature_vector, kept, history>>

\* The silence is counted, too.
FinalFailsMutant ==
  /\ Goto("final", "loop")
  /\ NoResult
  /\ index' = index + Silence
  /\ offset' = offset + ReadSize
  /\ UNCHANGED <<front, feature_vector, kept, history>>

\* getFinalResult fails: the loop goes on without a reset.
FinalFails ==
  /\ Goto("final", "loop")
  /\ NoResult
  /\ offset' = offset + ReadSize
  /\ UNCHANGED <<index, front, feature_vector, kept, history>>

ClearMutant ==
  /\ Goto("clear", "loop")
  /\ index' = 0
  /\ offset' = offset + ReadSize
  /\ UNCHANGED <<last_position, engine, result, history>>

\* resetSLaser and index = 0.
Clear ==
  /\ Goto("clear", "loop")
  /\ laser' = <<>> /\ kept' = <<>> /\ index' = 0
  /\ offset' = offset + ReadSize
  /\ UNCHANGED <<last_position, front, feature_vector, result, history>>

ClearFails ==
  /\ Goto("clear", "failed")
  /\ UNCHANGED <<offset, index, last_position, engine, result, history>>

\* stepFrameLFrontEnd with no data empties the front end.
Flush ==
  /\ Goto("loop", "step_flush")
  /\ offset >= len
  /\ GiveFrames(front, <<>>)
  /\ UNCHANGED <<offset, index, last_position, laser, kept, result, history>>

StepFlush ==
  /\ Goto("step_flush", "last")
  /\ TakeBatch
  /\ UNCHANGED <<offset, last_position, front, feature_vector, kept, result, fed, left>>

LastResult ==
  /\ Goto("last", "done")
  /\ IF index > 0 THEN AdjustedResult ELSE UNCHANGED <<last_position, result, laser>>
  /\ UNCHANGED <<offset, index, front, feature_vector, kept, history>>

LastResultFails ==
  /\ Goto("last", "failed")
  /\ index > 0
  /\ NoResult
  /\ UNCHANGED <<offset, index, front, feature_vector, kept, history>>

\* The locals end with the call.
Return ==
  /\ pc \in {"done", "failed"} /\ pc' = "idle"
  /\ spoken' = spoken + len /\ len' = 0
  /\ offset' = 0 /\ index' = 0 /\ last_position' = 0
  /\ result' = <<>> /\ feature_vector' = <<>>
  /\ fed' = <<>> /\ heard' = <<>> /\ left' = 0
  /\ UNCHANGED <<realtime, reset_period, call, front, laser, kept>>

-----------------------------------------------------------------------------

Run ==
  \/ Reset \/ ReadFirst \/ StepFirst \/ NoFirst \/ Read \/ Step \/ StepFails
  \/ Final \/ FinalFails \/ Clear \/ ClearFails
  \/ Flush \/ StepFlush \/ LastResult \/ LastResultFails \/ Return

Next == Run \/ SetResetPeriod \/ \E n \in Lengths : Call(n)

\* The thread of a call goes on; nothing makes calls arrive.
Spec == Init /\ [][Next]_vars /\ WF_vars(Run)

-----------------------------------------------------------------------------
(* Properties *)

Points == {"idle", "reset", "first", "step_first", "loop", "step", "final", "clear",
           "step_flush", "last", "done", "failed"}
Pieces == [old : Seq(Frames), frames : Seq(Frames), start : Nat, end : Nat]

\* Every variable has its type, and index counts no frame that cannot be there.
TypeOK ==
  /\ realtime \in Modes /\ reset_period \in Periods
  /\ pc \in Points
  /\ call \in 0 .. MaxCalls /\ len \in Lengths \cup {0} /\ spoken \in Nat /\ left \in Nat
  /\ offset \in Nat /\ last_position \in Nat
  /\ index \in 0 .. Stack + left + len
  /\ front \in Seq(Frames) /\ feature_vector \in Seq(Frames)
  /\ laser \in Seq(Frames) /\ kept \in Seq(Frames)
  /\ result \in Seq(Pieces)
  /\ fed \in Seq(Frames) /\ heard \in Seq(Frames)

\* What has been recognised so far of what this call has given to the decoder.
Said == FlattenSeq([i \in DOMAIN result |-> result[i].frames])

\* The call, as its caller sees it.
State == IF pc \in {"idle", "done", "failed"} THEN pc ELSE "running"

\* Both functions keep the promise of Transcript: every frame that the front end
\* gives is recognised once and in order, across resets, failed results and the
\* flush, if the call succeeds (vr.cc:602-739, rt.cc:220-321).
Recognition == INSTANCE Transcript WITH said <- Said, state <- State

TranscriptSpec == Recognition!Spec

\* What a call recognises was spoken in that call, in this order, and nothing twice,
\* for all that an earlier call, even one that failed half-way, has left in the front
\* end and the decoder of the channel.  The exceptions are the resets at the start
\* that are refused and ignored: what the front end kept comes first, once, and what
\* the decoder kept gets into the first piece of text only.  Where the decoder is asked
\* for text, each frame it has not yet said is counted by `index`, so that a result
\* left out for index = 0 leaves out no speech.  Between two batches the front end has
\* been given the recording up to `offset`, each part once.
OwnSpeech ==
  /\ \A i \in DOMAIN heard : /\ heard[i] > spoken \/ i <= left
                             /\ \A j \in 1 .. i - 1 : heard[j] < heard[i]
  /\ \A i \in DOMAIN result : result[i].old # <<>> => i = 1
  /\ pc \in {"loop", "final", "last"} => Len(Speech(laser)) <= index
  /\ pc = "loop" =>
       fed = [i \in 1 .. IF offset > len THEN len ELSE offset |-> spoken + i]

\* The pieces of text follow one another in time: each begins where the last line
\* of the one before it ended, whatever came in between, and no piece is ahead of
\* the speech by more than the silence it was given (and the copies in the first).
InTime ==
  \A i \in DOMAIN result :
    /\ result[i].start = (IF i = 1 THEN 0 ELSE result[i - 1].end)
    /\ result[i].start <= result[i].end
    /\ result[i].end <= Stack + i * Silence + 
         Len(FlattenSeq([j \in 1 .. i |-> result[j].frames]))

=============================================================================
