----------------------------- MODULE Transcript -----------------------------
(***************************************************************************)
(* What a recognition promises to its caller: frames of speech are heard   *)
(* one after the other, from time to time everything heard so far has been *)
(* said, and the call succeeds only if nothing heard has been left out.    *)
(* No frame is said twice, out of order, or without having been heard.     *)
(***************************************************************************)
EXTENDS Sequences, SequencesExt

VARIABLES
  heard,   \* the frames that have reached the decoder
  said,    \* the frames that the text written so far has been recognised from
  state    \* of the call: "idle", "running", "done" or "failed"

vars == <<heard, said, state>>

Init == heard = <<>> /\ said = <<>> /\ state = "idle"

Begin ==
  /\ state = "idle" /\ state' = "running"
  /\ UNCHANGED <<heard, said>>

\* More frames; the rest of what is heard stays as it is.
Hear ==
  /\ state = "running" /\ IsPrefix(heard, heard')
  /\ UNCHANGED <<said, state>>

Say ==
  /\ state = "running" /\ said' = heard
  /\ UNCHANGED <<heard, state>>

Succeed ==
  /\ state = "running" /\ state' = "done"
  /\ said' = heard
  /\ UNCHANGED heard

\* The last frames may have been heard in part.
Fail ==
  /\ state = "running" /\ state' = "failed"
  /\ IsPrefix(heard, heard')
  /\ UNCHANGED said

End ==
  /\ state \in {"done", "failed"} /\ state' = "idle"
  /\ heard' = <<>> /\ said' = <<>>

Next == Begin \/ Hear \/ Say \/ Succeed \/ Fail \/ End

Safety == Init /\ [][Next]_vars

\* A call that has begun ends.
Spec == Safety /\ WF_vars(Succeed \/ Fail)
=============================================================================
