----------------------------- MODULE MCVrServer -----------------------------
(* VrServer for TLC: two threads that recognise, and two for text. *)
EXTENDS VrServer, TLC

CONSTANTS s1, s2, t1, t2, h1

All == {s1, s2, t1, t2}
TwoStt == {s1, s2}
TwoText == {t1, t2}

\* Text with files, and text in memory.
Kinds == {t1 :> "time" @@ t2 :> "ssp", t1 :> "only" @@ t2 :> "only"}

\* No file, or every file that a job on the handle may leave.
NoneOrAll == {{}, Paths}

\* The threads for speech are alike.
SttSymmetry == Permutations(TwoStt)
=============================================================================
