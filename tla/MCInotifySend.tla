--------------------------- MODULE MCInotifySend ---------------------------
(* InotifySend for TLC. *)
EXTENDS InotifySend, TLC

CONSTANTS j1, j2, j3

ThreeJobs == {j1, j2, j3}
ThreeUris == j1 :> "path" @@ j2 :> "file" @@ j3 :> "remote"
=============================================================================
