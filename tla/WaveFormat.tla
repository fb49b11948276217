----------------------------- MODULE WaveFormat -----------------------------
(***************************************************************************)
(* VRServer::check_wave_format (src/src/vr/vr.cc): what the first bytes of *)
(* a recording say of it, and what job_stt makes of the answer             *)
(* (src/src/vr/vr_server.cc).                                              *)
(***************************************************************************)
EXTENDS Integers

\* The fields that the function reads.  Those of a wave mean something behind
\* "RIFF", those of MPEG behind the bits of its synchronisation.
Plain == [start |-> "other", wavefmt |-> FALSE, sample_rate |-> 0, bits |-> 0,
          channels |-> 0, version |-> 0, layer |-> 0, mode |-> 0]

Riff(sample_rate, bits, channels) ==
  [Plain EXCEPT !.start = "RIFF", !.wavefmt = TRUE, !.sample_rate = sample_rate,
                !.bits = bits, !.channels = channels]

\* Another chunk, such as JUNK, comes before "fmt ".
Preceded(riff) == [riff EXCEPT !.wavefmt = FALSE]

Frame(version, layer, mode) ==
  [Plain EXCEPT !.start = "sync", !.version = version, !.layer = layer, !.mode = mode]

Tagged == [Plain EXCEPT !.start = "ID3"]

\* Less than four samples.
Short == [Plain EXCEPT !.start = "short"]

Headers ==
  [start : {"short", "RIFF", "sync", "ID3", "other"}, wavefmt : BOOLEAN,
   sample_rate : Nat, bits : Nat, channels : Nat, version : 0 .. 3, layer : 0 .. 3,
   mode : 0 .. 3]

Riffs(h) ==
  IF h.wavefmt /\ h.sample_rate = 8000 /\ h.bits = 16 /\ h.channels = 1 THEN "STANDARD_WAVE"
  ELSE IF h.wavefmt /\ h.channels = 2 THEN "WAVE_2CH" ELSE "WAVE"

\* Version 1 and layer 0 are reserved; mode 3 is one channel.
CheckWaveFormat(h) ==
  CASE h.start = "RIFF" -> Riffs(h)
    [] h.start = "sync" /\ h.version # 1 /\ h.layer # 0 ->
         IF h.mode = 3 THEN "MPEG" ELSE "MPEG_2CH"
    [] h.start = "ID3" -> "MPEG_ID3"
    [] OTHER -> "UNKNOWN_FORMAT"

\* The switch of job_stt, which has no case for MPEG_2CH.
Branch(format) ==
  CASE format = "UNKNOWN_FORMAT" -> "raw"
    [] format = "STANDARD_WAVE" -> "standard"
    [] format \in {"WAVE", "MPEG", "MPEG_ID3"} -> "encoded"
    [] format = "WAVE_2CH" -> "stereo"
    [] OTHER -> "unsupported"
=============================================================================
