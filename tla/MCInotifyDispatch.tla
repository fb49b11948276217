------------------------- MODULE MCInotifyDispatch -------------------------
(* InotifyDispatch for TLC. *)
EXTENDS InotifyDispatch, TLC

CONSTANTS r1, r2, a, b, c, d, e

TheRunners == {r1, r2}
TheUris == {a, b, c, d, e}

Rec(k, u, n) == [kind |-> k, uri |-> u, size |-> n]

\* Two index files: recordings, a line that is too short, and a line that
\* cannot be parsed.
MixedLines ==
  r1 :> <<Rec("job", a, 1), Rec("bad", b, 1)>> @@
  r2 :> <<Rec("short", d, 0), Rec("job", c, 1), Rec("job", d, 1)>>

\* Recordings of which each one exceeds the threshold, an empty one, one of
\* unknown size, and a line that cannot be parsed.
SizedLines ==
  r1 :> <<Rec("job", a, 2), Rec("job", e, 0), Rec("job", b, 2)>> @@
  r2 :> <<Rec("job", c, Unknown), Rec("job", d, 2), Rec("bad", d, 0)>>

\* One recording per file.
SingleLines == r1 :> <<Rec("job", a, 1)>> @@ r2 :> <<Rec("job", b, 1)>>
=============================================================================
