---------------------------- MODULE DecodeProofs ----------------------------
(***************************************************************************)
(* What Decode promises for recordings, chunks, stacks and periods of      *)
(* every length, and that it implements Transcript.                        *)
(*                                                                         *)
(* The argument follows the frames.  What the decoder has heard, the batch *)
(* and the front end hold make one stream of frames in the order they were *)
(* spoken in (Order), those that a refused reset left in the front end     *)
(* first, and at most the stack more than have been read (Room).  What has *)
(* been heard is what has been said and what the decoder has since taken   *)
(* (Heard).  index counts the latter (Counted), so that a last result that *)
(* is left out for index = 0 leaves out nothing, and the times, which are  *)
(* sums of index, keep behind the speech (Pace).  What a refused reset     *)
(* left in the decoder goes with the first result (Once).                  *)
(***************************************************************************)
EXTENDS Decode, FoldLemmas

-----------------------------------------------------------------------------
(* The speech among frames. *)

\* Each frame of speech alone, and nothing for a filler.
Cells(s) == [i \in DOMAIN s |-> IF s[i] = Filler THEN <<>> ELSE <<s[i]>>]

\* Each frame gives one or none, so the speech among frames is a sequence of frames.
LEMMA CellsOf ==
  ASSUME NEW s \in Seq(Frames)
  PROVE  /\ Cells(s) \in Seq(Items(Frames))
         /\ Speech(s) = FlattenSeq(Cells(s))
         /\ Speech(s) \in Seq(Frames)
<1>1. \A i \in DOMAIN s : s[i] \in Frames  OBVIOUS
<1>2. \A x \in Frames : <<x>> \in Seq(Frames) /\ <<>> \in Seq(Frames)  OBVIOUS
<1>3. \A i \in DOMAIN s : (IF s[i] = Filler THEN <<>> ELSE <<s[i]>>) \in Items(Frames)
  BY <1>1, <1>2, Zenon DEF Items
<1>4. DOMAIN s = 1 .. Len(s) /\ Len(s) \in Nat  OBVIOUS
<1>5. Cells(s) \in Seq(Items(Frames))
  <2> DEFINE T == Items(Frames)
             c(i) == IF s[i] = Filler THEN <<>> ELSE <<s[i]>>
  <2>1. \A i \in 1 .. Len(s) : c(i) \in T  BY <1>3, <1>4
  <2>2. Cells(s) = [i \in 1 .. Len(s) |-> c(i)]  BY <1>4 DEF Cells
  <2> HIDE DEF T, c
  <2>3. [i \in 1 .. Len(s) |-> c(i)] \in Seq(T)  BY <1>4, <2>1
  <2> QED  BY <2>2, <2>3 DEF T
<1>6. Speech(s) = FlattenSeq(Cells(s))  BY DEF Speech, Cells
<1> QED  BY <1>5, <1>6, FlattenType

\* No frames, no speech.
LEMMA SpeechEmpty == Speech(<<>>) = <<>>
<1>1. Cells(<<>>) = <<>>  BY DEF Cells
<1> QED  BY <1>1, FlattenEmpty DEF Speech, Cells

\* The speech of two runs of frames is that of the first and that of the second.
LEMMA SpeechConcat ==
  ASSUME NEW s \in Seq(Frames), NEW t \in Seq(Frames)
  PROVE  Speech(s \o t) = Speech(s) \o Speech(t)
<1>1. s \o t \in Seq(Frames)  OBVIOUS
<1>2. Cells(s \o t) = Cells(s) \o Cells(t)
  <2> DEFINE T == Items(Frames)
             u == Cells(s \o t)
             v == Cells(s) \o Cells(t)
  <2>1. u \in Seq(T) /\ Cells(s) \in Seq(T) /\ Cells(t) \in Seq(T)  BY <1>1, CellsOf
  <2>2. Len(Cells(s)) = Len(s) /\ Len(Cells(t)) = Len(t) /\ Len(u) = Len(s) + Len(t)
    BY DEF Cells
  <2>3. Len(s) \in Nat /\ Len(t) \in Nat  OBVIOUS
  <2>4. /\ v \in Seq(T) /\ Len(v) = Len(s) + Len(t)
        /\ \A i \in 1 .. Len(s) + Len(t) :
             v[i] = IF i <= Len(s) THEN Cells(s)[i] ELSE Cells(t)[i - Len(s)]
    <3> HIDE DEF T
    <3>1. PICK a, b : a = Cells(s) /\ b = Cells(t)  OBVIOUS
    <3>2. a \in Seq(T) /\ b \in Seq(T) /\ Len(a) = Len(s) /\ Len(b) = Len(t)
      BY <2>1, <2>2, <3>1
    <3>3. v = a \o b  BY <3>1
    <3> HIDE DEF v
    <3>4. /\ a \o b \in Seq(T) /\ Len(a \o b) = Len(a) + Len(b)
          /\ \A i \in 1 .. Len(a) + Len(b) :
               (a \o b)[i] = IF i <= Len(a) THEN a[i] ELSE b[i - Len(a)]
      BY <3>2, ConcatProperties
    <3> QED  BY <3>1, <3>2, <3>3, <3>4
  <2>5. \A i \in 1 .. Len(s) + Len(t) : u[i] = v[i]
    <3> SUFFICES ASSUME NEW i \in 1 .. Len(s) + Len(t) PROVE u[i] = v[i]
      OBVIOUS
    <3> HIDE DEF v
    <3>1. (s \o t)[i] = IF i <= Len(s) THEN s[i] ELSE t[i - Len(s)]  OBVIOUS
    <3>2. CASE i <= Len(s)
      <4>1. v[i] = Cells(s)[i]  BY <2>4, <3>2
      <4> QED  BY <3>1, <3>2, <4>1 DEF Cells
    <3>3. CASE ~(i <= Len(s))
      <4>1. v[i] = Cells(t)[i - Len(s)]  BY <2>4, <3>3
      <4>2. i - Len(s) \in 1 .. Len(t)  BY <2>3, <3>3
      <4> QED  BY <3>1, <3>3, <4>1, <4>2 DEF Cells
    <3> QED  BY <3>2, <3>3
  <2> HIDE DEF T, u, v
  <2>6. u = v  BY <2>1, <2>2, <2>4, <2>5, SeqEqual
  <2> QED  BY <2>6 DEF u, v
<1>3. FlattenSeq(Cells(s) \o Cells(t)) = FlattenSeq(Cells(s)) \o FlattenSeq(Cells(t))
  BY CellsOf, FlattenConcat
<1> QED  BY <1>1, <1>2, <1>3, CellsOf

\* One frame.
LEMMA SpeechOne ==
  ASSUME NEW x \in Frames
  PROVE  Speech(<<x>>) = IF x = Filler THEN <<>> ELSE <<x>>
<1> DEFINE c == IF x = Filler THEN <<>> ELSE <<x>>
           none == <<>>
<1>1. Cells(<<x>>) = <<c>>  BY DEF Cells
<1>2. c \in Seq(Frames)  OBVIOUS
<1>3. none \in Seq(Items(Frames)) /\ <<c>> = Append(none, c)  OBVIOUS
<1>4. Speech(<<x>>) = FlattenSeq(<<c>>)  BY <1>1 DEF Speech, Cells
<1>5. FlattenSeq(none) = <<>>  BY FlattenEmpty
<1> HIDE DEF c, none
<1>6. FlattenSeq(Append(none, c)) = FlattenSeq(none) \o c  BY <1>2, <1>3, FlattenAppend
<1>7. <<>> \o c = c  BY <1>2, ConcatEmptySeq
<1> QED  BY <1>3, <1>4, <1>5, <1>6, <1>7 DEF c

\* One frame more.
LEMMA SpeechAppend ==
  ASSUME NEW s \in Seq(Frames), NEW x \in Frames
  PROVE  Speech(Append(s, x)) = Speech(s) \o (IF x = Filler THEN <<>> ELSE <<x>>)
<1>1. <<x>> \in Seq(Frames)  OBVIOUS
<1>2. Append(s, x) = s \o <<x>>  BY AppendIsConcat
<1> QED  BY <1>1, <1>2, SpeechConcat, SpeechOne

\* Fillers are no speech.
LEMMA SpeechOfFillers ==
  ASSUME NEW s \in Seq(Frames), \A i \in 1 .. Len(s) : s[i] = Filler
  PROVE  Speech(s) = <<>>
<1> DEFINE OnlyFillers(t) == \A i \in 1 .. Len(t) : t[i] = Filler
           T == {t \in Seq(Frames) : OnlyFillers(t) => Speech(t) = <<>>}
<1>1. <<>> \in T
  <2>1. <<>> \in Seq(Frames)  OBVIOUS
  <2> QED  BY <2>1, SpeechEmpty
<1>2. ASSUME NEW t \in T, NEW x \in Frames PROVE Append(t, x) \in T
  <2>1. t \in Seq(Frames) /\ Append(t, x) \in Seq(Frames)  OBVIOUS
  <2>2. OnlyFillers(Append(t, x)) => OnlyFillers(t) /\ x = Filler
    <3> DEFINE a == Append(t, x)
    <3>1. Len(a) = Len(t) + 1 /\ Len(t) \in Nat /\ a[Len(t) + 1] = x
          /\ \A i \in 1 .. Len(t) : a[i] = t[i]
      BY <2>1
    <3> HIDE DEF a
    <3>2. (\A i \in 1 .. Len(a) : a[i] = Filler) => x = Filler /\ \A i \in 1 .. Len(t) : t[i] = Filler
      BY <3>1
    <3> QED  BY <3>2 DEF a
  <2>3. OnlyFillers(t) /\ x = Filler => Speech(Append(t, x)) = <<>> \o <<>>
    BY <2>1, SpeechAppend
  <2>4. <<>> \o <<>> = <<>>  OBVIOUS
  <2> HIDE DEF OnlyFillers
  <2> QED  BY <2>1, <2>2, <2>3, <2>4
<1>3. T \in SUBSET Seq(Frames)  OBVIOUS
<1> HIDE DEF T
<1>4. T = Seq(Frames)  BY <1>1, <1>2, <1>3, SeqInduct
<1> QED  BY <1>4 DEF T

\* A run without fillers is all speech.
LEMMA SpeechIsAll ==
  ASSUME NEW s \in Seq(Frames), \A i \in 1 .. Len(s) : s[i] # Filler
  PROVE  Speech(s) = s
<1> DEFINE NoFillers(t) == \A i \in 1 .. Len(t) : t[i] # Filler
           T == {t \in Seq(Frames) : NoFillers(t) => Speech(t) = t}
<1>1. <<>> \in T
  <2>1. <<>> \in Seq(Frames)  OBVIOUS
  <2> QED  BY <2>1, SpeechEmpty
<1>2. ASSUME NEW t \in T, NEW x \in Frames PROVE Append(t, x) \in T
  <2>1. t \in Seq(Frames) /\ Append(t, x) \in Seq(Frames)  OBVIOUS
  <2>2. NoFillers(Append(t, x)) => NoFillers(t) /\ x # Filler
    <3> DEFINE a == Append(t, x)
    <3>1. Len(a) = Len(t) + 1 /\ Len(t) \in Nat /\ a[Len(t) + 1] = x
          /\ \A i \in 1 .. Len(t) : a[i] = t[i]
      BY <2>1
    <3> HIDE DEF a
    <3>2. (\A i \in 1 .. Len(a) : a[i] # Filler) => x # Filler /\ \A i \in 1 .. Len(t) : t[i] # Filler
      BY <3>1
    <3> QED  BY <3>2 DEF a
  <2>3. NoFillers(t) /\ x # Filler => Speech(Append(t, x)) = t \o <<x>>
    BY <2>1, SpeechAppend
  <2>4. t \o <<x>> = Append(t, x)  BY <2>1, AppendIsConcat
  <2> HIDE DEF NoFillers
  <2> QED  BY <2>1, <2>2, <2>3, <2>4
<1>3. T \in SUBSET Seq(Frames)  OBVIOUS
<1> HIDE DEF T
<1>4. T = Seq(Frames)  BY <1>1, <1>2, <1>3, SeqInduct
<1> QED  BY <1>4 DEF T

\* There is no more speech than there are frames.
LEMMA SpeechShorter ==
  ASSUME NEW s \in Seq(Frames)
  PROVE  Len(Speech(s)) <= Len(s)
<1> DEFINE T == {t \in Seq(Frames) : Len(Speech(t)) <= Len(t)}
<1>1. <<>> \in T
  <2>1. <<>> \in Seq(Frames) /\ Len(<<>>) = 0  OBVIOUS
  <2> QED  BY <2>1, SpeechEmpty
<1>2. ASSUME NEW t \in T, NEW x \in Frames PROVE Append(t, x) \in T
  <2>1. t \in Seq(Frames) /\ Append(t, x) \in Seq(Frames) /\ Len(Append(t, x)) = Len(t) + 1
    BY AppendProperties
  <2>2. PICK e \in Seq(Frames) : Speech(Append(t, x)) = Speech(t) \o e /\ Len(e) <= 1
    <3> DEFINE c == IF x = Filler THEN <<>> ELSE <<x>>
    <3>1. c \in Seq(Frames) /\ Len(c) <= 1  OBVIOUS
    <3>2. Speech(Append(t, x)) = Speech(t) \o c  BY <2>1, SpeechAppend
    <3> QED  BY <3>1, <3>2
  <2>3. Speech(t) \in Seq(Frames)  BY <2>1, CellsOf
  <2>4. /\ Len(Speech(t) \o e) = Len(Speech(t)) + Len(e)
        /\ Len(Speech(t)) \in Nat /\ Len(e) \in Nat /\ Len(t) \in Nat
    BY <2>1, <2>3, ConcatProperties
  <2>5. Len(Speech(Append(t, x))) <= Len(Append(t, x))
    BY <2>1, <2>2, <2>4
  <2> QED  BY <2>1, <2>5
<1>3. T \in SUBSET Seq(Frames)  OBVIOUS
<1> HIDE DEF T
<1>4. T = Seq(Frames)  BY <1>1, <1>2, <1>3, SeqInduct
<1> QED  BY <1>4 DEF T

-----------------------------------------------------------------------------
(* Frames in the order they were spoken in. *)

\* The frames of s were spoken one after the other, and are among the first hi.
Ascending(s, hi) ==
  \A i \in 1 .. Len(s) : /\ s[i] \in 1 .. hi
                         /\ \A j \in 1 .. i - 1 : s[j] < s[i]

\* Those of s that are among the first m are no more than n, and come first.
OldFirst(s, m, n) == \A i \in 1 .. Len(s) : s[i] > m \/ i <= n

\* No frames are in order.
LEMMA AscendingNone ==
  ASSUME NEW hi, NEW m, NEW n
  PROVE  Ascending(<<>>, hi) /\ OldFirst(<<>>, m, n)
BY DEF Ascending, OldFirst

\* More that is spoken does no harm.
LEMMA AscendingWidened ==
  ASSUME NEW s \in Seq(Frames), NEW a \in Nat, NEW b \in Nat, Ascending(s, a), a <= b
  PROVE  Ascending(s, b)
BY DEF Ascending

\* The items of two sequences, one behind the other.
LEMMA ItemsOfConcat ==
  ASSUME NEW s \in Seq(Frames), NEW t \in Seq(Frames)
  PROVE  /\ s \o t \in Seq(Frames)
         /\ Len(s \o t) = Len(s) + Len(t) /\ Len(s) \in Nat /\ Len(t) \in Nat
         /\ \A i \in 1 .. Len(s) : (s \o t)[i] = s[i]
         /\ \A i \in 1 .. Len(t) : (s \o t)[Len(s) + i] = t[i]
BY ConcatProperties

\* The parts of an order are in order.
LEMMA AscendingParts ==
  ASSUME NEW s \in Seq(Frames), NEW t \in Seq(Frames), NEW hi, Ascending(s \o t, hi)
  PROVE  Ascending(s, hi) /\ Ascending(t, hi)
<1>1. PICK u : u = s \o t  OBVIOUS
<1>2. /\ Len(u) = Len(s) + Len(t) /\ Len(s) \in Nat /\ Len(t) \in Nat
      /\ \A i \in 1 .. Len(s) : u[i] = s[i]
      /\ \A i \in 1 .. Len(t) : u[Len(s) + i] = t[i]
  BY <1>1, ItemsOfConcat
<1>3. Ascending(u, hi)  BY <1>1
<1>4. Ascending(s, hi)  BY <1>2, <1>3 DEF Ascending
<1>5. ASSUME NEW i \in 1 .. Len(t)
      PROVE  t[i] \in 1 .. hi /\ \A j \in 1 .. i - 1 : t[j] < t[i]
  <2>1. Len(s) + i \in 1 .. Len(u)  BY <1>2
  <2>2. u[Len(s) + i] \in 1 .. hi /\ \A k \in 1 .. (Len(s) + i) - 1 : u[k] < u[Len(s) + i]
    BY <1>3, <2>1 DEF Ascending
  <2>3. ASSUME NEW j \in 1 .. i - 1 PROVE t[j] < t[i]
    <3>1. Len(s) + j \in 1 .. (Len(s) + i) - 1 /\ j \in 1 .. Len(t)  BY <1>2
    <3> QED  BY <1>2, <2>2, <3>1
  <2> QED  BY <1>2, <2>2, <2>3
<1>6. Ascending(t, hi)  BY <1>5 DEF Ascending
<1> QED  BY <1>4, <1>6

\* A first part has no more old frames than the whole.
LEMMA OldFirstPart ==
  ASSUME NEW s \in Seq(Frames), NEW t \in Seq(Frames), NEW m, NEW n, OldFirst(s \o t, m, n)
  PROVE  OldFirst(s, m, n)
<1>1. PICK u : u = s \o t  OBVIOUS
<1>2. /\ Len(u) = Len(s) + Len(t) /\ Len(s) \in Nat /\ Len(t) \in Nat
      /\ \A i \in 1 .. Len(s) : u[i] = s[i]
  BY <1>1, ItemsOfConcat
<1>3. OldFirst(u, m, n)  BY <1>1
<1> QED  BY <1>2, <1>3 DEF OldFirst

\* The next n frames behind the first m.
Following(m, n) == [i \in 1 .. n |-> m + i]

\* They are n frames.
LEMMA FollowingIs ==
  ASSUME NEW m \in Nat, NEW n \in Nat
  PROVE  /\ Following(m, n) \in Seq(Frames) /\ Len(Following(m, n)) = n
         /\ \A i \in 1 .. n : Following(m, n)[i] = m + i
BY DEF Following, Frames

\* Behind frames among the first m, the next n are in order.
LEMMA AscendingMore ==
  ASSUME NEW s \in Seq(Frames), NEW m \in Nat, NEW n \in Nat, Ascending(s, m)
  PROVE  Ascending(s \o Following(m, n), m + n)
<1>1. PICK t, u : t = Following(m, n) /\ u = s \o t  OBVIOUS
<1>2. t \in Seq(Frames) /\ Len(t) = n /\ \A i \in 1 .. n : t[i] = m + i
  BY <1>1, FollowingIs
<1>3. /\ Len(u) = Len(s) + n /\ Len(s) \in Nat
      /\ \A i \in 1 .. Len(s) : u[i] = s[i]
      /\ \A i \in 1 .. n : u[Len(s) + i] = m + i
  <2>1. /\ Len(s \o t) = Len(s) + Len(t) /\ Len(s) \in Nat
        /\ \A i \in 1 .. Len(s) : (s \o t)[i] = s[i]
        /\ \A i \in 1 .. Len(t) : (s \o t)[Len(s) + i] = t[i]
    BY <1>2, ItemsOfConcat
  <2> QED  BY <1>1, <1>2, <2>1
<1>4. ASSUME NEW i \in 1 .. Len(u)
      PROVE  u[i] \in 1 .. m + n /\ \A j \in 1 .. i - 1 : u[j] < u[i]
  <2>1. CASE i <= Len(s)
    <3>1. i \in 1 .. Len(s) /\ \A j \in 1 .. i - 1 : j \in 1 .. Len(s)  BY <1>3, <2>1
    <3>2. s[i] \in 1 .. m /\ \A j \in 1 .. i - 1 : s[j] < s[i]  BY <3>1 DEF Ascending
    <3> QED  BY <1>3, <3>1, <3>2
  <2>2. CASE i > Len(s)
    <3>1. PICK k \in 1 .. n : i = Len(s) + k  BY <1>3, <2>2
    <3>2. u[i] = m + k  BY <1>3, <3>1
    <3>3. ASSUME NEW j \in 1 .. i - 1 PROVE u[j] < u[i]
      <4>1. CASE j <= Len(s)
        <5>1. j \in 1 .. Len(s)  BY <4>1
        <5>2. u[j] = s[j] /\ s[j] \in 1 .. m  BY <1>3, <5>1 DEF Ascending
        <5> QED  BY <3>2, <5>2
      <4>2. CASE j > Len(s)
        <5>1. PICK h \in 1 .. n : j = Len(s) + h
          <6>1. j - Len(s) \in 1 .. n /\ j = Len(s) + (j - Len(s))  BY <1>3, <3>1, <4>2
          <6> QED  BY <6>1
        <5>2. u[j] = m + h /\ h < k  BY <1>3, <3>1, <5>1
        <5> QED  BY <3>2, <5>2
      <4> QED  BY <1>3, <4>1, <4>2
    <3> QED  BY <3>2, <3>3
  <2> QED  BY <1>3, <2>1, <2>2
<1>5. Ascending(u, m + n)  BY <1>4 DEF Ascending
<1> QED  BY <1>1, <1>5

\* Later frames are no old ones.
LEMMA OldFirstMore ==
  ASSUME NEW s \in Seq(Frames), NEW m \in Nat, NEW n \in Nat, NEW b \in Nat, NEW k, b <= m,
         OldFirst(s, b, k)
  PROVE  OldFirst(s \o Following(m, n), b, k)
<1>1. PICK t, u : t = Following(m, n) /\ u = s \o t  OBVIOUS
<1>2. t \in Seq(Frames) /\ Len(t) = n /\ \A i \in 1 .. n : t[i] = m + i
  BY <1>1, FollowingIs
<1>3. /\ Len(u) = Len(s) + n /\ Len(s) \in Nat
      /\ \A i \in 1 .. Len(s) : u[i] = s[i]
      /\ \A i \in 1 .. n : u[Len(s) + i] = m + i
  <2>1. /\ Len(s \o t) = Len(s) + Len(t) /\ Len(s) \in Nat
        /\ \A i \in 1 .. Len(s) : (s \o t)[i] = s[i]
        /\ \A i \in 1 .. Len(t) : (s \o t)[Len(s) + i] = t[i]
    BY <1>2, ItemsOfConcat
  <2> QED  BY <1>1, <1>2, <2>1
<1>4. ASSUME NEW i \in 1 .. Len(u) PROVE u[i] > b \/ i <= k
  <2>1. CASE i <= Len(s)
    <3>1. i \in 1 .. Len(s)  BY <2>1
    <3> QED  BY <1>3, <3>1 DEF OldFirst
  <2>2. CASE i > Len(s)
    <3>1. PICK h \in 1 .. n : i = Len(s) + h
      <4>1. i - Len(s) \in 1 .. n /\ i = Len(s) + (i - Len(s))  BY <1>3, <2>2
      <4> QED  BY <4>1
    <3>2. u[i] = m + h  BY <1>3, <3>1
    <3> QED  BY <3>2
  <2>3. i \in Nat  BY <1>3
  <2> QED  BY <1>3, <2>1, <2>2, <2>3
<1>5. OldFirst(u, b, k)  BY <1>4 DEF OldFirst
<1> QED  BY <1>1, <1>5

\* What was spoken is speech.
LEMMA AscendingIsSpeech ==
  ASSUME NEW s \in Seq(Frames), NEW hi, Ascending(s, hi)
  PROVE  Speech(s) = s
<1>1. \A i \in 1 .. Len(s) : s[i] # Filler  BY DEF Ascending, Filler
<1> QED  BY <1>1, SpeechIsAll

\* Behind the first m frames of a call, of which b were spoken before, and the next n.
LEMMA FollowingContinues ==
  ASSUME NEW b \in Nat, NEW m \in Nat, NEW n \in Nat
  PROVE  Following(b, m) \o Following(b + m, n) = Following(b, m + n)
<1>1. PICK a, c, d : a = Following(b, m) /\ c = Following(b + m, n) /\ d = Following(b, m + n)
  OBVIOUS
<1>2. /\ a \in Seq(Frames) /\ Len(a) = m /\ \A i \in 1 .. m : a[i] = b + i
      /\ c \in Seq(Frames) /\ Len(c) = n /\ \A i \in 1 .. n : c[i] = b + m + i
      /\ d \in Seq(Frames) /\ Len(d) = m + n /\ \A i \in 1 .. m + n : d[i] = b + i
  <2>1. b + m \in Nat /\ m + n \in Nat  OBVIOUS
  <2> QED  BY <1>1, <2>1, FollowingIs
<1>3. PICK e : e = a \o c  OBVIOUS
<1>4. /\ e \in Seq(Frames) /\ Len(e) = m + n
      /\ \A i \in 1 .. m : e[i] = a[i]
      /\ \A i \in 1 .. n : e[m + i] = c[i]
  BY <1>2, <1>3, ItemsOfConcat
<1>5. \A i \in 1 .. m + n : e[i] = d[i]
  <2> SUFFICES ASSUME NEW i \in 1 .. m + n PROVE e[i] = d[i]
    OBVIOUS
  <2>1. CASE i <= m
    <3>1. i \in 1 .. m  BY <2>1
    <3> QED  BY <1>2, <1>4, <3>1
  <2>2. CASE i > m
    <3>1. i - m \in 1 .. n /\ m + (i - m) = i  BY <2>2
    <3>2. e[i] = c[i - m] /\ c[i - m] = b + m + (i - m)  BY <1>2, <1>4, <3>1
    <3>3. d[i] = b + i  BY <1>2
    <3> QED  BY <3>2, <3>3
  <2> QED  BY <2>1, <2>2
<1>6. e = d  BY <1>2, <1>4, <1>5, SeqEqual
<1> QED  BY <1>1, <1>3, <1>6

-----------------------------------------------------------------------------
(* Types. *)

\* TypeOK, without the bound on index, which needs the rest of the invariant.
Types ==
  /\ realtime \in Modes /\ reset_period \in Periods
  /\ pc \in Points
  /\ call \in 0 .. MaxCalls /\ len \in Lengths \cup {0} /\ spoken \in Nat /\ left \in Nat
  /\ offset \in Nat /\ last_position \in Nat /\ index \in Nat
  /\ front \in Seq(Frames) /\ feature_vector \in Seq(Frames)
  /\ laser \in Seq(Frames) /\ kept \in Seq(Frames)
  /\ result \in Seq(Pieces)
  /\ fed \in Seq(Frames) /\ heard \in Seq(Frames)

\* Numbers are numbers.
LEMMA Numeric ==
  ASSUME Types
  PROVE  call \in Nat /\ len \in Nat /\ ReadSize \in Nat \ {0} /\ Stack \in Nat /\ Silence \in Nat
BY DecodeAssumption DEF Types

\* A chunk is the part of the recording behind the first offset frames.
LEMMA ChunkIs ==
  ASSUME Types, offset < len
  PROVE  /\ Chunk \in Seq(Frames) /\ Len(Chunk) = rsize
         /\ rsize \in Nat \ {0}
         /\ offset + rsize = IF offset + ReadSize > len THEN len ELSE offset + ReadSize
         /\ Chunk = Following(spoken + offset, rsize)
<1>1. offset \in Nat /\ len \in Nat /\ spoken \in Nat /\ ReadSize \in Nat \ {0}
  BY Numeric DEF Types
<1>2. /\ rsize \in Nat \ {0}
      /\ offset + rsize = IF offset + ReadSize > len THEN len ELSE offset + ReadSize
  BY <1>1 DEF rsize
<1>3. PICK m \in Nat, n \in Nat : m = spoken + offset /\ n = rsize  BY <1>1, <1>2
<1>4. Chunk = Following(m, n)  BY <1>3 DEF Chunk, Following
<1> QED  BY <1>2, <1>3, <1>4, FollowingIs

\* What the front end gives, and what it keeps, are frames.
LEMMA GivenTypes ==
  ASSUME NEW held \in Seq(Frames), NEW stack \in Seq(Frames), GiveFrames(held, stack)
  PROVE  front' \in Seq(Frames) /\ feature_vector' \in Seq(Frames)
<1>1. PICK n \in 0 .. Len(held) :
        /\ front' \in {<<>>, SubSeq(held, n + 1, Len(held))}
        /\ feature_vector' = IF n = 0 THEN <<>> ELSE stack \o SubSeq(held, 1, n)
  BY DEF GiveFrames
<1>2. /\ SubSeq(held, n + 1, Len(held)) \in Seq(Frames)
      /\ SubSeq(held, 1, n) \in Seq(Frames)
  OBVIOUS
<1>3. stack \o SubSeq(held, 1, n) \in Seq(Frames) /\ <<>> \in Seq(Frames)
  BY <1>2, ConcatProperties
<1> QED  BY <1>1, <1>2, <1>3

\* Fillers are frames, as many as they are, and no speech.
LEMMA FillersIs ==
  ASSUME NEW n \in Nat
  PROVE  Fillers(n) \in Seq(Frames) /\ Len(Fillers(n)) = n /\ Speech(Fillers(n)) = <<>>
<1>1. /\ Fillers(n) \in Seq(Frames) /\ Len(Fillers(n)) = n
      /\ \A i \in 1 .. n : Fillers(n)[i] = Filler
  BY DEF Fillers, Filler, Frames
<1> QED  BY <1>1, SpeechOfFillers

\* What fills the stack, or does not.
LEMMA StackIs ==
  /\ Fillers(Stack) \in Seq(Frames) /\ Len(Fillers(Stack)) = Stack
  /\ Speech(Fillers(Stack)) = <<>>
  /\ <<>> \in Seq(Frames) /\ Speech(<<>>) = <<>>
<1>1. <<>> \in Seq(Frames)  OBVIOUS
<1> QED  BY <1>1, FillersIs, SpeechEmpty, DecodeAssumption

\* A chunk more leaves frames in the front end and in the batch.
LEMMA TypesOfStepFrame ==
  ASSUME Types, NEW stack \in Seq(Frames), StepFrame(stack)
  PROVE  front' \in Seq(Frames) /\ feature_vector' \in Seq(Frames) /\ fed' \in Seq(Frames)
<1>1. Chunk \in Seq(Frames)  BY ChunkIs DEF StepFrame
<1>2. fed \o Chunk \in Seq(Frames) /\ front \o Chunk \in Seq(Frames) /\ <<>> \in Seq(Frames)
  BY <1>1, ConcatProperties DEF Types
<1> QED  BY <1>2, GivenTypes DEF StepFrame

\* What the decoder holds and has heard are frames, whatever frames it takes.
LEMMA TypesOfTake ==
  ASSUME Types, NEW frames \in Seq(Frames), Take(frames)
  PROVE  laser' \in Seq(Frames) /\ heard' \in Seq(Frames)
<1>1. Speech(frames) \in Seq(Frames)  BY CellsOf
<1>2. laser \o frames \in Seq(Frames) /\ heard \o Speech(frames) \in Seq(Frames)
  BY <1>1, ConcatProperties DEF Types
<1> QED  BY <1>2 DEF Take

\* Silence is frames, and leaves the speech that the decoder holds as it is.
LEMMA QuietIs ==
  ASSUME Types, NEW n \in Nat, Quiet(n)
  PROVE  laser' \in Seq(Frames) /\ Speech(laser') = Speech(laser)
<1>1. laser \in Seq(Frames)  BY DEF Types
<1>2. Fillers(n) \in Seq(Frames) /\ Speech(Fillers(n)) = <<>>  BY FillersIs
<1>3. Speech(laser) \in Seq(Frames)  BY <1>1, CellsOf
<1>4. laser \o Fillers(n) \in Seq(Frames)  BY <1>1, <1>2, ConcatProperties
<1>5. Speech(laser \o Fillers(n)) = Speech(laser) \o <<>>  BY <1>1, <1>2, SpeechConcat
<1>6. Speech(laser) \o <<>> = Speech(laser)  BY <1>3, ConcatEmptySeq
<1> QED  BY <1>4, <1>5, <1>6 DEF Quiet

\* So is the silence of a result that fails.
LEMMA NoResultIs ==
  ASSUME Types, NoResult
  PROVE  laser' \in Seq(Frames) /\ Speech(laser') = Speech(laser)
<1>1. PICK n \in 0 .. Silence : Quiet(n)  BY DEF NoResult
<1>2. n \in Nat  BY DecodeAssumption
<1> QED  BY <1>1, <1>2, QuietIs

\* A result is a piece, with times that are natural numbers.
LEMMA TypesOfResult ==
  ASSUME Types, AdjustedResult
  PROVE  /\ result' \in Seq(Pieces) /\ last_position' \in Nat
         /\ laser' \in Seq(Frames) /\ Speech(laser') = Speech(laser)
         /\ \E end \in Ends : /\ Piece(last_position, last_position + end) \in Pieces
                              /\ result' = Append(result, Piece(last_position, last_position + end))
                              /\ last_position' = last_position + end
                              /\ end \in Nat
<1>1. PICK end \in Ends :
        /\ result' = Append(result, Piece(last_position, last_position + end))
        /\ last_position' = last_position + end
  BY DEF AdjustedResult
<1>2. end \in Nat  BY Numeric DEF Ends, Types
<1>3. Piece(last_position, last_position + end) \in Pieces
  <2>1. Speech(laser) \in Seq(Frames) /\ kept \in Seq(Frames)  BY CellsOf DEF Types
  <2>2. last_position \in Nat /\ last_position + end \in Nat  BY <1>2 DEF Types
  <2> QED  BY <2>1, <2>2 DEF Piece, Pieces
<1>4. result \in Seq(Pieces) /\ last_position \in Nat  BY DEF Types
<1>5. Append(result, Piece(last_position, last_position + end)) \in Seq(Pieces)
  BY <1>3, <1>4, AppendProperties
<1>6. laser' \in Seq(Frames) /\ Speech(laser') = Speech(laser)
  <2>1. Quiet(Silence)  BY DEF AdjustedResult
  <2> QED  BY <2>1, QuietIs, DecodeAssumption
<1> QED  BY <1>1, <1>2, <1>3, <1>4, <1>5, <1>6

\* The variables keep their types.
LEMMA TypesStep == ASSUME Types, [Next]_vars PROVE Types'
<1> USE DEF Goto, history, locals, engine
<1>1. CASE UNCHANGED vars  BY <1>1 DEF vars, Types
<1>2. CASE SetResetPeriod  BY <1>2 DEF SetResetPeriod, Types
<1>3. ASSUME NEW n \in Lengths, Call(n) PROVE Types'
  <2>1. call + 1 \in 0 .. MaxCalls
    <3>1. call \in 0 .. MaxCalls /\ call < MaxCalls /\ MaxCalls \in Nat
      BY <1>3, DecodeAssumption DEF Call, Types
    <3> QED  BY <3>1
  <2>2. front' \in Seq(Frames) /\ laser' \in Seq(Frames) /\ kept' \in Seq(Frames)
    <3>1. <<>> \in Seq(Frames)  OBVIOUS
    <3> QED  BY <1>3, <3>1 DEF Call, Types
  <2> QED  BY <1>3, <2>1, <2>2 DEF Call, Types, Points
<1>4. CASE Run
  <2>0. ReadSize \in Nat /\ <<>> \in Seq(Frames) /\ <<>> \in Seq(Pieces) /\ offset + ReadSize \in Nat
    BY Numeric DEF Types
  <2>1. CASE Reset
    <3>1. kept \o Speech(laser) \in Seq(Frames)
      <4>1. kept \in Seq(Frames) /\ Speech(laser) \in Seq(Frames)  BY CellsOf DEF Types
      <4> QED  BY <4>1, ConcatProperties
    <3>2. kept' \in Seq(Frames)  BY <2>0, <2>1, <3>1 DEF Reset
    <3>3. front' \in Seq(Frames)  BY <2>0, <2>1 DEF Reset, Types
    <3>4. left' \in Nat
      <4>1. left' = Len(front')  BY <2>1 DEF Reset
      <4> QED  BY <3>3, <4>1
    <3> QED  BY <2>0, <2>1, <3>2, <3>3, <3>4 DEF Reset, Types, Points
  <2>2. CASE ReadFirst
    <3>1. Fillers(Stack) \in Seq(Frames) /\ StepFrame(Fillers(Stack))
      BY <2>2, StackIs DEF ReadFirst
    <3>2. front' \in Seq(Frames) /\ feature_vector' \in Seq(Frames) /\ fed' \in Seq(Frames)
      BY <3>1, TypesOfStepFrame
    <3>3. offset' \in Nat /\ pc' \in Points  BY <2>0, <2>2 DEF ReadFirst, Types, Points
    <3> QED  BY <2>2, <3>2, <3>3 DEF ReadFirst, Types
  <2>3. CASE Read
    <3>1. StepFrame(<<>>)  BY <2>3 DEF Read
    <3>2. front' \in Seq(Frames) /\ feature_vector' \in Seq(Frames) /\ fed' \in Seq(Frames)
      BY <2>0, <3>1, TypesOfStepFrame
    <3>3. offset' \in Nat /\ pc' \in Points  BY <2>0, <2>3 DEF Read, Types, Points
    <3> QED  BY <2>3, <3>2, <3>3 DEF Read, Types
  <2>4. ASSUME TakeBatch
        PROVE  laser' \in Seq(Frames) /\ heard' \in Seq(Frames) /\ index' \in Nat
    <3>1. feature_vector \in Seq(Frames) /\ index \in Nat  BY DEF Types
    <3>2. index + Len(feature_vector) \in Nat  BY <3>1
    <3> QED  BY <2>4, <3>1, <3>2, TypesOfTake DEF TakeBatch
  <2>5. CASE StepFirst
    <3>1. laser' \in Seq(Frames) /\ heard' \in Seq(Frames) /\ index' \in Nat
      BY <2>4, <2>5 DEF StepFirst
    <3> QED  BY <2>0, <2>5, <3>1 DEF StepFirst, Types, Points
  <2>6. CASE Step
    <3>1. laser' \in Seq(Frames) /\ heard' \in Seq(Frames) /\ index' \in Nat
      BY <2>4, <2>6 DEF Step
    <3>2. offset' \in Nat /\ pc' \in Points  BY <2>0, <2>6 DEF Step, Types, Points
    <3> QED  BY <2>6, <3>1, <3>2 DEF Step, Types
  <2>7. CASE StepFlush
    <3>1. laser' \in Seq(Frames) /\ heard' \in Seq(Frames) /\ index' \in Nat
      BY <2>4, <2>7 DEF StepFlush
    <3> QED  BY <2>7, <3>1 DEF StepFlush, Types, Points
  <2>8. CASE NoFirst  BY <2>0, <2>8 DEF NoFirst, Types, Points
  <2>9. CASE StepFails
    <3>1. PICK n \in 0 .. Len(feature_vector) - 1 : Take(SubSeq(feature_vector, 1, n))
      BY <2>9 DEF StepFails
    <3>2. SubSeq(feature_vector, 1, n) \in Seq(Frames)
      <4>1. feature_vector \in Seq(Frames)  BY DEF Types
      <4>2. \A i \in 1 .. n : feature_vector[i] \in Frames  BY <4>1
      <4> QED  BY <4>2, SubSeqProperties
    <3>3. laser' \in Seq(Frames) /\ heard' \in Seq(Frames)  BY <3>1, <3>2, TypesOfTake
    <3>4. pc' \in Points  BY <2>9 DEF StepFails, Points
    <3> QED  BY <2>9, <3>3, <3>4 DEF StepFails, Types
  <2>10. CASE Final
    <3>1. result' \in Seq(Pieces) /\ last_position' \in Nat /\ laser' \in Seq(Frames)
      BY <2>10, TypesOfResult DEF Final
    <3> QED  BY <2>10, <3>1 DEF Final, Types, Points
  <2>11. CASE FinalFails \/ Clear \/ ClearFails
    <3>1. CASE FinalFails
      <4>1. laser' \in Seq(Frames)  BY <3>1, NoResultIs DEF FinalFails
      <4> QED  BY <2>0, <3>1, <4>1 DEF FinalFails, NoResult, Types, Points
    <3>2. CASE Clear  BY <2>0, <3>2 DEF Clear, Types, Points
    <3>3. CASE ClearFails  BY <2>0, <3>3 DEF ClearFails, Types, Points
    <3> QED  BY <2>11, <3>1, <3>2, <3>3
  <2>12. CASE Flush
    <3>1. front' \in Seq(Frames) /\ feature_vector' \in Seq(Frames)
      BY <2>0, <2>12, GivenTypes DEF Flush, Types
    <3> QED  BY <2>12, <3>1 DEF Flush, Types, Points
  <2>13. CASE LastResult
    <3>1. result' \in Seq(Pieces) /\ last_position' \in Nat /\ laser' \in Seq(Frames)
      BY <2>13, TypesOfResult DEF LastResult, Types
    <3> QED  BY <2>13, <3>1 DEF LastResult, Types, Points
  <2>14. CASE LastResultFails
    <3>1. laser' \in Seq(Frames)  BY <2>14, NoResultIs DEF LastResultFails
    <3> QED  BY <2>14, <3>1 DEF LastResultFails, NoResult, Types, Points
  <2>15. CASE Return
    <3>1. spoken' \in Nat  BY <2>15, Numeric DEF Return, Types
    <3> QED  BY <2>0, <2>15, <3>1 DEF Return, Types, Points
  <2> QED  BY <1>4, <2>1, <2>2, <2>3, <2>5, <2>6, <2>7, <2>8, <2>9, <2>10, <2>11, <2>12,
              <2>13, <2>14, <2>15 DEF Run
<1> QED  BY <1>1, <1>2, <1>3, <1>4 DEF Next

-----------------------------------------------------------------------------
(* Where a call is, and what it has not done yet. *)

\* Before its first batch a call has counted, heard and said nothing.
Control ==
  /\ pc \in {"idle", "reset"} => offset = 0 /\ fed = <<>>
  /\ pc \in {"idle", "reset", "first", "step_first"} =>
       index = 0 /\ last_position = 0 /\ result = <<>> /\ heard = <<>>
  /\ pc \in {"first", "step_first"} => laser = <<>>

\* Every step keeps the order of the phases of a call.
LEMMA ControlStep == ASSUME Types, Control, [Next]_vars PROVE Control'
<1> USE DEF Goto, history, locals, engine
<1>1. CASE UNCHANGED vars  BY <1>1 DEF vars, Control
<1>2. CASE SetResetPeriod  BY <1>2 DEF SetResetPeriod, Control
<1>3. ASSUME NEW n \in Lengths, Call(n) PROVE Control'
  BY <1>3, Numeric DEF Call, Control
<1>4. CASE Run
  <2>1. CASE Reset  BY <2>1 DEF Reset, Control
  <2>2. CASE ReadFirst \/ StepFirst \/ NoFirst
    BY <2>2 DEF ReadFirst, StepFirst, NoFirst, Control
  <2>3. CASE Read  BY <2>3 DEF Read, Control
  <2>4. CASE Step  BY <2>4 DEF Step, Control
  <2>5. CASE StepFails
    <3>1. pc' = "failed"  BY <2>5 DEF StepFails
    <3> QED  BY <3>1 DEF Control
  <2>6. CASE Final \/ FinalFails \/ Clear \/ ClearFails
    BY <2>6 DEF Final, FinalFails, NoResult, Clear, ClearFails, Control
  <2>7. CASE Flush \/ StepFlush \/ LastResult \/ LastResultFails
    BY <2>7 DEF Flush, StepFlush, LastResult, LastResultFails, NoResult, Control
  <2>8. CASE Return  BY <2>8 DEF Return, Control
  <2> QED  BY <1>4, <2>1, <2>2, <2>3, <2>4, <2>5, <2>6, <2>7, <2>8 DEF Run
<1> QED  BY <1>1, <1>2, <1>3, <1>4 DEF Next

-----------------------------------------------------------------------------
(* What the pieces of text were recognised from. *)

\* Said, as a function of the pieces.
SaidOf(res) == FlattenSeq([i \in DOMAIN res |-> res[i].frames])

\* The frames of the pieces, piece by piece.
TextsOf(res) == [i \in DOMAIN res |-> res[i].frames]

\* The frames of the pieces are sequences of frames, and make one.
LEMMA TextsIs ==
  ASSUME NEW res \in Seq(Pieces)
  PROVE  TextsOf(res) \in Seq(Items(Frames)) /\ SaidOf(res) \in Seq(Frames)
<1>1. DOMAIN res = 1 .. Len(res) /\ Len(res) \in Nat  OBVIOUS
<1>2. \A i \in 1 .. Len(res) : res[i].frames \in Items(Frames)
  <2>1. \A i \in 1 .. Len(res) : res[i] \in Pieces  OBVIOUS
  <2> QED  BY <2>1 DEF Pieces, Items
<1>3. TextsOf(res) \in Seq(Items(Frames))
  <2> DEFINE T == Items(Frames)
  <2>1. \A i \in 1 .. Len(res) : res[i].frames \in T  BY <1>2
  <2>2. TextsOf(res) = [i \in 1 .. Len(res) |-> res[i].frames]  BY <1>1 DEF TextsOf
  <2> HIDE DEF T
  <2>3. [i \in 1 .. Len(res) |-> res[i].frames] \in Seq(T)  BY <1>1, <2>1
  <2> QED  BY <2>2, <2>3 DEF T
<1> QED  BY <1>3, FlattenType DEF SaidOf, TextsOf

\* No pieces, nothing said.
LEMMA SaidOfNone == SaidOf(<<>>) = <<>>
<1>1. [i \in DOMAIN <<>> |-> <<>>[i].frames] = <<>>  OBVIOUS
<1> QED  BY <1>1, FlattenEmpty DEF SaidOf

\* A piece more is its frames more.
LEMMA SaidOfMore ==
  ASSUME NEW res \in Seq(Pieces), NEW p \in Pieces
  PROVE  SaidOf(Append(res, p)) = SaidOf(res) \o p.frames
<1> DEFINE T == Items(Frames)
<1>1. p.frames \in Seq(Frames)  BY DEF Pieces
<1>2. p.frames \in T /\ TextsOf(res) \in Seq(T)  BY <1>1, TextsIs DEF Items
<1>3. PICK more : more = Append(res, p)  OBVIOUS
<1>4. more \in Seq(Pieces) /\ Len(more) = Len(res) + 1 /\ Len(res) \in Nat
      /\ more[Len(res) + 1] = p /\ \A i \in 1 .. Len(res) : more[i] = res[i]
  BY <1>3, AppendProperties
<1>5. TextsOf(more) \in Seq(T)  BY <1>4, TextsIs
<1> HIDE DEF T
<1>6. PICK a, b, x : a = TextsOf(res) /\ b = TextsOf(more) /\ x = p.frames  OBVIOUS
<1>7. /\ a \in Seq(T) /\ Len(a) = Len(res) /\ \A i \in 1 .. Len(res) : a[i] = res[i].frames
      /\ b \in Seq(T) /\ Len(b) = Len(res) + 1
      /\ \A i \in 1 .. Len(res) + 1 : b[i] = more[i].frames
  <2>1. Len(a) = Len(res) /\ \A i \in 1 .. Len(res) : a[i] = res[i].frames
    BY <1>6 DEF TextsOf
  <2>2. Len(b) = Len(more) /\ \A i \in 1 .. Len(more) : b[i] = more[i].frames
    BY <1>4, <1>6 DEF TextsOf
  <2> QED  BY <1>2, <1>4, <1>5, <1>6, <2>1, <2>2
<1>8. b = Append(a, x)
  <2>1. x \in T  BY <1>2, <1>6
  <2>2. /\ Append(a, x) \in Seq(T) /\ Len(Append(a, x)) = Len(a) + 1
        /\ Append(a, x)[Len(a) + 1] = x
        /\ \A i \in 1 .. Len(a) : Append(a, x)[i] = a[i]
    BY <1>7, <2>1, AppendProperties
  <2>3. \A i \in 1 .. Len(b) : b[i] = Append(a, x)[i]
    BY <1>4, <1>6, <1>7, <2>2
  <2> QED  BY <1>4, <1>7, <2>2, <2>3, SeqEqual
<1>9. FlattenSeq(Append(a, x)) = FlattenSeq(a) \o x
  BY <1>1, <1>6, <1>7, FlattenAppend DEF T
<1> QED  BY <1>3, <1>6, <1>8, <1>9 DEF SaidOf, TextsOf

\* What a result adds to what has been said.
LEMMA ResultSays ==
  ASSUME Types, AdjustedResult
  PROVE  SaidOf(result') = SaidOf(result) \o Speech(laser)
<1>1. PICK end \in Ends :
        /\ Piece(last_position, last_position + end) \in Pieces
        /\ result' = Append(result, Piece(last_position, last_position + end))
  BY TypesOfResult
<1>2. Piece(last_position, last_position + end).frames = Speech(laser)  BY DEF Piece
<1>3. result \in Seq(Pieces)  BY DEF Types
<1> QED  BY <1>1, <1>2, <1>3, SaidOfMore

-----------------------------------------------------------------------------
(* What is heard is what has been said and what the decoder has taken since. *)

\* Where feature_vector holds frames that the decoder has not been given.
Batch == {"step_first", "step", "step_flush"}
\* Where the decoder may hold frames that no piece has been recognised from.
Loops == {"first", "loop", "final", "last"} \cup Batch

\* In the loops, what is heard is what has been said and what the decoder took since;
\* behind a result, and at the end, everything heard has been said.
Heard ==
  /\ pc \in Loops => heard = SaidOf(result) \o Speech(laser)
  /\ pc \in {"clear", "done"} => heard = SaidOf(result)

\* index counts the frames of speech that the decoder has taken since its reset.
Counted == pc \in Loops => Len(Speech(laser)) <= index

\* The frames that the decoder takes are heard.
LEMMA BatchHeard ==
  ASSUME Types, NEW frames \in Seq(Frames), Take(frames),
         heard = SaidOf(result) \o Speech(laser)
  PROVE  heard' = SaidOf(result) \o Speech(laser')
<1>1. laser \in Seq(Frames) /\ result \in Seq(Pieces)  BY DEF Types
<1>2. /\ SaidOf(result) \in Seq(Frames) /\ Speech(laser) \in Seq(Frames)
      /\ Speech(frames) \in Seq(Frames)
  BY <1>1, TextsIs, CellsOf
<1>3. Speech(laser \o frames) = Speech(laser) \o Speech(frames)  BY <1>1, SpeechConcat
<1>4. PICK a, b, d : a = SaidOf(result) /\ b = Speech(laser) /\ d = Speech(frames)  OBVIOUS
<1>5. (a \o b) \o d = a \o (b \o d)
  <2>1. a \in Seq(Frames) /\ b \in Seq(Frames) /\ d \in Seq(Frames)  BY <1>2, <1>4
  <2> QED  BY <2>1, ConcatAssociative
<1> QED  BY <1>3, <1>4, <1>5 DEF Take

\* Every step keeps what is heard accounted for.  The last result is left out only
\* where index is 0, and the decoder has no speech.
LEMMA HeardStep ==
  ASSUME Types, Control, Counted, Heard, [Next]_vars
  PROVE  Heard'
<1> USE DEF Goto, history, locals, engine
<1>0. /\ laser \in Seq(Frames) /\ feature_vector \in Seq(Frames) /\ result \in Seq(Pieces)
      /\ heard \in Seq(Frames)
  BY DEF Types
<1>1. CASE UNCHANGED <<pc, heard, result, laser>>  BY <1>1 DEF Heard
<1>2. ASSUME UNCHANGED <<heard, result, laser>>, pc \in Loops, pc' \in Loops PROVE Heard'
  BY <1>2 DEF Heard, Loops, Batch
<1>3. ASSUME pc' \notin Loops \cup {"clear", "done"} PROVE Heard'
  BY <1>3 DEF Heard
<1>4. ASSUME NEW n \in Lengths, Call(n) PROVE Heard'
  BY <1>3, <1>4 DEF Call, Loops, Batch
<1>5. CASE Run
  <2>1. CASE Reset
    <3>1. heard' = <<>> /\ result' = <<>> /\ laser' = <<>> /\ pc' = "first"
      BY <2>1 DEF Reset, Control
    <3>2. <<>> \o <<>> = <<>>  OBVIOUS
    <3> QED  BY <3>1, <3>2, SaidOfNone, SpeechEmpty DEF Heard
  <2>2. CASE ReadFirst \/ NoFirst \/ Read \/ Flush
    BY <1>2, <2>2 DEF ReadFirst, NoFirst, Read, Flush, Loops, Batch
  <2>8. CASE FinalFails
    <3>1. Speech(laser') = Speech(laser)  BY <2>8, NoResultIs DEF FinalFails
    <3>2. /\ pc = "final" /\ pc' = "loop" /\ UNCHANGED <<heard, result>>
      BY <2>8 DEF FinalFails, NoResult
    <3> QED  BY <3>1, <3>2 DEF Heard, Loops, Batch
  <2>3. CASE StepFirst \/ Step \/ StepFlush
    <3>1. TakeBatch /\ pc \in Batch /\ pc' \in {"loop", "final", "last"} /\ result' = result
      BY <2>3 DEF StepFirst, Step, StepFlush, Batch
    <3>2. heard' = SaidOf(result) \o Speech(laser')
      BY <1>0, <3>1, BatchHeard DEF TakeBatch, Heard, Loops
    <3> QED  BY <3>1, <3>2 DEF Heard
  <2>4. CASE Final
    <3>1. SaidOf(result') = SaidOf(result) \o Speech(laser)  BY <2>4, ResultSays DEF Final
    <3>2. pc = "final" /\ pc' = "clear" /\ heard' = heard  BY <2>4 DEF Final
    <3> QED  BY <3>1, <3>2 DEF Heard, Loops, Batch
  <2>5. CASE Clear
    <3>1. laser' = <<>> /\ result' = result /\ heard' = heard /\ pc = "clear" /\ pc' = "loop"
      BY <2>5 DEF Clear
    <3>2. SaidOf(result) \o <<>> = SaidOf(result)
      BY <1>0, TextsIs, ConcatEmptySeq
    <3> QED  BY <3>1, <3>2, SpeechEmpty DEF Heard
  <2>6. CASE LastResult
    <3>1. pc = "last" /\ pc' = "done" /\ heard' = heard  BY <2>6 DEF LastResult
    <3>2. heard = SaidOf(result) \o Speech(laser) /\ Len(Speech(laser)) <= index
      BY <3>1 DEF Heard, Counted, Loops
    <3>3. CASE index > 0
      <4>1. SaidOf(result') = SaidOf(result) \o Speech(laser)
        BY <2>6, <3>3, ResultSays DEF LastResult
      <4> QED  BY <3>1, <3>2, <4>1 DEF Heard, Loops, Batch
    <3>4. CASE ~(index > 0)
      <4>1. Speech(laser) \in Seq(Frames) /\ index \in Nat  BY <1>0, CellsOf DEF Types
      <4>2. Speech(laser) = <<>>
        <5>1. Len(Speech(laser)) = 0  BY <3>2, <3>4, <4>1
        <5> QED  BY <4>1, <5>1
      <4>3. SaidOf(result) \o <<>> = SaidOf(result)  BY <1>0, TextsIs, ConcatEmptySeq
      <4>4. heard = SaidOf(result)  BY <3>2, <4>2, <4>3
      <4>5. result' = result  BY <2>6, <3>4 DEF LastResult
      <4> QED  BY <3>1, <4>4, <4>5 DEF Heard, Loops, Batch
    <3> QED  BY <3>3, <3>4
  <2>7. CASE StepFails \/ ClearFails \/ LastResultFails \/ Return
    <3>1. pc' \in {"failed", "idle"}
      BY <2>7 DEF StepFails, ClearFails, LastResultFails, Return
    <3> QED  BY <1>3, <3>1 DEF Loops, Batch
  <2> QED  BY <1>5, <2>1, <2>2, <2>3, <2>4, <2>5, <2>6, <2>7, <2>8 DEF Run
<1> QED  BY <1>1, <1>4, <1>5 DEF Next, SetResetPeriod, vars

\* Every step keeps the count.
LEMMA CountedStep ==
  ASSUME Types, Control, Counted, [Next]_vars
  PROVE  Counted'
<1> USE DEF Goto, history, locals, engine
<1>0. laser \in Seq(Frames) /\ feature_vector \in Seq(Frames) /\ index \in Nat
  BY DEF Types
<1>1. CASE UNCHANGED <<pc, index, laser>>  BY <1>1 DEF Counted
<1>2. ASSUME UNCHANGED <<index, laser>>, pc \in Loops PROVE Counted'
  BY <1>2 DEF Counted
<1>3. ASSUME pc' \notin Loops PROVE Counted'
  BY <1>3 DEF Counted
<1>4. ASSUME NEW n \in Lengths, Call(n) PROVE Counted'
  BY <1>3, <1>4 DEF Call, Loops, Batch
<1>5. CASE Run
  <2>1. CASE Reset \/ Clear
    <3>1. laser' = <<>> /\ index' = 0  BY <2>1 DEF Reset, Clear, Control
    <3>2. Len(Speech(laser')) = 0  BY <3>1, SpeechEmpty
    <3> QED  BY <3>1, <3>2 DEF Counted
  <2>2. CASE ReadFirst \/ NoFirst \/ Read \/ Flush
    BY <1>2, <2>2 DEF ReadFirst, NoFirst, Read, Flush, Loops, Batch
  <2>3. CASE StepFirst \/ Step \/ StepFlush
    <3>1. TakeBatch /\ pc \in Batch  BY <2>3 DEF StepFirst, Step, StepFlush, Batch
    <3>2. Len(Speech(laser)) <= index  BY <3>1 DEF Counted, Loops
    <3>3. PICK a, b : a = Speech(laser) /\ b = Speech(feature_vector)  OBVIOUS
    <3>4. a \in Seq(Frames) /\ b \in Seq(Frames)  BY <1>0, <3>3, CellsOf
    <3>5. Speech(laser') = a \o b
      BY <1>0, <3>1, <3>3, SpeechConcat DEF TakeBatch, Take
    <3>6. Len(Speech(laser')) = Len(a) + Len(b) /\ Len(a) \in Nat /\ Len(b) \in Nat
      BY <3>4, <3>5, ItemsOfConcat
    <3>7. Len(b) <= Len(feature_vector)  BY <1>0, <3>3, SpeechShorter
    <3>8. index' = index + Len(feature_vector)  BY <3>1 DEF TakeBatch
    <3>9. Len(Speech(laser')) <= index'
      BY <1>0, <3>2, <3>3, <3>6, <3>7, <3>8
    <3> QED  BY <3>9 DEF Counted
  <2>4. CASE FinalFails
    <3>1. Speech(laser') = Speech(laser)  BY <2>4, NoResultIs DEF FinalFails
    <3>2. pc \in Loops /\ index' = index  BY <2>4 DEF FinalFails, Loops
    <3> QED  BY <3>1, <3>2 DEF Counted
  <2>5. CASE Final \/ LastResult \/ StepFails \/ ClearFails \/ LastResultFails \/ Return
    <3>1. pc' \in {"clear", "done", "failed", "idle"}
      BY <2>5 DEF Final, LastResult, StepFails, ClearFails, LastResultFails, Return
    <3> QED  BY <1>3, <3>1 DEF Loops, Batch
  <2> QED  BY <1>5, <2>1, <2>2, <2>3, <2>4, <2>5 DEF Run
<1> QED  BY <1>1, <1>4, <1>5 DEF Next, SetResetPeriod, vars

-----------------------------------------------------------------------------
(* What a refused reset has left in the decoder. *)

\* A decoder that still holds frames of an earlier call has not said anything in this
\* one, and only a first piece of text has such frames in it.
Once ==
  /\ pc \in Loops /\ kept # <<>> => result = <<>>
  /\ \A i \in DOMAIN result : result[i].old # <<>> => i = 1

\* A result takes the frames that are kept into the first piece or there are none.
LEMMA ResultOnce ==
  ASSUME Types, Once, pc \in Loops, AdjustedResult
  PROVE  \A i \in DOMAIN result' : result'[i].old # <<>> => i = 1
<1>1. PICK end \in Ends :
        /\ Piece(last_position, last_position + end) \in Pieces
        /\ result' = Append(result, Piece(last_position, last_position + end))
  BY TypesOfResult
<1>2. PICK p \in Pieces : p = Piece(last_position, last_position + end)  BY <1>1
<1>3. p.old = kept  BY <1>2 DEF Piece
<1>4. result \in Seq(Pieces)  BY DEF Types
<1>5. /\ Len(result) \in Nat /\ DOMAIN result' = 1 .. Len(result) + 1
      /\ result'[Len(result) + 1] = p
      /\ DOMAIN result = 1 .. Len(result)
      /\ \A i \in 1 .. Len(result) : result'[i] = result[i]
  <2>1. result' = Append(result, p)  BY <1>1, <1>2
  <2> QED  BY <1>4, <2>1, AppendProperties
<1>6. kept # <<>> => Len(result) = 0  BY DEF Once
<1> SUFFICES ASSUME NEW i \in 1 .. Len(result) + 1, result'[i].old # <<>> PROVE i = 1
  BY <1>5
<1>7. CASE i \in 1 .. Len(result)
  <2>1. result[i].old # <<>>  BY <1>5, <1>7
  <2> QED  BY <1>5, <1>7, <2>1 DEF Once
<1>8. CASE i = Len(result) + 1
  <2>1. Len(result) = 0  BY <1>3, <1>5, <1>6, <1>8
  <2> QED  BY <1>8, <2>1
<1> QED  BY <1>5, <1>7, <1>8

\* Every step keeps the old frames to the first piece.
LEMMA OnceStep ==
  ASSUME Types, Control, Once, [Next]_vars
  PROVE  Once'
<1> USE DEF Goto, history, locals, engine
<1>1. ASSUME UNCHANGED <<kept, result>>, pc \in Loops \/ pc' \notin Loops PROVE Once'
  BY <1>1 DEF Once
<1>2. CASE UNCHANGED vars \/ SetResetPeriod
  <2>1. UNCHANGED <<pc, kept, result>>  BY <1>2 DEF vars, SetResetPeriod
  <2> QED  BY <2>1 DEF Once
<1>3. ASSUME NEW n \in Lengths, Call(n) PROVE Once'
  <2>1. pc' = "reset" /\ UNCHANGED result  BY <1>3 DEF Call
  <2> QED  BY <2>1 DEF Once, Loops, Batch
<1>4. CASE Reset
  <2>1. result' = <<>>  BY <1>4 DEF Reset, Control
  <2>2. DOMAIN result' = {}  BY <2>1
  <2> QED  BY <2>1, <2>2 DEF Once
<1>5. CASE ReadFirst \/ StepFirst \/ NoFirst \/ Read \/ Step \/ StepFails
  <2>1. UNCHANGED <<kept, result>> /\ (pc \in Loops \/ pc' \notin Loops)
    BY <1>5 DEF ReadFirst, StepFirst, NoFirst, Read, Step, StepFails, Loops, Batch
  <2> QED  BY <1>1, <2>1
<1>6. CASE FinalFails \/ ClearFails \/ Flush \/ StepFlush \/ LastResultFails
  <2>1. UNCHANGED <<kept, result>> /\ (pc \in Loops \/ pc' \notin Loops)
    BY <1>6 DEF FinalFails, NoResult, ClearFails, Flush, StepFlush, LastResultFails, Loops, Batch
  <2> QED  BY <1>1, <2>1
<1>7. CASE Final
  <2>1. AdjustedResult /\ pc = "final" /\ pc' = "clear"  BY <1>7 DEF Final
  <2>2. pc \in Loops /\ pc' \notin Loops  BY <2>1 DEF Loops, Batch
  <2> QED  BY <2>1, <2>2, ResultOnce DEF Once
<1>8. CASE Clear
  <2>1. kept' = <<>> /\ UNCHANGED result  BY <1>8 DEF Clear
  <2> QED  BY <2>1 DEF Once
<1>9. CASE LastResult
  <2>1. pc = "last" /\ pc' = "done" /\ UNCHANGED kept  BY <1>9 DEF LastResult
  <2>2. pc \in Loops /\ pc' \notin Loops  BY <2>1 DEF Loops, Batch
  <2>3. CASE index > 0
    <3>1. AdjustedResult  BY <1>9, <2>3 DEF LastResult
    <3> QED  BY <2>2, <3>1, ResultOnce DEF Once
  <2>4. CASE ~(index > 0)
    <3>1. UNCHANGED result  BY <1>9, <2>4 DEF LastResult
    <3> QED  BY <1>1, <2>1, <2>2, <3>1
  <2> QED  BY <2>3, <2>4
<1>10. CASE Return
  <2>1. result' = <<>>  BY <1>10 DEF Return
  <2>2. DOMAIN result' = {}  BY <2>1
  <2> QED  BY <2>1, <2>2 DEF Once
<1> QED  BY <1>2, <1>3, <1>4, <1>5, <1>6, <1>7, <1>8, <1>9, <1>10 DEF Next, Run

-----------------------------------------------------------------------------
(* How far the recording has been read, and where its frames are. *)

\* n, or the end of the recording.
Least(n) == IF n > len THEN len ELSE n

\* How much of the recording the front end has been given.
Upto ==
  IF pc \in {"first", "loop"} THEN Least(offset)
  ELSE IF pc \in {"step_first", "step", "final", "clear"} THEN Least(offset + ReadSize)
  ELSE len

\* The frames that the front end has given back and the decoder has not taken.
Pending == IF pc \in Batch THEN feature_vector ELSE <<>>

\* The recording is read up to a place in it, and what is pending are frames.
LEMMA UptoIs ==
  ASSUME Types
  PROVE  /\ Upto \in 0 .. len /\ Least(offset) \in 0 .. len
         /\ Pending \in Seq(Frames) /\ Speech(Pending) \in Seq(Frames)
<1>1. Upto \in 0 .. len /\ Least(offset) \in 0 .. len
  BY Numeric DEF Types, Upto, Least
<1>2. Pending \in Seq(Frames)
  <2>1. feature_vector \in Seq(Frames)  BY DEF Types
  <2>2. <<>> \in Seq(Frames)  OBVIOUS
  <2> QED  BY <2>1, <2>2, Zenon DEF Pending
<1> QED  BY <1>1, <1>2, CellsOf

\* What has been heard, the batch, and what the front end holds.
Stream == (heard \o Speech(Pending)) \o front

\* The stream is in order and its first frames, no more than a refused reset has left
\* in the front end, are the only ones of an earlier call; the front end has been given
\* the recording up to a place.  A call that failed has heard a part of the stream,
\* and what it leaves in the front end is in order, for the next one.
Order ==
  /\ pc \in Loops \cup {"clear", "done"} =>
       /\ fed = Following(spoken, Upto)
       /\ Ascending(Stream, spoken + Upto) /\ OldFirst(Stream, spoken, left)
  /\ pc = "failed" =>
       /\ Ascending(heard, spoken + len) /\ OldFirst(heard, spoken, left)
       /\ Ascending(front, spoken + len)
  /\ pc \in {"idle", "reset"} => Ascending(front, spoken)

\* Only the first batch has fillers in it, and no more than fill the stack.
Whole ==
  /\ pc = "step_first" => Len(feature_vector) <= Stack + Len(Speech(feature_vector))
  /\ pc \in {"step", "step_flush"} => Speech(feature_vector) = feature_vector

\* No frame comes from nowhere.
Room ==
  pc \in Loops \cup {"clear"} =>
    index + Len(Pending) + Len(front) <= left + Upto + (IF pc = "first" THEN 0 ELSE Stack)

\* The stream is of frames.
LEMMA StreamIs ==
  ASSUME Types
  PROVE  /\ Pending \in Seq(Frames) /\ Speech(Pending) \in Seq(Frames)
         /\ heard \in Seq(Frames) /\ front \in Seq(Frames)
         /\ heard \o Speech(Pending) \in Seq(Frames) /\ Stream \in Seq(Frames)
<1>1. /\ Pending \in Seq(Frames) /\ Speech(Pending) \in Seq(Frames)
      /\ heard \in Seq(Frames) /\ front \in Seq(Frames)
  BY UptoIs DEF Types
<1>2. heard \o Speech(Pending) \in Seq(Frames)  BY <1>1, ConcatProperties
<1> QED  BY <1>1, <1>2, ConcatProperties DEF Stream

\* What has been heard, and what the front end holds, are parts of the stream.
LEMMA StreamParts ==
  ASSUME Types, NEW hi, Ascending(Stream, hi), OldFirst(Stream, spoken, left)
  PROVE  Ascending(heard, hi) /\ OldFirst(heard, spoken, left) /\ Ascending(front, hi)
<1>1. PICK a, b, c : a = heard /\ b = Speech(Pending) /\ c = front  OBVIOUS
<1>2. a \in Seq(Frames) /\ b \in Seq(Frames) /\ c \in Seq(Frames) /\ a \o b \in Seq(Frames)
  BY <1>1, StreamIs
<1>3. Ascending((a \o b) \o c, hi) /\ OldFirst((a \o b) \o c, spoken, left)
  BY <1>1 DEF Stream
<1>4. Ascending(a \o b, hi) /\ Ascending(c, hi) /\ OldFirst(a \o b, spoken, left)
  BY <1>2, <1>3, AscendingParts, OldFirstPart
<1>5. Ascending(a, hi) /\ OldFirst(a, spoken, left)
  BY <1>2, <1>4, AscendingParts, OldFirstPart
<1> QED  BY <1>1, <1>4, <1>5

\* Putting sequences together is associative.
LEMMA Associative == \A a, b, c \in Seq(Frames) : (a \o b) \o c = a \o (b \o c)
BY ConcatAssociative

\* What becomes of the frames that the front end holds when it gives some of them: the
\* speech it gives and what it keeps are the first of them, behind h.
LEMMA Given ==
  ASSUME NEW held \in Seq(Frames), NEW stack \in Seq(Frames), Speech(stack) = <<>>,
         NEW h \in Seq(Frames), NEW hi, Ascending(held, hi), GiveFrames(held, stack)
  PROVE  /\ front' \in Seq(Frames) /\ feature_vector' \in Seq(Frames)
         /\ Speech(feature_vector') \in Seq(Frames)
         /\ \E r \in Seq(Frames) : h \o held = ((h \o Speech(feature_vector')) \o front') \o r
         /\ Len(feature_vector') + Len(front') <= Len(stack) + Len(held)
         /\ feature_vector' = <<>> => Len(front') <= Len(held)
         /\ Len(feature_vector') <= Len(stack) + Len(Speech(feature_vector'))
         /\ stack = <<>> => Speech(feature_vector') = feature_vector'
<1>1. PICK n \in 0 .. Len(held) :
        /\ front' \in {<<>>, SubSeq(held, n + 1, Len(held))}
        /\ feature_vector' = IF n = 0 THEN <<>> ELSE stack \o SubSeq(held, 1, n)
  BY DEF GiveFrames
<1>2. PICK head, tail : head = SubSeq(held, 1, n) /\ tail = SubSeq(held, n + 1, Len(held))
  OBVIOUS
<1>3. head \in Seq(Frames) /\ Len(head) = n /\ tail \in Seq(Frames) /\ Len(tail) = Len(held) - n
  BY <1>2
<1>4. held = head \o tail
  <2>1. SubSeq(held, 1, n) \o SubSeq(held, n + 1, Len(held)) = SubSeq(held, 1, Len(held))
    <3>1. 1 \in 1 .. Len(held) + 1 /\ n \in 1 - 1 .. Len(held) /\ Len(held) \in n .. Len(held)
      OBVIOUS
    <3> QED  BY <3>1, ConcatAdjacentSubSeq
  <2>2. SubSeq(held, 1, Len(held)) = held  BY SubSeqFull
  <2> QED  BY <1>2, <2>1, <2>2
<1>5. Speech(head) = head
  <2>1. Ascending(head, hi)  BY <1>3, <1>4, AscendingParts
  <2> QED  BY <1>3, <2>1, AscendingIsSpeech
<1>6. n \in Nat /\ Len(held) \in Nat /\ n <= Len(held) /\ Len(stack) \in Nat /\ Len(<<>>) = 0
  OBVIOUS
<1>7. /\ feature_vector' \in Seq(Frames) /\ Speech(feature_vector') = head
      /\ Len(feature_vector') <= Len(stack) + n
      /\ stack = <<>> => feature_vector' = head
      /\ feature_vector' = <<>> => n = 0
  <2>1. CASE n = 0
    <3>1. feature_vector' = <<>> /\ head = <<>>  BY <1>1, <1>3, <2>1
    <3> QED  BY <1>3, <1>6, <2>1, <3>1, SpeechEmpty
  <2>2. CASE n # 0
    <3>1. feature_vector' = stack \o head  BY <1>1, <1>2, <2>2
    <3>2. Speech(feature_vector') = <<>> \o head  BY <1>3, <1>5, <3>1, SpeechConcat
    <3>3. <<>> \o head = head  BY <1>3, ConcatEmptySeq
    <3>4. feature_vector' \in Seq(Frames) /\ Len(feature_vector') = Len(stack) + n
      BY <1>3, <3>1, ConcatProperties
    <3>5. feature_vector' # <<>>  BY <1>6, <2>2, <3>4
    <3>6. stack = <<>> => feature_vector' = head  BY <3>1, <3>3
    <3>7. Len(feature_vector') <= Len(stack) + n  BY <1>6, <3>4
    <3> QED  BY <3>2, <3>3, <3>4, <3>5, <3>6, <3>7
  <2> QED  BY <2>1, <2>2
<1>8. front' \in Seq(Frames) /\ Len(front') <= Len(held) - n
  <2>1. CASE front' = tail  BY <1>3, <2>1
  <2>2. CASE front' = <<>>
    <3>1. 0 <= Len(held) - n  BY <1>6
    <3> QED  BY <1>6, <2>2, <3>1
  <2> QED  BY <1>1, <1>2, <2>1, <2>2
<1>9. \E r \in Seq(Frames) : held = (head \o front') \o r
  <2>1. CASE front' = tail
    <3>1. <<>> \in Seq(Frames) /\ held = held \o <<>>  BY ConcatEmptySeq
    <3> QED  BY <1>4, <2>1, <3>1
  <2>2. CASE front' = <<>>
    <3>1. head \o <<>> = head  BY <1>3, ConcatEmptySeq
    <3> QED  BY <1>3, <1>4, <2>2, <3>1
  <2> QED  BY <1>1, <1>2, <2>1, <2>2
<1>10. /\ Len(feature_vector') + Len(front') <= Len(stack) + Len(held)
       /\ feature_vector' = <<>> => Len(front') <= Len(held)
  <2>1. Len(feature_vector') \in Nat /\ Len(front') \in Nat  BY <1>7, <1>8
  <2> QED  BY <1>6, <1>7, <1>8, <2>1
<1>11. \E r \in Seq(Frames) : h \o held = ((h \o head) \o front') \o r
  <2>1. PICK r \in Seq(Frames) : held = (head \o front') \o r  BY <1>9
  <2>2. PICK b, c, bc : b = head /\ c = front' /\ bc = b \o c  OBVIOUS
  <2>3. b \in Seq(Frames) /\ c \in Seq(Frames) /\ bc \in Seq(Frames) /\ h \in Seq(Frames)
    BY <1>3, <1>8, <2>2, ConcatProperties
  <2>4. (h \o bc) \o r = h \o (bc \o r)  BY <2>3, Associative, Zenon
  <2>5. (h \o b) \o c = h \o (b \o c)  BY <2>3, Associative, Zenon
  <2>6. held = bc \o r /\ (h \o b) \o c = h \o bc  BY <2>1, <2>2, <2>5
  <2>7. h \o held = ((h \o b) \o c) \o r  BY <2>4, <2>6
  <2> QED  BY <2>2, <2>7
<1> QED  BY <1>3, <1>7, <1>8, <1>10, <1>11

\* The stream grows by what the front end is given, and loses what it drops.
LEMMA StreamGrows ==
  ASSUME Types, Pending = <<>>, Pending' = feature_vector', UNCHANGED heard,
         NEW more \in Seq(Frames), NEW stack \in Seq(Frames), Speech(stack) = <<>>,
         GiveFrames(front \o more, stack), NEW hi, Ascending(Stream \o more, hi)
  PROVE  /\ front' \in Seq(Frames) /\ feature_vector' \in Seq(Frames)
         /\ Stream' \in Seq(Frames) /\ \E r \in Seq(Frames) : Stream \o more = Stream' \o r
         /\ Len(feature_vector') + Len(front') <= Len(stack) + (Len(front) + Len(more))
         /\ feature_vector' = <<>> => Len(front') <= Len(front) + Len(more)
         /\ Len(feature_vector') <= Len(stack) + Len(Speech(feature_vector'))
         /\ stack = <<>> => Speech(feature_vector') = feature_vector'
<1>1. heard \in Seq(Frames) /\ front \in Seq(Frames)  BY StreamIs
<1>2. PICK held : held = front \o more  OBVIOUS
<1>3. held \in Seq(Frames) /\ Len(held) = Len(front) + Len(more)
  BY <1>1, <1>2, ConcatProperties
<1>4. Stream = heard \o front
  <2>1. Speech(Pending) = <<>>  BY SpeechEmpty
  <2>2. heard \o <<>> = heard  BY <1>1, ConcatEmptySeq
  <2> QED  BY <2>1, <2>2 DEF Stream
<1>5. Stream \o more = heard \o held  BY <1>1, <1>2, <1>4, ConcatAssociative
<1>6. Ascending(held, hi)
  <2>1. Ascending(heard \o held, hi)  BY <1>5
  <2> QED  BY <1>1, <1>3, <2>1, AscendingParts
<1>7. GiveFrames(held, stack)  BY <1>2
<1>8. /\ front' \in Seq(Frames) /\ feature_vector' \in Seq(Frames)
      /\ Speech(feature_vector') \in Seq(Frames)
      /\ \E r \in Seq(Frames) : heard \o held = ((heard \o Speech(feature_vector')) \o front') \o r
      /\ Len(feature_vector') + Len(front') <= Len(stack) + Len(held)
      /\ feature_vector' = <<>> => Len(front') <= Len(held)
      /\ Len(feature_vector') <= Len(stack) + Len(Speech(feature_vector'))
      /\ stack = <<>> => Speech(feature_vector') = feature_vector'
  <2>1. PICK h \in Seq(Frames) : h = heard  BY <1>1
  <2>2. /\ front' \in Seq(Frames) /\ feature_vector' \in Seq(Frames)
        /\ Speech(feature_vector') \in Seq(Frames)
        /\ \E r \in Seq(Frames) : h \o held = ((h \o Speech(feature_vector')) \o front') \o r
        /\ Len(feature_vector') + Len(front') <= Len(stack) + Len(held)
        /\ feature_vector' = <<>> => Len(front') <= Len(held)
        /\ Len(feature_vector') <= Len(stack) + Len(Speech(feature_vector'))
        /\ stack = <<>> => Speech(feature_vector') = feature_vector'
    BY <1>3, <1>6, <1>7, Given
  <2> QED  BY <2>1, <2>2
<1>9. Stream' = (heard \o Speech(feature_vector')) \o front'
  <2>1. Speech(Pending)' = Speech(feature_vector')  OBVIOUS
  <2> QED  BY <2>1 DEF Stream
<1>10. \E r \in Seq(Frames) : Stream \o more = Stream' \o r  BY <1>5, <1>8, <1>9
<1>11. Stream' \in Seq(Frames)
  <2>1. heard \o Speech(feature_vector') \in Seq(Frames)  BY <1>1, <1>8, ConcatProperties
  <2> QED  BY <1>8, <1>9, <2>1, ConcatProperties
<1> QED  BY <1>3, <1>8, <1>10, <1>11

\* A chunk is read, in the first loop with a full stack in front of the first frames.
LEMMA ReadKeepsOrder ==
  ASSUME Types, Control, Order, Room, NEW stack,
         (ReadFirst /\ stack = Fillers(Stack)) \/ (Read /\ stack = <<>>)
  PROVE  Order' /\ Whole' /\ Room'
<1> DEFINE up == Least(offset + ReadSize)
<1>1. /\ StepFrame(stack) /\ stack \in Seq(Frames) /\ Speech(stack) = <<>>
      /\ pc \in {"first", "loop"}
      /\ UNCHANGED <<len, spoken, index, heard, left>>
  BY StackIs DEF ReadFirst, Read, Goto
<1>2. Upto = offset /\ Pending = <<>> /\ offset < len
  <2>1. offset < len  BY <1>1 DEF StepFrame
  <2>2. offset \in Nat /\ len \in Nat  BY Numeric DEF Types
  <2>3. Least(offset) = offset  BY <2>1, <2>2 DEF Least
  <2>4. Upto = Least(offset) /\ Pending = <<>>  BY <1>1 DEF Upto, Pending, Batch
  <2> QED  BY <2>1, <2>3, <2>4
<1>3. Upto' = up /\ Pending' = feature_vector'
  BY <1>1 DEF ReadFirst, Read, Goto, Upto, Least, Pending, Batch
<1>4. /\ spoken \in Nat /\ offset \in Nat /\ rsize \in Nat /\ up = offset + rsize
      /\ Chunk \in Seq(Frames) /\ Len(Chunk) = rsize /\ Chunk = Following(spoken + offset, rsize)
      /\ front \in Seq(Frames) /\ Stream \in Seq(Frames) /\ spoken + offset \in Nat
  <2>1. spoken \in Nat /\ offset \in Nat  BY DEF Types
  <2>2. /\ rsize \in Nat /\ Chunk \in Seq(Frames) /\ Len(Chunk) = rsize
        /\ Chunk = Following(spoken + offset, rsize)
        /\ offset + rsize = IF offset + ReadSize > len THEN len ELSE offset + ReadSize
    BY <1>2, ChunkIs
  <2> QED  BY <2>1, <2>2, StreamIs DEF Least
<1>5. /\ fed = Following(spoken, offset)
      /\ Ascending(Stream, spoken + offset) /\ OldFirst(Stream, spoken, left)
  BY <1>1, <1>2 DEF Order, Loops
<1> HIDE DEF up
<1>6. fed' = Following(spoken, up)
  <2>1. fed' = fed \o Chunk  BY <1>1 DEF StepFrame
  <2>2. PICK b \in Nat, m \in Nat, n \in Nat : b = spoken /\ m = offset /\ n = rsize
    BY <1>4
  <2>3. Following(b, m) \o Following(b + m, n) = Following(b, m + n)  BY FollowingContinues
  <2> QED  BY <1>4, <1>5, <2>1, <2>2, <2>3
<1>7. Ascending(Stream \o Chunk, spoken + up) /\ OldFirst(Stream \o Chunk, spoken, left)
  <2>1. PICK m \in Nat, n \in Nat, b \in Nat : m = spoken + offset /\ n = rsize /\ b = spoken
    BY <1>4
  <2>2. Ascending(Stream \o Following(m, n), m + n)  BY <1>4, <1>5, <2>1, AscendingMore
  <2>3. OldFirst(Stream \o Following(m, n), b, left)
    <3>1. b <= m  BY <1>4, <2>1
    <3> QED  BY <1>4, <1>5, <2>1, <3>1, OldFirstMore
  <2>4. spoken + up = m + n  BY <1>4, <2>1
  <2> QED  BY <1>4, <2>1, <2>2, <2>3, <2>4
<1>8. /\ front' \in Seq(Frames) /\ feature_vector' \in Seq(Frames)
      /\ Stream' \in Seq(Frames) /\ \E r \in Seq(Frames) : Stream \o Chunk = Stream' \o r
      /\ Len(feature_vector') + Len(front') <= Len(stack) + (Len(front) + Len(Chunk))
      /\ feature_vector' = <<>> => Len(front') <= Len(front) + Len(Chunk)
      /\ Len(feature_vector') <= Len(stack) + Len(Speech(feature_vector'))
      /\ stack = <<>> => Speech(feature_vector') = feature_vector'
  <2>1. GiveFrames(front \o Chunk, stack)  BY <1>1 DEF StepFrame
  <2> QED  BY <1>1, <1>2, <1>3, <1>4, <1>7, <2>1, StreamGrows
<1>9. Ascending(Stream', spoken + up) /\ OldFirst(Stream', spoken, left)
  <2>1. PICK r \in Seq(Frames), t \in Seq(Frames) : t = Stream' /\ Stream \o Chunk = t \o r
    BY <1>8
  <2>2. Ascending(t \o r, spoken + up) /\ OldFirst(t \o r, spoken, left)  BY <1>7, <2>1
  <2> QED  BY <2>1, <2>2, AscendingParts, OldFirstPart
<1>10. Order'
  <2>1. pc' \notin {"failed", "idle", "reset"}  BY DEF ReadFirst, Read, Goto
  <2> QED  BY <1>1, <1>3, <1>6, <1>9, <2>1 DEF Order
<1>11. Len(Fillers(Stack)) = Stack /\ Len(<<>>) = 0  BY StackIs
<1>12. Whole'
  <2>1. pc' = "step_first" => stack = Fillers(Stack)  BY DEF ReadFirst, Read, Goto
  <2>2. pc' # "step_flush" /\ (pc' = "step" => stack = <<>>)  BY DEF ReadFirst, Read, Goto
  <2> QED  BY <1>8, <1>11, <2>1, <2>2 DEF Whole
<1>13. Room'
  <2>1. /\ index \in Nat /\ left \in Nat /\ Len(front) \in Nat /\ Stack \in Nat
        /\ index + 0 + Len(front) <= left + offset + (IF pc = "first" THEN 0 ELSE Stack)
    <3>1. front \in Seq(Frames) /\ index \in Nat /\ left \in Nat  BY DEF Types
    <3>2. index + Len(Pending) + Len(front) <= left + offset + (IF pc = "first" THEN 0 ELSE Stack)
      BY <1>1, <1>2 DEF Room, Loops
    <3>3. Len(Pending) = 0  BY <1>2
    <3> QED  BY <3>1, <3>2, <3>3, Numeric
  <2>2. Len(feature_vector') \in Nat /\ Len(front') \in Nat  BY <1>8
  <2>3. CASE ReadFirst /\ stack = Fillers(Stack)
    <3>1. pc = "first" /\ pc' \in {"first", "step_first"}  BY <2>3 DEF ReadFirst, Goto
    <3>2. pc' = "first" => feature_vector' = <<>>  BY <2>3 DEF ReadFirst, Goto
    <3>3. Len(stack) = Stack  BY <1>11, <2>3
    <3>4. CASE pc' = "first"
      <4>1. Len(feature_vector') = 0 /\ Len(front') <= Len(front) + rsize
        BY <1>4, <1>8, <3>2, <3>4
      <4>2. index + Len(feature_vector') + Len(front') <= left + up + 0
        BY <1>4, <2>1, <2>2, <3>1, <4>1
      <4> QED  BY <1>1, <1>3, <3>4, <4>2 DEF Room
    <3>5. CASE pc' = "step_first"
      <4>1. index + Len(feature_vector') + Len(front') <= left + up + Stack
        BY <1>4, <1>8, <2>1, <2>2, <3>1, <3>3
      <4> QED  BY <1>1, <1>3, <3>5, <4>1 DEF Room
    <3> QED  BY <3>1, <3>4, <3>5
  <2>4. CASE Read /\ stack = <<>>
    <3>1. pc = "loop" /\ pc' # "first"  BY <2>4 DEF Read, Goto
    <3>2. Len(stack) = 0  BY <2>4
    <3>3. index + Len(feature_vector') + Len(front') <= left + up + Stack
      BY <1>4, <1>8, <2>1, <2>2, <3>1, <3>2
    <3> QED  BY <1>1, <1>3, <3>1, <3>3 DEF Room
  <2> QED  BY <2>3, <2>4
<1> QED  BY <1>10, <1>12, <1>13

\* The decoder takes the batch.
LEMMA BatchKeepsOrder ==
  ASSUME Types, Order, Room, StepFirst \/ Step \/ StepFlush
  PROVE  Order' /\ Whole' /\ Room'
<1>1. /\ pc \in Batch /\ pc' \in {"loop", "final", "last"} /\ TakeBatch
      /\ UNCHANGED <<len, spoken, front, fed, left>>
  BY DEF StepFirst, Step, StepFlush, Batch, Goto
<1>2. Pending = feature_vector /\ Pending' = <<>>  BY <1>1 DEF Pending, Batch
<1>3. Upto' = Upto
  BY DEF StepFirst, Step, StepFlush, Goto, Upto, Least
<1>4. Stream' = Stream
  <2>1. heard' = heard \o Speech(Pending)  BY <1>1, <1>2 DEF TakeBatch, Take
  <2>2. heard' \in Seq(Frames)  BY <2>1, StreamIs
  <2>3. Speech(Pending)' = <<>> /\ heard' \o <<>> = heard'
    BY <1>2, <2>2, SpeechEmpty, ConcatEmptySeq
  <2> QED  BY <1>1, <2>1, <2>3 DEF Stream
<1>5. Order'  BY <1>1, <1>3, <1>4 DEF Order, Loops
<1>6. Whole'  BY <1>1 DEF Whole
<1>7. Room'
  <2>1. index \in Nat /\ feature_vector \in Seq(Frames) /\ front \in Seq(Frames)
    BY DEF Types
  <2>2. index' = index + Len(feature_vector)  BY <1>1 DEF TakeBatch
  <2>3. index + Len(feature_vector) + Len(front) <= left + Upto + Stack
    BY <1>1, <1>2 DEF Room, Loops, Batch
  <2>4. Len(<<>>) = 0  OBVIOUS
  <2>5. index' + 0 + Len(front') <= left + Upto + Stack  BY <1>1, <2>1, <2>2, <2>3
  <2> QED  BY <1>1, <1>2, <1>3, <2>4, <2>5 DEF Room
<1> QED  BY <1>5, <1>6, <1>7

\* The front end is asked for the rest.
LEMMA FlushKeepsOrder ==
  ASSUME Types, Control, Order, Room, Flush
  PROVE  Order' /\ Whole' /\ Room'
<1>1. /\ pc = "loop" /\ pc' = "step_flush" /\ offset >= len /\ GiveFrames(front, <<>>)
      /\ UNCHANGED <<len, spoken, offset, index, heard, fed, left>>
  BY DEF Flush, Goto, history
<1>2. Upto = len /\ Upto' = len /\ Pending = <<>> /\ Pending' = feature_vector'
  <2>1. offset \in Nat /\ len \in Nat  BY Numeric DEF Types
  <2>2. Upto = Least(offset)  BY <1>1 DEF Upto
  <2>3. Least(offset) = len  BY <1>1, <2>1 DEF Least
  <2> QED  BY <1>1, <2>2, <2>3 DEF Upto, Pending, Batch
<1>3. /\ fed = Following(spoken, len)
      /\ Ascending(Stream, spoken + len) /\ OldFirst(Stream, spoken, left)
  BY <1>1, <1>2 DEF Order, Loops
<1>4. front \in Seq(Frames) /\ Stream \in Seq(Frames)  BY StreamIs
<1>5. PICK none \in Seq(Frames) : none = <<>>  BY StackIs
<1>6. front \o none = front /\ Stream \o none = Stream /\ Len(none) = 0
  BY <1>4, <1>5, ConcatEmptySeq
<1>7. /\ front' \in Seq(Frames) /\ feature_vector' \in Seq(Frames)
      /\ Stream' \in Seq(Frames) /\ \E r \in Seq(Frames) : Stream \o none = Stream' \o r
      /\ Len(feature_vector') + Len(front') <= Len(none) + (Len(front) + Len(none))
      /\ none = <<>> => Speech(feature_vector') = feature_vector'
  <2>1. GiveFrames(front \o none, none) /\ Speech(none) = <<>>
    BY <1>1, <1>5, <1>6, SpeechEmpty
  <2>2. Ascending(Stream \o none, spoken + len)  BY <1>3, <1>6
  <2> QED  BY <1>1, <1>2, <2>1, <2>2, StreamGrows
<1>8. Ascending(Stream', spoken + len) /\ OldFirst(Stream', spoken, left)
  <2>1. PICK r \in Seq(Frames), t \in Seq(Frames) : t = Stream' /\ Stream = t \o r
    BY <1>6, <1>7
  <2>2. Ascending(t \o r, spoken + len) /\ OldFirst(t \o r, spoken, left)  BY <1>3, <2>1
  <2> QED  BY <2>1, <2>2, AscendingParts, OldFirstPart
<1>9. Order'  BY <1>1, <1>2, <1>3, <1>8 DEF Order
<1>10. Whole'  BY <1>1, <1>5, <1>7 DEF Whole
<1>11. Room'
  <2>1. index \in Nat /\ left \in Nat /\ len \in Nat /\ Stack \in Nat
    BY Numeric DEF Types
  <2>2. Len(feature_vector') \in Nat /\ Len(front') \in Nat /\ Len(front) \in Nat
    BY <1>4, <1>7
  <2>3. index + 0 + Len(front) <= left + len + Stack
    <3>1. Len(Pending) = 0  BY <1>2
    <3> QED  BY <1>1, <1>2, <3>1 DEF Room, Loops
  <2>4. index + Len(feature_vector') + Len(front') <= left + len + Stack
    BY <1>6, <1>7, <2>1, <2>2, <2>3
  <2> QED  BY <1>1, <1>2, <2>4 DEF Room
<1> QED  BY <1>9, <1>10, <1>11

\* Speech in the first frames of a batch comes first in the speech of the batch.
LEMMA SpeechOfPart ==
  ASSUME NEW s \in Seq(Frames), NEW n \in 0 .. Len(s)
  PROVE  \E r \in Seq(Frames) :
           /\ SubSeq(s, 1, n) \in Seq(Frames)
           /\ Speech(SubSeq(s, 1, n)) \in Seq(Frames)
           /\ Speech(s) = Speech(SubSeq(s, 1, n)) \o r
<1>1. PICK head, tail : head = SubSeq(s, 1, n) /\ tail = SubSeq(s, n + 1, Len(s))
  OBVIOUS
<1>2. head \in Seq(Frames) /\ tail \in Seq(Frames)  BY <1>1
<1>3. s = head \o tail
  <2>1. SubSeq(s, 1, n) \o SubSeq(s, n + 1, Len(s)) = SubSeq(s, 1, Len(s))
    <3>1. 1 \in 1 .. Len(s) + 1 /\ n \in 1 - 1 .. Len(s) /\ Len(s) \in n .. Len(s)
      OBVIOUS
    <3> QED  BY <3>1, ConcatAdjacentSubSeq
  <2>2. SubSeq(s, 1, Len(s)) = s  BY SubSeqFull
  <2> QED  BY <1>1, <2>1, <2>2
<1>4. Speech(head \o tail) = Speech(head) \o Speech(tail)  BY <1>2, SpeechConcat
<1>5. Speech(head) \in Seq(Frames) /\ Speech(tail) \in Seq(Frames)  BY <1>2, CellsOf
<1>6. Speech(s) = Speech(head) \o Speech(tail)  BY <1>3, <1>4
<1> QED  BY <1>1, <1>2, <1>5, <1>6

\* What a failing decoder has taken.
LEMMA FailedBatch ==
  ASSUME Types, StepFails
  PROVE  /\ pc \in Batch /\ pc' = "failed" /\ UNCHANGED <<len, spoken, front, left, result>>
         /\ \E p, r \in Seq(Frames) : heard' = heard \o p /\ Speech(feature_vector) = p \o r
<1>1. PICK n \in 0 .. Len(feature_vector) - 1 : Take(SubSeq(feature_vector, 1, n))
  BY DEF StepFails
<1>2. feature_vector \in Seq(Frames)  BY DEF Types
<1>3. n \in 0 .. Len(feature_vector)  BY <1>2
<1>4. PICK r \in Seq(Frames) :
        /\ Speech(SubSeq(feature_vector, 1, n)) \in Seq(Frames)
        /\ Speech(feature_vector) = Speech(SubSeq(feature_vector, 1, n)) \o r
  BY <1>2, <1>3, SpeechOfPart
<1>5. heard' = heard \o Speech(SubSeq(feature_vector, 1, n))  BY <1>1 DEF Take
<1> QED  BY <1>4, <1>5 DEF StepFails, Goto, Batch

\* A failing call has heard a part of what it would have heard.
LEMMA FailKeepsOrder ==
  ASSUME Types, Order, StepFails \/ ClearFails \/ LastResultFails
  PROVE  Order' /\ Whole' /\ Room'
<1>1. pc' = "failed" /\ UNCHANGED <<len, spoken, front, left>> /\ pc \in Loops \cup {"clear"}
  BY FailedBatch DEF ClearFails, LastResultFails, Goto, Loops, history, engine
<1>2. Ascending(Stream, spoken + Upto) /\ OldFirst(Stream, spoken, left)
  BY <1>1 DEF Order
<1>3. Stream \in Seq(Frames) /\ spoken + Upto \in Nat /\ spoken + len \in Nat
      /\ spoken + Upto <= spoken + len
  <2>1. Upto \in 0 .. len /\ len \in Nat /\ spoken \in Nat  BY UptoIs, Numeric DEF Types
  <2> QED  BY <2>1, StreamIs
<1>4. Ascending(Stream, spoken + len)  BY <1>2, <1>3, AscendingWidened
<1>5. Ascending(heard, spoken + len) /\ OldFirst(heard, spoken, left) /\ Ascending(front, spoken + len)
  BY <1>2, <1>4, StreamParts
<1>6. Ascending(heard', spoken + len) /\ OldFirst(heard', spoken, left)
  <2>1. CASE heard' = heard  BY <1>5, <2>1
  <2>2. CASE StepFails
    <3>1. PICK p, r \in Seq(Frames) : heard' = heard \o p /\ Speech(feature_vector) = p \o r
      BY <2>2, FailedBatch
    <3>2. Pending = feature_vector  BY <2>2, FailedBatch DEF Pending
    <3>3. PICK h, f : h = heard /\ f = front  OBVIOUS
    <3>4. h \in Seq(Frames) /\ f \in Seq(Frames) /\ h \o p \in Seq(Frames)
          /\ h \o (p \o r) \in Seq(Frames)
      BY <3>1, <3>2, <3>3, StreamIs, ConcatProperties
    <3>5. Stream = (h \o (p \o r)) \o f  BY <3>1, <3>2, <3>3 DEF Stream
    <3>6. h \o (p \o r) = (h \o p) \o r  BY <3>4, ConcatAssociative
    <3>7. Ascending(h \o (p \o r), spoken + len) /\ OldFirst(h \o (p \o r), spoken, left)
      <4>1. /\ Ascending((h \o (p \o r)) \o f, spoken + len)
            /\ OldFirst((h \o (p \o r)) \o f, spoken, left)
        BY <1>2, <1>4, <3>5
      <4> QED  BY <3>4, <4>1, AscendingParts, OldFirstPart
    <3>8. Ascending((h \o p) \o r, spoken + len) /\ OldFirst((h \o p) \o r, spoken, left)
      BY <3>6, <3>7
    <3>9. Ascending(h \o p, spoken + len) /\ OldFirst(h \o p, spoken, left)
      BY <3>4, <3>8, AscendingParts, OldFirstPart
    <3> QED  BY <3>1, <3>3, <3>9
  <2> QED  BY <2>1, <2>2 DEF ClearFails, LastResultFails, history
<1> QED  BY <1>1, <1>5, <1>6 DEF Order, Whole, Room, Loops, Batch

\* The other steps leave the frames where they are.
LEMMA OthersKeepOrder ==
  ASSUME Types, Order, Room, NoFirst \/ Final \/ FinalFails \/ Clear \/ LastResult
  PROVE  Order' /\ Whole' /\ Room'
<1>1. /\ pc \in {"first", "final", "clear", "last"} /\ pc' \in {"loop", "clear", "done"}
      /\ UNCHANGED <<len, spoken, heard, front, fed, left>>
      /\ index' = index \/ index' = 0
      /\ pc' = "done" \/ pc # "last"
  BY DEF NoFirst, Final, FinalFails, Clear, LastResult, Goto, engine, history
<1>2. Pending = <<>> /\ Pending' = <<>>  BY <1>1 DEF Pending, Batch
<1>3. Upto' = Upto
  <2>1. CASE NoFirst
    <3>1. /\ offset \in Nat /\ len \in Nat /\ ReadSize \in Nat /\ offset >= len
          /\ offset' = offset + ReadSize /\ len' = len /\ pc = "first" /\ pc' = "loop"
      BY <2>1, Numeric DEF NoFirst, Goto, Types
    <3>2. Least(offset) = len /\ Least(offset)' = len  BY <3>1 DEF Least
    <3> QED  BY <3>1, <3>2 DEF Upto
  <2>2. CASE Final \/ FinalFails \/ Clear \/ LastResult
    BY <2>2 DEF Final, FinalFails, Clear, LastResult, Goto, Upto, Least
  <2> QED  BY <2>1, <2>2
<1>4. Stream' = Stream  BY <1>1, <1>2 DEF Stream
<1>5. Order'
  <2>1. pc \in Loops \cup {"clear", "done"} /\ pc' \notin {"failed", "idle", "reset"}
    BY <1>1 DEF Loops
  <2> QED  BY <1>1, <1>3, <1>4, <2>1 DEF Order
<1>6. Whole'  BY <1>1 DEF Whole
<1>7. Room'
  <2> SUFFICES ASSUME pc' # "done"
               PROVE  index' + 0 + Len(front) <= left + Upto + Stack
    BY <1>1, <1>2, <1>3 DEF Room, Loops, Batch
  <2>1. index \in Nat /\ left \in Nat /\ front \in Seq(Frames) /\ Upto \in Nat /\ Stack \in Nat
    BY UptoIs, Numeric DEF Types
  <2>2. index + Len(Pending) + Len(front) <= left + Upto + (IF pc = "first" THEN 0 ELSE Stack)
    BY <1>1 DEF Room, Loops
  <2>3. Len(Pending) = 0 /\ Len(front) \in Nat  BY <1>2, <2>1
  <2>4. index + 0 + Len(front) <= left + Upto + Stack  BY <2>1, <2>2, <2>3
  <2> QED  BY <1>1, <2>1, <2>3, <2>4
<1> QED  BY <1>5, <1>6, <1>7

\* A call begins with what a refused reset leaves in the front end.
LEMMA ResetBegins ==
  ASSUME Types, Control, Order, Reset
  PROVE  Order' /\ Whole' /\ Room'
<1>1. /\ pc = "reset" /\ pc' = "first" /\ offset' = 0 /\ index' = 0
      /\ heard' = <<>> /\ fed' = <<>> /\ len' = len /\ spoken' = spoken
      /\ front' \in {<<>>, front} /\ left' = Len(front')
  BY DEF Reset, Goto, Control
<1>2. Upto' = 0 /\ Pending' = <<>>
  <2>1. len \in Nat  BY Numeric
  <2>2. Least(0)' = 0  BY <1>1, <2>1 DEF Least
  <2> QED  BY <1>1, <2>2 DEF Upto, Least, Pending, Batch
<1>3. front' \in Seq(Frames) /\ Ascending(front', spoken)
  <2>1. <<>> \in Seq(Frames) /\ front \in Seq(Frames)  BY DEF Types
  <2>2. Ascending(front, spoken)  BY <1>1 DEF Order
  <2> QED  BY <1>1, <2>1, <2>2, AscendingNone
<1>4. Stream' = front'
  <2>1. Speech(Pending)' = <<>>  BY <1>2, SpeechEmpty
  <2>2. <<>> \o <<>> = <<>>  OBVIOUS
  <2>3. Stream' = <<>> \o front'  BY <1>1, <2>1, <2>2 DEF Stream
  <2> QED  BY <1>3, <2>3, ConcatEmptySeq
<1>5. Order'
  <2>1. OldFirst(front', spoken, left')  BY <1>1, <1>3 DEF OldFirst
  <2>2. <<>> = Following(spoken, 0)  BY DEF Following
  <2>3. spoken + 0 = spoken  BY DEF Types
  <2> QED  BY <1>1, <1>2, <1>3, <1>4, <2>1, <2>2, <2>3 DEF Order
<1>6. Whole'  BY <1>1 DEF Whole
<1>7. Room'
  <2>1. Len(<<>>) = 0 /\ Len(front') \in Nat  BY <1>3
  <2>2. index' + Len(Pending') + Len(front') <= left' + 0 + 0  BY <1>1, <1>2, <2>1
  <2> QED  BY <1>1, <1>2, <2>2 DEF Room
<1> QED  BY <1>5, <1>6, <1>7

\* What a call leaves in the front end is from before the next one.
LEMMA ReturnKeepsOrder ==
  ASSUME Types, Order, Return
  PROVE  Order' /\ Whole' /\ Room'
<1>1. pc \in {"done", "failed"} /\ pc' = "idle" /\ spoken' = spoken + len /\ UNCHANGED front
  BY DEF Return
<1>2. Ascending(front, spoken + len)
  <2>1. CASE pc = "failed"  BY <2>1 DEF Order
  <2>2. CASE pc = "done"
    <3>1. Upto = len  BY <2>2 DEF Upto
    <3>2. Ascending(Stream, spoken + len) /\ OldFirst(Stream, spoken, left)
      BY <2>2, <3>1 DEF Order
    <3> QED  BY <3>2, StreamParts
  <2> QED  BY <1>1, <2>1, <2>2
<1> QED  BY <1>1, <1>2 DEF Order, Whole, Room, Loops, Batch

\* Every step keeps the frames in order.
LEMMA OrderStep ==
  ASSUME Types, Control, Order, Whole, Room, [Next]_vars
  PROVE  Order' /\ Whole' /\ Room'
<1>1. CASE UNCHANGED vars \/ SetResetPeriod
  <2>1. UNCHANGED <<pc, len, spoken, offset, index, front, feature_vector, fed, heard, left>>
    BY <1>1 DEF vars, SetResetPeriod, locals, engine, history
  <2> QED  BY <2>1 DEF Order, Whole, Room, Upto, Least, Pending, Stream
<1>2. ASSUME NEW n \in Lengths, Call(n) PROVE Order' /\ Whole' /\ Room'
  <2>1. pc = "idle" /\ pc' = "reset" /\ spoken' = spoken /\ front' \in {<<>>, front}
    BY <1>2 DEF Call
  <2>2. Ascending(front', spoken)  BY <2>1, AscendingNone DEF Order
  <2> QED  BY <2>1, <2>2 DEF Order, Whole, Room, Loops, Batch
<1>3. CASE ReadFirst \/ Read  BY <1>3, ReadKeepsOrder
<1>4. CASE Run /\ ~(ReadFirst \/ Read)
  BY <1>4, ResetBegins, BatchKeepsOrder, FailKeepsOrder, FlushKeepsOrder, OthersKeepOrder,
     ReturnKeepsOrder DEF Run
<1> QED  BY <1>1, <1>2, <1>3, <1>4 DEF Next

-----------------------------------------------------------------------------
(* How much the decoder counts. *)

\* index counts frames that have been spoken or were left in the front end, and the stack.
Bounded == index <= Stack + left + len

\* index stays bounded: there are as many frames as it counts (Room).
LEMMA BoundedStep ==
  ASSUME Types, Bounded, [Next]_vars, Types', Control', Room'
  PROVE  Bounded'
<1>0. len' \in Nat /\ left' \in Nat /\ Stack \in Nat
  <2>1. len' \in Lengths \cup {0} /\ left' \in Nat  BY DEF Types
  <2> QED  BY <2>1, DecodeAssumption
<1>1. /\ index' \in Nat /\ pc' \in Points
      /\ front' \in Seq(Frames) /\ feature_vector' \in Seq(Frames)
  BY DecodeAssumption DEF Types
<1>2. CASE pc' \in Loops \cup {"clear"}
  <2>2. Upto' <= len' /\ Upto' \in Int
    <3>1. offset' \in Nat /\ ReadSize \in Nat  BY DecodeAssumption DEF Types
    <3>2. \/ Upto' = len'
          \/ Upto' = offset' /\ ~(offset' > len')
          \/ Upto' = offset' + ReadSize /\ ~(offset' + ReadSize > len')
      BY DEF Upto, Least
    <3>3. PICK m \in Nat, o \in Nat, r \in Nat : m = len' /\ o = offset' /\ r = ReadSize
      BY <1>0, <3>1
    <3>4. PICK u : u = Upto'  OBVIOUS
    <3>5. u = m \/ (u = o /\ ~(o > m)) \/ (u = o + r /\ ~(o + r > m))
      BY <3>2, <3>3, <3>4
    <3>6. u <= m /\ u \in Int
      <4>1. m \in Nat /\ o \in Nat /\ r \in Nat  OBVIOUS
      <4> QED  BY <3>5, <4>1
    <3> QED  BY <3>3, <3>4, <3>6
  <2>3. Len(Pending') \in Nat
    <3>1. <<>> \in Seq(Frames)  OBVIOUS
    <3>2. Pending' \in Seq(Frames)  BY <1>1, <3>1, Zenon DEF Pending
    <3> QED  BY <3>2
  <2>4. index' + Len(Pending') + Len(front') <= left' + Upto' + (IF pc' = "first" THEN 0 ELSE Stack)
    BY <1>2 DEF Room
  <2>5. index' \in Nat /\ Len(front') \in Nat  BY <1>1
  <2>6. PICK m \in Nat, i \in Nat, l \in Nat, a \in Nat, b \in Nat, u \in Int, d \in {0, Stack} :
          /\ m = len' /\ i = index' /\ l = left' /\ a = Len(Pending') /\ b = Len(front') /\ u = Upto'
          /\ i + a + b <= l + u + d /\ u <= m
    BY <1>0, <2>2, <2>3, <2>4, <2>5
  <2>7. PICK k \in Nat : k = Stack  BY <1>0
  <2>8. i + a + b <= l + u + d /\ u <= m /\ (d = 0 \/ d = k)  BY <2>6, <2>7
  <2>9. i <= k + l + m
    <3>1. i \in Nat /\ a \in Nat /\ b \in Nat /\ l \in Nat /\ u \in Int /\ m \in Nat /\ k \in Nat
      OBVIOUS
    <3> QED  BY <2>8, <3>1
  <2> QED  BY <2>6, <2>7, <2>9 DEF Bounded
<1>3. CASE pc' \in {"done", "failed"}
  <2>1. UNCHANGED <<index, len, left>>
    BY <1>3 DEF Next, NoResult, history, engine, Run, vars, locals, Goto, SetResetPeriod, Call, Reset, ReadFirst, StepFirst,
         NoFirst, Read, Step, StepFails, Final, FinalFails, Clear, ClearFails, Flush, StepFlush,
         LastResult, LastResultFails, Return
  <2> QED  BY <2>1 DEF Bounded
<1>4. CASE pc' \in {"idle", "reset"}
  <2>1. index' = 0  BY <1>4 DEF Control
  <2>2. PICK m \in Nat, l \in Nat : m = len' /\ l = left'  BY <1>0
  <2>3. 0 <= Stack + l + m  BY <1>0
  <2> QED  BY <2>1, <2>2, <2>3 DEF Bounded
<1> QED  BY <1>1, <1>2, <1>3, <1>4 DEF Points, Loops, Batch

-----------------------------------------------------------------------------
(* The times of the pieces. *)

\* The speech that has been heard is ahead of the times by no more than the stack
\* and the silence behind each piece, and a piece begins where the last one ended.
Pace ==
  /\ pc \in Loops =>
       last_position + index <= Stack + Len(result) * Silence + Len(heard)
  /\ pc = "clear" => last_position <= Stack + Len(result) * Silence + Len(heard)
  /\ last_position = (IF result = <<>> THEN 0 ELSE result[Len(result)].end)

\* What InTime says of one piece.
PieceInTime(res, i) ==
  /\ res[i].start = (IF i = 1 THEN 0 ELSE res[i - 1].end)
  /\ res[i].start <= res[i].end
  /\ res[i].end <= Stack + i * Silence + Len(FlattenSeq([j \in 1 .. i |-> res[j].frames]))

\* A new piece leaves those before it in time.
LEMMA PiecesStay ==
  ASSUME NEW res \in Seq(Pieces), NEW p \in Pieces, NEW i \in 1 .. Len(res)
  PROVE  PieceInTime(Append(res, p), i) <=> PieceInTime(res, i)
<1>1. PICK more : more = Append(res, p)  OBVIOUS
<1>2. \A j \in 1 .. Len(res) : more[j] = res[j]  BY <1>1, AppendProperties
<1>3. \A j \in 1 .. i : more[j] = res[j]  BY <1>2
<1>4. [j \in 1 .. i |-> more[j].frames] = [j \in 1 .. i |-> res[j].frames]  BY <1>3
<1>5. more[i] = res[i] /\ (i # 1 => more[i - 1] = res[i - 1])  BY <1>2
<1>6. PieceInTime(more, i) <=> PieceInTime(res, i)  BY <1>4, <1>5 DEF PieceInTime
<1> QED  BY <1>1, <1>6

\* The silence of one piece more.
LEMMA SilenceMore ==
  ASSUME NEW n \in Nat
  PROVE  (n + 1) * Silence = n * Silence + Silence /\ n * Silence \in Nat
BY DecodeAssumption

\* A result keeps the times in order, and stays behind the speech.
LEMMA ResultInTime ==
  ASSUME Types, Heard, Pace, InTime, pc \in Loops, AdjustedResult
  PROVE  /\ InTime'
         /\ last_position' <= Stack + Len(result') * Silence + Len(heard)
         /\ result' # <<>> /\ last_position' = result'[Len(result')].end
<1>1. PICK end \in Ends :
        /\ Piece(last_position, last_position + end) \in Pieces
        /\ result' = Append(result, Piece(last_position, last_position + end))
        /\ last_position' = last_position + end
        /\ end \in Nat
  BY TypesOfResult
<1> DEFINE p == Piece(last_position, last_position + end)
           n == Len(result)
<1>2. /\ result \in Seq(Pieces) /\ last_position \in Nat /\ n \in Nat /\ Stack \in Nat
      /\ Silence \in Nat /\ index \in Nat /\ Len(heard) \in Nat
  BY Numeric DEF Types
<1>3. p \in Pieces /\ p.start = last_position /\ p.end = last_position + end
  BY <1>1 DEF Piece
<1>4. end <= index + Silence  BY <1>2 DEF Ends
<1>5. last_position + index <= Stack + n * Silence + Len(heard)  BY DEF Pace
<1>6. (n + 1) * Silence = n * Silence + Silence /\ n * Silence \in Nat  BY <1>2, SilenceMore
<1>7. last_position + end <= Stack + (n + 1) * Silence + Len(heard)
  <2>1. PICK a \in Nat, b \in Nat : a = n * Silence /\ b = (n + 1) * Silence  BY <1>2, <1>6
  <2>2. b = a + Silence /\ last_position + index <= Stack + a + Len(heard)  BY <1>5, <1>6, <2>1
  <2>3. last_position + end <= Stack + b + Len(heard)  BY <1>1, <1>2, <1>4, <2>2
  <2> QED  BY <2>1, <2>3
<1>8. SaidOf(result') = heard
  <2>1. SaidOf(result') = SaidOf(result) \o Speech(laser)  BY ResultSays
  <2> QED  BY <2>1 DEF Heard
<1> HIDE DEF p
<1>9. /\ Len(result') = n + 1 /\ result'[n + 1] = p /\ result' = Append(result, p)
      /\ \A i \in 1 .. n : result'[i] = result[i]
      /\ result' \in Seq(Pieces)
  BY <1>1, <1>2, <1>3, AppendProperties DEF p
<1>10. PieceInTime(result', n + 1)
  <2>1. result'[n + 1].start = (IF n + 1 = 1 THEN 0 ELSE result'[n + 1 - 1].end)
    <3>1. CASE n = 0
      <4>1. last_position = 0  BY <1>2, <3>1 DEF Pace
      <4> QED  BY <1>3, <1>9, <3>1, <4>1
    <3>2. CASE n # 0
      <4>1. result # <<>> /\ n \in 1 .. n /\ n + 1 # 1 /\ n + 1 - 1 = n  BY <1>2, <3>2
      <4>2. last_position = result[n].end  BY <4>1 DEF Pace
      <4>3. result'[n] = result[n]  BY <1>9, <4>1
      <4> QED  BY <1>3, <1>9, <4>1, <4>2, <4>3
    <3> QED  BY <3>1, <3>2
  <2>2. p.start <= p.end  BY <1>1, <1>2, <1>3
  <2>3. [j \in 1 .. n + 1 |-> result'[j].frames] = TextsOf(result')
    <3>1. DOMAIN result' = 1 .. n + 1  BY <1>9
    <3> QED  BY <3>1 DEF TextsOf
  <2>4. FlattenSeq([j \in 1 .. n + 1 |-> result'[j].frames]) = heard
    BY <1>8, <2>3 DEF SaidOf, TextsOf
  <2>5. PICK k, said : k = n + 1 /\ said = heard  OBVIOUS
  <2>6. result'[k] = p /\ result'[k].start = (IF k = 1 THEN 0 ELSE result'[k - 1].end)
    BY <1>9, <2>1, <2>5
  <2>9. said = FlattenSeq([j \in 1 .. k |-> result'[j].frames])  BY <2>4, <2>5, Zenon
  <2>7. result'[k].end <= Stack + k * Silence + Len(said)  BY <1>3, <1>7, <2>5, <2>6
  <2>8. PieceInTime(result', k)  BY <2>2, <2>6, <2>7, <2>9 DEF PieceInTime
  <2> QED  BY <2>5, <2>8
<1>11. ASSUME NEW i \in 1 .. n PROVE PieceInTime(result', i)
  <2>1. i \in DOMAIN result  BY <1>2
  <2>2. PieceInTime(result, i)  BY <2>1 DEF InTime, PieceInTime
  <2> QED  BY <1>2, <1>3, <1>9, <2>2, PiecesStay
<1>12. InTime'
  <2>1. DOMAIN result' = 1 .. n + 1  BY <1>9
  <2>2. \A i \in DOMAIN result' : PieceInTime(result', i)  BY <1>2, <1>10, <1>11, <2>1
  <2> QED  BY <2>2 DEF InTime, PieceInTime
<1>13. result' # <<>>  BY <1>2, <1>9
<1> QED  BY <1>1, <1>3, <1>7, <1>9, <1>12, <1>13

\* The decoder takes the batch: what it takes is speech, or in the stack.
LEMMA BatchKeepsPace ==
  ASSUME Types, Control, Whole, Pace, StepFirst \/ Step \/ StepFlush
  PROVE  Pace'
<1>1. /\ pc \in Batch /\ pc' \in Loops /\ TakeBatch /\ UNCHANGED <<last_position, result>>
  BY DEF StepFirst, Step, StepFlush, Batch, Loops, Goto
<1>2. /\ index \in Nat /\ feature_vector \in Seq(Frames) /\ heard \in Seq(Frames)
      /\ Speech(feature_vector) \in Seq(Frames) /\ result \in Seq(Pieces)
      /\ last_position \in Nat /\ Stack \in Nat
  BY CellsOf, Numeric DEF Types
<1>3. /\ index' = index + Len(feature_vector)
      /\ Len(heard') = Len(heard) + Len(Speech(feature_vector))
  BY <1>1, <1>2, ConcatProperties DEF TakeBatch, Take
<1>4. PICK a, b \in Nat : a = Len(feature_vector) /\ b = Len(Speech(feature_vector))
  BY <1>2
<1>5. PICK c \in Nat : c = Len(result) * Silence
  BY <1>2, SilenceMore
<1>6. last_position + index' <= Stack + c + Len(heard')
  <2>1. CASE StepFirst
    <3>1. pc = "step_first"  BY <2>1 DEF StepFirst, Goto
    <3>2. index = 0 /\ heard = <<>> /\ last_position = 0  BY <3>1 DEF Control
    <3>3. a <= Stack + b  BY <1>4, <3>1 DEF Whole
    <3>4. Len(heard) = 0  BY <3>2
    <3> QED  BY <1>2, <1>3, <1>4, <1>5, <3>2, <3>3, <3>4
  <2>2. CASE Step \/ StepFlush
    <3>1. pc \in {"step", "step_flush"}  BY <2>2 DEF Step, StepFlush, Goto
    <3>2. a = b  BY <1>4, <3>1 DEF Whole
    <3>3. last_position + index <= Stack + c + Len(heard)  BY <1>1, <1>5 DEF Pace, Loops
    <3>4. Len(heard) \in Nat  BY <1>2
    <3> QED  BY <1>2, <1>3, <1>4, <1>5, <3>2, <3>3, <3>4
  <2> QED  BY <2>1, <2>2
<1>7. pc' # "clear"  BY <1>1 DEF Loops, Batch
<1> QED  BY <1>1, <1>5, <1>6, <1>7 DEF Pace

\* Every step keeps the pieces in time.
LEMMA PaceStep ==
  ASSUME Types, Control, Heard, Whole, Pace, InTime, [Next]_vars
  PROVE  Pace' /\ InTime'
<1> USE DEF Goto, history, locals, engine
<1>1. ASSUME UNCHANGED <<last_position, result>> PROVE InTime'
  BY <1>1 DEF InTime
<1>2. CASE UNCHANGED vars \/ SetResetPeriod
  <2>1. UNCHANGED <<pc, last_position, index, result, heard>>  BY <1>2 DEF vars, SetResetPeriod
  <2> QED  BY <1>1, <2>1 DEF Pace
<1>3. ASSUME UNCHANGED <<last_position, result>>, pc' \notin Loops \cup {"clear"}
      PROVE  Pace' /\ InTime'
  BY <1>1, <1>3 DEF Pace
<1>4. ASSUME NEW n \in Lengths, Call(n) PROVE Pace' /\ InTime'
  BY <1>3, <1>4 DEF Call, Loops, Batch
<1>5. CASE Run
  <2>1. CASE Reset
    <3>1. /\ pc' = "first" /\ index' = 0 /\ result' = <<>> /\ result = <<>>
          /\ last_position' = 0 /\ last_position = 0 /\ heard' = <<>>
      BY <2>1 DEF Reset, Control
    <3>2. Len(<<>>) = 0 /\ 0 * Silence = 0 /\ Stack \in Nat  BY DecodeAssumption
    <3> QED  BY <1>1, <3>1, <3>2 DEF Pace
  <2>2. CASE ReadFirst \/ NoFirst \/ Read \/ FinalFails \/ Flush
    <3>1. pc \in Loops /\ pc' \in Loops /\ UNCHANGED <<last_position, index, result, heard>>
      BY <2>2 DEF ReadFirst, NoFirst, Read, FinalFails, NoResult, Flush, Loops, Batch
    <3> QED  BY <1>1, <3>1 DEF Pace, Loops, Batch
  <2>3. CASE StepFirst \/ Step \/ StepFlush
    <3>1. UNCHANGED <<last_position, result>>  BY <2>3 DEF StepFirst, Step, StepFlush
    <3> QED  BY <1>1, <2>3, <3>1, BatchKeepsPace
  <2>4. CASE Final
    <3>1. pc = "final" /\ pc' = "clear" /\ AdjustedResult /\ heard' = heard  BY <2>4 DEF Final
    <3>2. pc \in Loops  BY <3>1 DEF Loops
    <3> QED  BY <3>1, <3>2, ResultInTime DEF Pace, Loops, Batch
  <2>5. CASE Clear
    <3>1. /\ pc = "clear" /\ pc' = "loop" /\ index' = 0
          /\ UNCHANGED <<last_position, result, heard>>
      BY <2>5 DEF Clear
    <3>2. last_position \in Nat  BY DEF Types
    <3>3. last_position + index' = last_position  BY <3>1, <3>2
    <3> QED  BY <1>1, <3>1, <3>3 DEF Pace, Loops, Batch
  <2>6. CASE LastResult
    <3>1. pc = "last" /\ pc' = "done"  BY <2>6 DEF LastResult
    <3>2. CASE index > 0
      <4>1. AdjustedResult /\ pc \in Loops  BY <2>6, <3>1, <3>2 DEF LastResult, Loops
      <4> QED  BY <3>1, <4>1, ResultInTime DEF Pace, Loops, Batch
    <3>3. CASE ~(index > 0)
      <4>1. UNCHANGED <<last_position, result>>  BY <2>6, <3>3 DEF LastResult
      <4> QED  BY <1>3, <3>1, <4>1 DEF Loops, Batch
    <3> QED  BY <3>2, <3>3
  <2>7. CASE StepFails \/ ClearFails \/ LastResultFails
    <3>1. pc' = "failed" /\ UNCHANGED <<last_position, result>>
      BY <2>7 DEF StepFails, ClearFails, LastResultFails, NoResult
    <3> QED  BY <1>3, <3>1 DEF Loops, Batch
  <2>8. CASE Return
    <3>1. pc' = "idle" /\ result' = <<>> /\ last_position' = 0  BY <2>8 DEF Return
    <3>2. DOMAIN result' = {}  BY <3>1
    <3> QED  BY <3>1, <3>2 DEF Pace, InTime, Loops, Batch
  <2> QED  BY <1>5, <2>1, <2>2, <2>3, <2>4, <2>5, <2>6, <2>7, <2>8 DEF Run
<1> QED  BY <1>2, <1>4, <1>5 DEF Next

-----------------------------------------------------------------------------
(* The inductive invariant. *)

\* What every step keeps.  Types and Control stand alone; Counted, Heard, Once and Order
\* rest on Control; Room bounds index; Pace needs Whole.
Inv ==
  /\ Types /\ Control
  /\ Counted /\ Heard /\ Once
  /\ Order /\ Whole /\ Room /\ Bounded
  /\ Pace /\ InTime

\* It holds of a recogniser that has not been called.
LEMMA InvInit == ASSUME Init PROVE Inv
<1> USE DEF Init
<1>1. Types
  <2>1. <<>> \in Seq(Frames) /\ <<>> \in Seq(Pieces)  OBVIOUS
  <2> QED  BY <2>1, DecodeAssumption DEF Types, Points
<1>2. Control /\ Counted /\ Heard /\ Whole /\ Room
  BY DEF Control, Counted, Heard, Whole, Room, Loops, Batch
<1>6. Order  BY AscendingNone DEF Order, Loops, Batch
<1>7. Once  BY DEF Once
<1>3. Bounded  BY DecodeAssumption DEF Bounded
<1>4. Pace  BY DEF Pace, Loops, Batch
<1>5. InTime  BY DEF InTime
<1> QED  BY <1>1, <1>2, <1>3, <1>4, <1>5, <1>6, <1>7 DEF Inv

\* Each part is kept by the parts before it.
LEMMA InvStep == ASSUME Inv, [Next]_vars PROVE Inv'
<1>1. /\ Types /\ Control /\ Counted /\ Heard /\ Once
      /\ Order /\ Whole /\ Room /\ Bounded /\ Pace /\ InTime
  BY DEF Inv
<1>2. Types'  BY <1>1, TypesStep
<1>3. Control'  BY <1>1, ControlStep
<1>4. Counted'  BY <1>1, CountedStep
<1>5. Heard'  BY <1>1, HeardStep
<1>6. Order' /\ Whole' /\ Room'  BY <1>1, OrderStep
<1>7. Bounded'  BY <1>1, <1>2, <1>3, <1>6, BoundedStep
<1>8. Pace' /\ InTime'  BY <1>1, PaceStep
<1>9. Once'  BY <1>1, OnceStep
<1> QED  BY <1>2, <1>3, <1>4, <1>5, <1>6, <1>7, <1>8, <1>9 DEF Inv

\* It holds for ever.
LEMMA InvHolds == Spec => []Inv
<1>1. Init => Inv  BY InvInit
<1>2. Inv /\ [Next]_vars => Inv'  BY InvStep
<1> QED  BY <1>1, <1>2, PTL DEF Spec

-----------------------------------------------------------------------------
(* The theorems. *)

\* Every variable has its type, and index counts no more frames than the recording and
\* the stack have and a refused reset has left in the front end, however often a result
\* fails and the count goes on (vr.cc:602-739, rt.cc:220-321).
THEOREM TypeCorrect == Spec => []TypeOK
<1>1. Inv => TypeOK
  <2> SUFFICES ASSUME Inv PROVE TypeOK
    OBVIOUS
  <2>1. Types /\ Bounded  BY DEF Inv
  <2>2. index \in 0 .. Stack + left + len
    <3>1. index \in Nat /\ len \in Nat /\ left \in Nat /\ Stack \in Nat  BY <2>1, Numeric DEF Types
    <3> QED  BY <2>1, <3>1 DEF Bounded
  <2> QED  BY <2>1, <2>2 DEF TypeOK, Types
<1> QED  BY <1>1, InvHolds, PTL

\* A call recognises what was spoken in it, in order and nothing twice.  A reset that is
\* refused, and ignored, lets in what an earlier call has left, and then that comes first
\* and only once: of the front end at most the frames it held when the call began, of the
\* decoder what it held, with the first piece of text.  Where the decoder is asked for its
\* text, each frame it has not yet said is counted by `index`; between two batches the
\* front end has been given the recording up to `offset`, each part once
\* (vr.cc:597-739, rt.cc:220-321).
THEOREM SpeechIsOwn == Spec => []OwnSpeech
<1>1. Inv => OwnSpeech
  <2> SUFFICES ASSUME Inv PROVE OwnSpeech
    OBVIOUS
  <2>1. Types /\ Control /\ Counted /\ Order /\ Once  BY DEF Inv
  <2>2. heard \in Seq(Frames) /\ pc \in Points /\ spoken \in Nat  BY <2>1 DEF Types
  <2>3. ASSUME NEW hi, Ascending(heard, hi), OldFirst(heard, spoken, left)
        PROVE  \A i \in DOMAIN heard : /\ heard[i] > spoken \/ i <= left
                                       /\ \A j \in 1 .. i - 1 : heard[j] < heard[i]
    <3>1. DOMAIN heard = 1 .. Len(heard)  BY <2>2
    <3> QED  BY <2>3, <3>1 DEF Ascending, OldFirst
  <2>4. \A i \in DOMAIN heard : /\ heard[i] > spoken \/ i <= left
                                /\ \A j \in 1 .. i - 1 : heard[j] < heard[i]
    <3>1. CASE pc \in Loops \cup {"clear", "done"}
      <4>1. Ascending(Stream, spoken + Upto) /\ OldFirst(Stream, spoken, left)
        BY <2>1, <3>1 DEF Order
      <4>2. Ascending(heard, spoken + Upto) /\ OldFirst(heard, spoken, left)
        BY <2>1, <4>1, StreamParts
      <4> QED  BY <2>3, <4>2
    <3>2. CASE pc = "failed"
      <4>1. Ascending(heard, spoken + len) /\ OldFirst(heard, spoken, left)
        BY <2>1, <3>2 DEF Order
      <4> QED  BY <2>3, <4>1
    <3>3. CASE pc \in {"idle", "reset"}
      <4>1. heard = <<>>  BY <2>1, <3>3 DEF Control
      <4> QED  BY <4>1
    <3> QED  BY <2>2, <3>1, <3>2, <3>3 DEF Points, Loops, Batch
  <2>5. pc \in {"loop", "final", "last"} => Len(Speech(laser)) <= index
    BY <2>1 DEF Counted, Loops
  <2>6. pc = "loop" => fed = [i \in 1 .. IF offset > len THEN len ELSE offset |-> spoken + i]
    <3> SUFFICES ASSUME pc = "loop"
                 PROVE  fed = [i \in 1 .. IF offset > len THEN len ELSE offset |-> spoken + i]
      OBVIOUS
    <3>1. Upto = IF offset > len THEN len ELSE offset  BY DEF Upto, Least
    <3>2. fed = Following(spoken, Upto)  BY <2>1 DEF Order, Loops
    <3> QED  BY <3>1, <3>2 DEF Following
  <2>7. \A i \in DOMAIN result : result[i].old # <<>> => i = 1  BY <2>1 DEF Once
  <2> QED  BY <2>4, <2>5, <2>6, <2>7 DEF OwnSpeech
<1> QED  BY <1>1, InvHolds, PTL

\* The pieces of text follow one another in time, and none is ahead of the speech
\* by more than the silence it was given and the stack of the first.
THEOREM TextIsInTime == Spec => []InTime
<1>1. Inv => InTime  BY DEF Inv
<1> QED  BY <1>1, InvHolds, PTL

-----------------------------------------------------------------------------
(* The refinement of Transcript. *)

\* More heard is the old with something behind it.
LEMMA HearsMore ==
  ASSUME NEW s \in Seq(Frames), NEW t \in Seq(Frames)
  PROVE  IsPrefix(s, s \o t)
<1>1. Len(s \o t) = Len(s) + Len(t) /\ Len(s) \in Nat /\ Len(t) \in Nat
  BY ConcatProperties
<1>2. SubSeq(s \o t, 1, Len(s)) = s /\ SubSeq(s, 1, Len(s)) = s
  OBVIOUS
<1> QED  BY <1>1, <1>2 DEF IsPrefix

\* What the steps of the recogniser are to its caller.
LEMMA StepRefines ==
  ASSUME Inv, [Next]_vars
  PROVE  [Recognition!Next]_(Recognition!vars)
<1> USE DEF Goto, history, locals, engine
<1> DEFINE R == [Recognition!Next]_(Recognition!vars)
<1>1. /\ Types /\ Control /\ Counted /\ Heard
      /\ heard \in Seq(Frames) /\ pc \in Points
  BY DEF Inv, Types
<1>2. ASSUME UNCHANGED <<heard, result, State>> PROVE R
  BY <1>2 DEF Recognition!vars, Said
<1>3. ASSUME NEW more \in Seq(Frames), heard' = heard \o more, UNCHANGED result,
             State = "running", State' \in {"running", "failed"}
      PROVE  R
  <2>1. Recognition!IsPrefix(heard, heard')
    BY <1>1, <1>3, HearsMore DEF IsPrefix, Recognition!IsPrefix
  <2>2. UNCHANGED Said  BY <1>3 DEF Said
  <2> QED  BY <1>3, <2>1, <2>2 DEF Recognition!Next, Recognition!Hear, Recognition!Fail
<1>4. ASSUME UNCHANGED <<heard, result>>, State = "running", State' = "failed" PROVE R
  <2>0. <<>> \in Seq(Frames)  OBVIOUS
  <2>1. PICK none \in Seq(Frames) : none = <<>>  BY <2>0, Zenon
  <2>2. heard' = heard \o none  BY <1>1, <1>4, <2>1, ConcatEmptySeq
  <2> QED  BY <1>3, <1>4, <2>2
<1>5. ASSUME NEW n \in Lengths, Call(n) PROVE R
  <2>1. State = "idle" /\ State' = "running"  BY <1>5 DEF Call, State
  <2>2. UNCHANGED <<heard, Said>>  BY <1>5 DEF Call, Said
  <2> QED  BY <2>1, <2>2 DEF Recognition!Next, Recognition!Begin
<1>6. CASE UNCHANGED vars \/ SetResetPeriod
  BY <1>2, <1>6 DEF vars, SetResetPeriod, State
<1>7. CASE Run
  <2>1. CASE Reset \/ ReadFirst \/ NoFirst \/ Read \/ FinalFails \/ Clear \/ Flush
    <3>1. UNCHANGED <<heard, result>>
      BY <2>1 DEF Reset, ReadFirst, NoFirst, Read, FinalFails, NoResult, Clear, Flush
    <3>2. State = "running" /\ State' = "running"
      BY <2>1 DEF Reset, ReadFirst, NoFirst, Read, FinalFails, Clear, Flush, State
    <3> QED  BY <1>2, <3>1, <3>2
  <2>2. CASE StepFirst \/ Step \/ StepFlush
    <3>1. Take(feature_vector) /\ UNCHANGED result
      BY <2>2 DEF StepFirst, Step, StepFlush, TakeBatch
    <3>2. State = "running" /\ State' = "running"
      BY <2>2 DEF StepFirst, Step, StepFlush, State
    <3>3. Speech(feature_vector) \in Seq(Frames)  BY <1>1, CellsOf DEF Types
    <3> QED  BY <1>3, <3>1, <3>2, <3>3 DEF Take
  <2>3. CASE StepFails
    <3>1. pc \in Batch /\ pc' = "failed" /\ UNCHANGED result  BY <1>1, <2>3, FailedBatch
    <3>2. PICK more \in Seq(Frames) : heard' = heard \o more  BY <1>1, <2>3, FailedBatch
    <3>3. State = "running" /\ State' = "failed"  BY <3>1 DEF State, Batch
    <3> QED  BY <1>3, <3>1, <3>2, <3>3
  <2>4. CASE ClearFails \/ LastResultFails
    <3>1. UNCHANGED <<heard, result>>  BY <2>4 DEF ClearFails, LastResultFails, NoResult
    <3>2. State = "running" /\ State' = "failed"
      BY <2>4 DEF ClearFails, LastResultFails, State
    <3> QED  BY <1>4, <3>1, <3>2
  <2>5. CASE Final
    <3>1. State = "running" /\ State' = "running"  BY <2>5 DEF Final, State
    <3>2. pc' = "clear" /\ UNCHANGED heard  BY <2>5 DEF Final
    <3>3. Said' = heard
      <4>1. Heard'  BY <1>1, HeardStep
      <4> QED  BY <3>2, <4>1 DEF Heard, Said, SaidOf
    <3> QED  BY <3>1, <3>2, <3>3 DEF Recognition!Next, Recognition!Say
  <2>6. CASE LastResult
    <3>1. State = "running" /\ State' = "done"  BY <2>6 DEF LastResult, State
    <3>2. pc' = "done" /\ UNCHANGED heard  BY <2>6 DEF LastResult
    <3>3. Said' = heard
      <4>1. Heard'  BY <1>1, HeardStep
      <4> QED  BY <3>2, <4>1 DEF Heard, Said, SaidOf
    <3> QED  BY <3>1, <3>2, <3>3 DEF Recognition!Next, Recognition!Succeed
  <2>7. CASE Return
    <3>1. State \in {"done", "failed"} /\ State' = "idle"  BY <2>7 DEF Return, State
    <3>2. heard' = <<>> /\ result' = <<>>  BY <2>7 DEF Return
    <3>3. Said' = SaidOf(result')  BY DEF Said, SaidOf
    <3>4. Said' = <<>>  BY <3>2, <3>3, SaidOfNone
    <3> QED  BY <3>1, <3>2, <3>4 DEF Recognition!Next, Recognition!End
  <2> QED  BY <1>7, <2>1, <2>2, <2>3, <2>4, <2>5, <2>6, <2>7 DEF Run
<1> HIDE DEF R
<1> QED  BY <1>5, <1>6, <1>7 DEF Next, R

\* The recogniser keeps the promise of Transcript: no frame is said twice, out of
\* order or without having been heard, and a call that succeeds has said every frame
\* it has heard, across resets, results that fail and the flush.
THEOREM TranscriptIsKept == Spec => Recognition!Safety
<1>1. Init => Recognition!Init
  <2> SUFFICES ASSUME Init PROVE Recognition!Init
    OBVIOUS
  <2>1. heard = <<>> /\ result = <<>> /\ State = "idle"  BY DEF Init, State
  <2>2. Said = SaidOf(result)  BY DEF Said, SaidOf
  <2> QED  BY <2>1, <2>2, SaidOfNone DEF Recognition!Init
<1>2. Inv /\ [Next]_vars => [Recognition!Next]_(Recognition!vars)  BY StepRefines
<1> QED  BY <1>1, <1>2, InvHolds, PTL DEF Spec, Recognition!Safety

-----------------------------------------------------------------------------
(* Why a call ends. *)

\* The points behind the loops, and how far each point is from the end of its round.
Ending == {"step_flush", "last", "done", "failed", "idle"}
Rank == [reset |-> 7, first |-> 6, step_first |-> 5, loop |-> 4, step |-> 3, final |-> 2,
         clear |-> 1, step_flush |-> 3, last |-> 2, done |-> 1, failed |-> 1, idle |-> 0]

\* At most this many steps are left of the call.
Left == Rank[pc] + (IF pc \in Ending THEN 0 ELSE 8 * (len - Least(offset)))

\* A batch is a batch of a chunk that is not behind the end.
Reading == pc \in {"step_first", "step", "final", "clear"} => offset < len

\* Each step of the thread of a call brings the call nearer to its end, and the
\* reset period that is set meanwhile makes it no longer.
Nears ==
  /\ Run => Left' \in Nat /\ Left' < Left
  /\ ~Run /\ pc # "idle" => Left' = Left

\* Every step of a call takes it nearer to its end (the loops of vr.cc:602-739, rt.cc:220-321).
CallComesToEnd == [][Nears]_vars

\* offset moves only when a batch is done with.
LEMMA ReadingStep == ASSUME Reading, [Next]_vars PROVE Reading'
<1> USE DEF Goto, history, locals, engine, Reading
<1>1. CASE UNCHANGED vars  BY <1>1 DEF vars
<1>2. CASE SetResetPeriod  BY <1>2 DEF SetResetPeriod
<1>3. ASSUME NEW n \in Lengths, Call(n) PROVE Reading'  BY <1>3 DEF Call
<1>4. CASE ReadFirst \/ Read  BY <1>4 DEF ReadFirst, Read, StepFrame
<1>5. CASE Step \/ Final  BY <1>5 DEF Step, Final
<1>6. CASE Run /\ ~(ReadFirst \/ Read \/ Step \/ Final)
  <2>1. pc' \notin {"step_first", "step", "final", "clear"}
    BY <1>6 DEF Run, Reset, StepFirst, NoFirst, StepFails, FinalFails, Clear, ClearFails, Flush,
                StepFlush, LastResult, LastResultFails, Return
  <2> QED  BY <2>1
<1> QED  BY <1>1, <1>2, <1>3, <1>4, <1>5, <1>6 DEF Next

\* What the steps do to offset: those inside a round leave it, those that end a
\* round move it on, and those behind the loops need it no more.
LEMMA RoundStep ==
  ASSUME Inv, Reading, Run
  PROVE  \/ /\ pc \notin Ending /\ pc' \notin Ending /\ UNCHANGED <<len, offset>>
            /\ Rank[pc'] < Rank[pc]
         \/ /\ pc \notin Ending /\ pc' \notin Ending /\ UNCHANGED len
            /\ offset < len /\ offset' = offset + ReadSize
            /\ Rank[pc'] < Rank[pc] + 8
         \/ /\ pc = "first" /\ pc' = "loop" /\ UNCHANGED len
            /\ offset >= len /\ offset' = offset + ReadSize
         \/ /\ pc \notin Ending /\ pc' \in Ending
            /\ Rank[pc'] < Rank[pc] \/ (offset < len /\ Rank[pc'] = Rank[pc])
         \/ pc \in Ending /\ pc' \in Ending /\ Rank[pc'] < Rank[pc]
<1> USE DEF Goto, Ending, Rank
<1>1. CASE Reset \/ Final
  BY <1>1 DEF Reset, Final
<1>2. CASE ReadFirst  BY <1>2 DEF ReadFirst, StepFrame
<1>3. CASE Read  BY <1>3 DEF Read, StepFrame
<1>4. CASE Step  BY <1>4 DEF Step, Reading
<1>5. CASE StepFirst \/ FinalFails \/ Clear
  BY <1>5 DEF StepFirst, FinalFails, Clear, Reading
<1>6. CASE NoFirst  BY <1>6 DEF NoFirst
<1>7. CASE StepFails  BY <1>7 DEF StepFails
<1>8. CASE ClearFails \/ Flush
  BY <1>8 DEF ClearFails, Flush, Reading
<1>9. CASE StepFlush \/ LastResult \/ LastResultFails \/ Return
  BY <1>9 DEF StepFlush, LastResult, LastResultFails, Return
<1> QED  BY <1>1, <1>2, <1>3, <1>4, <1>5, <1>6, <1>7, <1>8, <1>9 DEF Run

\* What is left is a number, of steps for each chunk that has not been read.
LEMMA LeftIs ==
  ASSUME NEW l \in Nat, NEW o \in Nat, NEW r \in Nat \ {0}
  PROVE  LET rest(x) == l - (IF x > l THEN l ELSE x)
         IN  /\ rest(o) \in Nat
             /\ o < l => rest(o + r) + 1 <= rest(o) /\ rest(o + r) \in Nat
             /\ o >= l => rest(o + r) = 0 /\ rest(o) = 0
OBVIOUS

\* Each step takes one of the steps that are left.
LEMMA LeftFalls ==
  ASSUME Inv, Reading, Types', Run
  PROVE  Left' \in Nat /\ Left' < Left
<1>1. /\ pc \in Points /\ pc' \in Points /\ offset \in Nat /\ len \in Nat /\ offset' \in Nat
      /\ ReadSize \in Nat \ {0}
  BY Numeric DEF Inv, Types
<1>2. len' \in Nat
  <2>1. len' \in Lengths \cup {0}  BY DEF Types
  <2> QED  BY <2>1, DecodeAssumption
<1>3. PICK l \in Nat, o \in Nat, r \in Nat \ {0}, m \in Nat, q \in Nat :
        l = len /\ o = offset /\ r = ReadSize /\ m = len' /\ q = offset'
  BY <1>1, <1>2
<1>4. PICK a, b : a = Rank[pc] /\ b = Rank[pc']  OBVIOUS
<1>5. a \in 0 .. 7 /\ b \in 0 .. 7  BY <1>1, <1>4 DEF Points, Rank
<1> DEFINE rest(x) == l - (IF x > l THEN l ELSE x)
<1>6. /\ rest(o) \in Nat
      /\ o < l => rest(o + r) + 1 <= rest(o) /\ rest(o + r) \in Nat
      /\ o >= l => rest(o + r) = 0 /\ rest(o) = 0
  BY LeftIs
<1>7. Left = a + (IF pc \in Ending THEN 0 ELSE 8 * rest(o))
  BY <1>3, <1>4 DEF Left, Least
<1>8. Left' = b + (IF pc' \in Ending THEN 0 ELSE 8 * (m - (IF q > m THEN m ELSE q)))
  BY <1>3, <1>4 DEF Left, Least
<1>9. m = l => Left' = b + (IF pc' \in Ending THEN 0 ELSE 8 * rest(q))
  BY <1>8
<1> HIDE DEF rest
<1>10. PICK x, y, z : x = rest(o) /\ y = rest(o + r) /\ z = rest(q)  OBVIOUS
<1>11. x \in Nat /\ (o < l => y + 1 <= x /\ y \in Nat) /\ (o >= l => x = 0 /\ y = 0)
  BY <1>6, <1>10
<1>12. CASE pc \notin Ending /\ pc' \notin Ending /\ UNCHANGED <<len, offset>> /\ b < a
  <2>1. Left = a + 8 * x /\ Left' = b + 8 * x
    BY <1>3, <1>7, <1>9, <1>10, <1>12
  <2> QED  BY <1>5, <1>11, <1>12, <2>1
<1>13. CASE /\ pc \notin Ending /\ pc' \notin Ending /\ UNCHANGED len
            /\ offset < len /\ offset' = offset + ReadSize /\ b < a + 8
  <2>1. Left = a + 8 * x /\ Left' = b + 8 * y /\ o < l
    BY <1>3, <1>7, <1>9, <1>10, <1>13
  <2> QED  BY <1>5, <1>11, <1>13, <2>1
<1>14. CASE /\ pc = "first" /\ pc' = "loop" /\ UNCHANGED len
            /\ offset >= len /\ offset' = offset + ReadSize
  <2>1. pc \notin Ending /\ pc' \notin Ending /\ a = 6 /\ b = 4
    BY <1>4, <1>14 DEF Ending, Rank
  <2>2. Left = a + 8 * x /\ Left' = b + 8 * y /\ o >= l
    BY <1>3, <1>7, <1>9, <1>10, <1>14, <2>1
  <2> QED  BY <1>11, <2>1, <2>2
<1>15. CASE /\ pc \notin Ending /\ pc' \in Ending
            /\ b < a \/ (offset < len /\ b = a)
  <2>1. Left = a + 8 * x /\ Left' = b  BY <1>5, <1>7, <1>8, <1>10, <1>15
  <2>2. b < a \/ (o < l /\ b = a)  BY <1>3, <1>15
  <2> QED  BY <1>5, <1>11, <2>1, <2>2
<1>16. CASE pc \in Ending /\ pc' \in Ending /\ b < a
  <2>1. Left = a /\ Left' = b  BY <1>5, <1>7, <1>8, <1>16
  <2> QED  BY <1>5, <1>16, <2>1
<1> QED  BY <1>4, <1>12, <1>13, <1>14, <1>15, <1>16, RoundStep

\* A call that has only begun has the most steps left.
LEMMA LeftBounded == ASSUME Types PROVE Left \in 0 .. 8 * len + 7
<1>1. pc \in Points /\ offset \in Nat /\ len \in Nat  BY Numeric DEF Types
<1>2. PICK a : a = Rank[pc]  OBVIOUS
<1>3. a \in 0 .. 7  BY <1>1, <1>2 DEF Points, Rank
<1>4. PICK x : x = len - Least(offset)  OBVIOUS
<1>5. x \in 0 .. len  BY <1>1, <1>4 DEF Least
<1>6. Left = a + (IF pc \in Ending THEN 0 ELSE 8 * x)  BY <1>2, <1>4 DEF Left
<1>7. CASE pc \in Ending
  <2>1. Left = a  BY <1>3, <1>6, <1>7
  <2> QED  BY <1>1, <1>3, <2>1
<1>8. CASE pc \notin Ending
  <2>1. Left = a + 8 * x  BY <1>6, <1>8
  <2> QED  BY <1>1, <1>3, <1>5, <2>1
<1> QED  BY <1>7, <1>8

\* A call takes at most 8 * len + 7 steps, for every length and every chunk, however
\* the front end and the decoder answer: neither an empty batch, nor a result that
\* fails, nor a reset in the middle makes the loops go round without reading on
\* (vr.cc:602-739, rt.cc:220-321).
THEOREM CallEnds == Spec => CallComesToEnd /\ [](Left \in 0 .. 8 * len + 7)
<1>1. Init => Reading  BY DEF Init, Reading
<1>2. Reading /\ [Next]_vars => Reading'  BY ReadingStep
<1>3. Inv /\ Reading /\ Inv' /\ [Next]_vars
      => [Nears]_vars
  <2> SUFFICES ASSUME Inv, Reading, Inv', [Next]_vars PROVE Nears \/ UNCHANGED vars
    OBVIOUS
  <2>1. CASE Run
    <3>1. Types'  BY DEF Inv
    <3> QED  BY <2>1, <3>1, LeftFalls DEF Nears
  <2>2. CASE ~Run /\ SetResetPeriod
    <3>1. UNCHANGED <<pc, len, offset>>  BY <2>2 DEF SetResetPeriod, locals
    <3> QED  BY <2>2, <3>1 DEF Nears, Left, Least
  <2>3. ASSUME ~Run, NEW n \in Lengths, Call(n) PROVE Nears
    BY <2>3 DEF Call, Nears
  <2> QED  BY <2>1, <2>2, <2>3 DEF Next
<1>4. Inv => Left \in 0 .. 8 * len + 7  BY LeftBounded DEF Inv
<1> QED  BY <1>1, <1>2, <1>3, <1>4, InvHolds, PTL DEF Spec, CallComesToEnd
=============================================================================
