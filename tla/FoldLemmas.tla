----------------------------- MODULE FoldLemmas -----------------------------
(***************************************************************************)
(* What the proofs need to know about data that is defined by recursion:   *)
(* induction over the natural numbers, in a form without an operator as a  *)
(* parameter; FlattenSeq; and sums over the elements of a finite set.      *)
(***************************************************************************)
EXTENDS Integers, Sequences, FiniteSets, Functions, SequencesExt,
        FiniteSetTheorems, SequenceTheorems, WellFoundedInduction, TLAPS

\* A set of natural numbers that has 0, and with each number the next, has them all.
LEMMA Induct ==
  ASSUME NEW S \in SUBSET Nat, 0 \in S, \A n \in S : n + 1 \in S
  PROVE  S = Nat
<1> DEFINE T == Nat \ S
           R == {ss \in Nat \X Nat : ss[1] < ss[2]}
<1> SUFFICES ASSUME T # {} PROVE FALSE
  OBVIOUS
<1>1. IsWellFoundedOn(R, Nat)
  BY NatLessThanWellFounded DEF OpToRel
<1>2. T \subseteq Nat
  OBVIOUS
<1>3. PICK x \in T : \A y \in T : ~ (<<y, x>> \in R)
  <2> HIDE DEF T, R
  <2> QED  BY <1>1, <1>2, WFMin
<1>4. x - 1 \in T /\ <<x - 1, x>> \in R
  OBVIOUS
<1> QED
  BY <1>3, <1>4

\* A set of sequences that has the empty one, and with each sequence all that are
\* longer by one element, has them all.
LEMMA SeqInduct ==
  ASSUME NEW S, NEW T \in SUBSET Seq(S), <<>> \in T,
         \A s \in T : \A x \in S : Append(s, x) \in T
  PROVE  T = Seq(S)
<1> DEFINE All(m) == \A s \in Seq(S) : Len(s) = m => s \in T
<1>1. All(0)  OBVIOUS
<1>2. ASSUME NEW m \in Nat, All(m) PROVE All(m + 1)
  <2> SUFFICES ASSUME NEW s \in Seq(S), Len(s) = m + 1 PROVE s \in T
    OBVIOUS
  <2> DEFINE f == SubSeq(s, 1, m)
             x == s[m + 1]
  <2>1. f \in Seq(S) /\ Len(f) = m /\ x \in S  OBVIOUS
  <2>2. s = Append(f, x)
    <3>1. Append(f, x) \in Seq(S) /\ Len(Append(f, x)) = m + 1
          /\ \A i \in 1 .. m + 1 : s[i] = Append(f, x)[i]
      OBVIOUS
    <3> HIDE DEF f, x
    <3> QED  BY <3>1, SeqEqual
  <2> HIDE DEF f, x
  <2>3. f \in T  BY <1>2, <2>1
  <2> QED  BY <2>1, <2>2, <2>3
<1>3. \A m \in Nat : All(m)
  <2> DEFINE N == {m \in Nat : All(m)}
  <2> HIDE DEF All
  <2>1. N \in SUBSET Nat /\ 0 \in N /\ \A m \in N : m + 1 \in N  BY <1>1, <1>2
  <2>2. N = Nat
    <3> HIDE DEF N
    <3> QED  BY <2>1, Induct
  <2> QED  BY <2>2
<1>4. \A s \in Seq(S) : Len(s) \in Nat  OBVIOUS
<1>5. \A s \in Seq(S) : s \in T  BY <1>3, <1>4
<1> QED  BY <1>5

-----------------------------------------------------------------------------
(* FlattenSeq. *)

\* The items of a list that is flattened; a name of their own keeps sequences of
\* sequences out of the proofs that have no use for them.
Items(S) == Seq(S)

\* g[i] is what the first i of n items make.
Partial(seqs, n, g) ==
  \A i \in 1 .. n : g[i] = IF i = 1 THEN seqs[i] ELSE g[i - 1] \o seqs[i]

\* There is a function of the partial results of the first n items, ...
LEMMA FlatPrefix ==
  ASSUME NEW S, NEW seqs \in Seq(Items(S))
  PROVE  \A n \in Nat : n <= Len(seqs) =>
           \E g \in [1 .. n -> Items(S)] : Partial(seqs, n, g)
<1> DEFINE Is(m, g) == Partial(seqs, m, g)
           Q(m) == m <= Len(seqs) => \E g \in [1 .. m -> Items(S)] : Is(m, g)
<1>1. Q(0)
  <2>1. [i \in 1 .. 0 |-> <<>>] \in [1 .. 0 -> Items(S)]  OBVIOUS
  <2>2. \A g : Is(0, g)  BY DEF Partial
  <2> HIDE DEF Is
  <2> QED  BY <2>1, <2>2
<1>2. ASSUME NEW m \in Nat, Q(m) PROVE Q(m + 1)
  <2> SUFFICES ASSUME m + 1 <= Len(seqs)
               PROVE  \E g \in [1 .. m + 1 -> Items(S)] : Is(m + 1, g)
    OBVIOUS
  <2>1. m <= Len(seqs)  OBVIOUS
  <2>2. PICK g \in [1 .. m -> Items(S)] : Is(m, g)
    <3> HIDE DEF Is
    <3> QED  BY <1>2, <2>1
  <2> DEFINE h == [i \in 1 .. m + 1 |->
                     IF i <= m THEN g[i] ELSE IF i = 1 THEN seqs[i] ELSE g[m] \o seqs[i]]
  <2>3. \A i \in 1 .. m + 1 : seqs[i] \in Seq(S)  BY DEF Items
  <2>4. h \in [1 .. m + 1 -> Items(S)]
    <3> SUFFICES ASSUME NEW i \in 1 .. m + 1 PROVE h[i] \in Seq(S)
      BY DEF Items
    <3>1. CASE i <= m  BY <3>1 DEF Items
    <3>2. CASE i > m /\ i = 1  BY <3>2, <2>3
    <3>3. CASE i > m /\ i # 1
      <4>1. m \in 1 .. m  BY <3>3
      <4>2. g[m] \in Seq(S) /\ seqs[i] \in Seq(S)  BY <4>1, <2>3 DEF Items
      <4> QED  BY <3>3, <4>2
    <3> QED  BY <3>1, <3>2, <3>3
  <2>5. Is(m + 1, h)
    <3> SUFFICES ASSUME NEW i \in 1 .. m + 1
                 PROVE  h[i] = IF i = 1 THEN seqs[i] ELSE h[i - 1] \o seqs[i]
      BY DEF Partial
    <3>1. CASE i <= m
      <4>1. i \in 1 .. m /\ h[i] = g[i]  BY <3>1
      <4>2. i # 1 => i - 1 \in 1 .. m /\ h[i - 1] = g[i - 1]  BY <3>1
      <4> HIDE DEF h
      <4> QED  BY <4>1, <4>2, <2>2 DEF Partial
    <3>2. CASE i > m
      <4>1. i = m + 1  BY <3>2
      <4> QED  BY <4>1
    <3> QED  BY <3>1, <3>2
  <2> HIDE DEF Is, h
  <2> QED  BY <2>4, <2>5
<1>3. \A m \in Nat : Q(m)
  <2> DEFINE N == {m \in Nat : Q(m)}
  <2> HIDE DEF Q
  <2>1. N \in SUBSET Nat /\ 0 \in N /\ \A m \in N : m + 1 \in N  BY <1>1, <1>2
  <2>2. N = Nat
    <3> HIDE DEF N
    <3> QED  BY <2>1, Induct
  <2> QED  BY <2>2
<1> QED  BY <1>3

\* ... and the recursion in FlattenSeq finds it.
LEMMA FlattenIs ==
  ASSUME NEW S, NEW seqs \in Seq(Items(S)), seqs # <<>>
  PROVE  \E g \in [1 .. Len(seqs) -> Items(S)] :
           /\ Partial(seqs, Len(seqs), g)
           /\ FlattenSeq(seqs) = g[Len(seqs)]
<1> DEFINE n == Len(seqs)
           F(g) == [i \in 1 .. n |-> IF i = 1 THEN seqs[i] ELSE g[i - 1] \o seqs[i]]
           c == CHOOSE g : g = F(g)
<1>0. n \in Nat /\ n # 0 /\ \A i \in 1 .. n : seqs[i] \in Seq(S)
  BY DEF Items
<1>1. PICK g \in [1 .. n -> Items(S)] : Partial(seqs, n, g)
  <2>1. n <= Len(seqs)  BY <1>0
  <2> HIDE DEF n
  <2> QED  BY <1>0, <2>1, FlatPrefix
<1>2. g = F(g)
  BY <1>1 DEF Partial
<1>3. c = F(c)
  <2> HIDE DEF F
  <2> QED  BY <1>2
<1>7. \A i \in 1 .. n : F(c)[i] = IF i = 1 THEN seqs[i] ELSE c[i - 1] \o seqs[i]
  <2> HIDE DEF c
  <2> QED  OBVIOUS
<1>8. F(c) = [i \in 1 .. n |-> F(c)[i]]
  <2> HIDE DEF c
  <2> QED  OBVIOUS
<1>5. FlattenSeq(seqs) = c[n]
  BY <1>0 DEF FlattenSeq
<1> HIDE DEF c, n, F
<1>4. /\ c = [i \in 1 .. n |-> c[i]]
      /\ \A i \in 1 .. n : c[i] = IF i = 1 THEN seqs[i] ELSE c[i - 1] \o seqs[i]
  BY <1>3, <1>7, <1>8
<1>6. c \in [1 .. n -> Items(S)]
  <2> DEFINE Q(m) == m \in 1 .. n => c[m] \in Seq(S)
  <2>1. Q(0)  OBVIOUS
  <2>2. ASSUME NEW m \in Nat, Q(m) PROVE Q(m + 1)
    <3> SUFFICES ASSUME m + 1 \in 1 .. n PROVE c[m + 1] \in Seq(S)
      OBVIOUS
    <3>1. PICK i \in 1 .. n : i = m + 1  OBVIOUS
    <3>2. c[i] = IF i = 1 THEN seqs[i] ELSE c[i - 1] \o seqs[i]  BY <1>4
    <3>3. seqs[i] \in Seq(S)  BY <1>0
    <3>4. i # 1 => c[i - 1] \in Seq(S)
      <4>1. i # 1 => m \in 1 .. n /\ i - 1 = m  BY <3>1, <1>0
      <4> QED  BY <4>1, <2>2
    <3> QED  BY <3>1, <3>2, <3>3, <3>4
  <2>3. \A m \in Nat : Q(m)
    <3> DEFINE N == {m \in Nat : Q(m)}
    <3> HIDE DEF Q
    <3>1. N \in SUBSET Nat /\ 0 \in N /\ \A m \in N : m + 1 \in N  BY <2>1, <2>2
    <3>2. N = Nat
      <4> HIDE DEF N
      <4> QED  BY <3>1, Induct
    <3> QED  BY <3>2
  <2>4. \A i \in 1 .. n : c[i] \in Seq(S)  BY <2>3, <1>0
  <2> QED  BY <2>4, <1>4 DEF Items
<1> QED
  BY <1>4, <1>5, <1>6 DEF n, Partial

\* Partial results depend on the items so far only.
LEMMA PartialAgree ==
  ASSUME NEW n \in Nat \ {0}, NEW seqs, NEW others, NEW g, NEW h,
         Partial(seqs, n, g), Partial(others, n, h),
         \A i \in 1 .. n : seqs[i] = others[i]
  PROVE  g[n] = h[n]
<1> DEFINE Q(m) == m \in 1 .. n => g[m] = h[m]
<1>1. Q(0)  OBVIOUS
<1>2. ASSUME NEW m \in Nat, Q(m) PROVE Q(m + 1)
  <2> SUFFICES ASSUME NEW i \in 1 .. n, i = m + 1 PROVE g[i] = h[i]
    OBVIOUS
  <2>1. i # 1 => g[i - 1] = h[i - 1]  BY <1>2
  <2>2. g[i] = IF i = 1 THEN seqs[i] ELSE g[i - 1] \o seqs[i]  BY DEF Partial
  <2>3. h[i] = IF i = 1 THEN others[i] ELSE h[i - 1] \o others[i]  BY DEF Partial
  <2> QED  BY <2>1, <2>2, <2>3
<1>3. \A m \in Nat : Q(m)
  <2> DEFINE N == {m \in Nat : Q(m)}
  <2> HIDE DEF Q
  <2>1. N \in SUBSET Nat /\ 0 \in N /\ \A m \in N : m + 1 \in N  BY <1>1, <1>2
  <2>2. N = Nat
    <3> HIDE DEF N
    <3> QED  BY <2>1, Induct
  <2> QED  BY <2>2
<1> QED  BY <1>3

\* Facts on sequences, whatever they are of.
LEMMA AppendParts ==
  ASSUME NEW T, NEW s \in Seq(T), NEW x \in T
  PROVE  /\ Append(s, x) \in Seq(T) /\ Append(s, x) # <<>> /\ Len(Append(s, x)) = Len(s) + 1
         /\ Len(s) \in Nat
         /\ Append(s, x)[Len(s) + 1] = x
         /\ \A i \in 1 .. Len(s) : Append(s, x)[i] = s[i]
OBVIOUS

\* Where the parentheses are does not matter.
LEMMA ConcatAssoc ==
  ASSUME NEW S, NEW a \in Seq(S), NEW b \in Seq(S), NEW c \in Seq(S)
  PROVE  (a \o b) \o c = a \o (b \o c)
OBVIOUS

\* No items make nothing.
LEMMA FlattenEmpty == FlattenSeq(<<>>) = <<>>
BY DEF FlattenSeq

\* Items of S make a sequence of S.
LEMMA FlattenType ==
  ASSUME NEW S, NEW seqs \in Seq(Items(S))
  PROVE  FlattenSeq(seqs) \in Seq(S)
<1>1. CASE seqs = <<>>
  <2>1. <<>> \in Seq(S)  OBVIOUS
  <2> QED  BY <1>1, <2>1, FlattenEmpty
<1>2. CASE seqs # <<>>
  <2>1. PICK g \in [1 .. Len(seqs) -> Items(S)] : FlattenSeq(seqs) = g[Len(seqs)]
    BY <1>2, FlattenIs
  <2>2. Len(seqs) \in 1 .. Len(seqs)  BY <1>2
  <2> QED  BY <2>1, <2>2 DEF Items
<1> QED  BY <1>1, <1>2

\* The last item comes last.
LEMMA FlattenAppend ==
  ASSUME NEW S, NEW seqs \in Seq(Items(S)), NEW s \in Seq(S)
  PROVE  FlattenSeq(Append(seqs, s)) = FlattenSeq(seqs) \o s
<1> DEFINE n == Len(seqs)
           all == Append(seqs, s)
<1>1. /\ all \in Seq(Items(S)) /\ all # <<>> /\ Len(all) = n + 1 /\ n \in Nat
      /\ all[n + 1] = s /\ \A i \in 1 .. n : all[i] = seqs[i]
  <2>1. s \in Items(S)  BY DEF Items
  <2> QED  BY <2>1, AppendParts
<1> HIDE DEF all
<1>2. PICK h \in [1 .. n + 1 -> Items(S)] : Partial(all, n + 1, h) /\ FlattenSeq(all) = h[n + 1]
  <2>1. PICK h \in [1 .. Len(all) -> Items(S)] :
          Partial(all, Len(all), h) /\ FlattenSeq(all) = h[Len(all)]
    BY <1>1, FlattenIs
  <2> QED  BY <2>1, <1>1
<1>3. h[n + 1] = IF n + 1 = 1 THEN s ELSE h[n] \o s
  <2>1. PICK i \in 1 .. n + 1 : i = n + 1  BY <1>1
  <2>2. h[i] = IF i = 1 THEN all[i] ELSE h[i - 1] \o all[i]  BY <1>2 DEF Partial
  <2>3. i - 1 = n  BY <2>1, <1>1
  <2> QED  BY <2>1, <2>2, <2>3, <1>1
<1>4. CASE seqs = <<>>
  <2>1. h[n + 1] = s  BY <1>3, <1>4
  <2>2. FlattenSeq(seqs) \o s = s  BY <1>4, FlattenEmpty
  <2> QED  BY <2>1, <2>2, <1>2 DEF all
<1>5. CASE seqs # <<>>
  <2>1. PICK g \in [1 .. n -> Items(S)] : Partial(seqs, n, g) /\ FlattenSeq(seqs) = g[n]
    BY <1>5, FlattenIs
  <2>2. Partial(all, n, h)
    <3> HIDE DEF n
    <3>1. \A i \in 1 .. n : i \in 1 .. n + 1  BY <1>1
    <3> QED  BY <1>2, <3>1 DEF Partial
  <2>3. n \in 1 .. n /\ n + 1 # 1  BY <1>5, <1>1
  <2>4. g[n] = h[n]
    <3> HIDE DEF n
    <3>1. n \in Nat /\ \A i \in 1 .. n : seqs[i] = all[i]  BY <1>1
    <3>2. n # 0  BY <2>3
    <3> QED  BY <2>1, <2>2, <3>1, <3>2, PartialAgree
  <2> QED  BY <2>1, <2>3, <2>4, <1>2, <1>3 DEF all
<1> QED  BY <1>4, <1>5

\* Two lists of items, one after the other.
LEMMA FlattenConcat ==
  ASSUME NEW S, NEW seqs \in Seq(Items(S)), NEW more \in Seq(Items(S))
  PROVE  FlattenSeq(seqs \o more) = FlattenSeq(seqs) \o FlattenSeq(more)
<1> DEFINE Both(t) == FlattenSeq(seqs \o t) = FlattenSeq(seqs) \o FlattenSeq(t)
           Q(m) == \A t \in Seq(Items(S)) : Len(t) = m => Both(t)
<1>1. Q(0)
  <2> SUFFICES ASSUME NEW t \in Seq(Items(S)), Len(t) = 0 PROVE Both(t)
    OBVIOUS
  <2>1. t = <<>> /\ seqs \o t = seqs  OBVIOUS
  <2>2. FlattenSeq(seqs) \in Seq(S)  BY FlattenType
  <2> QED  BY <2>1, <2>2, FlattenEmpty
<1>2. ASSUME NEW m \in Nat, Q(m) PROVE Q(m + 1)
  <2> SUFFICES ASSUME NEW t \in Seq(Items(S)), Len(t) = m + 1 PROVE Both(t)
    OBVIOUS
  <2> HIDE DEF Both
  <2>1. PICK f \in Seq(Items(S)), l \in Items(S) :
          /\ Len(t) = Len(f) + 1 /\ t = Append(f, l)
          /\ seqs \o f \in Seq(Items(S)) /\ seqs \o t = Append(seqs \o f, l)
    <3> DEFINE f == SubSeq(t, 1, m)
               l == t[m + 1]
    <3>1. f \in Seq(Items(S)) /\ l \in Items(S) /\ Len(f) = m  OBVIOUS
    <3>2. t = Append(f, l)  OBVIOUS
    <3>3. seqs \o f \in Seq(Items(S))  BY <3>1
    <3>4. seqs \o t = Append(seqs \o f, l)  OBVIOUS
    <3> HIDE DEF f, l
    <3> QED  BY <3>1, <3>2, <3>3, <3>4
  <2>2. Len(f) = m /\ l \in Seq(S)  BY <2>1 DEF Items
  <2>3. FlattenSeq(seqs \o t) = FlattenSeq(seqs \o f) \o l  BY <2>1, <2>2, FlattenAppend
  <2>4. FlattenSeq(t) = FlattenSeq(f) \o l  BY <2>1, <2>2, FlattenAppend
  <2>5. FlattenSeq(seqs \o f) = FlattenSeq(seqs) \o FlattenSeq(f)  BY <2>2, <1>2 DEF Both
  <2>6. FlattenSeq(seqs) \in Seq(S) /\ FlattenSeq(f) \in Seq(S)  BY FlattenType
  <2>7. (FlattenSeq(seqs) \o FlattenSeq(f)) \o l = FlattenSeq(seqs) \o (FlattenSeq(f) \o l)
    BY <2>2, <2>6, ConcatAssoc
  <2> QED  BY <2>3, <2>4, <2>5, <2>7 DEF Both
<1>3. \A m \in Nat : Q(m)
  <2> DEFINE N == {m \in Nat : Q(m)}
  <2> HIDE DEF Q
  <2>1. N \in SUBSET Nat /\ 0 \in N /\ \A m \in N : m + 1 \in N  BY <1>1, <1>2
  <2>2. N = Nat
    <3> HIDE DEF N
    <3> QED  BY <2>1, Induct
  <2> QED  BY <2>2
<1>4. Len(more) \in Nat  OBVIOUS
<1>5. Both(more)
  <2> HIDE DEF Both
  <2> QED  BY <1>3, <1>4
<1> QED  BY <1>5

-----------------------------------------------------------------------------
(* Sums. *)

\* The element that a sum begins with.
Pick(s) == CHOOSE x \in s : TRUE

\* g[s] is the sum of f over s, for each s in D.
Summing(f, D, g) ==
  \A s \in D : g[s] = IF s = {} THEN 0 ELSE f[Pick(s)] + g[s \ {Pick(s)}]

\* One element fewer.
LEMMA PickOne ==
  ASSUME NEW s, IsFiniteSet(s), s # {}
  PROVE  /\ Pick(s) \in s
         /\ IsFiniteSet(s \ {Pick(s)})
         /\ Cardinality(s) \in Nat /\ Cardinality(s \ {Pick(s)}) = Cardinality(s) - 1
<1>1. Pick(s) \in s  BY DEF Pick
<1> QED  BY <1>1, FS_RemoveElement, FS_CardinalityType

\* The subsets with at most n elements.
Small(S, n) == {s \in SUBSET S : Cardinality(s) <= n}

\* There is such a function for the small subsets of a finite set, ...
LEMMA SumPrefix ==
  ASSUME NEW S, IsFiniteSet(S), NEW f, \A x \in S : f[x] \in Nat
  PROVE  \A n \in Nat :
           \E g \in [Small(S, n) -> Nat] : Summing(f, Small(S, n), g)
<1> DEFINE D(n) == {s \in SUBSET S : Cardinality(s) <= n}
           Q(n) == \E g \in [D(n) -> Nat] : Summing(f, D(n), g)
<1>0. \A s \in SUBSET S : IsFiniteSet(s) /\ Cardinality(s) \in Nat
  BY FS_Subset, FS_CardinalityType
<1>1. Q(0)
  <2> DEFINE g == [s \in D(0) |-> 0]
  <2>1. g \in [D(0) -> Nat]  OBVIOUS
  <2>2. \A s \in D(0) : s = {}
    BY <1>0, FS_EmptySet
  <2>3. Summing(f, D(0), g)
    <3> HIDE DEF D
    <3> QED  BY <2>2 DEF Summing
  <2> HIDE DEF g, D
  <2> QED  BY <2>1, <2>3
<1>2. ASSUME NEW n \in Nat, Q(n) PROVE Q(n + 1)
  <2>1. PICK g \in [D(n) -> Nat] : Summing(f, D(n), g)
    <3> HIDE DEF D
    <3> QED  BY <1>2
  <2> DEFINE h == [s \in D(n + 1) |-> IF s = {} THEN 0 ELSE f[Pick(s)] + g[s \ {Pick(s)}]]
  <2>2. \A s \in D(n + 1) : s # {} => /\ f[Pick(s)] \in Nat /\ s \ {Pick(s)} \in D(n)
                                     /\ g[s \ {Pick(s)}] \in Nat
    <3> SUFFICES ASSUME NEW s \in D(n + 1), s # {}
                 PROVE  Pick(s) \in S /\ s \ {Pick(s)} \in D(n)
      <4> HIDE DEF D
      <4> QED  OBVIOUS
    <3>1. Pick(s) \in s /\ Cardinality(s \ {Pick(s)}) = Cardinality(s) - 1
          /\ Cardinality(s) \in Nat
      BY <1>0, PickOne
    <3> QED  BY <3>1
  <2>3. h \in [D(n + 1) -> Nat]
    <3> HIDE DEF D
    <3> QED  BY <2>2
  <2>4. D(n) \subseteq D(n + 1)
    BY <1>0
  <2>5. \A s \in D(n) : h[s] = g[s]
    <3> HIDE DEF D
    <3> QED  BY <2>1, <2>4 DEF Summing
  <2>6. Summing(f, D(n + 1), h)
    <3> HIDE DEF D
    <3> QED  BY <2>2, <2>5 DEF Summing
  <2> HIDE DEF D, h
  <2> QED  BY <2>3, <2>6
<1>3. \A n \in Nat : Q(n)
  <2> DEFINE N == {n \in Nat : Q(n)}
  <2> HIDE DEF Q
  <2>1. N \in SUBSET Nat /\ 0 \in N /\ \A n \in N : n + 1 \in N  BY <1>1, <1>2
  <2>2. N = Nat
    <3> HIDE DEF N
    <3> QED  BY <2>1, Induct
  <2> QED  BY <2>2
<1> QED  BY <1>3 DEF Small

\* ... and so for all of them.
LEMMA SumExists ==
  ASSUME NEW S, IsFiniteSet(S), NEW f, \A x \in S : f[x] \in Nat
  PROVE  \E g \in [SUBSET S -> Nat] : Summing(f, SUBSET S, g)
<1>1. Cardinality(S) \in Nat  BY FS_CardinalityType
<1>2. Small(S, Cardinality(S)) = SUBSET S  BY FS_Subset DEF Small
<1>3. \E g \in [Small(S, Cardinality(S)) -> Nat] : Summing(f, Small(S, Cardinality(S)), g)
  BY <1>1, SumPrefix
<1> QED  BY <1>2, <1>3

\* It depends on the elements only.
LEMMA SummingAgree ==
  ASSUME NEW S, IsFiniteSet(S), NEW T, S \subseteq T, NEW f, NEW e,
         \A x \in S : f[x] = e[x],
         NEW g, NEW h, Summing(f, SUBSET S, g), Summing(e, SUBSET T, h)
  PROVE  g[S] = h[S]
<1> DEFINE Q(n) == \A s \in SUBSET S : Cardinality(s) = n => g[s] = h[s]
<1>0. \A s \in SUBSET S : IsFiniteSet(s) /\ Cardinality(s) \in Nat
  BY FS_Subset, FS_CardinalityType
<1>1. Q(0)
  <2> SUFFICES ASSUME NEW s \in SUBSET S, Cardinality(s) = 0 PROVE g[s] = h[s]
    OBVIOUS
  <2>1. s = {} /\ s \in SUBSET T  BY <1>0, FS_EmptySet
  <2> QED  BY <2>1 DEF Summing
<1>2. ASSUME NEW n \in Nat, Q(n) PROVE Q(n + 1)
  <2> SUFFICES ASSUME NEW s \in SUBSET S, Cardinality(s) = n + 1 PROVE g[s] = h[s]
    OBVIOUS
  <2>1. s # {}  BY FS_EmptySet
  <2> DEFINE r == s \ {Pick(s)}
  <2>2. Pick(s) \in s /\ Cardinality(r) = n  BY <2>1, <1>0, PickOne
  <2>3. r \in SUBSET S /\ s \in SUBSET T /\ Pick(s) \in S  BY <2>2
  <2>4. g[r] = h[r]
    <3> HIDE DEF r
    <3> QED  BY <2>2, <2>3, <1>2
  <2>5. g[s] = f[Pick(s)] + g[r] /\ h[s] = e[Pick(s)] + h[r]  BY <2>1, <2>3 DEF Summing
  <2> QED  BY <2>3, <2>4, <2>5
<1>3. \A n \in Nat : Q(n)
  <2> DEFINE N == {n \in Nat : Q(n)}
  <2> HIDE DEF Q
  <2>1. N \in SUBSET Nat /\ 0 \in N /\ \A n \in N : n + 1 \in N  BY <1>1, <1>2
  <2>2. N = Nat
    <3> HIDE DEF N
    <3> QED  BY <2>1, Induct
  <2> QED  BY <2>2
<1> QED  BY <1>3, FS_CardinalityType

\* The recursion in SumFunctionOnSet finds it.
LEMMA SumIs ==
  ASSUME NEW S, IsFiniteSet(S), NEW f, \A x \in S : f[x] \in Nat
  PROVE  \E g \in [SUBSET S -> Nat] :
           Summing(f, SUBSET S, g) /\ SumFunctionOnSet(f, S) = g[S]
<1> DEFINE F(g) == [s \in SUBSET S |-> IF s = {} THEN 0 ELSE f[Pick(s)] + g[s \ {Pick(s)}]]
           c == CHOOSE g : g = F(g)
<1>1. PICK g \in [SUBSET S -> Nat] : Summing(f, SUBSET S, g)  BY SumExists
<1>2. g = F(g)  BY <1>1 DEF Summing
<1>3. c = F(c)
  <2> HIDE DEF F
  <2> QED  BY <1>2
<1>4. SumFunctionOnSet(f, S) = c[S]
  BY DEF SumFunctionOnSet, FoldFunctionOnSet, MapThenFoldSet, Pick
<1>5. Summing(f, SUBSET S, c)
  <2>1. \A s \in SUBSET S : F(c)[s] = IF s = {} THEN 0 ELSE f[Pick(s)] + c[s \ {Pick(s)}]
    <3> HIDE DEF c
    <3> QED  OBVIOUS
  <2> HIDE DEF c, F
  <2> QED  BY <1>3, <2>1 DEF Summing
<1>6. g[S] = c[S]
  <2> HIDE DEF c
  <2> QED  BY <1>1, <1>5, SummingAgree
<1> QED  BY <1>1, <1>4, <1>6

\* The sum over no elements.
LEMMA SumEmpty == ASSUME NEW f PROVE SumFunctionOnSet(f, {}) = 0
<1> DEFINE F(g) == [s \in SUBSET {} |-> IF s = {} THEN 0 ELSE f[Pick(s)] + g[s \ {Pick(s)}]]
           c == CHOOSE g : g = F(g)
<1>1. SumFunctionOnSet(f, {}) = c[{}]
  BY DEF SumFunctionOnSet, FoldFunctionOnSet, MapThenFoldSet, Pick
<1> DEFINE z == [s \in SUBSET {} |-> 0]
<1>2. z = F(z)  OBVIOUS
<1>3. c = F(c)
  <2> HIDE DEF F, z
  <2> QED  BY <1>2
<1>4. F(c)[{}] = 0
  <2> HIDE DEF c
  <2> QED  OBVIOUS
<1> HIDE DEF c, F
<1> QED  BY <1>1, <1>3, <1>4

\* A sum of natural numbers is one.
LEMMA SumType ==
  ASSUME NEW S, IsFiniteSet(S), NEW f, \A x \in S : f[x] \in Nat
  PROVE  SumFunctionOnSet(f, S) \in Nat
<1>1. PICK g \in [SUBSET S -> Nat] : SumFunctionOnSet(f, S) = g[S]  BY SumIs
<1> QED  BY <1>1

\* Functions that agree on a set have the same sum.
LEMMA SumSame ==
  ASSUME NEW S, IsFiniteSet(S), NEW f, NEW e, \A x \in S : f[x] \in Nat,
         \A x \in S : f[x] = e[x]
  PROVE  SumFunctionOnSet(f, S) = SumFunctionOnSet(e, S)
<1>1. PICK g \in [SUBSET S -> Nat] :
        Summing(f, SUBSET S, g) /\ SumFunctionOnSet(f, S) = g[S]
  BY SumIs
<1>2. PICK h \in [SUBSET S -> Nat] :
        Summing(e, SUBSET S, h) /\ SumFunctionOnSet(e, S) = h[S]
  <2>1. \A x \in S : e[x] \in Nat  OBVIOUS
  <2> QED  BY <2>1, SumIs
<1>3. g[S] = h[S]
  BY <1>1, <1>2, SummingAgree
<1> QED  BY <1>1, <1>2, <1>3

\* The fold takes the elements in an order of its own; ...
LEMMA SumPick ==
  ASSUME NEW S, IsFiniteSet(S), S # {}, NEW f, \A x \in S : f[x] \in Nat
  PROVE  SumFunctionOnSet(f, S) = f[Pick(S)] + SumFunctionOnSet(f, S \ {Pick(S)})
<1> DEFINE R == S \ {Pick(S)}
<1>0. Pick(S) \in S /\ IsFiniteSet(R) /\ R \subseteq S /\ \A x \in R : f[x] \in Nat
  BY PickOne
<1>1. PICK g \in [SUBSET S -> Nat] :
        Summing(f, SUBSET S, g) /\ SumFunctionOnSet(f, S) = g[S]
  BY SumIs
<1> HIDE DEF R
<1>2. PICK h \in [SUBSET R -> Nat] :
        Summing(f, SUBSET R, h) /\ SumFunctionOnSet(f, R) = h[R]
  BY <1>0, SumIs
<1>3. h[R] = g[R]
  <2>1. IsFiniteSet(R) /\ R \subseteq S  BY <1>0
  <2>2. Summing(f, SUBSET R, h) /\ Summing(f, SUBSET S, g)  BY <1>1, <1>2
  <2>3. PICK e : e = f  OBVIOUS
  <2>4. Summing(e, SUBSET S, g) /\ \A x \in R : f[x] = e[x]  BY <2>2, <2>3
  <2> QED  BY <2>1, <2>2, <2>4, SummingAgree
<1>4. g[S] = f[Pick(S)] + g[R]
  BY <1>1 DEF Summing, R
<1> QED  BY <1>1, <1>2, <1>3, <1>4 DEF R

\* ... any other gives the same.
LEMMA SumRemove ==
  ASSUME NEW S, IsFiniteSet(S), NEW f, \A x \in S : f[x] \in Nat, NEW x \in S
  PROVE  SumFunctionOnSet(f, S) = f[x] + SumFunctionOnSet(f, S \ {x})
<1> DEFINE FromAny(s) == \A y \in s : SumFunctionOnSet(f, s) = f[y] + SumFunctionOnSet(f, s \ {y})
           Q(n) == \A s \in SUBSET S : Cardinality(s) = n => FromAny(s)
<1>0. \A s \in SUBSET S : /\ IsFiniteSet(s) /\ Cardinality(s) \in Nat
                          /\ SumFunctionOnSet(f, s) \in Nat
  BY FS_Subset, FS_CardinalityType, SumType
<1>1. Q(0)
  <2> SUFFICES ASSUME NEW s \in SUBSET S, Cardinality(s) = 0 PROVE FromAny(s)
    OBVIOUS
  <2>1. s = {}  BY <1>0, FS_EmptySet
  <2> QED  BY <2>1
<1>2. ASSUME NEW n \in Nat, Q(n) PROVE Q(n + 1)
  <2> SUFFICES ASSUME NEW s \in SUBSET S, Cardinality(s) = n + 1, NEW y \in s
               PROVE  SumFunctionOnSet(f, s) = f[y] + SumFunctionOnSet(f, s \ {y})
    OBVIOUS
  <2> DEFINE p == Pick(s)
             a == s \ {p}
             b == s \ {y}
  <2>1. s # {}  OBVIOUS
  <2>2. p \in s /\ Cardinality(a) = n  BY <2>1, <1>0, PickOne
  <2>3. SumFunctionOnSet(f, s) = f[p] + SumFunctionOnSet(f, a)  BY <2>1, <1>0, SumPick
  <2>4. CASE y = p  BY <2>3, <2>4
  <2>5. CASE y # p
    <3>1. a \in SUBSET S /\ y \in a /\ a \ {y} = b \ {p}  BY <2>5
    <3>2. b \in SUBSET S /\ p \in b /\ Cardinality(b) = n
      <4>1. Cardinality(b) = Cardinality(s) - 1  BY <1>0, FS_RemoveElement
      <4> QED  BY <2>2, <2>5, <4>1
    <3>3. SumFunctionOnSet(f, a) = f[y] + SumFunctionOnSet(f, a \ {y})
      <4>1. FromAny(a)
        <5> HIDE DEF a, FromAny
        <5> QED  BY <2>2, <3>1, <1>2
      <4> HIDE DEF a
      <4> QED  BY <3>1, <4>1
    <3>4. SumFunctionOnSet(f, b) = f[p] + SumFunctionOnSet(f, b \ {p})
      <4>1. FromAny(b)
        <5> HIDE DEF b, FromAny
        <5> QED  BY <3>2, <1>2
      <4> HIDE DEF b, p
      <4> QED  BY <3>2, <4>1
    <3>5. f[y] \in Nat /\ f[p] \in Nat /\ SumFunctionOnSet(f, a \ {y}) \in Nat
      <4>1. a \ {y} \in SUBSET S  OBVIOUS
      <4> HIDE DEF a
      <4> QED  BY <4>1, <1>0, <2>2
    <3> HIDE DEF a, b, p
    <3>6. SumFunctionOnSet(f, s) = f[y] + SumFunctionOnSet(f, b)
      BY <2>3, <3>1, <3>3, <3>4, <3>5
    <3> QED  BY <3>6 DEF b
  <2> QED  BY <2>4, <2>5
<1>3. \A n \in Nat : Q(n)
  <2> DEFINE N == {n \in Nat : Q(n)}
  <2> HIDE DEF Q
  <2>1. N \in SUBSET Nat /\ 0 \in N /\ \A n \in N : n + 1 \in N  BY <1>1, <1>2
  <2>2. N = Nat
    <3> HIDE DEF N
    <3> QED  BY <2>1, Induct
  <2> QED  BY <2>2
<1>4. FromAny(S)
  <2>1. S \in SUBSET S /\ Cardinality(S) \in Nat  BY FS_CardinalityType
  <2> HIDE DEF FromAny
  <2> QED  BY <1>3, <2>1
<1> QED  BY <1>4

\* Two functions that agree but for one element.
LEMMA SumChange ==
  ASSUME NEW S, IsFiniteSet(S), NEW f, NEW e, \A x \in S : f[x] \in Nat /\ e[x] \in Nat,
         NEW x \in S, \A y \in S \ {x} : f[y] = e[y]
  PROVE  SumFunctionOnSet(e, S) + f[x] = SumFunctionOnSet(f, S) + e[x]
<1> DEFINE R == S \ {x}
<1>1. IsFiniteSet(R) /\ \A y \in R : f[y] \in Nat /\ f[y] = e[y]  BY FS_RemoveElement
<1>2. SumFunctionOnSet(f, S) = f[x] + SumFunctionOnSet(f, R)  BY SumRemove
<1>3. SumFunctionOnSet(e, S) = e[x] + SumFunctionOnSet(e, R)  BY SumRemove
<1> HIDE DEF R
<1>4. SumFunctionOnSet(f, R) = SumFunctionOnSet(e, R)  BY <1>1, SumSame
<1>5. SumFunctionOnSet(f, R) \in Nat  BY <1>1, SumType
<1> QED  BY <1>2, <1>3, <1>4, <1>5

\* A sum over two sets that have nothing in common.
LEMMA SumSplit ==
  ASSUME NEW S, IsFiniteSet(S), NEW f, \A x \in S : f[x] \in Nat,
         NEW T \in SUBSET S
  PROVE  SumFunctionOnSet(f, S) = SumFunctionOnSet(f, T) + SumFunctionOnSet(f, S \ T)
<1> DEFINE Two(t) == SumFunctionOnSet(f, S) = SumFunctionOnSet(f, t) + SumFunctionOnSet(f, S \ t)
           Q(n) == \A t \in SUBSET S : Cardinality(t) = n => Two(t)
<1>0. \A s \in SUBSET S : /\ IsFiniteSet(s) /\ Cardinality(s) \in Nat
                          /\ SumFunctionOnSet(f, s) \in Nat
  BY FS_Subset, FS_CardinalityType, SumType
<1>1. Q(0)
  <2> SUFFICES ASSUME NEW t \in SUBSET S, Cardinality(t) = 0 PROVE Two(t)
    OBVIOUS
  <2>1. t = {}  BY <1>0, FS_EmptySet
  <2>2. SumFunctionOnSet(f, t) = 0  BY <2>1, SumEmpty
  <2>3. S \ t = S  BY <2>1
  <2>4. SumFunctionOnSet(f, S) \in Nat  BY <1>0
  <2> QED  BY <2>2, <2>3, <2>4
<1>2. ASSUME NEW n \in Nat, Q(n) PROVE Q(n + 1)
  <2> SUFFICES ASSUME NEW t \in SUBSET S, Cardinality(t) = n + 1 PROVE Two(t)
    OBVIOUS
  <2>0. t # {}  BY FS_EmptySet
  <2>1. PICK x \in t : TRUE  BY <2>0
  <2> DEFINE a == t \ {x}
             b == S \ a
  <2>2. a \in SUBSET S /\ b \in SUBSET S /\ x \in b /\ b \ {x} = S \ t  BY <2>1
  <2>3. Cardinality(a) = n
    <3>1. Cardinality(a) = Cardinality(t) - 1  BY <1>0, <2>1, FS_RemoveElement
    <3> QED  BY <3>1
  <2>4. SumFunctionOnSet(f, t) = f[x] + SumFunctionOnSet(f, a)  BY <1>0, <2>1, SumRemove
  <2>5. Two(a)
    <3> HIDE DEF a, Two
    <3> QED  BY <1>2, <2>2, <2>3
  <2>6. SumFunctionOnSet(f, b) = f[x] + SumFunctionOnSet(f, S \ t)
    <3>1. IsFiniteSet(b) /\ \A y \in b : f[y] \in Nat  BY <1>0, <2>2
    <3>2. b \ {x} = S \ t  BY <2>2
    <3> HIDE DEF b
    <3>3. SumFunctionOnSet(f, b) = f[x] + SumFunctionOnSet(f, b \ {x})
      BY <2>2, <3>1, SumRemove
    <3> QED  BY <3>2, <3>3
  <2>7. /\ f[x] \in Nat /\ SumFunctionOnSet(f, a) \in Nat
        /\ SumFunctionOnSet(f, S \ t) \in Nat
    <3>1. S \ t \in SUBSET S  OBVIOUS
    <3> HIDE DEF a
    <3> QED  BY <1>0, <2>1, <2>2, <3>1
  <2>8. SumFunctionOnSet(f, S) = SumFunctionOnSet(f, a) + SumFunctionOnSet(f, b)
    BY <2>5
  <2> HIDE DEF a, b
  <2> QED  BY <2>4, <2>6, <2>7, <2>8
<1>3. \A n \in Nat : Q(n)
  <2> DEFINE N == {n \in Nat : Q(n)}
  <2> HIDE DEF Q
  <2>1. N \in SUBSET Nat /\ 0 \in N /\ \A n \in N : n + 1 \in N  BY <1>1, <1>2
  <2>2. N = Nat
    <3> HIDE DEF N
    <3> QED  BY <2>1, Induct
  <2> QED  BY <2>2
<1> HIDE DEF Two
<1>4. Two(T)  BY <1>0, <1>3
<1> QED  BY <1>4 DEF Two

\* A sum of equal terms.
LEMMA SumConstant ==
  ASSUME NEW S, IsFiniteSet(S), NEW c \in Nat, NEW f, \A x \in S : f[x] = c
  PROVE  SumFunctionOnSet(f, S) = Cardinality(S) * c
<1> DEFINE Is(s) == SumFunctionOnSet(f, s) = Cardinality(s) * c
           Q(n) == \A s \in SUBSET S : Cardinality(s) = n => Is(s)
<1>0. \A s \in SUBSET S : /\ IsFiniteSet(s) /\ Cardinality(s) \in Nat
                          /\ SumFunctionOnSet(f, s) \in Nat
  BY FS_Subset, FS_CardinalityType, SumType
<1>1. Q(0)
  <2> SUFFICES ASSUME NEW s \in SUBSET S, Cardinality(s) = 0 PROVE Is(s)
    OBVIOUS
  <2>1. s = {}  BY <1>0, FS_EmptySet
  <2>2. SumFunctionOnSet(f, s) = 0  BY <2>1, SumEmpty
  <2> QED  BY <2>2
<1>2. ASSUME NEW n \in Nat, Q(n) PROVE Q(n + 1)
  <2> SUFFICES ASSUME NEW s \in SUBSET S, Cardinality(s) = n + 1 PROVE Is(s)
    OBVIOUS
  <2>0. s # {}  BY FS_EmptySet
  <2>1. PICK x \in s : TRUE  BY <2>0
  <2> DEFINE a == s \ {x}
  <2>2. a \in SUBSET S /\ Cardinality(a) = n
    <3>1. Cardinality(a) = Cardinality(s) - 1  BY <1>0, <2>1, FS_RemoveElement
    <3> QED  BY <3>1
  <2>3. SumFunctionOnSet(f, s) = f[x] + SumFunctionOnSet(f, a)  BY <1>0, <2>1, SumRemove
  <2>4. Is(a)
    <3> HIDE DEF a, Is
    <3> QED  BY <1>2, <2>2
  <2>5. SumFunctionOnSet(f, a) = n * c  BY <2>2, <2>4
  <2>6. SumFunctionOnSet(f, s) = c + n * c  BY <2>1, <2>3, <2>5
  <2> HIDE DEF a
  <2>7. c + n * c = (n + 1) * c  OBVIOUS
  <2> QED  BY <2>6, <2>7
<1>3. \A n \in Nat : Q(n)
  <2> DEFINE N == {n \in Nat : Q(n)}
  <2> HIDE DEF Q
  <2>1. N \in SUBSET Nat /\ 0 \in N /\ \A n \in N : n + 1 \in N  BY <1>1, <1>2
  <2>2. N = Nat
    <3> HIDE DEF N
    <3> QED  BY <2>1, Induct
  <2> QED  BY <2>2
<1> HIDE DEF Is
<1>4. Is(S)  BY <1>0, <1>3
<1> QED  BY <1>4 DEF Is

-----------------------------------------------------------------------------
(* Arithmetic. *)

\* A product grows with its first factor.
LEMMA TimesGrows ==
  ASSUME NEW m \in Nat, NEW n \in Nat, m <= n, NEW c \in Nat
  PROVE  m * c <= n * c
<1>1. (n - m) * c >= 0
  <2>1. n - m \in Nat  OBVIOUS
  <2> QED  BY <2>1
<1> QED  BY <1>1

\* What a whole number of turns adds is not seen in the remainder.
LEMMA Turns ==
  ASSUME NEW m \in Nat \ {0}, NEW x \in 0 .. m - 1, NEW k \in Nat
  PROVE  (x + k * m) % m = x
OBVIOUS

\* A finite set of numbers has a largest one.
LEMMA LargestExists ==
  ASSUME NEW S \in SUBSET Nat, IsFiniteSet(S), S # {}
  PROVE  \E n \in S : \A m \in S : m <= n
<1> DEFINE Has(s) == \E n \in s : \A m \in s : m <= n
           Q(k) == \A s \in SUBSET S : Cardinality(s) = k + 1 => Has(s)
<1>0. \A s \in SUBSET S : IsFiniteSet(s) /\ Cardinality(s) \in Nat
  BY FS_Subset, FS_CardinalityType
<1>1. ASSUME NEW k \in Nat, NEW s \in SUBSET S, Cardinality(s) = k + 1
      PROVE  \E x \in s : IsFiniteSet(s \ {x}) /\ Cardinality(s \ {x}) = k
  <2>1. IsFiniteSet(s) /\ s # {}  BY <1>0, <1>1, FS_EmptySet
  <2>2. PICK x \in s : TRUE  BY <2>1
  <2>3. IsFiniteSet(s \ {x}) /\ Cardinality(s \ {x}) = Cardinality(s) - 1
    BY <2>1, FS_RemoveElement
  <2>4. Cardinality(s \ {x}) = k  BY <1>1, <2>3
  <2> QED  BY <2>2, <2>3, <2>4, Zenon
<1>2. Q(0)
  <2> SUFFICES ASSUME NEW s \in SUBSET S, Cardinality(s) = 0 + 1 PROVE Has(s)
    OBVIOUS
  <2>1. PICK x \in s : IsFiniteSet(s \ {x}) /\ Cardinality(s \ {x}) = 0  BY <1>1
  <2>2. s \ {x} = {}  BY <2>1, FS_EmptySet
  <2> QED  BY <2>1, <2>2
<1>3. ASSUME NEW k \in Nat, Q(k) PROVE Q(k + 1)
  <2> SUFFICES ASSUME NEW s \in SUBSET S, Cardinality(s) = (k + 1) + 1 PROVE Has(s)
    OBVIOUS
  <2>1. PICK x \in s : Cardinality(s \ {x}) = k + 1
    <3>1. k + 1 \in Nat  OBVIOUS
    <3> QED  BY <1>1, <3>1
  <2>2. Has(s \ {x})
    <3>1. s \ {x} \in SUBSET S  OBVIOUS
    <3> HIDE DEF Has
    <3> QED  BY <1>3, <2>1, <3>1
  <2>3. PICK n \in s \ {x} : \A m \in s \ {x} : m <= n  BY <2>2
  <2>4. x \in Nat /\ n \in Nat  BY <2>1, <2>3
  <2>5. CASE x <= n  BY <2>3, <2>4, <2>5
  <2>6. CASE n <= x
    <3>1. \A m \in s : m \in Nat /\ (m # x => m <= n)  BY <2>3
    <3>2. \A m \in s : m <= x  BY <2>4, <2>6, <3>1
    <3> QED  BY <2>1, <3>2
  <2> QED  BY <2>4, <2>5, <2>6
<1>4. \A k \in Nat : Q(k)
  <2> DEFINE N == {k \in Nat : Q(k)}
  <2> HIDE DEF Q
  <2>1. N \in SUBSET Nat /\ 0 \in N /\ \A k \in N : k + 1 \in N  BY <1>2, <1>3
  <2>2. N = Nat
    <3> HIDE DEF N
    <3> QED  BY <2>1, Induct
  <2> QED  BY <2>2
<1>5. Cardinality(S) # 0 /\ Cardinality(S) \in Nat  BY <1>0, FS_EmptySet
<1>6. Cardinality(S) - 1 \in Nat /\ Cardinality(S) = (Cardinality(S) - 1) + 1  BY <1>5
<1>7. Has(S)
  <2> HIDE DEF Has
  <2> QED  BY <1>4, <1>6
<1> QED  BY <1>7
=============================================================================
