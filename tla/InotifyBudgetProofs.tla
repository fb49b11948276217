------------------------ MODULE InotifyBudgetProofs ------------------------
(***************************************************************************)
(* How far the files in progress can exceed the threshold of               *)
(* InotifyDispatch, for every threshold, size and number of files.         *)
(***************************************************************************)
EXTENDS InotifyDispatchProofs, FoldLemmas

\* The entries of the index that are sizes; the others count as nothing.
KnownOf(f) == [u \in Uris |-> IF f[u] = Unknown THEN 0 ELSE f[u]]

\* KnownSum, as a function of the index.
SumOf(f) == SumFunctionOnSet(f, {u \in Uris : f[u] # Unknown})

\* Unknown is a size_t.
LEMMA UnknownIs == Unknown \in Nat /\ SizeMod = Unknown + 1
BY DispatchAssumption DEF Unknown

\* The known sizes, summed over all URIs.
LEMMA KnownIs ==
  ASSUME NEW f \in [Uris -> Nat]
  PROVE  /\ KnownOf(f) \in [Uris -> Nat]
         /\ SumOf(f) = SumFunctionOnSet(KnownOf(f), Uris)
         /\ SumOf(f) \in Nat
<1> DEFINE A == {u \in Uris : f[u] # Unknown}
           g == KnownOf(f)
<1>1. g \in [Uris -> Nat]  BY UnknownIs DEF KnownOf
<1>2. \A u \in A : f[u] = g[u] /\ f[u] \in Nat  BY DEF KnownOf
<1>3. \A u \in Uris \ A : g[u] = 0  BY DEF KnownOf
<1>4. IsFiniteSet(Uris) /\ IsFiniteSet(A) /\ IsFiniteSet(Uris \ A) /\ A \in SUBSET Uris
  BY DispatchAssumption, FS_Subset
<1>5. SumOf(f) = SumFunctionOnSet(f, A)  BY DEF SumOf
<1> HIDE DEF A, g
<1>6. SumFunctionOnSet(f, A) = SumFunctionOnSet(g, A) /\ SumFunctionOnSet(f, A) \in Nat
  BY <1>2, <1>4, SumSame, SumType
<1>7. SumFunctionOnSet(g, Uris \ A) = 0
  <2>1. SumFunctionOnSet(g, Uris \ A) = Cardinality(Uris \ A) * 0
    BY <1>3, <1>4, SumConstant
  <2>2. Cardinality(Uris \ A) \in Nat  BY <1>4, FS_CardinalityType
  <2> QED  BY <2>1, <2>2
<1>8. SumFunctionOnSet(g, Uris) = SumFunctionOnSet(g, A) + SumFunctionOnSet(g, Uris \ A)
  <2>1. \A u \in Uris : g[u] \in Nat  BY <1>1
  <2> QED  BY <1>4, <2>1, SumSplit
<1>9. SumOf(f) = SumFunctionOnSet(g, Uris)  BY <1>5, <1>6, <1>7, <1>8
<1> QED  BY <1>1, <1>5, <1>6, <1>9 DEF g

\* What the loop over job_file_index adds up: the known sizes, and Unknown for
\* each file that could not be looked at.
LEMMA TotalIs ==
  ASSUME NEW f \in [Uris -> Nat]
  PROVE  SumFunction(f) = SumOf(f) + Cardinality({u \in Uris : f[u] = Unknown}) * Unknown
<1> DEFINE A == {u \in Uris : f[u] # Unknown}
           B == {u \in Uris : f[u] = Unknown}
<1>1. SumFunction(f) = SumFunctionOnSet(f, Uris)  BY DEF SumFunction
<1>2. IsFiniteSet(Uris) /\ IsFiniteSet(B) /\ A \in SUBSET Uris /\ Uris \ A = B
  BY DispatchAssumption, FS_Subset
<1>3. \A u \in B : f[u] = Unknown  OBVIOUS
<1>4. SumOf(f) = SumFunctionOnSet(f, A)  BY DEF SumOf
<1> HIDE DEF A, B
<1>5. SumFunctionOnSet(f, Uris) = SumFunctionOnSet(f, A) + SumFunctionOnSet(f, Uris \ A)
  BY <1>2, SumSplit
<1>6. SumFunctionOnSet(f, B) = Cardinality(B) * Unknown  BY <1>2, <1>3, UnknownIs, SumConstant
<1> QED  BY <1>1, <1>2, <1>4, <1>5, <1>6 DEF B

\* What the sum changes by when one entry changes.
LEMMA EntryChanges ==
  ASSUME NEW f \in [Uris -> Nat], NEW u \in Uris, NEW n \in Nat
  PROVE  SumOf([f EXCEPT ![u] = n]) + KnownOf(f)[u]
           = SumOf(f) + (IF n = Unknown THEN 0 ELSE n)
<1> DEFINE e == [f EXCEPT ![u] = n]
<1>1. e \in [Uris -> Nat] /\ e[u] = n /\ \A v \in Uris \ {u} : e[v] = f[v]  OBVIOUS
<1> HIDE DEF e
<1>2. \A v \in Uris \ {u} : KnownOf(f)[v] = KnownOf(e)[v]  BY <1>1 DEF KnownOf
<1>3. KnownOf(e)[u] = IF n = Unknown THEN 0 ELSE n  BY <1>1 DEF KnownOf
<1>4. /\ SumOf(f) = SumFunctionOnSet(KnownOf(f), Uris)
      /\ SumOf(e) = SumFunctionOnSet(KnownOf(e), Uris)
      /\ \A v \in Uris : KnownOf(f)[v] \in Nat /\ KnownOf(e)[v] \in Nat
  BY <1>1, KnownIs
<1>5. PICK g, h : g = KnownOf(f) /\ h = KnownOf(e)  OBVIOUS
<1>6. SumFunctionOnSet(h, Uris) + g[u] = SumFunctionOnSet(g, Uris) + h[u]
  <2>1. \A v \in Uris : g[v] \in Nat /\ h[v] \in Nat  BY <1>4, <1>5
  <2>2. \A v \in Uris \ {u} : g[v] = h[v]  BY <1>2, <1>5
  <2> QED  BY <2>1, <2>2, SumChange, DispatchAssumption
<1> QED  BY <1>3, <1>4, <1>5, <1>6 DEF e

-----------------------------------------------------------------------------
(* Entries are the sizes of lines. *)

IndexSized ==
  \A u \in Uris : job_file_index[u] # 0 =>
    \E j \in Jobs : Line(j).uri = u /\ Line(j).size = job_file_index[u]

\* The runner that enters its file has taken a line.
LEMMA CurrentIsJob ==
  ASSUME Types, Control, NEW r \in Runners, rpc[r] \in Waiting
  PROVE  Current(r) \in Jobs
<1>1. Len(Lines[r]) \in Nat  BY DispatchAssumption
<1>2. cursor[r] \in Nat /\ cursor[r] <= Len(Lines[r])  BY DEF Types
<1>3. cursor[r] # 0  BY DEF Control
<1>4. cursor[r] \in 1 .. Len(Lines[r])  BY <1>1, <1>2, <1>3
<1> QED  BY <1>4, JobShape DEF Current

\* The runners that have found room in the budget and not entered their file yet.
Entering == {r \in Runners : rpc[r] = "enter"}

\* A runner that goes from one place to another, neither of which is "enter".
LEMMA EnteringKept ==
  ASSUME Types, NEW r \in Runners, NEW w, rpc[r] # "enter", w # "enter",
         rpc' = [rpc EXCEPT ![r] = w]
  PROVE  Entering' = Entering
<1>1. \A q \in Runners : rpc'[q] = IF q = r THEN w ELSE rpc[q]  BY DEF Types
<1>2. \A q \in Runners : rpc'[q] = "enter" <=> rpc[q] = "enter"  BY <1>1
<1> QED  BY <1>2 DEF Entering

\* The four ways a step can treat the index and those who are about to enter it.
LEMMA BudgetSteps ==
  ASSUME Types, [Next]_vars
  PROVE  \/ Entering' = Entering /\ job_file_index' = job_file_index
         \/ \E r \in Runners : CheckBudget(r) /\ ~(Threshold <= IndexSum % SizeMod)
         \/ \E r \in Runners : EnterIndex(r)
         \/ \E j \in Jobs : /\ Entering' = Entering
                            /\ job_file_index' = [job_file_index EXCEPT ![Line(j).uri] = 0]
<1> USE DEF Goto, JobGoto, Abort, shared
<1>1. CASE PollWorkers  BY <1>1 DEF PollWorkers, Entering
<1>2. ASSUME NEW r \in Runners, EventStep(r)
      PROVE  Entering' = Entering /\ job_file_index' = job_file_index
  BY <1>2, EnteringKept DEF EventStep, Event, EventDropped
<1>3. ASSUME NEW r \in Runners, RunnerStep(r), ~EnterIndex(r),
             ~(CheckBudget(r) /\ ~(Threshold <= IndexSum % SizeMod))
      PROVE  Entering' = Entering /\ job_file_index' = job_file_index
  <2>1. CASE StartFails(r) \/ StartList(r) \/ StartSingle(r)
    BY <2>1, EnteringKept DEF StartFails, StartList, StartSingle
  <2>2. CASE StartThrows(r) \/ LineThrows(r)  BY <2>2 DEF StartThrows, LineThrows, Entering
  <2>3. CASE SkipLine(r)  BY <2>3 DEF SkipLine, Entering
  <2>4. CASE TakeLine(r)
    <3>1. \E w \in {"wait", "budget", "count"} : rpc[r] = "line" /\ rpc' = [rpc EXCEPT ![r] = w]
      BY <2>4 DEF TakeLine
    <3>2. job_file_index' = job_file_index  BY <2>4 DEF TakeLine
    <3> QED  BY <3>1, <3>2, EnteringKept
  <2>5. CASE EndOfFile(r) \/ WaitForFinish(r) \/ CheckWorkers(r)
    BY <2>5, EnteringKept DEF EndOfFile, WaitForFinish, CheckWorkers
  <2>6. CASE CheckBudget(r)
    BY <1>3, <2>6, EnteringKept DEF CheckBudget
  <2>7. CASE StartPair(r) \/ FileUnreadable(r) \/ ProcessReturns(r)
    <3>1. /\ job_file_index' = job_file_index /\ rpc[r] \in {"start", "count", "process"}
          /\ \E w \in {"post", "done"} : rpc' = [rpc EXCEPT ![r] = w]
      BY <2>7 DEF StartPair, FileUnreadable, ProcessReturns, Outcome
    <3> QED  BY <3>1, EnteringKept
  <2>8. CASE Count(r)
    <3>1. /\ job_file_index' = job_file_index /\ rpc[r] = "count"
          /\ \E w \in {"spawn", "process"} : rpc' = [rpc EXCEPT ![r] = w]
      BY <2>8 DEF Count
    <3> QED  BY <3>1, EnteringKept
  <2>9. CASE Spawn(r) \/ SpawnFails(r) \/ Insert(r)
    BY <2>9, EnteringKept DEF Spawn, SpawnFails, Insert
  <2>10. CASE Drain(r) \/ Postprocess(r)
    BY <2>10, EnteringKept DEF Drain, Postprocess
  <2> QED  BY <1>3, <2>1, <2>2, <2>3, <2>4, <2>5, <2>6, <2>7, <2>8, <2>9, <2>10 DEF RunnerStep
<1>4. ASSUME NEW j \in Jobs, JobStep(j)
      PROVE  /\ Entering' = Entering
             /\ \/ job_file_index' = job_file_index
                \/ job_file_index' = [job_file_index EXCEPT ![Line(j).uri] = 0]
  BY <1>4 DEF JobStep, Unindex, UnindexThrows, Uncount, EraseId, Entering
<1>5. CASE UNCHANGED vars  BY <1>5 DEF vars, Entering
<1> QED  BY <1>1, <1>2, <1>3, <1>4, <1>5 DEF Next

\* Every entry stays the size of a line.
LEMMA IndexSizedStep == ASSUME Types, Control, IndexSized, [Next]_vars PROVE IndexSized'
<1>0. DOMAIN job_file_index = Uris  BY DEF Types
<1>1. CASE job_file_index' = job_file_index  BY <1>1 DEF IndexSized
<1>2. ASSUME NEW r \in Runners, EnterIndex(r) PROVE IndexSized'
  <2>1. rpc[r] \in Waiting  BY <1>2 DEF EnterIndex, Goto, Waiting
  <2>2. PICK j \in Jobs : j = Current(r)  BY <2>1, CurrentIsJob
  <2>3. \A u \in Uris : job_file_index'[u] =
          IF u = Line(j).uri /\ job_file_index[u] = 0 THEN Line(j).size ELSE job_file_index[u]
    BY <1>0, <1>2, <2>2 DEF EnterIndex
  <2> QED  BY <2>3 DEF IndexSized
<1>3. ASSUME NEW j \in Jobs, job_file_index' = [job_file_index EXCEPT ![Line(j).uri] = 0]
      PROVE  IndexSized'
  <2>1. \A u \in Uris : job_file_index'[u] \in {0, job_file_index[u]}  BY <1>0, <1>3
  <2> QED  BY <2>1 DEF IndexSized
<1>4. ASSUME NEW r \in Runners, CheckBudget(r) PROVE job_file_index' = job_file_index
  BY <1>4 DEF CheckBudget, shared
<1> QED  BY <1>1, <1>2, <1>3, <1>4, BudgetSteps

\* There are no more unknown entries than lines of unknown size.
LEMMA FewUnknown ==
  ASSUME IndexSized, Unknown # 0
  PROVE  LET K == {u \in Uris : job_file_index[u] = Unknown}
         IN  /\ IsFiniteSet(K) /\ Cardinality(K) \in Nat
             /\ Cardinality(K) <= Cardinality(UnknownJobs)
<1> DEFINE K == {u \in Uris : job_file_index[u] = Unknown}
           uri == [j \in UnknownJobs |-> Line(j).uri]
           Named == {uri[j] : j \in UnknownJobs}
<1>1. IsFiniteSet(UnknownJobs) /\ IsFiniteSet(Uris)
  BY JobsFinite, FS_Subset, DispatchAssumption DEF UnknownJobs
<1>2. K \in SUBSET Named
  <2> SUFFICES ASSUME NEW u \in K PROVE u \in Named
    OBVIOUS
  <2>1. PICK j \in Jobs : Line(j).uri = u /\ Line(j).size = Unknown  BY DEF IndexSized
  <2>2. j \in UnknownJobs  BY <2>1 DEF UnknownJobs
  <2> QED  BY <2>1, <2>2
<1>3. uri \in Surjection(UnknownJobs, Named)  BY DEF Surjection
<1> HIDE DEF uri, Named
<1>4. IsFiniteSet(Named) /\ Cardinality(Named) <= Cardinality(UnknownJobs)
  BY <1>1, <1>3, FS_Surjection
<1> HIDE DEF K
<1>5. IsFiniteSet(K) /\ Cardinality(K) <= Cardinality(Named)  BY <1>2, <1>4, FS_Subset
<1>6. Cardinality(K) \in Nat /\ Cardinality(Named) \in Nat /\ Cardinality(UnknownJobs) \in Nat
  BY <1>1, <1>4, <1>5, FS_CardinalityType
<1>7. Cardinality(K) <= Cardinality(UnknownJobs)  BY <1>4, <1>5, <1>6
<1> QED  BY <1>5, <1>6, <1>7 DEF K

\* The largest known size is the largest.
LEMMA LargestSizeIs ==
  ASSUME Jobs \ UnknownJobs # {}
  PROVE  LargestSize \in Nat /\ \A j \in Jobs \ UnknownJobs : Line(j).size <= LargestSize
<1> DEFINE D == Jobs \ UnknownJobs
           size == [j \in D |-> Line(j).size]
           S == {Line(j).size : j \in D}
<1>1. IsFiniteSet(D) /\ D # {} /\ \A j \in D : Line(j).size \in Nat
  BY JobsFinite, FS_Subset, LineShape DEF LineOf
<1>2. size \in Surjection(D, S)  BY DEF Surjection
<1>3. S \in SUBSET Nat /\ S # {}  BY <1>1
<1>4. \A j \in D : Line(j).size \in S  OBVIOUS
<1>5. LargestSize = CHOOSE n \in S : \A m \in S : m <= n  BY DEF LargestSize, Largest
<1> HIDE DEF D, size, S
<1>6. IsFiniteSet(S)  BY <1>1, <1>2, FS_Surjection
<1>7. \E n \in S : \A m \in S : m <= n  BY <1>3, <1>6, LargestExists
<1>8. LargestSize \in S /\ \A m \in S : m <= LargestSize  BY <1>5, <1>7
<1> QED  BY <1>3, <1>4, <1>8 DEF D

-----------------------------------------------------------------------------
(* The budget. *)

\* A runner that passes CheckBudget may add a recording of any size when it
\* enters its file.  What is in the index, and the largest recording for each
\* runner that has passed, stay below the bound.
Budget ==
  Jobs \ UnknownJobs # {} /\ Bound < SizeMod /\ (Entering # {} \/ KnownSum # 0)
    => KnownSum + Cardinality(Entering) * LargestSize < Bound

\* The numbers that Budget is about.
LEMMA Numbers ==
  ASSUME Types
  PROVE  /\ IsFiniteSet(Entering) /\ Cardinality(Entering) \in Nat
         /\ Cardinality(Entering) <= Cardinality(Runners)
         /\ KnownSum = SumOf(job_file_index) /\ KnownSum \in Nat
         /\ Cardinality(UnknownJobs) \in Nat /\ Cardinality(Runners) \in Nat
         /\ Threshold \in Nat /\ SizeMod \in Nat \ {0}
<1>1. IsFiniteSet(Entering) /\ Cardinality(Entering) <= Cardinality(Runners)
  BY DispatchAssumption, FS_Subset DEF Entering
<1>2. Cardinality(Entering) \in Nat  BY <1>1, FS_CardinalityType
<1>3. KnownSum = SumOf(job_file_index)  BY DEF KnownSum, SumOf
<1>4. KnownSum \in Nat  BY <1>3, KnownIs DEF Types
<1>5. IsFiniteSet(UnknownJobs)  BY JobsFinite, FS_Subset DEF UnknownJobs
<1>6. Cardinality(UnknownJobs) \in Nat /\ Cardinality(Runners) \in Nat
  BY <1>5, DispatchAssumption, FS_CardinalityType
<1> QED  BY <1>1, <1>2, <1>3, <1>4, <1>6, DispatchAssumption

\* Who passes CheckBudget has seen less than the threshold, and one byte less
\* than there is for each file of unknown size.
LEMMA PassingIsBelow ==
  ASSUME Types, IndexSized, Budget, Jobs \ UnknownJobs # {}, Bound < SizeMod,
         ~(Threshold <= IndexSum % SizeMod)
  PROVE  KnownSum < Threshold + Cardinality(UnknownJobs)
<1> DEFINE U == Cardinality(UnknownJobs)
           K == Cardinality({u \in Uris : job_file_index[u] = Unknown})
<1>1. /\ KnownSum \in Nat /\ U \in Nat /\ Threshold \in Nat /\ SizeMod \in Nat \ {0}
      /\ IsFiniteSet({u \in Uris : job_file_index[u] = Unknown})
  BY Numbers, DispatchAssumption, FS_Subset
<1>2. K \in Nat  BY <1>1, FS_CardinalityType
<1>3. IndexSum = KnownSum + K * Unknown
  BY Numbers, TotalIs DEF IndexSum, Types
<1>4. Bound \in Nat /\ Threshold <= Bound /\ KnownSum < SizeMod
  <2>1. LargestSize \in Nat  BY LargestSizeIs
  <2>2. /\ Cardinality(Runners) * LargestSize \in Nat
        /\ Cardinality(Entering) * LargestSize \in Nat
    BY <2>1, Numbers
  <2>3. Bound \in Nat /\ Threshold <= Bound  BY <1>1, <2>2 DEF Bound
  <2>4. CASE KnownSum = 0  BY <1>1, <2>3, <2>4
  <2>5. CASE KnownSum # 0
    <3>1. KnownSum + Cardinality(Entering) * LargestSize < Bound  BY <2>5 DEF Budget
    <3> QED  BY <1>1, <2>2, <2>3, <3>1
  <2> QED  BY <2>3, <2>4, <2>5
<1>5. CASE Unknown = 0
  <2>1. SizeMod = 1 /\ Bound = 0  BY <1>4, <1>5, UnknownIs
  <2>2. IndexSum \in Nat  BY <1>1, <1>2, <1>3, <1>5
  <2>3. IndexSum % SizeMod \in Nat  BY <1>1, <2>2
  <2> QED  BY <1>1, <1>4, <2>1, <2>3
<1>6. CASE Unknown # 0
  <2>1. K <= U  BY <1>6, FewUnknown
  <2>2. CASE KnownSum < K
    <3> HIDE DEF K, U
    <3> QED  BY <1>1, <1>2, <2>1, <2>2 DEF U
  <2>3. CASE K <= KnownSum
    <3> HIDE DEF K, U
    <3>1. KnownSum - K \in 0 .. SizeMod - 1  BY <1>1, <1>2, <1>4, <2>3
    <3>2. K * Unknown = K * SizeMod - K
      <4>1. K * (Unknown + 1) = K * Unknown + K  BY <1>2, UnknownIs
      <4>2. K * Unknown \in Nat  BY <1>2, UnknownIs
      <4> QED  BY <1>2, <4>1, <4>2, UnknownIs
    <3>3. K * SizeMod \in Nat  BY <1>1, <1>2
    <3>4. IndexSum = (KnownSum - K) + K * SizeMod  BY <1>1, <1>2, <1>3, <3>2, <3>3
    <3>5. IndexSum % SizeMod = KnownSum - K  BY <1>1, <1>2, <3>1, <3>4, Turns
    <3>6. KnownSum - K < Threshold  BY <1>1, <1>2, <3>5
    <3> QED  BY <1>1, <1>2, <2>1, <3>6 DEF U
  <2> HIDE DEF K
  <2> QED  BY <1>1, <1>2, <2>2, <2>3
<1> QED  BY <1>5, <1>6

\* Entering a file adds no more than the largest size.
LEMMA EnterAdds ==
  ASSUME Types, Control, Jobs \ UnknownJobs # {}, NEW r \in Runners, EnterIndex(r)
  PROVE  /\ KnownSum' <= KnownSum + LargestSize
         /\ r \in Entering /\ Entering' = Entering \ {r}
<1>1. rpc[r] = "enter" /\ rpc' = [rpc EXCEPT ![r] = "count"]  BY DEF EnterIndex, Goto
<1>2. r \in Entering /\ Entering' = Entering \ {r}
  <2>1. \A q \in Runners : rpc'[q] = IF q = r THEN "count" ELSE rpc[q]  BY <1>1 DEF Types
  <2>2. \A q \in Runners : rpc'[q] = "enter" <=> rpc[q] = "enter" /\ q # r  BY <2>1
  <2> QED  BY <1>1, <2>2 DEF Entering
<1>3. PICK j \in Jobs : j = Current(r)  BY <1>1, CurrentIsJob DEF Waiting
<1>4. Line(j).uri \in Uris /\ Line(j).size \in Nat  BY LineShape DEF LineOf
<1>5. PICK u \in Uris : u = Line(j).uri  BY <1>4
<1>6. PICK f \in [Uris -> Nat] : f = job_file_index  BY DEF Types
<1>7. PICK n : n = IF f[u] = 0 THEN Line(j).size ELSE f[u]  OBVIOUS
<1>8. n \in Nat /\ job_file_index' = [f EXCEPT ![u] = n]
  BY <1>3, <1>4, <1>5, <1>6, <1>7 DEF EnterIndex
<1>9. KnownSum = SumOf(f) /\ KnownSum' = SumOf([f EXCEPT ![u] = n])
  BY <1>6, <1>8 DEF KnownSum, SumOf
<1>10. KnownSum' + KnownOf(f)[u] = KnownSum + (IF n = Unknown THEN 0 ELSE n)
  BY <1>8, <1>9, EntryChanges
<1>11. SumOf(f) \in Nat /\ SumOf([f EXCEPT ![u] = n]) \in Nat
  <2>1. [f EXCEPT ![u] = n] \in [Uris -> Nat]  BY <1>8
  <2> QED  BY <2>1, KnownIs
<1>12. LargestSize \in Nat /\ (n # Unknown /\ f[u] = 0 => n <= LargestSize)
  BY <1>7, LargestSizeIs DEF UnknownJobs
<1>13. KnownOf(f)[u] = IF f[u] = Unknown THEN 0 ELSE f[u]  BY DEF KnownOf
<1>14. KnownSum' <= KnownSum + LargestSize
  <2>1. CASE f[u] # 0
    BY <1>7, <1>8, <1>9, <1>10, <1>11, <1>12, <1>13, <2>1
  <2>2. CASE f[u] = 0 /\ n = Unknown
    BY <1>9, <1>10, <1>11, <1>12, <1>13, <2>2
  <2>3. CASE f[u] = 0 /\ n # Unknown
    BY <1>8, <1>9, <1>10, <1>11, <1>12, <1>13, <2>3
  <2> QED  BY <2>1, <2>2, <2>3
<1> QED  BY <1>2, <1>14

\* A step that ends a job, or lets a runner pass or enter, keeps the budget.
LEMMA BudgetStep ==
  ASSUME Types, Control, IndexSized, Budget, [Next]_vars
  PROVE  Budget'
<1> SUFFICES ASSUME Jobs \ UnknownJobs # {}, Bound < SizeMod,
                    Entering' # {} \/ KnownSum' # 0
             PROVE  KnownSum' + Cardinality(Entering') * LargestSize < Bound
  BY DEF Budget, Bound, UnknownJobs, LargestSize, Line, Unknown
<1>1. Types'  BY TypesStep
<1>2. /\ KnownSum \in Nat /\ KnownSum' \in Nat
      /\ Cardinality(Entering) \in Nat /\ Cardinality(Entering') \in Nat
      /\ Cardinality(Entering') <= Cardinality(Runners) /\ Cardinality(Runners) \in Nat
      /\ Cardinality(UnknownJobs) \in Nat /\ Threshold \in Nat
  <2>1. /\ IsFiniteSet(Entering') /\ Cardinality(Entering') <= Cardinality(Runners)
    BY DispatchAssumption, FS_Subset DEF Entering
  <2>2. Cardinality(Entering') \in Nat  BY <2>1, FS_CardinalityType
  <2>3. KnownSum' = SumOf(job_file_index')  BY DEF KnownSum, SumOf
  <2>4. KnownSum' \in Nat  BY <1>1, <2>3, KnownIs DEF Types
  <2> QED  BY <2>1, <2>2, <2>4, Numbers
<1>3. LargestSize \in Nat  BY LargestSizeIs
<1>4. CASE Entering' = Entering /\ job_file_index' = job_file_index
  <2>1. KnownSum' = KnownSum  BY <1>4 DEF KnownSum
  <2> QED  BY <1>4, <2>1 DEF Budget
<1>5. ASSUME NEW r \in Runners, CheckBudget(r), ~(Threshold <= IndexSum % SizeMod)
      PROVE  KnownSum' + Cardinality(Entering') * LargestSize < Bound
  <2>1. KnownSum' = KnownSum  BY <1>5 DEF CheckBudget, shared, KnownSum
  <2>2. KnownSum < Threshold + Cardinality(UnknownJobs)  BY <1>5, PassingIsBelow
  <2>3. Cardinality(Entering') * LargestSize <= Cardinality(Runners) * LargestSize
    BY <1>2, <1>3, TimesGrows
  <2>4. /\ Cardinality(Entering') * LargestSize \in Nat
        /\ Cardinality(Runners) * LargestSize \in Nat
    BY <1>2, <1>3
  <2> QED  BY <1>2, <2>1, <2>2, <2>3, <2>4 DEF Bound
<1>6. ASSUME NEW r \in Runners, EnterIndex(r)
      PROVE  KnownSum' + Cardinality(Entering') * LargestSize < Bound
  <2>1. /\ KnownSum' <= KnownSum + LargestSize
        /\ r \in Entering /\ Entering' = Entering \ {r}
    BY <1>6, EnterAdds
  <2>2. Cardinality(Entering') = Cardinality(Entering) - 1
    BY <2>1, Numbers, FS_RemoveElement
  <2>3. KnownSum + Cardinality(Entering) * LargestSize < Bound
    BY <2>1 DEF Budget
  <2>4. PICK c \in Nat : c = Cardinality(Entering')  BY <1>2
  <2>5. Cardinality(Entering) * LargestSize = c * LargestSize + LargestSize
    <3>1. Cardinality(Entering) = c + 1  BY <1>2, <2>2, <2>4
    <3>2. (c + 1) * LargestSize = c * LargestSize + LargestSize  BY <1>3
    <3> QED  BY <3>1, <3>2
  <2>6. c * LargestSize \in Nat  BY <1>3
  <2>7. Bound \in Int
    <3>1. Cardinality(Runners) * LargestSize \in Nat  BY <1>2, <1>3
    <3> QED  BY <1>2, <3>1 DEF Bound
  <2> QED  BY <1>2, <1>3, <2>1, <2>3, <2>4, <2>5, <2>6, <2>7
<1>7. ASSUME NEW j \in Jobs, Entering' = Entering,
             job_file_index' = [job_file_index EXCEPT ![Line(j).uri] = 0]
      PROVE  KnownSum' + Cardinality(Entering') * LargestSize < Bound
  <2>1. PICK f \in [Uris -> Nat] : f = job_file_index  BY DEF Types
  <2>2. PICK u \in Uris : u = Line(j).uri  BY LineShape DEF LineOf
  <2>3. KnownSum = SumOf(f) /\ KnownSum' = SumOf([f EXCEPT ![u] = 0])
    BY <1>7, <2>1, <2>2 DEF KnownSum, SumOf
  <2>4. KnownSum' + KnownOf(f)[u] = KnownSum + (IF 0 = Unknown THEN 0 ELSE 0)
    BY <2>3, EntryChanges
  <2>5. KnownOf(f)[u] \in Nat  BY KnownIs
  <2>6. KnownSum' <= KnownSum
    <3>1. (IF 0 = Unknown THEN 0 ELSE 0) = 0  OBVIOUS
    <3> QED  BY <1>2, <2>4, <2>5, <3>1
  <2>7. Entering # {} \/ KnownSum # 0  BY <1>2, <1>7, <2>6
  <2>8. KnownSum + Cardinality(Entering) * LargestSize < Bound  BY <2>7 DEF Budget
  <2>9. Cardinality(Entering) * LargestSize \in Nat /\ Cardinality(Runners) * LargestSize \in Nat
    BY <1>2, <1>3
  <2>10. Bound \in Int  BY <1>2, <2>9 DEF Bound
  <2> QED  BY <1>2, <1>7, <2>6, <2>8, <2>9, <2>10
<1> QED  BY <1>4, <1>5, <1>6, <1>7, BudgetSteps

\* What every step keeps, on top of the invariant of the dispatcher.
BudgetInv == IndexSized /\ Budget

\* No run has begun.
LEMMA BudgetInit == Init => BudgetInv
<1> SUFFICES ASSUME Init PROVE BudgetInv
  OBVIOUS
<1>1. IndexSized  BY DEF Init, IndexSized
<1>2. Types  BY InvInit DEF Inv
<1>3. Entering = {}  BY DEF Init, Entering
<1>4. KnownSum = 0
  <2>1. \A u \in Uris : KnownOf(job_file_index)[u] = 0  BY DEF Init, KnownOf
  <2>2. SumFunctionOnSet(KnownOf(job_file_index), Uris) = Cardinality(Uris) * 0
    <3> DEFINE g == KnownOf(job_file_index)
    <3>1. \A u \in Uris : g[u] = 0  BY <2>1
    <3> HIDE DEF g
    <3>2. SumFunctionOnSet(g, Uris) = Cardinality(Uris) * 0
      BY <3>1, SumConstant, DispatchAssumption
    <3> QED  BY <3>2 DEF g
  <2>3. Cardinality(Uris) \in Nat  BY FS_CardinalityType, DispatchAssumption
  <2>4. KnownSum = SumFunctionOnSet(KnownOf(job_file_index), Uris)
    BY <1>2, KnownIs, Numbers DEF Types
  <2> QED  BY <2>2, <2>3, <2>4
<1> QED  BY <1>1, <1>3, <1>4 DEF BudgetInv, Budget

\* The invariants hold for ever.
LEMMA BudgetHolds == Spec => [](Inv /\ BudgetInv)
<1>1. Init => Inv /\ BudgetInv  BY InvInit, BudgetInit
<1>2. Inv /\ BudgetInv /\ [Next]_vars => (Inv /\ BudgetInv)'
  <2> SUFFICES ASSUME Inv, BudgetInv, [Next]_vars PROVE Inv' /\ BudgetInv'
    OBVIOUS
  <2>1. Inv'  BY InvStep
  <2>2. IndexSized'  BY IndexSizedStep DEF Inv, BudgetInv
  <2>3. Budget'  BY BudgetStep DEF Inv, BudgetInv
  <2> QED  BY <2>1, <2>2, <2>3 DEF BudgetInv
<1> QED  BY <1>1, <1>2, PTL DEF Spec, Safety

\* The recordings in progress exceed inotify.fs_threshold by less than the
\* largest of them for each runner, and one byte for each whose size get_file_size
\* could not find out: whatever the threshold, the sizes and the interleaving of
\* runJob threads between CheckBudget and EnterIndex, as long as a sum of sizes
\* that obeys the bound fits into a size_t.
THEOREM BudgetIsBounded == Spec => []BudgetBound
<1>1. Inv /\ BudgetInv => BudgetBound
  <2> SUFFICES ASSUME Types, IndexSized, Budget, Bound < SizeMod, KnownSum # 0
               PROVE  KnownSum < Bound
    BY DEF Inv, BudgetInv, BudgetBound
  <2>1. CASE Jobs \ UnknownJobs = {}
    <3>1. PICK g : g = KnownOf(job_file_index)  OBVIOUS
    <3>2. \A u \in Uris : g[u] = 0
      <4> SUFFICES ASSUME NEW u \in Uris, job_file_index[u] # Unknown, job_file_index[u] # 0
                   PROVE  FALSE
        BY <3>1 DEF KnownOf
      <4>1. PICK j \in Jobs : Line(j).size = job_file_index[u]  BY DEF IndexSized
      <4> QED  BY <2>1, <4>1 DEF UnknownJobs
    <3>3. SumFunctionOnSet(g, Uris) = Cardinality(Uris) * 0
      BY <3>2, SumConstant, DispatchAssumption
    <3>4. Cardinality(Uris) \in Nat  BY FS_CardinalityType, DispatchAssumption
    <3>5. KnownSum = SumFunctionOnSet(g, Uris)
      BY <3>1, KnownIs, Numbers DEF Types
    <3> QED  BY <3>3, <3>4, <3>5
  <2>2. CASE Jobs \ UnknownJobs # {}
    <3>1. KnownSum + Cardinality(Entering) * LargestSize < Bound  BY <2>2 DEF Budget
    <3>2. LargestSize \in Nat  BY <2>2, LargestSizeIs
    <3>3. /\ KnownSum \in Nat /\ Cardinality(UnknownJobs) \in Nat
          /\ Threshold \in Nat
          /\ Cardinality(Entering) \in Nat /\ Cardinality(Runners) \in Nat
      BY Numbers
    <3>4. /\ Cardinality(Entering) * LargestSize \in Nat
          /\ Cardinality(Runners) * LargestSize \in Nat
      BY <3>2, <3>3
    <3>5. Bound \in Int  BY <3>3, <3>4 DEF Bound
    <3> QED  BY <3>1, <3>3, <3>4, <3>5
  <2> QED  BY <2>1, <2>2
<1> QED  BY <1>1, BudgetHolds, PTL
=============================================================================
