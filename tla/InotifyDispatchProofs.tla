----------------------- MODULE InotifyDispatchProofs -----------------------
(***************************************************************************)
(* What InotifyDispatch promises for every number of index files, lines,   *)
(* threads and workers.                                                    *)
(***************************************************************************)
EXTENDS InotifyDispatch, FiniteSetTheorems, TLAPS

-----------------------------------------------------------------------------
(* Finitely many jobs. *)

\* There are as many jobs as lines.
LEMMA JobsFinite == IsFiniteSet(Jobs)
<1> DEFINE Of(r) == {r} \X (1 .. Len(Lines[r]))
           All == {Of(r) : r \in Runners}
<1>1. IsFiniteSet(All)
  <2> DEFINE of == [r \in Runners |-> Of(r)]
  <2>1. of \in Surjection(Runners, All)  BY DEF Surjection
  <2> HIDE DEF of
  <2> QED  BY <2>1, FS_Surjection, DispatchAssumption
<1>2. \A r \in Runners : IsFiniteSet(Of(r))
  <2> SUFFICES ASSUME NEW r \in Runners PROVE IsFiniteSet(Of(r))
    OBVIOUS
  <2>1. Len(Lines[r]) \in Nat  BY DispatchAssumption
  <2>2. IsFiniteSet(1 .. Len(Lines[r]))  BY <2>1, FS_Interval
  <2> QED  BY <2>2, FS_Singleton, FS_Product
<1> QED  BY <1>1, <1>2, FS_UNION DEF Jobs

\* A job is a runner and a line of its file.
LEMMA JobShape ==
  /\ \A j \in Jobs : j[1] \in Runners /\ j[2] \in 1 .. Len(Lines[j[1]]) /\ j = <<j[1], j[2]>>
  /\ \A r \in Runners : \A i \in 1 .. Len(Lines[r]) : <<r, i>> \in Jobs
BY DEF Jobs

\* A line has a kind, a URI and a size.
LEMMA LineShape == \A j \in Jobs : Line(j) \in LineOf
<1> SUFFICES ASSUME NEW j \in Jobs PROVE Line(j) \in LineOf
  OBVIOUS
<1>1. j[1] \in Runners /\ j[2] \in 1 .. Len(Lines[j[1]])  BY JobShape
<1>2. Lines[j[1]] \in Seq(LineOf)  BY <1>1, DispatchAssumption
<1> QED  BY <1>1, <1>2 DEF Line

-----------------------------------------------------------------------------
(* Types, and where a runner can be. *)

Types ==
  /\ config \in [index_type : IndexTypes, fs : Thresholds]
  /\ alive \in BOOLEAN
  /\ rpc \in [Runners -> {"idle", "start", "line", "wait", "budget", "sum", "enter",
                          "count", "spawn", "insert", "drain", "process", "post", "done"}]
  /\ cursor \in [Runners -> Nat] /\ \A r \in Runners : cursor[r] <= Len(Lines[r])
  /\ max_worker \in [Runners -> Available \cup {0}]
  /\ handle \in [Runners -> Tids \cup {NoTid}]
  /\ \A r \in Runners : rpc[r] = "insert" => handle[r] \in Tids
  /\ broke \in [Runners -> BOOLEAN]
  /\ jobs \in [Runners -> SUBSET Tids]
  /\ jpc \in [Jobs -> {"none", "exited"} \cup InProgress]
  /\ tid \in [Jobs -> Tids \cup {NoTid}]
  /\ available_workers \in Available
  /\ job_file_index \in [Uris -> Nat]

\* A runner has taken a line ...
Waiting == {"wait", "budget", "sum", "enter", "count", "spawn"}

\* ... that no job works on yet.
Chosen(j) == j[2] = cursor[j[1]] /\ (rpc[j[1]] \in Waiting \/ broke[j[1]])

\* Where a runner can be, and which lines it has taken.
Control ==
  /\ \A r \in Runners :
       /\ rpc[r] \in {"idle", "start"} => cursor[r] = 0
       /\ rpc[r] \in Waiting \cup {"process"} \/ broke[r] => cursor[r] # 0
       /\ broke[r] => rpc[r] \in {"drain", "post", "done"}
       /\ IsList => rpc[r] # "process"
       /\ ~IsList => /\ rpc[r] \in {"idle", "start", "wait", "count", "process", "post", "done"}
                     /\ cursor[r] <= 1
       /\ IsList /\ config.fs = "unset" => rpc[r] \in {"idle", "start", "done"}
  /\ \A j \in Jobs : j[2] > cursor[j[1]] \/ Chosen(j) => jpc[j] = "none"

\* The variables keep their types.
LEMMA TypesStep == ASSUME Types, Control, [Next]_vars PROVE Types'
<1> USE DispatchAssumption DEF Types, Goto, JobGoto, Abort, locals, jobVars, shared, InProgress
<1>1. CASE PollWorkers  BY <1>1 DEF PollWorkers
<1>2. ASSUME NEW r \in Runners, EventStep(r) PROVE Types'
  BY <1>2 DEF EventStep, Event, EventDropped
<1>3. ASSUME NEW r \in Runners, RunnerStep(r) PROVE Types'
  <2>1. CASE StartFails(r) \/ StartList(r) \/ StartThrows(r) \/ StartPair(r)
    BY <2>1 DEF StartFails, StartList, StartThrows, StartPair, Outcome
  <2>2. CASE StartSingle(r)
    <3>1. Len(Lines[r]) \in Nat  BY DispatchAssumption
    <3> QED  BY <2>2, <3>1 DEF StartSingle
  <2>3. CASE SkipLine(r) \/ TakeLine(r)
    <3>1. Len(Lines[r]) \in Nat  BY DispatchAssumption
    <3>2. /\ cursor[r] < Len(Lines[r]) /\ cursor' = [cursor EXCEPT ![r] = @ + 1]
          /\ UNCHANGED <<config, alive, handle, broke, jobs, jpc, tid, available_workers, job_file_index>>
          /\ \/ UNCHANGED <<rpc, max_worker>>
             \/ /\ \E w \in {"wait", "budget", "count"} : rpc' = [rpc EXCEPT ![r] = w]
                /\ \E m \in {0, available_workers} : max_worker' = [max_worker EXCEPT ![r] = m]
      BY <2>3 DEF SkipLine, TakeLine, HasLine
    <3>3. CASE UNCHANGED <<rpc, max_worker>>
      BY <2>3, <3>1, <3>2, <3>3 DEF SkipLine, TakeLine, HasLine
    <3>4. ASSUME NEW w \in {"wait", "budget", "count"}, NEW m \in {0, available_workers},
                 rpc' = [rpc EXCEPT ![r] = w], max_worker' = [max_worker EXCEPT ![r] = m]
          PROVE  Types'
      BY <3>1, <3>2, <3>4
    <3> QED  BY <3>2, <3>3, <3>4
  <2>4. CASE LineThrows(r) \/ EndOfFile(r)  BY <2>4 DEF LineThrows, EndOfFile
  <2>5. CASE WaitForFinish(r) \/ CheckWorkers(r) \/ CheckBudget(r)
    BY <2>5 DEF WaitForFinish, WaitOver, CheckWorkers, CheckBudget
  <2>6. CASE EnterIndex(r)
    <3>1. \A u \in Uris : job_file_index'[u] \in {job_file_index[u], Line(Current(r)).size}
      BY <2>6 DEF EnterIndex
    <3>2. Current(r) \in Jobs
      <4>1. rpc[r] = "enter"  BY <2>6 DEF EnterIndex
      <4>2. cursor[r] # 0 /\ Len(Lines[r]) \in Nat  BY <4>1 DEF Control, Waiting
      <4> QED  BY <4>2, JobShape DEF Current
    <3>3. Line(Current(r)).size \in Nat  BY <3>2, LineShape DEF LineOf
    <3>4. job_file_index' \in [Uris -> Nat]
      BY <2>6, <3>1, <3>3 DEF EnterIndex
    <3> HIDE DEF Types
    <3> QED  BY <2>6, <3>4 DEF EnterIndex, WaitOver, Types
  <2>7. CASE Count(r)  BY <2>7 DEF Count
  <2>8. CASE FileUnreadable(r) \/ Drain(r) \/ ProcessReturns(r) \/ Postprocess(r)
    BY <2>8 DEF FileUnreadable, Drain, ProcessReturns, Postprocess, Outcome
  <2>9. CASE Spawn(r)
    <3>1. PICK t \in Tids : /\ tid' = [tid EXCEPT ![Current(r)] = t]
                            /\ handle' = [handle EXCEPT ![r] = t]
      BY <2>9 DEF Spawn
    <3> QED  BY <2>9, <3>1 DEF Spawn
  <2>10. CASE SpawnFails(r)  BY <2>10 DEF SpawnFails
  <2>11. CASE Insert(r)
    <3>1. handle[r] \in Tids  BY <2>11 DEF Insert
    <3> QED  BY <2>11, <3>1 DEF Insert
  <2> QED  BY <1>3, <2>1, <2>2, <2>3, <2>4, <2>5, <2>6, <2>7, <2>8, <2>9, <2>10, <2>11
           DEF RunnerStep
<1>4. ASSUME NEW j \in Jobs, JobStep(j) PROVE Types'
  <2>1. j[1] \in Runners  BY JobShape
  <2>2. CASE Unindex(j)
    <3>1. job_file_index' \in [Uris -> Nat]  BY <2>2 DEF Unindex
    <3> QED  BY <2>2, <3>1 DEF Unindex
  <2>3. CASE UnindexThrows(j)  BY <2>3 DEF UnindexThrows
  <2>4. CASE Uncount(j)  BY <2>4 DEF Uncount
  <2>5. CASE EraseId(j)  BY <2>1, <2>5 DEF EraseId
  <2> QED  BY <1>4, <2>2, <2>3, <2>4, <2>5 DEF JobStep
<1>5. CASE UNCHANGED vars  BY <1>5 DEF vars
<1> QED  BY <1>1, <1>2, <1>3, <1>4, <1>5 DEF Next

\* What a step of runner r does where it neither starts a job nor takes a line.
LEMMA ControlKept ==
  ASSUME Types, Control, NEW r \in Runners,
         rpc' = [rpc EXCEPT ![r] = rpc'[r]],
         UNCHANGED <<config, cursor, broke, jpc>>,
         rpc[r] # "idle", rpc'[r] \notin {"idle", "start", "process"},
         rpc'[r] \in Waiting => rpc[r] \in Waiting,
         broke[r] => rpc'[r] \in {"drain", "post", "done"},
         ~IsList => rpc'[r] \in {"wait", "count", "post", "done"},
         IsList /\ config.fs = "unset" => rpc'[r] = "done"
  PROVE  Control'
<1>1. \A q \in Runners : q # r => rpc'[q] = rpc[q]  BY DEF Types
<1>2. \A j \in Jobs : Chosen(j)' => Chosen(j)
  BY <1>1, JobShape DEF Chosen
<1> QED  BY <1>1, <1>2 DEF Control, IsList

\* A runner is where its guards have brought it.
LEMMA ControlStep == ASSUME Types, Control, [Next]_vars PROVE Control'
<1> USE DispatchAssumption DEF Goto, JobGoto, Abort, locals, jobVars, shared
<1>1. CASE PollWorkers  BY <1>1 DEF PollWorkers, Control, Chosen, IsList
<1>2. ASSUME NEW r \in Runners, EventStep(r) PROVE Control'
  <2>1. \/ Event(r)
        \/ EventDropped(r)
    BY <1>2 DEF EventStep
  <2>2. /\ rpc[r] = "idle" /\ \E w \in {"start", "done"} : rpc' = [rpc EXCEPT ![r] = w]
        /\ UNCHANGED <<config, cursor, broke, jpc>>
    BY <2>1 DEF Event, EventDropped
  <2>3. \A q \in Runners : rpc'[q] = IF q = r THEN rpc'[r] ELSE rpc[q]
    BY <2>2 DEF Types
  <2>4. rpc'[r] \in {"start", "done"}  BY <2>2 DEF Types
  <2>5. \A j \in Jobs : Chosen(j)' => Chosen(j)
    BY <2>2, <2>3, <2>4, JobShape DEF Chosen, Waiting
  <2> QED  BY <2>2, <2>3, <2>4, <2>5 DEF Control, IsList, Waiting
<1>3. ASSUME NEW r \in Runners, RunnerStep(r) PROVE Control'
  <2>1. CASE StartFails(r) \/ StartList(r) \/ StartPair(r)
    <3>1. /\ rpc[r] = "start" /\ \E w \in {"line", "post", "done"} : rpc' = [rpc EXCEPT ![r] = w]
          /\ rpc' = [rpc EXCEPT ![r] = "line"] => IsList /\ config.fs # "unset"
          /\ rpc' = [rpc EXCEPT ![r] = "post"] => ~IsList
          /\ UNCHANGED <<config, cursor, broke, jpc>>
      BY <2>1 DEF StartFails, StartList, StartPair, Outcome, IsList, Types
    <3> QED  BY <3>1, ControlKept DEF Types, Control, Waiting
  <2>2. CASE StartThrows(r) \/ LineThrows(r)
    BY <2>2 DEF StartThrows, LineThrows, Control, Chosen, IsList
  <2>3. CASE StartSingle(r)
    <3>1. /\ rpc[r] = "start" /\ rpc' = [rpc EXCEPT ![r] = "wait"]
          /\ cursor[r] = 0 /\ cursor' = [cursor EXCEPT ![r] = 1] /\ ~IsList
          /\ UNCHANGED <<config, broke, jpc>>
      BY <2>3 DEF StartSingle, IsList, Control
    <3>2. \A q \in Runners : /\ rpc'[q] = IF q = r THEN "wait" ELSE rpc[q]
                             /\ cursor'[q] = IF q = r THEN 1 ELSE cursor[q]
      BY <3>1 DEF Types
    <3>3. \A j \in Jobs : j[1] \in Runners /\ j[2] \in Nat \ {0}
      BY JobShape
    <3>4. \A j \in Jobs : j[2] > cursor'[j[1]] \/ Chosen(j)' => j[2] > cursor[j[1]] \/ Chosen(j)
      BY <3>1, <3>2, <3>3 DEF Chosen
    <3> QED  BY <3>1, <3>2, <3>4 DEF Control, IsList, Waiting
  <2>4. CASE SkipLine(r) \/ TakeLine(r)
    <3>1. /\ rpc[r] = "line" /\ rpc'[r] \in {"line", "wait", "budget", "count"}
          /\ cursor' = [cursor EXCEPT ![r] = @ + 1]
          /\ \A q \in Runners : q # r => rpc'[q] = rpc[q]
          /\ UNCHANGED <<config, broke, jpc>>
      BY <2>4 DEF SkipLine, TakeLine, HasLine, Types
    <3>2. \A q \in Runners : cursor[q] \in Nat /\ cursor'[q] = IF q = r THEN cursor[q] + 1 ELSE cursor[q]
      BY <3>1 DEF Types
    <3>3. \A j \in Jobs : j[1] \in Runners /\ j[2] \in Nat \ {0}
      BY JobShape
    <3>4. IsList /\ config.fs # "unset" /\ ~broke[r]  BY <3>1 DEF Control
    <3>5. \A j \in Jobs : j[2] > cursor'[j[1]] \/ Chosen(j)' => j[2] > cursor[j[1]] \/ Chosen(j)
      BY <3>1, <3>2, <3>3 DEF Chosen
    <3>6. cursor'[r] # 0 /\ \A q \in Runners : q # r => cursor'[q] = cursor[q]
      BY <3>2
    <3> QED  BY <3>1, <3>4, <3>5, <3>6 DEF Control, IsList, Waiting
  <2>5. CASE \/ EndOfFile(r) \/ WaitForFinish(r) \/ CheckWorkers(r) \/ CheckBudget(r)
             \/ EnterIndex(r)
    <3>1. PICK v \in {"line", "wait", "budget", "sum", "enter"},
               w \in {"drain", "count", "budget", "sum", "enter"} :
            /\ rpc[r] = v /\ rpc' = [rpc EXCEPT ![r] = w]
            /\ w = "drain" <=> v = "line"
            /\ v = "wait" => w = "count"
      BY <2>5 DEF EndOfFile, WaitForFinish, CheckWorkers, CheckBudget, EnterIndex
    <3>2. UNCHANGED <<config, cursor, broke, jpc>>
      BY <2>5 DEF EndOfFile, WaitForFinish, CheckWorkers, CheckBudget, EnterIndex
    <3>3. rpc'[r] = w  BY <3>1 DEF Types
    <3>4. ~IsList => v = "wait"  BY <3>1 DEF Control
    <3>5. ~(IsList /\ config.fs = "unset") /\ ~broke[r]  BY <3>1 DEF Control
    <3> QED  BY <3>1, <3>2, <3>3, <3>4, <3>5, ControlKept DEF Types, Control, Waiting
  <2>6. CASE Count(r)
    <3>1. CASE IsList
      <4>1. /\ rpc[r] = "count" /\ rpc' = [rpc EXCEPT ![r] = "spawn"]
            /\ UNCHANGED <<config, cursor, broke, jpc>>
        BY <2>6, <3>1 DEF Count
      <4> QED  BY <3>1, <4>1, ControlKept DEF Types, Control, Waiting
    <3>2. CASE ~IsList
      <4>1. /\ rpc[r] = "count" /\ rpc' = [rpc EXCEPT ![r] = "process"]
            /\ jpc' = [jpc EXCEPT ![Current(r)] = "running"]
            /\ UNCHANGED <<config, cursor, broke>>
        BY <2>6, <3>2 DEF Count
      <4>2. cursor[r] = 1 /\ ~broke[r]
        <5>1. cursor[r] \in Nat  BY DEF Types
        <5>2. cursor[r] # 0 /\ cursor[r] <= 1 /\ ~broke[r]
          BY <3>2, <4>1 DEF Control, Waiting
        <5> QED  BY <5>1, <5>2
      <4>3. \A q \in Runners : rpc'[q] = IF q = r THEN "process" ELSE rpc[q]
        BY <4>1 DEF Types
      <4>4. \A j \in Jobs : j # Current(r) => jpc'[j] = jpc[j]
        BY <4>1 DEF Types
      <4>5. \A j \in Jobs : j[2] > cursor'[j[1]] \/ Chosen(j)' =>
              j # Current(r) /\ (j[2] > cursor[j[1]] \/ Chosen(j))
        BY <4>1, <4>2, <4>3, JobShape DEF Chosen, Current, Waiting
      <4> QED  BY <3>2, <4>1, <4>2, <4>3, <4>4, <4>5 DEF Control, IsList, Waiting
    <3> QED  BY <3>1, <3>2
  <2>7. CASE FileUnreadable(r) \/ Drain(r) \/ ProcessReturns(r) \/ Postprocess(r)
    <3>1. /\ rpc[r] \in {"count", "drain", "process", "post"} /\ (rpc[r] = "count" => ~IsList)
          /\ \E w \in {"post", "done"} : rpc' = [rpc EXCEPT ![r] = w]
          /\ UNCHANGED <<config, cursor, broke, jpc>>
      BY <2>7 DEF FileUnreadable, Drain, ProcessReturns, Postprocess, Outcome, IsList
    <3> QED  BY <3>1, ControlKept DEF Types, Control, Waiting
  <2>8. CASE Spawn(r)
    <3>1. /\ rpc[r] = "spawn" /\ rpc' = [rpc EXCEPT ![r] = "insert"]
          /\ jpc' = [jpc EXCEPT ![Current(r)] = "running"]
          /\ UNCHANGED <<config, cursor, broke>>
      BY <2>8 DEF Spawn
    <3>2. \A q \in Runners : rpc'[q] = IF q = r THEN "insert" ELSE rpc[q]
      BY <3>1 DEF Types
    <3>3. \A j \in Jobs : j # Current(r) => jpc'[j] = jpc[j]
      BY <3>1 DEF Types
    <3>4. ~broke[r] /\ IsList /\ config.fs # "unset"  BY <3>1 DEF Control
    <3>5. \A j \in Jobs : j[2] > cursor'[j[1]] \/ Chosen(j)' =>
            j # Current(r) /\ (j[2] > cursor[j[1]] \/ Chosen(j))
      <4>1. cursor[r] \in Nat  BY DEF Types
      <4> QED  BY <3>1, <3>2, <3>4, <4>1, JobShape DEF Chosen, Current, Waiting
    <3> QED  BY <3>1, <3>2, <3>3, <3>4, <3>5 DEF Control, IsList, Waiting
  <2>9. CASE SpawnFails(r)
    <3>1. /\ rpc[r] = "spawn" /\ rpc' = [rpc EXCEPT ![r] = "drain"]
          /\ broke' = [broke EXCEPT ![r] = TRUE]
          /\ UNCHANGED <<config, cursor, jpc>>
      BY <2>9 DEF SpawnFails
    <3>2. /\ rpc'[r] = "drain"
          /\ \A q \in Runners : q # r => rpc'[q] = rpc[q] /\ broke'[q] = broke[q]
      <4>1. \A q \in Runners : rpc'[q] = IF q = r THEN "drain" ELSE rpc[q]
        BY <3>1 DEF Types
      <4>2. \A q \in Runners : q # r => broke'[q] = broke[q]
        BY <3>1 DEF Types
      <4> QED  BY <4>1, <4>2
    <3>3. IsList /\ config.fs # "unset" /\ cursor[r] # 0  BY <3>1 DEF Control, Waiting
    <3>4. \A j \in Jobs : j[2] > cursor'[j[1]] \/ Chosen(j)' => j[2] > cursor[j[1]] \/ Chosen(j)
      BY <3>1, <3>2, JobShape DEF Chosen, Waiting
    <3> QED  BY <3>1, <3>2, <3>3, <3>4 DEF Control, IsList, Waiting
  <2>10. CASE Insert(r)
    <3>1. /\ rpc[r] = "insert" /\ rpc' = [rpc EXCEPT ![r] = "line"]
          /\ UNCHANGED <<config, cursor, broke, jpc>>
      BY <2>10 DEF Insert
    <3> QED  BY <3>1, ControlKept DEF Types, Control, Waiting
  <2> QED  BY <1>3, <2>1, <2>2, <2>3, <2>4, <2>5, <2>6, <2>7, <2>8, <2>9, <2>10
           DEF RunnerStep
<1>4. ASSUME NEW j \in Jobs, JobStep(j) PROVE Control'
  <2>1. /\ UNCHANGED <<config, rpc, cursor, broke>>
        /\ \A k \in Jobs : jpc[k] = "none" => jpc'[k] = "none"
    BY <1>4 DEF JobStep, Unindex, UnindexThrows, Uncount, EraseId, Types
  <2> QED  BY <2>1 DEF Control, Chosen, IsList
<1>5. CASE UNCHANGED vars  BY <1>5 DEF vars, Control, Chosen, IsList
<1> QED  BY <1>1, <1>2, <1>3, <1>4, <1>5 DEF Next

-----------------------------------------------------------------------------
(* Thread ids, and the runner that waits for its children. *)

\* The id of a job is in the set of its runner, or about to be inserted.
Tracked(j) ==
  \/ tid[j] \in jobs[j[1]]
  \/ rpc[j[1]] = "insert" /\ j[2] = cursor[j[1]] /\ handle[j[1]] = tid[j]

\* In list mode every job in progress has an id of its own, and is waited for.
Ids ==
  IsList =>
    /\ \A j \in Jobs : jpc[j] \in InProgress => tid[j] \in Tids /\ Tracked(j)
    /\ \A j, k \in Jobs :
         jpc[j] \in InProgress /\ jpc[k] \in InProgress /\ j # k => tid[j] # tid[k]

\* A step that starts no job and touches neither ids nor sets.
LEMMA IdsKept ==
  ASSUME Types, Ids, UNCHANGED <<config, jobs, tid>>,
         \A r \in Runners : rpc[r] = "insert" =>
           rpc'[r] = "insert" /\ cursor'[r] = cursor[r] /\ handle'[r] = handle[r],
         IsList => \A j \in Jobs : jpc'[j] \in InProgress => jpc[j] \in InProgress
  PROVE  Ids'
<1>1. \A j \in Jobs : Tracked(j) => Tracked(j)'
  BY JobShape DEF Tracked
<1> QED  BY <1>1 DEF Ids, IsList

\* An id is taken when no running thread has it, and erased when its job ends.
LEMMA IdsStep == ASSUME Types, Control, Ids, [Next]_vars PROVE Ids'
<1> USE DispatchAssumption DEF Goto, JobGoto, Abort, locals, jobVars, shared
<1>1. CASE PollWorkers  BY <1>1, IdsKept DEF PollWorkers
<1>2. ASSUME NEW r \in Runners, EventStep(r) PROVE Ids'
  <2>1. /\ rpc[r] = "idle" /\ \E w \in {"start", "done"} : rpc' = [rpc EXCEPT ![r] = w]
        /\ UNCHANGED <<config, cursor, handle, jobs, jpc, tid>>
    BY <1>2 DEF EventStep, Event, EventDropped
  <2> QED  BY <2>1, IdsKept DEF Types
<1>3. ASSUME NEW r \in Runners, RunnerStep(r) PROVE Ids'
  <2>1. ASSUME rpc[r] # "insert",
               \A q \in Runners : q # r => UNCHANGED <<rpc[q], cursor[q], handle[q]>>,
               UNCHANGED <<config, jobs, tid>>,
               IsList => jpc' = jpc
        PROVE  Ids'
    BY <2>1, IdsKept
  <2>2. CASE StartFails(r) \/ StartList(r) \/ StartPair(r) \/ StartThrows(r) \/ LineThrows(r)
    BY <2>1, <2>2 DEF StartFails, StartList, StartPair, Outcome, StartThrows, LineThrows, HasLine, Types
  <2>3. CASE StartSingle(r)
    BY <2>1, <2>3 DEF StartSingle, Types
  <2>4. CASE SkipLine(r) \/ TakeLine(r)
    BY <2>1, <2>4 DEF SkipLine, TakeLine, HasLine, Types
  <2>5. CASE EndOfFile(r) \/ WaitForFinish(r) \/ CheckWorkers(r)
    BY <2>1, <2>5 DEF EndOfFile, WaitForFinish, CheckWorkers, Types
  <2>6. CASE CheckBudget(r) \/ EnterIndex(r)
    BY <2>1, <2>6 DEF CheckBudget, EnterIndex, Types
  <2>7. CASE Count(r)  BY <2>1, <2>7 DEF Count, Types
  <2>8. CASE FileUnreadable(r) \/ Drain(r) \/ ProcessReturns(r) \/ Postprocess(r)
    BY <2>1, <2>8 DEF FileUnreadable, Outcome, Drain, ProcessReturns, Postprocess, Types
  <2>9. CASE SpawnFails(r)
    BY <2>1, <2>9 DEF SpawnFails, Types
  <2>10. CASE Spawn(r)
    <3>1. /\ rpc[r] = "spawn" /\ rpc' = [rpc EXCEPT ![r] = "insert"]
          /\ jpc' = [jpc EXCEPT ![Current(r)] = "running"]
          /\ UNCHANGED <<config, cursor, jobs>>
      BY <2>10 DEF Spawn
    <3>2. PICK t \in Tids \ LiveTids : /\ tid' = [tid EXCEPT ![Current(r)] = t]
                                       /\ handle' = [handle EXCEPT ![r] = t]
      BY <2>10 DEF Spawn
    <3>3. \A q \in Runners : /\ rpc'[q] = IF q = r THEN "insert" ELSE rpc[q]
                             /\ handle'[q] = IF q = r THEN t ELSE handle[q]
      BY <3>1, <3>2 DEF Types
    <3>4. \A j \in Jobs : /\ tid'[j] = IF j = Current(r) THEN t ELSE tid[j]
                          /\ j # Current(r) => jpc'[j] = jpc[j]
      BY <3>1, <3>2 DEF Types
    <3>5. \A j \in Jobs : jpc[j] \in InProgress => tid[j] # t
      BY <3>2 DEF LiveTids
    <3>6. \A j \in Jobs : j[1] \in Runners /\ (j = Current(r) <=> j[1] = r /\ j[2] = cursor[r])
      BY JobShape DEF Current
    <3>7. \A j \in Jobs : j # Current(r) /\ Tracked(j) => Tracked(j)'
      <4> SUFFICES ASSUME NEW j \in Jobs, j # Current(r), Tracked(j) PROVE Tracked(j)'
        OBVIOUS
      <4>1. CASE j[1] = r
        <5>1. tid[j] \in jobs[r]  BY <3>1, <4>1 DEF Tracked
        <5> QED  BY <3>1, <3>4, <4>1, <5>1 DEF Tracked
      <4>2. CASE j[1] # r
        BY <3>1, <3>3, <3>4, <3>6, <4>2 DEF Tracked
      <4> QED  BY <4>1, <4>2
    <3>8. \A j \in Jobs : j = Current(r) => Tracked(j)'
      BY <3>1, <3>3, <3>4, <3>6 DEF Tracked
    <3> QED  BY <3>1, <3>2, <3>4, <3>5, <3>7, <3>8 DEF Ids, IsList
  <2>11. CASE Insert(r)
    <3>1. /\ rpc[r] = "insert" /\ rpc' = [rpc EXCEPT ![r] = "line"]
          /\ jobs' = [jobs EXCEPT ![r] = @ \cup {handle[r]}]
          /\ handle' = [handle EXCEPT ![r] = NoTid]
          /\ UNCHANGED <<config, cursor, jpc, tid>>
      BY <2>11 DEF Insert
    <3>2. \A q \in Runners : q # r => rpc'[q] = rpc[q] /\ handle'[q] = handle[q] /\ jobs'[q] = jobs[q]
      BY <3>1 DEF Types
    <3>3. jobs'[r] = jobs[r] \cup {handle[r]}
      <4>1. DOMAIN jobs = Runners  BY DEF Types
      <4> QED  BY <3>1, <4>1
    <3>4. \A j \in Jobs : Tracked(j) => Tracked(j)'
      <4> SUFFICES ASSUME NEW j \in Jobs, Tracked(j) PROVE tid'[j] \in jobs'[j[1]] \/ Tracked(j)'
        BY DEF Tracked
      <4>1. CASE j[1] = r  BY <3>1, <3>3, <4>1 DEF Tracked
      <4>2. CASE j[1] # r  BY <3>1, <3>2, <4>2, JobShape DEF Tracked
      <4> QED  BY <4>1, <4>2
    <3> QED  BY <3>1, <3>4 DEF Ids, IsList
  <2> QED  BY <1>3, <2>2, <2>3, <2>4, <2>5, <2>6, <2>7, <2>8, <2>9, <2>10, <2>11
           DEF RunnerStep
<1>4. ASSUME NEW j \in Jobs, JobStep(j) PROVE Ids'
  <2>1. CASE Unindex(j) \/ Uncount(j) \/ UnindexThrows(j)
    <3>1. UNCHANGED <<config, rpc, cursor, handle, jobs, tid>>
      BY <2>1 DEF Unindex, Uncount, UnindexThrows
    <3>2. \A k \in Jobs : jpc'[k] \in InProgress => jpc[k] \in InProgress
      BY <2>1 DEF Unindex, Uncount, UnindexThrows, InProgress, Types
    <3> QED  BY <3>1, <3>2, IdsKept
  <2>2. CASE EraseId(j)
    <3>1. /\ jpc[j] = "counted" /\ jpc' = [jpc EXCEPT ![j] = "exited"]
          /\ tid' = [tid EXCEPT ![j] = NoTid]
          /\ IsList => jobs' = [jobs EXCEPT ![j[1]] = @ \ {tid[j]}]
          /\ UNCHANGED <<config, rpc, cursor, handle>>
      BY <2>2 DEF EraseId
    <3>2. \A k \in Jobs : k # j => jpc'[k] = jpc[k] /\ tid'[k] = tid[k]
      BY <3>1 DEF Types
    <3>3. jpc'[j] \notin InProgress  BY <3>1 DEF Types, InProgress
    <3>4. IsList => \A q \in Runners : \A t : t # tid[j] /\ t \in jobs[q] => t \in jobs'[q]
      <4>1. DOMAIN jobs = Runners  BY DEF Types
      <4>2. IsList => \A q \in Runners :
              jobs'[q] = IF q = j[1] THEN jobs[q] \ {tid[j]} ELSE jobs[q]
        BY <3>1, <4>1
      <4> QED  BY <4>2
    <3>5. IsList => \A k \in Jobs : k # j /\ tid[k] # tid[j] /\ Tracked(k) => Tracked(k)'
      BY <3>1, <3>2, <3>4, JobShape DEF Tracked
    <3>6. jpc[j] \in InProgress  BY <3>1 DEF InProgress
    <3>7. IsList => \A k \in Jobs : k # j /\ jpc[k] \in InProgress => tid[k] # tid[j]
      BY <3>6 DEF Ids
    <3> QED  BY <3>1, <3>2, <3>3, <3>5, <3>7 DEF Ids, IsList
  <2> QED  BY <1>4, <2>1, <2>2 DEF JobStep
<1>5. CASE UNCHANGED vars  BY <1>5, IdsKept DEF vars
<1> QED  BY <1>1, <1>2, <1>3, <1>4, <1>5 DEF Next

\* No runner ends before its jobs.
LEMMA ChildrenStep ==
  ASSUME Types, Control, Ids, ChildrenFirst, [Next]_vars
  PROVE  ChildrenFirst'
<1> USE DispatchAssumption DEF Goto, JobGoto, Abort, locals, jobVars, shared
<1>1. ASSUME \A j \in Jobs : jpc'[j] \in InProgress => jpc[j] \in InProgress,
             NEW r \in Runners, \A q \in Runners : q # r => rpc'[q] = rpc[q],
             rpc'[r] \in {"post", "done"} =>
               \/ rpc[r] \in {"post", "done"}
               \/ \A j \in Jobs : j[1] = r => jpc[j] \notin InProgress
      PROVE  ChildrenFirst'
  BY <1>1, JobShape DEF ChildrenFirst
<1>2. ASSUME jpc' = jpc, NEW r \in Runners, NEW w, rpc' = [rpc EXCEPT ![r] = w],
             w \in {"post", "done"} =>
               \/ rpc[r] \in {"post", "done"}
               \/ \A j \in Jobs : j[1] = r => jpc[j] \notin InProgress
      PROVE  ChildrenFirst'
  BY <1>1, <1>2 DEF Types
<1>3. CASE PollWorkers  BY <1>3 DEF PollWorkers, ChildrenFirst
<1>4. ASSUME NEW r \in Runners, \/ rpc[r] \in {"idle", "start"}
                                \/ rpc[r] = "count" /\ ~IsList
      PROVE  \A j \in Jobs : j[1] = r => jpc[j] \notin InProgress
  <2>1. \A j \in Jobs : j[1] = r => j[2] > cursor[r] \/ Chosen(j)
    <3>1. cursor[r] \in Nat /\ cursor[r] <= 1  BY <1>4 DEF Types, Control
    <3>2. rpc[r] \in {"idle", "start"} => cursor[r] = 0  BY DEF Control
    <3>3. \A j \in Jobs : j[2] \in Nat \ {0}  BY JobShape
    <3> QED  BY <1>4, <3>1, <3>2, <3>3 DEF Chosen, Waiting
  <2> QED  BY <2>1 DEF Control, InProgress
<1>5. ASSUME NEW r \in Runners, EventStep(r) PROVE ChildrenFirst'
  <2>1. /\ rpc[r] = "idle" /\ \E w \in {"start", "done"} : rpc' = [rpc EXCEPT ![r] = w]
        /\ jpc' = jpc
    BY <1>5 DEF EventStep, Event, EventDropped
  <2> QED  BY <1>2, <1>4, <2>1
<1>6. ASSUME NEW r \in Runners, RunnerStep(r) PROVE ChildrenFirst'
  <2>1. CASE StartFails(r) \/ StartList(r) \/ StartSingle(r) \/ StartPair(r)
    <3>1. /\ rpc[r] = "start" /\ \E w : rpc' = [rpc EXCEPT ![r] = w]
          /\ jpc' = jpc
      BY <2>1 DEF StartFails, StartList, StartSingle, StartPair, Outcome
    <3> QED  BY <1>2, <1>4, <3>1
  <2>2. CASE StartThrows(r) \/ SkipLine(r) \/ LineThrows(r)
    BY <2>2 DEF StartThrows, SkipLine, LineThrows, ChildrenFirst
  <2>3. CASE TakeLine(r) \/ EndOfFile(r) \/ WaitForFinish(r) \/ CheckWorkers(r)
    BY <1>2, <2>3 DEF TakeLine, EndOfFile, WaitForFinish, CheckWorkers
  <2>4. CASE CheckBudget(r) \/ EnterIndex(r) \/ SpawnFails(r) \/ Insert(r)
    BY <1>2, <2>4 DEF CheckBudget, EnterIndex, SpawnFails, Insert
  <2>5. CASE FileUnreadable(r)
    BY <1>2, <1>4, <2>5 DEF FileUnreadable, Outcome, IsList
  <2>6. CASE Drain(r)
    <3>1. rpc[r] = "drain" /\ jobs[r] = {}  BY <2>6 DEF Drain
    <3>2. IsList  BY <3>1 DEF Control
    <3>3. \A j \in Jobs : j[1] = r => jpc[j] \notin InProgress
      BY <3>1, <3>2 DEF Ids, Tracked
    <3> QED  BY <1>2, <2>6, <3>3 DEF Drain
  <2>7. CASE ProcessReturns(r)
    <3>1. rpc[r] = "process" /\ jpc[Current(r)] = "exited"
      BY <2>7 DEF ProcessReturns, Outcome
    <3>2. cursor[r] = 1
      <4>1. cursor[r] \in Nat  BY DEF Types
      <4>2. cursor[r] # 0 /\ cursor[r] <= 1  BY <3>1 DEF Control
      <4> QED  BY <4>1, <4>2
    <3>3. \A j \in Jobs : j[1] = r => j = Current(r) \/ j[2] > cursor[r]
      BY <3>2, JobShape DEF Current
    <3>4. \A j \in Jobs : j[1] = r => jpc[j] \notin InProgress
      BY <3>1, <3>3 DEF Control, InProgress
    <3> QED  BY <1>2, <2>7, <3>4 DEF ProcessReturns, Outcome
  <2>8. CASE Postprocess(r)  BY <1>2, <2>8 DEF Postprocess
  <2>9. CASE Count(r) \/ Spawn(r)
    <3>1. /\ \E w \in {"spawn", "process", "insert"} : rpc' = [rpc EXCEPT ![r] = w]
          /\ \A j \in Jobs : j # Current(r) => jpc'[j] = jpc[j]
      BY <2>9 DEF Count, Spawn, Types
    <3>2. rpc'[r] \notin {"post", "done"} /\ \A q \in Runners : q # r => rpc'[q] = rpc[q]
      BY <3>1 DEF Types
    <3>3. \A j \in Jobs : j[1] # r => j # Current(r)  BY DEF Current
    <3> QED  BY <3>1, <3>2, <3>3, JobShape DEF ChildrenFirst
  <2> QED  BY <1>6, <2>1, <2>2, <2>3, <2>4, <2>5, <2>6, <2>7, <2>8, <2>9 DEF RunnerStep
<1>7. ASSUME NEW j \in Jobs, JobStep(j) PROVE ChildrenFirst'
  <2>1. /\ rpc' = rpc
        /\ \/ jpc' = jpc
           \/ \E w : \E v \in InProgress : jpc[j] = v /\ jpc' = [jpc EXCEPT ![j] = w]
    BY <1>7 DEF JobStep, Unindex, UnindexThrows, Uncount, EraseId, InProgress
  <2>2. \A k \in Jobs : jpc'[k] \in InProgress => jpc[k] \in InProgress
    BY <2>1 DEF Types
  <2> QED  BY <2>1, <2>2 DEF ChildrenFirst
<1>8. CASE UNCHANGED vars  BY <1>8 DEF vars, ChildrenFirst
<1> QED  BY <1>3, <1>5, <1>6, <1>7, <1>8 DEF Next

-----------------------------------------------------------------------------
(* The count of the jobs, and the limit. *)

\* The runner has counted the job and not started it.
Counted(j) == j[2] = cursor[j[1]] /\ (rpc[j[1]] = "spawn" \/ broke[j[1]])

\* Outstanding, before and after a step, in terms of Counted.
LEMMA OutstandingIs ==
  /\ Outstanding \subseteq Jobs /\ Outstanding' \subseteq Jobs
  /\ \A j \in Jobs :
       /\ j \in Outstanding <=> jpc[j] \in {"running", "unindexed"} \/ Counted(j)
       /\ j \in Outstanding' <=> jpc'[j] \in {"running", "unindexed"} \/ Counted(j)'
<1>1. Outstanding \subseteq Jobs /\ Outstanding' \subseteq Jobs  BY DEF Outstanding
<1>2. ASSUME NEW j \in Jobs
      PROVE  /\ j \in Outstanding <=> jpc[j] \in {"running", "unindexed"} \/ Counted(j)
             /\ j \in Outstanding' <=> jpc'[j] \in {"running", "unindexed"} \/ Counted(j)'
  <2>1. \A i : j = <<j[1], i>> <=> j[2] = i  BY JobShape
  <2>2. j \in Outstanding <=> jpc[j] \in {"running", "unindexed"} \/ Counted(j)
    BY <2>1 DEF Outstanding, Counted, Current, Leaked
  <2>3. j \in Outstanding' <=> jpc'[j] \in {"running", "unindexed"} \/ Counted(j)'
    BY <2>1 DEF Outstanding, Counted, Current, Leaked
  <2> QED  BY <2>2, <2>3
<1> QED  BY <1>1, <1>2

\* A runner that goes on with neither a count nor a start.
LEMMA OutstandingKept ==
  ASSUME Types, Control, NEW r \in Runners,
         UNCHANGED <<broke, jpc>>,
         \A q \in Runners : q # r => rpc'[q] = rpc[q] /\ cursor'[q] = cursor[q],
         rpc[r] # "spawn" /\ rpc'[r] # "spawn",
         cursor'[r] = cursor[r] \/ ~broke[r]
  PROVE  Outstanding' = Outstanding
<1>1. \A j \in Jobs : Counted(j)' <=> Counted(j)
  BY JobShape DEF Counted
<1> QED  BY <1>1, OutstandingIs

\* A step counts one job that nobody has counted, or one job no more, or none.
LEMMA OutstandingStep ==
  ASSUME Types, Control, [Next]_vars
  PROVE  \/ Outstanding' = Outstanding /\ working_job' = working_job
         \/ \E r \in Runners :
              /\ Count(r) /\ Current(r) \in Jobs \ Outstanding
              /\ Outstanding' = Outstanding \cup {Current(r)} /\ working_job' = working_job + 1
         \/ \E j \in Outstanding :
              Outstanding' = Outstanding \ {j} /\ working_job' = working_job - 1
<1> USE DispatchAssumption DEF Goto, JobGoto, Abort, locals, jobVars, shared
<1>1. CASE PollWorkers  BY <1>1, OutstandingIs DEF PollWorkers, Counted
<1>2. ASSUME NEW r \in Runners, EventStep(r)
      PROVE  Outstanding' = Outstanding /\ working_job' = working_job
  <2>1. /\ rpc[r] = "idle" /\ \E w \in {"start", "done"} : rpc' = [rpc EXCEPT ![r] = w]
        /\ UNCHANGED <<cursor, broke, jpc, working_job>>
    BY <1>2 DEF EventStep, Event, EventDropped
  <2> QED  BY <2>1, OutstandingKept DEF Types
<1>3. ASSUME NEW r \in Runners, RunnerStep(r)
      PROVE  \/ Outstanding' = Outstanding /\ working_job' = working_job
             \/ /\ Count(r) /\ Current(r) \in Jobs \ Outstanding
                /\ Outstanding' = Outstanding \cup {Current(r)} /\ working_job' = working_job + 1
  <2>1. CASE StartThrows(r) \/ LineThrows(r)
    BY <2>1, OutstandingIs DEF StartThrows, LineThrows, Counted
  <2>2. ASSUME UNCHANGED <<broke, jpc, cursor, working_job>>,
               \E v, w : /\ rpc[r] = v /\ rpc' = [rpc EXCEPT ![r] = w]
                         /\ v # "spawn" /\ w # "spawn"
        PROVE  Outstanding' = Outstanding /\ working_job' = working_job
    BY <2>2, OutstandingKept DEF Types
  <2>3. CASE StartFails(r) \/ StartList(r) \/ StartPair(r) \/ EndOfFile(r)
    BY <2>2, <2>3 DEF StartFails, StartList, StartPair, Outcome, EndOfFile
  <2>4. CASE WaitForFinish(r) \/ CheckWorkers(r)
    BY <2>2, <2>4 DEF WaitForFinish, CheckWorkers
  <2>5. CASE CheckBudget(r)  BY <2>2, <2>5 DEF CheckBudget
  <2>6. CASE EnterIndex(r) \/ Insert(r) \/ Postprocess(r)
    BY <2>2, <2>6 DEF EnterIndex, Insert, Postprocess
  <2>7. CASE FileUnreadable(r) \/ Drain(r) \/ ProcessReturns(r)
    BY <2>2, <2>7 DEF FileUnreadable, Drain, ProcessReturns, Outcome
  <2>8. CASE StartSingle(r) \/ SkipLine(r) \/ TakeLine(r)
    <3>1. /\ UNCHANGED <<broke, jpc, working_job>>
          /\ \A q \in Runners : q # r => rpc'[q] = rpc[q] /\ cursor'[q] = cursor[q]
          /\ rpc[r] \in {"start", "line"} /\ rpc'[r] # "spawn"
      BY <2>8 DEF StartSingle, SkipLine, TakeLine, HasLine, Types
    <3>2. ~broke[r]  BY <3>1 DEF Control
    <3> QED  BY <3>1, <3>2, OutstandingKept
  <2>9. ASSUME rpc[r] \in Waiting
        PROVE  /\ Current(r) \in Jobs /\ jpc[Current(r)] = "none" /\ ~broke[r]
               /\ \A j \in Jobs : j[1] \in Runners /\ (j = Current(r) <=> j[1] = r /\ j[2] = cursor[r])
    <3>1. cursor[r] \in 1 .. Len(Lines[r])
      <4>1. Len(Lines[r]) \in Nat  BY DispatchAssumption
      <4>2. cursor[r] \in Nat /\ cursor[r] <= Len(Lines[r])  BY DEF Types
      <4>3. cursor[r] # 0  BY <2>9 DEF Control
      <4> QED  BY <4>1, <4>2, <4>3
    <3>2. Current(r) \in Jobs  BY <3>1, JobShape DEF Current
    <3>3. jpc[Current(r)] = "none"  BY <2>9, <3>2 DEF Control, Chosen, Current
    <3> QED  BY <2>9, <3>2, <3>3, JobShape DEF Control, Current, Waiting
  <2>10. CASE Count(r)
    <3>1. /\ rpc[r] = "count" /\ rpc' = [rpc EXCEPT ![r] = IF IsList THEN "spawn" ELSE "process"]
          /\ jpc' = IF IsList THEN jpc ELSE [jpc EXCEPT ![Current(r)] = "running"]
          /\ working_job' = working_job + 1
          /\ UNCHANGED <<cursor, broke>>
      BY <2>10 DEF Count
    <3>2. /\ Current(r) \in Jobs /\ jpc[Current(r)] = "none" /\ ~broke[r]
          /\ \A j \in Jobs : j[1] \in Runners /\ (j = Current(r) <=> j[1] = r /\ j[2] = cursor[r])
      BY <2>9, <3>1 DEF Waiting
    <3>3. Current(r) \notin Outstanding
      BY <3>1, <3>2, OutstandingIs DEF Counted
    <3>4. \A q \in Runners : rpc'[q] = IF q = r THEN IF IsList THEN "spawn" ELSE "process" ELSE rpc[q]
      BY <3>1 DEF Types
    <3>5. \A j \in Jobs : j # Current(r) => jpc'[j] = jpc[j] /\ (Counted(j)' <=> Counted(j))
      <4>1. \A j \in Jobs : j # Current(r) => jpc'[j] = jpc[j]
        BY <3>1 DEF Types
      <4>2. \A j \in Jobs : j # Current(r) => (Counted(j)' <=> Counted(j))
        BY <3>1, <3>2, <3>4 DEF Counted
      <4> QED  BY <4>1, <4>2
    <3>6. Current(r) \in Outstanding'
      <4>1. CASE IsList
        <5>1. \A j \in Jobs : j = Current(r) => Counted(j)'
          BY <3>1, <3>2, <3>4, <4>1 DEF Counted
        <5> QED  BY <3>2, <5>1, OutstandingIs
      <4>2. CASE ~IsList
        <5>1. jpc'[Current(r)] = "running"  BY <3>1, <3>2, <4>2 DEF Types
        <5> QED  BY <3>2, <5>1, OutstandingIs
      <4> QED  BY <4>1, <4>2
    <3>7. Outstanding' = Outstanding \cup {Current(r)}
      <4>1. \A j \in Jobs : j # Current(r) => (j \in Outstanding' <=> j \in Outstanding)
        BY <3>5, OutstandingIs
      <4>2. Outstanding' \subseteq Jobs /\ Outstanding \subseteq Jobs  BY DEF Outstanding
      <4> QED  BY <3>2, <3>6, <4>1, <4>2
    <3> QED  BY <2>10, <3>1, <3>2, <3>3, <3>7
  <2>11. CASE Spawn(r)
    <3>1. /\ rpc[r] = "spawn" /\ rpc' = [rpc EXCEPT ![r] = "insert"]
          /\ jpc' = [jpc EXCEPT ![Current(r)] = "running"]
          /\ UNCHANGED <<cursor, broke, working_job>>
      BY <2>11 DEF Spawn
    <3>2. /\ Current(r) \in Jobs /\ jpc[Current(r)] = "none" /\ ~broke[r]
          /\ \A j \in Jobs : j[1] \in Runners /\ (j = Current(r) <=> j[1] = r /\ j[2] = cursor[r])
      BY <2>9, <3>1 DEF Waiting
    <3>3. \A q \in Runners : q # r => rpc'[q] = rpc[q]
      BY <3>1 DEF Types
    <3>4. \A j \in Jobs : j # Current(r) => jpc'[j] = jpc[j] /\ (Counted(j)' <=> Counted(j))
      <4>1. \A j \in Jobs : j # Current(r) => jpc'[j] = jpc[j]
        BY <3>1 DEF Types
      <4>2. \A j \in Jobs : j # Current(r) => (Counted(j)' <=> Counted(j))
        <5>1. rpc'[r] = "insert"  BY <3>1 DEF Types
        <5> QED  BY <3>1, <3>2, <3>3, <5>1 DEF Counted
      <4> QED  BY <4>1, <4>2
    <3>5. jpc'[Current(r)] = "running"  BY <3>1, <3>2 DEF Types
    <3>6. Counted(Current(r))  BY <3>1 DEF Counted, Current
    <3>7. \A j \in Jobs : j \in Outstanding' <=> j \in Outstanding
      BY <3>4, <3>5, <3>6, OutstandingIs
    <3>8. Outstanding' \subseteq Jobs /\ Outstanding \subseteq Jobs  BY DEF Outstanding
    <3> QED  BY <3>1, <3>7, <3>8
  <2>12. CASE SpawnFails(r)
    <3>1. /\ rpc[r] = "spawn" /\ rpc' = [rpc EXCEPT ![r] = "drain"]
          /\ broke' = [broke EXCEPT ![r] = TRUE]
          /\ UNCHANGED <<cursor, jpc, working_job>>
      BY <2>12 DEF SpawnFails
    <3>2. \A q \in Runners : q # r => rpc'[q] = rpc[q] /\ broke'[q] = broke[q]
      BY <3>1 DEF Types
    <3>3. broke'[r] = TRUE  BY <3>1 DEF Types
    <3>4. \A j \in Jobs : Counted(j)' <=> Counted(j)
      <4> SUFFICES ASSUME NEW j \in Jobs PROVE Counted(j)' <=> Counted(j)
        OBVIOUS
      <4>1. CASE j[1] = r  BY <3>1, <3>3, <4>1 DEF Counted
      <4>2. CASE j[1] # r  BY <3>1, <3>2, <4>2, JobShape DEF Counted
      <4> QED  BY <4>1, <4>2
    <3> QED  BY <3>1, <3>4, OutstandingIs
  <2> QED  BY <1>3, <2>1, <2>3, <2>4, <2>5, <2>6, <2>7, <2>8, <2>10, <2>11, <2>12
           DEF RunnerStep
<1>4. ASSUME NEW j \in Jobs, JobStep(j)
      PROVE  \/ Outstanding' = Outstanding /\ working_job' = working_job
             \/ /\ j \in Outstanding
                /\ Outstanding' = Outstanding \ {j} /\ working_job' = working_job - 1
  <2>1. \A k \in Jobs : Counted(k)' <=> Counted(k)
    BY <1>4 DEF JobStep, Unindex, UnindexThrows, Uncount, EraseId, Counted
  <2>2. CASE Unindex(j)
    <3>1. \A k \in Jobs : jpc'[k] \in {"running", "unindexed"} <=> jpc[k] \in {"running", "unindexed"}
      BY <2>2 DEF Unindex, Types
    <3> QED  BY <2>1, <2>2, <3>1, OutstandingIs DEF Unindex
  <2>3. CASE UnindexThrows(j)  BY <2>1, <2>3, OutstandingIs DEF UnindexThrows
  <2>4. CASE EraseId(j)
    <3>1. \A k \in Jobs : jpc'[k] \in {"running", "unindexed"} <=> jpc[k] \in {"running", "unindexed"}
      BY <2>4 DEF EraseId, Types
    <3> QED  BY <2>1, <2>4, <3>1, OutstandingIs DEF EraseId
  <2>5. CASE Uncount(j)
    <3>1. jpc[j] = "unindexed" /\ jpc' = [jpc EXCEPT ![j] = "counted"] /\ working_job' = working_job - 1
      BY <2>5 DEF Uncount
    <3>2. ~Counted(j)
      <4>1. Counted(j) => Chosen(j)  BY DEF Counted, Chosen, Waiting
      <4> QED  BY <3>1, <4>1 DEF Control
    <3>3. jpc'[j] = "counted" /\ \A k \in Jobs : k # j => jpc'[k] = jpc[k]
      BY <3>1 DEF Types
    <3> QED  BY <2>1, <3>1, <3>2, <3>3, OutstandingIs
  <2> QED  BY <1>4, <2>2, <2>3, <2>4, <2>5 DEF JobStep
<1>5. CASE UNCHANGED vars  BY <1>5, OutstandingIs DEF vars, Counted
<1> QED  BY <1>1, <1>2, <1>3, <1>4, <1>5 DEF Next

\* working_job is the number of the outstanding jobs.
LEMMA WorkingJobStep ==
  ASSUME Types, Control, WorkingJobTruth, [Next]_vars
  PROVE  WorkingJobTruth'
<1>1. IsFiniteSet(Outstanding)  BY JobsFinite, FS_Subset DEF Outstanding
<1>2. CASE Outstanding' = Outstanding /\ working_job' = working_job
  BY <1>2 DEF WorkingJobTruth
<1>3. ASSUME NEW j \in Jobs \ Outstanding,
             Outstanding' = Outstanding \cup {j}, working_job' = working_job + 1
      PROVE  WorkingJobTruth'
  BY <1>1, <1>3, FS_AddElement DEF WorkingJobTruth
<1>4. ASSUME NEW j \in Outstanding,
             Outstanding' = Outstanding \ {j}, working_job' = working_job - 1
      PROVE  WorkingJobTruth'
  BY <1>1, <1>4, FS_RemoveElement DEF WorkingJobTruth
<1> QED  BY <1>2, <1>3, <1>4, OutstandingStep

\* The jobs that a runner has let pass and not counted yet.
Passing ==
  {j \in Jobs : /\ j[2] = cursor[j[1]]
               /\ \/ rpc[j[1]] \in {"sum", "enter"}
                  \/ rpc[j[1]] = "count" /\ ~Unchecked(j)}

\* The jobs that passed the look at the count.
Admitted == {j \in Outstanding : ~Unchecked(j)} \cup Passing

\* A step that lets nobody pass.
LEMMA AdmittedKept ==
  ASSUME Types, Control, config' = config,
         \A j \in Outstanding' \ Outstanding : j \in Passing \/ Unchecked(j),
         \A r \in Runners :
           /\ rpc'[r] \in {"sum", "enter"} =>
                rpc[r] \in {"sum", "enter"} /\ cursor'[r] = cursor[r]
           /\ rpc'[r] = "count" =>
                \/ rpc[r] \in {"sum", "enter", "count"} /\ cursor'[r] = cursor[r]
                \/ \A j \in Jobs : j = Current(r)' => Unchecked(j)
  PROVE  Admitted' \subseteq Admitted
<1>1. \A j \in Jobs : Unchecked(j)' <=> Unchecked(j)
  BY DEF Unchecked, IsList
<1>2. ASSUME NEW j \in Passing' PROVE j \in Passing
  <2>1. j \in Jobs /\ j[2] = cursor'[j[1]] /\ j[1] \in Runners
    BY <1>2, JobShape DEF Passing
  <2>2. j = Current(j[1])'  BY <2>1, JobShape DEF Current
  <2>3. \/ rpc'[j[1]] \in {"sum", "enter"}
        \/ rpc'[j[1]] = "count" /\ ~Unchecked(j)
    BY <1>1, <1>2 DEF Passing
  <2> QED  BY <2>1, <2>2, <2>3 DEF Passing
<1> QED  BY <1>1, <1>2, OutstandingIs DEF Admitted

\* Who passes has seen fewer jobs than its limit.
LEMMA AdmittedStep ==
  ASSUME Types, Control, [Next]_vars
  PROVE  \/ Admitted' \subseteq Admitted
         \/ /\ Outstanding' \subseteq Outstanding
            /\ \E r \in Runners : working_job < max_worker[r]
<1> USE DispatchAssumption DEF Goto, JobGoto, Abort, locals, jobVars, shared
<1>1. ASSUME NEW r \in Runners, Count(r), Current(r) \in Jobs \ Outstanding,
             Outstanding' = Outstanding \cup {Current(r)}
      PROVE  Admitted' \subseteq Admitted
  <2>1. rpc[r] = "count" /\ cursor' = cursor /\ config' = config  BY <1>1 DEF Count
  <2>2. rpc'[r] \notin {"sum", "enter", "count"} /\ \A q \in Runners : q # r => rpc'[q] = rpc[q]
    BY <1>1 DEF Count, Types
  <2>3. Current(r) \in Passing \/ Unchecked(Current(r))
    BY <1>1, <2>1 DEF Passing, Current
  <2> QED  BY <1>1, <2>1, <2>2, <2>3, AdmittedKept
<1>2. ASSUME Outstanding' \subseteq Outstanding
      PROVE  \/ Admitted' \subseteq Admitted
             \/ \E r \in Runners : working_job < max_worker[r]
  <2>1. ASSUME config' = config, cursor' = cursor,
               \A r \in Runners :
                 rpc'[r] = rpc[r] \/ rpc'[r] \notin {"sum", "enter", "count"}
                 \/ rpc[r] \in {"sum", "enter"}
        PROVE  Admitted' \subseteq Admitted
    BY <1>2, <2>1, AdmittedKept
  <2>2. ASSUME NEW r \in Runners, NEW w, config' = config, cursor' = cursor,
               rpc' = [rpc EXCEPT ![r] = w],
               rpc[r] \in {"sum", "enter"} \/ w \notin {"sum", "enter", "count"}
        PROVE  Admitted' \subseteq Admitted
    BY <2>1, <2>2 DEF Types
  <2>3. CASE PollWorkers  BY <2>1, <2>3 DEF PollWorkers
  <2>4. ASSUME NEW r \in Runners, EventStep(r) PROVE Admitted' \subseteq Admitted
    <3>1. \E w \in {"start", "done"} : rpc' = [rpc EXCEPT ![r] = w]
      BY <2>4 DEF EventStep, Event, EventDropped
    <3> QED  BY <2>2, <2>4, <3>1 DEF EventStep, Event, EventDropped
  <2>5. ASSUME NEW r \in Runners, RunnerStep(r)
        PROVE  Admitted' \subseteq Admitted \/ working_job < max_worker[r]
    <3>1. CASE StartThrows(r) \/ LineThrows(r)  BY <2>1, <3>1 DEF StartThrows, LineThrows
    <3>2. CASE StartFails(r) \/ StartList(r) \/ EndOfFile(r)
      BY <2>2, <3>2 DEF StartFails, StartList, EndOfFile
    <3>3. CASE WaitForFinish(r) \/ CheckWorkers(r)  BY <3>3 DEF WaitForFinish, CheckWorkers
    <3>4. CASE CheckBudget(r)  BY <2>2, <3>4 DEF CheckBudget
    <3>5. CASE EnterIndex(r)  BY <2>2, <3>5 DEF EnterIndex
    <3>6. CASE Insert(r) \/ Postprocess(r) \/ Drain(r)
      BY <2>2, <3>6 DEF Insert, Postprocess, Drain
    <3>7. CASE Count(r) \/ Spawn(r) \/ SpawnFails(r)
      <4>1. \E w \in {"spawn", "process", "insert", "drain"} : rpc' = [rpc EXCEPT ![r] = w]
        BY <3>7 DEF Count, Spawn, SpawnFails
      <4> QED  BY <2>2, <3>7, <4>1 DEF Count, Spawn, SpawnFails
    <3>9. CASE StartPair(r) \/ FileUnreadable(r) \/ ProcessReturns(r)
      <4>1. \E w \in {"post", "done"} : rpc' = [rpc EXCEPT ![r] = w]
        BY <3>9 DEF StartPair, FileUnreadable, ProcessReturns, Outcome
      <4> QED  BY <2>2, <3>9, <4>1 DEF StartPair, FileUnreadable, ProcessReturns, Outcome
    <3>8. CASE StartSingle(r) \/ SkipLine(r) \/ TakeLine(r)
      <4>1. /\ config' = config
            /\ \A q \in Runners : q # r => rpc'[q] = rpc[q] /\ cursor'[q] = cursor[q]
            /\ rpc'[r] \notin {"sum", "enter"}
        BY <3>8 DEF StartSingle, SkipLine, TakeLine, HasLine, Types
      <4>2. ASSUME rpc'[r] = "count", NEW j \in Jobs, j = Current(r)' PROVE Unchecked(j)
        <5>1. TakeLine(r)
          BY <3>8, <4>2 DEF StartSingle, SkipLine, HasLine, Types
        <5>2. rpc[r] = "line" /\ cursor'[r] = cursor[r] + 1
          BY <5>1 DEF TakeLine, HasLine, Types
        <5>3. Upcoming(r) = Line(j)
          BY <4>2, <5>2 DEF Upcoming, Line, Current
        <5>4. config.fs # "n" /\ ~(Upcoming(r).size > 0)
          BY <4>2, <5>1 DEF TakeLine, Types
        <5>5. Line(j).size \in Nat  BY LineShape DEF LineOf
        <5>6. IsList /\ config.fs # "unset"  BY <5>2 DEF Control
        <5>7. config.fs \in {"y", "n", "unset"}  BY DEF Types
        <5> QED  BY <5>3, <5>4, <5>5, <5>6, <5>7 DEF Unchecked
      <4> QED  BY <1>2, <4>1, <4>2, AdmittedKept
    <3> QED  BY <2>5, <3>1, <3>2, <3>3, <3>4, <3>5, <3>6, <3>7, <3>8, <3>9
             DEF RunnerStep
  <2>6. ASSUME NEW j \in Jobs, JobStep(j) PROVE Admitted' \subseteq Admitted
    BY <2>1, <2>6 DEF JobStep, Unindex, UnindexThrows, Uncount, EraseId
  <2>7. CASE UNCHANGED vars  BY <2>1, <2>7 DEF vars
  <2> QED  BY <2>3, <2>4, <2>5, <2>6, <2>7 DEF Next
<1> QED  BY <1>1, <1>2, OutstandingStep

\* The limit is exceeded by runners that looked at the same count.
FewAdmitted == Cardinality(Admitted) < Largest(Available) + Cardinality(Runners)

\* The totals have a largest one.
LEMMA LargestIs == Largest(Available) \in Available /\ \A n \in Available : n <= Largest(Available)
<1>1. PICK m \in Available : \A n \in Available : n <= m  BY LargestAvailable
<1>2. \E k \in Available : \A n \in Available : n <= k  BY <1>1
<1> QED  BY <1>2 DEF Largest

\* Runners have one job in hand each.
LEMMA FewAdmittedStep ==
  ASSUME Types, Control, WorkingJobTruth, FewAdmitted, [Next]_vars
  PROVE  FewAdmitted'
<1>1. IsFiniteSet(Jobs)  BY JobsFinite
<1>2. Outstanding \subseteq Jobs /\ Admitted \subseteq Jobs /\ Admitted' \subseteq Jobs
  BY OutstandingIs DEF Admitted, Passing
<1>3. IsFiniteSet(Outstanding) /\ IsFiniteSet(Admitted) /\ IsFiniteSet(Admitted')
  BY <1>1, <1>2, FS_Subset
<1>4. Cardinality(Runners) \in Nat  BY FS_CardinalityType, DispatchAssumption
<1>5. Largest(Available) \in Nat  BY LargestIs, DispatchAssumption
<1>6. CASE Admitted' \subseteq Admitted
  <2>1. Cardinality(Admitted') <= Cardinality(Admitted)  BY <1>3, <1>6, FS_Subset
  <2>2. Cardinality(Admitted') \in Nat /\ Cardinality(Admitted) \in Nat
    BY <1>3, FS_CardinalityType
  <2> QED  BY <1>4, <1>5, <2>1, <2>2 DEF FewAdmitted
<1>7. ASSUME Outstanding' \subseteq Outstanding, NEW r \in Runners, working_job < max_worker[r]
      PROVE  FewAdmitted'
  <2> DEFINE current == [q \in Runners |-> <<q, cursor'[q]>>]
             Hand == {<<q, cursor'[q]>> : q \in Runners}
  <2>1. IsFiniteSet(Hand) /\ Cardinality(Hand) <= Cardinality(Runners)
    <3>1. current \in Surjection(Runners, Hand)  BY DEF Surjection
    <3> HIDE DEF current
    <3> QED  BY <3>1, FS_Surjection, DispatchAssumption
  <2>2. Admitted' \subseteq Outstanding \cup Hand
    <3>1. Passing' \subseteq Hand  BY JobShape DEF Passing
    <3> QED  BY <1>7, <3>1 DEF Admitted
  <2>3. IsFiniteSet(Outstanding \cup Hand)
        /\ Cardinality(Outstanding \cup Hand) <= Cardinality(Outstanding) + Cardinality(Hand)
    <3> HIDE DEF Hand
    <3>1. /\ IsFiniteSet(Outstanding \cup Hand)
          /\ Cardinality(Outstanding \cup Hand)
               = Cardinality(Outstanding) + Cardinality(Hand) - Cardinality(Outstanding \cap Hand)
      BY <1>3, <2>1, FS_Union
    <3>2. IsFiniteSet(Outstanding \cap Hand)  BY <1>3, FS_Subset
    <3>3. /\ Cardinality(Outstanding \cap Hand) \in Nat
          /\ Cardinality(Outstanding) \in Nat /\ Cardinality(Hand) \in Nat
      BY <1>3, <2>1, <3>2, FS_CardinalityType
    <3> QED  BY <3>1, <3>3
  <2>4. Cardinality(Admitted') <= Cardinality(Outstanding \cup Hand)
    BY <2>2, <2>3, FS_Subset
  <2>5. /\ Cardinality(Admitted') \in Nat /\ Cardinality(Outstanding \cup Hand) \in Nat
        /\ Cardinality(Outstanding) \in Nat /\ Cardinality(Hand) \in Nat
    BY <1>3, <2>1, <2>3, FS_CardinalityType
  <2>6. Cardinality(Outstanding) < Largest(Available)
    <3>1. Cardinality(Outstanding) < max_worker[r]  BY <1>7 DEF WorkingJobTruth
    <3>2. max_worker[r] \in Available \cup {0}  BY DEF Types
    <3>3. max_worker[r] \in Available  BY <2>5, <3>1, <3>2
    <3>4. max_worker[r] <= Largest(Available) /\ max_worker[r] \in Nat
      BY <3>3, LargestIs, DispatchAssumption
    <3> QED  BY <1>5, <2>5, <3>1, <3>4
  <2> HIDE DEF Hand
  <2> QED  BY <1>4, <1>5, <2>1, <2>3, <2>4, <2>5, <2>6 DEF FewAdmitted
<1> QED  BY <1>6, <1>7, AdmittedStep

-----------------------------------------------------------------------------
(* The index of the files in progress. *)

\* A line that has been taken, whether its job has started or not.
Begun(j) == jpc[j] # "none" \/ Chosen(j)

\* With a threshold every line that is taken could be parsed, and waits for the
\* budget; without one no line does.
Paths ==
  /\ \A r \in Runners :
       /\ rpc[r] \in {"budget", "sum", "enter"} => IsList /\ config.fs = "y"
       /\ rpc[r] = "wait" => ~(IsList /\ config.fs = "y")
  /\ IsList /\ config.fs = "y" => \A j \in Jobs : Begun(j) => Line(j).kind = "job"

\* The job of a line is past the wait and has not left the index.
Holder(j) ==
  \/ jpc[j] = "running"
  \/ j[2] = cursor[j[1]] /\ (rpc[j[1]] \in {"count", "spawn"} \/ broke[j[1]])

\* The entries are the recordings of the holders.
Index ==
  /\ \A u \in Uris : job_file_index[u] # 0 =>
       /\ IsList /\ config.fs = "y"
       /\ \E j \in Jobs : Line(j).uri = u /\ Holder(j)
  /\ IsList /\ config.fs = "y" =>
       \A j \in Jobs : Holder(j) /\ Unshared(Line(j).uri) =>
         job_file_index[Line(j).uri] = Line(j).size

\* A URI of two lines is shared.
LEMMA SharedUri ==
  ASSUME NEW j \in Jobs, NEW k \in Jobs, j # k, Line(j).uri = Line(k).uri,
         Line(j).kind = "job", Line(k).kind = "job"
  PROVE  ~Unshared(Line(j).uri)
<1> DEFINE named == {i \in Jobs : Line(i).kind # "short" /\ Line(i).uri = Line(j).uri}
<1>1. IsFiniteSet(named)  BY JobsFinite, FS_Subset
<1>2. {j, k} \subseteq named  OBVIOUS
<1> HIDE DEF named
<1>3. Cardinality({j, k}) <= Cardinality(named)  BY <1>1, <1>2, FS_Subset
<1>4. Cardinality({j, k}) = 2
  <2>1. IsFiniteSet({j}) /\ Cardinality({j}) = 1  BY FS_Singleton
  <2>2. Cardinality({j} \cup {k}) = Cardinality({j}) + 1  BY <2>1, FS_AddElement
  <2>3. {j} \cup {k} = {j, k}  OBVIOUS
  <2> QED  BY <2>1, <2>2, <2>3
<1>5. Cardinality(named) \in Nat  BY <1>1, FS_CardinalityType
<1>6. ~(Cardinality(named) <= 1)  BY <1>3, <1>4, <1>5
<1> QED  BY <1>6 DEF Unshared, named

\* A runner that takes no line.
LEMMA PathsKept ==
  ASSUME Types, Paths, UNCHANGED <<config, cursor, broke>>,
         \A r \in Runners :
           /\ rpc'[r] \in {"budget", "sum", "enter"} => rpc[r] \in {"budget", "sum", "enter"}
           /\ rpc'[r] = "wait" => rpc[r] = "wait"
           /\ rpc'[r] \in Waiting => rpc[r] \in Waiting,
         \A j \in Jobs : jpc'[j] # jpc[j] => Begun(j)
  PROVE  Paths'
<1>1. \A j \in Jobs : Chosen(j)' => Chosen(j)  BY JobShape DEF Chosen
<1>2. \A j \in Jobs : Begun(j)' => Begun(j)  BY <1>1 DEF Begun
<1>3. IsList' = IsList  BY DEF IsList
<1> QED  BY <1>2, <1>3 DEF Paths

\* TakeLine sends a line where its threshold says.
LEMMA PathsStep == ASSUME Types, Control, Paths, [Next]_vars PROVE Paths'
<1> USE DispatchAssumption DEF Goto, JobGoto, Abort, locals, jobVars, shared
<1>1. CASE PollWorkers  BY <1>1, PathsKept DEF PollWorkers
<1>2. ASSUME NEW r \in Runners, NEW v, NEW w, rpc[r] = v, rpc' = [rpc EXCEPT ![r] = w],
             UNCHANGED <<config, cursor, broke, jpc>>,
             w \in Waiting => v \in Waiting, w # "wait",
             w \in {"budget", "sum", "enter"} => v \in {"budget", "sum", "enter"}
      PROVE  Paths'
  <2>1. rpc'[r] = w /\ \A q \in Runners : q # r => rpc'[q] = rpc[q]  BY <1>2 DEF Types
  <2> QED  BY <1>2, <2>1, PathsKept
<1>3. ASSUME NEW r \in Runners, EventStep(r) PROVE Paths'
  <2>1. /\ rpc[r] = "idle" /\ \E w \in {"start", "done"} : rpc' = [rpc EXCEPT ![r] = w]
        /\ UNCHANGED <<config, cursor, broke, jpc>>
    BY <1>3 DEF EventStep, Event, EventDropped
  <2> QED  BY <1>2, <2>1 DEF Waiting
<1>4. ASSUME NEW r \in Runners, RunnerStep(r) PROVE Paths'
  <2>1. CASE StartThrows(r) \/ LineThrows(r)  BY <2>1, PathsKept DEF StartThrows, LineThrows
  <2>2. CASE \/ StartFails(r) \/ StartList(r) \/ StartPair(r) \/ EndOfFile(r) \/ Drain(r)
             \/ FileUnreadable(r) \/ ProcessReturns(r) \/ Postprocess(r) \/ Insert(r)
    <3>1. /\ \E w \in {"line", "drain", "post", "done"} : rpc' = [rpc EXCEPT ![r] = w]
          /\ UNCHANGED <<config, cursor, broke, jpc>>
      BY <2>2 DEF StartFails, StartList, StartPair, EndOfFile, Drain, FileUnreadable,
                  ProcessReturns, Postprocess, Insert, Outcome
    <3> QED  BY <1>2, <3>1 DEF Waiting
  <2>3. CASE WaitForFinish(r) \/ CheckWorkers(r) \/ CheckBudget(r) \/ EnterIndex(r)
    <3>1. PICK v \in {"wait", "budget", "sum", "enter"}, w \in {"count", "budget", "sum", "enter"} :
            /\ rpc[r] = v /\ rpc' = [rpc EXCEPT ![r] = w]
            /\ v = "wait" => w = "count"
      BY <2>3 DEF WaitForFinish, CheckWorkers, CheckBudget, EnterIndex
    <3>2. UNCHANGED <<config, cursor, broke, jpc>>
      BY <2>3 DEF WaitForFinish, CheckWorkers, CheckBudget, EnterIndex
    <3> QED  BY <1>2, <3>1, <3>2 DEF Waiting
  <2>4. CASE Count(r) \/ Spawn(r)
    <3>1. /\ rpc[r] \in {"count", "spawn"}
          /\ \E w \in {"spawn", "process", "insert"} : rpc' = [rpc EXCEPT ![r] = w]
          /\ UNCHANGED <<config, cursor, broke>>
      BY <2>4 DEF Count, Spawn
    <3>2. \A j \in Jobs : j # Current(r) => jpc'[j] = jpc[j]
      BY <2>4 DEF Count, Spawn, Types
    <3>3. \A j \in Jobs : j = Current(r) => Begun(j)
      BY <3>1 DEF Begun, Chosen, Current, Waiting
    <3>4. rpc'[r] \in {"spawn", "process", "insert"} /\ \A q \in Runners : q # r => rpc'[q] = rpc[q]
      BY <3>1 DEF Types
    <3> QED  BY <3>1, <3>2, <3>3, <3>4, PathsKept DEF Waiting
  <2>5. CASE StartSingle(r)
    <3>1. ~IsList /\ rpc' = [rpc EXCEPT ![r] = "wait"] /\ config' = config
      BY <2>5 DEF StartSingle, IsList
    <3>2. \A q \in Runners : q # r => rpc'[q] = rpc[q]  BY <3>1 DEF Types
    <3>3. rpc'[r] = "wait"  BY <3>1 DEF Types
    <3> QED  BY <3>1, <3>2, <3>3 DEF Paths, IsList
  <2>6. CASE SkipLine(r) \/ TakeLine(r)
    <3>1. /\ rpc[r] = "line" /\ cursor' = [cursor EXCEPT ![r] = @ + 1]
          /\ \A q \in Runners : q # r => rpc'[q] = rpc[q]
          /\ UNCHANGED <<config, broke, jpc>>
      BY <2>6 DEF SkipLine, TakeLine, HasLine, Types
    <3>2. IsList /\ config.fs \in {"y", "n"} /\ ~broke[r]  BY <3>1 DEF Control, Types
    <3>3. \/ rpc'[r] = "line"
          \/ rpc'[r] = "wait" /\ config.fs = "n"
          \/ rpc'[r] \in {"budget", "count"} /\ config.fs # "n"
      <4>1. CASE SkipLine(r)  BY <3>1, <4>1 DEF SkipLine
      <4>2. CASE TakeLine(r)
        <5>1. DOMAIN rpc = Runners  BY DEF Types
        <5>2. CASE config.fs = "n"  BY <4>2, <5>1, <5>2 DEF TakeLine
        <5>3. CASE config.fs # "n"  BY <4>2, <5>1, <5>3 DEF TakeLine
        <5> QED  BY <5>2, <5>3
      <4> QED  BY <2>6, <4>1, <4>2
    <3>4. \A q \in Runners : cursor'[q] = IF q = r THEN cursor[q] + 1 ELSE cursor[q]
      BY <3>1 DEF Types
    <3>5. ASSUME config.fs = "y", NEW j \in Jobs, Begun(j)' PROVE Begun(j) \/ Line(j).kind = "job"
      <4>1. CASE j[1] # r
        <5>1. Begun(j)  BY <3>1, <3>4, <3>5, <4>1, JobShape DEF Begun, Chosen
        <5> QED  BY <5>1
      <4>2. CASE j[1] = r /\ jpc[j] = "none"
        <5>1. j[2] = cursor[r] + 1 /\ rpc'[r] # "line"
          BY <3>1, <3>2, <3>4, <3>5, <4>2, JobShape DEF Begun, Chosen, Waiting
        <5>2. TakeLine(r)  BY <2>6, <3>1, <5>1 DEF SkipLine
        <5>3. Upcoming(r).kind = "job"  BY <3>5, <5>2 DEF TakeLine
        <5>4. Upcoming(r) = Line(j)  BY <4>2, <5>1 DEF Upcoming, Line
        <5> QED  BY <5>3, <5>4
      <4> QED  BY <4>1, <4>2 DEF Begun
    <3>6. \A q \in Runners : /\ rpc'[q] \in {"budget", "sum", "enter"} => config.fs = "y" /\ IsList
                             /\ rpc'[q] = "wait" => ~(IsList /\ config.fs = "y")
      BY <3>1, <3>2, <3>3 DEF Paths
    <3>7. IsList' = IsList  BY <3>1 DEF IsList
    <3> QED  BY <3>1, <3>2, <3>5, <3>6, <3>7 DEF Paths
  <2>7. CASE SpawnFails(r)
    <3>1. /\ rpc[r] = "spawn" /\ rpc' = [rpc EXCEPT ![r] = "drain"]
          /\ broke' = [broke EXCEPT ![r] = TRUE]
          /\ UNCHANGED <<config, cursor, jpc>>
      BY <2>7 DEF SpawnFails
    <3>2. rpc'[r] = "drain" /\ \A q \in Runners : q # r => rpc'[q] = rpc[q] /\ broke'[q] = broke[q]
      BY <3>1 DEF Types
    <3>3. \A j \in Jobs : Begun(j)' => Begun(j)
      BY <3>1, <3>2, JobShape DEF Begun, Chosen, Waiting
    <3>4. IsList' = IsList  BY <3>1 DEF IsList
    <3>5. \A q \in Runners : rpc'[q] \in {"budget", "sum", "enter", "wait"} => rpc[q] = rpc'[q]
      BY <3>2
    <3> QED  BY <3>1, <3>3, <3>4, <3>5 DEF Paths
  <2> QED  BY <1>4, <2>1, <2>2, <2>3, <2>4, <2>5, <2>6, <2>7 DEF RunnerStep
<1>5. ASSUME NEW j \in Jobs, JobStep(j) PROVE Paths'
  <2>1. UNCHANGED <<config, rpc, cursor, broke>>
        /\ (jpc' = jpc \/ \E w : \E v \in InProgress : jpc[j] = v /\ jpc' = [jpc EXCEPT ![j] = w])
    BY <1>5 DEF JobStep, Unindex, UnindexThrows, Uncount, EraseId, InProgress
  <2>2. \A k \in Jobs : jpc'[k] # jpc[k] => Begun(k)
    BY <2>1 DEF Begun, Types, InProgress
  <2> QED  BY <2>1, <2>2, PathsKept
<1>6. CASE UNCHANGED vars  BY <1>6, PathsKept DEF vars
<1> QED  BY <1>1, <1>3, <1>4, <1>5, <1>6 DEF Next

\* A step that leaves the index and its holders alone.
LEMMA IndexKept ==
  ASSUME Index, UNCHANGED <<config, job_file_index>>,
         \A j \in Jobs : Holder(j)' <=> Holder(j)
  PROVE  Index'
<1>1. IsList' = IsList  BY DEF IsList
<1> QED  BY <1>1 DEF Index

\* A runner that neither goes to, leaves nor takes a line among the holders.
LEMMA HoldersKept ==
  ASSUME NEW r \in Runners, UNCHANGED <<broke, jpc>>,
         \A q \in Runners : q # r => rpc'[q] = rpc[q] /\ cursor'[q] = cursor[q],
         cursor'[r] = cursor[r] \/ ~broke[r],
         rpc[r] \notin {"count", "spawn"}, rpc'[r] \notin {"count", "spawn"}
  PROVE  \A j \in Jobs : Holder(j)' <=> Holder(j)
BY JobShape DEF Holder

\* A job that holds nothing shares no URI with one that does.
LEMMA HolderIsOne ==
  ASSUME Control, Paths, Index, IsList, config.fs = "y",
         NEW j \in Jobs, Line(j).kind = "job", Unshared(Line(j).uri), ~Holder(j)
  PROVE  job_file_index[Line(j).uri] = 0 \/ Line(j).uri \notin Uris
<1> SUFFICES ASSUME job_file_index[Line(j).uri] # 0, Line(j).uri \in Uris PROVE FALSE
  OBVIOUS
<1>1. PICK k \in Jobs : Line(k).uri = Line(j).uri /\ Holder(k)  BY DEF Index
<1>2. Begun(k)  BY <1>1 DEF Holder, Begun, Chosen, Waiting
<1>3. Line(k).kind = "job"  BY <1>2 DEF Paths
<1> QED  BY <1>1, <1>3, SharedUri

\* An entry comes with its holder and goes with it.
LEMMA IndexStep == ASSUME Types, Control, Paths, Index, [Next]_vars PROVE Index'
<1> USE DispatchAssumption DEF Goto, JobGoto, Abort, locals, jobVars, shared
<1>1. CASE PollWorkers  BY <1>1, IndexKept DEF PollWorkers, Holder
<1>2. ASSUME ~(IsList /\ config.fs = "y"), config' = config,
             \A u \in Uris : job_file_index[u] = 0 => job_file_index'[u] = 0
      PROVE  Index'
  <2>1. \A u \in Uris : job_file_index'[u] = 0  BY <1>2 DEF Index
  <2> QED  BY <1>2, <2>1 DEF Index, IsList
<1>3. ASSUME NEW r \in Runners, EventStep(r) PROVE Index'
  <2>1. /\ rpc[r] = "idle" /\ \E w \in {"start", "done"} : rpc' = [rpc EXCEPT ![r] = w]
        /\ UNCHANGED <<config, cursor, broke, jpc, job_file_index>>
    BY <1>3 DEF EventStep, Event, EventDropped
  <2>2. rpc'[r] \notin {"count", "spawn"} /\ \A q \in Runners : q # r => rpc'[q] = rpc[q]
    BY <2>1 DEF Types
  <2> QED  BY <2>1, <2>2, HoldersKept, IndexKept
<1>4. ASSUME NEW r \in Runners, RunnerStep(r), IsList, config.fs = "y" PROVE Index'
  <2>1. CASE StartThrows(r) \/ LineThrows(r)  BY <2>1, IndexKept DEF StartThrows, LineThrows, Holder
  <2>2. ASSUME UNCHANGED <<config, cursor, broke, jpc, job_file_index>>,
               \E v, w : /\ rpc[r] = v /\ rpc' = [rpc EXCEPT ![r] = w]
                         /\ v \notin {"count", "spawn"} /\ w \notin {"count", "spawn"}
        PROVE  Index'
    <3>1. rpc[r] \notin {"count", "spawn"} /\ rpc'[r] \notin {"count", "spawn"}
          /\ \A q \in Runners : q # r => rpc'[q] = rpc[q]
      BY <2>2 DEF Types
    <3> QED  BY <2>2, <3>1, HoldersKept, IndexKept
  <2>3. CASE StartFails(r) \/ StartList(r) \/ EndOfFile(r)
    BY <2>2, <2>3 DEF StartFails, StartList, EndOfFile
  <2>4. CASE StartPair(r) \/ StartSingle(r) \/ FileUnreadable(r) \/ WaitForFinish(r)
    BY <1>4, <2>4 DEF StartPair, StartSingle, FileUnreadable, WaitForFinish, Paths, IsList
  <2>5. CASE CheckWorkers(r) \/ Drain(r) \/ Postprocess(r) \/ Insert(r)
    <3>1. \E v, w \in {"budget", "sum", "drain", "post", "done", "insert", "line"} :
            rpc[r] = v /\ rpc' = [rpc EXCEPT ![r] = w]
      BY <2>5 DEF CheckWorkers, Drain, Postprocess, Insert
    <3> QED  BY <2>2, <2>5, <3>1 DEF CheckWorkers, Drain, Postprocess, Insert
  <2>6. CASE CheckBudget(r)
    <3>1. \E w \in {"budget", "enter"} : rpc' = [rpc EXCEPT ![r] = w]
      BY <2>6 DEF CheckBudget
    <3> QED  BY <2>2, <2>6, <3>1 DEF CheckBudget
  <2>7. CASE ProcessReturns(r)
    BY <2>2, <2>7 DEF ProcessReturns, Outcome
  <2>8. CASE SkipLine(r) \/ TakeLine(r)
    <3>1. /\ rpc[r] = "line" /\ cursor' = [cursor EXCEPT ![r] = @ + 1]
          /\ \A q \in Runners : q # r => rpc'[q] = rpc[q]
          /\ UNCHANGED <<config, broke, jpc, job_file_index>>
      BY <2>8 DEF SkipLine, TakeLine, HasLine, Types
    <3>2. ~broke[r]  BY <3>1 DEF Control
    <3>3. \A q \in Runners : cursor'[q] = IF q = r THEN cursor[q] + 1 ELSE cursor[q]
      BY <3>1 DEF Types
    <3>4. CASE rpc'[r] \notin {"count", "spawn"}
      BY <3>1, <3>2, <3>3, <3>4, HoldersKept, IndexKept
    <3>5. CASE rpc'[r] \in {"count", "spawn"}
      <4>1. TakeLine(r)
        BY <2>8, <3>1, <3>5 DEF SkipLine
      <4>2. Upcoming(r).kind = "job" /\ ~(Upcoming(r).size > 0)
        <5>1. DOMAIN rpc = Runners  BY DEF Types
        <5> QED  BY <1>4, <3>5, <4>1, <5>1 DEF TakeLine
      <4>3. PICK j : j = <<r, cursor[r] + 1>>  OBVIOUS
      <4>4. j \in Jobs
        <5>1. cursor[r] < Len(Lines[r])  BY <4>1 DEF TakeLine, HasLine
        <5>2. cursor[r] \in Nat /\ Len(Lines[r]) \in Nat  BY DEF Types
        <5>3. cursor[r] + 1 \in 1 .. Len(Lines[r])  BY <5>1, <5>2
        <5> QED  BY <4>3, <5>3, JobShape
      <4>5. Line(j).kind = "job" /\ Line(j).size = 0 /\ Line(j).uri \in Uris
        <5>1. Line(j) = Upcoming(r)  BY <4>3 DEF Line, Upcoming
        <5>2. Line(j).size \in Nat /\ Line(j).uri \in Uris  BY <4>4, LineShape DEF LineOf
        <5> QED  BY <4>2, <5>1, <5>2
      <4>6. ~Holder(j)
        <5>1. cursor[r] \in Nat  BY DEF Types
        <5>2. j[1] = r /\ j[2] = cursor[r] + 1  BY <4>3
        <5>3. j[2] > cursor[j[1]] /\ j[2] # cursor[j[1]]  BY <5>1, <5>2
        <5>4. jpc[j] = "none"  BY <4>4, <5>3 DEF Control
        <5> QED  BY <5>3, <5>4 DEF Holder
      <4>7. \A k \in Jobs : k # j => (Holder(k)' => Holder(k))
        BY <3>1, <3>2, <3>3, <4>3, JobShape DEF Holder
      <4>8. \A k \in Jobs : Holder(k) => Holder(k)'
        BY <3>1, <3>2, <3>3, JobShape DEF Holder
      <4>9. Unshared(Line(j).uri) => job_file_index[Line(j).uri] = 0
        BY <1>4, <4>4, <4>5, <4>6, HolderIsOne
      <4>10. IsList' = IsList  BY <3>1 DEF IsList
      <4> QED  BY <3>1, <4>4, <4>5, <4>7, <4>8, <4>9, <4>10 DEF Index
    <3> QED  BY <3>4, <3>5
  <2>9. ASSUME rpc[r] \in Waiting
        PROVE  Current(r) \in Jobs /\ jpc[Current(r)] = "none" /\ ~broke[r]
    <3>1. cursor[r] \in 1 .. Len(Lines[r])
      <4>1. Len(Lines[r]) \in Nat  BY DispatchAssumption
      <4>2. cursor[r] \in Nat /\ cursor[r] <= Len(Lines[r])  BY DEF Types
      <4>3. cursor[r] # 0  BY <2>9 DEF Control
      <4> QED  BY <4>1, <4>2, <4>3
    <3>2. Current(r) \in Jobs  BY <3>1, JobShape DEF Current
    <3>3. jpc[Current(r)] = "none"  BY <2>9, <3>2 DEF Control, Chosen, Current
    <3> QED  BY <2>9, <3>2, <3>3 DEF Control, Waiting
  <2>10. CASE EnterIndex(r)
    <3>1. /\ rpc[r] = "enter" /\ rpc' = [rpc EXCEPT ![r] = "count"]
          /\ UNCHANGED <<config, cursor, broke, jpc>>
      BY <2>10 DEF EnterIndex
    <3>2. PICK j \in Jobs : j = Current(r)  BY <2>9, <3>1 DEF Waiting
    <3>3. /\ jpc[j] = "none" /\ ~broke[r] /\ j[1] = r /\ j[2] = cursor[r]
          /\ Line(j).uri \in Uris /\ Line(j).size \in Nat
      BY <2>9, <3>1, <3>2, LineShape DEF Waiting, Current, LineOf
    <3>4. Line(j).kind = "job" /\ ~Holder(j)
      <4>1. Begun(j)  BY <3>1, <3>3 DEF Begun, Chosen, Waiting
      <4>2. Line(j).kind = "job"  BY <1>4, <4>1 DEF Paths
      <4> QED  BY <3>1, <3>3, <4>2 DEF Holder
    <3>5. /\ rpc'[r] = "count" /\ \A q \in Runners : q # r => rpc'[q] = rpc[q]
      BY <3>1 DEF Types
    <3>6. \A u \in Uris : job_file_index'[u] =
            IF u = Line(j).uri /\ job_file_index[u] = 0 THEN Line(j).size ELSE job_file_index[u]
      <4>1. DOMAIN job_file_index = Uris  BY DEF Types
      <4> QED  BY <2>10, <3>2, <4>1 DEF EnterIndex
    <3>7. \A k \in Jobs : Holder(k)' <=> Holder(k) \/ k = j
      <4>1. \A k \in Jobs : k # j /\ k[1] = r => k[2] # cursor[r]
        BY <3>3, JobShape
      <4>2. \A k \in Jobs : k # j => (Holder(k)' <=> Holder(k))
        BY <3>1, <3>5, <4>1, JobShape DEF Holder
      <4>3. Holder(j)'  BY <3>1, <3>3, <3>5 DEF Holder
      <4> QED  BY <4>2, <4>3
    <3>8. Unshared(Line(j).uri) => job_file_index[Line(j).uri] = 0
      BY <1>4, <3>3, <3>4, HolderIsOne
    <3>9. IsList' = IsList  BY <3>1 DEF IsList
    <3>10. \A k \in Jobs : k # j /\ Line(k).uri = Line(j).uri /\ Holder(k) => ~Unshared(Line(k).uri)
      <4>1. \A k \in Jobs : Holder(k) => Begun(k)  BY DEF Holder, Begun, Chosen, Waiting
      <4>2. \A k \in Jobs : Holder(k) => Line(k).kind = "job"  BY <1>4, <4>1 DEF Paths
      <4> QED  BY <3>4, <4>2, SharedUri
    <3>11. \A k \in Jobs : Line(k).uri \in Uris  BY LineShape DEF LineOf
    <3>12. ASSUME NEW k \in Jobs, Holder(k)', Unshared(Line(k).uri)
           PROVE  job_file_index'[Line(k).uri] = Line(k).size
      <4>1. CASE k = j  BY <3>3, <3>6, <3>8, <3>12, <4>1
      <4>2. CASE k # j
        <5>1. Holder(k) /\ Line(k).uri # Line(j).uri  BY <3>7, <3>10, <3>12, <4>2
        <5> QED  BY <1>4, <3>6, <3>11, <3>12, <5>1 DEF Index
      <4> QED  BY <4>1, <4>2
    <3>13. \A u \in Uris : job_file_index'[u] # 0 => \E k \in Jobs : Line(k).uri = u /\ Holder(k)'
      BY <3>6, <3>7 DEF Index
    <3> QED  BY <1>4, <3>1, <3>9, <3>12, <3>13 DEF Index
  <2>11. CASE Count(r) \/ Spawn(r) \/ SpawnFails(r)
    <3>1. /\ rpc[r] \in {"count", "spawn"} /\ UNCHANGED <<config, cursor, job_file_index>>
          /\ \/ jpc' = jpc
             \/ jpc' = [jpc EXCEPT ![Current(r)] = "running"]
      BY <2>11 DEF Count, Spawn, SpawnFails
    <3>2. PICK j \in Jobs : j = Current(r)  BY <2>9, <3>1 DEF Waiting
    <3>3. j[1] = r /\ j[2] = cursor[r] /\ ~broke[r]
      BY <2>9, <3>1, <3>2 DEF Waiting, Current
    <3>4. Holder(j)  BY <3>1, <3>3 DEF Holder
    <3>5. \A q \in Runners : q # r => rpc'[q] = rpc[q] /\ broke'[q] = broke[q]
      BY <2>11 DEF Count, Spawn, SpawnFails, Types
    <3>6. \A k \in Jobs : k # j => jpc'[k] = jpc[k]
      BY <3>1, <3>2 DEF Types
    <3>7. Holder(j)'
      <4>1. CASE Count(r)
        <5>1. rpc'[r] = "spawn" /\ cursor' = cursor  BY <1>4, <4>1 DEF Count, Types
        <5> QED  BY <3>3, <5>1 DEF Holder
      <4>2. CASE Spawn(r)
        <5>1. jpc'[j] = "running"  BY <3>2, <4>2 DEF Spawn, Types
        <5> QED  BY <5>1 DEF Holder
      <4>3. CASE SpawnFails(r)
        <5>1. broke'[r] = TRUE /\ cursor' = cursor  BY <4>3 DEF SpawnFails, Types
        <5> QED  BY <3>3, <5>1 DEF Holder
      <4> QED  BY <2>11, <4>1, <4>2, <4>3
    <3>8. \A k \in Jobs : k # j /\ k[1] = r => k[2] # cursor[r]
      BY <3>3, JobShape
    <3>9. \A k \in Jobs : k # j => (Holder(k)' <=> Holder(k))
      BY <3>1, <3>5, <3>6, <3>8, JobShape DEF Holder
    <3> QED  BY <3>1, <3>4, <3>7, <3>9, IndexKept
  <2> QED  BY <1>4, <2>1, <2>3, <2>4, <2>5, <2>6, <2>7, <2>8, <2>10, <2>11 DEF RunnerStep
<1>5. ASSUME NEW r \in Runners, RunnerStep(r), ~(IsList /\ config.fs = "y") PROVE Index'
  <2>1. rpc[r] # "enter"  BY <1>5 DEF Paths
  <2>2. UNCHANGED <<config, job_file_index>>
    BY <1>5, <2>1
    DEF RunnerStep, StartFails, StartList, StartThrows, StartSingle, StartPair, SkipLine, TakeLine,
        LineThrows, EndOfFile, WaitForFinish, CheckWorkers, CheckBudget, EnterIndex, Count,
        FileUnreadable, Spawn, SpawnFails, Insert, Drain, ProcessReturns, Postprocess, Outcome
  <2> QED  BY <1>2, <1>5, <2>2
<1>6. ASSUME NEW j \in Jobs, JobStep(j) PROVE Index'
  <2>1. CASE UnindexThrows(j)  BY <2>1, IndexKept DEF UnindexThrows, Holder
  <2>2. CASE Uncount(j) \/ EraseId(j)
    <3>1. \A k \in Jobs : jpc'[k] = "running" <=> jpc[k] = "running"
      BY <2>2 DEF Uncount, EraseId, Types
    <3>2. UNCHANGED <<config, rpc, cursor, broke, job_file_index>>
      BY <2>2 DEF Uncount, EraseId
    <3> QED  BY <3>1, <3>2, IndexKept DEF Holder
  <2>3. CASE Unindex(j)
    <3>1. /\ jpc[j] = "running" /\ jpc' = [jpc EXCEPT ![j] = "unindexed"]
          /\ UNCHANGED <<config, rpc, cursor, broke>>
      BY <2>3 DEF Unindex
    <3>2. \A u \in Uris : job_file_index'[u] =
            IF config.fs = "y" /\ Line(j).kind = "job" /\ u = Line(j).uri THEN 0 ELSE job_file_index[u]
      <4>1. DOMAIN job_file_index = Uris  BY DEF Types
      <4> QED  BY <2>3, <4>1 DEF Unindex
    <3>3. CASE ~(IsList /\ config.fs = "y")  BY <1>2, <3>1, <3>2, <3>3
    <3>4. CASE IsList /\ config.fs = "y"
      <4>1. \A k \in Jobs : Holder(k) => Begun(k)  BY DEF Holder, Begun, Chosen, Waiting
      <4>2. \A k \in Jobs : Holder(k) => Line(k).kind = "job"  BY <3>4, <4>1 DEF Paths
      <4>3. Holder(j) /\ Line(j).kind = "job"  BY <3>1, <4>2 DEF Holder
      <4>4. \A k \in Jobs : k # j => (Holder(k)' <=> Holder(k))
        BY <3>1 DEF Holder, Types
      <4>5. ~Holder(j)'
        <5>1. jpc'[j] = "unindexed"  BY <3>1 DEF Types
        <5>2. ~Chosen(j)  BY <3>1 DEF Control
        <5> QED  BY <3>1, <5>1, <5>2 DEF Holder, Chosen, Waiting
      <4>6. \A k \in Jobs : Line(k).uri \in Uris  BY LineShape DEF LineOf
      <4>7. ASSUME NEW k \in Jobs, Holder(k)', Unshared(Line(k).uri)
            PROVE  job_file_index'[Line(k).uri] = Line(k).size
        <5>1. k # j /\ Holder(k)  BY <4>4, <4>5, <4>7
        <5>2. Line(k).uri # Line(j).uri  BY <4>2, <4>3, <4>7, <5>1, SharedUri
        <5> QED  BY <3>2, <3>4, <4>6, <4>7, <5>1, <5>2 DEF Index
      <4>8. \A u \in Uris : job_file_index'[u] # 0 => \E k \in Jobs : Line(k).uri = u /\ Holder(k)'
        <5> SUFFICES ASSUME NEW u \in Uris, job_file_index'[u] # 0
                     PROVE  \E k \in Jobs : Line(k).uri = u /\ Holder(k)'
          OBVIOUS
        <5>1. u # Line(j).uri /\ job_file_index[u] # 0  BY <3>2, <3>4, <4>3
        <5>2. PICK k \in Jobs : Line(k).uri = u /\ Holder(k)  BY <5>1 DEF Index
        <5> QED  BY <4>4, <5>1, <5>2
      <4>9. IsList' = IsList  BY <3>1 DEF IsList
      <4> QED  BY <3>1, <3>4, <4>7, <4>8, <4>9 DEF Index
    <3> QED  BY <3>3, <3>4
  <2> QED  BY <1>6, <2>1, <2>2, <2>3 DEF JobStep
<1>7. CASE UNCHANGED vars  BY <1>7, IndexKept DEF vars, Holder
<1> QED  BY <1>1, <1>3, <1>4, <1>5, <1>6, <1>7 DEF Next

-----------------------------------------------------------------------------
(* Every constant. *)

Inv ==
  /\ Types /\ Control /\ Ids /\ ChildrenFirst
  /\ WorkingJobTruth /\ FewAdmitted /\ Paths /\ Index

\* The invariant holds before the first event ...
LEMMA InvInit == Init => Inv
<1> SUFFICES ASSUME Init PROVE Inv
  OBVIOUS
<1> USE DispatchAssumption DEF Init
<1>1. Types
  <2>1. \A r \in Runners : Len(Lines[r]) \in Nat  OBVIOUS
  <2> QED  BY <2>1 DEF Types, InProgress
<1>2. Control  BY DEF Control, Chosen, Waiting
<1>3. Ids /\ ChildrenFirst  BY DEF Ids, ChildrenFirst, InProgress
<1>4. Paths /\ Index
  BY JobShape DEF Paths, Index, Begun, Chosen, Waiting, Holder
<1>5. Outstanding = {}  BY JobShape DEF Outstanding, Leaked
<1>6. Passing = {}  BY JobShape DEF Passing
<1>7. Cardinality(Outstanding) = 0 /\ Cardinality(Admitted) = 0
  <2>1. Admitted = {}  BY <1>5, <1>6 DEF Admitted
  <2> QED  BY <1>5, <2>1, FS_EmptySet
<1>8. WorkingJobTruth  BY <1>7 DEF WorkingJobTruth
<1>9. FewAdmitted
  <2>1. Largest(Available) \in Nat \ {0}  BY LargestIs
  <2>2. Cardinality(Runners) \in Nat  BY FS_CardinalityType
  <2> QED  BY <1>7, <2>1, <2>2 DEF FewAdmitted
<1> QED  BY <1>1, <1>2, <1>3, <1>4, <1>8, <1>9 DEF Inv

\* ... and every step keeps it.
LEMMA InvStep == Inv /\ [Next]_vars => Inv'
<1> SUFFICES ASSUME Inv, [Next]_vars PROVE Inv'
  OBVIOUS
<1> USE DEF Inv
<1>1. Types' /\ Control'  BY TypesStep, ControlStep
<1>2. Ids' /\ ChildrenFirst'  BY IdsStep, ChildrenStep
<1>3. WorkingJobTruth' /\ FewAdmitted'  BY WorkingJobStep, FewAdmittedStep
<1>4. Paths' /\ Index'  BY PathsStep, IndexStep
<1> QED  BY <1>1, <1>2, <1>3, <1>4

\* The invariant holds for ever.
LEMMA InvHolds == Spec => []Inv
<1> QED  BY InvInit, InvStep, PTL DEF Spec, Safety

\* The state has the types of TypeOK: working_job does not go below zero, and no
\* two running threads have one id.
THEOREM TypeCorrect == Spec => []TypeOK
<1>1. Inv => TypeOK
  <2> SUFFICES ASSUME Inv PROVE TypeOK
    OBVIOUS
  <2>1. working_job \in Nat
    <3>1. IsFiniteSet(Outstanding)  BY JobsFinite, FS_Subset DEF Outstanding
    <3> QED  BY <3>1, FS_CardinalityType DEF Inv, WorkingJobTruth
  <2>2. \A j, k \in Jobs :
          IsList /\ jpc[j] \in InProgress /\ jpc[k] \in InProgress /\ j # k
            => tid[j] # tid[k] /\ tid[j] # NoTid
    <3>1. \A t \in Tids : t # NoTid  BY DispatchAssumption
    <3> QED  BY <3>1 DEF Inv, Ids
  <2> QED  BY <2>1, <2>2 DEF Inv, Types, TypeOK
<1> QED  BY <1>1, InvHolds, PTL

\* working_job is the number of jobs that were counted and have not finished, or
\* never started because std::thread threw: no path through runJob,
\* processRequest and finishJob counts a job twice or not at all.
THEOREM CountIsTrue == Spec => []WorkingJobTruth
<1>1. Inv => WorkingJobTruth  BY DEF Inv
<1> QED  BY <1>1, InvHolds, PTL

\* However many runners look at the count before they raise it, the limit is
\* exceeded by less than their number.
THEOREM LimitIsExceededByRunners == Spec => []Overshoot
<1>1. Inv => Overshoot
  <2> SUFFICES ASSUME FewAdmitted PROVE Overshoot
    BY DEF Inv
  <2>1. IsFiniteSet(Admitted)
    BY JobsFinite, FS_Subset, OutstandingIs DEF Admitted, Passing
  <2>2. /\ IsFiniteSet({j \in Outstanding : ~Unchecked(j)})
        /\ Cardinality({j \in Outstanding : ~Unchecked(j)}) <= Cardinality(Admitted)
    BY <2>1, FS_Subset DEF Admitted
  <2>3. /\ Cardinality({j \in Outstanding : ~Unchecked(j)}) \in Nat /\ Cardinality(Admitted) \in Nat
        /\ Cardinality(Runners) \in Nat
    BY <2>1, <2>2, FS_CardinalityType, DispatchAssumption
  <2>4. Largest(Available) \in Nat  BY LargestIs, DispatchAssumption
  <2> QED  BY <2>2, <2>3, <2>4 DEF FewAdmitted, Overshoot
<1> QED  BY <1>1, InvHolds, PTL

\* runJob returns only when every job that holds a pointer into its stack has
\* erased itself.
THEOREM RunnerOutlivesJobs == Spec => []ChildrenFirst
<1>1. Inv => ChildrenFirst  BY DEF Inv
<1> QED  BY <1>1, InvHolds, PTL

\* job_file_index holds, with their sizes, the recordings of the jobs that are past
\* the wait and not finished, those of the lines whose thread could not be started,
\* which stay, and no others.
THEOREM IndexIsTrue == Spec => []IndexTruth
<1>1. Inv => IndexTruth
  <2> SUFFICES ASSUME Index PROVE IndexTruth
    BY DEF Inv
  <2>1. \A j \in Jobs : j[2] = cursor[j[1]] <=> j = Current(j[1])
    BY JobShape DEF Current
  <2>2. \A j \in Jobs : Holder(j) <=> Indexed(j) \/ Leaked(j)
    BY <2>1 DEF Holder, Indexed, Leaked
  <2> QED  BY <2>2 DEF Index, IndexTruth
<1> QED  BY <1>1, InvHolds, PTL
=============================================================================
