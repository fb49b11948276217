-------------------------- MODULE InotifyDispatch --------------------------
(***************************************************************************)
(* The dispatcher of the directory watcher (src/src/inotify/inotify.cc):   *)
(* monitoring starts one detached runJob thread (a runner) per index file, *)
(* and in list mode a runner starts one detached processRequest thread (a  *)
(* job) per line of its file.  Runners and jobs share the counter          *)
(* working_job, the limit available_workers and the table job_file_index   *)
(* of the sizes of the files in progress; a runner shares the set `jobs`   *)
(* of its children's thread ids with them.  Nothing but the two atomics is *)
(* protected; an access to a container is modelled as one step.            *)
(*                                                                         *)
(* What a job does between its start and its finishJob (sendRequest) is    *)
(* the subject of InotifySend.                                             *)
(***************************************************************************)
EXTENDS Integers, Sequences, FiniteSets, Functions

CONSTANTS
  Runners,         \* one runJob thread per index file
  Lines,           \* Lines[r]: the index file of r, a sequence of records
                   \*   kind "job", "short" (skipped) or "bad" (unparsable or
                   \*   of unreadable size), uri, and size of the recording, which
                   \*   is Unknown if the file cannot be looked at
  Uris, Tids,      \* download URIs; what pthread_self can return
  NoTid,
  IndexTypes,      \* the values of inotify.index_type to consider
  Thresholds,      \* of inotify.fs_threshold_yn: "y", "n", "unset"
  Available,       \* the worker totals gearadmin reports, or maximum_jobs
  Threshold,       \* inotify.fs_threshold
  SizeMod,         \* sums of sizes are size_t: modulo 2^64
  TrackedLimit,    \* the 10000 of `while (jobs.size() > 10000)`
  SpawnMayFail     \* may the std::thread constructor throw?

LineKinds == {"job", "short", "bad"}
LineOf == [kind : LineKinds, uri : Uris, size : Nat]

ASSUME DispatchAssumption ==
  /\ IsFiniteSet(Runners) /\ IsFiniteSet(Uris)
  /\ Lines \in [Runners -> Seq(LineOf)]
  /\ NoTid \notin Tids
  /\ IndexTypes \subseteq {"list", "filename", "file", "pair"}
  /\ Thresholds \subseteq {"y", "n", "unset"}
  /\ Available \subseteq Nat \ {0}
  /\ Threshold \in Nat
  /\ SizeMod \in Nat \ {0}
  /\ TrackedLimit \in Nat
  /\ SpawnMayFail \in BOOLEAN

\* The totals are ints, so that one of them is the largest.
ASSUME LargestAvailable == \E m \in Available : \A n \in Available : n <= m

Jobs == UNION {{r} \X (1 .. Len(Lines[r])) : r \in Runners}

VARIABLES
  config,             \* index_type and fs (fs_threshold_yn); never changes
  alive,              \* FALSE once an exception has left a thread
  rpc, cursor,        \* where each runner is, and in which line
  max_worker,         \* the limit as the runner read it before it waits
  handle,             \* the id of the std::thread the runner has just started
  broke,              \* has a thread of the runner failed to start?
  jobs,               \* each runner's std::set of children's thread ids
  jpc, tid,           \* where each job is, and its thread id while it runs
  working_job, available_workers, job_file_index

locals == <<cursor, max_worker, handle, broke>>
jobVars == <<jpc, tid>>
shared == <<working_job, available_workers, job_file_index>>
vars == <<config, alive, rpc, locals, jobs, jobVars, shared>>

Init ==
  /\ config \in [index_type : IndexTypes, fs : Thresholds]
  /\ alive = TRUE
  /\ rpc = [r \in Runners |-> "idle"]
  /\ cursor = [r \in Runners |-> 0]
  /\ max_worker = [r \in Runners |-> 0]
  /\ handle = [r \in Runners |-> NoTid]
  /\ broke = [r \in Runners |-> FALSE]
  /\ jobs = [r \in Runners |-> {}]
  /\ jpc = [j \in Jobs |-> "none"]
  /\ tid = [j \in Jobs |-> NoTid]
  /\ working_job = 0
  /\ available_workers \in Available
  /\ job_file_index = [u \in Uris |-> 0]

-----------------------------------------------------------------------------

Goto(r, from, to) ==
  /\ rpc[r] = from
  /\ rpc' = [rpc EXCEPT ![r] = to]
  /\ UNCHANGED <<config, alive>>

\* An exception nobody catches: std::terminate ends the process.
Abort == alive' = FALSE /\ UNCHANGED <<config, rpc, locals, jobs, jobVars, shared>>

Line(j) == Lines[j[1]][j[2]]
Current(r) == <<r, cursor[r]>>
IsList == config.index_type = "list"

\* The thread getTotalWorkers.  It is not started if maximum_jobs is set: those
\* behaviours are the ones in which this action is never taken.
PollWorkers ==
  /\ alive
  /\ \E n \in Available : available_workers' = n
  /\ UNCHANGED <<config, alive, rpc, locals, jobs, jobVars, working_job, job_file_index>>

-----------------------------------------------------------------------------
(* monitoring and runJob. *)

\* IN_CLOSE_WRITE for an index file: its runner starts ...
Event(r) ==
  /\ Goto(r, "idle", "start")
  /\ UNCHANGED <<locals, jobs, jobVars, shared>>

\* ... or the thread cannot be started, and the event is only logged.
EventDropped(r) ==
  /\ SpawnMayFail
  /\ Goto(r, "idle", "done")
  /\ UNCHANGED <<locals, jobs, jobVars, shared>>

\* No index_format, a failed preprocess, or a list that cannot be opened.
StartFails(r) ==
  /\ Goto(r, "start", "done")
  /\ UNCHANGED <<locals, jobs, jobVars, shared>>

StartList(r) ==
  /\ IsList /\ config.fs # "unset"
  /\ Goto(r, "start", "line")
  /\ UNCHANGED <<locals, jobs, jobVars, shared>>

\* getConfig throws logic_error for fs_threshold_yn, which has no default, and for
\* fs_threshold if the former is "y"; std::stoi throws if that is not a number.
StartThrows(r) ==
  /\ IsList /\ config.fs # "n" /\ rpc[r] = "start"
  /\ Abort

\* The modes "filename" and "file" process one line in this thread.
StartSingle(r) ==
  /\ config.index_type \in {"filename", "file"} /\ Len(Lines[r]) > 0
  /\ Goto(r, "start", "wait")
  /\ cursor' = [cursor EXCEPT ![r] = 1]
  /\ max_worker' = [max_worker EXCEPT ![r] = available_workers]
  /\ UNCHANGED <<handle, broke, jobs, jobVars, shared>>

\* The postprocess command runs after a success only.
Outcome(r, from) == Goto(r, from, "post") \/ Goto(r, from, "done")

\* Mode "pair" is empty: rc is read although nothing has assigned it.
StartPair(r) ==
  /\ config.index_type = "pair"
  /\ Outcome(r, "start")
  /\ UNCHANGED <<locals, jobs, jobVars, shared>>

HasLine(r) == rpc[r] = "line" /\ cursor[r] < Len(Lines[r])
Upcoming(r) == Lines[r][cursor[r] + 1]

SkipLine(r) ==
  /\ HasLine(r) /\ Upcoming(r).kind = "short"
  /\ cursor' = [cursor EXCEPT ![r] = @ + 1]
  /\ UNCHANGED <<config, alive, rpc, max_worker, handle, broke, jobs, jobVars, shared>>

\* Without a threshold every line waits for a free worker; with one, a line
\* waits for its share of the budget, and an empty recording for nothing.
TakeLine(r) ==
  /\ HasLine(r) /\ Upcoming(r).kind # "short"
  /\ config.fs = "y" => Upcoming(r).kind = "job"
  /\ LET wait == IF config.fs = "n" THEN "wait"
                 ELSE IF Upcoming(r).size > 0 THEN "budget" ELSE "count"
     IN  /\ Goto(r, "line", wait)
         /\ max_worker' = [max_worker EXCEPT ![r] = IF wait = "count" THEN 0 ELSE available_workers]
  /\ cursor' = [cursor EXCEPT ![r] = @ + 1]
  /\ UNCHANGED <<handle, broke, jobs, jobVars, shared>>

\* getDownloadURI returns NULL as a std::string for a line that cannot be parsed.
LineThrows(r) ==
  /\ HasLine(r) /\ Upcoming(r).kind = "bad" /\ config.fs = "y"
  /\ Abort

EndOfFile(r) ==
  /\ cursor[r] = Len(Lines[r])
  /\ Goto(r, "line", "drain")
  /\ UNCHANGED <<locals, jobs, jobVars, shared>>

WaitOver(r) == max_worker' = [max_worker EXCEPT ![r] = 0]

\* The wait of waitForFinish with the comparison off by one.
WaitForFinishMutant(r) ==
  /\ working_job <= max_worker[r]
  /\ Goto(r, "wait", "count") /\ WaitOver(r)
  /\ UNCHANGED <<cursor, handle, broke, jobs, jobVars, shared>>

\* waitForFinish: the count is looked at here and raised in a later step.
WaitForFinish(r) ==
  /\ working_job < max_worker[r]
  /\ Goto(r, "wait", "count") /\ WaitOver(r)
  /\ UNCHANGED <<cursor, handle, broke, jobs, jobVars, shared>>

\* waitForFinish_fs_threshold looks at the count, sums up the sizes of the
\* files in progress, and enters its own file: three steps.
CheckWorkers(r) ==
  /\ working_job < max_worker[r]
  /\ Goto(r, "budget", "sum")
  /\ UNCHANGED <<locals, jobs, jobVars, shared>>

IndexSum == SumFunction(job_file_index)

CheckBudgetMutant(r) ==
  /\ Goto(r, "sum", IF Threshold < IndexSum % SizeMod THEN "budget" ELSE "enter")
  /\ UNCHANGED <<locals, jobs, jobVars, shared>>

CheckBudget(r) ==
  /\ Goto(r, "sum", IF Threshold <= IndexSum % SizeMod THEN "budget" ELSE "enter")
  /\ UNCHANGED <<locals, jobs, jobVars, shared>>

\* The index is unique by name: a second entry for a URI is not inserted.
EnterIndex(r) ==
  /\ Goto(r, "enter", "count") /\ WaitOver(r)
  /\ LET l == Line(Current(r)) IN
       job_file_index' = [job_file_index EXCEPT ![l.uri] = IF @ = 0 THEN l.size ELSE @]
  /\ UNCHANGED <<cursor, handle, broke, jobs, jobVars, working_job, available_workers>>

\* working_job.fetch_add(1), in list mode after the wait for a smaller set.
Count(r) ==
  /\ IsList => Cardinality(jobs[r]) <= TrackedLimit
  /\ Goto(r, "count", IF IsList THEN "spawn" ELSE "process")
  /\ working_job' = working_job + 1
  /\ jpc' = IF IsList THEN jpc ELSE [jpc EXCEPT ![Current(r)] = "running"]
  /\ UNCHANGED <<locals, jobs, tid, available_workers, job_file_index>>

\* Mode "file", the index file cannot be opened: rc is never assigned.
FileUnreadable(r) ==
  /\ config.index_type = "file"
  /\ Outcome(r, "count")
  /\ UNCHANGED <<locals, jobs, jobVars, shared>>

InProgress == {"running", "unindexed", "counted"}
LiveTids == {tid[j] : j \in {k \in Jobs : jpc[k] \in InProgress}}

\* The new thread may get the id of any thread that has ended.
Spawn(r) ==
  /\ Goto(r, "spawn", "insert")
  /\ jpc' = [jpc EXCEPT ![Current(r)] = "running"]
  /\ \E t \in Tids \ LiveTids :
       /\ tid' = [tid EXCEPT ![Current(r)] = t]
       /\ handle' = [handle EXCEPT ![r] = t]
  /\ UNCHANGED <<cursor, max_worker, broke, jobs, shared>>

\* std::thread throws: the handler breaks out of the loop over the lines and
\* leaves working_job and job_file_index as they are.
SpawnFails(r) ==
  /\ SpawnMayFail
  /\ Goto(r, "spawn", "drain")
  /\ broke' = [broke EXCEPT ![r] = TRUE]
  /\ UNCHANGED <<cursor, max_worker, handle, jobs, jobVars, shared>>

\* The id of a child is not recorded.
InsertMutant(r) ==
  /\ Goto(r, "insert", "line")
  /\ handle' = [handle EXCEPT ![r] = NoTid]
  /\ UNCHANGED <<cursor, max_worker, broke, jobs, jobVars, shared>>

\* jobs.insert(job.get_id()): the job may have finished by now.
Insert(r) ==
  /\ Goto(r, "insert", "line")
  /\ jobs' = [jobs EXCEPT ![r] = @ \cup {handle[r]}]
  /\ handle' = [handle EXCEPT ![r] = NoTid]
  /\ UNCHANGED <<cursor, max_worker, broke, jobVars, shared>>

\* while (jobs.size() > 0), then rc = EXIT_SUCCESS.
Drain(r) ==
  /\ jobs[r] = {}
  /\ Goto(r, "drain", "post")
  /\ UNCHANGED <<locals, jobs, jobVars, shared>>

\* processRequest, called by the runner itself, returns.
ProcessReturns(r) ==
  /\ Outcome(r, "process")
  /\ jpc[Current(r)] = "exited"
  /\ UNCHANGED <<locals, jobs, jobVars, shared>>

Postprocess(r) ==
  /\ Goto(r, "post", "done")
  /\ UNCHANGED <<locals, jobs, jobVars, shared>>

-----------------------------------------------------------------------------
(* finishJob and finishJob_fs_threshold, at the end of a job. *)

JobGoto(j, from, to) ==
  /\ jpc[j] = from
  /\ jpc' = [jpc EXCEPT ![j] = to]
  /\ UNCHANGED <<config, alive, rpc, locals>>

\* The whole index is cleared where one key should be erased.
UnindexMutantClear(j) ==
  /\ JobGoto(j, "running", "unindexed")
  /\ config.fs = "unset" => Line(j).kind = "bad"
  /\ job_file_index' = [u \in Uris |-> 0]
  /\ UNCHANGED <<jobs, tid, working_job, available_workers>>

\* With a threshold the entry of the URI is erased first.  A line that cannot
\* be parsed ends in finishJob, which does not look at the index.
Unindex(j) ==
  /\ JobGoto(j, "running", "unindexed")
  /\ config.fs = "unset" => Line(j).kind = "bad"
  /\ job_file_index' = IF config.fs = "y" /\ Line(j).kind = "job"
                       THEN [job_file_index EXCEPT ![Line(j).uri] = 0]
                       ELSE job_file_index
  /\ UNCHANGED <<jobs, tid, working_job, available_workers>>

\* sendRequest reads fs_threshold_yn before it finishes the job.
UnindexThrows(j) ==
  /\ jpc[j] = "running" /\ config.fs = "unset" /\ Line(j).kind # "bad"
  /\ Abort

\* A line that cannot be parsed finishes twice, in processRequest and again.
UncountMutantTwice(j) ==
  /\ JobGoto(j, "unindexed", "counted")
  /\ working_job' = IF Line(j).kind = "bad" THEN working_job - 2 ELSE working_job - 1
  /\ UNCHANGED <<jobs, tid, available_workers, job_file_index>>

\* A line that cannot be parsed returns without finishJob.
UncountMutantSkip(j) ==
  /\ JobGoto(j, "unindexed", "counted")
  /\ working_job' = IF Line(j).kind = "bad" THEN working_job ELSE working_job - 1
  /\ UNCHANGED <<jobs, tid, available_workers, job_file_index>>

Uncount(j) ==
  /\ JobGoto(j, "unindexed", "counted")
  /\ working_job' = working_job - 1
  /\ UNCHANGED <<jobs, tid, available_workers, job_file_index>>

\* The job forgets to erase its id.
EraseIdMutant(j) ==
  /\ JobGoto(j, "counted", "exited")
  /\ tid' = [tid EXCEPT ![j] = NoTid]
  /\ UNCHANGED <<jobs, shared>>

\* list->erase(own id); then the thread ends.  A job that the runner itself
\* processes has no list.
EraseId(j) ==
  /\ JobGoto(j, "counted", "exited")
  /\ jobs' = IF IsList THEN [jobs EXCEPT ![j[1]] = @ \ {tid[j]}] ELSE jobs
  /\ tid' = [tid EXCEPT ![j] = NoTid]
  /\ UNCHANGED shared

-----------------------------------------------------------------------------

RunnerStep(r) ==
  /\ alive
  /\ \/ StartFails(r) \/ StartList(r) \/ StartThrows(r) \/ StartSingle(r) \/ StartPair(r)
     \/ SkipLine(r) \/ TakeLine(r) \/ LineThrows(r) \/ EndOfFile(r)
     \/ WaitForFinish(r) \/ CheckWorkers(r) \/ CheckBudget(r) \/ EnterIndex(r)
     \/ Count(r) \/ FileUnreadable(r) \/ Spawn(r) \/ SpawnFails(r) \/ Insert(r)
     \/ Drain(r) \/ ProcessReturns(r) \/ Postprocess(r)

JobStep(j) == alive /\ (Unindex(j) \/ UnindexThrows(j) \/ Uncount(j) \/ EraseId(j))

EventStep(r) == alive /\ (Event(r) \/ EventDropped(r))

Next ==
  \/ PollWorkers
  \/ \E r \in Runners : EventStep(r) \/ RunnerStep(r)
  \/ \E j \in Jobs : JobStep(j)

\* Threads run, and the API server answers every request sooner or later.
Fairness ==
  /\ \A r \in Runners : WF_vars(RunnerStep(r))
  /\ \A j \in Jobs : WF_vars(JobStep(j))

Safety == Init /\ [][Next]_vars

Spec == Safety /\ Fairness

-----------------------------------------------------------------------------

\* Every variable keeps its type (the count of running jobs never goes below
\* zero), a started job has an id no other running thread has, and a runner is
\* inside the file it reads.
TypeOK ==
  /\ config \in [index_type : IndexTypes, fs : Thresholds]
  /\ alive \in BOOLEAN
  /\ rpc \in [Runners -> {"idle", "start", "line", "wait", "budget", "sum", "enter",
                          "count", "spawn", "insert", "drain", "process", "post", "done"}]
  /\ cursor \in [Runners -> Nat] /\ \A r \in Runners : cursor[r] <= Len(Lines[r])
  /\ max_worker \in [Runners -> Available \cup {0}]
  /\ handle \in [Runners -> Tids \cup {NoTid}]
  /\ broke \in [Runners -> BOOLEAN]
  /\ jobs \in [Runners -> SUBSET Tids]
  /\ jpc \in [Jobs -> {"none", "exited"} \cup InProgress]
  /\ tid \in [Jobs -> Tids \cup {NoTid}]
  /\ working_job \in Nat
  /\ available_workers \in Available
  /\ job_file_index \in [Uris -> Nat]
  /\ \A j, k \in Jobs :
       IsList /\ jpc[j] \in InProgress /\ jpc[k] \in InProgress /\ j # k
         => tid[j] # tid[k] /\ tid[j] # NoTid

\* The line of a file whose thread could not be started: the runner has counted
\* and entered it, and has left its loop without taking back either.
Leaked(j) == j = Current(j[1]) /\ broke[j[1]]

\* The jobs that hold one unit of working_job: counted and about to start, in
\* progress, or leaked.
Outstanding ==
  {j \in Jobs :
     \/ jpc[j] \in {"running", "unindexed"}
     \/ j = Current(j[1]) /\ rpc[j[1]] = "spawn"
     \/ Leaked(j)}

\* working_job counts the jobs in progress, plus one for each thread that could
\* not be started, which stays counted: nothing else is counted or counted twice.
WorkingJobTruth == working_job = Cardinality(Outstanding)

\* An empty recording, which a threshold lets pass without any wait.
Unchecked(j) == IsList /\ config.fs = "y" /\ Line(j).size = 0

Largest(S) == CHOOSE n \in S : \A m \in S : m <= n

\* "최대 작업 수", the largest number of jobs (inotify.cc:44): runners look at the
\* count and raise it in separate steps, so that the limit can be exceeded, but
\* by less than the number of runners.
Overshoot ==
  Cardinality({j \in Outstanding : ~Unchecked(j)}) < Largest(Available) + Cardinality(Runners)

\* No two lines of the files name one recording.
Unshared(u) == Cardinality({j \in Jobs : Line(j).kind # "short" /\ Line(j).uri = u}) <= 1

\* A job between its wait for the budget and its finishJob.
Indexed(j) == jpc[j] = "running" \/ (j = Current(j[1]) /\ rpc[j[1]] \in {"count", "spawn"})

\* A recording is in the index, with its size, while a job works on it or is about
\* to: an entry that went early would let too much in.  At other times it is not,
\* with one exception that the code makes: if the thread of a line cannot be
\* started, its entry stays, for ever unless a job on the same recording ends
\* later, and takes from the budget of every file.
IndexTruth ==
  /\ config.fs = "y" /\ IsList =>
       \A j \in Jobs :
         (Indexed(j) \/ Leaked(j)) /\ Unshared(Line(j).uri) =>
           job_file_index[Line(j).uri] = Line(j).size
  /\ \A u \in Uris : job_file_index[u] # 0 =>
       \E j \in Jobs : Line(j).uri = u /\ (Indexed(j) \/ Leaked(j))

\* What get_file_size says of a file that it cannot stat: -1 in a size_t.
Unknown == SizeMod - 1

KnownSum == SumFunctionOnSet(job_file_index, {u \in Uris : job_file_index[u] # Unknown})
UnknownJobs == {j \in Jobs : Line(j).size = Unknown}
LargestSize == Largest({Line(j).size : j \in Jobs \ UnknownJobs})
Bound == Threshold + Cardinality(UnknownJobs) + Cardinality(Runners) * LargestSize

\* The sizes in progress exceed the threshold by less than one recording per
\* runner, and one byte for each recording of unknown size, which takes one from
\* the sum instead of adding to it.
BudgetBound == Bound < SizeMod /\ KnownSum # 0 => KnownSum < Bound

\* A runner returns only when its children have erased themselves from its set:
\* they reach the set, and the strings on its stack, by pointer.
ChildrenFirst ==
  \A j \in Jobs : rpc[j[1]] \in {"post", "done"} => jpc[j] \notin InProgress

\* The ids in the set of runner r that belong to its own running jobs.
OwnTids(r) == {tid[j] : j \in {k \in Jobs : k[1] = r /\ jpc[k] \in InProgress}}

\* A runner that waits for running jobs only, and for no id that was inserted
\* after its thread had ended, stops waiting.
DrainEnds ==
  \A r \in Runners :
    rpc[r] = "drain" /\ jobs[r] \subseteq OwnTids(r) ~> (rpc[r] = "post" \/ ~alive)

\* runJob returns EXIT_SUCCESS or EXIT_FAILURE (inotify.cc:1276-1277).
RunJobReturns == \A r \in Runners : rpc[r] = "drain" ~> rpc[r] = "done"
=============================================================================
