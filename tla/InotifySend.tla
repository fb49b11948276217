---------------------------- MODULE InotifySend ----------------------------
(***************************************************************************)
(* What a job of the directory watcher does between its start and its      *)
(* finishJob: VRInotify::sendRequest (src/src/inotify/inotify.cc).         *)
(*                                                                         *)
(* All jobs share token_header under job_lock.  sendRequest takes the lock *)
(* with a lock_guard, releases it by hand while the request is in flight,  *)
(* takes it by hand again, and calls itself after a 401.  Every frame's    *)
(* lock_guard unlocks once more when the frame returns, whether or not the *)
(* job holds the lock by then.  To unlock a std::mutex that the thread     *)
(* does not hold is undefined; the mutex of glibc, which does not check    *)
(* its owner, becomes free, and that is what Unlock does here.             *)
(***************************************************************************)
EXTENDS Integers, FiniteSets

CONSTANTS
  Jobs,            \* the threads in processRequest
  Uri,             \* Uri[j]: "path", "file" (file://) or "remote"
  Deletes,         \* the values of inotify.delete_on_success to consider
  MaxRetries       \* a bound: how often the API server may answer 401

ASSUME SendAssumption ==
  /\ IsFiniteSet(Jobs)
  /\ Uri \in [Jobs -> {"path", "file", "remote"}]
  /\ Deletes \subseteq BOOLEAN
  /\ MaxRetries \in Nat

VARIABLES
  delete_on_success,   \* the configuration; never changes
  token_header,        \* long enough to be sent, or not ("" and "short" alike)
  job_lock,            \* is the mutex locked?
  pc,                  \* where each job is
  depth,               \* the frames of sendRequest on its stack
  sent,                \* the token its request carries, "lost" if it was not appended
  answer,              \* what came back
  rc, finished,        \* what it returns; how often it has called finishJob
  deleted,             \* the jobs whose recording has been removed
  holding,             \* history: the jobs that locked and have not unlocked
  foreign              \* history: has a job unlocked what another one held?

jobVars == <<depth, sent, answer, rc, finished>>
history == <<holding, foreign>>
vars == <<delete_on_success, token_header, job_lock, pc, jobVars, deleted, history>>

Init ==
  /\ delete_on_success \in Deletes
  /\ token_header = "unusable"
  /\ job_lock = FALSE
  /\ pc = [j \in Jobs |-> "new"]
  /\ depth = [j \in Jobs |-> 0]
  /\ sent = [j \in Jobs |-> "none"]
  /\ answer = [j \in Jobs |-> "none"]
  /\ rc = [j \in Jobs |-> "none"]
  /\ finished = [j \in Jobs |-> 0]
  /\ deleted = {}
  /\ holding = {}
  /\ foreign = FALSE

-----------------------------------------------------------------------------

Goto(j, from, to) ==
  /\ pc[j] = from
  /\ pc' = [pc EXCEPT ![j] = to]
  /\ UNCHANGED delete_on_success

Acquire(j) ==
  /\ ~job_lock
  /\ job_lock' = TRUE
  /\ holding' = holding \cup {j}
  /\ UNCHANGED foreign

Unlock(j) ==
  /\ job_lock' = FALSE
  /\ holding' = holding \ {j}
  /\ foreign' = (foreign \/ (j \notin holding /\ holding # {}))

Fail(j) == rc' = [rc EXCEPT ![j] = "failure"]

\* sendRequest is entered; the thread has a frame more.
Call(j) ==
  /\ Goto(j, "new", "lock")
  /\ depth' = [depth EXCEPT ![j] = 1]
  /\ UNCHANGED <<token_header, job_lock, sent, answer, rc, finished, deleted, history>>

\* std::lock_guard<std::mutex> guard(job_lock)
Guard(j) ==
  /\ Goto(j, "lock", "token")
  /\ Acquire(j)
  /\ UNCHANGED <<token_header, jobVars, deleted>>

\* curl_slist_append returns NULL.
NoHeaders(j) ==
  /\ Goto(j, "token", "finish")
  /\ Fail(j)
  /\ UNCHANGED <<token_header, job_lock, depth, sent, answer, finished, deleted, history>>

CheckToken(j) ==
  /\ Goto(j, "token", IF token_header = "usable" THEN "append" ELSE "login")
  /\ UNCHANGED <<token_header, job_lock, jobVars, deleted, history>>

\* __get_token, under the lock: the API key, or what /login answers.
GetToken(j) ==
  /\ Goto(j, "login", "verify")
  /\ token_header' \in {"usable", "unusable"}
  /\ UNCHANGED <<job_lock, jobVars, deleted, history>>

\* The new token is not looked at.
VerifyMutant(j) ==
  /\ Goto(j, "verify", "append")
  /\ UNCHANGED <<token_header, job_lock, jobVars, deleted, history>>

Verify(j) ==
  /\ Goto(j, "verify", IF token_header = "usable" THEN "append" ELSE "finish")
  /\ IF token_header = "usable" THEN UNCHANGED rc ELSE Fail(j)
  /\ UNCHANGED <<token_header, job_lock, depth, sent, answer, finished, deleted, history>>

\* If curl_slist_append fails nobody looks at it, and the request goes out
\* without a token.
AppendToken(j) ==
  /\ Goto(j, "append", "prepare")
  /\ \E t \in {token_header, "lost"} : sent' = [sent EXCEPT ![j] = t]
  /\ UNCHANGED <<token_header, job_lock, depth, answer, rc, finished, deleted, history>>

\* The request is over.
Over(j) == sent' = [sent EXCEPT ![j] = "none"]

\* curl_easy_init returns NULL.
NoCurl(j) ==
  /\ Goto(j, "prepare", "finish")
  /\ Fail(j) /\ Over(j)
  /\ UNCHANGED <<token_header, job_lock, depth, answer, finished, deleted, history>>

\* job_lock.unlock() before the request.
Post(j) ==
  /\ Goto(j, "prepare", "flight")
  /\ Unlock(j)
  /\ UNCHANGED <<token_header, jobVars, deleted>>

\* curl_easy_perform fails: the job returns without having locked again.
RequestFails(j) ==
  /\ Goto(j, "flight", "finish")
  /\ Fail(j) /\ Over(j)
  /\ UNCHANGED <<token_header, job_lock, depth, answer, finished, deleted, history>>

\* The API server answers 200 or 201, 401, or anything else.
Respond(j) ==
  /\ Goto(j, "flight", "relock")
  /\ \E a \in {"ok", "unauthorized", "refused"} :
       /\ a = "unauthorized" => depth[j] <= MaxRetries
       /\ answer' = [answer EXCEPT ![j] = a]
  /\ Over(j)
  /\ UNCHANGED <<token_header, job_lock, depth, rc, finished, deleted, history>>

\* The second lock is left out.
RelockMutant(j) ==
  /\ Goto(j, "relock", "answer")
  /\ UNCHANGED <<token_header, job_lock, jobVars, deleted, history>>

\* job_lock.lock()
Relock(j) ==
  /\ Goto(j, "relock", "answer")
  /\ Acquire(j)
  /\ UNCHANGED <<token_header, jobVars, deleted>>

\* std::remove gets the URI itself, and file:// with a path is not the name of a
\* file: remove_pathname, which is, is computed and not used.
Accepted(j) ==
  /\ answer[j] = "ok"
  /\ Goto(j, "answer", "finish")
  /\ rc' = [rc EXCEPT ![j] = "success"]
  /\ deleted' = IF delete_on_success /\ Uri[j] = "path" THEN deleted \cup {j} ELSE deleted
  /\ UNCHANGED <<token_header, job_lock, depth, sent, answer, finished, history>>

\* Any other status is logged; the job returns EXIT_SUCCESS all the same.
Refused(j) ==
  /\ answer[j] = "refused"
  /\ Goto(j, "answer", "finish")
  /\ rc' = [rc EXCEPT ![j] = "success"]
  /\ UNCHANGED <<token_header, job_lock, depth, sent, answer, finished, deleted, history>>

Unauthorized(j) ==
  /\ answer[j] = "unauthorized"
  /\ Goto(j, "answer", "retry")
  /\ token_header' = "unusable"
  /\ UNCHANGED <<job_lock, jobVars, deleted, history>>

\* The job calls itself while it still holds the lock.
RetryMutant(j) ==
  /\ Goto(j, "retry", "lock")
  /\ depth' = [depth EXCEPT ![j] = @ + 1]
  /\ UNCHANGED <<token_header, job_lock, sent, answer, rc, finished, deleted, history>>

\* A retried job has finished once before it retries.
RetryMutantTwice(j) ==
  /\ Goto(j, "retry", "lock")
  /\ Unlock(j)
  /\ depth' = [depth EXCEPT ![j] = @ + 1]
  /\ finished' = [finished EXCEPT ![j] = @ + 1]
  /\ UNCHANGED <<token_header, sent, answer, rc, deleted>>

\* job_lock.unlock(), and the recursive call.
Retry(j) ==
  /\ Goto(j, "retry", "lock")
  /\ Unlock(j)
  /\ depth' = [depth EXCEPT ![j] = @ + 1]
  /\ UNCHANGED <<token_header, sent, answer, rc, finished, deleted>>

\* finishJob or finishJob_fs_threshold.
Finish(j) ==
  /\ Goto(j, "finish", "return")
  /\ finished' = [finished EXCEPT ![j] = @ + 1]
  /\ UNCHANGED <<token_header, job_lock, depth, sent, answer, rc, deleted, history>>

\* The guard of a job that returns early does not unlock.
ReturnMutant(j) ==
  /\ Goto(j, "return", IF depth[j] = 1 THEN "done" ELSE "return")
  /\ depth' = [depth EXCEPT ![j] = @ - 1]
  /\ IF rc[j] = "failure" THEN UNCHANGED <<job_lock, history>> ELSE Unlock(j)
  /\ UNCHANGED <<token_header, sent, answer, rc, finished, deleted>>

\* Only the innermost frame is left.
ReturnMutantOnce(j) ==
  /\ Goto(j, "return", "done")
  /\ depth' = [depth EXCEPT ![j] = @ - 1]
  /\ Unlock(j)
  /\ UNCHANGED <<token_header, sent, answer, rc, finished, deleted>>

\* ~lock_guard, once for every frame.
Return(j) ==
  /\ Goto(j, "return", IF depth[j] = 1 THEN "done" ELSE "return")
  /\ depth' = [depth EXCEPT ![j] = @ - 1]
  /\ Unlock(j)
  /\ UNCHANGED <<token_header, sent, answer, rc, finished, deleted>>

-----------------------------------------------------------------------------

Step(j) ==
  \/ Guard(j) \/ NoHeaders(j) \/ CheckToken(j) \/ GetToken(j) \/ Verify(j)
  \/ AppendToken(j) \/ NoCurl(j) \/ Post(j) \/ RequestFails(j) \/ Respond(j)
  \/ Relock(j) \/ Accepted(j) \/ Refused(j) \/ Unauthorized(j) \/ Retry(j)
  \/ Finish(j) \/ Return(j)

Next == \E j \in Jobs : Call(j) \/ Step(j)

\* Threads run, and the API server answers or the connection breaks.
Fairness == \A j \in Jobs : WF_vars(Step(j))

Safety == Init /\ [][Next]_vars

Spec == Safety /\ Fairness

-----------------------------------------------------------------------------

\* Every variable keeps its type, and a job has frames exactly while it runs.
TypeOK ==
  /\ delete_on_success \in Deletes
  /\ token_header \in {"usable", "unusable"}
  /\ job_lock \in BOOLEAN
  /\ pc \in [Jobs -> {"new", "lock", "token", "login", "verify", "append", "prepare",
                      "flight", "relock", "answer", "retry", "finish", "return", "done"}]
  /\ depth \in [Jobs -> 0 .. MaxRetries + 1]
  /\ sent \in [Jobs -> {"none", "usable", "unusable", "lost"}]
  /\ answer \in [Jobs -> {"none", "ok", "unauthorized", "refused"}]
  /\ rc \in [Jobs -> {"none", "success", "failure"}]
  /\ finished \in [Jobs -> Nat]
  /\ deleted \subseteq Jobs
  /\ holding \subseteq Jobs
  /\ foreign \in BOOLEAN
  /\ \A j \in Jobs : depth[j] = 0 <=> pc[j] \in {"new", "done"}

\* On every path through the function, retries and early returns included, a
\* job calls finishJob once: a call more or less corrupts working_job for all.
FinishedOnce ==
  \A j \in Jobs : finished[j] = IF pc[j] \in {"return", "done"} THEN 1 ELSE 0

\* The mutex is locked only while a job that locked it is still to unlock it:
\* no path leaks the lock, however many guards unlock too often.
LockIsOwned == job_lock => \E j \in holding : pc[j] # "done"

\* Where token_header is read and written with the lock taken.
Critical == {"token", "login", "verify", "append", "prepare", "answer", "retry"}

\* Two jobs are inside the section that job_lock protects only after a guard has
\* unlocked what another job held: that is the one way to lose the exclusion.
SectionExclusive ==
  ~foreign => Cardinality({j \in Jobs : pc[j] \in Critical}) <= 1

\* Until then a request carries a token of a length that can be one, although
\* any job that is answered 401 clears it for all, or it carries none because
\* the code did not see that the token could not be appended.
SentWithToken ==
  ~foreign => \A j \in Jobs : pc[j] = "flight" => sent[j] \in {"usable", "lost"}

\* A job that is started returns, after at most MaxRetries retries.
AllReturn == \A j \in Jobs : pc[j] = "lock" ~> pc[j] = "done"

\* "Upon successful completion, a EXIT_SUCCESS is returned", otherwise an error
\* code (inotify.cc:465-467).
SuccessMeansAccepted ==
  \A j \in Jobs : pc[j] = "done" /\ rc[j] = "success" => answer[j] = "ok"
=============================================================================
