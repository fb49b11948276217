------------------------- MODULE InotifySendProofs -------------------------
(***************************************************************************)
(* What InotifySend promises for any number of jobs and retries.  The      *)
(* argument follows the lock: the jobs in `holding` are the ones a later   *)
(* unlock is due from, and until a guard unlocks what another job holds,   *)
(* the mutex is locked exactly while one job, and only one, is in holding. *)
(***************************************************************************)
EXTENDS InotifySend, FiniteSetTheorems, TLAPS

\* Which jobs have the lock: a job that returns may or may not have it.
HoldingByPc ==
  \A j \in Jobs :
    /\ pc[j] \in Critical => j \in holding
    /\ pc[j] \in {"new", "lock", "flight", "relock", "done"} => j \notin holding

\* A locked mutex was locked by a job that has not unlocked since.
LockedByHolder == job_lock => holding # {}

\* Before the first foreign unlock the history and the mutex agree.
LockIsExact ==
  ~foreign =>
    /\ holding # {} => job_lock
    /\ \A i, j \in holding : i = j

\* A job that is about to send has seen a usable token, and no other went out.
TokenIsSeen ==
  ~foreign =>
    \A j \in Jobs :
      /\ pc[j] = "append" => token_header = "usable"
      /\ pc[j] \in {"prepare", "flight"} => sent[j] \in {"usable", "lost"}

\* A 401 is answered only to a job that may retry.
RetryBound ==
  \A j \in Jobs :
    pc[j] = "retry" \/ (pc[j] \in {"relock", "answer"} /\ answer[j] = "unauthorized")
      => depth[j] <= MaxRetries

Inv ==
  /\ TypeOK /\ RetryBound
  /\ FinishedOnce
  /\ HoldingByPc /\ LockedByHolder /\ LockIsExact
  /\ TokenIsSeen

\* No job has been called, and nothing is locked.
LEMMA InvInit == Init => Inv
<1> SUFFICES ASSUME Init PROVE Inv
  OBVIOUS
<1>1. TypeOK /\ RetryBound
  <2>1. depth \in [Jobs -> 0 .. MaxRetries + 1]
    BY SendAssumption DEF Init
  <2>2. foreign \in BOOLEAN /\ job_lock \in BOOLEAN
    BY DEF Init
  <2> QED  BY <2>1, <2>2 DEF Init, TypeOK, RetryBound
<1>2. FinishedOnce  BY DEF Init, FinishedOnce
<1>3. HoldingByPc /\ LockedByHolder /\ LockIsExact /\ TokenIsSeen
  BY DEF Init, HoldingByPc, LockedByHolder, LockIsExact, TokenIsSeen, Critical
<1> QED  BY <1>1, <1>2, <1>3 DEF Inv

\* The types are kept by every step.
LEMMA TypeStep == 
  ASSUME TypeOK, RetryBound, NEW j \in Jobs, Call(j) \/ Step(j)
  PROVE  TypeOK'
<1> USE SendAssumption DEF TypeOK, Goto
<1>1. CASE Call(j)  BY <1>1 DEF Call, history
<1>2. CASE Guard(j)  BY <1>2 DEF Guard, Acquire, jobVars
<1>3. CASE NoHeaders(j)  BY <1>3 DEF NoHeaders, Fail, history
<1>4. CASE CheckToken(j)  BY <1>4 DEF CheckToken, jobVars, history
<1>5. CASE GetToken(j)  BY <1>5 DEF GetToken, jobVars, history
<1>6. CASE Verify(j)  BY <1>6 DEF Verify, Fail, history
<1>7. CASE AppendToken(j)  BY <1>7 DEF AppendToken, history
<1>8. CASE NoCurl(j)  BY <1>8 DEF NoCurl, Fail, Over, history
<1>9. CASE Post(j)  BY <1>9 DEF Post, Unlock, jobVars
<1>10. CASE RequestFails(j)  BY <1>10 DEF RequestFails, Fail, Over, history
<1>11. CASE Respond(j)  BY <1>11 DEF Respond, Over, history
<1>12. CASE Relock(j)  BY <1>12 DEF Relock, Acquire, jobVars
<1>13. CASE Accepted(j)  BY <1>13 DEF Accepted, history
<1>14. CASE Refused(j)  BY <1>14 DEF Refused, history
<1>15. CASE Unauthorized(j)  BY <1>15 DEF Unauthorized, jobVars, history
<1>16. CASE Retry(j)
  <2>1. depth[j] \in 1 .. MaxRetries
    BY <1>16 DEF Retry, RetryBound
  <2>2. foreign' \in BOOLEAN /\ holding' \subseteq Jobs /\ job_lock' \in BOOLEAN
    BY <1>16 DEF Retry, Unlock
  <2>3. depth' = [depth EXCEPT ![j] = @ + 1]
    BY <1>16 DEF Retry
  <2> QED  BY <1>16, <2>1, <2>2, <2>3 DEF Retry
<1>17. CASE Finish(j)  BY <1>17 DEF Finish, history
<1>18. CASE Return(j)
  <2>1. depth[j] \in 1 .. MaxRetries + 1 /\ pc[j] = "return"
    BY <1>18 DEF Return
  <2>2. foreign' \in BOOLEAN /\ holding' \subseteq Jobs /\ job_lock' \in BOOLEAN
    BY <1>18 DEF Return, Unlock
  <2>3. /\ depth' = [depth EXCEPT ![j] = @ - 1]
        /\ pc' = [pc EXCEPT ![j] = IF depth[j] = 1 THEN "done" ELSE "return"]
    BY <1>18 DEF Return
  <2>4. depth' \in [Jobs -> 0 .. MaxRetries + 1]
    BY <2>1, <2>3
  <2>5. \A i \in Jobs : depth'[i] = 0 <=> pc'[i] \in {"new", "done"}
    BY <2>1, <2>3
  <2> QED  BY <1>18, <2>2, <2>3, <2>4, <2>5 DEF Return
<1> QED  BY <1>1, <1>2, <1>3, <1>4, <1>5, <1>6, <1>7, <1>8, <1>9, <1>10, <1>11, <1>12,
            <1>13, <1>14, <1>15, <1>16, <1>17, <1>18 DEF Step

\* The bound on retries is kept.
LEMMA RetryStep ==
  ASSUME TypeOK, RetryBound, NEW j \in Jobs, Call(j) \/ Step(j)
  PROVE  RetryBound'
<1>1. CASE Respond(j)
  BY <1>1 DEF Respond, Goto, TypeOK, RetryBound
<1>2. CASE ~Respond(j)
  <2>1. answer' = answer
    BY <1>2 DEF Call, Step, Guard, NoHeaders, CheckToken, GetToken, Verify, AppendToken, NoCurl,
                Post, RequestFails, Relock, Accepted, Refused, Unauthorized, Retry, Finish,
                Return, jobVars
  <2>2. \A i \in Jobs : i # j => pc'[i] = pc[i] /\ depth'[i] = depth[i]
    BY <1>2 DEF Call, Step, Guard, NoHeaders, CheckToken, GetToken, Verify, AppendToken, NoCurl,
                Post, RequestFails, Relock, Accepted, Refused, Unauthorized, Retry, Finish,
                Return, jobVars, Goto, TypeOK
  <2>3. \/ pc'[j] \notin {"relock", "answer", "retry"}
        \/ Relock(j) \/ Unauthorized(j)
    BY <1>2 DEF Call, Step, Guard, NoHeaders, CheckToken, GetToken, Verify, AppendToken, NoCurl,
                Post, RequestFails, Accepted, Refused, Retry, Finish, Return, Goto, TypeOK
  <2>4. CASE Relock(j) \/ Unauthorized(j)
    BY <2>4 DEF Relock, Unauthorized, Goto, jobVars, TypeOK, RetryBound
  <2>5. CASE pc'[j] \notin {"relock", "answer", "retry"}
    BY <2>1, <2>2, <2>5 DEF RetryBound
  <2> QED  BY <2>3, <2>4, <2>5
<1> QED  BY <1>1, <1>2

\* finishJob is called where the program counter says.
LEMMA FinishedStep ==
  ASSUME TypeOK, FinishedOnce, NEW j \in Jobs, Call(j) \/ Step(j)
  PROVE  FinishedOnce'
<1> USE DEF Goto, TypeOK, FinishedOnce
<1>1. CASE Finish(j)  BY <1>1 DEF Finish
<1>2. CASE Return(j)  BY <1>2 DEF Return
<1>3. CASE ~Finish(j) /\ ~Return(j)
  <2>1. finished' = finished /\ pc[j] \notin {"return", "done"}
    BY <1>3 DEF Call, Step, Guard, NoHeaders, CheckToken, GetToken, Verify, AppendToken, NoCurl,
                Post, RequestFails, Respond, Relock, Accepted, Refused, Unauthorized, Retry,
                jobVars
  <2>2. pc'[j] \notin {"return", "done"} /\ \A i \in Jobs : i # j => pc'[i] = pc[i]
    BY <1>3 DEF Call, Step, Guard, NoHeaders, CheckToken, GetToken, Verify, AppendToken, NoCurl,
                Post, RequestFails, Respond, Relock, Accepted, Refused, Unauthorized, Retry
  <2> QED  BY <2>1, <2>2
<1> QED  BY <1>1, <1>2, <1>3

\* The lock and its history.
LEMMA LockStep ==
  ASSUME TypeOK, HoldingByPc, LockedByHolder, LockIsExact, NEW j \in Jobs, Call(j) \/ Step(j)
  PROVE  HoldingByPc' /\ LockedByHolder' /\ LockIsExact'
<1> USE DEF Goto, TypeOK, HoldingByPc, LockedByHolder, LockIsExact, Critical
<1>1. CASE Guard(j) \/ Relock(j)
  <2>1. /\ ~job_lock /\ job_lock' /\ holding' = holding \cup {j} /\ foreign' = foreign
        /\ j \notin holding
        /\ \E to \in {"token", "answer"} : pc' = [pc EXCEPT ![j] = to]
    BY <1>1 DEF Guard, Relock, Acquire
  <2> QED  BY <2>1
<1>2. CASE Post(j) \/ Retry(j) \/ Return(j)
  <2>1. /\ ~job_lock' /\ holding' = holding \ {j}
        /\ foreign' = (foreign \/ (j \notin holding /\ holding # {}))
        /\ \E to \in {"flight", "lock", "done", "return"} : pc' = [pc EXCEPT ![j] = to]
    BY <1>2 DEF Post, Retry, Return, Unlock
  <2>2. HoldingByPc' /\ LockedByHolder'
    BY <2>1
  <2>3. ASSUME ~foreign' PROVE holding' = {}
    <3>1. ~foreign /\ (j \in holding \/ holding = {})
      BY <2>1, <2>3
    <3> QED  BY <2>1, <3>1
  <2> QED  BY <2>2, <2>3
<1>3. CASE \/ Call(j) \/ NoHeaders(j) \/ CheckToken(j) \/ GetToken(j) \/ Verify(j)
           \/ AppendToken(j) \/ NoCurl(j) \/ RequestFails(j) \/ Respond(j)
           \/ Accepted(j) \/ Refused(j) \/ Unauthorized(j) \/ Finish(j)
  <2>1. UNCHANGED <<job_lock, holding, foreign>>
    BY <1>3 DEF Call, NoHeaders, CheckToken, GetToken, Verify, AppendToken, NoCurl,
                RequestFails, Respond, Accepted, Refused, Unauthorized, Finish, history
  <2>2. HoldingByPc'
    BY <1>3, <2>1 DEF Call, NoHeaders, CheckToken, GetToken, Verify, AppendToken, NoCurl,
                RequestFails, Respond, Accepted, Refused, Unauthorized, Finish
  <2> QED  BY <2>1, <2>2
<1> QED  BY <1>1, <1>2, <1>3 DEF Step

\* As long as only one job is in the section, no other one takes the token that
\* it has verified.
LEMMA TokenStep ==
  ASSUME TypeOK, HoldingByPc, LockIsExact, TokenIsSeen, NEW j \in Jobs, Call(j) \/ Step(j)
  PROVE  TokenIsSeen'
<1> SUFFICES ASSUME ~foreign', NEW i \in Jobs
             PROVE  /\ pc'[i] = "append" => token_header' = "usable"
                    /\ pc'[i] \in {"prepare", "flight"} => sent'[i] \in {"usable", "lost"}
  BY DEF TokenIsSeen
<1>1. ~foreign
  BY DEF Call, Step, Guard, NoHeaders, CheckToken, GetToken, Verify, AppendToken, NoCurl, Post,
         RequestFails, Respond, Relock, Accepted, Refused, Unauthorized, Retry, Finish, Return,
         Acquire, Unlock, history
<1>2. CASE i = j
  BY <1>1, <1>2
     DEF Call, Step, Guard, NoHeaders, CheckToken, GetToken, Verify, AppendToken, NoCurl, Post,
         RequestFails, Respond, Relock, Accepted, Refused, Unauthorized, Retry, Finish, Return,
         Goto, Over, jobVars, TypeOK, TokenIsSeen
<1>3. CASE i # j
  <2>1. pc'[i] = pc[i] /\ sent'[i] = sent[i]
    BY <1>3
       DEF Call, Step, Guard, NoHeaders, CheckToken, GetToken, Verify, AppendToken, NoCurl, Post,
           RequestFails, Respond, Relock, Accepted, Refused, Unauthorized, Retry, Finish, Return,
           Goto, Over, jobVars, TypeOK
  <2>2. pc[i] = "append" => token_header' = token_header
    <3>1. SUFFICES ASSUME pc[i] = "append" PROVE pc[j] \notin Critical
      BY DEF Call, Step, Guard, NoHeaders, CheckToken, GetToken, Verify, AppendToken, NoCurl,
             Post, RequestFails, Respond, Relock, Accepted, Refused, Unauthorized, Retry, Finish,
             Return, Goto, Critical
    <3> QED  BY <1>1, <1>3, <3>1 DEF HoldingByPc, LockIsExact, Critical
  <2> QED  BY <1>1, <2>1, <2>2 DEF TokenIsSeen
<1> QED  BY <1>2, <1>3

\* Inv is an invariant.
LEMMA Invariance == Spec => []Inv
<1>1. Inv /\ [Next]_vars => Inv'
  <2> SUFFICES ASSUME Inv, [Next]_vars PROVE Inv'
    OBVIOUS
  <2>1. ASSUME NEW j \in Jobs, Call(j) \/ Step(j) PROVE Inv'
    BY <2>1, TypeStep, RetryStep, FinishedStep, LockStep, TokenStep DEF Inv
  <2>2. CASE UNCHANGED vars
    BY <2>2 DEF vars, jobVars, history, Inv, TypeOK, RetryBound, FinishedOnce, HoldingByPc,
                LockedByHolder, LockIsExact, TokenIsSeen
  <2> QED  BY <2>1, <2>2 DEF Next
<1> QED  BY InvInit, <1>1, PTL DEF Spec, Safety

\* Every variable keeps its type, and a job has frames exactly while it runs.
THEOREM TypeCorrect == Spec => []TypeOK
<1>1. Inv => TypeOK  BY DEF Inv
<1> QED  BY Invariance, <1>1, PTL

\* Whatever the API server answers and however often a job retries, it calls
\* finishJob once: working_job is decremented once for every job.
THEOREM EveryJobFinishesOnce == Spec => []FinishedOnce
<1>1. Inv => FinishedOnce  BY DEF Inv
<1> QED  BY Invariance, <1>1, PTL

\* No path through sendRequest leaks job_lock.
THEOREM LockIsNotLeaked == Spec => []LockIsOwned
<1>1. Inv => LockIsOwned
  BY DEF Inv, TypeOK, HoldingByPc, LockedByHolder, LockIsOwned
<1> QED  BY Invariance, <1>1, PTL

\* The exclusion that job_lock is there for can be lost in one way only, by a
\* guard that unlocks the mutex after its job has unlocked it by hand.
THEOREM SectionIsExclusive == Spec => []SectionExclusive
<1>1. Inv => SectionExclusive
  <2> SUFFICES ASSUME Inv, ~foreign
               PROVE  Cardinality({j \in Jobs : pc[j] \in Critical}) <= 1
    BY DEF SectionExclusive
  <2> DEFINE S == {j \in Jobs : pc[j] \in Critical}
  <2>1. \A i, j \in S : i = j
    BY DEF Inv, HoldingByPc, LockIsExact
  <2>2. CASE S = {}  BY <2>2, FS_EmptySet
  <2>3. ASSUME NEW j \in S PROVE Cardinality(S) <= 1
    <3>1. S = {j}  BY <2>1, <2>3
    <3>2. Cardinality({j}) = 1  BY FS_Singleton
    <3> QED  BY <3>1, <3>2
  <2> QED  BY <2>2, <2>3
<1> QED  BY Invariance, <1>1, PTL

\* Until then no request goes out with a token that cannot be one, although any job
\* may clear the token for all; the only ones without are those whose token could
\* not be appended, which the code does not look at.
THEOREM RequestsCarryToken == Spec => []SentWithToken
<1>1. Inv => SentWithToken  BY DEF Inv, TokenIsSeen, SentWithToken
<1> QED  BY Invariance, <1>1, PTL

-----------------------------------------------------------------------------
(* Why a job ends. *)

\* How far each point is from the end of its frame's request.
Rank == [lock |-> 13, token |-> 12, login |-> 11, verify |-> 10, append |-> 9, prepare |-> 8,
         flight |-> 7, relock |-> 6, answer |-> 5, retry |-> 4]

\* At most this many steps are left of a job: those of the request, 12 for each
\* retry that it may still make, and those in which its frames return.
Left(j) ==
  IF pc[j] = "new" THEN 13 * MaxRetries + 16
  ELSE IF pc[j] = "finish" THEN depth[j] + 1
  ELSE IF pc[j] \in {"return", "done"} THEN depth[j]
  ELSE MaxRetries + 2 + 12 * (MaxRetries + 1 - depth[j]) + Rank[pc[j]]

\* A step of a job takes one of its steps, and leaves alone what the others have left.
Nears ==
  \E j \in Jobs :
    /\ Left(j)' < Left(j)
    /\ \A i \in Jobs \ {j} : Left(i)' = Left(i)

\* Every step of a job takes it nearer to its return (inotify.cc:469-656).
JobsComeToEnd == [][Nears]_vars

\* A locked mutex has an owner that is neither at a lock of its own nor waiting for
\* the answer to its request.
OwnerGoesOn ==
  job_lock => \E j \in holding : pc[j] \in Critical \cup {"finish", "return"}

\* What is left is a number, and no more than at the beginning.
LEMMA LeftBounded ==
  ASSUME TypeOK, NEW j \in Jobs
  PROVE  Left(j) \in 0 .. 13 * MaxRetries + 16
<1>1. /\ depth[j] \in 0 .. MaxRetries + 1 /\ MaxRetries \in Nat
      /\ depth[j] = 0 <=> pc[j] \in {"new", "done"}
  BY SendAssumption DEF TypeOK
<1>2. CASE pc[j] \in {"new", "finish", "return", "done"}
  BY <1>1, <1>2 DEF Left
<1>3. CASE pc[j] \notin {"new", "finish", "return", "done"}
  <2>1. Rank[pc[j]] \in 4 .. 13  BY <1>3 DEF TypeOK, Rank
  <2>2. depth[j] \in 1 .. MaxRetries + 1  BY <1>1, <1>3
  <2>3. Left(j) = MaxRetries + 2 + 12 * (MaxRetries + 1 - depth[j]) + Rank[pc[j]]
    BY <1>3 DEF Left
  <2> QED  BY <1>1, <2>1, <2>2, <2>3
<1> QED  BY <1>2, <1>3

\* What the steps of a job do to its point and to its frames.
LEMMA FrameStep ==
  ASSUME TypeOK, NEW j \in Jobs, Call(j) \/ Step(j)
  PROVE  /\ \A i \in Jobs \ {j} : pc'[i] = pc[i] /\ depth'[i] = depth[i]
         /\ LET inside == pc[j] \notin {"new", "finish", "return", "done"}
            IN  \/ pc[j] = "new" /\ pc'[j] = "lock" /\ depth'[j] = 1
                \/ /\ inside /\ pc'[j] \notin {"new", "finish", "return", "done"}
                   /\ depth'[j] = depth[j] /\ Rank[pc'[j]] < Rank[pc[j]]
                \/ pc[j] = "retry" /\ pc'[j] = "lock" /\ depth'[j] = depth[j] + 1
                \/ inside /\ pc'[j] = "finish" /\ depth'[j] = depth[j]
                \/ pc[j] = "finish" /\ pc'[j] = "return" /\ depth'[j] = depth[j]
                \/ pc[j] = "return" /\ pc'[j] \in {"return", "done"} /\ depth'[j] = depth[j] - 1
<1> USE DEF Goto, TypeOK, Rank
<1>1. CASE Call(j)  BY <1>1 DEF Call
<1>2. CASE Guard(j) \/ CheckToken(j) \/ GetToken(j)
  BY <1>2 DEF Guard, CheckToken, GetToken, jobVars
<1>3. CASE NoHeaders(j) \/ NoCurl(j) \/ RequestFails(j)
  BY <1>3 DEF NoHeaders, NoCurl, RequestFails
<1>4. CASE Verify(j) \/ AppendToken(j)  BY <1>4 DEF Verify, AppendToken
<1>5. CASE Post(j) \/ Respond(j) \/ Relock(j)
  BY <1>5 DEF Post, Respond, Relock, jobVars
<1>6. CASE Accepted(j) \/ Refused(j) \/ Unauthorized(j)
  BY <1>6 DEF Accepted, Refused, Unauthorized, jobVars
<1>7. CASE Retry(j)  BY <1>7 DEF Retry
<1>8. CASE Finish(j)  BY <1>8 DEF Finish
<1>9. CASE Return(j)  BY <1>9 DEF Return
<1> QED  BY <1>1, <1>2, <1>3, <1>4, <1>5, <1>6, <1>7, <1>8, <1>9 DEF Step

\* Each step takes one of the steps that are left to its job.
LEMMA LeftFalls ==
  ASSUME TypeOK, TypeOK', NEW j \in Jobs, Call(j) \/ Step(j)
  PROVE  Nears
<1>1. \A i \in Jobs \ {j} : pc'[i] = pc[i] /\ depth'[i] = depth[i]
  BY FrameStep
<1>2. \A i \in Jobs \ {j} : Left(i)' = Left(i)
  BY <1>1 DEF Left
<1>3. Left(j)' < Left(j)
  <2>1. /\ pc[j] \in {"new", "finish", "return", "done"} \cup DOMAIN Rank
        /\ pc'[j] \in {"new", "finish", "return", "done"} \cup DOMAIN Rank
    BY DEF TypeOK, Rank
  <2>2. MaxRetries \in Nat /\ depth[j] \in 0 .. MaxRetries + 1 /\ depth'[j] \in 0 .. MaxRetries + 1
    BY SendAssumption DEF TypeOK
  <2>3. PICK M \in Nat, d \in Nat, e \in Nat :
          /\ M = MaxRetries /\ d = depth[j] /\ e = depth'[j]
          /\ d <= M + 1 /\ e <= M + 1
    BY <2>2
  <2>4. PICK a, b : a = Rank[pc[j]] /\ b = Rank[pc'[j]]  OBVIOUS
  <2>5. /\ pc[j] \in DOMAIN Rank => a \in 4 .. 13
        /\ pc'[j] \in DOMAIN Rank => b \in 4 .. 13
        /\ pc[j] = "retry" => a = 4
        /\ pc'[j] = "lock" => b = 13
    BY <2>4 DEF Rank
  <2> DEFINE inside(p) == p \notin {"new", "finish", "return", "done"}
  <2>6. /\ pc[j] = "new" => Left(j) = 13 * M + 16
        /\ pc[j] = "finish" => Left(j) = d + 1
        /\ pc[j] = "return" => Left(j) = d
        /\ inside(pc[j]) => Left(j) = M + 2 + 12 * (M + 1 - d) + a
    BY <2>3, <2>4 DEF Left
  <2>7. /\ pc'[j] = "finish" => Left(j)' = e + 1
        /\ pc'[j] \in {"return", "done"} => Left(j)' = e
        /\ inside(pc'[j]) => Left(j)' = M + 2 + 12 * (M + 1 - e) + b
    BY <2>3, <2>4 DEF Left
  <2>8. CASE pc[j] = "new" /\ pc'[j] = "lock" /\ e = 1
    BY <2>5, <2>6, <2>7, <2>8
  <2>9. CASE inside(pc[j]) /\ inside(pc'[j]) /\ e = d /\ b < a
    <3>1. a \in Int /\ b \in Int  BY <2>1, <2>5, <2>9
    <3> QED  BY <2>6, <2>7, <2>9, <3>1
  <2>10. CASE pc[j] = "retry" /\ pc'[j] = "lock" /\ e = d + 1
    BY <2>5, <2>6, <2>7, <2>10
  <2>11. CASE inside(pc[j]) /\ pc'[j] = "finish" /\ e = d
    <3>1. a \in 4 .. 13  BY <2>1, <2>5, <2>11
    <3>2. Left(j) = M + 2 + 12 * (M + 1 - d) + a /\ Left(j)' = d + 1
      BY <2>6, <2>7, <2>11
    <3>3. d <= M + 1  BY <2>3
    <3> QED  BY <3>1, <3>2, <3>3
  <2>12. CASE pc[j] = "finish" /\ pc'[j] = "return" /\ e = d
    BY <2>6, <2>7, <2>12
  <2>13. CASE pc[j] = "return" /\ pc'[j] \in {"return", "done"} /\ e = d - 1
    BY <2>6, <2>7, <2>13
  <2> QED  BY <2>3, <2>4, <2>8, <2>9, <2>10, <2>11, <2>12, <2>13, FrameStep
<1> QED  BY <1>2, <1>3 DEF Nears

\* A job takes at most 13 * MaxRetries + 16 steps from its call to its return, for any
\* number of jobs that share the mutex: the frames that a retry adds are all left
\* again, and no other job's step puts it back (inotify.cc:469-656).
THEOREM JobsEnd ==
  Spec => JobsComeToEnd /\ [](\A j \in Jobs : Left(j) \in 0 .. 13 * MaxRetries + 16)
<1>1. Inv /\ Inv' /\ [Next]_vars => [Nears]_vars
  BY LeftFalls DEF Next, Inv
<1>2. Inv => \A j \in Jobs : Left(j) \in 0 .. 13 * MaxRetries + 16
  BY LeftBounded DEF Inv
<1> QED  BY <1>1, <1>2, Invariance, PTL DEF Spec, Safety, JobsComeToEnd

\* A locked mutex has a job that locked it and is past its locks, in none of which it
\* can be stuck behind itself, on every path of sendRequest; at most it waits for
\* /login. So no job waits for a lock that nobody can release (inotify.cc:477, 549, 578, 639).
THEOREM OwnerNeverWaits == Spec => []OwnerGoesOn
<1>1. Inv => OwnerGoesOn
  <2> SUFFICES ASSUME Inv, job_lock PROVE \E j \in holding : pc[j] \in Critical \cup {"finish", "return"}
    BY DEF OwnerGoesOn
  <2>1. PICK j \in holding : TRUE  BY DEF Inv, LockedByHolder
  <2>2. j \in Jobs /\ pc[j] \notin {"new", "lock", "flight", "relock", "done"}
    BY <2>1 DEF Inv, TypeOK, HoldingByPc
  <2> QED  BY <2>1, <2>2 DEF Inv, TypeOK, Critical
<1> QED  BY <1>1, Invariance, PTL
=============================================================================
