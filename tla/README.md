# Verification of VR_RT_DNN_ITF_DP

TLA+ models of the recognition server of this repository (`src/vr`, `src/worker`)
and of its directory watcher (`src/inotify`), the TLC configurations that check them
on small instances, and TLAPS proofs of what holds for every instance.

## 1. The system

Two programs work together through a gearman job server and an HTTP API server that
are not part of the repository.

* **`inotify`** watches a directory. For each index file that is closed after
  writing it starts a detached thread (`runJob`), which posts a request per recording
  to the API server, in as many detached threads (`processRequest`, `sendRequest`) as
  there are lines, as long as the limit on running jobs and the limit on the sizes of
  the recordings in progress allow it.
* **`vr`** loads the recogniser, serves gearman functions from a fixed number of worker
  threads until they end, and unloads it. The functions are whole recordings (`vr_stt`),
  text (`vr_text`, `vr_text_only`, `vr_ssp`), and pieces of a running call
  (`vr_realtime`), each decoded on one of a pool of `RealtimeSTT` channels.

### Inventory

| component | source | state it keeps | operations | what is hard | what makes it correct | status |
|---|---|---|---|---|---|---|
| real-time channel pool | `vr/vr.cc` 1085-1317, `vr/vr_server.cc` 405-440, 1756-1868 | `channel` map, `m_CurrState` of each channel, `m_mxChannel` | `create_channel`, `stt`, `close_channel`, `job_rt_stt` | workers run before the map is full; the state is reset outside the lock; a worker may use a channel it did not claim | one worker per decoder, no channel lost, no use after close | modelled |
| worker daemon | `worker/worker.cc` | worker threads, `is_running` | `run`, `worker_thread`, `join` | exceptions out of a job are swallowed, out of `initialize` they are not | a thread outlives its failed jobs; `join` returns last | modelled |
| model loading | `vr/vr.cc`, `vr/vr_server.cc` | masters, `sil`, the post-processor | `loadLaserModule`, `unloadLaserModule`, `initialize`, `~VRServer` | half a load, a pointer that is freed and kept, two ways to unload | what a job uses outlives it; nothing is freed twice | modelled |
| choice of a GPU | `vr/vr.cc` 520-600, 1085-1235 | `idGPU`, `stt_job_count`, child lasers | `VRServer::stt`, `create_channel` | two members that all threads write without a lock; a dozen returns that leave the child | one owner per child, on the GPU of its master | modelled |
| speech decoder, real-time decoder | `vr/vr.cc` 298-748, `vr/rt.cc` | front end, laser, `index`, `last_position` | `VRServer::stt`, `RealtimeSTT::stt` | late frames, resets in the middle, failures that are skipped, state that outlives a call | every frame once, in order, in its own call | modelled |
| stt job handler | `vr/vr_server.cc` 487-632, 862-1408 | files in `tmp_path`, the buffer and the pointer into it | `job_stt`, `__store_file`, `__load_file`, `__job_stt` | file names shared by workers, leftovers, clean-up on each failure | a result comes from the job's own recording, temporary files removed, originals kept | modelled |
| wave format check | `vr/vr.cc` 1006-1083 | none | `check_wave_format`, the switch of `job_stt` | a guess from a few bytes | the branch that fits the recording | modelled |
| download over sftp and ftps | `vr/vr_server.cc` 139-256, 643-852 | the global connections | `init_sftp`, `__sftp_download`, ... | one connection for all workers, reconnects, retries | every job returns that gets its answers, whenever the connection is lost | modelled |
| payload download | `worker/worker.cc` 229-403 | the buffer, `curl_lock` | `downloadData`, `checkProtocol` | exceptions, unknown protocols, a lock held over a transfer without a timeout | the buffer holds the recording or the job fails | modelled, as steps of the job |
| text jobs | `vr/vr_server.cc` 1410-1755, `vr/vr.cc` 750-1000 | files in `tmp_path` named after handles | `job_unsegment`, `job_unsegment_with_time`, `job_ssp`, `save_data` | failures nobody reports, files of an earlier job of the same handle | a text is made from its own job's payload | modelled |
| index file dispatcher | `inotify/inotify.cc` 165-290, 800-1006, 1270-1692 | `working_job`, `available_workers`, `job_file_index`, the set `jobs` of each runner | `monitoring`, `runJob`, `waitForFinish`, `waitForFinish_fs_threshold`, `finishJob`, `finishJob_fs_threshold` | check-then-act on the limits, children that use the runner's stack, a thread that ends before its id is recorded | the counter is the number of jobs, the limits hold up to a known overshoot, a runner outlives its children and ends | modelled |
| request sender | `inotify/inotify.cc` 360-656 | `token_header`, `job_lock` | `sendRequest`, `__get_token` | lock_guard, manual unlock and a recursive retry on one mutex | a job finishes once, the lock is never leaked | modelled |
| configuration, REST controller, system information, vendored code | see section 6 | | | | | not modelled |

How they interact: the dispatcher and the sender share threads (a job of the one runs
the other); the threads of the server share the lasers, the connection, `tmp_path` and,
for real-time jobs, the pool; the main thread waits for them (`join`) before it closes
channels and unloads. The two programs meet only through the external servers.

## 2. Modules

| module | what it is |
|---|---|
| `RealtimePool` | the pool, the thread of `initialize` and the worker threads |
| `ChannelLease` | what the pool promises to a worker: an exclusive channel that is given back |
| `Decode` | the frame loop of `VRServer::stt` and `RealtimeSTT::stt` |
| `Transcript` | what a recognition promises: all that is heard is said once |
| `WaveFormat` | `check_wave_format` and the switch on its answer |
| `SttJob` | `job_stt` with its downloads, its files and the programs it calls (extends `WaveFormat`) |
| `WorkerDaemon` | `run`, `worker_thread` and `join` |
| `Lasers` | who owns the masters and children, and on which GPU (extends `WorkerDaemon`) |
| `TextJob` | the jobs on text (extends `WorkerDaemon`) |
| `VrServer` | `Lasers` and `TextJob` in one process, from `main` to its end |
| `InotifyDispatch` | the dispatcher with its runners and jobs |
| `InotifySend` | `sendRequest`, which is what `InotifyDispatch` leaves out of a job |
| `FoldLemmas` | induction, and what is true of `FlattenSeq` and of sums over finite sets |
| `InotifyBudgetProofs` | the proof about the budget of `InotifyDispatch`, on top of `InotifyDispatchProofs` |
| `*Proofs` | proofs about `RealtimePool`, `Decode`, `InotifyDispatch`, `InotifySend`, `SttJob`, `VrServer` |
| `MC*` | values of the constants for TLC |

PROJECT.json maps every definition to the lines it stands for.

### RealtimePool

The shipped build defines `USE_REALTIME_POOL` (`vr/Makefile:28`), so the other branch of
`VRServer::stt` is left out. `channel` and `currState` are the map and the states;
`mxChannel` is the mutex; `phase` and `next` are the program counter of `initialize`;
`pc`, `node` and `rc` are the locals of each worker in `job_rt_stt` and `VRServer::stt`.

* `run("vr_realtime", ...)` has constructed every thread before the loop that creates
  the channels begins, so the workers exist from `Init` on.
* `channel[call_id] = p` is two steps, `InsertEntry` (a null pointer) and `AssignEntry`:
  a scan in between dereferences null (`ScanNull`). Each such access of a `std::map`
  without a lock is a data race; beyond the order of these steps its outcome is taken
  to be that of some interleaving.
* The scan visits one entry per step, under the mutex, in the order of the keys (`Rank`).
  When every entry is busy, `ScanEndShared` goes on with the last one, as the code does.
* An exception from a decode (`SttThrows`) skips the reset, and `worker_thread` catches it.
  An exception out of `create_channel`, or the null dereference, ends the process.
* `rc` is what `VRServer::stt` returns, and "failure" for a workload that is rejected.
* `lost` is a history variable: the channels whose last decode has thrown.
* `Join` waits for the real-time workers only; in the code it waits for all workers, a
  stronger condition. `WorkerDaemon::stop` is never called, so a worker leaves only
  when it cannot register.

`EarlyJobs = FALSE` describes an operation in which no job is submitted before the map
is full. The code does not enforce that; the runs and theorems that use it say so.

### Decode

One module for both functions, because they are one loop: `realtime` says which. They
differ in what outlives a call (`front`, `laser`), and in `SetResetPeriod`: `create_channel`
publishes a channel before it calls `set_reset_period`, so that a call that is already
running sees an uninitialised value, and then another (any member of `Periods`).

* The unit of length is one frame (80 samples). A frame is a number, its place in all that is
  spoken on the channel, call after call; `spoken` is what went before the call. `Filler`, the
  copies of the first frame that fill the stack and the frames of silence, is no speech.
* The front end is external: it holds what it has been given (`front`) and gives back any
  number of frames. What `stepFrameLFrontEnd` returns is not looked at by the code; it is a
  status, and the interface (`frontend_api.h`) has no failure. `feature_vector` is the batch,
  `laser` what the decoder has taken in this call since its reset. `result` has, for each piece
  of text, the frames and the times it stands for; the text itself is not modelled, nor the "."
  that `getFinalResult` appends when the decoder refuses the silence.
* `Reset`: the results of `resetSLaser` and `resetLFrontEnd` at the start of a call are not
  looked at (`rt.cc:220-221`, `vr.cc:598-599`), so either may be refused, and for a real-time
  channel what an earlier call has left stays: in the front end, whose frames then come first in
  this call (`left` of them), and in the decoder (`kept`), which says them in its next piece
  (`old`). The reset in the middle of a call is looked at (`Clear`, `ClearFails`).
* `FinalFails` and `LastResultFails`: `getFinalResult` fails after the decoder has taken some or all
  of the silence (`NoResult`), which `index` does not count. `FinalFails` goes on without a
  reset. `Ends` is what the last line of a piece may say of its end, the silence included.
* `getIntermediateResult` and `free_buffer` are compiled out of the shipped build.
* `fed`, `heard` and `left` are history variables.

### SttJob and WaveFormat

`pc` is where each worker is in `job_stt`; `protocol`, `buffer`, `data`, `input` and `part`
are its locals, and `result` the texts it will answer. Audio is a pair: a recording and
what it has become ("in" as it arrived, "pcm" decoded, "left" and "right" separated).
`buffer` is what has been loaded and not cleared, `data` what the pointer sees: after
`buffer.clear()` the storage is still there, and the code goes on reading it.

* `Header[r]` has the fields of the first bytes that `check_wave_format` reads, `Speech[r]`
  what the recording really is; `Fmt` is the branch that the code derives from the header.
  `HeaderAssumption` says that the fields of a well-formed header tell the number of
  channels; what the bytes hide all the same (`Disguised`: a tag or a chunk in front of
  the fields, or raw samples that look like an MPEG frame) is not assumed away but named
  in `OwnResult`. Headers are taken to be complete.
* A file is a place and an ending. The places are those of the originals (`file://`) and
  the names in `tmp_path`, which depend on the recording's name alone (`Base`), so that two
  recordings may share one. `files` says what each file holds.
* One worker's step is one access to the disk or the connection, with the local code
  around it.
* `__sftp_download` and `__ftps_download` are the same but for the loop at the end of
  `init_sftp` (`AwaitConnected`). The map names the lines of one or the other. `Connect` and
  `ConnectFails` are the two outcomes of an init; the attempt goes on after either.
* A payload is audio ("none") or a name: under "file", under a protocol that is fetched from
  a server ("remote"; mount, which is read without curl, is taken for one), or under one that
  is not in `protocol_list` ("unknown"), for which `checkProtocol` answers none.
* With `protocol.use` = false, `downloadData` reads a file, or takes `curl_lock` (`LockCurl`) and keeps
  it until curl is done. With true, whatever the protocol, a path is cut out of the payload
  (`FetchRemote`), or cannot be (`FetchThrows`). What is cut out of audio names no file.
* If the protocol is none, `data` is the payload itself, whatever was fetched into the buffer
  (`vr_server.cc:1010-1013`): audio (`Payload`), or the bytes of a name, which hold no audio.
* With `protocol.use` not set, as in all shipped `env*.conf`, nothing is fetched and `protocol` is
  read without having been assigned (`vr_server.cc:890`, 1010): `FetchNothing` takes any value.
* `Calls`: a worker is in a call to the file server, which only an answer ends. `Waits`: it is,
  or it waits for `curl_lock` while another is.
* Programs (`stt.decoder`, `stt.separator`) are external: they may fail, and they need their file.
* `Leftovers`: an earlier process may have ended in the middle of a job.
* `made` and `clash` are history variables: the files a job has created, and whether
  it ran beside a job on a recording of the same name.

Taken as configured: `protocol.type` is sftp or ftps when `protocol.use` is true.

### WorkerDaemon, Lasers, TextJob, VrServer

`WorkerDaemon` has where each thread is (`thread`) and nothing of what it does: `Lasers` and
`TextJob` extend it and conjoin their own steps with `TakeJob` and `EndJob`. `VrServer` is
their composition: the actions of one leave the variables of the other alone, and both
run only while the process does (`Alive`).

* `main` is where the main thread is, from `loadLaserModule` to the end of `~VRServer`. With
  one GPU there is one master ("one"), with two there are "gpu0" and "gpu1".
  `sil` is the buffer of silence, `sil_frees` how often it has been freed. The post-processor
  is initialised only if there are "unsegment" workers (`HasUnsegment`), and only their two
  functions use it; `ssp` jobs do not. The run has such workers, the theorems cover both.
* A child is a record with the number of its place, its master, and the GPU it
  was created for; `child[p]` is what a thread holds, `channel` what the channels hold.
  `fate` becomes "leaked" where a return of `VRServer::stt` leaves the child behind.
* `ChooseGpu`, `Branch`, `CreateChild`, `ReadCount` and `WriteCount` are the accesses to `idGPU`
  and `stt_job_count`, one by one; increments may be lost. `raced` is a history variable:
  has another thread written `idGPU` since this one has?
* An exception out of `run` or `create_channel` unwinds past `join` (`Throw`): `~VRServer`
  unloads what threads may be using, and the process is then terminated ("aborted").
  This is the one exception of `UnloadLast`.
* `tjob` is a job's number and its handle, after which it names its files. The job
  server counts its handles from 1 again when it is restarted, so that `BeginText` takes
  any handle, also one that is in use (`clash`). What a text was made from is a job and
  "all" or "part". `SaveData` never fails, as the code does, though it may have written
  nothing; `saved` remembers which.
* The decoding of a job is `Decode`; real-time threads are `RealtimePool`. Threads stand for
  `worker_thread` of one function each. More than two GPUs, with which `loadLaserModule`
  creates no master, are left out.

### InotifyDispatch

A runner is a `runJob` thread, a job a line of its index file; in the modes "filename"
and "file" the runner processes its one line itself. `rpc` and `jpc` are their program
counters. `jobs[r]` is the `std::set` of thread ids on the runner's stack, `handle[r]`
the id of the `std::thread` it has just constructed, `tid` the ids of the running
threads. An id is given out again once its thread has ended, which is what pthreads do.

* Accesses to the `std::set` and to the multi-index table are data races in the code.
  Each one is a single step here: the model has the interleavings and not the
  corrupted trees.
* The wait of `waitForFinish` ends in a step of its own, and `working_job` is raised in
  a later one (`Count`). `waitForFinish_fs_threshold` has three: `CheckWorkers`,
  `CheckBudget`, `EnterIndex`. The entry in the table is unique by name.
* A recording that cannot be looked at has the size `Unknown`, -1 as a `size_t`, and the
  sums are modulo `SizeMod`.
* `finishJob` is `Uncount` and `EraseId`; `finishJob_fs_threshold` has `Unindex` before
  them. What `sendRequest` does before it finishes is the module `InotifySend`.
* A line is "bad" when it cannot be parsed, or its size cannot be asked for because
  its URI is not one (`getFileInfo` throws): with a threshold this ends the process
  (`LineThrows`), without one the job finishes early.
* `StartThrows`: `fs_threshold_yn` is missing, or `fs_threshold` is missing or no number.
* `SpawnFails` breaks out of the loop and, as the code, takes nothing back: `working_job` stays
  one too high and the entry in the table stays (`Leaked`).
* `PollWorkers` may change `available_workers` at any time. With `maximum_jobs` the code
  never changes it: those behaviours are included. `LargestAvailable`: the totals are ints.
* The speaker separation and the job monitor are commented out in the source.

### InotifySend

`depth` is the number of frames of `sendRequest` on a job's stack, each of which has a
`lock_guard`. `Return` unlocks once per frame. After a failed request (and after each
retry) the guard unlocks a mutex the thread does not hold, which is undefined; the model
takes what glibc's default mutex does: it becomes free. `holding` and `foreign` are
history variables: the jobs that have locked and not unlocked since, and whether a job
has unlocked while another held. A token shorter than 20 characters is "unusable". `sent` is
the token a request carries until it is over, "lost" if `curl_slist_append` has failed, which
the code does not look at (`inotify.cc:515`).
The option `fs_threshold_yn` that `Finish` reads is taken to be set; `InotifyDispatch`
has what happens when it is not (`UnindexThrows`).

## 3. Runs

| run | states | bounds | what it shows |
|---|---|---|---|
| `pool_full` | 6,801 | 3 workers, 3 channels, jobs after the map is full | exclusive decoding, states that tell the truth, and the refinement of `ChannelLease`, liveness included |
| `pool_startup` | 99,718 | 3 workers, 2 channels, early jobs and failures | with every failure: no channel is lost except to an exception, the mutex is released, states are reset, no use after close |
| `pool_early` | violation | 2 workers, 2 channels, no failure | a worker decodes on a channel marked standby |
| `dispatch_count` | 210,934 | 2 runners, 5 lines, 3 thread ids, limit 1 or 2, all index types | the counter, its overshoot, the lifetime of children, the end of the wait |
| `dispatch_budget` | 255,124 | 2 runners, 6 lines of sizes 0, 2 and unknown, threshold 1, or the option unset | the table of sizes and the budget |
| `dispatch_return` | violation | 2 runners, one line each, no failure | `runJob` may never return |
| `send` | 157,563 | 3 jobs, one retry each | one `finishJob` per job, no leaked lock, exclusion up to the first foreign unlock, tokens, termination |
| `send_result` | violation | no retry | a refused request returns success |
| `stt_jobs` | 300,117 | 2 workers, 2 jobs, 9 recordings, 5 configurations, leftovers, 1 retry | results, temporary files, originals, and over ftps or curl the return of every job that is not left in one call |
| `stt_waits` | violation | 1 worker, sftp, 3 retries | a job waits for ever for a connection |
| `decode` | 1,412,322 | 2 calls, lengths 0, 1 and 5, chunks of 2, stack and silence of 1, periods 0 and 3 | the refinement of `Transcript`, liveness included; frames and times |
| `server` | 2,538,338 | 2 stt threads (symmetric), 2 text threads, 1 or 2 GPUs, 1 channel, 2 jobs | the owners of the lasers, their GPUs, the order of unloading, texts |

Why the bounds are enough. Three workers on two channels have every way to meet: one
decodes, one shares its channel, one scans. A third worker is needed for the release by
a worker that shares to free a channel that a third one claims. The pool is checked with
one channel fewer than threads instead of one failed creation of three, which is the same
pool. Two runners are needed to race for the limit and the budget; `Overshoot` and
`BudgetBound` state their bounds in the number of runners. Three thread ids for at most
three running jobs make reuse of an id happen at once. Three jobs in `InotifySend` are the
least for a foreign unlock to let two others in.

The recordings of `stt_jobs` cover the payloads and the branches of `job_stt`, with two of
one name, raw PCM whose first sample is -1, an MPEG of two channels, and a name under an
unknown protocol. Two jobs are one
beside another and one after another; what a third would find in `tmp_path` it finds as a
leftover. In `stt_waits` the only worker is the one that waits, so that the bound on jobs
plays no part: no other thread could bring the connection back.

In `decode` the lengths are an empty recording, one shorter than a chunk, and one of three
chunks of which the last is short; one period resets after every batch, the other after the
second or third, and a call of few frames sees none. Two calls on one channel are enough for
one to meet what the other has left.
In `server` two threads are enough to race for `idGPU`, and any step may be followed by
the end of the server; a second job on a thread is like a second thread's.

Constants that stand for larger ones: `Retries` = 1 for the 3 of the download loops in
`stt_jobs` (`stt_waits` has the 3); `TrackedLimit` = 1 for the 10000 of `while (jobs.size() >
10000)`, so that the wait
happens; `SizeMod` = 64 for 2^64; `ReadSize` = 2, `Stack` = 1 and `Silence` = 1 for the frames of
a chunk, of the stack and of the silence; `MaxRetries` bounds how often the server answers
401, which the code does not bound; `MaxJobs` and `MaxCalls` how many jobs arrive.

Deadlock is not checked: the systems stop by design (all index files processed, all
requests sent, no more jobs, the process ended). Progress is stated as properties instead.

### Fairness

Weak fairness of each thread: the operating system runs a thread that can run. In the
pool it covers the steps of a worker that has a job and those of `initialize`, but
neither the arrival of jobs nor the order in which the mutex admits waiters: `MutexReleased`
and `StateReset` do not need it. In `InotifyDispatch` it includes the end of a job, so the
API server must answer or the connection break (the code sets `CURLOPT_TIMEOUT` to 0).
In `SttJob` it covers the steps of a worker with a job that is not waiting (`~Waits`): the disk, the
programs, the recogniser and the answer to gearman come to an end. Jobs and disconnections are not
fair, and no answer of the file server is: the idle timeouts of both connections and the connect
timeout of ftps are 0 ("무제한 대기", `vr_server.cc:158`, 224-225) and curl gets none
(`worker.cc:354-388`), so a call may last for ever, and with it every wait for `curl_lock`.
`JobReturns` exempts a worker that stays in one such call, or before the lock while another keeps it;
it shows that nothing else keeps a job: the attempts come to an end, however often the connection is
lost and by whomever, and a lock is given back. Jobs that are bounded in number (`MaxJobs`) cannot
starve a worker at the lock; that `std::mutex` promises no order is left out.
In `InotifySend` the retries are bounded, so weak fairness of a lock attempt is enough: after
finitely many steps of the others the mutex stays free. `AllReturn` shows that.
In `Decode` it covers the loop (`Run`), whose every step calls a library that returns;
calls and the late `SetResetPeriod` are not fair. `VrServer` states safety only.

## 4. What the runs found

Each violation run has an entry under "findings" in PROJECT.json with the lines.

* `m_CurrState` says standby while a worker decodes: workers start before the pool is full.
* A runner may wait for ever for a child that ended before its id was recorded.
* A refused request returns `EXIT_SUCCESS`.
* A job over sftp may wait for ever in `init_sftp`, for a connection that was lost again.

What the models have and no run denies, because no text of the repository promises
otherwise or because it is a single step:

* with `fs_threshold_yn` not set, as in the shipped `env.conf`, the first list ends the
  watcher (`StartThrows`, `UnindexThrows`), and so does an `fs_threshold` that is missing or no
  number;
* when the thread of a line cannot be started, `working_job` stays raised and its entry stays in
  the table of sizes, for ever unless a job on the same recording ends later: the limit and the
  budget shrink for every file. `WorkingJobTruth` and `IndexTruth` name the case (`Leaked`) and
  say that it is the only one;
* with `protocol.use` not set, as in every shipped `env*.conf`, or a protocol that is not known, a
  job that gets a name recognises the bytes of that name, or an empty buffer, and may answer
  success. `OwnResult` names these cases (`Unfetched`) and says that nobody else's recording
  gets in;
* two jobs on recordings of one name at a time work on each other's files (`clash`): the
  properties about files and results are for jobs that met none;
* a reset that is refused at the start of a real-time call is ignored, and frames or text of an
  earlier call get into this one: `OwnSpeech` says which, and where;
* a request goes out without its token if that cannot be appended (`AppendToken`);
* a file server that never answers keeps a worker for ever, and with curl every other job that
  has a URL (`JobReturns` names the calls);
* a `file://` recording is not deleted after its request, because `std::remove` gets the URI;
* a download that succeeds on a retry is answered with the code of a failed one
  (`RetryWorks`; `success = false` behind the loop, `vr_server.cc:680`, 734, 790, 844);
* after a failed recognition the original of a `file://` recording is removed (`RecogniseFails`,
  `vr_server.cc:1327`): `OriginalKept` says that this is the only such step;
* a standard wave downloaded over sftp or ftps stays in `tmp_path`, since `input_file` is never
  assigned in that branch: `CleanSuccess` names the cases; so does any recording of
  a job that fails in `Unsupported`, `LoadPcmFails` or `RecognisePartFails`;
* raw PCM that begins with a sample from -32 to -1 is taken for MPEG, and a tagged MPEG of
  two channels for one (`Disguised`);
* `save_data` reports no failure: a job on text goes on with what it finds (`SaveData`);
* each return of `VRServer::stt` out of the frame loop leaves a child laser behind (`SttFails`),
  and a GPU that could not create one is tried again by the next job, since
  `stt_job_count` stays (`NoChild`);
* two jobs that race for `idGPU` may create a child with another GPU than its master's
  (`raced`): `GpuOfChild` says that this is the only way.

## 5. Proofs

Checked by tlapm for every value of the constants that satisfies the ASSUMEs of the modules:
any number of workers, channels, runners, lines, jobs, recordings and retries.

**RealtimePool.** `PoolAssumption` only says that the sets are finite and the order of
the keys is strict.

* `TypeCorrect`, `NoChannelLost` (`FlaggedIsHeld`) and `CloseIsSafe` (`ClosedIsUnused`) hold without
  further assumptions, failures included. `FlaggedIsHeld` is inductive with the types: a claim
  makes the claimer the holder in the same step, and whoever releases a channel writes 0,
  even while another still decodes on it. `ClosedIsUnused` rests on `ClosingIsAlone`: past
  `join`, every worker has ended.
* `FullPoolIsExclusive`, `FullPoolIsFlagged`, `FullPoolDecodes` and `FullPoolLeases` assume `FullPool`:
  no early job, no failure, and at most as many workers as channels. None of these is
  inductive alone. The invariant `Full` adds that the channels are ready once jobs are
  served (`Filling`, `Serving`) and that a scanning worker has a free channel in front of it
  (`FreeAhead`). When a worker takes the lock there is one by the pigeonhole principle
  (`SomeChannelIsFree`: every flagged channel has a holder, and the other workers are fewer
  than the channels); while it scans, nobody else can claim that channel; so the scan ends
  with a claim only (`NoOtherEnd`), and no worker ever shares.
* `FullPoolLeases` maps each step of the pool to a step or a stutter of `ChannelLease!Safety`.

**InotifyDispatch.** `TypeCorrect`, `CountIsTrue` (`WorkingJobTruth`), `LimitIsExceededByRunners`
(`Overshoot`), `RunnerOutlivesJobs` (`ChildrenFirst`) and `IndexIsTrue` (`IndexTruth`) come from one
invariant, `Inv`, since none is inductive by itself:

* `Control`: where a runner can be with each kind of file, and that the lines behind the
  cursor have not been started. It tells which job a step of a runner is about.
* `Ids`: a running job has a thread id of its own, and the runner knows that id, in its set
  or in `handle`, unless the job ended first. `ChildrenFirst` needs this: the runner leaves
  its loop only when the set is empty.
* `WorkingJobTruth` is about a cardinality (`Outstanding`); each step adds one job to the set,
  removes one, or leaves it, and the counter moves with it.
* `FewAdmitted`: the jobs outstanding or past the wait are fewer than the limit plus the
  runners, because a runner past the wait holds one job only, and whoever passes the wait
  has seen the count below the limit. `Overshoot` follows.
* `Paths` and `Index`: the table has an entry exactly for the URIs of the jobs between
  `EnterIndex` and `Unindex`, and of those whose thread could not be started. As in the property,
  URIs that two lines share are left out.

`BudgetIsBounded` (`BudgetBound`, in `InotifyBudgetProofs`) adds two facts to that invariant. `IndexSized`:
an entry of the table is the size of some line. `Budget`: a runner between `CheckBudget` and
`EnterIndex` has seen a sum below the threshold, and will add at most the largest size; so
what is in the table, with one such size for each runner on its way, stays below the
bound. It is not enough that the sum is bounded: the bound has to be kept while other
runners enter what they have checked earlier. The sum that the code computes counts a file
of unknown size as 2^64 - 1, that is as -1 (`TotalIs`, `Turns`), which is where the byte for
each of them comes from. `Uris` is taken to be finite, as the keys of a `std::map` are.

**InotifySend.** Types, `FinishedOnce`, `LockIsOwned`, `SectionExclusive`, `SentWithToken`.
The invariant follows the lock: the program counter tells which jobs are in `holding`, a
locked mutex has a holder, and until the first foreign unlock there is exactly one.
`SentWithToken` needs that a job between the check of the token and its use is inside the
section, so that no other job can clear it. What it appends is then that token, or nothing.

Two theorems are what `AllReturn` rests on besides fairness. `OwnerNeverWaits`: whenever the
mutex is locked, a job that locked it is past its locks and not waiting for the answer to its
request, so the lock comes free again. `JobsEnd`: `Left`, the steps that are left of a job (those of
the request, 12 for each retry it may still make, and the return of each frame), falls with every
step of the job and with no step of another; it begins at 13 * MaxRetries + 16.

**SttJob.** `TypeCorrect`, `ResultIsOwn` (`OwnResult`), `SuccessIsClean` (`CleanSuccess`) and
`OriginalsSurvive` (`OriginalKept`).

* `Locals` ties `input`, `protocol` and `buffer` to the program counter. With it, `Touched`
  bounds what a step does to the disk: only files under the recording's name in `tmp_path` or
  beside its original are changed, and the original itself by `RecogniseFails` alone.
  `OriginalsSurvive` is a consequence.
* `Alone`: two jobs whose recordings share a name both know it (`clash`). So the files of a
  job that does not clash are left alone by all other workers (`Elsewhere`, `OthersJob`),
  which is what makes a per-worker invariant possible at all.
* `Own` says what such a job has at each point: its recording in the file and behind the
  pointer, then what its branch makes of it, then the texts (`Has`); or nothing, if it fetched
  nothing (`Nothing`), which it carries to its end without picking up anybody's audio. `Tidy` says
  which files it has
  made that are still there, and that it will remove them: at "stt" and behind it, only
  `Kept` ones are left.
* `DecodedExpected` closes the gap from the branch the code takes to what the recording
  is, from `HeaderAssumption` and for recordings that are not `Disguised`; of these the theorem
  still says that nothing but their own audio is recognised.

**VrServer.** `TypeCorrect`, `ChildrenHaveOneOwner` (`ChildFate`), `ChildOnItsGpu`, `NothingUnloadedInUse`
(`UnloadLast`) and `TextsAreOwn` (`OwnText`). The invariant follows the stages of `main`: what
exists of the module at each stage, that no thread is anywhere before `run` or after
`join`, and that a thread is on its way to a child only inside a job. Owners are
distinct, and `Free` gives a number nobody has, since the children are fewer than the
candidates (pigeonhole). The bound on `stt_job_count` holds in spite of lost increments:
every increment belongs to a job that was taken. For the texts, a file under a handle that
does not clash holds the payload from `SaveData` until the thread reads it.

**Decode.** `TypeCorrect`, `SpeechIsOwn` (`OwnSpeech`), `TextIsInTime` (`InTime`) and
`TranscriptIsKept`, for every length of recording, chunk, stack, silence and reset period,
and whatever the front end gives or fails on. The invariant (`Inv`) follows the frames:

* `Control`: before its first batch a call has counted, heard and said nothing.
* `Order`: the front end has been given the first `Upto` frames of the recording, and the
  frames that are heard, those in the batch and those still in the front end are in order, one
  group behind the other, and of this call, but for the `left` frames that a front end has kept
  through a refused reset: these come before all others. So a chunk that the front end loses is
  harmless, and no other frame of an earlier call can come in.
* `Heard`: what is heard is what has been said and what the decoder holds; behind a
  result, and at the end, all of it has been said.
* `Counted`: the speech the decoder holds is at most `index`, which counts copies, too, but no
  silence of failed results. With `Heard` it shows that a
  last result that is left out for `index` = 0 leaves out nothing.
* `Whole` and `Room`: only the first batch has copies, and there are never more frames than
  have been read, the stack and the `left` frames of the front end. With `Counted`, `Room` bounds
  `index` (`Bounded`), also where
  results fail and the count goes on without a reset.
* `Once`: what a decoder has kept is said with the first piece of the call, and no later one.
* `Pace`: `index`, added to `last_position`, is ahead of the speech by no more
  than the stack and one silence for each piece. `InTime` alone is not inductive: a new
  piece ends where `index` says, so the invariant has to tell how much that can be.

`TranscriptIsKept` maps each step to a step or a stutter of `Transcript!Safety`.

`CallEnds` gives the reason why every call ends, which the fairness part of `TranscriptSpec` asks
for: `Left`, the steps that are left of a call (`Rank` within a round, and 8 for each frame that
has not been read), falls with every step of the call's thread, is left alone by the other one,
and is at most 8 * len + 7. So neither an empty batch nor a result that fails makes the loops go round
without reading on. Only that a thread which can go on does go on is left to the runs.

**Sums and flattened sequences.** `FlattenSeq` and `SumFunctionOnSet` are recursive
functions of the community modules, defined by CHOOSE. `FoldLemmas` shows that the functions
exist (`FlatPrefix`, `SumPrefix`, piece by piece), that CHOOSE therefore picks one that obeys
its equation, and from that what the proofs need: the type, one item more (`FlattenAppend`,
`SumChange`), two parts (`FlattenConcat`, `SumSplit`). Induction is stated on sets (`Induct`: a
set of numbers with 0 and the next of each of its members is Nat; `SeqInduct`: the same for
sequences), which comes from the well-foundedness of < without an operator as a parameter.
`Decode` defines the speech among frames by `FlattenSeq`, so that the lemmas apply to it.

### Only model-checked

Every liveness property (`MutexReleased`, `StateReset`, `DrainEnds`, `AllReturn`, `JobReturns`) and
the fairness part of the refinements (`LeaseSpec`, `TranscriptSpec`): TLAPS proves none under
fairness. Every invariant that a passing run checks is a theorem, and for `Decode` and
`InotifySend` so is the descent that a fair thread completes (`CallEnds`, `JobsEnd`).

## 6. Not modelled

* **Vendored code.** Most of the lines of `src/` are headers and archives of chilkat, kaldi
  (with OpenFst), the laser decoder and the front end: third-party interfaces without a
  body to translate. The models have what the program's own code can observe of them.
  This is why the map covers a small share of all lines, while it covers the programs of
  `src/src/vr`, `src/src/worker` and `src/src/inotify` but for the parts below.
* **Configuration** (`common/configuration.cc`): parsing of the command line and of a file, in
  one thread, at the start. What a missing option does is part of the modules that read it.
* **REST controller** (`vr/restapi.cc`): its start is commented out (`vr_server.cc:407-409`), so
  that none of it runs. **System information** (`common/system_info.cc`) serves only it.
* Inside modelled components: the text of a result and its times of day, logging, the
  conversion of `fs_threshold` to bytes (an int product that overflows from 2048 MB on,
  `inotify.cc:1407`), headers that are cut short (`size -= 22` at `vr_server.cc:1105` would wrap),
  `stt.gpu_num` above 2, the corruption of containers by data races, and how many threads
  `Lat2cnWordNbestOutInit` is told of (`vr_server.cc:411`), whose effect is inside the vendor
  library.

## 7. Plan

Done: every component that the programs run, with proofs for all of them. Left, none of
it urgent:

* Liveness of `VrServer`: `join` returns only if every thread could not register, so
  there is little to say before `WorkerDaemon::stop` has a caller.
* `Decode` with the speech text itself, should `getIntermediateResult` be compiled in again.
