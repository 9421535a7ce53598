------------------------------ MODULE PostJobs ------------------------------
(* Post jobs of one backend process with the in-memory job repository: the   *)
(* /api/posts requests (each its own server thread), the dispatch queue with *)
(* its timers and single worker, the executor with one upload thread per     *)
(* account, the network call each of them waits for, and the temporary media *)
(* files.  A step is one critical section of the job store, or one read or   *)
(* write of a record that the code makes outside of it.                      *)
EXTENDS JobStore

CONSTANTS Requests,   \* requests clients will make, each once
          Ops,        \* the kinds of request they may be
          Whens,      \* what scheduled_at of a created job may be
          Targets,    \* the accounts each job is for
          MaxInFlight,\* how many requests may be in progress at once
          MaxRuns,    \* bound: executor runs started
          Stalls,     \* whether an upload may stall outside of its own timeout
          NoJob,      \* the job of a request or worker that has none
          NoAccount   \* the account of a worker that handles none

ASSUME OpsAssumption ==
  Ops \subseteq {"create", "stop", "pause", "resume", "retry", "delete"}
ASSUME WhensAssumption == Whens \subseteq {"now", "past", "future", "invalid"}
ASSUME TargetsAssumption == Targets \in [Jobs -> SUBSET Accounts]
ASSUME BoundsAssumption == MaxRuns \in Nat /\ MaxInFlight \in Nat
ASSUME StallsAssumption == Stalls \in BOOLEAN
ASSUME NoneAssumption == NoJob \notin Jobs /\ NoAccount \notin Accounts

Runs == 1..MaxRuns

VARIABLES req,       \* the request threads
          queue,     \* PostJobQueue._queue
          timers,    \* jobs a threading.Timer will enqueue
          worker,    \* the worker thread
          runs,      \* runs started so far
          runJob,    \* the job of each run
          held,      \* runs in which a thread has waited for the end of a pause
          thr,       \* the upload thread of each run and account
          files,     \* jobs whose media files are on disk
          posted,    \* posts Instagram published, per job and account
          stopAsked  \* history: a stop was accepted since the last accepted retry

poolVars == <<runs, runJob, held, thr, posted>>
vars == <<storeVars, req, queue, timers, worker, poolVars, files, stopAsked>>

FirstView == [a \in Accounts |-> 1]
Asks(op, j, at) == [at |-> at, op |-> op, job |-> j, evt |-> 0,
                    seen |-> "live", when |-> "now", view |-> FirstView]
NoRequest == Asks("create", NoJob, "new")
Finished == Asks("create", NoJob, "done")
WorksOn(j, at) == [at |-> at, job |-> j, todo |-> {}, acct |-> NoAccount,
                   status |-> "pending", when |-> "now", view |-> FirstView]
IdleWorker == WorksOn(NoJob, "idle")
NoThread == [at |-> "none", evt |-> 0, net |-> "none"]

Init ==
  /\ StoreInit
  /\ req = [q \in Requests |-> NoRequest]
  /\ queue = <<>>
  /\ timers = {}
  /\ worker = IdleWorker
  /\ runs = 0
  /\ runJob = [r \in Runs |-> NoJob]
  /\ held = {}
  /\ thr = [r \in Runs |-> [a \in Accounts |-> NoThread]]
  /\ files = {}
  /\ posted = [j \in Jobs |-> [a \in Accounts |-> 0]]
  /\ stopAsked = {}

-----------------------------------------------------------------------------
(* Requests.  A handler keeps the record (a live dict) it read at its start. *)
(* When the repository replaces or drops that record, the handler is left    *)
(* with the dict as it was then: "seen" is "live", or the status it froze at.*)

Orphan(rq, j) ==
  [q \in Requests |->
     IF rq[q].job = j /\ rq[q].op = "stop" /\ rq[q].seen = "live"
     THEN [rq[q] EXCEPT !.seen = status[j]] ELSE rq[q]]

Goto(q, at) == [req EXCEPT ![q].at = at]
Begin(q, op, j, at) ==
  /\ op \in Ops
  /\ req[q].at = "new"
  /\ Cardinality({p \in Requests : req[p].at \notin {"new", "done"}}) < MaxInFlight
  /\ req' = [req EXCEPT ![q] = Asks(op, j, at)]
At(q, at) == req[q].at = at

\* create_post, create_post_job: only a job due later gets a timer
CreatePost(q, j, w) ==
  /\ status[j] = "none"
  /\ Begin(q, "create", j, IF w = "future" THEN "set_read" ELSE "enqueue")
  /\ PutJob(j, IF w = "now" THEN "pending" ELSE "scheduled", w, view[j])
  /\ files' = files \cup {j}
  /\ UNCHANGED <<queue, timers, worker, poolVars, stopAsked>>

StopRead(q, j) ==
  /\ status[j] \in Stoppable
  /\ Begin(q, "stop", j, "stop_flag")
  /\ UNCHANGED <<storeVars, queue, timers, worker, poolVars, files, stopAsked>>

PauseRead(q, j) ==
  /\ status[j] = "running"
  /\ Begin(q, "pause", j, "pause")
  /\ UNCHANGED <<storeVars, queue, timers, worker, poolVars, files, stopAsked>>

ResumeRead(q, j) ==
  /\ status[j] = "paused"
  /\ Begin(q, "resume", j, "resume")
  /\ UNCHANGED <<storeVars, queue, timers, worker, poolVars, files, stopAsked>>

\* retry_post_job clears the control state before it knows the job's status
RetryClear(q, j) ==
  /\ status[j] # "none"
  /\ Begin(q, "retry", j, "retry_read")
  /\ ClearControl(j)
  /\ UNCHANGED <<queue, timers, worker, poolVars, files, stopAsked>>

DeleteRead(q, j) ==
  /\ Exists(j)
  /\ status[j] \notin Active
  /\ Begin(q, "delete", j, "delete")
  /\ UNCHANGED <<storeVars, queue, timers, worker, poolVars, files, stopAsked>>

StopFlag(q) ==
  LET j == req[q].job IN
  /\ At(q, "stop_flag")
  /\ RaiseStopFlag(j)
  /\ req' = [req EXCEPT ![q].evt = pauseEvt[j],
                        ![q].at = IF pauseEvt[j] = 0 THEN "stop_check" ELSE "set_event"]
  /\ stopAsked' = stopAsked \cup {j}
  /\ UNCHANGED <<queue, timers, worker, poolVars, files>>

\* Threads blocked on the Event are released, even if it is cleared right after.
SetPauseEvent(q) ==
  LET e == req[q].evt IN
  /\ At(q, "set_event")
  /\ SetEvent(e)
  /\ thr' = [r \in Runs |-> [a \in Accounts |->
               IF thr[r][a].at = "blocked" /\ thr[r][a].evt = e
               THEN [thr[r][a] EXCEPT !.at = "stop_check", !.evt = 0] ELSE thr[r][a]]]
  /\ req' = [req EXCEPT ![q].evt = 0,
                        ![q].at = IF req[q].op = "stop" THEN "stop_check" ELSE "set_read"]
  /\ UNCHANGED <<queue, timers, worker, runs, runJob, held, posted, files, stopAsked>>

StopCheck(q) ==
  LET j == req[q].job
      s == IF req[q].seen = "live" THEN status[j] ELSE req[q].seen IN
  /\ At(q, "stop_check")
  /\ req' = IF s \in {"pending", "scheduled", "paused"} THEN Goto(q, "set_read")
            ELSE [req EXCEPT ![q] = Finished]
  /\ UNCHANGED <<storeVars, queue, timers, worker, poolVars, files, stopAsked>>

Pause(q) ==
  /\ At(q, "pause")
  /\ RequestPause(req[q].job)
  /\ req' = Goto(q, "set_read")
  /\ UNCHANGED <<queue, timers, worker, poolVars, files, stopAsked>>

Resume(q) ==
  LET e == pauseEvt[req[q].job] IN
  /\ At(q, "resume")
  /\ req' = [req EXCEPT ![q].evt = e,
                        ![q].at = IF e = 0 THEN "set_read" ELSE "set_event"]
  /\ UNCHANGED <<storeVars, queue, timers, worker, poolVars, files, stopAsked>>

\* PostJobControlAdapter.set_job_status: read the record ...
\* (a missing job ends the request, except that enqueue only logs the error)
SetStatusRead(q) ==
  LET j == req[q].job IN
  /\ At(q, "set_read")
  /\ req' = IF Exists(j) THEN [req EXCEPT ![q].at = "set_write", ![q].when = when[j],
                                            ![q].view = view[j]]
            ELSE IF req[q].op = "create" THEN Goto(q, "timer")
            ELSE [req EXCEPT ![q] = Finished]
  /\ UNCHANGED <<storeVars, queue, timers, worker, poolVars, files, stopAsked>>

\* Faulty variant: a status no reader of the record knows.
StatusOfMisnamed(op) == CASE op = "create" -> "scheduled"
                          [] op = "stop"   -> "stopped"
                          [] op = "pause"  -> "paused"
                          [] OTHER         -> "resumed"

\* the remaining request that sets a status is a resume
StatusOf(op) == CASE op = "create" -> "scheduled"
                  [] op = "stop"   -> "stopped"
                  [] op = "pause"  -> "paused"
                  [] OTHER         -> "running"

\* ... and install it again with the new status
SetStatusWrite(q) ==
  LET j == req[q].job IN
  /\ At(q, "set_write")
  /\ PutJob(j, StatusOf(req[q].op), req[q].when, req[q].view)
  /\ req' = Orphan(IF req[q].op = "create" THEN Goto(q, "timer")
                   ELSE [req EXCEPT ![q] = Finished], j)
  /\ UNCHANGED <<queue, timers, worker, poolVars, files, stopAsked>>

AddTimer(q) ==
  /\ At(q, "timer")
  /\ timers' = timers \cup {req[q].job}
  /\ req' = [req EXCEPT ![q] = Finished]
  /\ UNCHANGED <<storeVars, queue, worker, poolVars, files, stopAsked>>

Enqueue(q) ==
  /\ At(q, "enqueue")
  /\ queue' = Append(queue, req[q].job)
  /\ req' = [req EXCEPT ![q] = Finished]
  /\ UNCHANGED <<storeVars, timers, worker, poolVars, files, stopAsked>>

RetryRead(q) ==
  LET j == req[q].job IN
  /\ At(q, "retry_read")
  /\ req' = IF status[j] \in Retryable
            THEN [req EXCEPT ![q].at = "retry_write", ![q].view = view[j]]
            ELSE [req EXCEPT ![q] = Finished]
  /\ UNCHANGED <<storeVars, queue, timers, worker, poolVars, files, stopAsked>>

\* Faulty variant: the job is reset but never queued again.
RetryWriteNoEnqueue(q) ==
  LET j == req[q].job IN
  /\ At(q, "retry_write")
  /\ PutJob(j, "pending", "now", req[q].view)
  /\ req' = Orphan([req EXCEPT ![q] = Finished], j)
  /\ stopAsked' = stopAsked \ {j}
  /\ UNCHANGED <<queue, timers, worker, poolVars, files>>

\* A reset result is a new dict; a kept one stays shared with the old record.
\* The new record has no scheduled_at.
RetryWrite(q) ==
  LET j == req[q].job
      old == req[q].view
      Reset(a) == cells[j][a][old[a]] \in ResetByRetry IN
  /\ At(q, "retry_write")
  /\ cells' = [cells EXCEPT ![j] = [a \in Accounts |->
                 IF Reset(a) THEN Append(cells[j][a], "pending") ELSE cells[j][a]]]
  /\ view' = [view EXCEPT ![j] = [a \in Accounts |->
                 IF Reset(a) THEN Len(cells[j][a]) + 1 ELSE old[a]]]
  /\ status' = [status EXCEPT ![j] = "pending"]
  /\ when' = [when EXCEPT ![j] = "now"]
  /\ req' = Orphan(Goto(q, "enqueue"), j)
  /\ stopAsked' = stopAsked \ {j}
  /\ UNCHANGED <<controlVars, queue, timers, worker, poolVars, files>>

Delete(q) ==
  LET j == req[q].job IN
  /\ At(q, "delete")
  /\ DeleteJob(j)
  /\ req' = Orphan([req EXCEPT ![q] = Finished], j)
  /\ stopAsked' = stopAsked \ {j}
  /\ UNCHANGED <<queue, timers, worker, poolVars, files>>

-----------------------------------------------------------------------------
(* Timers and the worker: take an item, decide whether the job may run, run  *)
(* it (PostJobExecutor.run), then copy its record back into the repository   *)
(* (_run_and_sync_job).  A missing job raises KeyError wherever the code     *)
(* looks it up.                                                              *)

\* Faulty variant: the timer drops the job.
EnqueueDueJobDropped(j) ==
  /\ j \in timers
  /\ timers' = timers \ {j}
  /\ UNCHANGED <<storeVars, req, queue, worker, poolVars, files, stopAsked>>

EnqueueDueJob(j) ==
  /\ j \in timers
  /\ timers' = timers \ {j}
  /\ queue' = Append(queue, j)
  /\ UNCHANGED <<storeVars, req, worker, poolVars, files, stopAsked>>

WAt(at) == worker.at = at
WGoto(at) == worker' = [worker EXCEPT !.at = at]

TakeItem ==
  /\ WAt("idle") /\ queue # <<>>
  /\ worker' = WorksOn(Head(queue), "check")
  /\ queue' = Tail(queue)
  /\ UNCHANGED <<storeVars, req, timers, poolVars, files, stopAsked>>

\* _is_runnable_before_run
CheckRunnable ==
  LET s == status[worker.job] IN
  /\ WAt("check")
  /\ worker' = IF s = "stopped" THEN [worker EXCEPT !.at = "skip_clear"]
               ELSE IF s \in Runnable THEN [worker EXCEPT !.at = "run"]
               ELSE IdleWorker
  /\ UNCHANGED <<storeVars, req, queue, timers, poolVars, files, stopAsked>>

SkipClear ==
  /\ WAt("skip_clear")
  /\ ClearControl(worker.job)
  /\ worker' = IdleWorker
  /\ UNCHANGED <<req, queue, timers, poolVars, files, stopAsked>>

\* PostJobExecutor.run, up to the first write.  A job can be "scheduled" without
\* a scheduled_at: mark_scheduled races with a retry.
RunRead ==
  LET s == status[worker.job]
      w == when[worker.job] IN
  /\ WAt("run")
  /\ worker' = IF s = "stopped" THEN [worker EXCEPT !.at = "run_clear"]
               ELSE IF s \notin Runnable THEN [worker EXCEPT !.at = "sync_read"]
               ELSE IF s = "scheduled" /\ w \in {"now", "invalid"}
               THEN [worker EXCEPT !.at = "invalid", !.view = view[worker.job]]
               ELSE [worker EXCEPT !.at = "set_running"]
  /\ UNCHANGED <<storeVars, req, queue, timers, poolVars, files, stopAsked>>

RunClear ==
  /\ WAt("run_clear")
  /\ ClearControl(worker.job)
  /\ WGoto("sync_read")
  /\ UNCHANGED <<req, queue, timers, poolVars, files, stopAsked>>

\* _set_job_non_runnable for an unparsable schedule: the status, then the
\* results that were no success in the record read, then the control state
InvalidStatus ==
  LET j == worker.job IN
  /\ WAt("invalid")
  /\ IF Exists(j)
     THEN /\ SetJobStatus(j, "failed")
          /\ worker' = [worker EXCEPT !.at = "invalid_results", !.todo = Targets[j]]
     ELSE WGoto("sync_read") /\ UNCHANGED storeVars
  /\ UNCHANGED <<req, queue, timers, poolVars, files, stopAsked>>

InvalidResult ==
  LET j == worker.job IN
  /\ WAt("invalid_results")
  /\ IF worker.todo = {} THEN WGoto("run_clear") /\ UNCHANGED storeVars
     ELSE \E a \in worker.todo :
            LET kept == cells[j][a][worker.view[a]] = "success" IN
            /\ IF kept \/ Exists(j) THEN worker' = [worker EXCEPT !.todo = @ \ {a}]
               ELSE WGoto("sync_read")
            /\ IF Exists(j) /\ ~kept THEN UpdateResult(j, a, "failed")
               ELSE UNCHANGED storeVars
  /\ UNCHANGED <<req, queue, timers, poolVars, files, stopAsked>>

SetRunning ==
  /\ WAt("set_running")
  /\ IF Exists(worker.job) THEN SetJobStatus(worker.job, "running") /\ WGoto("spawn")
     ELSE WGoto("sync_read") /\ UNCHANGED storeVars
  /\ UNCHANGED <<req, queue, timers, poolVars, files, stopAsked>>

\* One upload thread per result, whatever the result says.
Spawn ==
  LET j == worker.job
      r == runs + 1 IN
  /\ WAt("spawn") /\ Targets[j] # {} /\ runs < MaxRuns
  /\ runs' = r
  /\ runJob' = [runJob EXCEPT ![r] = j]
  /\ thr' = [thr EXCEPT ![r] = [a \in Accounts |->
               IF a \in Targets[j] THEN [NoThread EXCEPT !.at = "start"] ELSE NoThread]]
  /\ WGoto("wait")
  /\ UNCHANGED <<storeVars, req, queue, timers, held, posted, files, stopAsked>>

NoAccounts ==
  /\ WAt("spawn") /\ Targets[worker.job] = {}
  /\ IF Exists(worker.job) THEN SetJobStatus(worker.job, "completed") /\ WGoto("empty")
     ELSE WGoto("except") /\ UNCHANGED storeVars
  /\ UNCHANGED <<req, queue, timers, poolVars, files, stopAsked>>

NoAccountsClear ==
  /\ WAt("empty")
  /\ ClearControl(worker.job)
  /\ WGoto("cleanup")
  /\ UNCHANGED <<req, queue, timers, poolVars, files, stopAsked>>

\* Faulty variant: only uploads in progress are waited for.
UnfinishedUploads == {a \in Accounts : thr[runs][a].at = "uploading"}

Unfinished == {a \in Accounts : thr[runs][a].at \notin {"none", "done"}}

UploadsDone ==
  /\ WAt("wait") /\ Unfinished = {}
  /\ WGoto("tally")
  /\ UNCHANGED <<storeVars, req, queue, timers, poolVars, files, stopAsked>>

\* wait_futures times out.  An upload has its own, shorter timeout, so this
\* takes a thread that waited out a pause first, or a stall around the upload.
OuterDeadline ==
  /\ WAt("wait") /\ Unfinished # {}
  /\ Stalls \/ runs \in held
  /\ worker' = [worker EXCEPT !.at = "stalled", !.todo = Unfinished]
  /\ UNCHANGED <<storeVars, req, queue, timers, poolVars, files, stopAsked>>

\* get_result_status of one of the threads not done ...
StalledRead ==
  LET j == worker.job IN
  /\ WAt("stalled")
  /\ IF worker.todo = {} THEN WGoto("tally")
     ELSE IF ~Exists(j) THEN WGoto("except")
     ELSE \E a \in worker.todo :
            worker' = IF Result(j, a) \in Settled THEN [worker EXCEPT !.todo = @ \ {a}]
                      ELSE [worker EXCEPT !.at = "stalled_write", !.acct = a]
  /\ UNCHANGED <<storeVars, req, queue, timers, poolVars, files, stopAsked>>

\* ... and, in another critical section, the worker_stall result
StalledWrite ==
  LET j == worker.job
      a == worker.acct IN
  /\ WAt("stalled_write")
  /\ IF Exists(j)
     THEN /\ UpdateResult(j, a, "failed")
          /\ worker' = [worker EXCEPT !.at = "stalled", !.todo = @ \ {a}]
     ELSE WGoto("except") /\ UNCHANGED storeVars
  /\ UNCHANGED <<req, queue, timers, poolVars, files, stopAsked>>

TallyResults ==
  LET j == worker.job IN
  /\ WAt("tally")
  /\ worker' = IF Exists(j)
               THEN [worker EXCEPT !.at = "clear", !.todo = {},
                       !.status = FinalStatus(Tally(Results(j), Targets[j]))]
               ELSE [worker EXCEPT !.at = "except", !.todo = {}]
  /\ UNCHANGED <<storeVars, req, queue, timers, poolVars, files, stopAsked>>

Clear ==
  /\ WAt("clear")
  /\ ClearControl(worker.job)
  /\ WGoto("set_final")
  /\ UNCHANGED <<req, queue, timers, poolVars, files, stopAsked>>

SetFinal ==
  /\ WAt("set_final")
  /\ IF Exists(worker.job) THEN SetJobStatus(worker.job, worker.status) /\ WGoto("cleanup")
     ELSE WGoto("except") /\ UNCHANGED storeVars
  /\ UNCHANGED <<req, queue, timers, poolVars, files, stopAsked>>

ExceptClear ==
  /\ WAt("except")
  /\ ClearControl(worker.job)
  /\ WGoto("set_failed")
  /\ UNCHANGED <<req, queue, timers, poolVars, files, stopAsked>>

ExceptSetFailed ==
  /\ WAt("set_failed")
  /\ IF Exists(worker.job) THEN SetJobStatus(worker.job, "failed") ELSE UNCHANGED storeVars
  /\ WGoto("cleanup")
  /\ UNCHANGED <<req, queue, timers, poolVars, files, stopAsked>>

\* Faulty variant: the files of a failed or partial job are kept for its retry.
CleanupOnSuccess ==
  /\ WAt("cleanup")
  /\ files' = IF status[worker.job] = "completed" THEN files \ {worker.job} ELSE files
  /\ WGoto("sync_read")
  /\ UNCHANGED <<storeVars, req, queue, timers, poolVars, stopAsked>>

\* _cleanup_temp_files
Cleanup ==
  /\ WAt("cleanup")
  /\ files' = files \ {worker.job}
  /\ WGoto("sync_read")
  /\ UNCHANGED <<storeVars, req, queue, timers, poolVars, stopAsked>>

SyncRead ==
  LET j == worker.job IN
  /\ WAt("sync_read")
  /\ worker' = IF Exists(j)
               THEN [worker EXCEPT !.at = "sync_write", !.todo = {},
                                   !.status = status[j], !.when = when[j],
                                   !.view = view[j]]
               ELSE IdleWorker
  /\ UNCHANGED <<storeVars, req, queue, timers, poolVars, files, stopAsked>>

SyncWrite ==
  /\ WAt("sync_write")
  /\ PutJob(worker.job, worker.status, worker.when, worker.view)
  /\ req' = Orphan(req, worker.job)
  /\ worker' = IdleWorker
  /\ UNCHANGED <<queue, timers, poolVars, files, stopAsked>>

-----------------------------------------------------------------------------
(* Upload threads: _upload_one(r, a), and the dispatch thread it waits for.  *)
(* A thread that meets a missing job dies of the KeyError.                   *)

TAt(r, a, at) == thr[r][a].at = at
Becomes(r, a, t) == thr' = [thr EXCEPT ![r][a] = t]
TGoto(r, a, at) == Becomes(r, a, [thr[r][a] EXCEPT !.at = at])
TDone(r, a) == Becomes(r, a, [thr[r][a] EXCEPT !.at = "done", !.evt = 0])
TNet(r, a, n) == Becomes(r, a, [thr[r][a] EXCEPT !.net = n])
ThreadOnly == UNCHANGED <<req, queue, timers, worker, runs, runJob, files, stopAsked>>

\* update_result by a thread, unless the job is gone
Write(r, a, s) ==
  IF Exists(runJob[r]) THEN UpdateResult(runJob[r], a, s) ELSE UNCHANGED storeVars

FirstStopCheck(r, a) ==
  /\ TAt(r, a, "start")
  /\ TGoto(r, a, IF stopFlag[runJob[r]] THEN "skip" ELSE "pause_check")
  /\ UNCHANGED <<storeVars, held, posted>> /\ ThreadOnly

\* wait_if_paused: take the Event under the lock ...
PauseCheck(r, a) ==
  LET e == pauseEvt[runJob[r]] IN
  /\ TAt(r, a, "pause_check")
  /\ Becomes(r, a, [thr[r][a] EXCEPT !.at = IF e = 0 THEN "stop_check" ELSE "event",
                                     !.evt = e])
  /\ UNCHANGED <<storeVars, held, posted>> /\ ThreadOnly

\* ... and wait for it outside
TestEvent(r, a) ==
  /\ TAt(r, a, "event")
  /\ IF evtSet[thr[r][a].evt]
     THEN /\ Becomes(r, a, [thr[r][a] EXCEPT !.at = "stop_check", !.evt = 0])
          /\ UNCHANGED held
     ELSE /\ TGoto(r, a, "blocked")
          /\ held' = held \cup {r}
  /\ UNCHANGED <<storeVars, posted>> /\ ThreadOnly

\* Faulty variant: the flag is not read again after the pause.
SecondStopCheckDropped(r, a) ==
  /\ TAt(r, a, "stop_check")
  /\ TGoto(r, a, "preflight")
  /\ UNCHANGED <<storeVars, held, posted>> /\ ThreadOnly

SecondStopCheck(r, a) ==
  /\ TAt(r, a, "stop_check")
  /\ TGoto(r, a, IF stopFlag[runJob[r]] THEN "skip" ELSE "preflight")
  /\ UNCHANGED <<storeVars, held, posted>> /\ ThreadOnly

Skip(r, a) ==
  /\ TAt(r, a, "skip")
  /\ Write(r, a, "skipped")
  /\ TDone(r, a)
  /\ UNCHANGED <<held, posted>> /\ ThreadOnly

\* The circuit is open, or the account has no logged-in client.
Reject(r, a) ==
  /\ TAt(r, a, "preflight")
  /\ TGoto(r, a, "failed")
  /\ UNCHANGED <<storeVars, held, posted>> /\ ThreadOnly

MarkUploading(r, a) ==
  /\ TAt(r, a, "preflight")
  /\ Write(r, a, "uploading")
  /\ IF Exists(runJob[r])
     THEN Becomes(r, a, [thr[r][a] EXCEPT !.at = "uploading", !.net = "queued"])
     ELSE TDone(r, a)
  /\ UNCHANGED <<held, posted>> /\ ThreadOnly

\* Faulty variant: an upload that ran out of time counts as done.
CollectTimeoutAsSuccess(r, a) ==
  /\ TAt(r, a, "uploading")
  /\ \/ thr[r][a].net \in {"ok", "sending"} /\ TGoto(r, a, "success")
     \/ thr[r][a].net = "err" /\ TGoto(r, a, "failed")
  /\ UNCHANGED <<storeVars, held, posted>> /\ ThreadOnly

\* The outcome of Future.result(): a value, an exception, or a timeout
Collect(r, a) ==
  /\ TAt(r, a, "uploading")
  /\ \/ thr[r][a].net = "ok"  /\ TGoto(r, a, "success")
     \/ thr[r][a].net = "err" /\ TGoto(r, a, "failed")
     \/ thr[r][a].net = "sending" /\ TGoto(r, a, "failed")
  /\ UNCHANGED <<storeVars, held, posted>> /\ ThreadOnly

Report(r, a) ==
  /\ thr[r][a].at \in {"success", "failed"}
  /\ Write(r, a, thr[r][a].at)
  /\ TDone(r, a)
  /\ UNCHANGED <<held, posted>> /\ ThreadOnly

\* The dispatch thread opens the media files ...
OpenMedia(r, a) ==
  /\ thr[r][a].net = "queued"
  /\ TNet(r, a, IF runJob[r] \in files THEN "sending" ELSE "err")
  /\ UNCHANGED <<storeVars, held, posted>> /\ ThreadOnly

\* ... and sends them, also when nobody waits for it any more.  The post may be
\* published and the answer lost.
Publish(r, a) ==
  /\ thr[r][a].net = "sending"
  /\ TNet(r, a, "ok") \/ TNet(r, a, "err")
  /\ posted' = [posted EXCEPT ![runJob[r]][a] = @ + 1]
  /\ UNCHANGED <<storeVars, held>> /\ ThreadOnly

Refuse(r, a) ==
  /\ thr[r][a].net = "sending"
  /\ TNet(r, a, "err")
  /\ UNCHANGED <<storeVars, held, posted>> /\ ThreadOnly

-----------------------------------------------------------------------------
Arrive(q, j) ==
  \/ \E w \in Whens : CreatePost(q, j, w)
  \/ StopRead(q, j)
  \/ PauseRead(q, j)
  \/ ResumeRead(q, j)
  \/ RetryClear(q, j)
  \/ DeleteRead(q, j)

Handle(q) ==
  \/ StopFlag(q) \/ SetPauseEvent(q) \/ StopCheck(q) \/ Pause(q) \/ Resume(q)
  \/ SetStatusRead(q) \/ SetStatusWrite(q) \/ AddTimer(q) \/ Enqueue(q)
  \/ RetryRead(q) \/ RetryWrite(q) \/ Delete(q)

RunOnce ==
  \/ TakeItem \/ CheckRunnable \/ SkipClear \/ RunRead \/ RunClear
  \/ InvalidStatus \/ InvalidResult \/ SetRunning \/ Spawn \/ NoAccounts
  \/ NoAccountsClear \/ UploadsDone \/ OuterDeadline \/ StalledRead \/ StalledWrite
  \/ TallyResults \/ Clear \/ SetFinal \/ ExceptClear \/ ExceptSetFailed
  \/ Cleanup \/ SyncRead \/ SyncWrite

Upload(r, a) ==
  \/ FirstStopCheck(r, a) \/ PauseCheck(r, a) \/ TestEvent(r, a)
  \/ SecondStopCheck(r, a) \/ Skip(r, a) \/ Reject(r, a) \/ MarkUploading(r, a)
  \/ Collect(r, a) \/ Report(r, a)

Dispatch(r, a) == OpenMedia(r, a) \/ Publish(r, a) \/ Refuse(r, a)

\* Nothing is under way: the server waits for the next request.
Quiet ==
  /\ \A q \in Requests : req[q].at \in {"new", "done"}
  /\ queue = <<>> /\ timers = {} /\ WAt("idle")
  /\ \A r \in Runs, a \in Accounts :
       /\ thr[r][a].at \in {"none", "done"}
       /\ thr[r][a].net \notin {"queued", "sending"}
WaitForRequest == Quiet /\ UNCHANGED vars

Next ==
  \/ \E q \in Requests : Handle(q) \/ \E j \in Jobs : Arrive(q, j)
  \/ \E j \in Jobs : EnqueueDueJob(j)
  \/ RunOnce
  \/ \E r \in Runs, a \in Accounts : Upload(r, a) \/ Dispatch(r, a)
  \/ WaitForRequest

Spec == Init /\ [][Next]_vars

\* Every thread keeps running and every timer fires.  Nothing obliges a client
\* to make a request.
Fairness ==
  /\ \A q \in Requests : WF_vars(Handle(q))
  /\ \A j \in Jobs : WF_vars(EnqueueDueJob(j))
  /\ WF_vars(RunOnce)
  /\ \A r \in Runs, a \in Accounts : WF_vars(Upload(r, a)) /\ WF_vars(Dispatch(r, a))

FairSpec == Spec /\ Fairness

-----------------------------------------------------------------------------
RequestAt == {"new", "done", "stop_flag", "stop_check", "set_event", "pause",
              "resume", "set_read", "set_write", "timer", "enqueue",
              "retry_read", "retry_write", "delete"}
WorkerAt == {"idle", "check", "skip_clear", "run", "run_clear", "invalid",
             "invalid_results", "set_running", "spawn", "empty", "wait", "stalled",
             "stalled_write", "tally", "clear", "set_final", "except", "set_failed",
             "cleanup", "sync_read", "sync_write"}
ThreadAt == {"none", "start", "pause_check", "event", "blocked", "stop_check",
             "skip", "preflight", "uploading", "success", "failed", "done"}
NetAt == {"none", "queued", "sending", "ok", "err"}
AllOps == {"create", "stop", "pause", "resume", "retry", "delete"}
Due == {"now", "past", "future", "invalid"}
Views == [Accounts -> Nat \ {0}]
Request == [at : RequestAt, op : AllOps, job : Jobs \cup {NoJob}, evt : Nat,
            seen : JobStatus \cup {"live", "none", "deleted"}, when : Due, view : Views]
Worker == [at : WorkerAt, job : Jobs \cup {NoJob}, todo : SUBSET Accounts,
           acct : Accounts \cup {NoAccount}, status : JobStatus, when : Due, view : Views]
Thread == [at : ThreadAt, evt : Nat, net : NetAt]

\* Type invariant: every variable stays in the range its declaration states, so
\* that no interleaving leaves a malformed record behind.
TypeOK ==
  /\ status \in [Jobs -> JobStatus \cup {"none", "deleted"}]
  /\ when \in [Jobs -> Due]
  /\ view \in [Jobs -> Views]
  /\ cells \in [Jobs -> [Accounts -> Seq(ResultStatus)]]
  /\ stopFlag \in [Jobs -> BOOLEAN]
  /\ pauseEvt \in [Jobs -> Nat]
  /\ evtSet \in Seq(BOOLEAN)
  /\ req \in [Requests -> Request]
  /\ queue \in Seq(Jobs)
  /\ timers \in SUBSET Jobs
  /\ worker \in Worker
  /\ runs \in 0..MaxRuns
  /\ runJob \in [Runs -> Jobs \cup {NoJob}]
  /\ held \in SUBSET Runs
  /\ thr \in [Runs -> [Accounts -> Thread]]
  /\ files \in SUBSET Jobs
  /\ posted \in [Jobs -> [Accounts -> Nat]]
  /\ stopAsked \in SUBSET Jobs

\* At most one post per job and account is ever published, whatever stops,
\* pauses, retries, timeouts and lost answers happen: every run spawns an upload
\* thread for every account again (post_job_executor.py:171), and what keeps a
\* second run from posting is that the first one deleted the media files.
AtMostOnePost == \A j \in Jobs, a \in Accounts : posted[j][a] <= 1

\* A result the API reports as "success" was really published: no interleaving
\* of threads, deadlines, retries and stale records invents one.
SuccessMeansPosted ==
  \A j \in Jobs, a \in Accounts : \A k \in DOMAIN cells[j][a] :
    cells[j][a][k] = "success" => posted[j][a] > 0

\* A job that waits to run is known to somebody who will run it: it is queued,
\* has a timer, is about to be enqueued by a request, or the worker is at it.
WillBeHandled(j) ==
  \/ j \in timers
  \/ \E i \in DOMAIN queue : queue[i] = j
  \/ \E q \in Requests : req[q].job = j /\ \/ req[q].at \in {"enqueue", "timer"}
                                           \/ req[q].op = "create" /\ req[q].at # "done"
  \/ worker.job = j
NoLostJob == \A j \in Jobs : status[j] \in Runnable => WillBeHandled(j)

\* When nothing is under way, the status of a finished job is the one its
\* results add up to: the tally is taken when no upload writes any more, and
\* neither a stop that races with the end of the run nor the copy after it
\* brings an older status back (post_job_executor.py:211-226).
SettledJobAddsUp ==
  Quiet => \A j \in Jobs :
    status[j] \in {"completed", "failed", "partial"} =>
      status[j] = FinalStatus(Tally(Results(j), Targets[j]))

\* Once a stop is accepted, no upload thread passes its last check of the stop
\* flag until the job is retried or deleted (posts.py:150).
StopHolds ==
  [][\A r \in Runs, a \in Accounts :
       (TAt(r, a, "stop_check") /\ thr'[r][a].at = "preflight")
         => runJob[r] \notin stopAsked]_vars

\* A job that waits, runs or is paused reaches a terminal status or is deleted.
EveryJobEnds ==
  \A j \in Jobs : status[j] \in Active ~> status[j] \in Terminal \cup {"deleted"}

=============================================================================
