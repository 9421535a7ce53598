---------------------------- MODULE DurableJobs ----------------------------
(* One post job of a backend with the SQL repository, across crashes and     *)
(* restarts: the row of the job, the record in memory every thread works on, *)
(* the requests, the queue, a run and its copy back, and the restore at      *)
(* startup.  A request in a unit of work updates memory before it commits; a *)
(* retry and a deletion, which have none, commit the row and then update     *)
(* memory; a run updates memory alone, and the row once it is over.          *)
(* What threads of the executor and the requests do to each other between    *)
(* two reads of memory is the subject of PostJobs; here a request looks at   *)
(* memory once, and a thread left behind by the outer deadline does no more. *)
EXTENDS JobRules

CONSTANTS Accounts,     \* the accounts the job is for
          MaxRequests,  \* bound: requests of the client
          MaxCrashes,   \* bound: crashes of the backend
          NoRecord      \* the row or the record of a job that has none

ASSUME BoundsAssumption == MaxRequests \in Nat /\ MaxCrashes \in Nat

VARIABLES up,        \* whether the backend runs
          row,       \* JobRow
          mem,       \* the record in state._jobs
          owner,     \* whose unit of work shares its result dicts with mem
          stopFlag,  \* _stop_flags
          holding,   \* _pause_events has an Event and it is clear
          task,      \* the request of the client and the restore of the job
          queue,     \* how often the job is in PostJobQueue._queue
          timers,    \* ... and in _timers
          worker,    \* the worker thread
          thread,    \* the upload thread of each account
          files,     \* whether the media files are on disk
          posted,    \* how often Instagram published the post of an account
          requests,  \* requests made so far
          crashes,   \* crashes so far
          cut,       \* history: crashes that came while a run was going on
          crossed,   \* history: a write was made from a value that had changed
          stopAsked  \* history: a stop was answered, and no retry accepted since

memVars  == <<mem, owner, stopFlag, holding>>
jobVars  == <<row, memVars>>
runVars  == <<worker, thread, files, posted>>
dispVars == <<queue, timers>>
histVars == <<crashes, cut, stopAsked>>
vars == <<up, jobVars, task, dispVars, runVars, requests, crossed, histVars>>

\* due: the job has a time it is scheduled for
Record == [status : JobStatus, results : [Accounts -> ResultStatus], due : BOOLEAN]
ASSUME NoRecordAssumption == NoRecord \notin Record

Idle == [at |-> "idle", op |-> "none", new |-> NoRecord, base |-> NoRecord, due |-> FALSE]
IdleWorker == [at |-> "idle", rec |-> NoRecord, final |-> "completed"]
Processes == {"client", "restore"}
\* blocked: waits on the Event of the job; stuck: on one that was dropped
ThreadStates == {"none", "check", "blocked", "stuck", "go", "net"}

Init ==
  /\ up = TRUE
  /\ row = NoRecord /\ mem = NoRecord /\ owner = "none"
  /\ stopFlag = FALSE /\ holding = FALSE
  /\ task = [p \in Processes |-> Idle]
  /\ queue = 0 /\ timers = 0
  /\ worker = IdleWorker
  /\ thread = [a \in Accounts |-> "none"]
  /\ files = FALSE
  /\ posted = [a \in Accounts |-> 0]
  /\ requests = 0 /\ crashes = 0 /\ cut = 0
  /\ crossed = FALSE /\ stopAsked = FALSE

-----------------------------------------------------------------------------
(* Requests: what a handler does before its unit of work.                    *)

MemIs(S) == mem # NoRecord /\ mem.status \in S

\* The end of a handler, and of the restore
Done(p) == task' = [task EXCEPT ![p] = Idle]
Goto(p, at) == task' = [task EXCEPT ![p].at = at]
Begin(op, at) ==
  /\ up /\ task["client"] = Idle /\ requests < MaxRequests
  /\ requests' = requests + 1
  /\ task' = [task EXCEPT !["client"] = [Idle EXCEPT !.op = op, !.at = at]]

\* clear_control: threads that wait on the Event are left waiting
ClearControl ==
  /\ stopFlag' = FALSE /\ holding' = FALSE
  /\ thread' = [a \in Accounts |-> IF thread[a] = "blocked" THEN "stuck" ELSE thread[a]]
\* evt.set()
Release ==
  /\ holding' = FALSE
  /\ thread' = [a \in Accounts |-> IF thread[a] = "blocked" THEN "go" ELSE thread[a]]

\* create_post, create_post_job: to run now, at a time, or at what is no time.
\* The record is in memory before the commit.
CreatePost(w) ==
  LET rec == [status |-> IF w = "now" THEN "pending" ELSE "scheduled",
              results |-> [a \in Accounts |-> "pending"], due |-> w = "time"] IN
  /\ up /\ requests = 0 /\ requests < MaxRequests
  /\ requests' = 1
  /\ task' = [task EXCEPT !["client"] =
                [at |-> "commit", op |-> "create", new |-> rec, base |-> NoRecord, due |-> rec.due]]
  /\ mem' = rec /\ owner' = "client"
  /\ files' = TRUE
  /\ UNCHANGED <<up, row, stopFlag, holding, dispVars, worker, thread, posted, crossed, histVars>>

\* stop_post_job: a job that runs gets the flag alone
StopPost ==
  /\ MemIs(Stoppable)
  /\ IF mem.status = "running" THEN Begin("none", "idle") ELSE Begin("stop", "read")
  /\ stopFlag' = TRUE
  /\ Release
  /\ stopAsked' = (stopAsked \/ mem.status = "running")
  /\ UNCHANGED <<up, row, mem, owner, dispVars, worker, files, posted, crossed, crashes, cut>>

PausePost ==
  /\ MemIs({"running"})
  /\ Begin("pause", "read")
  /\ holding' = TRUE
  /\ UNCHANGED <<up, row, mem, owner, stopFlag, dispVars, runVars, crossed, histVars>>

ResumePost ==
  /\ MemIs({"paused"})
  /\ Begin("resume", "read")
  /\ Release
  /\ UNCHANGED <<up, row, mem, owner, stopFlag, dispVars, worker, files, posted, crossed, histVars>>

RetryPost ==
  /\ row # NoRecord
  /\ Begin("retry", "read")
  /\ ClearControl
  /\ UNCHANGED <<up, row, mem, owner, dispVars, worker, files, posted, crossed, histVars>>

DeletePost ==
  /\ row # NoRecord
  /\ Begin("delete", "read")
  /\ UNCHANGED <<up, jobVars, dispVars, runVars, crossed, histVars>>

-----------------------------------------------------------------------------
(* The rest of a request, and mark_scheduled: the record is read from the    *)
(* row.  In a unit of work set loads the row again, changes the columns that *)
(* differ and writes memory, and the commit writes the changed columns.      *)

Reset(res) == [a \in Accounts |-> IF res[a] \in ResetByRetry THEN "pending" ELSE res[a]]

\* What op makes of the record it read
Changed(op, rec) ==
  CASE op = "stop"   -> [rec EXCEPT !.status = "stopped"]
    [] op = "pause"  -> [rec EXCEPT !.status = "paused"]
    [] op = "resume" -> [rec EXCEPT !.status = "running"]
    [] op = "mark"   -> [rec EXCEPT !.status = "scheduled"]
    [] op = "retry"  -> [status |-> "pending", results |-> Reset(rec.results), due |-> FALSE]
    [] op = "delete" -> NoRecord

Accepts(op, rec) ==
  /\ rec # NoRecord
  /\ op = "retry" => rec.status \in Retryable
  /\ op = "delete" => rec.status \notin Active

ReadRow(p) ==
  LET t == task[p] IN
  /\ t.at = "read"
  /\ IF Accepts(t.op, row)
     THEN task' = [task EXCEPT ![p].at = "put", ![p].base = row, ![p].new = Changed(t.op, row)]
     ELSE IF t.op = "mark" THEN Goto(p, "timer") ELSE Done(p)
  /\ UNCHANGED <<up, jobVars, dispVars, runVars, requests, crossed, histVars>>

\* retry_job and delete_job have no unit of work: what they write is committed
\* by the repository itself.
RowFirst == {"retry", "delete"}

PutRecord(p) ==
  LET t == task[p] IN
  /\ t.at = "put" /\ t.op \notin RowFirst
  /\ mem' = t.new /\ owner' = p
  /\ task' = [task EXCEPT ![p].at = "commit", ![p].base = row]
  /\ crossed' = (crossed \/ row # t.base)
  /\ UNCHANGED <<up, row, stopFlag, holding, dispVars, runVars, requests, histVars>>

\* The columns of new that differ from those of base, over the row as it is now
Merge(new, base) == [f \in DOMAIN new |-> IF new[f] # base[f] THEN new[f] ELSE row[f]]

\* An update of a row that is gone fails, and the request with it.
CommitRow(p) ==
  LET t == task[p]
      new == IF owner = p /\ mem # NoRecord
             THEN [t.new EXCEPT !.results = mem.results] ELSE t.new
      fails == t.base # NoRecord /\ row = NoRecord IN
  /\ t.at = "commit"
  /\ row' = IF t.base = NoRecord THEN new
            ELSE IF fails THEN NoRecord ELSE Merge(new, t.base)
  /\ crossed' = (crossed \/ row # t.base \/ owner # p)
  /\ owner' = IF owner = p THEN "none" ELSE owner
  /\ stopAsked' = (stopAsked \/ (t.op = "stop" /\ ~fails))
  /\ CASE t.op = "mark" -> Goto(p, "timer")
       [] t.op = "create" -> Goto(p, "enqueue")
       [] OTHER -> Done(p)
  /\ UNCHANGED <<up, mem, stopFlag, holding, dispVars, runVars, requests, crashes, cut>>

\* A retry and a deletion commit the row.  set makes a row that is gone; delete
\* leaves it at that, and memory too ...
SaveRow(p) ==
  LET t == task[p]
      gone == t.op = "delete" /\ row = NoRecord IN
  /\ t.at = "put" /\ t.op \in RowFirst
  /\ row' = t.new
  /\ crossed' = (crossed \/ row # t.base \/ owner # "none")
  /\ stopAsked' = (stopAsked /\ t.op # "retry")
  /\ IF gone THEN Done(p) ELSE task' = [task EXCEPT ![p].at = "install", ![p].base = mem]
  /\ UNCHANGED <<up, memVars, dispVars, runVars, requests, crashes, cut>>

\* ... and then memory is written.
InstallRecord(p) ==
  LET t == task[p] IN
  /\ t.at = "install" /\ t.op \in RowFirst
  /\ mem' = t.new /\ owner' = "none"
  /\ crossed' = (crossed \/ mem # t.base \/ row # t.new)
  /\ IF t.op = "delete" THEN ClearControl /\ Done(p)
     ELSE Goto(p, "enqueue") /\ UNCHANGED <<stopFlag, holding, thread>>
  /\ UNCHANGED <<up, row, dispVars, worker, files, posted, requests, histVars>>

-----------------------------------------------------------------------------
(* PostJobQueue.enqueue and the timers.                                      *)

Enqueue(p) ==
  /\ task[p].at = "enqueue"
  /\ queue' = queue + 1
  /\ Done(p)
  /\ UNCHANGED <<up, jobVars, timers, runVars, requests, crossed, histVars>>

\* The time has not come: mark_scheduled, then a timer
EnqueueLater(p) ==
  /\ task[p].at = "enqueue" /\ task[p].due
  /\ task' = [task EXCEPT ![p].at = "read", ![p].op = "mark"]
  /\ UNCHANGED <<up, jobVars, dispVars, runVars, requests, crossed, histVars>>

SetTimer(p) ==
  /\ task[p].at = "timer"
  /\ timers' = timers + 1
  /\ Done(p)
  /\ UNCHANGED <<up, jobVars, queue, runVars, requests, crossed, histVars>>

TimerFires ==
  /\ timers > 0
  /\ timers' = timers - 1 /\ queue' = queue + 1
  /\ UNCHANGED <<up, jobVars, task, runVars, requests, crossed, histVars>>

-----------------------------------------------------------------------------
(* The worker: checks, a run, and the copy of its outcome into the row.      *)

WGoto(at) == worker' = [worker EXCEPT !.at = at]

TakeJob ==
  /\ worker.at = "idle" /\ queue > 0
  /\ queue' = queue - 1
  /\ IF MemIs({"stopped"}) THEN ClearControl ELSE UNCHANGED <<stopFlag, holding, thread>>
  /\ IF MemIs(Runnable) THEN WGoto("enter") ELSE UNCHANGED worker
  /\ UNCHANGED <<up, row, mem, owner, timers, task, files, posted, requests, crossed, histVars>>

Settle(res, s) == [a \in Accounts |-> IF res[a] = "success" THEN "success" ELSE s]
Refused(rec) == [rec EXCEPT !.status = "failed", !.results = Settle(rec.results, "failed")]

\* PostJobExecutor.run up to "running": it looks at the status again.
EnterRun ==
  LET refused == MemIs({"scheduled"}) /\ ~mem.due IN
  /\ worker.at = "enter"
  /\ WGoto(IF MemIs(Runnable) /\ ~refused THEN "start" ELSE "sync")
  /\ mem' = IF refused THEN Refused(mem) ELSE mem
  /\ IF refused \/ MemIs({"stopped"})
     THEN ClearControl ELSE UNCHANGED <<stopFlag, holding, thread>>
  /\ UNCHANGED <<up, row, owner, dispVars, task, files, posted, requests, crossed, histVars>>

StartRun ==
  /\ worker.at = "start"
  /\ IF mem = NoRecord
     THEN WGoto("sync") /\ UNCHANGED <<mem, thread>>
     ELSE /\ mem' = [mem EXCEPT !.status = "running"]
          /\ thread' = [a \in Accounts |-> "check"]
          /\ WGoto("uploads")
  /\ UNCHANGED <<up, row, owner, stopFlag, holding, dispVars, task, files, posted,
                 requests, crossed, histVars>>

\* Tally, and the end of the control state; a job that is gone raises here.
TallyRun ==
  /\ worker.at = "uploads"
  /\ \A a \in Accounts : thread[a] = "none"
  /\ stopFlag' = FALSE /\ holding' = FALSE
  /\ worker' = IF mem = NoRecord THEN [worker EXCEPT !.at = "cleanup"]
               ELSE [worker EXCEPT !.at = "final",
                                   !.final = FinalStatus(Tally(mem.results, Accounts))]
  /\ UNCHANGED <<up, row, mem, owner, thread, dispVars, task, files, posted,
                 requests, crossed, histVars>>

FinishRun ==
  /\ worker.at = "final"
  /\ mem' = IF mem = NoRecord THEN mem ELSE [mem EXCEPT !.status = worker.final]
  /\ WGoto("cleanup")
  /\ UNCHANGED <<up, row, owner, stopFlag, holding, dispVars, task, thread, files, posted,
                 requests, crossed, histVars>>

\* Faulty variant: the files are left to the end of a later run.
CleanupKeepsFiles ==
  /\ worker.at = "cleanup"
  /\ WGoto("sync")
  /\ UNCHANGED <<up, jobVars, dispVars, task, thread, files, posted, requests, crossed, histVars>>

Cleanup ==
  /\ worker.at = "cleanup"
  /\ files' = FALSE
  /\ WGoto("sync")
  /\ UNCHANGED <<up, jobVars, dispVars, task, thread, posted, requests, crossed, histVars>>

\* Faulty variant: a run that failed is not copied back.
SyncReadUnlessFailed ==
  /\ worker.at = "sync"
  /\ worker' = IF ~MemIs({"completed", "partial", "stopped"}) THEN IdleWorker
               ELSE [IdleWorker EXCEPT !.at = "save", !.rec = mem]
  /\ UNCHANGED <<up, jobVars, dispVars, task, thread, files, posted, requests, crossed, histVars>>

\* _run_and_sync_job: the record is read from memory ...
SyncRead ==
  /\ worker.at = "sync"
  /\ worker' = IF mem = NoRecord THEN IdleWorker
               ELSE [IdleWorker EXCEPT !.at = "save", !.rec = mem]
  /\ UNCHANGED <<up, jobVars, dispVars, task, thread, files, posted, requests, crossed, histVars>>

\* ... set writes and commits the row, which it makes when it is gone ...
SyncSave ==
  /\ worker.at = "save"
  /\ row' = worker.rec
  /\ crossed' = (crossed \/ mem # worker.rec \/ owner # "none")
  /\ WGoto("install")
  /\ UNCHANGED <<up, memVars, dispVars, task, thread, files, posted, requests, histVars>>

\* ... and then memory.
SyncInstall ==
  /\ worker.at = "install"
  /\ mem' = worker.rec /\ owner' = "none"
  /\ crossed' = (crossed \/ mem # worker.rec)
  /\ worker' = IdleWorker
  /\ UNCHANGED <<up, row, stopFlag, holding, dispVars, task, thread, files, posted,
                 requests, histVars>>

-----------------------------------------------------------------------------
(* The upload threads.                                                       *)

SetResult(a, s) ==
  mem' = IF mem = NoRecord THEN mem ELSE [mem EXCEPT !.results[a] = s]
ThreadGoto(a, at) == thread' = [thread EXCEPT ![a] = at]
restOfUpload == <<up, row, owner, stopFlag, holding, dispVars, task, worker, requests,
                  crossed, histVars>>

SkipUpload(a) ==
  /\ thread[a] \in {"check", "go"} /\ stopFlag
  /\ SetResult(a, "skipped")
  /\ ThreadGoto(a, "none")
  /\ UNCHANGED <<restOfUpload, files, posted>>

\* wait_if_paused
CheckPause(a) ==
  /\ thread[a] = "check" /\ ~stopFlag
  /\ ThreadGoto(a, IF holding THEN "blocked" ELSE "go")
  /\ UNCHANGED <<restOfUpload, mem, files, posted>>

\* An account without a client, or an open circuit breaker, ends it here.
BeginUpload(a) ==
  /\ thread[a] = "go" /\ ~stopFlag
  /\ \/ SetResult(a, "uploading") /\ ThreadGoto(a, IF mem = NoRecord THEN "none" ELSE "net")
     \/ SetResult(a, "failed") /\ ThreadGoto(a, "none")
  /\ UNCHANGED <<restOfUpload, files, posted>>

\* The post is published, with or without an answer, or it is not.
EndUpload(a) ==
  /\ thread[a] = "net"
  /\ \/ files /\ posted' = [posted EXCEPT ![a] = @ + 1] /\ SetResult(a, "success")
     \/ files /\ posted' = [posted EXCEPT ![a] = @ + 1] /\ SetResult(a, "failed")
     \/ UNCHANGED posted /\ SetResult(a, "failed")
  /\ ThreadGoto(a, "none")
  /\ UNCHANGED <<restOfUpload, files>>

\* Faulty variant: threads that wait out a pause are waited for.
OuterDeadlineUnlessPaused ==
  LET late == {a \in Accounts : thread[a] # "none"} IN
  /\ worker.at = "uploads" /\ late # {}
  /\ \A a \in late : thread[a] = "stuck"
  /\ thread' = [a \in Accounts |-> "none"]
  /\ mem' = IF mem = NoRecord THEN mem ELSE
       [mem EXCEPT !.results = [a \in Accounts |->
          IF a \in late /\ @[a] \notin Settled THEN "failed" ELSE @[a]]]
  /\ UNCHANGED <<restOfUpload, files, posted>>

\* The outer deadline, when nothing but a pause keeps threads from ending
OuterDeadline ==
  LET late == {a \in Accounts : thread[a] # "none"} IN
  /\ worker.at = "uploads" /\ late # {}
  /\ \A a \in late : thread[a] \in {"blocked", "stuck"}
  /\ thread' = [a \in Accounts |-> "none"]
  /\ mem' = IF mem = NoRecord THEN mem ELSE
       [mem EXCEPT !.results = [a \in Accounts |->
          IF a \in late /\ @[a] \notin Settled THEN "failed" ELSE @[a]]]
  /\ UNCHANGED <<restOfUpload, files, posted>>

-----------------------------------------------------------------------------
(* Crashes and the restore at startup.                                       *)

\* Between the start of the uploads of a run and the deletion of its media
RunGoesOn == worker.at \in {"uploads", "final", "cleanup"}

\* Memory, queue and threads go with the process; rows and files stay.
Crash ==
  /\ up /\ crashes < MaxCrashes
  /\ up' = FALSE
  /\ crashes' = crashes + 1
  /\ cut' = IF RunGoesOn THEN cut + 1 ELSE cut
  /\ mem' = NoRecord /\ owner' = "none" /\ stopFlag' = FALSE /\ holding' = FALSE
  /\ task' = [p \in Processes |-> Idle]
  /\ queue' = 0 /\ timers' = 0
  /\ worker' = IdleWorker
  /\ thread' = [a \in Accounts |-> "none"]
  /\ UNCHANGED <<row, files, posted, requests, crossed, stopAsked>>

\* Faulty variant: only jobs that have no time are restored.
EligiblePendingOnly == row # NoRecord /\ row.status = "pending"

Eligible == row # NoRecord /\ row.status \in Runnable

\* lifespan and the first half of _restore_pending_jobs, which has no await:
\* every row is put in memory before the server takes a request.
Restart ==
  /\ ~up
  /\ up' = TRUE
  /\ mem' = row
  /\ task' = IF ~Eligible THEN task
             ELSE [task EXCEPT !["restore"] = [Idle EXCEPT !.at = "wait", !.op = "restore",
                     !.new = row, !.base = row, !.due = row.status = "scheduled"]]
  /\ UNCHANGED <<row, owner, stopFlag, holding, dispVars, runVars, requests, crossed, histVars>>

\* The sessions are restored, or 120 seconds have passed: what follows goes by
\* the rows as they were at startup.
RestoreEnqueues ==
  LET t == task["restore"] IN
  /\ t.at = "wait" /\ (t.due => t.new.due)
  /\ Goto("restore", "enqueue")
  /\ UNCHANGED <<up, jobVars, dispVars, runVars, requests, crossed, histVars>>

\* A scheduled job without a time that parses is failed, in the row ...
RestoreRefuses ==
  LET t == task["restore"] IN
  /\ t.at = "wait" /\ t.due /\ ~t.new.due
  /\ row' = [t.new EXCEPT !.status = "failed", !.results = [a \in Accounts |-> "failed"]]
  /\ crossed' = (crossed \/ row # t.base)
  /\ task' = [task EXCEPT !["restore"].at = "install", !["restore"].new = row',
                          !["restore"].base = mem]
  /\ UNCHANGED <<up, memVars, dispVars, runVars, requests, histVars>>

\* ... and then in memory.
RestoreInstalls ==
  LET t == task["restore"] IN
  /\ t.at = "install"
  /\ mem' = t.new /\ owner' = "none"
  /\ crossed' = (crossed \/ mem # t.base)
  /\ Done("restore")
  /\ UNCHANGED <<up, row, stopFlag, holding, dispVars, runVars, requests, histVars>>

-----------------------------------------------------------------------------
Request == \/ \E w \in {"now", "time", "bad"} : CreatePost(w)
           \/ StopPost \/ PausePost \/ ResumePost \/ RetryPost \/ DeletePost
Handle(p) == \/ ReadRow(p) \/ PutRecord(p) \/ CommitRow(p)
             \/ SaveRow(p) \/ InstallRecord(p)
             \/ Enqueue(p) \/ EnqueueLater(p) \/ SetTimer(p)
Work == \/ TakeJob \/ EnterRun \/ StartRun \/ TallyRun \/ FinishRun \/ Cleanup
        \/ SyncRead \/ SyncSave \/ SyncInstall
Upload(a) == SkipUpload(a) \/ CheckPause(a) \/ BeginUpload(a) \/ EndUpload(a)
Restore == Restart \/ RestoreEnqueues \/ RestoreRefuses \/ RestoreInstalls

Next ==
  \/ Request
  \/ \E p \in Processes : Handle(p)
  \/ TimerFires
  \/ Work
  \/ \E a \in Accounts : Upload(a)
  \/ OuterDeadline
  \/ Crash
  \/ Restore

Spec == Init /\ [][Next]_vars

\* Threads run, uploads and waits time out, timers fire, and the backend is
\* started again; clients need not ask for anything.
Fairness ==
  /\ \A p \in Processes : WF_vars(Handle(p))
  /\ WF_vars(TimerFires)
  /\ WF_vars(Work)
  /\ \A a \in Accounts : WF_vars(Upload(a))
  /\ WF_vars(OuterDeadline)
  /\ WF_vars(Restore)

FairSpec == Spec /\ Fairness

-----------------------------------------------------------------------------
\* Every variable has its type.
TypeOK ==
  /\ up \in BOOLEAN /\ stopFlag \in BOOLEAN /\ holding \in BOOLEAN
  /\ {row, mem, worker.rec} \subseteq Record \cup {NoRecord}
  /\ owner \in Processes \cup {"none"}
  /\ \A p \in Processes :
       /\ task[p].at \in {"idle", "read", "put", "commit", "enqueue", "timer", "wait", "install"}
       /\ {task[p].new, task[p].base} \subseteq Record \cup {NoRecord}
  /\ queue \in Nat /\ timers \in Nat
  /\ worker.at \in {"idle", "enter", "start", "uploads", "final", "cleanup", "sync", "save", "install"}
  /\ thread \in [Accounts -> ThreadStates]
  /\ posted \in [Accounts -> Nat]

\* A post is repeated only by a crash that cut a run short, and once for each:
\* a retry, a restore or a job queued twice repeats none.  What stands between
\* is that a run deletes the media files before its outcome reaches the row
\* (post_job_executor.py:364, container.py:592, main.py:117).
RepeatsCostACrash == \A a \in Accounts : posted[a] <= 1 + cut

Quiet == /\ up /\ worker = IdleWorker
         /\ \A p \in Processes : task[p].at \in {"idle", "wait"}

\* When nothing is in progress the row and the record in memory are the same,
\* unless two writes crossed: neither the requests that change memory before
\* they commit, nor a retry or a deletion that commits first, nor a run that
\* changes memory alone, nor a crash between leaves them apart
\* (sql_repositories.py:252, post_job.py:346, container.py:592).
RowFollowsMemory == Quiet /\ ~crossed => row = mem

\* A job whose row says it is to be run is run or taken from the queue by its
\* client, over any crash that leaves the backend to be started again, unless
\* two writes crossed (main.py:90, job_queue.py:143).
Waits == row # NoRecord /\ row.status \in Runnable
EveryRowIsServed == Waits ~> (~Waits \/ crossed)

\* The worker comes back from a run although a pause is never ended, or its
\* Event was dropped by a retry that was refused (post_job_executor.py:192,
\* state.py:250).
WorkerReturns == worker.at = "uploads" ~> worker.at = "idle"

\* "stopped jobs are not resurrected" (post_job_control_adapter.py:45): the
\* next restore takes up no job whose stop was answered, unless it was retried.
StoppedStaysStopped == ~up /\ stopAsked => ~Waits
=============================================================================
