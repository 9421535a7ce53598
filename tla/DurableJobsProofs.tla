------------------------- MODULE DurableJobsProofs -------------------------
(* The proofs that a post is repeated only by a crash that cuts a run short, *)
(* and that the row and the record in memory agree at rest.                  *)
EXTENDS DurableJobs, TLAPS

\* What the argument needs of the types
Shape ==
  /\ posted \in [Accounts -> Nat]
  /\ cut \in Nat /\ requests \in Nat
  /\ thread \in [Accounts -> ThreadStates]
  /\ "at" \in DOMAIN worker

\* Nothing is posted, and there is nothing to post, before the first request.
NothingFirst == requests = 0 => ~files /\ \A a \in Accounts : posted[a] = 0

\* Upload threads live inside of a run.
ThreadsInRun == worker.at # "uploads" => \A a \in Accounts : thread[a] = "none"

\* While there are files, whoever may still post has posted at most once for
\* each crash: a thread that is not done, or any account between two runs.
RoomToPost ==
  files => \A a \in Accounts :
             ~RunGoesOn \/ thread[a] # "none" => posted[a] <= cut

CutInv == /\ Shape /\ NothingFirst /\ ThreadsInRun
          /\ RoomToPost /\ RepeatsCostACrash

\* Steps that post nothing, make no file and leave the run where it is.
LEMMA Elsewhere ==
  ASSUME CutInv, UNCHANGED <<posted, cut, worker>>, requests' \in Nat,
         requests' = 0 => requests = 0, files' => files,
         thread' \in [Accounts -> ThreadStates],
         \A a \in Accounts : thread[a] = "none" => thread'[a] = "none"
  PROVE  CutInv'
  BY DEF CutInv, Shape, NothingFirst, ThreadsInRun, RoomToPost, RepeatsCostACrash, RunGoesOn

\* Steps of the worker that begin no run, and end none before its clean-up.
LEMMA WorkerElsewhere ==
  ASSUME CutInv, UNCHANGED <<posted, cut, requests>>, files' => files,
         "at" \in DOMAIN worker',
         thread' \in [Accounts -> ThreadStates],
         \A a \in Accounts : thread'[a] = "none",
         RunGoesOn /\ files' => RunGoesOn'
  PROVE  CutInv'
  BY DEF CutInv, Shape, NothingFirst, ThreadsInRun, RoomToPost, RepeatsCostACrash, RunGoesOn

\* A dropped or set Event moves threads that wait, and no other.
LEMMA ClearMoves ==
  ASSUME ClearControl, thread \in [Accounts -> ThreadStates]
  PROVE  /\ thread' \in [Accounts -> ThreadStates]
         /\ \A a \in Accounts : thread[a] = "none" => thread'[a] = "none"
  BY DEF ClearControl, ThreadStates

LEMMA ReleaseMoves ==
  ASSUME Release, thread \in [Accounts -> ThreadStates]
  PROVE  /\ thread' \in [Accounts -> ThreadStates]
         /\ \A a \in Accounts : thread[a] = "none" => thread'[a] = "none"
  BY DEF Release, ThreadStates

LEMMA InitHolds == Init => CutInv
  BY DEF Init, CutInv, Shape, NothingFirst, ThreadsInRun, RoomToPost, RepeatsCostACrash,
         RunGoesOn, IdleWorker, ThreadStates

LEMMA RequestHolds == ASSUME CutInv, Request PROVE CutInv'
<1> USE DEF Begin
<1>shape. Shape
  BY DEF CutInv
<1>1. ASSUME NEW w \in {"now", "time", "bad"}, CreatePost(w) PROVE CutInv'
  BY <1>1 DEF CreatePost, CutInv, Shape, NothingFirst, ThreadsInRun, RoomToPost,
              RepeatsCostACrash, RunGoesOn, histVars
<1>2. CASE StopPost
  <2>1. UNCHANGED <<posted, cut, worker, files>> /\ requests' = requests + 1 /\ Release
    BY <1>2 DEF StopPost
  <2> QED BY <2>1, <1>shape, ReleaseMoves, Elsewhere DEF Shape
<1>3. CASE PausePost
  <2>1. UNCHANGED <<posted, cut, worker, files, thread>> /\ requests' = requests + 1
    BY <1>3 DEF PausePost, runVars, histVars
  <2> QED BY <2>1, <1>shape, Elsewhere DEF Shape
<1>4. CASE ResumePost
  <2>1. UNCHANGED <<posted, cut, worker, files>> /\ requests' = requests + 1 /\ Release
    BY <1>4 DEF ResumePost, histVars
  <2> QED BY <2>1, <1>shape, ReleaseMoves, Elsewhere DEF Shape
<1>5. CASE RetryPost
  <2>1. UNCHANGED <<posted, cut, worker, files>> /\ requests' = requests + 1 /\ ClearControl
    BY <1>5 DEF RetryPost, histVars
  <2> QED BY <2>1, <1>shape, ClearMoves, Elsewhere DEF Shape
<1>6. CASE DeletePost
  <2>1. UNCHANGED <<posted, cut, worker, files, thread>> /\ requests' = requests + 1
    BY <1>6 DEF DeletePost, runVars, histVars
  <2> QED BY <2>1, <1>shape, Elsewhere DEF Shape
<1> QED BY <1>1, <1>2, <1>3, <1>4, <1>5, <1>6 DEF Request

LEMMA HandleHolds == ASSUME CutInv, NEW p \in Processes, Handle(p) PROVE CutInv'
<1>shape. Shape
  BY DEF CutInv
<1>1. CASE InstallRecord(p)
  <2>1. /\ UNCHANGED <<posted, cut, worker, files, requests>>
        /\ ClearControl \/ UNCHANGED thread
    BY <1>1 DEF InstallRecord, histVars
  <2> QED BY <2>1, <1>shape, ClearMoves, Elsewhere DEF Shape
<1>2. CASE \/ ReadRow(p) \/ PutRecord(p) \/ CommitRow(p) \/ SaveRow(p)
           \/ Enqueue(p) \/ EnqueueLater(p) \/ SetTimer(p)
  <2>1. UNCHANGED <<posted, cut, worker, files, requests, thread>>
    BY <1>2 DEF ReadRow, PutRecord, CommitRow, SaveRow, Enqueue, EnqueueLater, SetTimer, runVars, histVars
  <2> QED BY <2>1, <1>shape, Elsewhere DEF Shape
<1> QED BY <1>1, <1>2 DEF Handle

LEMMA WorkHolds == ASSUME CutInv, Work PROVE CutInv'
<1>shape. Shape /\ ThreadsInRun
  BY DEF CutInv
<1>1. CASE TakeJob
  <2>1. /\ UNCHANGED <<posted, cut, files, requests>> /\ worker.at = "idle"
        /\ ClearControl \/ UNCHANGED thread
    BY <1>1 DEF TakeJob, histVars
  <2>2. "at" \in DOMAIN worker'
    BY <1>1, <1>shape DEF TakeJob, WGoto, Shape
  <2>3. \A a \in Accounts : thread'[a] = "none"
    BY <2>1, <1>shape, ClearMoves DEF Shape, ThreadsInRun
  <2> QED BY <2>1, <2>2, <2>3, <1>shape, ClearMoves, WorkerElsewhere DEF Shape, RunGoesOn
<1>2. CASE EnterRun
  <2>1. /\ UNCHANGED <<posted, cut, files, requests>> /\ worker.at = "enter"
        /\ ClearControl \/ UNCHANGED thread
    BY <1>2 DEF EnterRun, histVars
  <2>2. "at" \in DOMAIN worker'
    BY <1>2, <1>shape DEF EnterRun, WGoto, Shape
  <2>3. \A a \in Accounts : thread'[a] = "none"
    BY <2>1, <1>shape, ClearMoves DEF Shape, ThreadsInRun
  <2> QED BY <2>1, <2>2, <2>3, <1>shape, ClearMoves, WorkerElsewhere DEF Shape, RunGoesOn
<1>3. CASE StartRun
  <2>1. UNCHANGED <<posted, cut, files, requests>> /\ worker.at = "start"
    BY <1>3 DEF StartRun, histVars
  <2>2. CASE mem = NoRecord
    <3>1. UNCHANGED thread /\ worker' = [worker EXCEPT !.at = "sync"]
      BY <1>3, <2>2 DEF StartRun, WGoto
    <3> QED BY <2>1, <3>1, <1>shape, WorkerElsewhere DEF Shape, ThreadsInRun, RunGoesOn
  <2>3. CASE mem # NoRecord
    <3>1. thread' = [a \in Accounts |-> "check"] /\ worker' = [worker EXCEPT !.at = "uploads"]
      BY <1>3, <2>3 DEF StartRun, WGoto
    <3> QED BY <2>1, <3>1 DEF CutInv, Shape, NothingFirst, ThreadsInRun, RoomToPost,
                              RepeatsCostACrash, RunGoesOn, ThreadStates
  <2> QED BY <2>2, <2>3
<1>4. CASE TallyRun
  <2>1. /\ UNCHANGED <<posted, cut, files, requests, thread>>
        /\ \A a \in Accounts : thread[a] = "none"
    BY <1>4 DEF TallyRun, histVars
  <2>2. "at" \in DOMAIN worker' /\ worker'.at \in {"cleanup", "final"}
    BY <1>4, <1>shape DEF TallyRun, Shape
  <2> QED BY <2>1, <2>2, <1>shape, WorkerElsewhere DEF Shape, RunGoesOn
<1>5. CASE FinishRun
  <2>1. /\ UNCHANGED <<posted, cut, files, requests, thread>> /\ worker.at = "final"
        /\ worker' = [worker EXCEPT !.at = "cleanup"]
    BY <1>5 DEF FinishRun, WGoto, histVars
  <2>2. "at" \in DOMAIN worker' /\ worker'.at = "cleanup"
    BY <2>1, <1>shape DEF Shape
  <2> QED BY <2>1, <2>2, <1>shape, WorkerElsewhere DEF Shape, ThreadsInRun, RunGoesOn
<1>6. CASE Cleanup
  <2>1. /\ UNCHANGED <<posted, cut, requests, thread>> /\ ~files' /\ worker.at = "cleanup"
        /\ worker' = [worker EXCEPT !.at = "sync"]
    BY <1>6 DEF Cleanup, WGoto, histVars
  <2> QED BY <2>1, <1>shape, WorkerElsewhere DEF Shape, ThreadsInRun
<1>7. CASE SyncRead \/ SyncSave \/ SyncInstall
  <2>1. /\ UNCHANGED <<posted, cut, files, requests, thread>>
        /\ worker.at \in {"sync", "save", "install"}
    BY <1>7 DEF SyncRead, SyncSave, SyncInstall, histVars
  <2>2. "at" \in DOMAIN worker'
    <3>1. CASE SyncRead
      BY <3>1 DEF SyncRead, IdleWorker
    <3>2. CASE SyncSave
      BY <3>2, <1>shape DEF SyncSave, WGoto, Shape
    <3>3. CASE SyncInstall
      BY <3>3 DEF SyncInstall, IdleWorker
    <3> QED BY <1>7, <3>1, <3>2, <3>3
  <2> QED BY <2>1, <2>2, <1>shape, WorkerElsewhere DEF Shape, ThreadsInRun, RunGoesOn
<1> QED BY <1>1, <1>2, <1>3, <1>4, <1>5, <1>6, <1>7 DEF Work

LEMMA UploadHolds == ASSUME CutInv, NEW a \in Accounts, Upload(a) PROVE CutInv'
<1>shape. Shape
  BY DEF CutInv
<1>0. UNCHANGED <<cut, worker, requests, files>> /\ thread[a] # "none"
  BY DEF Upload, SkipUpload, CheckPause, BeginUpload, EndUpload, restOfUpload, histVars
<1>1. thread' \in [Accounts -> ThreadStates] /\ \A b \in Accounts : b # a => thread'[b] = thread[b]
  BY <1>shape DEF Upload, SkipUpload, CheckPause, BeginUpload, EndUpload, ThreadGoto, Shape, ThreadStates
<1>2. CASE posted' = posted
  <2>1. \A b \in Accounts : thread[b] = "none" => thread'[b] = "none"
    BY <1>0, <1>1
  <2> QED BY <1>0, <1>1, <1>2, <2>1, <1>shape, Elsewhere DEF Shape
<1>3. CASE files /\ posted' = [posted EXCEPT ![a] = @ + 1] /\ thread'[a] = "none"
  BY <1>0, <1>1, <1>3 DEF CutInv, Shape, NothingFirst, ThreadsInRun, RoomToPost,
                          RepeatsCostACrash, RunGoesOn
<1>4. posted' = posted \/ (/\ files /\ posted' = [posted EXCEPT ![a] = @ + 1]
                           /\ thread'[a] = "none")
  BY <1>shape DEF Upload, SkipUpload, CheckPause, BeginUpload, EndUpload, ThreadGoto, Shape, ThreadStates
<1> QED BY <1>2, <1>3, <1>4

LEMMA CrashHolds == ASSUME CutInv, Crash PROVE CutInv'
<1>1. /\ UNCHANGED <<posted, files, requests>>
      /\ cut' = IF RunGoesOn THEN cut + 1 ELSE cut
      /\ thread' = [a \in Accounts |-> "none"] /\ worker' = IdleWorker
  BY DEF Crash
<1> QED BY <1>1 DEF CutInv, Shape, NothingFirst, ThreadsInRun, RoomToPost,
                    RepeatsCostACrash, RunGoesOn, IdleWorker, ThreadStates

LEMMA StepHolds == ASSUME CutInv, [Next]_vars PROVE CutInv'
<1>shape. Shape
  BY DEF CutInv
<1>1. CASE Request
  BY <1>1, RequestHolds
<1>2. CASE \E p \in Processes : Handle(p)
  BY <1>2, HandleHolds
<1>3. CASE TimerFires \/ Restore \/ UNCHANGED vars
  <2>1. UNCHANGED <<posted, cut, worker, files, requests, thread>>
    BY <1>3 DEF TimerFires, Restore, Restart, RestoreEnqueues, RestoreRefuses, RestoreInstalls,
                runVars, histVars, vars
  <2> QED BY <2>1, <1>shape, Elsewhere DEF Shape
<1>4. CASE Work
  BY <1>4, WorkHolds
<1>5. CASE \E a \in Accounts : Upload(a)
  BY <1>5, UploadHolds
<1>6. CASE OuterDeadline
  <2>1. /\ UNCHANGED <<posted, cut, worker, files, requests>>
        /\ thread' = [a \in Accounts |-> "none"]
    BY <1>6 DEF OuterDeadline, restOfUpload, histVars
  <2> QED BY <2>1, <1>shape, Elsewhere DEF Shape, ThreadStates
<1>7. CASE Crash
  BY <1>7, CrashHolds
<1> QED BY <1>1, <1>2, <1>3, <1>4, <1>5, <1>6, <1>7 DEF Next

\* Whatever the accounts, the requests and the crashes, a post is published at
\* most once more than there were crashes that cut a run short.
THEOREM CrashesPayForRepeats == Spec => []RepeatsCostACrash
<1>1. CutInv /\ [Next]_vars => CutInv'
  BY StepHolds
<1>2. CutInv => RepeatsCostACrash
  BY DEF CutInv
<1> QED BY InitHolds, <1>1, <1>2, PTL DEF Spec

-----------------------------------------------------------------------------
(* The row and the record in memory.  Every step of the model is reduced to  *)
(* a step that says what it does to the row, to memory and to the tasks, and *)
(* the invariant is proved of these.                                         *)

Records == Record \cup {NoRecord}

\* An update makes the row what was written, if the row is what was read.
LEMMA MergeType ==
  ASSUME NEW new \in Record, NEW base \in Record, row \in Record
  PROVE  /\ Merge(new, base) \in Record
         /\ Merge(new, base).status \in {new.status, row.status}
         /\ base = row => Merge(new, base) = new
<1> DEFINE f == Merge(new, base)
<1>1. DOMAIN new = {"status", "results", "due"} /\ f = [x \in {"status", "results", "due"} |-> IF new[x] # base[x] THEN new[x] ELSE row[x]]
  BY DEF Merge, Record
<1>2. f["status"] \in {new["status"], row["status"]} /\ f["results"] \in {new["results"], row["results"]}
      /\ f["due"] \in {new["due"], row["due"]}
  BY <1>1
<1>3. f = [status |-> f["status"], results |-> f["results"], due |-> f["due"]]
  BY <1>1
<1>4. f \in Record /\ f.status \in {new.status, row.status}
  BY <1>2, <1>3 DEF Record
<1>5. ASSUME base = row PROVE f = new
  <2>1. f["status"] = new["status"] /\ f["results"] = new["results"] /\ f["due"] = new["due"]
    BY <1>1, <1>5
  <2>2. new = [status |-> new["status"], results |-> new["results"], due |-> new["due"]]
    BY DEF Record
  <2> QED BY <1>3, <2>1, <2>2
<1> QED BY <1>4, <1>5

\* Types
At(p) == task[p].at
Tasks == [at : {"idle", "read", "put", "commit", "enqueue", "timer", "wait", "install"},
          op : {"none", "create", "stop", "pause", "resume", "retry", "delete", "mark", "restore"},
          new : Records, base : Records, due : BOOLEAN]
Workers == [at : {"idle", "enter", "start", "uploads", "final", "cleanup", "sync", "save", "install"},
            rec : Records, final : JobStatus]
Typed ==
  /\ row \in Records /\ mem \in Records /\ task \in [Processes -> Tasks] /\ worker \in Workers
  /\ owner \in Processes \cup {"none"} /\ queue \in Nat /\ timers \in Nat /\ requests \in Nat
  /\ up \in BOOLEAN /\ crossed \in BOOLEAN

\* What an operation does to the record it is given
Ops == {"stop", "pause", "resume", "retry", "delete", "mark"}
NotScheduled(r) == r = NoRecord \/ r.status # "scheduled"
\* No operation but mark_scheduled makes a job scheduled.
LEMMA ChangedType ==
  ASSUME NEW op \in Ops, NEW r \in Record
  PROVE  /\ op = "delete" => Changed(op, r) = NoRecord
         /\ op # "delete" => Changed(op, r) \in Record
         /\ op # "mark" => NotScheduled(Changed(op, r))
<1>1. \A s \in JobStatus : [r EXCEPT !.status = s] \in Record /\ [r EXCEPT !.status = s].status = s
  BY DEF Record
<1>2. {"stopped", "paused", "running", "scheduled", "pending"} \subseteq JobStatus
  BY DEF JobStatus
<1>3. Reset(r.results) \in [Accounts -> ResultStatus]
  BY DEF Reset, Record, ResultStatus
<1>4. [status |-> "pending", results |-> Reset(r.results), due |-> FALSE] \in Record
  BY <1>2, <1>3 DEF Record
<1>5. \A s : [status |-> "pending", results |-> s, due |-> FALSE].status = "pending"
  OBVIOUS
<1> HIDE DEF Reset
<1>6. CASE op = "retry"
  BY <1>4, <1>5, <1>6, NoRecordAssumption DEF Changed, NotScheduled
<1>7. CASE op = "delete"
  BY <1>7 DEF Changed, NotScheduled
<1>8. CASE op = "stop"
  BY <1>1, <1>2, <1>8 DEF Changed, NotScheduled
<1>9. CASE op = "pause"
  BY <1>1, <1>2, <1>9 DEF Changed, NotScheduled
<1>10. CASE op = "resume"
  BY <1>1, <1>2, <1>10 DEF Changed, NotScheduled
<1>11. CASE op = "mark"
  BY <1>1, <1>2, <1>11 DEF Changed, NotScheduled
<1> QED BY <1>6, <1>7, <1>8, <1>9, <1>10, <1>11 DEF Ops

\* Only the task of one process changes.
OnlyTask(p, t) == task' = [task EXCEPT ![p] = t]

LEMMA TaskFields ==
  ASSUME Typed, NEW p \in Processes, NEW at, NEW op, NEW n, NEW b, NEW d
  PROVE  /\ [task EXCEPT ![p].at = at] = [task EXCEPT ![p] = [task[p] EXCEPT !.at = at]]
         /\ [task EXCEPT ![p].at = at, ![p].base = b]
              = [task EXCEPT ![p] = [task[p] EXCEPT !.at = at, !.base = b]]
         /\ [task EXCEPT ![p].at = at, ![p].op = op]
              = [task EXCEPT ![p] = [task[p] EXCEPT !.at = at, !.op = op]]
         /\ [task EXCEPT ![p].at = at, ![p].base = b, ![p].new = n]
              = [task EXCEPT ![p] = [task[p] EXCEPT !.at = at, !.base = b, !.new = n]]
         /\ [task EXCEPT ![p].at = at, ![p].new = n, ![p].base = b]
              = [task EXCEPT ![p] = [task[p] EXCEPT !.at = at, !.new = n, !.base = b]]
BY DEF Typed, Tasks

\* What the other proofs need to know of requests, restore and worker
Sensible ==
  /\ \A p \in Processes : At(p) = "read" => task[p].op \in Ops
  /\ \A p \in Processes : At(p) = "put" => (task[p].new = NoRecord <=> task[p].op = "delete")
  /\ \A p \in Processes : At(p) = "commit" => task[p].new # NoRecord
  /\ worker.at = "save" => worker.rec # NoRecord
  /\ worker.final # "scheduled"
  /\ At("client") # "wait" /\ task["restore"].op \notin RowFirst
  /\ At("restore") = "wait" =>
       /\ task["restore"].new # NoRecord /\ task["restore"].base = task["restore"].new
       /\ task["restore"].due <=> task["restore"].new.status = "scheduled"

\* No run goes on, and none is to come.
Still == worker = IdleWorker /\ queue = 0 /\ timers = 0
\* While the backend is down, and before the first request, there is nothing.
DownInv == ~up => /\ Still /\ owner = "none" /\ mem = NoRecord
                  /\ \A p \in Processes : task[p] = Idle
FirstInv == requests = 0 => /\ Still /\ row = NoRecord /\ mem = NoRecord
                            /\ \A p \in Processes : task[p] = Idle

\* The steps of a request and of mark_scheduled: it reads the row, ...
TaskReads(p, t) ==
  /\ At(p) = "read" /\ t.at = "put" /\ t.op = task[p].op /\ t.due = task[p].due
  /\ row \in Record /\ t.op \in Ops /\ t.new = Changed(t.op, row)
  /\ t.op \in RowFirst => NotScheduled(row)
  /\ UNCHANGED <<up, row, mem, owner, queue, timers, worker, requests, crossed>>
\* ... writes memory, ...
TaskPuts(p, t) ==
  /\ At(p) = "put" /\ task[p].op \notin RowFirst /\ t.at = "commit" /\ t.op = task[p].op /\ t.due = task[p].due
  /\ t.new = task[p].new /\ t.base = row
  /\ mem' = t.new /\ owner' = p
  /\ crossed' = (crossed \/ row # task[p].base)
  /\ UNCHANGED <<up, row, queue, timers, worker, requests>>
\* ... commits, ...
TaskCommits(p, t) ==
  /\ At(p) = "commit" /\ t.at \in {"timer", "enqueue", "idle"}
  /\ t.op \in {task[p].op, "none"} /\ (t.due => task[p].due)
  /\ row' \in Records
  /\ mem = task[p].new /\ row = task[p].base => row' = mem
  /\ NotScheduled(task[p].new) /\ NotScheduled(mem) /\ NotScheduled(row) => NotScheduled(row')
  /\ owner' = IF owner = p THEN "none" ELSE owner
  /\ crossed' = (crossed \/ row # task[p].base \/ owner # p)
  /\ UNCHANGED <<up, mem, queue, timers, worker, requests>>
\* ... or commits first, to which a row that is gone puts an end, ...
TaskSaves(p, t) ==
  /\ At(p) = "put" /\ task[p].op \in RowFirst
  /\ row' = task[p].new
  /\ crossed' = (crossed \/ row # task[p].base \/ owner # "none")
  /\ \/ t = Idle /\ row' = row
     \/ /\ t.at = "install" /\ t.op = task[p].op /\ t.due = task[p].due
        /\ t.new = task[p].new /\ t.base = mem
  /\ UNCHANGED <<up, mem, owner, queue, timers, worker, requests>>
\* ... and then writes memory, ...
TaskInstalls(p, t) ==
  /\ At(p) = "install" /\ task[p].op \in RowFirst
  /\ t.at \in {"enqueue", "idle"} /\ t.op \in {task[p].op, "none"} /\ (t.due => task[p].due)
  /\ mem' = task[p].new /\ owner' = "none"
  /\ crossed' = (crossed \/ mem # task[p].base \/ row # task[p].new)
  /\ UNCHANGED <<up, row, queue, timers, worker, requests>>
\* ... and moves on, to the queue or to a timer.
TaskMoves(p, t) ==
  /\ At(p) \in {"read", "enqueue", "timer"} /\ t.at \in {"idle", "read", "timer"}
  /\ t.op \in {task[p].op, "none", "mark"} /\ (t.due => task[p].due)
  /\ t.op = "mark" /\ task[p].op # "mark" => task[p].due
  /\ t.at \in {"read", "timer"} => t.op = "mark"
  /\ At(p) = "read" => UNCHANGED <<queue, timers>>
  /\ queue' \in Nat /\ timers' \in Nat
  /\ UNCHANGED <<up, row, mem, owner, worker, requests, crossed>>
TaskSteps(p, t) ==
  \/ TaskReads(p, t) \/ TaskPuts(p, t) \/ TaskCommits(p, t)
  \/ TaskSaves(p, t) \/ TaskInstalls(p, t) \/ TaskMoves(p, t)

LEMMA IdleTask ==
  /\ Idle \in Tasks /\ Idle.at = "idle" /\ Idle.op = "none" /\ ~Idle.due
  /\ Idle.new = NoRecord /\ Idle.base = NoRecord
BY DEF Idle, Tasks, Records

\* Each action of a unit of work is such a step.
LEMMA UnitReads ==
  ASSUME Typed, Sensible, NEW p \in Processes, ReadRow(p)
  PROVE  \E t \in Tasks : OnlyTask(p, t) /\ TaskSteps(p, t)
<1>1. task[p] \in Tasks /\ At(p) = "read" /\ task[p].op \in Ops /\ row \in Records
      /\ queue \in Nat /\ timers \in Nat
  BY DEF Typed, Sensible, ReadRow, At
<1>2. UNCHANGED <<up, row, mem, owner, queue, timers, worker, requests, crossed>>
  BY DEF ReadRow, jobVars, memVars, dispVars, runVars
<1>3. CASE Accepts(task[p].op, row)
  <2> DEFINE t == [task[p] EXCEPT !.at = "put", !.base = row, !.new = Changed(task[p].op, row)]
  <2>1. row \in Record
    BY <1>1, <1>3 DEF Accepts, Records
  <2>2. Changed(task[p].op, row) \in Records
    BY <1>1, <2>1, ChangedType DEF Records
  <2>3. t \in Tasks /\ t.at = "put" /\ t.op = task[p].op /\ t.due = task[p].due /\ t.new = Changed(task[p].op, row)
    BY <1>1, <2>2 DEF Tasks
  <2>6. task' = [task EXCEPT ![p].at = "put", ![p].base = row, ![p].new = Changed(task[p].op, row)]
    BY <1>3 DEF ReadRow
  <2>4. OnlyTask(p, t)
    BY <2>6 DEF OnlyTask, Typed, Tasks
  <2> HIDE DEF t
  <2>7. task[p].op \in RowFirst => NotScheduled(row)
    BY <1>3 DEF Accepts, RowFirst, NotScheduled, Retryable, Active
  <2>5. TaskReads(p, t)
    BY <1>1, <1>2, <2>1, <2>3, <2>7 DEF TaskReads
  <2> QED BY <2>3, <2>4, <2>5 DEF TaskSteps
<1>4. CASE ~Accepts(task[p].op, row) /\ task[p].op = "mark"
  <2> DEFINE t == [task[p] EXCEPT !.at = "timer"]
  <2>1. t \in Tasks /\ t.at = "timer" /\ t.op = "mark" /\ t.due = task[p].due
    BY <1>1, <1>4 DEF Tasks
  <2>2. OnlyTask(p, t)
    BY <1>4, TaskFields DEF ReadRow, OnlyTask, Goto
  <2> HIDE DEF t
  <2>3. TaskMoves(p, t)
    BY <1>1, <1>2, <1>4, <2>1 DEF TaskMoves
  <2> QED BY <2>1, <2>2, <2>3 DEF TaskSteps
<1>5. CASE ~Accepts(task[p].op, row) /\ task[p].op # "mark"
  <2>1. OnlyTask(p, Idle)
    BY <1>5 DEF ReadRow, OnlyTask, Done
  <2>2. TaskMoves(p, Idle)
    BY <1>1, <1>2, IdleTask DEF TaskMoves
  <2> QED BY <2>1, <2>2, IdleTask DEF TaskSteps
<1> QED BY <1>3, <1>4, <1>5

LEMMA UnitPuts ==
  ASSUME Typed, Sensible, NEW p \in Processes, PutRecord(p)
  PROVE  \E t \in Tasks : OnlyTask(p, t) /\ TaskSteps(p, t)
<1> DEFINE t == [task[p] EXCEPT !.at = "commit", !.base = row]
<1>1. task[p] \in Tasks /\ row \in Records
  BY DEF Typed
<1>2. /\ t \in Tasks /\ t.at = "commit" /\ t.op = task[p].op /\ t.due = task[p].due
      /\ t.new = task[p].new /\ t.base = row
  BY <1>1 DEF Tasks
<1>3. OnlyTask(p, t)
  <2>1. task' = [task EXCEPT ![p].at = "commit", ![p].base = row]
    BY DEF PutRecord
  <2> QED BY <2>1 DEF OnlyTask, Typed, Tasks
<1> HIDE DEF t
<1>4. TaskPuts(p, t)
  BY <1>2 DEF TaskPuts, PutRecord, At, dispVars, runVars
<1> QED BY <1>2, <1>3, <1>4 DEF TaskSteps

LEMMA UnitCommits ==
  ASSUME Typed, Sensible, NEW p \in Processes, CommitRow(p)
  PROVE  \E t \in Tasks : OnlyTask(p, t) /\ TaskSteps(p, t)
<1>1. /\ task[p] \in Tasks /\ row \in Records /\ mem \in Records /\ At(p) = "commit"
      /\ task[p].new \in Records /\ task[p].base \in Records
      /\ task[p].new \in Record
  BY DEF Typed, Sensible, CommitRow, At, Tasks, Records
<1> DEFINE new == IF owner = p /\ mem # NoRecord
                  THEN [task[p].new EXCEPT !.results = mem.results] ELSE task[p].new
           fails == task[p].base # NoRecord /\ row = NoRecord
<1>2. row' = IF task[p].base = NoRecord THEN new
             ELSE IF fails THEN NoRecord ELSE Merge(new, task[p].base)
  BY DEF CommitRow
<1>3. /\ new \in Record /\ new.status = task[p].new.status
      /\ mem = task[p].new => new = mem
  <2>1. CASE owner = p /\ mem # NoRecord
    <3>1. task[p].new \in Record /\ mem \in Record
      BY <1>1, <2>1 DEF Records
    <3>2. mem.results \in [Accounts -> ResultStatus]
      BY <3>1 DEF Record
    <3>3. new = [task[p].new EXCEPT !.results = mem.results]
      BY <2>1
    <3>4. new \in Record /\ new.status = task[p].new.status
      BY <3>1, <3>2, <3>3 DEF Record
    <3>5. mem = task[p].new => new = mem
      BY <3>1, <3>3 DEF Record
    <3> HIDE DEF new
    <3> QED BY <2>1, <3>4, <3>5 DEF Records
  <2>2. CASE ~(owner = p /\ mem # NoRecord)
    BY <1>1, <2>2 DEF Records
  <2> QED BY <2>1, <2>2
<1> HIDE DEF new
<1>4. row' \in Records
  BY <1>1, <1>2, <1>3, MergeType DEF Records
<1>5. mem = task[p].new /\ row = task[p].base => row' = mem
  BY <1>1, <1>2, <1>3, MergeType DEF Records
<1>6. NotScheduled(task[p].new) /\ NotScheduled(row) => NotScheduled(row')
  <2> SUFFICES ASSUME NotScheduled(task[p].new), NotScheduled(row), row' # NoRecord
               PROVE  row'.status # "scheduled"
    BY DEF NotScheduled
  <2>1. new.status # "scheduled"
    BY <1>1, <1>3, NoRecordAssumption DEF NotScheduled
  <2>2. CASE task[p].base # NoRecord
    <3>1. task[p].base \in Record /\ row \in Record /\ row' = Merge(new, task[p].base)
      BY <1>1, <1>2, <2>2 DEF Records
    <3>2. row.status # "scheduled"
      BY <3>1, NoRecordAssumption DEF NotScheduled
    <3>3. row'.status \in {new.status, row.status}
      BY <1>3, <3>1, MergeType
    <3> QED BY <2>1, <3>2, <3>3
  <2> QED BY <1>2, <2>1, <2>2
<1>7. \E at \in {"timer", "enqueue"} : task' = [task EXCEPT ![p] = [task[p] EXCEPT !.at = at]]
      \/ task' = [task EXCEPT ![p] = Idle]
  BY <1>1, TaskFields DEF CommitRow, Goto, Done
<1>8. PICK t \in Tasks : /\ OnlyTask(p, t) /\ t.at \in {"timer", "enqueue", "idle"}
                         /\ t.op \in {task[p].op, "none"} /\ (t.due => task[p].due)
  <2>1. ASSUME NEW at \in {"timer", "enqueue"}
        PROVE  /\ [task[p] EXCEPT !.at = at] \in Tasks
               /\ [task[p] EXCEPT !.at = at].at = at
               /\ [task[p] EXCEPT !.at = at].op = task[p].op
               /\ [task[p] EXCEPT !.at = at].due = task[p].due
    BY <1>1 DEF Tasks
  <2> QED BY <1>7, <2>1, IdleTask DEF OnlyTask
<1>9. TaskCommits(p, t)
  BY <1>1, <1>4, <1>5, <1>6, <1>8 DEF TaskCommits, CommitRow, dispVars, runVars
<1> QED BY <1>8, <1>9 DEF TaskSteps

LEMMA UnitSaves ==
  ASSUME Typed, Sensible, NEW p \in Processes, SaveRow(p)
  PROVE  \E t \in Tasks : OnlyTask(p, t) /\ TaskSteps(p, t)
<1>1. /\ task[p] \in Tasks /\ mem \in Records /\ At(p) = "put" /\ task[p].op \in RowFirst
      /\ row' = task[p].new /\ (task[p].op = "delete" => task[p].new = NoRecord)
      /\ crossed' = (crossed \/ row # task[p].base \/ owner # "none")
      /\ UNCHANGED <<up, mem, owner, queue, timers, worker, requests>>
  BY DEF Typed, Sensible, SaveRow, At, memVars, dispVars, runVars
<1>2. CASE task[p].op = "delete" /\ row = NoRecord
  <2>1. OnlyTask(p, Idle)
    BY <1>2 DEF SaveRow, OnlyTask, Done
  <2>2. TaskSaves(p, Idle)
    BY <1>1, <1>2 DEF TaskSaves
  <2> QED BY <2>1, <2>2, IdleTask DEF TaskSteps
<1>3. CASE ~(task[p].op = "delete" /\ row = NoRecord)
  <2> DEFINE t == [task[p] EXCEPT !.at = "install", !.base = mem]
  <2>1. /\ t \in Tasks /\ t.at = "install" /\ t.op = task[p].op /\ t.due = task[p].due
        /\ t.new = task[p].new /\ t.base = mem
    BY <1>1 DEF Tasks
  <2>2. task' = [task EXCEPT ![p].at = "install", ![p].base = mem]
    BY <1>3 DEF SaveRow
  <2>3. OnlyTask(p, t)
    BY <2>2 DEF OnlyTask, Typed, Tasks
  <2> HIDE DEF t
  <2>4. TaskSaves(p, t)
    BY <1>1, <2>1 DEF TaskSaves
  <2> QED BY <2>1, <2>3, <2>4 DEF TaskSteps
<1> QED BY <1>2, <1>3

LEMMA UnitInstalls ==
  ASSUME Typed, Sensible, NEW p \in Processes, InstallRecord(p)
  PROVE  \E t \in Tasks : OnlyTask(p, t) /\ TaskSteps(p, t)
<1>1. /\ task[p] \in Tasks /\ At(p) = "install" /\ task[p].op \in RowFirst
      /\ mem' = task[p].new /\ owner' = "none"
      /\ crossed' = (crossed \/ mem # task[p].base \/ row # task[p].new)
      /\ UNCHANGED <<up, row, queue, timers, worker, requests>>
  BY DEF Typed, InstallRecord, At, dispVars
<1>2. CASE task[p].op = "delete"
  <2>1. OnlyTask(p, Idle)
    BY <1>2 DEF InstallRecord, OnlyTask, Done
  <2>2. TaskInstalls(p, Idle)
    BY <1>1, IdleTask DEF TaskInstalls
  <2> QED BY <2>1, <2>2, IdleTask DEF TaskSteps
<1>3. CASE task[p].op # "delete"
  <2> DEFINE t == [task[p] EXCEPT !.at = "enqueue"]
  <2>1. t \in Tasks /\ t.at = "enqueue" /\ t.op = task[p].op /\ t.due = task[p].due
    BY <1>1 DEF Tasks
  <2>2. OnlyTask(p, t)
    BY <1>3, TaskFields DEF InstallRecord, OnlyTask, Goto
  <2> HIDE DEF t
  <2>3. TaskInstalls(p, t)
    BY <1>1, <2>1 DEF TaskInstalls
  <2> QED BY <2>1, <2>2, <2>3 DEF TaskSteps
<1> QED BY <1>2, <1>3

LEMMA UnitMoves ==
  ASSUME Typed, Sensible, NEW p \in Processes, Handle(p)
  PROVE  \E t \in Tasks : OnlyTask(p, t) /\ TaskSteps(p, t)
<1>1. task[p] \in Tasks /\ queue \in Nat /\ timers \in Nat
  BY DEF Typed
<1>2. CASE Enqueue(p) \/ SetTimer(p)
  <2>1. OnlyTask(p, Idle) /\ At(p) \in {"enqueue", "timer"}
    BY <1>2 DEF Enqueue, SetTimer, OnlyTask, Done, At
  <2>2. TaskMoves(p, Idle)
    BY <1>1, <1>2, <2>1, IdleTask DEF Enqueue, SetTimer, TaskMoves, jobVars, memVars, runVars, histVars
  <2> QED BY <2>1, <2>2, IdleTask DEF TaskSteps
<1>3. CASE EnqueueLater(p)
  <2> DEFINE t == [task[p] EXCEPT !.at = "read", !.op = "mark"]
  <2>1. t \in Tasks /\ t.at = "read" /\ t.op = "mark" /\ t.due = task[p].due
    BY <1>1 DEF Tasks
  <2>4. /\ task' = [task EXCEPT ![p].at = "read", ![p].op = "mark"]
        /\ At(p) = "enqueue" /\ task[p].due
    BY <1>3 DEF EnqueueLater, At
  <2>2. OnlyTask(p, t) /\ At(p) = "enqueue" /\ task[p].due
    BY <2>4 DEF OnlyTask, Typed, Tasks
  <2> HIDE DEF t
  <2>3. TaskMoves(p, t)
    BY <1>1, <1>3, <2>1, <2>2 DEF EnqueueLater, TaskMoves, jobVars, memVars, dispVars, runVars
  <2> QED BY <2>1, <2>2, <2>3 DEF TaskSteps
<1> QED BY <1>2, <1>3, UnitReads, UnitPuts, UnitCommits, UnitSaves, UnitInstalls DEF Handle

\* A request begins, which changes nothing but its task and the control state.
RequestSteps(t) ==
  /\ up /\ task["client"] = Idle /\ t.at \in {"read", "idle"} /\ ~t.due
  /\ t.op \in (Ops \ {"mark"}) \cup {"none"} /\ (t.at = "read" => t.op # "none")
  /\ requests' = requests + 1
  /\ UNCHANGED <<up, row, mem, owner, queue, timers, worker, crossed>>

LEMMA RequestMoves ==
  ASSUME Request, ~\E w \in {"now", "time", "bad"} : CreatePost(w)
  PROVE  \E t \in Tasks : OnlyTask("client", t) /\ RequestSteps(t)
<1> DEFINE T(op, at) == [Idle EXCEPT !.op = op, !.at = at]
<1>1. ASSUME NEW op \in (Ops \ {"mark"}) \cup {"none"}, NEW at \in {"read", "idle"}
      PROVE  T(op, at) \in Tasks /\ T(op, at).at = at /\ T(op, at).op = op /\ ~T(op, at).due
  BY DEF Idle, Tasks, Records, Ops
<1>2. ASSUME NEW op \in (Ops \ {"mark"}) \cup {"none"}, NEW at \in {"read", "idle"}, Begin(op, at),
             at = "read" => op # "none",
             UNCHANGED <<up, row, mem, owner, queue, timers, worker, crossed>>
      PROVE  \E t \in Tasks : OnlyTask("client", t) /\ RequestSteps(t)
  <2>1. OnlyTask("client", T(op, at))
    BY <1>2 DEF Begin, OnlyTask
  <2>2. RequestSteps(T(op, at))
    <3> HIDE DEF T
    <3> QED BY <1>1, <1>2 DEF RequestSteps, Begin
  <2> QED BY <1>1, <2>1, <2>2
<1> HIDE DEF T
<1>3. {"stop", "pause", "resume", "retry", "delete", "none"} \subseteq (Ops \ {"mark"}) \cup {"none"}
  BY DEF Ops
<1>4. CASE StopPost
  BY <1>2, <1>3, <1>4 DEF StopPost, dispVars
<1>5. CASE PausePost
  BY <1>2, <1>3, <1>5 DEF PausePost, dispVars, runVars
<1>6. CASE ResumePost
  BY <1>2, <1>3, <1>6 DEF ResumePost, dispVars
<1>7. CASE RetryPost
  BY <1>2, <1>3, <1>7 DEF RetryPost, dispVars
<1>8. CASE DeletePost
  BY <1>2, <1>3, <1>8 DEF DeletePost, dispVars, runVars, jobVars, memVars
<1> QED BY <1>4, <1>5, <1>6, <1>7, <1>8 DEF Request

\* The client's first request makes the record.
CreateSteps(t) ==
  /\ up /\ requests = 0 /\ requests' = 1
  /\ t.at = "commit" /\ t.op = "create" /\ t.new \in Record /\ t.base = NoRecord
  /\ mem' = t.new /\ owner' = "client"
  /\ UNCHANGED <<up, row, queue, timers, worker, crossed>>

LEMMA CreateMoves ==
  ASSUME NEW w \in {"now", "time", "bad"}, CreatePost(w)
  PROVE  \E t \in Tasks : OnlyTask("client", t) /\ CreateSteps(t)
<1> DEFINE rec == [status |-> IF w = "now" THEN "pending" ELSE "scheduled",
                   results |-> [a \in Accounts |-> "pending"], due |-> w = "time"]
           t == [at |-> "commit", op |-> "create", new |-> rec, base |-> NoRecord, due |-> rec.due]
<1>1. rec \in Record
  BY DEF Record, JobStatus, ResultStatus
<1>2. t \in Tasks /\ t.at = "commit" /\ t.op = "create" /\ t.new = rec /\ t.base = NoRecord
  BY <1>1 DEF Tasks, Records
<1>3. OnlyTask("client", t) /\ mem' = rec
  BY DEF CreatePost, OnlyTask
<1>4. up /\ requests = 0 /\ requests' = 1 /\ owner' = "client" /\ UNCHANGED <<up, row, queue, timers, worker, crossed>>
  BY DEF CreatePost, dispVars
<1> HIDE DEF rec, t
<1>5. CreateSteps(t)
  BY <1>1, <1>2, <1>3, <1>4 DEF CreateSteps
<1> QED BY <1>2, <1>3, <1>5

\* The worker and its threads, up to the copy of the record: they change memory
\* within a run only, and no job becomes a scheduled one.
RunSteps ==
  /\ ~Still /\ worker.at # "install"
  /\ worker' \in Workers /\ mem' \in Records /\ queue' \in Nat
  /\ worker'.rec \in {worker.rec, NoRecord, mem} /\ worker'.final # "scheduled"
  /\ worker'.at # "install" /\ (worker'.at = "save" => worker'.rec # NoRecord)
  /\ mem' = NoRecord <=> mem = NoRecord
  /\ NotScheduled(mem) => NotScheduled(mem')
  /\ worker'.at = "idle" => (worker.at = "idle" /\ mem' = mem) \/ mem = NoRecord
  /\ UNCHANGED <<up, row, owner, task, timers, requests, crossed>>

LEMMA IdleWorkerFields ==
  /\ IdleWorker \in Workers /\ IdleWorker.at = "idle" /\ IdleWorker.rec = NoRecord
  /\ IdleWorker.final # "scheduled"
  /\ \A r \in Records : /\ [IdleWorker EXCEPT !.at = "save", !.rec = r] \in Workers
                        /\ [IdleWorker EXCEPT !.at = "save", !.rec = r].at = "save"
                        /\ [IdleWorker EXCEPT !.at = "save", !.rec = r].rec = r
                        /\ [IdleWorker EXCEPT !.at = "save", !.rec = r].final # "scheduled"
BY DEF IdleWorker, Workers, Records, JobStatus

LEMMA RunMoves ==
  ASSUME Typed, Sensible,
         TakeJob \/ EnterRun \/ StartRun \/ TallyRun \/ FinishRun \/ Cleanup \/ SyncRead
  PROVE  RunSteps
<1> USE DEF WGoto
<1>1. /\ worker \in Workers /\ mem \in Records /\ queue \in Nat /\ worker.final \in JobStatus
      /\ worker.final # "scheduled" /\ (mem # NoRecord => mem \in Record)
  BY DEF Typed, Sensible, Records, Workers
<1>2. worker.at # "idle" => ~Still
  BY IdleWorkerFields DEF Still
<1>3. CASE TakeJob
  <2>1. /\ UNCHANGED <<up, row, mem, owner, task, timers, requests, crossed>>
        /\ queue' = queue - 1 /\ queue > 0 /\ worker.at = "idle"
        /\ worker' = worker \/ worker' = [worker EXCEPT !.at = "enter"]
    BY <1>3 DEF TakeJob
  <2>2. queue' \in Nat /\ ~Still
    BY <1>1, <2>1 DEF Still
  <2>3. /\ worker' \in Workers /\ worker'.rec = worker.rec /\ worker'.final = worker.final
        /\ worker'.at \in {"idle", "enter"}
    BY <1>1, <2>1 DEF Workers
  <2> QED BY <1>1, <2>1, <2>2, <2>3 DEF RunSteps
<1>4. CASE EnterRun
  <2>1. /\ UNCHANGED <<up, row, owner, queue, task, timers, requests, crossed>> /\ worker.at = "enter"
        /\ \E at \in {"start", "sync"} : worker' = [worker EXCEPT !.at = at]
        /\ mem' = mem \/ (mem # NoRecord /\ mem' = Refused(mem))
    BY <1>4 DEF EnterRun, dispVars, MemIs
  <2>2. ASSUME mem \in Record PROVE Refused(mem) \in Record /\ Refused(mem).status = "failed"
    <3> DEFINE res == Settle(mem.results, "failed")
    <3>1. res \in [Accounts -> ResultStatus]
      BY <2>2 DEF Settle, Record, ResultStatus
    <3>2. "failed" \in JobStatus
      BY DEF JobStatus
    <3>3. Refused(mem) = [mem EXCEPT !.status = "failed", !.results = res]
      BY DEF Refused
    <3> HIDE DEF res
    <3> QED BY <2>2, <3>1, <3>2, <3>3 DEF Record
  <2>3. /\ mem' \in Records /\ (mem' = NoRecord <=> mem = NoRecord)
        /\ NotScheduled(mem) => NotScheduled(mem')
    BY <1>1, <2>1, <2>2, NoRecordAssumption DEF Records, NotScheduled
  <2>4. /\ worker' \in Workers /\ worker'.rec = worker.rec /\ worker'.final = worker.final
        /\ worker'.at \in {"start", "sync"}
    BY <1>1, <2>1 DEF Workers
  <2> QED BY <1>1, <1>2, <2>1, <2>3, <2>4 DEF RunSteps
<1>5. CASE StartRun
  <2>1. /\ UNCHANGED <<up, row, owner, queue, task, timers, requests, crossed>> /\ worker.at = "start"
        /\ \E at \in {"uploads", "sync"} : worker' = [worker EXCEPT !.at = at]
        /\ \/ mem = NoRecord /\ mem' = mem
           \/ mem # NoRecord /\ mem' = [mem EXCEPT !.status = "running"]
    BY <1>5 DEF StartRun, dispVars
  <2>2. "running" \in JobStatus
    BY DEF JobStatus
  <2>3. /\ mem' \in Records /\ (mem' = NoRecord <=> mem = NoRecord)
        /\ NotScheduled(mem) => NotScheduled(mem')
    BY <1>1, <2>1, <2>2, NoRecordAssumption DEF Records, Record, NotScheduled
  <2>4. /\ worker' \in Workers /\ worker'.rec = worker.rec /\ worker'.final = worker.final
        /\ worker'.at \in {"uploads", "sync"}
    BY <1>1, <2>1 DEF Workers
  <2> QED BY <1>1, <1>2, <2>1, <2>3, <2>4 DEF RunSteps
<1>6. CASE TallyRun
  <2> DEFINE s == FinalStatus(Tally(mem.results, Accounts))
  <2>1. s \in JobStatus /\ s # "scheduled"
    BY DEF FinalStatus, JobStatus
  <2>2. /\ UNCHANGED <<up, row, mem, owner, queue, task, timers, requests, crossed>> /\ worker.at = "uploads"
        /\ \/ worker' = [worker EXCEPT !.at = "cleanup"]
           \/ worker' = [worker EXCEPT !.at = "final", !.final = s]
    BY <1>6 DEF TallyRun, dispVars
  <2> HIDE DEF s
  <2>3. /\ worker' \in Workers /\ worker'.rec = worker.rec /\ worker'.final # "scheduled"
        /\ worker'.at \in {"cleanup", "final"}
    <3>1. CASE worker' = [worker EXCEPT !.at = "cleanup"]
      BY <1>1, <3>1 DEF Workers
    <3>2. CASE worker' = [worker EXCEPT !.at = "final", !.final = s]
      BY <1>1, <2>1, <3>2 DEF Workers
    <3> QED BY <2>2, <3>1, <3>2
  <2> QED BY <1>1, <1>2, <2>2, <2>3 DEF RunSteps
<1>7. CASE FinishRun
  <2>1. /\ UNCHANGED <<up, row, owner, queue, task, timers, requests, crossed>> /\ worker.at = "final"
        /\ worker' = [worker EXCEPT !.at = "cleanup"]
        /\ mem' = IF mem = NoRecord THEN mem ELSE [mem EXCEPT !.status = worker.final]
    BY <1>7 DEF FinishRun, dispVars
  <2>2. /\ mem' \in Records /\ (mem' = NoRecord <=> mem = NoRecord)
        /\ NotScheduled(mem) => NotScheduled(mem')
    BY <1>1, <2>1, NoRecordAssumption DEF Records, Record, NotScheduled
  <2>3. /\ worker' \in Workers /\ worker'.rec = worker.rec /\ worker'.final = worker.final
        /\ worker'.at = "cleanup"
    BY <1>1, <2>1 DEF Workers
  <2> QED BY <1>1, <1>2, <2>1, <2>2, <2>3 DEF RunSteps
<1>8. CASE Cleanup
  <2>1. /\ UNCHANGED <<up, row, mem, owner, queue, task, timers, requests, crossed>> /\ worker.at = "cleanup"
        /\ worker' = [worker EXCEPT !.at = "sync"]
    BY <1>8 DEF Cleanup, jobVars, memVars, dispVars
  <2>2. /\ worker' \in Workers /\ worker'.rec = worker.rec /\ worker'.final = worker.final
        /\ worker'.at = "sync"
    BY <1>1, <2>1 DEF Workers
  <2> QED BY <1>1, <1>2, <2>1, <2>2 DEF RunSteps
<1>9. CASE SyncRead
  <2>1. /\ UNCHANGED <<up, row, mem, owner, queue, task, timers, requests, crossed>> /\ worker.at = "sync"
        /\ \/ mem = NoRecord /\ worker' = IdleWorker
           \/ mem # NoRecord /\ worker' = [IdleWorker EXCEPT !.at = "save", !.rec = mem]
    BY <1>9 DEF SyncRead, jobVars, memVars, dispVars
  <2> QED BY <1>1, <1>2, <2>1, IdleWorkerFields DEF RunSteps
<1> QED BY <1>3, <1>4, <1>5, <1>6, <1>7, <1>8, <1>9

LEMMA ThreadMoves ==
  ASSUME Typed, Sensible, ThreadsInRun, OuterDeadline \/ \E a \in Accounts : Upload(a)
  PROVE  RunSteps
<1>1. /\ worker \in Workers /\ mem \in Records /\ queue \in Nat /\ worker.final # "scheduled"
      /\ (mem # NoRecord => mem \in Record)
  BY DEF Typed, Sensible, Records
<1>2. worker.at = "uploads"
  BY DEF OuterDeadline, Upload, SkipUpload, CheckPause, BeginUpload, EndUpload, ThreadsInRun
<1>3. ~Still
  BY <1>2, IdleWorkerFields DEF Still
<1>4. UNCHANGED <<up, row, owner, task, queue, timers, worker, requests, crossed>>
  BY DEF OuterDeadline, Upload, SkipUpload, CheckPause, BeginUpload, EndUpload, restOfUpload, dispVars
<1>5. mem' = mem \/ (mem # NoRecord /\ \E res \in [Accounts -> ResultStatus] : mem' = [mem EXCEPT !.results = res])
  <2>1. ASSUME NEW a \in Accounts, NEW s \in ResultStatus, SetResult(a, s)
        PROVE  mem' = mem \/ (mem # NoRecord /\ \E res \in [Accounts -> ResultStatus] : mem' = [mem EXCEPT !.results = res])
    <3>1. CASE mem # NoRecord
      <4>1. mem' = [mem EXCEPT !.results = [mem.results EXCEPT ![a] = s]]
        BY <1>1, <2>1, <3>1 DEF SetResult, Record
      <4>2. [mem.results EXCEPT ![a] = s] \in [Accounts -> ResultStatus]
        BY <1>1, <3>1 DEF Record
      <4> QED BY <3>1, <4>1, <4>2
    <3>2. CASE mem = NoRecord
      BY <2>1, <3>2 DEF SetResult
    <3> QED BY <3>1, <3>2
  <2>2. CASE OuterDeadline
    <3> DEFINE late == {a \in Accounts : thread[a] # "none"}
               res == [a \in Accounts |-> IF a \in late /\ mem.results[a] \notin Settled THEN "failed" ELSE mem.results[a]]
    <3>1. CASE mem # NoRecord
      <4>1. mem' = [mem EXCEPT !.results = res]
        BY <1>1, <2>2, <3>1 DEF OuterDeadline, Record
      <4>2. res \in [Accounts -> ResultStatus]
        BY <1>1, <3>1 DEF Record, ResultStatus
      <4> QED BY <3>1, <4>1, <4>2
    <3>2. CASE mem = NoRecord
      BY <2>2, <3>2 DEF OuterDeadline
    <3> QED BY <3>1, <3>2
  <2>3. CASE \E a \in Accounts : Upload(a)
    <3>1. {"skipped", "uploading", "failed", "success"} \subseteq ResultStatus
      BY DEF ResultStatus
    <3>2. mem' = mem \/ \E a \in Accounts, s \in ResultStatus : SetResult(a, s)
      BY <2>3, <3>1 DEF Upload, SkipUpload, CheckPause, BeginUpload, EndUpload
    <3> QED BY <2>1, <3>2
  <2> QED BY <2>2, <2>3
<1>6. /\ mem' \in Records /\ (mem' = NoRecord <=> mem = NoRecord)
      /\ NotScheduled(mem) => NotScheduled(mem')
  <2>1. CASE mem # NoRecord
    <3>1. mem' \in Record /\ mem'.status = mem.status
      BY <1>1, <1>5, <2>1 DEF Record
    <3> QED BY <2>1, <3>1, NoRecordAssumption DEF Records, NotScheduled
  <2>2. CASE mem = NoRecord
    BY <1>1, <1>5, <2>2
  <2> QED BY <2>1, <2>2
<1> QED BY <1>1, <1>2, <1>3, <1>4, <1>6 DEF RunSteps, Sensible

\* The copy back, which writes the row, and then memory.
SaveSteps ==
  /\ worker.at = "save" /\ row' = worker.rec /\ worker.rec # NoRecord
  /\ crossed' = (crossed \/ mem # worker.rec \/ owner # "none")
  /\ worker' \in Workers /\ worker'.at = "install" /\ worker'.rec = worker.rec
  /\ worker'.final # "scheduled"
  /\ UNCHANGED <<up, mem, owner, queue, timers, task, requests>>
InstallSteps ==
  /\ worker.at = "install" /\ mem' = worker.rec /\ owner' = "none" /\ worker' = IdleWorker
  /\ crossed' = (crossed \/ mem # worker.rec)
  /\ UNCHANGED <<up, row, queue, timers, task, requests>>

LEMMA CopyMoves ==
  ASSUME Typed, Sensible, SyncSave \/ SyncInstall
  PROVE  SaveSteps \/ InstallSteps
<1>1. CASE SyncSave
  <2>1. worker \in Workers /\ worker.at = "save" /\ worker.rec # NoRecord /\ worker.final # "scheduled"
    BY <1>1 DEF SyncSave, Typed, Sensible
  <2>2. worker' = [worker EXCEPT !.at = "install"]
    BY <1>1 DEF SyncSave, WGoto
  <2>3. worker' \in Workers /\ worker'.at = "install" /\ worker'.rec = worker.rec /\ worker'.final = worker.final
    BY <2>1, <2>2 DEF Workers
  <2> QED BY <1>1, <2>1, <2>3 DEF SyncSave, SaveSteps, memVars, dispVars
<1>2. CASE SyncInstall
  BY <1>2 DEF SyncInstall, InstallSteps, dispVars
<1> QED BY <1>1, <1>2


\* The restart puts the row in memory and may leave a job to the restore, which
\* enqueues it or refuses it, in the row and then in memory.
RestartSteps(t) ==
  /\ ~up /\ up' = TRUE /\ mem' = row
  /\ \/ t = Idle
     \/ /\ t.at = "wait" /\ t.op = "restore" /\ t.new = row /\ t.base = row /\ row # NoRecord
        /\ t.due <=> row.status = "scheduled"
  /\ UNCHANGED <<row, owner, queue, timers, worker, requests, crossed>>
ResumeSteps(t) ==
  /\ At("restore") = "wait" /\ t.at = "enqueue" /\ t.op = task["restore"].op
  /\ UNCHANGED <<up, row, mem, owner, queue, timers, worker, requests, crossed>>
RefuseSteps(t) ==
  /\ At("restore") = "wait" /\ task["restore"].due /\ ~task["restore"].new.due
  /\ row' \in Record /\ row'.status = "failed"
  /\ crossed' = (crossed \/ row # task["restore"].base)
  /\ t.at = "install" /\ t.op = task["restore"].op /\ t.new = row' /\ t.base = mem
  /\ UNCHANGED <<up, mem, owner, queue, timers, worker, requests>>
ReplaceSteps(t) ==
  /\ At("restore") = "install" /\ t = Idle
  /\ mem' = task["restore"].new /\ owner' = "none"
  /\ crossed' = (crossed \/ mem # task["restore"].base)
  /\ UNCHANGED <<up, row, queue, timers, worker, requests>>
RestoreSteps(t) == RestartSteps(t) \/ ResumeSteps(t) \/ RefuseSteps(t) \/ ReplaceSteps(t)

LEMMA RestoreMoves ==
  ASSUME Typed, Sensible, DownInv, Restore
  PROVE  \E t \in Tasks : OnlyTask("restore", t) /\ RestoreSteps(t)
<1>1. task["restore"] \in Tasks /\ row \in Records /\ mem \in Records
      /\ task \in [Processes -> Tasks] /\ "restore" \in Processes
  BY DEF Typed, Processes
<1>2. CASE Restart
  <2>0. task["restore"] = Idle
    BY <1>1, <1>2 DEF Restart, DownInv
  <2>1. CASE Eligible
    <3> DEFINE t == [Idle EXCEPT !.at = "wait", !.op = "restore", !.new = row, !.base = row,
                                 !.due = row.status = "scheduled"]
    <3>1. /\ t \in Tasks /\ t.at = "wait" /\ t.op = "restore" /\ t.new = row /\ t.base = row
          /\ t.due = (row.status = "scheduled")
      BY <1>1 DEF Idle, Tasks, Records
    <3>2. task' = [task EXCEPT !["restore"] = t]
      BY <1>2, <2>1 DEF Restart
    <3> HIDE DEF t
    <3> QED BY <1>2, <2>1, <3>1, <3>2 DEF Restart, Eligible, OnlyTask, RestoreSteps, RestartSteps,
               dispVars, runVars
  <2>2. CASE ~Eligible
    <3>1. task' = [task EXCEPT !["restore"] = Idle]
      BY <1>1, <1>2, <2>0, <2>2 DEF Restart
    <3> QED BY <1>2, <3>1, IdleTask DEF Restart, OnlyTask, RestoreSteps, RestartSteps, dispVars, runVars
  <2> QED BY <2>1, <2>2
<1>3. CASE RestoreEnqueues
  <2> DEFINE t == [task["restore"] EXCEPT !.at = "enqueue"]
  <2>1. t \in Tasks /\ t.at = "enqueue" /\ t.op = task["restore"].op
    BY <1>1 DEF Tasks
  <2>2. task' = [task EXCEPT !["restore"] = t]
    BY <1>1, <1>3 DEF RestoreEnqueues, Goto, Tasks
  <2> HIDE DEF t
  <2> QED BY <1>3, <2>1, <2>2 DEF RestoreEnqueues, OnlyTask, RestoreSteps, ResumeSteps, At, jobVars,
             memVars, dispVars, runVars
<1>4. CASE RestoreRefuses
  <2> DEFINE res == [a \in Accounts |-> "failed"]
             t == [task["restore"] EXCEPT !.at = "install", !.new = row', !.base = mem]
  <2>1. /\ At("restore") = "wait" /\ task["restore"].due /\ ~task["restore"].new.due
        /\ row' = [task["restore"].new EXCEPT !.status = "failed", !.results = res]
        /\ task' = [task EXCEPT !["restore"].at = "install", !["restore"].new = row',
                                !["restore"].base = mem]
        /\ crossed' = (crossed \/ row # task["restore"].base)
        /\ UNCHANGED <<up, mem, owner, queue, timers, worker, requests>>
    BY <1>4 DEF RestoreRefuses, At, memVars, dispVars, runVars
  <2>2. task["restore"].new \in Record
    BY <1>1, <2>1 DEF Sensible, Tasks, Records
  <2>3. res \in [Accounts -> ResultStatus] /\ "failed" \in JobStatus
    BY DEF ResultStatus, JobStatus
  <2> HIDE DEF res
  <2>4. row' \in Record /\ row'.status = "failed"
    BY <2>1, <2>2, <2>3 DEF Record
  <2>5. t \in Tasks /\ t.at = "install" /\ t.op = task["restore"].op /\ t.new = row' /\ t.base = mem
    BY <1>1, <2>4 DEF Tasks, Records
  <2>6. task' = [task EXCEPT !["restore"] = t]
    BY <1>1, <2>1 DEF Tasks
  <2> HIDE DEF t
  <2> QED BY <2>1, <2>4, <2>5, <2>6 DEF OnlyTask, RestoreSteps, RefuseSteps
<1>5. CASE RestoreInstalls
  BY <1>5, IdleTask DEF RestoreInstalls, Done, OnlyTask, RestoreSteps, ReplaceSteps, At, dispVars, runVars
<1> QED BY <1>2, <1>3, <1>4, <1>5 DEF Restore

\* A commit that fails to match memory, or is not the last to have written it, and
\* one that will make the row what memory is
Doomed(p) == At(p) = "commit" /\ owner # p
Committing(p) == At(p) = "commit" /\ owner = p /\ mem = task[p].new /\ row = task[p].base

\* Outside of a run the two differ only while a commit, or a write of memory after
\* one, is under way that makes them the same, or one that will have crossed another.
Explained ==
  \/ \E p \in Processes : Doomed(p) \/ Committing(p)
  \/ row = mem /\ \A p \in Processes : At(p) # "commit"
  \/ \E p \in Processes : At(p) = "install"
ExplainedInv ==
  up /\ ~crossed /\ (worker.at \in {"idle", "install"} \/ mem = NoRecord) => Explained

\* While the restore has the job in its hands, no request makes it scheduled.
ClientInv == At("restore") \in {"wait", "install"} =>
  /\ task["client"].op \notin {"create", "mark"} /\ ~task["client"].due
  /\ At("client") \in {"put", "commit", "install"} => NotScheduled(task["client"].new)

\* A scheduled job that the restore will refuse is as it was at startup, or a
\* request has taken it out of the schedule, in the row and in memory.
Refusing == At("restore") = "wait" /\ task["restore"].due /\ ~task["restore"].new.due
Untouched == /\ row = task["restore"].base /\ Still
             /\ At("client") \in {"idle", "read", "put", "commit"}
             /\ At("client") = "put" => task["client"].op \notin RowFirst
Touched == NotScheduled(row) /\ NotScheduled(mem) /\ NotScheduled(worker.rec)
WaitInv == ~crossed /\ Refusing => ~NotScheduled(task["restore"].base) /\ (Untouched \/ Touched)

\* The refusal is in the row.  It crosses a write if memory does not wait as it did
\* then, or if a request is committing, or one that has committed finds it so.
Overtaken == /\ At("client") = "commit" /\ (owner # "client" \/ row # task["client"].base)
             /\ Still /\ row = task["restore"].new
Undisturbed == /\ mem = task["restore"].base /\ ~NotScheduled(mem)
               /\ row = task["restore"].new /\ Still /\ At("client") \in {"idle", "read", "put"}
Superseded == /\ ~NotScheduled(task["restore"].base)
              /\ NotScheduled(mem) /\ NotScheduled(worker.rec)
Retaken == At("client") = "install" /\ ~NotScheduled(task["restore"].base) /\ Still
InstallInv == ~crossed /\ At("restore") = "install"
                => Overtaken \/ Undisturbed \/ Superseded \/ Retaken

RowInv == /\ Typed /\ Sensible /\ DownInv /\ FirstInv
          /\ ExplainedInv /\ ClientInv /\ WaitInv /\ InstallInv

LEMMA OneTask ==
  ASSUME Typed, NEW p \in Processes, NEW t \in Tasks, OnlyTask(p, t)
  PROVE  /\ task' \in [Processes -> Tasks] /\ task'[p] = t
         /\ \A q \in Processes : q # p => task'[q] = task[q]
BY DEF Typed, OnlyTask

\* What a step may be: the cases of the proofs below.
Steps ==
  \/ \E t \in Tasks : OnlyTask("client", t) /\ (RequestSteps(t) \/ CreateSteps(t))
  \/ \E p \in Processes, t \in Tasks : OnlyTask(p, t) /\ TaskSteps(p, t)
  \/ \E t \in Tasks : OnlyTask("restore", t) /\ RestoreSteps(t)
  \/ RunSteps \/ SaveSteps \/ InstallSteps
  \/ TimerFires \/ Crash \/ UNCHANGED vars

LEMMA Moves ==
  ASSUME RowInv, CutInv, [Next]_vars
  PROVE  Steps
<1>1. Typed /\ Sensible /\ DownInv /\ ThreadsInRun
  BY DEF RowInv, CutInv
<1>2. CASE Request
  BY <1>2, RequestMoves, CreateMoves DEF Steps
<1>3. CASE \E p \in Processes : Handle(p)
  BY <1>1, <1>3, UnitMoves DEF Steps
<1>4. CASE Work
  BY <1>1, <1>4, RunMoves, CopyMoves DEF Work, Steps
<1>5. CASE OuterDeadline \/ \E a \in Accounts : Upload(a)
  BY <1>1, <1>5, ThreadMoves DEF Steps
<1>6. CASE Restore
  BY <1>1, <1>6, RestoreMoves DEF Steps
<1>7. CASE TimerFires \/ Crash \/ UNCHANGED vars
  BY <1>7 DEF Steps
<1> QED BY <1>2, <1>3, <1>4, <1>5, <1>6, <1>7 DEF Next

\* Steps of one task change nothing in those of others, and what the steps of the
\* worker change has its type.
LEMMA TypedStep ==
  ASSUME RowInv, Steps
  PROVE  Typed'
<1>0. Typed /\ Sensible
  BY DEF RowInv
<1>1. ASSUME NEW t \in Tasks, OnlyTask("client", t), RequestSteps(t) \/ CreateSteps(t) PROVE Typed'
  <2>1. task' \in [Processes -> Tasks]
    BY <1>0, <1>1, OneTask DEF Processes
  <2> QED BY <1>0, <1>1, <2>1 DEF Typed, RequestSteps, CreateSteps, Records, Processes
<1>2. ASSUME NEW p \in Processes, NEW t \in Tasks, OnlyTask(p, t), TaskSteps(p, t) PROVE Typed'
  <2>1. task' \in [Processes -> Tasks]
    BY <1>0, <1>2, OneTask
  <2>2. t.new \in Records /\ task[p].new \in Records
    BY <1>0, <1>2 DEF Tasks, Typed
  <2> QED BY <1>0, <1>2, <2>1, <2>2 DEF Typed, TaskSteps, TaskReads, TaskPuts, TaskCommits, TaskSaves,
      TaskInstalls, TaskMoves
<1>3. ASSUME NEW t \in Tasks, OnlyTask("restore", t), RestoreSteps(t) PROVE Typed'
  <2>1. task' \in [Processes -> Tasks] /\ task["restore"] \in Tasks
    BY <1>0, <1>3, OneTask DEF Processes, Typed
  <2>2. task["restore"].new \in Records
    BY <2>1 DEF Tasks
  <2> QED BY <1>0, <1>3, <2>1, <2>2 DEF Typed, RestoreSteps, RestartSteps, ResumeSteps, RefuseSteps,
             ReplaceSteps, Records
<1>4. CASE RunSteps
  BY <1>0, <1>4 DEF Typed, RunSteps
<1>5. CASE SaveSteps \/ InstallSteps
  <2>1. worker.rec \in Records
    BY <1>0 DEF Typed, Workers
  <2> QED BY <1>0, <1>5, <2>1, IdleWorkerFields DEF Typed, SaveSteps, InstallSteps
<1>6. CASE TimerFires
  BY <1>0, <1>6 DEF Typed, TimerFires, jobVars, memVars, runVars
<1>7. CASE Crash
  BY <1>0, <1>7, IdleTask, IdleWorkerFields DEF Typed, Crash, Records
<1>8. CASE UNCHANGED vars
  BY <1>0, <1>8 DEF Typed, vars, jobVars, memVars, dispVars, runVars
<1> QED BY <1>1, <1>2, <1>3, <1>4, <1>5, <1>6, <1>7, <1>8 DEF Steps

LEMMA SensibleStep ==
  ASSUME RowInv, Steps
  PROVE  Sensible'
<1>0. Typed /\ Sensible /\ FirstInv
  BY DEF RowInv
<1> USE DEF At
<1>1. ASSUME NEW t \in Tasks, OnlyTask("client", t), RequestSteps(t) \/ CreateSteps(t) PROVE Sensible'
  <2>1. task'["client"] = t /\ \A q \in Processes : q # "client" => task'[q] = task[q]
    BY <1>0, <1>1, OneTask DEF Processes
  <2>2. t.new \in Record => t.new # NoRecord
    BY NoRecordAssumption
  <2>3. CASE RequestSteps(t)
    BY <1>0, <1>1, <2>1, <2>3 DEF Sensible, RequestSteps, Processes
  <2>4. CASE CreateSteps(t)
    BY <1>0, <1>1, <2>1, <2>2, <2>4 DEF Sensible, CreateSteps, Processes
  <2> QED BY <1>1, <2>3, <2>4
<1>2. ASSUME NEW p \in Processes, NEW t \in Tasks, OnlyTask(p, t), TaskSteps(p, t) PROVE Sensible'
  <2>1. task'[p] = t /\ \A q \in Processes : q # p => task'[q] = task[q]
    BY <1>0, <1>2, OneTask
  <2>2. worker' = worker
    BY <1>2 DEF TaskSteps, TaskReads, TaskPuts, TaskCommits, TaskSaves,
      TaskInstalls, TaskMoves
  <2>3. /\ t.at = "put" => (t.new = NoRecord <=> t.op = "delete")
        /\ t.at = "commit" => t.new # NoRecord
        /\ t.at # "wait" /\ (p = "restore" => t.op \notin RowFirst)
        /\ t.at = "read" => t.op \in Ops
    <3>1. CASE TaskReads(p, t)
      BY <1>0, <3>1, ChangedType, NoRecordAssumption DEF TaskReads, Sensible
    <3>2. CASE TaskPuts(p, t)
      BY <1>0, <3>2 DEF TaskPuts, Sensible, RowFirst
    <3>3. CASE TaskCommits(p, t) \/ TaskMoves(p, t)
      BY <1>0, <3>3 DEF TaskCommits, TaskMoves, Ops, Sensible, RowFirst
    <3>4. CASE TaskSaves(p, t) \/ TaskInstalls(p, t)
      BY <1>0, <3>4, IdleTask DEF TaskSaves, TaskInstalls, Sensible, RowFirst
    <3> QED BY <1>2, <3>1, <3>2, <3>3, <3>4 DEF TaskSteps
  <2> QED BY <1>0, <2>1, <2>2, <2>3 DEF Sensible, Processes
<1>3. ASSUME NEW t \in Tasks, OnlyTask("restore", t), RestoreSteps(t) PROVE Sensible'
  <2>1. task'["restore"] = t /\ \A q \in Processes : q # "restore" => task'[q] = task[q]
    BY <1>0, <1>3, OneTask DEF Processes
  <2>2. worker' = worker
    BY <1>3 DEF RestoreSteps, RestartSteps, ResumeSteps, RefuseSteps, ReplaceSteps
  <2>3. /\ t.at \notin {"read", "put", "commit"} /\ t.op \notin RowFirst
        /\ t.at = "wait" => /\ t.new # NoRecord /\ t.base = t.new
                            /\ t.due <=> t.new.status = "scheduled"
    BY <1>0, <1>3, IdleTask DEF RestoreSteps, RestartSteps, ResumeSteps, RefuseSteps, ReplaceSteps,
       Sensible, RowFirst
  <2> QED BY <1>0, <2>1, <2>2, <2>3 DEF Sensible, Processes
<1>4. CASE RunSteps \/ SaveSteps \/ InstallSteps
  BY <1>0, <1>4, IdleWorkerFields DEF Sensible, RunSteps, SaveSteps, InstallSteps
<1>5. CASE TimerFires \/ UNCHANGED vars
  BY <1>0, <1>5 DEF Sensible, TimerFires, vars, runVars
<1>6. CASE Crash
  <2>1. worker' = IdleWorker /\ \A p \in Processes : task'[p] = Idle
    BY <1>6 DEF Crash
  <2> QED BY <2>1, IdleTask, IdleWorkerFields DEF Sensible, Processes, RowFirst
<1> QED BY <1>1, <1>2, <1>3, <1>4, <1>5, <1>6 DEF Steps

\* Both before the first request and while the backend is down nothing steps but a
\* request, a crash and a restart.
LEMMA DownStep ==
  ASSUME RowInv, Steps
  PROVE  DownInv' /\ FirstInv'
<1>0. Typed /\ DownInv /\ FirstInv /\ requests \in Nat
  BY DEF RowInv, Typed
<1>1. ASSUME NEW t \in Tasks, OnlyTask("client", t), RequestSteps(t) \/ CreateSteps(t)
      PROVE  DownInv' /\ FirstInv'
  BY <1>0, <1>1 DEF DownInv, FirstInv, RequestSteps, CreateSteps
<1>2. ASSUME NEW p \in Processes, NEW t \in Tasks, OnlyTask(p, t), TaskSteps(p, t)
      PROVE  DownInv' /\ FirstInv'
  <2>1. task[p] # Idle
    BY <1>2, IdleTask DEF TaskSteps, TaskReads, TaskPuts, TaskCommits, TaskSaves,
      TaskInstalls, TaskMoves, At
  <2>2. up' = up /\ requests' = requests
    BY <1>2 DEF TaskSteps, TaskReads, TaskPuts, TaskCommits, TaskSaves,
      TaskInstalls, TaskMoves
  <2> QED BY <1>0, <2>1, <2>2 DEF DownInv, FirstInv
<1>3. ASSUME NEW t \in Tasks, OnlyTask("restore", t), RestoreSteps(t)
      PROVE  DownInv' /\ FirstInv'
  <2>1. CASE RestartSteps(t)
    <3>1. task'["restore"] = t /\ \A q \in Processes : q # "restore" => task'[q] = task[q]
      BY <1>0, <1>3, OneTask DEF Processes
    <3> QED BY <1>0, <2>1, <3>1 DEF RestartSteps, DownInv, FirstInv, Still
  <2>2. CASE ~RestartSteps(t)
    <3>1. task["restore"] # Idle /\ up' = up /\ requests' = requests
      BY <1>3, <2>2, IdleTask DEF RestoreSteps, ResumeSteps, RefuseSteps, ReplaceSteps, At
    <3> QED BY <1>0, <3>1 DEF DownInv, FirstInv, Processes
  <2> QED BY <2>1, <2>2
<1>4. CASE RunSteps \/ SaveSteps \/ InstallSteps \/ TimerFires
  <2>1. ~Still /\ up' = up /\ requests' = requests
    <3>1. CASE TimerFires
      BY <1>0, <3>1 DEF Still, TimerFires, Typed
    <3>2. CASE RunSteps \/ SaveSteps \/ InstallSteps
      BY <3>2, IdleWorkerFields DEF Still, RunSteps, SaveSteps, InstallSteps
    <3> QED BY <1>4, <3>1, <3>2
  <2> QED BY <1>0, <2>1 DEF DownInv, FirstInv
<1>5. CASE Crash
  <2>1. /\ Still' /\ owner' = "none" /\ mem' = NoRecord /\ row' = row /\ requests' = requests
        /\ \A p \in Processes : task'[p] = Idle
    BY <1>5 DEF Crash, Still
  <2> QED BY <1>0, <2>1 DEF DownInv, FirstInv
<1>6. CASE UNCHANGED vars
  BY <1>0, <1>6 DEF DownInv, FirstInv, Still, vars, jobVars, memVars, dispVars, runVars
<1> QED BY <1>1, <1>2, <1>3, <1>4, <1>5, <1>6 DEF Steps

\* Steps that write neither the row nor memory, and commit nothing
LEMMA ExplainedKept ==
  ASSUME ExplainedInv, UNCHANGED <<row, owner, crossed>>, up' => up,
         worker'.at \in {"idle", "install"} \/ mem' = NoRecord
           => mem' = mem /\ (worker.at \in {"idle", "install"} \/ mem = NoRecord),
         \A p \in Processes :
           IF At(p) = "commit" THEN task'[p] = task[p] ELSE At(p)' # "commit",
         \A p \in Processes : At(p) = "install" => At(p)' = "install"
  PROVE  ExplainedInv'
<1> SUFFICES ASSUME up', ~crossed', worker'.at \in {"idle", "install"} \/ mem' = NoRecord
             PROVE  Explained'
  BY DEF ExplainedInv
<1>1. Explained /\ mem' = mem
  BY DEF ExplainedInv
<1>2. CASE \E p \in Processes : Doomed(p) \/ Committing(p)
  <2>1. PICK p \in Processes : Doomed(p) \/ Committing(p)
    BY <1>2
  <2>2. At(p) = "commit" /\ task'[p] = task[p]
    BY <2>1 DEF Doomed, Committing
  <2>3. (At(p) = "commit" /\ owner # p)' \/ (At(p) = "commit" /\ owner = p /\ mem = task[p].new /\ row = task[p].base)'
    BY <1>1, <2>1, <2>2 DEF Doomed, Committing, At
  <2> QED BY <2>3 DEF Explained, Doomed, Committing
<1>3. CASE row = mem /\ \A p \in Processes : At(p) # "commit"
  BY <1>1, <1>3 DEF Explained
<1>4. CASE \E p \in Processes : At(p) = "install"
  BY <1>4 DEF Explained
<1> QED BY <1>1, <1>2, <1>3, <1>4 DEF Explained

LEMMA ExplainedTasks ==
  ASSUME RowInv, NEW p \in Processes, NEW t \in Tasks, OnlyTask(p, t), TaskSteps(p, t)
  PROVE  ExplainedInv'
<1>0. /\ Typed /\ ExplainedInv /\ task'[p] = t
      /\ \A q \in Processes : q # p => task'[q] = task[q]
  BY OneTask DEF RowInv
<1>1. CASE TaskReads(p, t) \/ TaskMoves(p, t)
  BY <1>0, <1>1, ExplainedKept DEF TaskReads, TaskMoves, At, Processes
<1>2. CASE TaskPuts(p, t)
  <2>1. (At(p) = "commit" /\ owner = p /\ mem = task[p].new /\ row = task[p].base)'
    BY <1>0, <1>2 DEF TaskPuts, At
  <2> QED BY <2>1 DEF Committing, Explained, ExplainedInv
<1>3. CASE TaskCommits(p, t)
  <2> SUFFICES ASSUME up', ~crossed', worker'.at \in {"idle", "install"} \/ mem' = NoRecord
               PROVE  Explained'
    BY DEF ExplainedInv
  <2>1. /\ At(p) = "commit" /\ owner = p /\ row = task[p].base /\ owner' = "none" /\ mem' = mem
        /\ Explained /\ At(p)' # "commit"
    BY <1>0, <1>3 DEF TaskCommits, ExplainedInv, At, Typed
  <2>2. ASSUME NEW q \in Processes, q # p, At(q) = "commit" PROVE Explained'
    <3>1. (At(q) = "commit" /\ owner # q)'
      BY <1>0, <2>1, <2>2 DEF At, Processes
    <3> QED BY <3>1 DEF Doomed, Explained
  <2>3. ASSUME NEW q \in Processes, At(q) = "install" PROVE Explained'
    BY <1>0, <2>1, <2>3 DEF Explained, At
  <2>4. CASE \A q \in Processes : At(q) # "install" /\ (q # p => At(q) # "commit")
    <3>1. mem = task[p].new
      BY <2>1, <2>4 DEF Explained, Doomed, Committing
    <3>2. row' = mem'
      BY <1>3, <2>1, <3>1 DEF TaskCommits
    <3>3. \A q \in Processes : At(q)' # "commit"
      BY <1>0, <2>1, <2>4 DEF At
    <3> QED BY <3>2, <3>3 DEF Explained
  <2> QED BY <2>2, <2>3, <2>4
<1>4. CASE TaskSaves(p, t)
  <2>1. CASE t.at = "install"
    <3>1. At(p)' = "install"
      BY <1>0, <2>1 DEF At
    <3> QED BY <3>1 DEF Explained, ExplainedInv
  <2>2. CASE t = Idle /\ row' = row /\ ~crossed'
    BY <1>0, <1>4, <2>2, IdleTask, ExplainedKept DEF TaskSaves, At, Processes, Typed
  <2>3. CASE crossed'
    BY <2>3 DEF ExplainedInv
  <2> QED BY <1>4, <2>1, <2>2, <2>3 DEF TaskSaves
<1>5. CASE TaskInstalls(p, t)
  <2> SUFFICES ASSUME ~crossed' PROVE Explained'
    BY DEF ExplainedInv
  <2>1. row' = mem' /\ owner' = "none"
    BY <1>0, <1>5 DEF TaskInstalls, Typed
  <2>2. ASSUME NEW q \in Processes, At(q)' = "commit" PROVE Explained'
    <3>1. (At(q) = "commit" /\ owner # q)'
      BY <2>1, <2>2 DEF Processes
    <3> QED BY <3>1 DEF Doomed, Explained
  <2> QED BY <2>1, <2>2 DEF Explained
<1> QED BY <1>1, <1>2, <1>3, <1>4, <1>5 DEF TaskSteps

LEMMA ExplainedRestore ==
  ASSUME RowInv, NEW t \in Tasks, OnlyTask("restore", t), RestoreSteps(t)
  PROVE  ExplainedInv'
<1>0. /\ Typed /\ ExplainedInv /\ DownInv /\ InstallInv /\ task'["restore"] = t
      /\ \A q \in Processes : q # "restore" => task'[q] = task[q]
  BY OneTask DEF RowInv, Processes
<1>1. CASE RestartSteps(t)
  <2>1. row' = mem' /\ \A q \in Processes : At(q)' # "commit"
    BY <1>0, <1>1, IdleTask DEF RestartSteps, DownInv, At, Processes
  <2> QED BY <2>1 DEF Explained, ExplainedInv
<1>2. CASE ResumeSteps(t)
  BY <1>0, <1>2, ExplainedKept DEF ResumeSteps, At, Processes
<1>3. CASE RefuseSteps(t)
  <2>1. At("restore")' = "install"
    BY <1>0, <1>3 DEF RefuseSteps, At
  <2> QED BY <2>1 DEF Explained, ExplainedInv, Processes
<1>4. CASE ReplaceSteps(t)
  <2> SUFFICES ASSUME ~crossed' PROVE Explained'
    BY DEF ExplainedInv
  <2>1. /\ Overtaken \/ Undisturbed \/ Superseded \/ Retaken
        /\ mem = task["restore"].base /\ mem' = task["restore"].new /\ owner' = "none" /\ row' = row
        /\ At("restore")' = "idle" /\ task'["client"] = task["client"]
    BY <1>0, <1>4, IdleTask DEF ReplaceSteps, InstallInv, At, Typed, Processes
  <2>2. CASE At("client") = "commit"
    <3>1. (At("client") = "commit" /\ owner # "client")'
      BY <2>1, <2>2 DEF At
    <3> QED BY <3>1 DEF Doomed, Explained, Processes
  <2>4. CASE At("client") = "install"
    <3>1. At("client")' = "install"
      BY <2>1, <2>4 DEF At
    <3> QED BY <3>1 DEF Explained, Processes
  <2>3. CASE At("client") \notin {"commit", "install"}
    <3>1. row = task["restore"].new
      BY <2>1, <2>3 DEF Overtaken, Undisturbed, Superseded, Retaken
    <3>2. \A q \in Processes : At(q)' # "commit"
      BY <2>1, <2>3 DEF At, Processes
    <3> QED BY <2>1, <3>1, <3>2 DEF Explained
  <2> QED BY <2>2, <2>3, <2>4
<1> QED BY <1>1, <1>2, <1>3, <1>4 DEF RestoreSteps

LEMMA ExplainedStep ==
  ASSUME RowInv, Steps
  PROVE  ExplainedInv'
<1>0. Typed /\ ExplainedInv /\ FirstInv
  BY DEF RowInv
<1>1. ASSUME NEW t \in Tasks, OnlyTask("client", t), RequestSteps(t) \/ CreateSteps(t)
      PROVE  ExplainedInv'
  <2>1. task'["client"] = t /\ \A q \in Processes : q # "client" => task'[q] = task[q]
    BY <1>0, <1>1, OneTask DEF Processes
  <2>2. CASE RequestSteps(t)
    BY <1>0, <2>1, <2>2, IdleTask, ExplainedKept DEF RequestSteps, At, Processes
  <2>3. CASE CreateSteps(t)
    <3>1. (At("client") = "commit" /\ owner = "client" /\ mem = task["client"].new /\ row = task["client"].base)'
      BY <1>0, <2>1, <2>3 DEF CreateSteps, FirstInv, At
    <3> QED BY <3>1 DEF Committing, Explained, ExplainedInv, Processes
  <2> QED BY <1>1, <2>2, <2>3
<1>2. CASE RunSteps
  <2>1. \A p \in Processes : task'[p] = task[p]
    BY <1>2 DEF RunSteps
  <2> QED BY <1>0, <1>2, <2>1, ExplainedKept DEF RunSteps, At
<1>3. CASE SaveSteps
  <2> SUFFICES ASSUME ~crossed' PROVE Explained'
    BY DEF ExplainedInv
  <2>1. owner' = "none" /\ row' = mem'
    BY <1>0, <1>3 DEF SaveSteps, Typed
  <2>2. ASSUME NEW q \in Processes, At(q)' = "commit" PROVE Explained'
    <3>1. (At(q) = "commit" /\ owner # q)'
      BY <2>1, <2>2 DEF Processes
    <3> QED BY <3>1 DEF Doomed, Explained
  <2> QED BY <2>1, <2>2 DEF Explained
<1>4. CASE InstallSteps
  <2> SUFFICES ASSUME up', ~crossed' PROVE Explained'
    BY DEF ExplainedInv
  <2>1. owner' = "none" /\ row' = row /\ mem' = mem /\ task' = task /\ Explained
    BY <1>0, <1>4 DEF InstallSteps, ExplainedInv, Typed
  <2>2. ASSUME NEW q \in Processes, At(q) = "commit" PROVE Explained'
    <3>1. (At(q) = "commit" /\ owner # q)'
      BY <2>1, <2>2 DEF Processes, At
    <3> QED BY <3>1 DEF Doomed, Explained
  <2>3. CASE \E q \in Processes : At(q) = "install"
    BY <2>1, <2>3 DEF Explained, At
  <2>4. CASE \A q \in Processes : At(q) \notin {"commit", "install"}
    BY <2>1, <2>4 DEF Explained, Doomed, Committing, At
  <2> QED BY <2>2, <2>3, <2>4
<1>5. CASE TimerFires \/ UNCHANGED vars
  <2>1. UNCHANGED <<up, row, mem, owner, worker, task, crossed>>
    BY <1>5 DEF TimerFires, vars, jobVars, memVars, runVars
  <2>2. \A p \in Processes : task'[p] = task[p]
    BY <2>1
  <2> QED BY <1>0, <2>1, <2>2, ExplainedKept DEF At
<1>6. CASE Crash
  BY <1>6 DEF Crash, ExplainedInv
<1> QED BY <1>1, <1>2, <1>3, <1>4, <1>5, <1>6, ExplainedTasks, ExplainedRestore DEF Steps

\* What the restore has in its hands is not made scheduled.
LEMMA ClientStep ==
  ASSUME RowInv, Steps
  PROVE  ClientInv'
<1>0. Typed /\ Sensible /\ ClientInv /\ DownInv /\ FirstInv
  BY DEF RowInv
<1> USE DEF At
<1>1. ASSUME NEW t \in Tasks, OnlyTask("client", t), RequestSteps(t) \/ CreateSteps(t)
      PROVE  ClientInv'
  <2>1. task'["client"] = t /\ task'["restore"] = task["restore"]
    BY <1>0, <1>1, OneTask DEF Processes
  <2>2. CASE RequestSteps(t)
    BY <2>1, <2>2 DEF RequestSteps, ClientInv, Ops
  <2>3. CASE CreateSteps(t)
    BY <1>0, <2>1, <2>3, IdleTask DEF CreateSteps, ClientInv, FirstInv, Processes
  <2> QED BY <1>1, <2>2, <2>3
<1>2. ASSUME NEW t \in Tasks, OnlyTask("client", t), TaskSteps("client", t) PROVE ClientInv'
  <2>1. task'["client"] = t /\ task'["restore"] = task["restore"]
    BY <1>0, <1>2, OneTask DEF Processes
  <2>2. CASE TaskReads("client", t)
    BY <1>0, <2>1, <2>2, ChangedType DEF TaskReads, ClientInv
  <2>3. CASE TaskPuts("client", t)
    BY <1>0, <2>1, <2>3 DEF TaskPuts, ClientInv
  <2>4. CASE TaskCommits("client", t) \/ TaskMoves("client", t)
    BY <1>0, <2>1, <2>4 DEF TaskCommits, TaskMoves, ClientInv
  <2>5. CASE TaskSaves("client", t) \/ TaskInstalls("client", t)
    BY <1>0, <2>1, <2>5, IdleTask DEF TaskSaves, TaskInstalls, ClientInv
  <2> QED BY <1>2, <2>2, <2>3, <2>4, <2>5 DEF TaskSteps
<1>3. ASSUME NEW t \in Tasks, OnlyTask("restore", t), TaskSteps("restore", t) \/ RestoreSteps(t)
      PROVE  ClientInv'
  <2>1. task'["restore"] = t /\ task'["client"] = task["client"]
    BY <1>0, <1>3, OneTask DEF Processes
  <2>2. CASE TaskSteps("restore", t)
    BY <1>0, <2>1, <2>2, IdleTask DEF Sensible, TaskSteps, TaskReads, TaskPuts, TaskCommits, TaskSaves,
      TaskInstalls, TaskMoves, ClientInv
  <2>3. CASE RestartSteps(t)
    BY <1>0, <2>1, <2>3, IdleTask DEF RestartSteps, ClientInv, DownInv, Processes
  <2>4. CASE ResumeSteps(t) \/ RefuseSteps(t) \/ ReplaceSteps(t)
    BY <1>0, <2>1, <2>4, IdleTask DEF ResumeSteps, RefuseSteps, ReplaceSteps, ClientInv
  <2> QED BY <1>3, <2>2, <2>3, <2>4 DEF RestoreSteps
<1>4. CASE RunSteps \/ SaveSteps \/ InstallSteps \/ TimerFires \/ UNCHANGED vars
  <2>1. task' = task
    BY <1>4 DEF RunSteps, SaveSteps, InstallSteps, TimerFires, vars
  <2> QED BY <1>0, <2>1 DEF ClientInv
<1>5. CASE Crash
  BY <1>5, IdleTask DEF Crash, ClientInv, Processes
<1> QED BY <1>1, <1>2, <1>3, <1>4, <1>5 DEF Steps, Processes

\* What keeps a job out of the schedule that a request took out of it
LEMMA TouchedKept ==
  ASSUME RowInv, ~crossed', At("restore") \in {"wait", "install"}, NotScheduled(mem),
         NotScheduled(worker.rec), \/ RunSteps \/ SaveSteps \/ InstallSteps
                                   \/ \E t \in Tasks : OnlyTask("client", t) /\ TaskSteps("client", t)
  PROVE  /\ NotScheduled(mem') /\ NotScheduled(worker'.rec) /\ task'["restore"] = task["restore"]
         /\ NotScheduled(row) => NotScheduled(row')
<1>0. Typed /\ ClientInv
  BY DEF RowInv
<1>1. CASE RunSteps
  BY <1>1 DEF RunSteps, NotScheduled
<1>2. CASE SaveSteps \/ InstallSteps
  BY <1>2, IdleWorkerFields DEF SaveSteps, InstallSteps, NotScheduled
<1>3. ASSUME NEW t \in Tasks, OnlyTask("client", t), TaskSteps("client", t)
      PROVE  /\ NotScheduled(mem') /\ NotScheduled(worker'.rec) /\ task'["restore"] = task["restore"]
             /\ NotScheduled(row) => NotScheduled(row')
  <2>1. task'["client"] = t /\ task'["restore"] = task["restore"]
    BY <1>0, <1>3, OneTask DEF Processes
  <2>2. CASE TaskReads("client", t) \/ TaskMoves("client", t)
    BY <2>1, <2>2 DEF TaskReads, TaskMoves
  <2>3. CASE TaskPuts("client", t)
    BY <1>0, <2>1, <2>3 DEF TaskPuts, ClientInv, At
  <2>4. CASE TaskCommits("client", t)
    <3>1. NotScheduled(task["client"].new)
      BY <1>0, <2>4 DEF TaskCommits, ClientInv, At
    <3> QED BY <2>1, <2>4, <3>1 DEF TaskCommits
  <2>5. CASE TaskSaves("client", t) \/ TaskInstalls("client", t)
    <3>1. NotScheduled(task["client"].new)
      BY <1>0, <2>5 DEF TaskSaves, TaskInstalls, ClientInv, At
    <3> QED BY <2>1, <2>5, <3>1 DEF TaskSaves, TaskInstalls, NotScheduled
  <2> QED BY <1>3, <2>2, <2>3, <2>4, <2>5 DEF TaskSteps
<1> QED BY <1>1, <1>2, <1>3

\* Steps of the restore itself, to or from the two places spoken of
LEMMA RestoreKept ==
  ASSUME RowInv, NEW t \in Tasks, OnlyTask("restore", t), TaskSteps("restore", t) \/ RestoreSteps(t)
  PROVE  WaitInv' /\ InstallInv'
<1>0. /\ Typed /\ Sensible /\ DownInv /\ ExplainedInv /\ ClientInv /\ WaitInv
      /\ task'["restore"] = t /\ task'["client"] = task["client"]
  BY OneTask DEF RowInv, Processes
<1>1. CASE TaskSteps("restore", t) \/ ResumeSteps(t) \/ ReplaceSteps(t)
  <2>1. t.at \notin {"wait", "install"}
    BY <1>0, <1>1, IdleTask DEF Sensible, TaskSteps, TaskReads, TaskPuts, TaskCommits, TaskSaves,
      TaskInstalls, TaskMoves, ResumeSteps, ReplaceSteps
  <2> QED BY <1>0, <2>1 DEF WaitInv, InstallInv, Refusing, At
<1>2. CASE RestartSteps(t)
  <2>1. t.at # "install" /\ (t.at = "wait" /\ t.due => t.base = row /\ ~NotScheduled(row))
    BY <1>2, IdleTask DEF RestartSteps, NotScheduled
  <2>2. Still' /\ row' = row /\ task["client"].at = "idle"
    BY <1>0, <1>2, IdleTask DEF RestartSteps, DownInv, Still, Processes
  <2>3. t.at = "wait" /\ t.due => Untouched' /\ ~NotScheduled(task["restore"].base)'
    BY <1>0, <2>1, <2>2 DEF Untouched, At, NotScheduled
  <2> QED BY <1>0, <2>1, <2>3 DEF WaitInv, InstallInv, Refusing, At
<1>3. CASE RefuseSteps(t)
  <2>1. t.at = "install"
    BY <1>3 DEF RefuseSteps
  <2>2. WaitInv'
    BY <1>0, <2>1 DEF WaitInv, Refusing, At
  <2>3. ASSUME ~crossed' PROVE (Overtaken \/ Undisturbed)'
    <3>1. /\ ~crossed /\ row = task["restore"].base /\ ~NotScheduled(row) /\ Untouched
          /\ row' = t.new /\ mem' = mem /\ t.base = mem /\ row' # row /\ Still'
          /\ owner' = owner
      BY <1>0, <1>3, <2>3 DEF RefuseSteps, WaitInv, Refusing, Untouched, Touched, Still, NotScheduled, Typed
    <3>2. Explained /\ At("restore") = "wait"
      <4>1. up
        BY <1>0, <1>3, IdleTask DEF RefuseSteps, DownInv, At, Processes
      <4>2. worker.at = "idle"
        BY <3>1, IdleWorkerFields DEF Untouched, Still
      <4> QED BY <1>0, <1>3, <3>1, <4>1, <4>2 DEF ExplainedInv, RefuseSteps
    <3>5. At("client") # "install"
      BY <3>1 DEF Untouched
    <3>3. CASE At("client") = "commit"
      <4>1. owner # "client" \/ row' # task["client"].base
        BY <3>1, <3>2, <3>3, <3>5 DEF Explained, Doomed, Committing, Processes
      <4> QED BY <1>0, <3>1, <3>3, <4>1 DEF Overtaken, At
    <3>4. CASE At("client") # "commit"
      <4>1. row = mem
        BY <3>2, <3>4, <3>5 DEF Explained, Doomed, Committing, Processes
      <4> QED BY <1>0, <3>1, <3>4, <4>1 DEF Undisturbed, Untouched, At, NotScheduled
    <3> QED BY <3>3, <3>4
  <2> QED BY <2>2, <2>3 DEF InstallInv
<1> QED BY <1>1, <1>2, <1>3 DEF RestoreSteps

\* While a refused job is as it was, only the client steps; and its commit takes
\* the job out of the schedule, in the row and in memory.
LEMMA WaitStep ==
  ASSUME RowInv, Steps
  PROVE  WaitInv'
<1> SUFFICES ASSUME ~crossed', Refusing' PROVE ~NotScheduled(task'["restore"].base) /\ (Untouched \/ Touched)'
  BY DEF WaitInv
<1>0. Typed /\ DownInv /\ FirstInv /\ ExplainedInv /\ ClientInv /\ WaitInv
  BY DEF RowInv
<1>1. ASSUME NEW t \in Tasks, OnlyTask("client", t), RequestSteps(t) \/ CreateSteps(t)
      PROVE  ~NotScheduled(task'["restore"].base) /\ (Untouched \/ Touched)'
  <2>1. task'["client"] = t /\ task'["restore"] = task["restore"]
    BY <1>0, <1>1, OneTask DEF Processes
  <2>2. RequestSteps(t)
    BY <1>0, <1>1, <2>1, IdleTask DEF CreateSteps, FirstInv, Processes, Refusing, At
  <2>3. ~NotScheduled(task["restore"].base) /\ (Untouched \/ Touched)
    BY <1>0, <2>1, <2>2 DEF RequestSteps, WaitInv, Refusing, At
  <2>4. CASE Untouched
    BY <2>1, <2>2, <2>3, <2>4 DEF RequestSteps, Untouched, Still, At
  <2>5. CASE Touched
    BY <2>1, <2>2, <2>3, <2>5 DEF RequestSteps, Touched
  <2> QED BY <2>3, <2>4, <2>5
<1>2. ASSUME RunSteps \/ SaveSteps \/ InstallSteps \/ TimerFires \/ Crash \/ UNCHANGED vars
      PROVE  ~NotScheduled(task'["restore"].base) /\ (Untouched \/ Touched)'
  <2>1. CASE Crash
    BY <2>1, IdleTask DEF Crash, Refusing, At, Processes
  <2>2. CASE RunSteps \/ SaveSteps \/ InstallSteps
    <3>1. task' = task /\ ~Still /\ ~crossed
      BY <1>0, <2>2, IdleWorkerFields DEF RunSteps, SaveSteps, InstallSteps, Still, Typed
    <3>2. ~NotScheduled(task["restore"].base) /\ Touched /\ At("restore") = "wait"
      BY <1>0, <3>1 DEF WaitInv, Refusing, At, Untouched
    <3>3. NotScheduled(mem') /\ NotScheduled(worker'.rec) /\ NotScheduled(row')
      BY <2>2, <3>2, TouchedKept DEF Touched
    <3> QED BY <3>1, <3>2, <3>3 DEF Touched, NotScheduled
  <2>3. CASE TimerFires
    <3>1. UNCHANGED <<row, mem, worker, task, crossed>> /\ ~Still
      BY <1>0, <2>3 DEF TimerFires, jobVars, memVars, runVars, Still, Typed
    <3>2. ~NotScheduled(task["restore"].base) /\ Touched
      BY <1>0, <3>1 DEF WaitInv, Refusing, At, Untouched
    <3> QED BY <3>1, <3>2 DEF Touched
  <2>4. CASE UNCHANGED vars
    <3>1. UNCHANGED <<row, mem, worker, queue, timers, task, crossed>>
      BY <2>4 DEF vars, jobVars, memVars, dispVars, runVars
    <3> QED BY <1>0, <3>1 DEF WaitInv, Refusing, At, Untouched, Touched, Still
  <2> QED BY <1>2, <2>1, <2>2, <2>3, <2>4
<1>3. ASSUME NEW t \in Tasks, OnlyTask("client", t), TaskSteps("client", t)
      PROVE  ~NotScheduled(task'["restore"].base) /\ (Untouched \/ Touched)'
  <2>1. task'["client"] = t /\ task'["restore"] = task["restore"] /\ ~crossed
    BY <1>0, <1>3, OneTask DEF Processes, TaskSteps, TaskReads, TaskPuts, TaskCommits, TaskSaves,
      TaskInstalls, TaskMoves, Typed
  <2>2. ~NotScheduled(task["restore"].base) /\ (Untouched \/ Touched) /\ At("restore") = "wait"
    BY <1>0, <2>1 DEF WaitInv, Refusing, At
  <2>3. CASE Touched
    <3>1. NotScheduled(mem') /\ NotScheduled(worker'.rec) /\ NotScheduled(row')
      BY <1>3, <2>2, <2>3, TouchedKept DEF Touched
    <3> QED BY <2>1, <2>2, <3>1 DEF Touched, NotScheduled
  <2>4. CASE Untouched /\ TaskCommits("client", t)
    <3>1. At("client") = "commit" /\ owner = "client" /\ mem' = mem /\ worker' = worker
      BY <1>0, <2>4 DEF TaskCommits, Typed
    <3>2. NotScheduled(task["client"].new)
      BY <1>0, <2>2, <3>1 DEF ClientInv
    <3>3. up
      BY <1>0, <3>1, IdleTask DEF DownInv, At, Processes
    <3>4. worker.at = "idle" /\ NotScheduled(worker.rec)
      BY <2>4, IdleWorkerFields DEF Untouched, Still, NotScheduled
    <3>5. mem = task["client"].new /\ row = task["client"].base
      BY <1>0, <2>1, <2>2, <3>1, <3>3, <3>4, <2>4 DEF Untouched, ExplainedInv, Explained, Doomed, Committing, Processes
    <3>6. row' = mem
      BY <2>4, <3>5 DEF TaskCommits
    <3> QED BY <2>1, <2>2, <3>1, <3>2, <3>4, <3>5, <3>6 DEF Touched, NotScheduled
  <2>5. CASE Untouched /\ ~TaskCommits("client", t)
    <3>2. ~TaskSaves("client", t) /\ ~TaskInstalls("client", t)
      BY <2>5 DEF Untouched, TaskSaves, TaskInstalls, At
    <3>3. ~NotScheduled(row)
      BY <2>2, <2>5 DEF Untouched
    <3>1. /\ UNCHANGED <<row, worker, queue, timers>> /\ t.at \in {"idle", "read", "put", "commit"}
          /\ t.at = "put" => t.op \notin RowFirst
      BY <1>0, <1>3, <2>2, <2>5, <3>2, <3>3 DEF TaskSteps, TaskReads, TaskPuts, TaskMoves, Untouched,
         ClientInv, At
    <3> QED BY <2>1, <2>2, <2>5, <3>1 DEF Untouched, Still, At, NotScheduled
  <2> QED BY <2>2, <2>3, <2>4, <2>5
<1>4. ASSUME NEW t \in Tasks, OnlyTask("restore", t), TaskSteps("restore", t) \/ RestoreSteps(t)
      PROVE  ~NotScheduled(task'["restore"].base) /\ (Untouched \/ Touched)'
  BY <1>4, RestoreKept DEF WaitInv
<1> QED BY <1>1, <1>2, <1>3, <1>4 DEF Steps, Processes

\* When the refusal is in the row, the client's commit crosses it; what the client
\* begins now takes the job out of the schedule in memory, and then the refusal
\* will cross that.
LEMMA InstallStep ==
  ASSUME RowInv, Steps
  PROVE  InstallInv'
<1> SUFFICES ASSUME ~crossed', At("restore")' = "install"
             PROVE  (Overtaken \/ Undisturbed \/ Superseded \/ Retaken)'
  BY DEF InstallInv
<1>0. Typed /\ DownInv /\ FirstInv /\ ClientInv /\ InstallInv
  BY DEF RowInv
<1>1. ASSUME NEW t \in Tasks, OnlyTask("client", t), RequestSteps(t) \/ CreateSteps(t)
      PROVE  (Overtaken \/ Undisturbed \/ Superseded \/ Retaken)'
  <2>1. task'["client"] = t /\ task'["restore"] = task["restore"]
    BY <1>0, <1>1, OneTask DEF Processes
  <2>2. RequestSteps(t) /\ At("client") # "commit"
    BY <1>0, <1>1, <2>1, IdleTask DEF CreateSteps, RequestSteps, FirstInv, Processes, At
  <2>3. Undisturbed \/ Superseded
    BY <1>0, <2>1, <2>2, IdleTask DEF RequestSteps, InstallInv, At, Overtaken, Retaken
  <2>4. CASE Undisturbed
    BY <2>1, <2>2, <2>4 DEF RequestSteps, Undisturbed, Still, At, NotScheduled
  <2>5. CASE Superseded
    BY <2>1, <2>2, <2>5 DEF RequestSteps, Superseded, NotScheduled
  <2> QED BY <2>3, <2>4, <2>5
<1>2. CASE RunSteps \/ SaveSteps \/ InstallSteps
  <2>1. task' = task /\ ~Still /\ ~crossed
    BY <1>0, <1>2, IdleWorkerFields DEF RunSteps, SaveSteps, InstallSteps, Still, Typed
  <2>2. Superseded /\ At("restore") = "install"
    BY <1>0, <2>1 DEF InstallInv, At, Overtaken, Undisturbed, Retaken
  <2>3. NotScheduled(mem') /\ NotScheduled(worker'.rec)
    BY <1>2, <2>2, TouchedKept DEF Superseded
  <2> QED BY <2>1, <2>2, <2>3 DEF Superseded, NotScheduled
<1>3. CASE TimerFires
  <2>1. UNCHANGED <<mem, worker, task, crossed>> /\ ~Still
    BY <1>0, <1>3 DEF TimerFires, jobVars, memVars, runVars, Still, Typed
  <2>2. Superseded
    BY <1>0, <2>1 DEF InstallInv, At, Overtaken, Undisturbed, Retaken
  <2> QED BY <2>1, <2>2 DEF Superseded
<1>4. CASE Crash
  BY <1>4, IdleTask DEF Crash, At, Processes
<1>5. CASE UNCHANGED vars
  <2>1. UNCHANGED <<row, mem, owner, worker, queue, timers, task, crossed>>
    BY <1>5 DEF vars, jobVars, memVars, dispVars, runVars
  <2> QED BY <1>0, <2>1 DEF InstallInv, At, Overtaken, Undisturbed, Superseded, Retaken, Still
<1>6. ASSUME NEW t \in Tasks, OnlyTask("client", t), TaskSteps("client", t)
      PROVE  (Overtaken \/ Undisturbed \/ Superseded \/ Retaken)'
  <2>1. task'["client"] = t /\ task'["restore"] = task["restore"] /\ ~crossed
    BY <1>0, <1>6, OneTask DEF Processes, TaskSteps, TaskReads, TaskPuts, TaskCommits, TaskSaves,
      TaskInstalls, TaskMoves, Typed
  <2>2. (Overtaken \/ Undisturbed \/ Superseded \/ Retaken) /\ At("restore") = "install"
    BY <1>0, <2>1 DEF InstallInv, At
  <2>3. ~Overtaken
    BY <1>6 DEF Overtaken, TaskSteps, TaskReads, TaskPuts, TaskCommits, TaskSaves,
      TaskInstalls, TaskMoves
  <2>4. CASE Superseded
    <3>1. NotScheduled(mem') /\ NotScheduled(worker'.rec)
      BY <1>6, <2>2, <2>4, TouchedKept DEF Superseded
    <3> QED BY <2>1, <2>4, <3>1 DEF Superseded, NotScheduled
  <2>5. CASE Undisturbed /\ TaskPuts("client", t)
    <3>1. NotScheduled(mem') /\ ~NotScheduled(task["restore"].base) /\ worker' = worker
      BY <1>0, <2>2, <2>5 DEF TaskPuts, ClientInv, Undisturbed, At
    <3>2. NotScheduled(worker.rec)
      BY <2>5, IdleWorkerFields DEF Undisturbed, Still, NotScheduled
    <3> QED BY <2>1, <3>1, <3>2 DEF Superseded, NotScheduled
  <2>7. CASE Undisturbed /\ TaskSaves("client", t)
    <3>1. ~NotScheduled(task["restore"].base) /\ Still'
      BY <2>7 DEF TaskSaves, Undisturbed, Still
    <3>2. CASE t.at = "install"
      BY <2>1, <3>1, <3>2 DEF Retaken, At, NotScheduled
    <3>3. CASE t = Idle /\ row' = row
      BY <2>1, <2>7, <3>1, <3>3, IdleTask DEF TaskSaves, Undisturbed, At, NotScheduled
    <3> QED BY <2>7, <3>2, <3>3 DEF TaskSaves
  <2>8. CASE Retaken
    <3>1. /\ NotScheduled(mem') /\ ~NotScheduled(task["restore"].base)
          /\ NotScheduled(worker'.rec)
      BY <1>0, <1>6, <2>2, <2>8, IdleWorkerFields DEF TaskSteps, TaskReads, TaskPuts, TaskCommits,
         TaskSaves, TaskInstalls, TaskMoves, ClientInv, Retaken, Still, NotScheduled, At
    <3> QED BY <2>1, <3>1 DEF Superseded, NotScheduled
  <2>6. CASE Undisturbed /\ ~TaskPuts("client", t) /\ ~TaskSaves("client", t)
    <3>1. UNCHANGED <<row, mem, worker, queue, timers>> /\ t.at \in {"idle", "read", "put"}
      BY <1>0, <1>6, <2>2, <2>6 DEF TaskSteps, TaskReads, TaskCommits, TaskInstalls, TaskMoves,
         Undisturbed, ClientInv, At
    <3> QED BY <2>1, <2>6, <3>1 DEF Undisturbed, Still, At, NotScheduled
  <2> QED BY <2>2, <2>3, <2>4, <2>5, <2>6, <2>7, <2>8
<1>7. ASSUME NEW t \in Tasks, OnlyTask("restore", t), TaskSteps("restore", t) \/ RestoreSteps(t)
      PROVE  (Overtaken \/ Undisturbed \/ Superseded \/ Retaken)'
  BY <1>7, RestoreKept DEF InstallInv
<1> QED BY <1>1, <1>2, <1>3, <1>4, <1>5, <1>6, <1>7 DEF Steps, Processes

LEMMA RowInit == Init => RowInv
<1> SUFFICES ASSUME Init PROVE RowInv
  OBVIOUS
<1>1. /\ up = TRUE /\ row = NoRecord /\ mem = NoRecord /\ owner = "none" /\ queue = 0 /\ timers = 0
      /\ worker = IdleWorker /\ requests = 0 /\ crossed = FALSE
      /\ task = [p \in Processes |-> Idle]
  BY DEF Init
<1>2. Typed
  BY <1>1, IdleTask, IdleWorkerFields DEF Typed, Records
<1>3. Sensible
  BY <1>1, IdleTask, IdleWorkerFields DEF Sensible, At, Processes, RowFirst
<1>4. DownInv /\ FirstInv
  BY <1>1 DEF DownInv, FirstInv, Still
<1>5. ExplainedInv
  BY <1>1, IdleTask DEF ExplainedInv, Explained, At
<1>6. ClientInv /\ WaitInv /\ InstallInv
  BY <1>1, IdleTask DEF ClientInv, WaitInv, Refusing, InstallInv, At, Processes
<1> QED BY <1>2, <1>3, <1>4, <1>5, <1>6 DEF RowInv

\* The invariant is kept by every step.
LEMMA RowStep ==
  ASSUME CutInv, RowInv, [Next]_vars
  PROVE  (CutInv /\ RowInv)'
BY StepHolds, Moves, TypedStep, SensibleStep, DownStep, ExplainedStep, ClientStep, WaitStep,
   InstallStep DEF RowInv

\* When nothing is in progress the row and the record in memory are the same, over
\* any requests, runs, crashes and restarts, unless two writes crossed.
THEOREM RowsFollowMemory == Spec => []RowFollowsMemory
<1>1. Init => CutInv /\ RowInv
  BY InitHolds, RowInit
<1>2. CutInv /\ RowInv /\ [Next]_vars => (CutInv /\ RowInv)'
  BY RowStep
<1>3. RowInv => RowFollowsMemory
  <2> SUFFICES ASSUME RowInv, Quiet, ~crossed PROVE row = mem
    BY DEF RowFollowsMemory
  <2>1. up /\ worker.at = "idle" /\ \A p \in Processes : At(p) \in {"idle", "wait"}
    BY IdleWorkerFields DEF Quiet, At
  <2> QED BY <2>1 DEF RowInv, ExplainedInv, Explained, Doomed, Committing, Processes
<1> QED BY <1>1, <1>2, <1>3, PTL DEF Spec

-----------------------------------------------------------------------------
(* Type correctness.                                                         *)

Flags == stopFlag \in BOOLEAN /\ holding \in BOOLEAN
LEMMA FlagsStep ==
  ASSUME Flags, [Next]_vars
  PROVE  Flags'
<1> USE DEF Flags, ClearControl, Release
<1>1. CASE Request
  BY <1>1 DEF Request, CreatePost, StopPost, PausePost, ResumePost, RetryPost, DeletePost, jobVars, memVars
<1>2. CASE \E p \in Processes : Handle(p)
  BY <1>2 DEF Handle, ReadRow, PutRecord, CommitRow, SaveRow, InstallRecord, Enqueue,
              EnqueueLater, SetTimer, jobVars, memVars
<1>3. CASE Work
  BY <1>3 DEF Work, TakeJob, EnterRun, StartRun, TallyRun, FinishRun, Cleanup, SyncRead, SyncSave,
              SyncInstall, jobVars, memVars
<1>4. CASE OuterDeadline \/ \E a \in Accounts : Upload(a)
  BY <1>4 DEF OuterDeadline, Upload, SkipUpload, CheckPause, BeginUpload, EndUpload, restOfUpload
<1>5. CASE Restore
  BY <1>5 DEF Restore, Restart, RestoreEnqueues, RestoreRefuses, RestoreInstalls, jobVars, memVars
<1>6. CASE TimerFires \/ Crash \/ UNCHANGED vars
  BY <1>6 DEF TimerFires, Crash, vars, jobVars, memVars
<1> QED BY <1>1, <1>2, <1>3, <1>4, <1>5, <1>6 DEF Next

\* Row, memory, tasks, worker and threads of a job stay well typed over any crashes.
THEOREM TypeCorrect == Spec => []TypeOK
<1>1. Init => CutInv /\ RowInv /\ Flags
  BY InitHolds, RowInit DEF Init, Flags
<1>2. CutInv /\ RowInv /\ Flags /\ [Next]_vars => (CutInv /\ RowInv /\ Flags)'
  BY RowStep, FlagsStep
<1>3. CutInv /\ RowInv /\ Flags => TypeOK
  BY DEF CutInv, Shape, RowInv, Typed, Tasks, Workers, Records, Flags, TypeOK
<1> QED BY <1>1, <1>2, <1>3, PTL DEF Spec
=============================================================================
