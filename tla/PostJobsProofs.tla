--------------------------- MODULE PostJobsProofs ---------------------------
(* PostJobs for any number of jobs, accounts, requests and runs: its types,  *)
(* that no account is posted to twice and no success is invented, that it    *)
(* implements Delivery, that no job that waits is lost, that a stop holds,   *)
(* and that the status of a finished job adds up.                            *)
EXTENDS PostJobs, PostJobsDelivery, FiniteSetTheorems, TLAPS

\* What the type invariant rests on: requests and workers at work have a job,
\* and so have the runs of threads.
AtWork(rq) ==
  \A q \in Requests : rq[q].at \notin {"new", "done"} => rq[q].job \in Jobs
HasJob ==
  /\ AtWork(req)
  /\ worker.at # "idle" => worker.job \in Jobs
  /\ \A r \in Runs, a \in Accounts : thr[r][a] # NoThread => runJob[r] \in Jobs

TypeInv == TypeOK /\ HasJob

\* A changed or added element keeps a sequence a sequence, in or out of range.
LEMMA ExceptKeepsSeq ==
  ASSUME NEW S, NEW s \in Seq(S), NEW i, NEW e \in S
  PROVE  [s EXCEPT ![i] = e] \in Seq(S)
<1>1. PICK n \in Nat : s \in [1..n -> S]
  OBVIOUS
<1>2. [s EXCEPT ![i] = e] \in [1..n -> S]
  BY <1>1
<1> QED BY <1>2

\* Likewise Append.
LEMMA AppendKeepsSeq ==
  ASSUME NEW S, NEW s \in Seq(S), NEW e \in S
  PROVE  Append(s, e) \in Seq(S)
OBVIOUS

\* update_result keeps the results results.
LEMMA UpdateResultType ==
  ASSUME NEW j, NEW a, NEW s \in ResultStatus,
         cells \in [Jobs -> [Accounts -> Seq(ResultStatus)]], UpdateResult(j, a, s)
  PROVE  cells' \in [Jobs -> [Accounts -> Seq(ResultStatus)]]
<1>1. CASE j \in Jobs /\ a \in Accounts
  <2>1. [cells[j][a] EXCEPT ![view[j][a]] = s] \in Seq(ResultStatus)
    BY <1>1, ExceptKeepsSeq
  <2> QED BY <1>1, <2>1 DEF UpdateResult
<1>2. CASE ~(j \in Jobs /\ a \in Accounts)
  BY <1>2 DEF UpdateResult
<1> QED BY <1>1, <1>2

\* request_pause keeps the events events.
LEMMA RequestPauseType ==
  ASSUME NEW j \in Jobs, pauseEvt \in [Jobs -> Nat], evtSet \in Seq(BOOLEAN),
         RequestPause(j)
  PROVE  pauseEvt' \in [Jobs -> Nat] /\ evtSet' \in Seq(BOOLEAN)
<1>1. FALSE \in BOOLEAN
  OBVIOUS
<1>2. CASE pauseEvt[j] = 0
  <2>1. Len(evtSet) + 1 \in Nat
    OBVIOUS
  <2>2. pauseEvt' \in [Jobs -> Nat]
    BY <1>2, <2>1 DEF RequestPause
  <2>3. evtSet' \in Seq(BOOLEAN)
    BY <1>1, <1>2, AppendKeepsSeq, Zenon DEF RequestPause
  <2> QED BY <2>2, <2>3
<1>3. CASE pauseEvt[j] # 0
  <2>1. evtSet' = [evtSet EXCEPT ![pauseEvt[j]] = FALSE] /\ pauseEvt' = pauseEvt
    BY <1>3, Zenon DEF RequestPause
  <2>2. [evtSet EXCEPT ![pauseEvt[j]] = FALSE] \in Seq(BOOLEAN)
    BY <1>1, ExceptKeepsSeq, Zenon
  <2> QED BY <2>1, <2>2
<1> QED BY <1>2, <1>3

\* retry_job keeps results and the record well formed.
LEMMA RetryWriteType ==
  ASSUME NEW q \in Requests, req[q].job \in Jobs, req[q].view \in Views,
         cells \in [Jobs -> [Accounts -> Seq(ResultStatus)]],
         view \in [Jobs -> Views], RetryWrite(q)
  PROVE  cells' \in [Jobs -> [Accounts -> Seq(ResultStatus)]] /\ view' \in [Jobs -> Views]
<1> DEFINE j == req[q].job
           old == req[q].view
           Reset(a) == cells[j][a][old[a]] \in ResetByRetry
           cells2 == [a \in Accounts |->
                        IF Reset(a) THEN Append(cells[j][a], "pending") ELSE cells[j][a]]
           view2 == [a \in Accounts |-> IF Reset(a) THEN Len(cells[j][a]) + 1 ELSE old[a]]
<1>1. cells' = [cells EXCEPT ![j] = cells2] /\ view' = [view EXCEPT ![j] = view2]
  BY DEF RetryWrite
<1>2. ASSUME NEW a \in Accounts
      PROVE  /\ Append(cells[j][a], "pending") \in Seq(ResultStatus)
             /\ Len(cells[j][a]) + 1 \in Nat \ {0}
  <2>1. cells[j][a] \in Seq(ResultStatus) /\ "pending" \in ResultStatus
    BY DEF ResultStatus
  <2>2. Len(cells[j][a]) \in Nat
    BY <2>1
  <2> QED BY <2>1, <2>2
<1>3. cells2 \in [Accounts -> Seq(ResultStatus)] /\ view2 \in Views
  BY <1>2 DEF Views
<1> HIDE DEF cells2, view2
<1> QED BY <1>1, <1>3

\* The initial state is well formed.
LEMMA InitType == Init => TypeInv
<1> SUFFICES ASSUME Init PROVE TypeInv
  OBVIOUS
<1> USE DEF Init, StoreInit, TypeInv, TypeOK, HasJob
<1>1. TypeOK
  BY NoneAssumption, BoundsAssumption DEF Request, Worker, Thread, Due, Views, FirstView, Asks, WorksOn, Runs, NoRequest,
       IdleWorker, NoThread, JobStatus, ResultStatus,
       RequestAt, AllOps, WorkerAt, ThreadAt, NetAt
<1>2. HasJob
  BY BoundsAssumption DEF Runs, NoRequest, IdleWorker, Asks, WorksOn, AtWork
<1> QED BY <1>1, <1>2

\* Freezing what other requests saw of a replaced record touches nothing else.
LEMMA OrphanType ==
  ASSUME TypeOK, NEW j \in Jobs, NEW rq \in [Requests -> Request], AtWork(rq)
  PROVE  Orphan(rq, j) \in [Requests -> Request] /\ AtWork(Orphan(rq, j))
<1>1. status[j] \in JobStatus \cup {"live", "none", "deleted"}
  BY DEF TypeOK
<1>2. ASSUME NEW q \in Requests
      PROVE  /\ [rq[q] EXCEPT !.seen = status[j]] \in Request
             /\ [rq[q] EXCEPT !.seen = status[j]].at = rq[q].at
             /\ [rq[q] EXCEPT !.seen = status[j]].job = rq[q].job
  <2>1. rq[q] \in Request
    OBVIOUS
  <2> QED BY <1>1, <2>1 DEF Request
<1> QED BY <1>2 DEF Orphan, AtWork

\* A request that begins has a well-formed record and a job.
LEMMA BeginType ==
  ASSUME NEW q \in Requests, NEW j \in Jobs, NEW op \in AllOps, NEW at \in RequestAt,
         req \in [Requests -> Request], AtWork(req), Begin(q, op, j, at)
  PROVE  req' \in [Requests -> Request] /\ AtWork(req')
<1>1. FirstView \in Views
  BY DEF FirstView, Views
<1>2. Asks(op, j, at) \in Request /\ Asks(op, j, at).job = j
  BY <1>1 DEF Asks, Request, Due
<1> QED BY <1>2 DEF Begin, AtWork

\* Every request that arrives keeps the types.
LEMMA ArriveType ==
  ASSUME TypeInv, NEW q \in Requests, NEW j \in Jobs, Arrive(q, j)
  PROVE  TypeInv'
<1> USE DEF TypeInv, TypeOK, HasJob, storeVars, recordVars, controlVars, poolVars
<1>2. ASSUME NEW w \in Whens, CreatePost(q, j, w) PROVE TypeInv'
  <2>1. req' \in [Requests -> Request] /\ AtWork(req')
    BY <1>2, BeginType DEF CreatePost, AllOps, RequestAt
  <2> QED BY <1>2, <2>1, WhensAssumption DEF CreatePost, PutJob, JobStatus, Due
<1>3. CASE StopRead(q, j)
  BY <1>3, BeginType DEF StopRead, AllOps, RequestAt
<1>4. CASE PauseRead(q, j)
  BY <1>4, BeginType DEF PauseRead, AllOps, RequestAt
<1>5. CASE ResumeRead(q, j)
  BY <1>5, BeginType DEF ResumeRead, AllOps, RequestAt
<1>6. CASE RetryClear(q, j)
  <2>1. req' \in [Requests -> Request] /\ AtWork(req')
    BY <1>6, BeginType DEF RetryClear, AllOps, RequestAt
  <2> QED BY <1>6, <2>1 DEF RetryClear, ClearControl
<1>7. CASE DeleteRead(q, j)
  BY <1>7, BeginType DEF DeleteRead, AllOps, RequestAt
<1> QED BY <1>2, <1>3, <1>4, <1>5, <1>6, <1>7 DEF Arrive

\* A request that ends leaves an empty record.
LEMMA FinishedType ==
  ASSUME NEW q \in Requests, req \in [Requests -> Request], AtWork(req)
  PROVE  /\ [req EXCEPT ![q] = Finished] \in [Requests -> Request]
         /\ AtWork([req EXCEPT ![q] = Finished])
<1>1. FirstView \in Views
  BY DEF FirstView, Views
<1>2. Finished \in Request /\ Finished.at = "done"
  BY <1>1 DEF Finished, Asks, Request, RequestAt, AllOps, Due
<1> QED BY <1>2 DEF AtWork

\* A request at work moves on: its record stays well formed and has a job ...
LEMMA GotoType ==
  ASSUME NEW q \in Requests, NEW at \in RequestAt,
         req \in [Requests -> Request], AtWork(req), req[q].at \notin {"new", "done"}
  PROVE  Goto(q, at) \in [Requests -> Request] /\ AtWork(Goto(q, at))
<1>1. /\ [req[q] EXCEPT !.at = at] \in Request
      /\ [req[q] EXCEPT !.at = at].job = req[q].job
  BY DEF Request
<1> QED BY <1>1 DEF Goto, AtWork

\* ... also when it takes hold of a pause event ...
LEMMA GotoEventType ==
  ASSUME NEW q \in Requests, NEW at \in RequestAt, NEW e \in Nat,
         req \in [Requests -> Request], AtWork(req), req[q].at \notin {"new", "done"},
         NEW rq, rq = [req EXCEPT ![q].evt = e, ![q].at = at]
  PROVE  rq \in [Requests -> Request] /\ AtWork(rq)
<1>1. /\ [req[q] EXCEPT !.evt = e, !.at = at] \in Request
      /\ [req[q] EXCEPT !.evt = e, !.at = at].job = req[q].job
  BY DEF Request
<1>2. rq = [req EXCEPT ![q] = [req[q] EXCEPT !.evt = e, !.at = at]]
  OBVIOUS
<1> QED BY <1>1, <1>2 DEF AtWork

\* ... of a record ...
LEMMA GotoRecordType ==
  ASSUME NEW q \in Requests, NEW at \in RequestAt, NEW w \in Due, NEW v \in Views,
         req \in [Requests -> Request], AtWork(req), req[q].at \notin {"new", "done"},
         NEW rq, rq = [req EXCEPT ![q].at = at, ![q].when = w, ![q].view = v]
  PROVE  rq \in [Requests -> Request] /\ AtWork(rq)
<1>1. /\ [req[q] EXCEPT !.at = at, !.when = w, !.view = v] \in Request
      /\ [req[q] EXCEPT !.at = at, !.when = w, !.view = v].job = req[q].job
  BY DEF Request
<1>2. rq = [req EXCEPT ![q] = [req[q] EXCEPT !.at = at, !.when = w, !.view = v]]
  OBVIOUS
<1> QED BY <1>1, <1>2 DEF AtWork

\* ... or of the results in one.
LEMMA GotoViewType ==
  ASSUME NEW q \in Requests, NEW at \in RequestAt, NEW v \in Views,
         req \in [Requests -> Request], AtWork(req), req[q].at \notin {"new", "done"},
         NEW rq, rq = [req EXCEPT ![q].at = at, ![q].view = v]
  PROVE  rq \in [Requests -> Request] /\ AtWork(rq)
<1>1. /\ [req[q] EXCEPT !.at = at, !.view = v] \in Request
      /\ [req[q] EXCEPT !.at = at, !.view = v].job = req[q].job
  BY DEF Request
<1>2. rq = [req EXCEPT ![q] = [req[q] EXCEPT !.at = at, !.view = v]]
  OBVIOUS
<1> QED BY <1>1, <1>2 DEF AtWork

\* Every step of a request at work keeps the types.
LEMMA HandleType ==
  ASSUME TypeInv, NEW q \in Requests, Handle(q)
  PROVE  TypeInv'
<1> DEFINE j == req[q].job
<1> USE DEF TypeInv, TypeOK, HasJob, storeVars, recordVars, controlVars, poolVars
<1>1. req[q].at \notin {"new", "done"}
  BY DEF Handle, StopFlag, SetPauseEvent, StopCheck, Pause, Resume, SetStatusRead,
         SetStatusWrite, AddTimer, Enqueue, RetryRead, RetryWrite, Delete, At
<1>2. /\ j \in Jobs /\ req[q] \in Request /\ req[q].evt \in Nat
      /\ req[q].when \in Due /\ req[q].view \in Views
  BY <1>1 DEF Request, AtWork
<1>8. CASE StopFlag(q)
  <2>1. req' \in [Requests -> Request] /\ AtWork(req')
    BY <1>1, <1>2, <1>8, GotoEventType DEF StopFlag, RequestAt
  <2> QED BY <1>2, <1>8, <2>1 DEF StopFlag, RaiseStopFlag
<1>10. CASE StopCheck(q)
  <2>1. req' \in [Requests -> Request] /\ AtWork(req')
    BY <1>1, <1>10, FinishedType, GotoType DEF StopCheck, RequestAt
  <2> QED BY <1>10, <2>1 DEF StopCheck
<1>12. CASE Resume(q)
  <2>1. req' \in [Requests -> Request] /\ AtWork(req')
    BY <1>1, <1>2, <1>12, GotoEventType DEF Resume, RequestAt
  <2> QED BY <1>12, <2>1 DEF Resume
<1>13. CASE SetStatusRead(q)
  <2>1. req' \in [Requests -> Request] /\ AtWork(req')
    <3>1. CASE Exists(j)
      <4>1. when[j] \in Due /\ view[j] \in Views /\ "set_write" \in RequestAt
        BY <1>2 DEF RequestAt
      <4>2. req' = [req EXCEPT ![q].at = "set_write", ![q].when = when[j], ![q].view = view[j]]
        BY <1>13, <3>1 DEF SetStatusRead
      <4> QED BY <1>1, <4>1, <4>2, GotoRecordType
    <3>2. CASE ~Exists(j)
      BY <1>1, <1>13, <3>2, FinishedType, GotoType DEF SetStatusRead, RequestAt
    <3> QED BY <3>1, <3>2
  <2> QED BY <1>13, <2>1 DEF SetStatusRead
<1>15. CASE AddTimer(q)
  <2>1. req' \in [Requests -> Request] /\ AtWork(req')
    BY <1>15, FinishedType DEF AddTimer
  <2> QED BY <1>2, <1>15, <2>1 DEF AddTimer
<1>16. CASE Enqueue(q)
  <2>1. req' \in [Requests -> Request] /\ AtWork(req')
    BY <1>16, FinishedType DEF Enqueue
  <2> QED BY <1>2, <1>16, <2>1 DEF Enqueue
<1>17. CASE RetryRead(q)
  <2>1. req' \in [Requests -> Request] /\ AtWork(req')
    BY <1>1, <1>2, <1>17, FinishedType, GotoViewType DEF RetryRead, RequestAt
  <2> QED BY <1>17, <2>1 DEF RetryRead
<1>9. CASE SetPauseEvent(q)
  <2>1. req' \in [Requests -> Request] /\ AtWork(req')
    BY <1>1, <1>9, GotoEventType DEF SetPauseEvent, RequestAt
  <2>2. /\ thr' \in [Runs -> [Accounts -> Thread]]
        /\ \A r \in Runs, a \in Accounts : thr'[r][a] # NoThread => thr[r][a] # NoThread
    <3>1. ASSUME NEW t \in Thread
          PROVE  [t EXCEPT !.at = "stop_check", !.evt = 0] \in Thread
      BY DEF Thread, ThreadAt
    <3>2. NoThread.at # "blocked"
      BY DEF NoThread
    <3> QED BY <1>9, <3>1, <3>2 DEF SetPauseEvent
  <2>3. evtSet' \in Seq(BOOLEAN)
    BY <1>9, ExceptKeepsSeq DEF SetPauseEvent, SetEvent
  <2> QED BY <1>9, <2>1, <2>2, <2>3 DEF SetPauseEvent, SetEvent
<1>11. CASE Pause(q)
  <2>1. req' \in [Requests -> Request] /\ AtWork(req')
    BY <1>1, <1>11, GotoType DEF Pause, RequestAt
  <2>2. evtSet' \in Seq(BOOLEAN) /\ pauseEvt' \in [Jobs -> Nat]
    BY <1>2, <1>11, RequestPauseType DEF Pause
  <2> QED BY <1>11, <2>1, <2>2 DEF Pause, RequestPause
<1>14. CASE SetStatusWrite(q)
  <2>1. /\ Goto(q, "timer") \in [Requests -> Request] /\ AtWork(Goto(q, "timer"))
        /\ [req EXCEPT ![q] = Finished] \in [Requests -> Request]
        /\ AtWork([req EXCEPT ![q] = Finished])
    BY <1>1, FinishedType, GotoType DEF RequestAt
  <2>2. req' \in [Requests -> Request] /\ AtWork(req')
    BY <1>2, <1>14, <2>1, OrphanType DEF SetStatusWrite
  <2>3. StatusOf(req[q].op) \in JobStatus
    BY DEF StatusOf, JobStatus
  <2> QED BY <1>2, <1>14, <2>2, <2>3 DEF SetStatusWrite, PutJob
<1>18. CASE RetryWrite(q)
  <2>1. Goto(q, "enqueue") \in [Requests -> Request] /\ AtWork(Goto(q, "enqueue"))
    BY <1>1, GotoType DEF RequestAt
  <2>2. req' \in [Requests -> Request] /\ AtWork(req')
    BY <1>2, <1>18, <2>1, OrphanType DEF RetryWrite
  <2>3. cells' \in [Jobs -> [Accounts -> Seq(ResultStatus)]] /\ view' \in [Jobs -> Views]
    BY <1>2, <1>18, RetryWriteType
  <2>4. status' \in [Jobs -> JobStatus \cup {"none", "deleted"}]
    BY <1>18 DEF RetryWrite, JobStatus
  <2>5. when' \in [Jobs -> Due]
    BY <1>18 DEF RetryWrite, Due
  <2> QED BY <1>18, <2>2, <2>3, <2>4, <2>5 DEF RetryWrite
<1>19. CASE Delete(q)
  <2>1. req' \in [Requests -> Request] /\ AtWork(req')
    BY <1>2, <1>19, FinishedType, OrphanType DEF Delete
  <2> QED BY <1>19, <2>1 DEF Delete, DeleteJob
<1> QED BY <1>8, <1>9, <1>10, <1>11, <1>12, <1>13, <1>14, <1>15, <1>16, <1>17, <1>18, <1>19 DEF Handle

\* A due job is a job.
LEMMA EnqueueDueJobType ==
  ASSUME TypeInv, NEW j \in Jobs, EnqueueDueJob(j)
  PROVE  TypeInv'
BY DEF EnqueueDueJob, TypeInv, TypeOK, HasJob, AtWork, storeVars, poolVars

\* A worker at work keeps its job and is well formed wherever it goes.
AtJob(w) == w \in Worker /\ w.job \in Jobs
LEMMA WorkerGoto ==
  ASSUME NEW w, AtJob(w), NEW at \in WorkerAt, NEW u, u = [w EXCEPT !.at = at]
  PROVE  AtJob(u)
BY DEF Worker, AtJob

\* So it is when accounts are put on its list or taken off ...
LEMMA WorkerTodo ==
  ASSUME NEW w, AtJob(w), NEW at \in WorkerAt, NEW todo \in SUBSET Accounts, NEW u,
         \/ u = [w EXCEPT !.todo = todo]
         \/ u = [w EXCEPT !.at = at, !.todo = todo]
  PROVE  AtJob(u)
BY DEF Worker, AtJob

\* ... or it turns to one of them ...
LEMMA WorkerAcct ==
  ASSUME NEW w, AtJob(w), NEW at \in WorkerAt, NEW a \in Accounts, NEW u,
         u = [w EXCEPT !.at = at, !.acct = a]
  PROVE  AtJob(u)
BY DEF Worker, AtJob

\* ... or remembers a status ...
LEMMA WorkerStatus ==
  ASSUME NEW w, AtJob(w), NEW at \in WorkerAt, NEW s \in JobStatus, NEW u,
         u = [w EXCEPT !.at = at, !.todo = {}, !.status = s]
  PROVE  AtJob(u)
BY DEF Worker, AtJob

\* ... a record ...
LEMMA WorkerRecord ==
  ASSUME NEW w, AtJob(w), NEW at \in WorkerAt, NEW s \in JobStatus, NEW d \in Due,
         NEW v \in Views, NEW u,
         u = [w EXCEPT !.at = at, !.todo = {}, !.status = s, !.when = d, !.view = v]
  PROVE  AtJob(u)
BY DEF Worker, AtJob

\* ... or the results in one.
LEMMA WorkerView ==
  ASSUME NEW w, AtJob(w), NEW at \in WorkerAt, NEW v \in Views, NEW u,
         u = [w EXCEPT !.at = at, !.view = v]
  PROVE  AtJob(u)
BY DEF Worker, AtJob

\* The same for the worker that has nothing to do or takes a job.
LEMMA WorksOnType ==
  /\ IdleWorker \in Worker /\ IdleWorker.at = "idle"
  /\ \A j \in Jobs, at \in WorkerAt : WorksOn(j, at) \in Worker /\ WorksOn(j, at).job = j
<1>1. FirstView \in Views
  BY DEF FirstView, Views
<1>2. "pending" \in JobStatus /\ "idle" \in WorkerAt
  BY DEF JobStatus, WorkerAt
<1> QED BY <1>1, <1>2 DEF IdleWorker, WorksOn, Worker, Due

\* The final status is a status.
LEMMA FinalStatusType == \A t : FinalStatus(t) \in JobStatus
BY DEF FinalStatus, JobStatus

\* The steps of the worker that change more of its record than its place.
LEMMA WorkerStepType ==
  ASSUME AtJob(worker), status \in [Jobs -> JobStatus \cup {"none", "deleted"}],
         when \in [Jobs -> Due], view \in [Jobs -> Views],
         \/ RunRead \/ InvalidStatus \/ InvalidResult \/ OuterDeadline \/ StalledRead
         \/ StalledWrite \/ TallyResults \/ SyncRead
  PROVE  worker' \in Worker /\ (worker'.at # "idle" => worker'.job \in Jobs)
<1> DEFINE j == worker.job
           OK == worker' \in Worker /\ (worker'.at # "idle" => worker'.job \in Jobs)
<1>1. j \in Jobs /\ worker.todo \in SUBSET Accounts /\ when[j] \in Due /\ view[j] \in Views
  BY DEF AtJob, Worker
<1>2. ASSUME AtJob(worker') PROVE OK
  BY <1>2 DEF AtJob
<1>3. ASSUME NEW at \in WorkerAt, WGoto(at) PROVE OK
  BY <1>2, <1>3, WorkerGoto DEF WGoto
<1>4. ASSUME worker' = IdleWorker PROVE OK
  BY <1>4, WorksOnType
<1>5. ASSUME NEW at \in WorkerAt, NEW todo \in SUBSET Accounts,
             \/ worker' = [worker EXCEPT !.todo = todo]
             \/ worker' = [worker EXCEPT !.at = at, !.todo = todo]
      PROVE  OK
  BY <1>2, <1>5, WorkerTodo
<1>6. ASSUME NEW a, \/ worker' = [worker EXCEPT !.todo = worker.todo \ {a}]
                    \/ worker' = [worker EXCEPT !.at = "stalled", !.todo = worker.todo \ {a}]
      PROVE  OK
  <2>1. worker.todo \ {a} \in SUBSET Accounts /\ "stalled" \in WorkerAt
    BY <1>1 DEF WorkerAt
  <2> QED BY <1>5, <1>6, <2>1
<1> SUFFICES OK
  OBVIOUS
<1> HIDE DEF OK
<1>7. CASE InvalidStatus
  <2>1. Targets[j] \in SUBSET Accounts
    BY <1>1, TargetsAssumption
  <2>2. "invalid_results" \in WorkerAt /\ "sync_read" \in WorkerAt
    BY DEF WorkerAt
  <2> QED BY <1>3, <1>5, <1>7, <2>1, <2>2 DEF InvalidStatus
<1>8. CASE InvalidResult
  <2>1. "run_clear" \in WorkerAt /\ "sync_read" \in WorkerAt
    BY DEF WorkerAt
  <2> QED BY <1>3, <1>6, <1>8, <2>1 DEF InvalidResult
<1>9. CASE OuterDeadline
  <2>1. Unfinished \in SUBSET Accounts /\ "stalled" \in WorkerAt
    BY DEF Unfinished, WorkerAt
  <2> QED BY <1>5, <1>9, <2>1 DEF OuterDeadline
<1>10. CASE StalledRead
  <2>1. "tally" \in WorkerAt /\ "except" \in WorkerAt /\ "stalled_write" \in WorkerAt
    BY DEF WorkerAt
  <2>2. ASSUME NEW a \in worker.todo, worker' = [worker EXCEPT !.at = "stalled_write", !.acct = a]
        PROVE  OK
    <3>1. a \in Accounts
      BY <1>1
    <3> QED BY <1>2, <2>1, <2>2, <3>1, WorkerAcct
  <2> QED BY <1>3, <1>6, <1>10, <2>1, <2>2 DEF StalledRead
<1>11. CASE StalledWrite
  <2>1. "except" \in WorkerAt
    BY DEF WorkerAt
  <2> QED BY <1>3, <1>6, <1>11, <2>1 DEF StalledWrite
<1>12. CASE TallyResults
  <2>1. "clear" \in WorkerAt /\ "except" \in WorkerAt
    BY DEF WorkerAt
  <2>2. CASE Exists(j)
    BY <1>2, <1>12, <2>1, <2>2, FinalStatusType, WorkerStatus DEF TallyResults
  <2>3. CASE ~Exists(j)
    BY <1>5, <1>12, <2>1, <2>3 DEF TallyResults
  <2> QED BY <2>2, <2>3
<1>13. CASE SyncRead
  <2>1. CASE Exists(j)
    <3>1. status[j] \in JobStatus /\ "sync_write" \in WorkerAt
      BY <2>1 DEF Exists, WorkerAt
    <3>2. worker' = [worker EXCEPT !.at = "sync_write", !.todo = {}, !.status = status[j],
                                   !.when = when[j], !.view = view[j]]
      BY <1>13, <2>1 DEF SyncRead
    <3>3. AtJob(worker')
      BY <1>1, <3>1, <3>2, WorkerRecord
    <3> QED BY <1>2, <3>3
  <2>2. CASE ~Exists(j)
    BY <1>4, <1>13, <2>2 DEF SyncRead
  <2> QED BY <2>1, <2>2
<1>14. CASE RunRead
  <2>1. /\ "run_clear" \in WorkerAt /\ "sync_read" \in WorkerAt /\ "invalid" \in WorkerAt
        /\ "set_running" \in WorkerAt
    BY DEF WorkerAt
  <2>2. ASSUME NEW at \in WorkerAt, \/ worker' = [worker EXCEPT !.at = at]
                                    \/ worker' = [worker EXCEPT !.at = at, !.view = view[j]]
        PROVE  OK
    BY <1>1, <1>2, <2>2, WorkerGoto, WorkerView
  <2> QED BY <1>14, <2>1, <2>2 DEF RunRead
<1> QED BY <1>7, <1>8, <1>9, <1>10, <1>11, <1>12, <1>13, <1>14

\* Every step of the worker keeps the types.
LEMMA RunOnceType ==
  ASSUME TypeInv, RunOnce
  PROVE  TypeInv'
<1> DEFINE j == worker.job
           WorkerOK == worker' \in Worker /\ (worker'.at # "idle" => worker'.job \in Jobs)
<1> USE DEF TypeInv, TypeOK, HasJob, AtWork, storeVars, recordVars, controlVars, poolVars
<1>1. CASE TakeItem
  <2>1. Head(queue) \in Jobs /\ Tail(queue) \in Seq(Jobs)
    BY <1>1 DEF TakeItem
  <2>2. WorkerOK
    BY <1>1, <2>1, WorksOnType DEF TakeItem, WorkerAt
  <2> QED BY <1>1, <2>1, <2>2 DEF TakeItem
<1>2. ASSUME worker.at # "idle" PROVE j \in Jobs /\ AtJob(worker)
  BY <1>2 DEF AtJob
<1>3. ASSUME NEW at \in WorkerAt, worker.at # "idle", WGoto(at) PROVE WorkerOK
  BY <1>2, <1>3, WorkerGoto DEF WGoto, AtJob
<1>4. CASE CheckRunnable
  <2>1. WorkerOK
    BY <1>2, <1>4, WorkerGoto, WorksOnType DEF CheckRunnable, WAt, WorkerAt, AtJob
  <2> QED BY <1>4, <2>1 DEF CheckRunnable
<1>5. CASE SkipClear
  <2>1. WorkerOK
    BY <1>5, WorksOnType DEF SkipClear
  <2> QED BY <1>5, <2>1 DEF SkipClear, ClearControl
<1>6. CASE RunRead
  <2>1. WorkerOK
    BY <1>2, <1>6, WorkerStepType DEF RunRead, WAt
  <2> QED BY <1>6, <2>1 DEF RunRead
<1>7. CASE RunClear
  <2>1. WorkerOK
    BY <1>3, <1>7 DEF RunClear, WAt, WorkerAt
  <2> QED BY <1>7, <2>1 DEF RunClear, ClearControl
<1>8. CASE InvalidStatus
  <2>1. WorkerOK
    BY <1>2, <1>8, WorkerStepType DEF InvalidStatus, WAt
  <2> QED BY <1>8, <2>1 DEF InvalidStatus, SetJobStatus, JobStatus
<1>9. CASE InvalidResult
  <2>1. WorkerOK
    BY <1>2, <1>9, WorkerStepType DEF InvalidResult, WAt
  <2>2. CASE UNCHANGED storeVars
    BY <1>9, <2>1, <2>2 DEF InvalidResult
  <2>3. ASSUME NEW a, UpdateResult(j, a, "failed") PROVE TypeInv'
    <3>1. cells' \in [Jobs -> [Accounts -> Seq(ResultStatus)]]
      BY <2>3, UpdateResultType DEF ResultStatus
    <3> QED BY <1>9, <2>1, <2>3, <3>1 DEF InvalidResult, UpdateResult
  <2> QED BY <1>9, <2>2, <2>3 DEF InvalidResult
<1>10. CASE SetRunning
  <2>1. WorkerOK
    BY <1>3, <1>10 DEF SetRunning, WAt, WorkerAt
  <2> QED BY <1>10, <2>1 DEF SetRunning, SetJobStatus, JobStatus
<1>11. CASE Spawn
  <2>1. WorkerOK
    BY <1>3, <1>11 DEF Spawn, WAt, WorkerAt
  <2>2. runs' \in 0..MaxRuns /\ runs' \in Runs
    BY <1>11, BoundsAssumption DEF Spawn, Runs
  <2>3. /\ runJob' = [runJob EXCEPT ![runs'] = j] /\ j \in Jobs
        /\ runJob' \in [Runs -> Jobs \cup {NoJob}]
    BY <1>2, <1>11, <2>2 DEF Spawn, WAt
  <2>4. /\ thr' \in [Runs -> [Accounts -> Thread]]
        /\ \A r \in Runs : r # runs' => thr'[r] = thr[r]
    <3>1. NoThread \in Thread /\ [NoThread EXCEPT !.at = "start"] \in Thread
      BY DEF NoThread, Thread, ThreadAt, NetAt
    <3> QED BY <1>11, <3>1 DEF Spawn
  <2> QED BY <1>11, <2>1, <2>2, <2>3, <2>4 DEF Spawn
<1>12. CASE NoAccounts
  <2>1. WorkerOK
    BY <1>3, <1>12 DEF NoAccounts, WAt, WorkerAt
  <2> QED BY <1>12, <2>1 DEF NoAccounts, SetJobStatus, JobStatus
<1>13. CASE NoAccountsClear
  <2>1. WorkerOK
    BY <1>3, <1>13 DEF NoAccountsClear, WAt, WorkerAt
  <2> QED BY <1>13, <2>1 DEF NoAccountsClear, ClearControl
<1>14. CASE UploadsDone
  <2>1. WorkerOK
    BY <1>3, <1>14 DEF UploadsDone, WAt, WorkerAt
  <2> QED BY <1>14, <2>1 DEF UploadsDone
<1>15. CASE OuterDeadline
  <2>1. WorkerOK
    BY <1>2, <1>15, WorkerStepType DEF OuterDeadline, WAt
  <2> QED BY <1>15, <2>1 DEF OuterDeadline
<1>16. CASE StalledRead
  <2>1. WorkerOK
    BY <1>2, <1>16, WorkerStepType DEF StalledRead, WAt
  <2> QED BY <1>16, <2>1 DEF StalledRead
<1>17. CASE StalledWrite
  <2>1. WorkerOK
    BY <1>2, <1>17, WorkerStepType DEF StalledWrite, WAt
  <2>2. CASE UNCHANGED storeVars
    BY <1>17, <2>1, <2>2 DEF StalledWrite
  <2>3. CASE UpdateResult(j, worker.acct, "failed")
    <3>1. cells' \in [Jobs -> [Accounts -> Seq(ResultStatus)]]
      BY <2>3, UpdateResultType DEF ResultStatus
    <3> QED BY <1>17, <2>1, <2>3, <3>1 DEF StalledWrite, UpdateResult
  <2> QED BY <1>17, <2>2, <2>3 DEF StalledWrite
<1>18. CASE TallyResults
  <2>1. WorkerOK
    BY <1>2, <1>18, WorkerStepType DEF TallyResults, WAt
  <2> QED BY <1>18, <2>1 DEF TallyResults
<1>19. CASE Clear
  <2>1. WorkerOK
    BY <1>3, <1>19 DEF Clear, WAt, WorkerAt
  <2> QED BY <1>19, <2>1 DEF Clear, ClearControl
<1>20. CASE SetFinal
  <2>1. WorkerOK
    BY <1>3, <1>20 DEF SetFinal, WAt, WorkerAt
  <2> QED BY <1>20, <2>1 DEF SetFinal, SetJobStatus, Worker
<1>21. CASE ExceptClear
  <2>1. WorkerOK
    BY <1>3, <1>21 DEF ExceptClear, WAt, WorkerAt
  <2> QED BY <1>21, <2>1 DEF ExceptClear, ClearControl
<1>22. CASE ExceptSetFailed
  <2>1. WorkerOK
    BY <1>3, <1>22 DEF ExceptSetFailed, WAt, WorkerAt
  <2> QED BY <1>22, <2>1 DEF ExceptSetFailed, SetJobStatus, JobStatus
<1>23. CASE Cleanup
  <2>1. WorkerOK
    BY <1>3, <1>23 DEF Cleanup, WAt, WorkerAt
  <2> QED BY <1>23, <2>1 DEF Cleanup
<1>24. CASE SyncRead
  <2>1. WorkerOK
    BY <1>2, <1>24, WorkerStepType DEF SyncRead, WAt
  <2> QED BY <1>24, <2>1 DEF SyncRead
<1>25. CASE SyncWrite
  <2>1. WorkerOK
    BY <1>25, WorksOnType DEF SyncWrite
  <2>2. req' \in [Requests -> Request] /\ AtWork(req')
    BY <1>2, <1>25, OrphanType DEF SyncWrite, WAt
  <2>3. worker.status \in JobStatus /\ worker.when \in Due /\ worker.view \in Views
    BY DEF Worker
  <2> QED BY <1>25, <2>1, <2>2, <2>3 DEF SyncWrite, PutJob
<1> QED BY <1>1, <1>4, <1>5, <1>6, <1>7, <1>8, <1>9, <1>10, <1>11, <1>12, <1>13, <1>14,
           <1>15, <1>16, <1>17, <1>18, <1>19, <1>20, <1>21, <1>22, <1>23, <1>24, <1>25 DEF RunOnce

\* A thread that moves on stays well formed ...
ThreadMoves(r, a) == \E t \in Thread : Becomes(r, a, t)
LEMMA ThreadGoto ==
  ASSUME NEW r, NEW a, NEW at \in ThreadAt, thr[r][a] \in Thread, TGoto(r, a, at)
  PROVE  ThreadMoves(r, a)
<1>1. ASSUME NEW t \in Thread PROVE [t EXCEPT !.at = at] \in Thread
  BY DEF Thread
<1> QED BY <1>1 DEF TGoto, ThreadMoves

\* ... also when it gets or drops an event ...
LEMMA ThreadEvent ==
  ASSUME NEW r, NEW a, NEW at \in ThreadAt, NEW e \in Nat, thr[r][a] \in Thread,
         Becomes(r, a, [thr[r][a] EXCEPT !.at = at, !.evt = e])
  PROVE  ThreadMoves(r, a)
<1>1. ASSUME NEW t \in Thread PROVE [t EXCEPT !.at = at, !.evt = e] \in Thread
  BY DEF Thread
<1> QED BY <1>1 DEF ThreadMoves

\* ... or its network call moves on.
LEMMA ThreadNet ==
  ASSUME NEW r, NEW a, NEW n \in NetAt, thr[r][a] \in Thread, TNet(r, a, n)
  PROVE  ThreadMoves(r, a)
<1>1. ASSUME NEW t \in Thread PROVE [t EXCEPT !.net = n] \in Thread
  BY DEF Thread
<1> QED BY <1>1 DEF TNet, ThreadMoves

\* A move of a thread that has a job keeps the threads well formed.
LEMMA ThreadMovesType ==
  ASSUME NEW r \in Runs, NEW a \in Accounts, thr \in [Runs -> [Accounts -> Thread]],
         ThreadMoves(r, a), runJob[r] \in Jobs, UNCHANGED runJob,
         \A s \in Runs, b \in Accounts : thr[s][b] # NoThread => runJob[s] \in Jobs
  PROVE  /\ thr' \in [Runs -> [Accounts -> Thread]]
         /\ \A s \in Runs, b \in Accounts : thr'[s][b] # NoThread => runJob'[s] \in Jobs
<1>1. PICK t \in Thread : thr' = [thr EXCEPT ![r] = [thr[r] EXCEPT ![a] = t]]
  BY DEF ThreadMoves, Becomes
<1> QED BY <1>1

\* A result written by a thread keeps results results, and the rest untouched.
LEMMA WriteType ==
  ASSUME NEW r, NEW a, NEW s \in ResultStatus,
         cells \in [Jobs -> [Accounts -> Seq(ResultStatus)]], Write(r, a, s)
  PROVE  /\ cells' \in [Jobs -> [Accounts -> Seq(ResultStatus)]]
         /\ UNCHANGED <<status, when, view, stopFlag, pauseEvt, evtSet>>
<1>1. CASE Exists(runJob[r])
  BY <1>1, UpdateResultType DEF Write, UpdateResult, controlVars
<1>2. CASE ~Exists(runJob[r])
  BY <1>2 DEF Write, storeVars
<1> QED BY <1>1, <1>2

\* Every step of an upload thread keeps the types.
LEMMA UploadType ==
  ASSUME TypeInv, NEW r \in Runs, NEW a \in Accounts, Upload(r, a)
  PROVE  TypeInv'
<1> DEFINE Moves == ThreadMoves(r, a)
           CellsOK == cells' \in [Jobs -> [Accounts -> Seq(ResultStatus)]]
           Rest == /\ UNCHANGED <<status, view, stopFlag, pauseEvt, evtSet, posted, req, when,
                                  queue, timers, worker, runs, runJob, files, stopAsked>>
                   /\ held' \in SUBSET Runs
<1>1. /\ thr[r][a] \in Thread /\ thr[r][a].at \in ThreadAt /\ thr[r][a].evt \in Nat
      /\ cells \in [Jobs -> [Accounts -> Seq(ResultStatus)]]
      /\ held \in SUBSET Runs
  BY DEF TypeInv, TypeOK, Thread
<1>2. thr[r][a].at # "none" /\ runJob[r] \in Jobs
  <2>1. thr[r][a].at # "none"
    BY DEF Upload, FirstStopCheck, PauseCheck, TestEvent, SecondStopCheck, Skip, Reject,
           MarkUploading, Collect, Report, TAt
  <2> QED BY <2>1 DEF NoThread, TypeInv, HasJob
<1>3. ASSUME Moves, CellsOK, Rest PROVE TypeInv'
  BY <1>2, <1>3, ThreadMovesType DEF TypeInv, TypeOK, HasJob, AtWork
<1> USE DEF storeVars, recordVars, controlVars, ThreadOnly
<1>4. ASSUME TDone(r, a) PROVE Moves
  <2>1. 0 \in Nat /\ "done" \in ThreadAt
    BY DEF ThreadAt
  <2> QED BY <1>1, <1>4, <2>1, ThreadEvent DEF TDone
<1>13. CASE FirstStopCheck(r, a)
  BY <1>1, <1>3, <1>13, ThreadGoto DEF FirstStopCheck, ThreadAt
<1>5. CASE PauseCheck(r, a)
  <2> DEFINE e == pauseEvt[runJob[r]]
  <2>1. e \in Nat /\ (IF e = 0 THEN "stop_check" ELSE "event") \in ThreadAt
    BY <1>2 DEF ThreadAt, TypeInv, TypeOK
  <2> QED BY <1>1, <1>3, <1>5, <2>1, ThreadEvent DEF PauseCheck
<1>6. CASE TestEvent(r, a)
  <2>1. 0 \in Nat /\ "stop_check" \in ThreadAt /\ "blocked" \in ThreadAt
    BY DEF ThreadAt
  <2>2. Moves
    BY <1>1, <1>6, <2>1, ThreadEvent, ThreadGoto DEF TestEvent
  <2> QED BY <1>1, <1>3, <1>6, <2>2 DEF TestEvent
<1>7. CASE SecondStopCheck(r, a)
  BY <1>1, <1>3, <1>7, ThreadGoto DEF SecondStopCheck, ThreadAt
<1>8. CASE Skip(r, a)
  BY <1>1, <1>3, <1>4, <1>8, WriteType DEF Skip, ResultStatus
<1>9. CASE Reject(r, a)
  BY <1>1, <1>3, <1>9, ThreadGoto DEF Reject, ThreadAt
<1>10. CASE MarkUploading(r, a)
  <2>1. [thr[r][a] EXCEPT !.at = "uploading", !.net = "queued"] \in Thread
    BY <1>1 DEF Thread, ThreadAt, NetAt
  <2>2. Moves
    BY <1>4, <1>10, <2>1 DEF MarkUploading, ThreadMoves
  <2> QED BY <1>1, <1>3, <1>10, <2>2, WriteType DEF MarkUploading, ResultStatus
<1>11. CASE Collect(r, a)
  BY <1>1, <1>3, <1>11, ThreadGoto DEF Collect, ThreadAt
<1>12. CASE Report(r, a)
  BY <1>1, <1>3, <1>4, <1>12, WriteType DEF Report, ResultStatus
<1> QED BY <1>13, <1>5, <1>6, <1>7, <1>8, <1>9, <1>10, <1>11, <1>12 DEF Upload

\* Every step of a dispatch thread keeps the types.
LEMMA DispatchType ==
  ASSUME TypeInv, NEW r \in Runs, NEW a \in Accounts, Dispatch(r, a)
  PROVE  TypeInv'
<1>1. /\ thr[r][a] \in Thread
      /\ "ok" \in NetAt /\ "err" \in NetAt /\ "sending" \in NetAt
  BY DEF TypeInv, TypeOK, NetAt
<1>2. runJob[r] \in Jobs
  <2>1. thr[r][a].net # "none"
    BY DEF Dispatch, OpenMedia, Publish, Refuse
  <2> QED BY <2>1 DEF NoThread, TypeInv, HasJob
<1>3. ThreadMoves(r, a)
  BY <1>1, ThreadNet DEF Dispatch, OpenMedia, Publish, Refuse
<1>4. posted' \in [Jobs -> [Accounts -> Nat]]
  <2>1. /\ posted \in [Jobs -> [Accounts -> Nat]]
        /\ posted[runJob[r]] \in [Accounts -> Nat]
        /\ posted[runJob[r]][a] + 1 \in Nat
    BY <1>2 DEF TypeInv, TypeOK
  <2>2. CASE Publish(r, a)
    BY <1>2, <2>1, <2>2 DEF Publish
  <2>3. CASE OpenMedia(r, a) \/ Refuse(r, a)
    BY <2>1, <2>3 DEF OpenMedia, Refuse
  <2> QED BY <2>2, <2>3 DEF Dispatch
<1>5. UNCHANGED <<status, view, cells, stopFlag, pauseEvt, evtSet, held, req, when,
                  queue, timers, worker, runs, runJob, files, stopAsked>>
  BY DEF Dispatch, OpenMedia, Publish, Refuse, ThreadOnly, storeVars
<1> QED BY <1>2, <1>3, <1>4, <1>5, ThreadMovesType DEF TypeInv, TypeOK, HasJob, AtWork

\* The type invariant is inductive.
LEMMA TypeStep == TypeInv /\ [Next]_vars => TypeInv'
<1> SUFFICES ASSUME TypeInv, [Next]_vars PROVE TypeInv'
  OBVIOUS
<1>1. CASE UNCHANGED vars
  BY <1>1 DEF TypeInv, TypeOK, HasJob, AtWork, vars, storeVars, poolVars
<1>2. CASE Next
  BY <1>1, <1>2, HandleType, ArriveType, EnqueueDueJobType, RunOnceType, UploadType, DispatchType
     DEF Next, WaitForRequest
<1> QED BY <1>1, <1>2

\* Every reachable state of the post-job subsystem is well formed.
THEOREM TypeCorrect == Spec => []TypeOK
<1>1. Spec => []TypeInv
  BY InitType, TypeStep, PTL DEF Spec
<1>2. TypeInv => TypeOK
  BY DEF TypeInv
<1> QED BY <1>1, <1>2, PTL

-----------------------------------------------------------------------------
(* No account is posted to twice and no success is invented.                 *)

\* A job nobody created yet is referred to by nobody.
Known ==
  /\ \A q \in Requests : req[q].job \in Jobs => status[req[q].job] # "none"
  /\ \A i \in DOMAIN queue : status[queue[i]] # "none"
  /\ \A j \in timers : status[j] # "none"
  /\ worker.job \in Jobs => status[worker.job] # "none"
  /\ \A r \in Runs : runJob[r] \in Jobs => status[runJob[r]] # "none"

\* Only started runs have threads, a thread has no network call before it is
\* past its checks, and reports a success only after the call succeeded.
Shape(t) ==
  /\ t.at \notin {"uploading", "success", "failed", "done"} => t.net = "none"
  /\ t.at = "success" => t.net = "ok"
ThreadShape ==
  \A r \in Runs, a \in Accounts : Shape(thr[r][a]) /\ (r > runs => thr[r][a] = NoThread)

\* While the media of a job that was run is on disk, its run is the only one it
\* ever had and the worker has not finished it.
InRun == {"wait", "stalled", "stalled_write", "tally", "clear", "set_final",
          "except", "set_failed", "cleanup"}
OneRunHasMedia ==
  \A r \in Runs : (r <= runs /\ runJob[r] \in files) =>
    r = runs /\ worker.job = runJob[r] /\ worker.at \in InRun

\* A post was published by the call of some run that is over; an account a job
\* is being sent to has no post yet, and no second call for it is under way.
PostsHaveCalls ==
  /\ \A j \in Jobs, a \in Accounts : posted[j][a] > 0 =>
       \E r \in Runs : runJob[r] = j /\ r <= runs /\ thr[r][a].net \in {"ok", "err"}
  /\ \A r \in Runs, a \in Accounts :
       thr[r][a].net = "ok" => posted[runJob[r]][a] > 0
  /\ \A r \in Runs, a \in Accounts : thr[r][a].net = "sending" =>
       /\ posted[runJob[r]][a] = 0
       /\ \A s \in Runs : (runJob[s] = runJob[r] /\ thr[s][a].net = "sending") => s = r

DeliveryInv == Known /\ ThreadShape /\ OneRunHasMedia /\ PostsHaveCalls
               /\ AtMostOnePost /\ SuccessMeansPosted

-----------------------------------------------------------------------------
\* A job that was created never becomes one that was not.
LEMMA StaysCreated ==
  ASSUME TypeInv, Next, NEW j \in Jobs, status[j] # "none"
  PROVE  status'[j] # "none"
<1> USE DEF TypeInv, TypeOK, storeVars, recordVars, controlVars
<1>1. "none" \notin JobStatus
  BY DEF JobStatus
<1>2. ASSUME NEW i \in Jobs, NEW s \in JobStatus, status' = [status EXCEPT ![i] = s]
      PROVE  status'[j] # "none"
  BY <1>1, <1>2
<1>3. ASSUME UNCHANGED status PROVE status'[j] # "none"
  BY <1>3
<1>4. ASSUME NEW q \in Requests, Handle(q) PROVE status'[j] # "none"
  <2>1. CASE SetStatusWrite(q)
    BY <2>1 DEF SetStatusWrite, PutJob, StatusOf
  <2>2. CASE RetryWrite(q)
    BY <2>2 DEF RetryWrite
  <2>3. CASE Delete(q)
    BY <2>3 DEF Delete, DeleteJob
  <2> QED BY <1>4, <2>1, <2>2, <2>3 DEF Handle, StopFlag, RaiseStopFlag, SetPauseEvent, SetEvent,
             StopCheck, Pause, RequestPause, Resume, SetStatusRead, AddTimer, Enqueue, RetryRead
<1>5. ASSUME NEW q \in Requests, NEW i \in Jobs, Arrive(q, i) PROVE status'[j] # "none"
  BY <1>5 DEF Arrive, CreatePost, PutJob, StopRead, PauseRead, ResumeRead, RetryClear,
       ClearControl, DeleteRead
<1>6. ASSUME RunOnce PROVE status'[j] # "none"
  <2>1. worker.status \in JobStatus
    BY DEF Worker
  <2>2. CASE SetFinal \/ SyncWrite
    BY <1>1, <2>1, <2>2 DEF SetFinal, SetJobStatus, SyncWrite, PutJob
  <2>3. CASE InvalidStatus \/ SetRunning \/ NoAccounts \/ ExceptSetFailed
    BY <2>3 DEF InvalidStatus, SetRunning, NoAccounts, ExceptSetFailed, SetJobStatus
  <2>4. CASE InvalidResult \/ StalledWrite
    BY <2>4 DEF InvalidResult, StalledWrite, UpdateResult
  <2> QED BY <1>6, <2>2, <2>3, <2>4 DEF RunOnce, TakeItem, CheckRunnable, SkipClear, RunRead,
             RunClear, Spawn, NoAccountsClear, UploadsDone, OuterDeadline, StalledRead,
             TallyResults, Clear, ExceptClear, Cleanup, SyncRead, ClearControl
<1>7. ASSUME NEW r \in Runs, NEW a \in Accounts, Upload(r, a) \/ Dispatch(r, a)
      PROVE  UNCHANGED status
  BY <1>7 DEF Upload, FirstStopCheck, PauseCheck, TestEvent, SecondStopCheck, Skip, Reject,
       MarkUploading, Collect, Report, Write, UpdateResult, Dispatch, OpenMedia, Publish, Refuse
<1> QED BY <1>3, <1>4, <1>5, <1>6, <1>7 DEF Next, EnqueueDueJob, WaitForRequest, vars

\* Freezing what other requests saw leaves every request its job.
LEMMA OrphanKeepsJob ==
  ASSUME NEW rq \in [Requests -> Request], NEW j, NEW p \in Requests
  PROVE  Orphan(rq, j)[p].job = rq[p].job
<1>1. ASSUME NEW t \in Request, NEW s PROVE [t EXCEPT !.seen = s].job = t.job
  BY DEF Request
<1> QED BY <1>1 DEF Orphan

\* No step of a request gives it another job.
LEMMA KeepsJob ==
  ASSUME TypeInv, NEW q \in Requests, Handle(q)
  PROVE  /\ req[q].job \in Jobs
         /\ \A p \in Requests : req'[p].job \in {req[p].job, NoJob}
<1> DEFINE Keeps(rq) == \A p \in Requests : rq[p].job \in {req[p].job, NoJob}
<1>1. req \in [Requests -> Request] /\ AtWork(req) /\ req[q].at \notin {"new", "done"}
  BY DEF TypeInv, TypeOK, HasJob, At, Handle, StopFlag, SetPauseEvent, StopCheck, Pause, Resume,
         SetStatusRead, SetStatusWrite, AddTimer, Enqueue, RetryRead, RetryWrite, Delete
<1>2. ASSUME NEW at PROVE Keeps(Goto(q, at))
  <2>1. [req[q] EXCEPT !.at = at].job = req[q].job
    BY <1>1 DEF Request
  <2> QED BY <1>1, <2>1 DEF Goto
<1>3. ASSUME NEW at, NEW e, req' = [req EXCEPT ![q].evt = e, ![q].at = at] PROVE Keeps(req')
  <2>1. [req[q] EXCEPT !.evt = e, !.at = at].job = req[q].job
    BY <1>1 DEF Request
  <2>2. [req EXCEPT ![q].evt = e, ![q].at = at] = [req EXCEPT ![q] = [req[q] EXCEPT !.evt = e, !.at = at]]
    BY <1>1
  <2> QED BY <1>1, <1>3, <2>1, <2>2
<1>4. ASSUME NEW at, NEW v, req' = [req EXCEPT ![q].at = at, ![q].view = v] PROVE Keeps(req')
  <2>1. [req[q] EXCEPT !.at = at, !.view = v].job = req[q].job
    BY <1>1 DEF Request
  <2>2. [req EXCEPT ![q].at = at, ![q].view = v] = [req EXCEPT ![q] = [req[q] EXCEPT !.at = at, !.view = v]]
    BY <1>1
  <2> QED BY <1>1, <1>4, <2>1, <2>2
<1>14. ASSUME NEW at, NEW w, NEW v,
              req' = [req EXCEPT ![q].at = at, ![q].when = w, ![q].view = v] PROVE Keeps(req')
  <2>1. [req[q] EXCEPT !.at = at, !.when = w, !.view = v].job = req[q].job
    BY <1>1 DEF Request
  <2>2. [req EXCEPT ![q].at = at, ![q].when = w, ![q].view = v]
          = [req EXCEPT ![q] = [req[q] EXCEPT !.at = at, !.when = w, !.view = v]]
    BY <1>1
  <2> QED BY <1>1, <1>14, <2>1, <2>2
<1>5. Keeps([req EXCEPT ![q] = Finished])
  BY <1>1 DEF Finished, Asks
<1>6. ASSUME NEW rq \in [Requests -> Request], NEW j, Keeps(rq), req' = Orphan(rq, j) PROVE Keeps(req')
  BY <1>6, OrphanKeepsJob
<1>7. /\ [req EXCEPT ![q] = Finished] \in [Requests -> Request]
      /\ Goto(q, "timer") \in [Requests -> Request]
      /\ Goto(q, "enqueue") \in [Requests -> Request]
  BY <1>1, FinishedType, GotoType DEF RequestAt
<1>8. req[q].job \in Jobs
  BY <1>1 DEF AtWork
<1> SUFFICES Keeps(req')
  BY <1>8
<1> HIDE DEF Keeps
<1>9. CASE SetStatusWrite(q)
  BY <1>2, <1>5, <1>6, <1>7, <1>9 DEF SetStatusWrite
<1>10. CASE RetryWrite(q) \/ Delete(q)
  BY <1>2, <1>5, <1>6, <1>7, <1>10 DEF RetryWrite, Delete
<1>11. CASE StopFlag(q) \/ SetPauseEvent(q) \/ Resume(q)
  BY <1>3, <1>11 DEF StopFlag, SetPauseEvent, Resume
<1>12. CASE SetStatusRead(q) \/ RetryRead(q)
  BY <1>2, <1>4, <1>5, <1>12, <1>14 DEF SetStatusRead, RetryRead
<1>13. CASE StopCheck(q) \/ Pause(q) \/ AddTimer(q) \/ Enqueue(q)
  BY <1>2, <1>5, <1>13 DEF StopCheck, Pause, AddTimer, Enqueue
<1> QED BY <1>9, <1>10, <1>11, <1>12, <1>13 DEF Handle

\* What else a request changes that runs, threads and workers look at.
LEMMA HandleFrame ==
  ASSUME NEW q \in Requests, Handle(q)
  PROVE  /\ queue' \in {queue, Append(queue, req[q].job)}
         /\ timers' \subseteq timers \cup {req[q].job}
         /\ UNCHANGED <<worker, runs, runJob, held, posted, files>>
BY DEF Handle, StopFlag, SetPauseEvent, StopCheck, Pause, Resume, SetStatusRead,
       SetStatusWrite, AddTimer, Enqueue, RetryRead, RetryWrite, Delete, poolVars

\* Whatever a worker changes of its record, it keeps its job.
LEMMA WorkerMove ==
  ASSUME NEW w \in Worker, NEW at, NEW todo, NEW a, NEW s, NEW d, NEW v
  PROVE  /\ [w EXCEPT !.at = at].job = w.job
         /\ [w EXCEPT !.at = at].at = at
         /\ [w EXCEPT !.todo = todo].job = w.job
         /\ [w EXCEPT !.todo = todo].at = w.at
         /\ [w EXCEPT !.at = at, !.todo = todo].job = w.job
         /\ [w EXCEPT !.at = at, !.todo = todo].at = at
         /\ [w EXCEPT !.at = at, !.acct = a].job = w.job
         /\ [w EXCEPT !.at = at, !.acct = a].at = at
         /\ [w EXCEPT !.at = at, !.todo = todo, !.status = s].job = w.job
         /\ [w EXCEPT !.at = at, !.todo = todo, !.status = s].at = at
         /\ [w EXCEPT !.at = at, !.view = v].job = w.job
         /\ [w EXCEPT !.at = at, !.todo = todo, !.status = s, !.when = d, !.view = v].job = w.job
BY DEF Worker

\* The steps of the worker: it takes a job, starts a run, cleans up after one,
\* or moves on within the part of the loop it is in.
LEMMA RunOnceFrame ==
  ASSUME TypeInv, RunOnce
  PROVE  \/ TakeItem
         \/ Spawn
         \/ Cleanup
         \/ /\ worker'.job \in {worker.job, NoJob}
            /\ worker.at \in InRun => worker'.job = worker.job /\ worker'.at \in InRun
            /\ UNCHANGED <<files, runs, runJob, thr, queue>>
<1> DEFINE Keeps(at) == worker'.job = worker.job /\ worker'.at = at
           Stays == /\ worker'.job \in {worker.job, NoJob}
                    /\ worker.at \in InRun => worker'.job = worker.job /\ worker'.at \in InRun
<1>1. worker \in Worker
  BY DEF TypeInv, TypeOK
<1>2. ASSUME NEW at, WGoto(at) PROVE Keeps(at)
  BY <1>1, <1>2, WorkerMove DEF WGoto
<1>3. IdleWorker.job = NoJob
  BY DEF IdleWorker, WorksOn
<1>4. ASSUME NEW todo, worker' = [worker EXCEPT !.todo = todo] PROVE Keeps(worker.at)
  BY <1>1, <1>4, WorkerMove
<1>5. ASSUME NEW at, NEW todo, worker' = [worker EXCEPT !.at = at, !.todo = todo] PROVE Keeps(at)
  BY <1>1, <1>5, WorkerMove
<1>6. CASE CheckRunnable \/ SkipClear
  <2>1. worker.at \notin InRun
    BY <1>6 DEF CheckRunnable, SkipClear, WAt, InRun
  <2>2. worker' = IdleWorker \/ WGoto("run") \/ WGoto("skip_clear")
    BY <1>6 DEF CheckRunnable, SkipClear, WGoto
  <2>3. Stays
    BY <1>2, <1>3, <2>1, <2>2
  <2>4. UNCHANGED <<files, runs, runJob, thr, queue>>
    BY <1>6 DEF CheckRunnable, SkipClear, poolVars
  <2> QED BY <2>3, <2>4
<1>15. CASE RunRead
  <2>1. worker.at \notin InRun
    BY <1>15 DEF RunRead, WAt, InRun
  <2>2. ASSUME NEW v, worker' = [worker EXCEPT !.at = "invalid", !.view = v]
        PROVE  worker'.job = worker.job
    BY <1>1, <2>2, WorkerMove
  <2>3. ASSUME NEW at, worker' = [worker EXCEPT !.at = at]
        PROVE  worker'.job = worker.job
    BY <1>1, <2>3, WorkerMove
  <2>4. Stays
    BY <1>15, <2>1, <2>2, <2>3 DEF RunRead
  <2> QED BY <1>15, <2>4 DEF RunRead, poolVars
<1>7. CASE RunClear \/ SetRunning \/ NoAccounts \/ NoAccountsClear
  BY <1>2, <1>7 DEF RunClear, SetRunning, NoAccounts, NoAccountsClear, WAt, InRun, poolVars
<1>8. CASE InvalidStatus \/ InvalidResult
  <2>1. worker.at \notin InRun
    BY <1>8 DEF InvalidStatus, InvalidResult, WAt, InRun
  <2>2. Stays
    BY <1>2, <1>4, <1>5, <1>8, <2>1 DEF InvalidStatus, InvalidResult
  <2> QED BY <1>8, <2>2 DEF InvalidStatus, InvalidResult, poolVars
<1>9. CASE UploadsDone \/ Clear \/ SetFinal \/ ExceptClear \/ ExceptSetFailed
  BY <1>2, <1>9 DEF UploadsDone, Clear, SetFinal, ExceptClear, ExceptSetFailed, InRun, poolVars
<1>10. CASE OuterDeadline
  BY <1>5, <1>10 DEF OuterDeadline, InRun, poolVars
<1>11. CASE StalledRead
  <2>1. ASSUME NEW a, worker' = [worker EXCEPT !.at = "stalled_write", !.acct = a]
        PROVE  Keeps("stalled_write")
    BY <1>1, <2>1, WorkerMove
  <2>2. Stays
    BY <1>2, <1>4, <1>11, <2>1 DEF StalledRead, InRun
  <2> QED BY <1>11, <2>2 DEF StalledRead, poolVars
<1>12. CASE StalledWrite
  BY <1>2, <1>5, <1>12 DEF StalledWrite, InRun, poolVars
<1>13. CASE TallyResults
  <2>1. ASSUME NEW s, worker' = [worker EXCEPT !.at = "clear", !.todo = {}, !.status = s]
        PROVE  Keeps("clear")
    BY <1>1, <2>1, WorkerMove
  <2>2. Stays
    BY <1>5, <1>13, <2>1 DEF TallyResults, InRun
  <2> QED BY <1>13, <2>2 DEF TallyResults, poolVars
<1>14. CASE SyncRead \/ SyncWrite
  <2>1. worker.at \notin InRun
    BY <1>14 DEF SyncRead, SyncWrite, WAt, InRun
  <2>2. ASSUME NEW s, NEW d, NEW v,
               worker' = [worker EXCEPT !.at = "sync_write", !.todo = {}, !.status = s,
                                        !.when = d, !.view = v]
        PROVE  worker'.job = worker.job
    BY <1>1, <2>2, WorkerMove
  <2>3. Stays
    BY <1>3, <1>14, <2>1, <2>2 DEF SyncRead, SyncWrite
  <2> QED BY <1>14, <2>3 DEF SyncRead, SyncWrite, poolVars
<1> QED BY <1>6, <1>7, <1>8, <1>9, <1>10, <1>11, <1>12, <1>13, <1>14, <1>15 DEF RunOnce

\* Nobody refers to a job before it is created.
LEMMA KnownStep ==
  ASSUME TypeInv, Known, Next
  PROVE  Known'
<1>1. NoJob \notin Jobs /\ queue \in Seq(Jobs) /\ timers \in SUBSET Jobs
  BY NoneAssumption DEF TypeInv, TypeOK
<1>2. \A j \in Jobs : status[j] # "none" => status'[j] # "none"
  BY StaysCreated
<1>3. ASSUME NEW q \in Requests, Handle(q) PROVE Known'
  <2>1. /\ req[q].job \in Jobs /\ status[req[q].job] # "none"
        /\ \A p \in Requests : req'[p].job \in {req[p].job, NoJob}
    BY <1>3, KeepsJob DEF Known
  <2>2. \A i \in DOMAIN queue' : status'[queue'[i]] # "none"
    <3>1. \A i \in DOMAIN queue : status'[queue[i]] # "none"
      BY <1>1, <1>2 DEF Known
    <3>2. \A i \in DOMAIN Append(queue, req[q].job) : status'[Append(queue, req[q].job)[i]] # "none"
      BY <1>1, <1>2, <2>1, <3>1
    <3> QED BY <1>3, <3>1, <3>2, HandleFrame
  <2> QED BY <1>1, <1>2, <1>3, <2>1, <2>2, HandleFrame DEF Known
<1>4. ASSUME NEW q \in Requests, NEW j \in Jobs, Arrive(q, j) PROVE Known'
  <2>1. status'[j] # "none"
    BY <1>4, <1>2 DEF Arrive, CreatePost, PutJob, TypeInv, TypeOK, StopRead, PauseRead, ResumeRead,
         RetryClear, DeleteRead, Exists, Stoppable, JobStatus
  <2>2. \A p \in Requests : req'[p].job \in {req[p].job, j}
    <3>1. PICK op, at : Begin(q, op, j, at)
      BY <1>4 DEF Arrive, CreatePost, StopRead, PauseRead, ResumeRead, RetryClear, DeleteRead
    <3> QED BY <3>1 DEF Begin, Asks, TypeInv, TypeOK
  <2>3. UNCHANGED <<queue, timers, worker, runJob>>
    BY <1>4 DEF Arrive, CreatePost, StopRead, PauseRead, ResumeRead, RetryClear, DeleteRead, poolVars
  <2> QED BY <1>1, <1>2, <2>1, <2>2, <2>3 DEF Known
<1>5. ASSUME NEW j \in Jobs, EnqueueDueJob(j) PROVE Known'
  <2>1. status[j] # "none" /\ status' = status
    BY <1>5 DEF EnqueueDueJob, Known, storeVars
  <2>2. \A i \in DOMAIN Append(queue, j) : status'[Append(queue, j)[i]] # "none"
    BY <1>1, <2>1 DEF Known
  <2> QED BY <1>5, <2>1, <2>2 DEF EnqueueDueJob, Known, poolVars
<1>6. ASSUME RunOnce PROVE Known'
  <2>1. worker.at # "idle" => worker.job \in Jobs
    BY DEF TypeInv, HasJob
  <2>2. \A p \in Requests : req'[p].job = req[p].job
    <3>1. CASE SyncWrite
      BY <3>1, OrphanKeepsJob DEF SyncWrite, TypeInv, TypeOK
    <3>2. CASE ~SyncWrite
      BY <1>6, <3>2 DEF RunOnce, TakeItem, CheckRunnable, SkipClear, RunRead, RunClear, InvalidStatus,
           InvalidResult, SetRunning, Spawn, NoAccounts, NoAccountsClear, UploadsDone, OuterDeadline,
           StalledRead, StalledWrite, TallyResults, Clear, SetFinal, ExceptClear, ExceptSetFailed,
           Cleanup, SyncRead
    <3> QED BY <3>1, <3>2
  <2>3. timers' = timers
    BY <1>6 DEF RunOnce, TakeItem, CheckRunnable, SkipClear, RunRead, RunClear, InvalidStatus,
         InvalidResult, SetRunning, Spawn, NoAccounts, NoAccountsClear, UploadsDone, OuterDeadline,
         StalledRead, StalledWrite, TallyResults, Clear, SetFinal, ExceptClear, ExceptSetFailed,
         Cleanup, SyncRead, SyncWrite
  <2>4. CASE TakeItem
    <3>1. /\ worker'.job = Head(queue) /\ queue' = Tail(queue) /\ queue # <<>>
          /\ UNCHANGED <<status, runJob>>
      BY <2>4 DEF TakeItem, WorksOn, storeVars, poolVars
    <3>2. status'[Head(queue)] # "none" /\ \A i \in DOMAIN Tail(queue) : status'[Tail(queue)[i]] # "none"
      BY <1>1, <3>1 DEF Known
    <3> QED BY <1>1, <1>2, <2>2, <2>3, <3>1, <3>2 DEF Known
  <2>5. CASE Spawn
    BY <1>1, <1>2, <2>1, <2>2, <2>3, <2>5 DEF Spawn, WGoto, WAt, Known, storeVars, TypeInv, TypeOK, Worker
  <2>6. CASE Cleanup
    BY <1>1, <1>2, <2>2, <2>3, <2>6 DEF Cleanup, WGoto, Known, storeVars, poolVars, TypeInv, TypeOK, Worker
  <2>7. ASSUME worker'.job \in {worker.job, NoJob}, UNCHANGED <<runJob, queue>> PROVE Known'
    BY <1>1, <1>2, <2>2, <2>3, <2>7 DEF Known
  <2> QED BY <1>6, <2>4, <2>5, <2>6, <2>7, RunOnceFrame
<1>7. ASSUME NEW r \in Runs, NEW a \in Accounts, Upload(r, a) \/ Dispatch(r, a) PROVE Known'
  <2>1. UNCHANGED <<req, queue, timers, worker, runJob>>
    BY <1>7 DEF Upload, FirstStopCheck, PauseCheck, TestEvent, SecondStopCheck, Skip, Reject,
         MarkUploading, Collect, Report, Dispatch, OpenMedia, Publish, Refuse, ThreadOnly
  <2> QED BY <1>1, <1>2, <2>1 DEF Known
<1>8. ASSUME WaitForRequest PROVE Known'
  BY <1>8 DEF WaitForRequest, vars, storeVars, poolVars, Known
<1> QED BY <1>3, <1>4, <1>5, <1>6, <1>7, <1>8 DEF Next

\* The fields of a thread after a change of some of them.
LEMMA ThreadFields ==
  ASSUME NEW t \in Thread, NEW at, NEW e, NEW n
  PROVE  /\ [t EXCEPT !.at = at].at = at
         /\ [t EXCEPT !.at = at].net = t.net
         /\ [t EXCEPT !.at = at, !.evt = e].at = at
         /\ [t EXCEPT !.at = at, !.evt = e].net = t.net
         /\ [t EXCEPT !.at = at, !.net = n].at = at
         /\ [t EXCEPT !.at = at, !.net = n].net = n
         /\ [t EXCEPT !.net = n].at = t.at
         /\ [t EXCEPT !.net = n].net = n
BY DEF Thread

\* What an upload thread does to itself: its network call may begin, once.
LEMMA UploadFrame ==
  ASSUME TypeInv, ThreadShape, NEW r \in Runs, NEW a \in Accounts, Upload(r, a)
  PROVE  /\ r <= runs
         /\ \E t : /\ Becomes(r, a, t) /\ Shape(t)
                   /\ t.net = thr[r][a].net \/ (thr[r][a].net = "none" /\ t.net = "queued")
         /\ UNCHANGED <<worker, runs, runJob, posted, files>>
<1> DEFINE old == thr[r][a]
           Goal == \E t : /\ Becomes(r, a, t) /\ Shape(t)
                          /\ t.net = old.net \/ (old.net = "none" /\ t.net = "queued")
<1>1. old \in Thread /\ Shape(old) /\ (r > runs => old = NoThread) /\ runs \in Nat /\ r \in Nat
  BY BoundsAssumption DEF TypeInv, TypeOK, ThreadShape, Runs
<1>2. old.at # "none"
  BY DEF Upload, FirstStopCheck, PauseCheck, TestEvent, SecondStopCheck, Skip, Reject,
         MarkUploading, Collect, Report, TAt
<1>3. r <= runs
  BY <1>1, <1>2 DEF NoThread
<1>4. UNCHANGED <<worker, runs, runJob, posted, files>>
  BY DEF Upload, FirstStopCheck, PauseCheck, TestEvent, SecondStopCheck, Skip, Reject,
         MarkUploading, Collect, Report, ThreadOnly
<1>5. ASSUME NEW t, Becomes(r, a, t), Shape(t),
             t.net = old.net \/ (old.net = "none" /\ t.net = "queued")
      PROVE  Goal
  BY <1>5
<1>6. ASSUME NEW at, TGoto(r, a, at), at \notin {"uploading", "success", "failed", "done"} => old.net = "none",
             at = "success" => old.net = "ok"
      PROVE  Goal
  <2> DEFINE t == [old EXCEPT !.at = at]
  <2>1. t.at = at /\ t.net = old.net
    BY <1>1, ThreadFields
  <2>2. Becomes(r, a, t)
    BY <1>6 DEF TGoto
  <2> HIDE DEF t
  <2> QED BY <1>5, <1>6, <2>1, <2>2 DEF Shape
<1>7. ASSUME NEW at, NEW e, Becomes(r, a, [old EXCEPT !.at = at, !.evt = e]),
             at # "done" => old.net = "none", at # "success"
      PROVE  Goal
  <2> DEFINE t == [old EXCEPT !.at = at, !.evt = e]
  <2>1. t.at = at /\ t.net = old.net
    BY <1>1, ThreadFields
  <2>2. Becomes(r, a, t)
    BY <1>7
  <2> HIDE DEF t
  <2> QED BY <1>5, <1>7, <2>1, <2>2 DEF Shape
<1> SUFFICES Goal
  BY <1>3, <1>4
<1> HIDE DEF Goal
<1>8. CASE FirstStopCheck(r, a)
  BY <1>1, <1>6, <1>8 DEF FirstStopCheck, TAt, Shape
<1>9. CASE PauseCheck(r, a)
  BY <1>1, <1>7, <1>9 DEF PauseCheck, TAt, Shape
<1>10. CASE TestEvent(r, a)
  BY <1>1, <1>6, <1>7, <1>10 DEF TestEvent, TAt, Shape
<1>11. CASE SecondStopCheck(r, a)
  BY <1>1, <1>6, <1>11 DEF SecondStopCheck, TAt, Shape
<1>12. CASE Skip(r, a)
  BY <1>1, <1>7, <1>12 DEF Skip, TDone, TAt, Shape
<1>13. CASE Reject(r, a)
  BY <1>1, <1>6, <1>13 DEF Reject, TAt, Shape
<1>14. CASE MarkUploading(r, a)
  <2>1. old.net = "none"
    BY <1>1, <1>14 DEF MarkUploading, TAt, Shape
  <2>2. CASE Exists(runJob[r])
    <3> DEFINE t == [old EXCEPT !.at = "uploading", !.net = "queued"]
    <3>1. t.at = "uploading" /\ t.net = "queued"
      BY <1>1, ThreadFields
    <3>2. Becomes(r, a, t)
      BY <1>14, <2>2 DEF MarkUploading
    <3> HIDE DEF t
    <3> QED BY <1>5, <2>1, <3>1, <3>2 DEF Shape
  <2>3. CASE ~Exists(runJob[r])
    BY <1>1, <1>7, <1>14, <2>1, <2>3 DEF MarkUploading, TDone
  <2> QED BY <2>2, <2>3
<1>15. CASE Collect(r, a)
  BY <1>1, <1>6, <1>15 DEF Collect, TAt, Shape
<1>16. CASE Report(r, a)
  BY <1>1, <1>7, <1>16 DEF Report, TDone, TAt, Shape
<1> QED BY <1>8, <1>9, <1>10, <1>11, <1>12, <1>13, <1>14, <1>15, <1>16 DEF Upload

\* Steps that start no run and end no network call: a call may begin.
NetsQuiet ==
  /\ UNCHANGED <<runs, runJob, posted>>
  /\ \A r \in Runs, a \in Accounts :
       \/ thr'[r][a].net = thr[r][a].net
       \/ thr[r][a].net = "none" /\ thr'[r][a].net = "queued"

\* Every step is of one of three kinds, as far as posting goes.
LEMMA NextKinds ==
  ASSUME TypeInv, ThreadShape, Next
  PROVE  /\ \/ NetsQuiet \/ Spawn \/ \E r \in Runs, a \in Accounts : Dispatch(r, a)
         /\ Spawn \/ ThreadShape'
<1>9. thr \in [Runs -> [Accounts -> Thread]] /\ runs \in Nat
  BY BoundsAssumption DEF TypeInv, TypeOK
<1>1. ASSUME UNCHANGED <<thr, runs, runJob, posted>> PROVE NetsQuiet /\ ThreadShape'
  BY <1>1 DEF NetsQuiet, ThreadShape
<1>2. ASSUME NEW q \in Requests, Handle(q) PROVE NetsQuiet /\ ThreadShape'
  <2>1. CASE SetPauseEvent(q)
    <3> DEFINE Moved(t) == [t EXCEPT !.at = "stop_check", !.evt = 0]
    <3>1. \A r \in Runs, a \in Accounts :
            \/ thr'[r][a] = thr[r][a]
            \/ thr[r][a].at = "blocked" /\ thr'[r][a] = Moved(thr[r][a])
      BY <1>9, <2>1 DEF SetPauseEvent
    <3>2. ASSUME NEW t \in Thread, t.at = "blocked", Shape(t)
          PROVE  Moved(t).net = t.net /\ Shape(Moved(t)) /\ t # NoThread
      BY <3>2, ThreadFields DEF Shape, NoThread
    <3> HIDE DEF Moved
    <3>3. UNCHANGED <<runs, runJob, posted>>
      BY <1>2, HandleFrame
    <3>4. ASSUME NEW r \in Runs, NEW a \in Accounts
          PROVE  /\ thr'[r][a].net = thr[r][a].net /\ Shape(thr'[r][a])
                 /\ r > runs => thr'[r][a] = NoThread
      <4>1. Shape(thr[r][a]) /\ (r > runs => thr[r][a] = NoThread) /\ thr[r][a] \in Thread
        BY <1>9 DEF ThreadShape
      <4> QED BY <3>1, <3>2, <4>1
    <3> QED BY <3>3, <3>4 DEF NetsQuiet, ThreadShape
  <2>2. CASE ~SetPauseEvent(q)
    <3>1. thr' = thr
      BY <1>2, <2>2 DEF Handle, StopFlag, StopCheck, Pause, Resume, SetStatusRead,
           SetStatusWrite, AddTimer, Enqueue, RetryRead, RetryWrite, Delete, poolVars
    <3> QED BY <1>1, <1>2, <3>1, HandleFrame
  <2> QED BY <2>1, <2>2
<1>3. ASSUME NEW q \in Requests, NEW j \in Jobs, Arrive(q, j) PROVE NetsQuiet /\ ThreadShape'
  BY <1>1, <1>3 DEF Arrive, CreatePost, StopRead, PauseRead, ResumeRead, RetryClear, DeleteRead, poolVars
<1>4. ASSUME WaitForRequest \/ \E j \in Jobs : EnqueueDueJob(j) PROVE NetsQuiet /\ ThreadShape'
  BY <1>1, <1>4 DEF EnqueueDueJob, WaitForRequest, vars, poolVars
<1>5. ASSUME RunOnce, ~Spawn PROVE NetsQuiet /\ ThreadShape'
  <2>1. UNCHANGED <<thr, runs, runJob, posted>>
    BY <1>5 DEF RunOnce, TakeItem, CheckRunnable, SkipClear, RunRead, RunClear, InvalidStatus,
         InvalidResult, SetRunning, NoAccounts, NoAccountsClear, UploadsDone, OuterDeadline,
         StalledRead, StalledWrite, TallyResults, Clear, SetFinal, ExceptClear, ExceptSetFailed,
         Cleanup, SyncRead, SyncWrite, poolVars
  <2> QED BY <1>1, <2>1
<1>6. ASSUME NEW r \in Runs, NEW a \in Accounts, Upload(r, a) PROVE NetsQuiet /\ ThreadShape'
  <2>1. PICK t : /\ Becomes(r, a, t) /\ Shape(t)
                 /\ t.net = thr[r][a].net \/ (thr[r][a].net = "none" /\ t.net = "queued")
    BY <1>6, UploadFrame
  <2>2. r <= runs /\ UNCHANGED <<runs, runJob, posted>>
    BY <1>6, UploadFrame
  <2>3. \A s \in Runs, b \in Accounts :
          thr'[s][b] = IF s = r /\ b = a THEN t ELSE thr[s][b]
    BY <1>9, <2>1 DEF Becomes
  <2>4. r \in Nat /\ ~(r > runs)
    BY <1>9, <2>2 DEF Runs
  <2> QED BY <2>1, <2>2, <2>3, <2>4 DEF NetsQuiet, ThreadShape
<1>7. ASSUME NEW r \in Runs, NEW a \in Accounts, Dispatch(r, a) PROVE ThreadShape'
  <2>1. /\ thr[r][a] \in Thread /\ thr[r][a].net \in {"queued", "sending"} /\ Shape(thr[r][a])
        /\ UNCHANGED runs /\ (r > runs => thr[r][a] = NoThread)
    BY <1>7, <1>9 DEF Dispatch, OpenMedia, Publish, Refuse, ThreadOnly, ThreadShape
  <2>2. PICK n : thr' = [thr EXCEPT ![r][a] = [thr[r][a] EXCEPT !.net = n]]
    BY <1>7 DEF Dispatch, OpenMedia, Publish, Refuse, TNet, Becomes
  <2> DEFINE t == [thr[r][a] EXCEPT !.net = n]
  <2>3. t.at = thr[r][a].at /\ t.net = n
    BY <2>1, ThreadFields
  <2>4. \A s \in Runs, b \in Accounts : thr'[s][b] = IF s = r /\ b = a THEN t ELSE thr[s][b]
    BY <1>9, <2>2
  <2> HIDE DEF t
  <2>5. Shape(t) /\ ~(r > runs)
    BY <2>1, <2>3 DEF Shape, NoThread
  <2> QED BY <2>1, <2>4, <2>5 DEF ThreadShape
<1> QED BY <1>2, <1>3, <1>4, <1>5, <1>6, <1>7 DEF Next

\* What the start of a run does: the new run is the worker's job, and none of
\* its threads has a network call yet.
LEMMA SpawnFrame ==
  ASSUME TypeInv, Spawn
  PROVE  /\ runs' = runs + 1 /\ runs' \in Runs /\ worker.job \in Jobs
         /\ \A r \in Runs : runJob'[r] = IF r = runs' THEN worker.job ELSE runJob[r]
         /\ \A r \in Runs, a \in Accounts :
              /\ r # runs' => thr'[r][a] = thr[r][a]
              /\ r = runs' => Shape(thr'[r][a]) /\ thr'[r][a].net = "none"
         /\ worker'.job = worker.job /\ worker'.at = "wait" /\ worker.at = "spawn"
         /\ UNCHANGED <<posted, files>>
<1>1. runs' = runs + 1 /\ runs' \in Runs /\ worker.job \in Jobs
  BY BoundsAssumption DEF Spawn, Runs, WAt, TypeInv, TypeOK, HasJob
<1>2. /\ NoThread.net = "none" /\ Shape(NoThread)
      /\ [NoThread EXCEPT !.at = "start"].net = "none" /\ Shape([NoThread EXCEPT !.at = "start"])
  BY DEF NoThread, Shape
<1>3. \A r \in Runs : runJob'[r] = IF r = runs' THEN worker.job ELSE runJob[r]
  BY <1>1 DEF Spawn, TypeInv, TypeOK
<1>4. \A r \in Runs, a \in Accounts :
        /\ r # runs' => thr'[r][a] = thr[r][a]
        /\ r = runs' => Shape(thr'[r][a]) /\ thr'[r][a].net = "none"
  BY <1>1, <1>2 DEF Spawn, TypeInv, TypeOK
<1>5. worker'.job = worker.job /\ worker'.at = "wait" /\ worker.at = "spawn"
  BY WorkerMove DEF Spawn, WGoto, WAt, TypeInv, TypeOK
<1> QED BY <1>1, <1>3, <1>4, <1>5 DEF Spawn

\* Only the last run of all may still have its media.
LEMMA OneRunStep ==
  ASSUME TypeInv, Known, ThreadShape, OneRunHasMedia, Next
  PROVE  OneRunHasMedia'
<1>1. /\ runs \in Nat /\ files \in SUBSET Jobs /\ NoJob \notin Jobs
      /\ \A r \in Runs : r \in Nat /\ runJob[r] \in Jobs \cup {NoJob}
  BY NoneAssumption, BoundsAssumption DEF TypeInv, TypeOK, Runs
<1>2. ASSUME UNCHANGED <<runs, runJob, worker, files>> PROVE OneRunHasMedia'
  BY <1>2 DEF OneRunHasMedia
<1>3. ASSUME NEW q \in Requests, Handle(q) PROVE OneRunHasMedia'
  BY <1>2, <1>3, HandleFrame
<1>4. ASSUME NEW q \in Requests, NEW j \in Jobs, Arrive(q, j) PROVE OneRunHasMedia'
  <2>1. UNCHANGED <<runs, runJob, worker>>
    BY <1>4 DEF Arrive, CreatePost, StopRead, PauseRead, ResumeRead, RetryClear, DeleteRead, poolVars
  <2>2. files' = files \/ (files' = files \cup {j} /\ status[j] = "none")
    BY <1>4 DEF Arrive, CreatePost, StopRead, PauseRead, ResumeRead, RetryClear, DeleteRead
  <2>3. status[j] = "none" => \A r \in Runs : runJob[r] # j
    BY DEF Known
  <2> QED BY <1>1, <2>1, <2>2, <2>3 DEF OneRunHasMedia
<1>5. ASSUME WaitForRequest \/ \E j \in Jobs : EnqueueDueJob(j) PROVE OneRunHasMedia'
  BY <1>2, <1>5 DEF EnqueueDueJob, WaitForRequest, vars, poolVars
<1>6. ASSUME RunOnce PROVE OneRunHasMedia'
  <2>1. CASE TakeItem
    <3>1. worker.at \notin InRun /\ UNCHANGED <<runs, runJob, files>>
      BY <2>1 DEF TakeItem, WAt, InRun, poolVars
    <3> QED BY <3>1 DEF OneRunHasMedia
  <2>2. CASE Spawn
    <3>1. worker.at \notin InRun
      BY <2>2, SpawnFrame DEF InRun
    <3>2. \A r \in Runs : r <= runs => runJob[r] \notin files
      BY <3>1 DEF OneRunHasMedia
    <3> QED BY <1>1, <2>2, <3>2, SpawnFrame DEF OneRunHasMedia, InRun
  <2>3. CASE Cleanup
    <3>1. UNCHANGED <<runs, runJob>> /\ files' = files \ {worker.job}
      BY <2>3 DEF Cleanup, poolVars
    <3> QED BY <3>1 DEF OneRunHasMedia
  <2>4. ASSUME worker.at \in InRun => worker'.job = worker.job /\ worker'.at \in InRun,
               UNCHANGED <<files, runs, runJob>>
        PROVE  OneRunHasMedia'
    BY <2>4 DEF OneRunHasMedia
  <2> QED BY <1>6, <2>1, <2>2, <2>3, <2>4, RunOnceFrame
<1>7. ASSUME NEW r \in Runs, NEW a \in Accounts, Upload(r, a) \/ Dispatch(r, a)
      PROVE  OneRunHasMedia'
  BY <1>2, <1>7, UploadFrame DEF Dispatch, OpenMedia, Publish, Refuse, ThreadOnly
<1> QED BY <1>3, <1>4, <1>5, <1>6, <1>7 DEF Next

\* What a step of a network call changes.
LEMMA DispatchFrame ==
  ASSUME TypeInv, NEW r \in Runs, NEW a \in Accounts, Dispatch(r, a)
  PROVE  /\ runJob[r] \in Jobs
         /\ \A s \in Runs, b \in Accounts : (s # r \/ b # a) => thr'[s][b] = thr[s][b]
         /\ UNCHANGED <<runs, runJob, files, status>>
         /\ \/ /\ thr[r][a].net = "queued" /\ posted' = posted
               /\ thr'[r][a].net = IF runJob[r] \in files THEN "sending" ELSE "err"
            \/ /\ thr[r][a].net = "sending" /\ thr'[r][a].net \in {"ok", "err"}
               /\ posted' = [posted EXCEPT ![runJob[r]][a] = posted[runJob[r]][a] + 1]
            \/ /\ thr[r][a].net = "sending" /\ thr'[r][a].net = "err" /\ posted' = posted
<1>1. thr \in [Runs -> [Accounts -> Thread]] /\ thr[r][a] \in Thread
  BY DEF TypeInv, TypeOK
<1>2. PICK n : TNet(r, a, n)
  BY DEF Dispatch, OpenMedia, Publish, Refuse
<1>3. \A s \in Runs, b \in Accounts : (s # r \/ b # a) => thr'[s][b] = thr[s][b]
  BY <1>1, <1>2 DEF TNet, Becomes
<1>4. ASSUME NEW m, TNet(r, a, m) PROVE thr'[r][a].net = m
  BY <1>1, <1>4, ThreadFields DEF TNet, Becomes
<1>5. UNCHANGED <<runs, runJob, files, status>>
  BY DEF Dispatch, OpenMedia, Publish, Refuse, ThreadOnly, storeVars
<1>6. \/ /\ thr[r][a].net = "queued" /\ posted' = posted
         /\ thr'[r][a].net = IF runJob[r] \in files THEN "sending" ELSE "err"
      \/ /\ thr[r][a].net = "sending" /\ thr'[r][a].net \in {"ok", "err"}
         /\ posted' = [posted EXCEPT ![runJob[r]][a] = posted[runJob[r]][a] + 1]
      \/ /\ thr[r][a].net = "sending" /\ thr'[r][a].net = "err" /\ posted' = posted
  BY <1>4 DEF Dispatch, OpenMedia, Publish, Refuse
<1>7. runJob[r] \in Jobs
  <2>1. thr[r][a] # NoThread
    BY <1>6 DEF NoThread
  <2> QED BY <2>1 DEF TypeInv, HasJob
<1> QED BY <1>3, <1>5, <1>6, <1>7

\* Posts and network calls stay in step, and no account is posted to twice.
LEMMA PostsStep ==
  ASSUME TypeInv, ThreadShape, OneRunHasMedia, PostsHaveCalls, AtMostOnePost, Next
  PROVE  PostsHaveCalls' /\ AtMostOnePost'
<1>1. /\ posted \in [Jobs -> [Accounts -> Nat]] /\ runs \in Nat /\ NoJob \notin Jobs
      /\ \A r \in Runs : r \in Nat /\ runJob[r] \in Jobs \cup {NoJob}
      /\ \A r \in Runs, a \in Accounts : r > runs => thr[r][a].net = "none"
  BY NoneAssumption, BoundsAssumption DEF TypeInv, TypeOK, Runs, ThreadShape, NoThread
<1>2. CASE NetsQuiet
  BY <1>2 DEF NetsQuiet, PostsHaveCalls, AtMostOnePost
<1>3. CASE Spawn
  <2>1. \A r \in Runs : r <= runs => r # runs'
    BY <1>1, <1>3, SpawnFrame
  <2>2. \A r \in Runs, a \in Accounts :
          thr'[r][a].net # "none" => r # runs' /\ thr'[r][a] = thr[r][a] /\ runJob'[r] = runJob[r]
    BY <1>3, SpawnFrame
  <2>3. posted' = posted /\ runs' = runs + 1
    BY <1>3, SpawnFrame
  <2>4. ASSUME NEW j \in Jobs, NEW a \in Accounts, posted'[j][a] > 0
        PROVE  \E r \in Runs : runJob'[r] = j /\ r <= runs' /\ thr'[r][a].net \in {"ok", "err"}
    <3>1. PICK r \in Runs : runJob[r] = j /\ r <= runs /\ thr[r][a].net \in {"ok", "err"}
      BY <2>3, <2>4 DEF PostsHaveCalls
    <3>2. runJob'[r] = j /\ thr'[r][a] = thr[r][a] /\ r <= runs'
      BY <1>1, <1>3, <2>1, <2>3, <3>1, SpawnFrame
    <3> QED BY <3>1, <3>2
  <2>5. ASSUME NEW r \in Runs, NEW a \in Accounts, thr'[r][a].net = "ok"
        PROVE  posted'[runJob'[r]][a] > 0
    BY <2>2, <2>3, <2>5 DEF PostsHaveCalls
  <2>6. ASSUME NEW r \in Runs, NEW a \in Accounts, thr'[r][a].net = "sending"
        PROVE  /\ posted'[runJob'[r]][a] = 0
               /\ \A s \in Runs : (runJob'[s] = runJob'[r] /\ thr'[s][a].net = "sending") => s = r
    BY <2>2, <2>3, <2>6 DEF PostsHaveCalls
  <2> QED BY <2>3, <2>4, <2>5, <2>6 DEF PostsHaveCalls, AtMostOnePost
<1>4. ASSUME NEW r \in Runs, NEW a \in Accounts, Dispatch(r, a)
      PROVE  PostsHaveCalls' /\ AtMostOnePost'
  <2> DEFINE j == runJob[r]
  <2>1. /\ j \in Jobs /\ UNCHANGED <<runs, runJob>>
        /\ \A s \in Runs, b \in Accounts : (s # r \/ b # a) => thr'[s][b] = thr[s][b]
    BY <1>4, DispatchFrame, ZenonT(60)
  <2>2. thr[r][a].net # "none" /\ r <= runs
    <3>1. thr[r][a].net \in {"queued", "sending"}
      BY <1>4 DEF Dispatch, OpenMedia, Publish, Refuse
    <3>2. ~(r > runs) /\ r \in Nat
      BY <1>1, <3>1
    <3> QED BY <1>1, <3>1, <3>2
  <2>3. CASE thr[r][a].net = "queued"
    <3>1. posted' = posted /\ thr'[r][a].net = IF j \in files THEN "sending" ELSE "err"
      BY <1>4, <2>3, DispatchFrame
    <3>2. CASE j \in files
      <4>1. \A s \in Runs : runJob[s] = j /\ s <= runs => s = r
        BY <2>2, <3>2 DEF OneRunHasMedia
      <4>2. posted[j][a] = 0
        BY <1>1, <2>1, <2>3, <4>1 DEF PostsHaveCalls
      <4>3. \A s \in Runs : runJob[s] = j /\ thr[s][a].net # "none" => s = r
        BY <1>1, <4>1
      <4> QED BY <1>1, <2>1, <2>3, <3>1, <3>2, <4>2, <4>3 DEF PostsHaveCalls, AtMostOnePost
    <3>3. CASE j \notin files
      BY <2>1, <2>3, <3>1, <3>3 DEF PostsHaveCalls, AtMostOnePost
    <3> QED BY <3>2, <3>3
  <2>4. CASE thr[r][a].net = "sending"
    <3>1. /\ posted[j][a] = 0
          /\ \A s \in Runs : (runJob[s] = j /\ thr[s][a].net = "sending") => s = r
      BY <2>4 DEF PostsHaveCalls
    <3>2. CASE posted' = posted /\ thr'[r][a].net = "err"
      BY <2>1, <2>4, <3>2 DEF PostsHaveCalls, AtMostOnePost
    <3>3. CASE /\ thr'[r][a].net \in {"ok", "err"}
               /\ posted' = [posted EXCEPT ![j][a] = posted[j][a] + 1]
      <4>1. \A i \in Jobs, b \in Accounts :
              posted'[i][b] = IF i = j /\ b = a THEN 1 ELSE posted[i][b]
        BY <1>1, <2>1, <3>1, <3>3
      <4>2. AtMostOnePost'
        BY <4>1 DEF AtMostOnePost
      <4>3. ASSUME NEW i \in Jobs, NEW b \in Accounts, posted'[i][b] > 0
            PROVE  \E s \in Runs : runJob'[s] = i /\ s <= runs' /\ thr'[s][b].net \in {"ok", "err"}
        <5>1. CASE i = j /\ b = a
          BY <2>1, <2>2, <3>3, <5>1
        <5>2. CASE ~(i = j /\ b = a)
          <6>1. PICK s \in Runs : runJob[s] = i /\ s <= runs /\ thr[s][b].net \in {"ok", "err"}
            BY <4>1, <4>3, <5>2 DEF PostsHaveCalls
          <6> QED BY <2>1, <2>4, <6>1
        <5> QED BY <5>1, <5>2
      <4>4. ASSUME NEW s \in Runs, NEW b \in Accounts, thr'[s][b].net = "ok"
            PROVE  posted'[runJob'[s]][b] > 0
        <5>1. CASE s = r /\ b = a
          BY <2>1, <4>1, <5>1
        <5>2. CASE ~(s = r /\ b = a)
          <6>1. posted[runJob[s]][b] > 0 /\ runJob'[s] = runJob[s]
            BY <2>1, <4>4, <5>2 DEF PostsHaveCalls
          <6> QED BY <1>1, <3>3, <6>1, <4>1, <2>1
        <5> QED BY <5>1, <5>2
      <4>5. ASSUME NEW s \in Runs, NEW b \in Accounts, thr'[s][b].net = "sending"
            PROVE  /\ posted'[runJob'[s]][b] = 0
                   /\ \A u \in Runs : (runJob'[u] = runJob'[s] /\ thr'[u][b].net = "sending") => u = s
        <5>1. thr'[s][b] = thr[s][b] /\ ~(runJob[s] = j /\ b = a)
          BY <2>1, <3>1, <3>3, <4>5
        <5>2. \A u \in Runs : thr'[u][b].net = "sending" => thr[u][b].net = "sending"
          BY <2>1, <3>3
        <5> QED BY <1>1, <2>1, <3>3, <4>1, <4>5, <5>1, <5>2 DEF PostsHaveCalls
      <4>6. PostsHaveCalls'
        BY <4>3, <4>4, <4>5 DEF PostsHaveCalls
      <4> QED BY <4>2, <4>6
    <3> QED BY <1>4, <2>4, <3>2, <3>3, DispatchFrame
  <2> QED BY <1>4, <2>3, <2>4, DispatchFrame
<1> QED BY <1>2, <1>3, <1>4, NextKinds

\* What Append adds is found at the end only.
LEMMA AppendOld ==
  ASSUME NEW S, NEW s \in Seq(S), NEW e, NEW k \in DOMAIN Append(s, e), Append(s, e)[k] # e
  PROVE  k \in DOMAIN s /\ Append(s, e)[k] = s[k]
OBVIOUS

\* A written result is a success only if the account was posted to.
LEMMA WriteKeepsSuccess ==
  ASSUME TypeInv, SuccessMeansPosted, UNCHANGED posted, NEW j \in Jobs, NEW a,
         NEW s \in ResultStatus, UpdateResult(j, a, s), s = "success" => posted[j][a] > 0
  PROVE  SuccessMeansPosted'
<1>1. cells \in [Jobs -> [Accounts -> Seq(ResultStatus)]]
  BY DEF TypeInv, TypeOK
<1>2. ASSUME NEW i \in Jobs, NEW b \in Accounts, NEW k \in DOMAIN cells'[i][b],
             cells'[i][b][k] = "success"
      PROVE  posted'[i][b] > 0
  <2>1. CASE i = j /\ b = a
    <3>1. cells'[j][a] = [cells[j][a] EXCEPT ![view[j][a]] = s]
      BY <1>1, <2>1 DEF UpdateResult
    <3>2. k \in DOMAIN cells[j][a] /\ (cells[j][a][k] = "success" \/ s = "success")
      BY <1>2, <2>1, <3>1
    <3> QED BY <1>2, <2>1, <3>2 DEF SuccessMeansPosted
  <2>2. CASE ~(i = j /\ b = a)
    <3>1. cells'[i][b] = cells[i][b]
      BY <1>1, <2>2 DEF UpdateResult
    <3> QED BY <1>2, <3>1 DEF SuccessMeansPosted
  <2> QED BY <2>1, <2>2
<1> QED BY <1>2 DEF SuccessMeansPosted

\* No step invents a success.
LEMMA SuccessStep ==
  ASSUME TypeInv, ThreadShape, PostsHaveCalls, SuccessMeansPosted, Next
  PROVE  SuccessMeansPosted'
<1>1. cells \in [Jobs -> [Accounts -> Seq(ResultStatus)]] /\ posted \in [Jobs -> [Accounts -> Nat]]
  BY DEF TypeInv, TypeOK
<1>2. ASSUME UNCHANGED <<cells, posted>> PROVE SuccessMeansPosted'
  BY <1>2 DEF SuccessMeansPosted
<1>3. ASSUME NEW q \in Requests, Handle(q) PROVE SuccessMeansPosted'
  <2>1. UNCHANGED posted
    BY <1>3, HandleFrame
  <2>2. CASE RetryWrite(q)
    <3>1. \A j \in Jobs, a \in Accounts : cells'[j][a] \in {cells[j][a], Append(cells[j][a], "pending")}
      BY <1>1, <2>2 DEF RetryWrite
    <3>2. ASSUME NEW j \in Jobs, NEW a \in Accounts, NEW k \in DOMAIN cells'[j][a],
                 cells'[j][a][k] = "success"
          PROVE  posted'[j][a] > 0
      <4>1. k \in DOMAIN cells[j][a] /\ cells[j][a][k] = "success"
        <5>1. CASE cells'[j][a] = cells[j][a]
          BY <3>2, <5>1
        <5>2. CASE cells'[j][a] = Append(cells[j][a], "pending")
          BY <1>1, <3>2, <5>2, AppendOld
        <5> QED BY <3>1, <5>1, <5>2
      <4> QED BY <2>1, <4>1 DEF SuccessMeansPosted
    <3> QED BY <3>2 DEF SuccessMeansPosted
  <2>3. CASE ~RetryWrite(q)
    <3>1. UNCHANGED cells
      BY <1>3, <2>3 DEF Handle, StopFlag, RaiseStopFlag, SetPauseEvent, SetEvent, StopCheck, Pause,
           RequestPause, Resume, SetStatusRead, SetStatusWrite, PutJob, AddTimer, Enqueue,
           RetryRead, Delete, DeleteJob, storeVars, recordVars
    <3> QED BY <1>2, <2>1, <3>1
  <2> QED BY <2>2, <2>3
<1>4. ASSUME NEW q \in Requests, NEW j \in Jobs, Arrive(q, j) PROVE SuccessMeansPosted'
  BY <1>2, <1>4 DEF Arrive, CreatePost, PutJob, StopRead, PauseRead, ResumeRead, RetryClear,
       ClearControl, DeleteRead, poolVars, storeVars, recordVars
<1>5. ASSUME WaitForRequest \/ \E j \in Jobs : EnqueueDueJob(j) PROVE SuccessMeansPosted'
  BY <1>2, <1>5 DEF EnqueueDueJob, WaitForRequest, vars, poolVars, storeVars
<1>6. ASSUME RunOnce PROVE SuccessMeansPosted'
  <2>1. "failed" \in ResultStatus /\ worker \in Worker /\ worker.todo \in SUBSET Accounts
    BY DEF ResultStatus, TypeInv, TypeOK, Worker
  <2>2. CASE InvalidResult
    <3>1. UNCHANGED posted /\ worker.job \in Jobs
      BY <2>2 DEF InvalidResult, WAt, TypeInv, HasJob, poolVars
    <3>2. UNCHANGED cells \/ \E a : UpdateResult(worker.job, a, "failed")
      BY <2>1, <2>2 DEF InvalidResult, storeVars
    <3> QED BY <1>2, <2>1, <3>1, <3>2, WriteKeepsSuccess
  <2>3. CASE StalledWrite
    <3>1. UNCHANGED posted /\ worker.job \in Jobs
      BY <2>3 DEF StalledWrite, WAt, TypeInv, HasJob, poolVars
    <3>2. UNCHANGED cells \/ UpdateResult(worker.job, worker.acct, "failed")
      BY <2>3 DEF StalledWrite, storeVars
    <3> QED BY <1>2, <2>1, <3>1, <3>2, WriteKeepsSuccess
  <2>4. CASE ~InvalidResult /\ ~StalledWrite
    <3>1. UNCHANGED <<cells, posted>>
      BY <1>6, <2>4 DEF RunOnce, TakeItem, CheckRunnable, SkipClear, RunRead, RunClear, InvalidStatus,
           SetRunning, Spawn, NoAccounts, NoAccountsClear, UploadsDone, OuterDeadline,
           StalledRead, TallyResults, Clear, SetFinal, ExceptClear, ExceptSetFailed,
           Cleanup, SyncRead, SyncWrite, SetJobStatus, PutJob, ClearControl,
           storeVars, recordVars, controlVars, poolVars
    <3> QED BY <1>2, <3>1
  <2> QED BY <2>2, <2>3, <2>4
<1>7. ASSUME NEW r \in Runs, NEW a \in Accounts, Upload(r, a) PROVE SuccessMeansPosted'
  <2>1. UNCHANGED posted
    BY <1>7, UploadFrame
  <2>2. UNCHANGED cells \/ \E s \in ResultStatus :
          UpdateResult(runJob[r], a, s) /\ Exists(runJob[r]) /\ (s = "success" => thr[r][a].at = "success")
    BY <1>7 DEF Upload, FirstStopCheck, PauseCheck, TestEvent, SecondStopCheck, Skip, Reject,
         MarkUploading, Collect, Report, Write, ResultStatus, storeVars
  <2>3. thr[r][a].at = "success" => posted[runJob[r]][a] > 0
    BY DEF ThreadShape, Shape, PostsHaveCalls
  <2>4. runJob[r] \in Jobs
    <3>1. thr[r][a] # NoThread
      BY <1>7 DEF NoThread, Upload, FirstStopCheck, PauseCheck, TestEvent, SecondStopCheck, Skip,
           Reject, MarkUploading, Collect, Report, TAt
    <3> QED BY <3>1 DEF TypeInv, HasJob
  <2> QED BY <1>2, <2>1, <2>2, <2>3, <2>4, WriteKeepsSuccess
<1>8. ASSUME NEW r \in Runs, NEW a \in Accounts, Dispatch(r, a) PROVE SuccessMeansPosted'
  <2>1. UNCHANGED cells
    BY <1>8 DEF Dispatch, OpenMedia, Publish, Refuse, storeVars
  <2>2. \A j \in Jobs, b \in Accounts : posted[j][b] > 0 => posted'[j][b] > 0
    <3>1. CASE posted' = posted
      BY <3>1
    <3>2. CASE posted' = [posted EXCEPT ![runJob[r]][a] = posted[runJob[r]][a] + 1]
      BY <1>1, <3>2
    <3> QED BY <1>8, <3>1, <3>2, DispatchFrame
  <2> QED BY <2>1, <2>2 DEF SuccessMeansPosted
<1> QED BY <1>3, <1>4, <1>5, <1>6, <1>7, <1>8 DEF Next

\* The new run and its threads are well shaped.
LEMMA SpawnShape ==
  ASSUME TypeInv, ThreadShape, Spawn
  PROVE  ThreadShape'
<1>1. runs \in Nat /\ \A r \in Runs : r \in Nat
  BY BoundsAssumption DEF TypeInv, TypeOK, Runs
<1>2. ASSUME NEW r \in Runs, NEW a \in Accounts
      PROVE  Shape(thr'[r][a]) /\ (r > runs' => thr'[r][a] = NoThread)
  <2>1. CASE r = runs'
    BY <1>1, <2>1, SpawnFrame
  <2>2. CASE r # runs'
    <3>1. thr'[r][a] = thr[r][a] /\ (r > runs' => r > runs)
      BY <1>1, <2>2, SpawnFrame
    <3> QED BY <3>1 DEF ThreadShape
  <2> QED BY <2>1, <2>2
<1> QED BY <1>2 DEF ThreadShape

\* The strengthened invariant holds at the start ...
LEMMA DeliveryInit == Init => DeliveryInv
<1> SUFFICES ASSUME Init PROVE DeliveryInv
  OBVIOUS
<1> USE DEF Init, StoreInit
<1>1. NoJob \notin Jobs /\ \A r \in Runs : r \in Nat /\ r > 0
  BY NoneAssumption, BoundsAssumption DEF Runs
<1>2. Known
  BY <1>1 DEF Known, NoRequest, Asks, IdleWorker, WorksOn
<1>3. ThreadShape
  BY DEF ThreadShape, Shape, NoThread
<1>4. OneRunHasMedia
  BY <1>1 DEF OneRunHasMedia
<1>5. PostsHaveCalls
  BY DEF PostsHaveCalls, NoThread
<1>6. AtMostOnePost
  BY DEF AtMostOnePost
<1>7. SuccessMeansPosted
  BY DEF SuccessMeansPosted
<1> QED BY <1>2, <1>3, <1>4, <1>5, <1>6, <1>7 DEF DeliveryInv

\* ... and is kept by every step.
LEMMA DeliveryStep == TypeInv /\ DeliveryInv /\ [Next]_vars => DeliveryInv'
<1> SUFFICES ASSUME TypeInv, DeliveryInv, [Next]_vars PROVE DeliveryInv'
  OBVIOUS
<1> USE DEF DeliveryInv
<1>1. CASE Next
  <2>1. ThreadShape'
    BY <1>1, NextKinds, SpawnShape
  <2> QED BY <1>1, <2>1, KnownStep, OneRunStep, PostsStep, SuccessStep
<1>2. CASE UNCHANGED vars
  BY <1>2 DEF vars, storeVars, poolVars, Known, ThreadShape, OneRunHasMedia, PostsHaveCalls,
       AtMostOnePost, SuccessMeansPosted
<1> QED BY <1>1, <1>2

\* Every reachable state satisfies both invariants.
LEMMA Reachable == Spec => [](TypeInv /\ DeliveryInv)
<1>1. Init => TypeInv /\ DeliveryInv
  BY InitType, DeliveryInit
<1>2. TypeInv /\ DeliveryInv /\ [Next]_vars => (TypeInv /\ DeliveryInv)'
  BY TypeStep, DeliveryStep
<1> QED BY <1>1, <1>2, PTL DEF Spec

\* No account is posted to twice for one job, whatever runs are started again.
THEOREM NoSecondPost == Spec => []AtMostOnePost
<1>1. DeliveryInv => AtMostOnePost
  BY DEF DeliveryInv
<1> QED BY <1>1, Reachable, PTL

\* A result that reads "success" belongs to an account that was posted to.
THEOREM NoInventedSuccess == Spec => []SuccessMeansPosted
<1>1. DeliveryInv => SuccessMeansPosted
  BY DEF DeliveryInv
<1> QED BY <1>1, Reachable, PTL

-----------------------------------------------------------------------------
(* PostJobs implements Delivery.                                             *)

\* The initial state is an initial state of the promise.
LEMMA PromiseInit == Init => Promise!Init
BY BoundsAssumption DEF Init, StoreInit, Promise!Init, Window, Sending, NoThread

\* A job comes into being by create_post_job only.
LEMMA StaysNew ==
  ASSUME TypeInv, Known, Next, NEW j \in Jobs, status[j] = "none"
  PROVE  status'[j] = "none" \/ \E q \in Requests, w \in Whens : CreatePost(q, j, w)
<1> USE DEF storeVars, recordVars, controlVars
<1>1. status \in [Jobs -> JobStatus \cup {"none", "deleted"}]
  BY DEF TypeInv, TypeOK
<1>2. ASSUME NEW i \in Jobs, NEW s, i # j, status' = [status EXCEPT ![i] = s]
      PROVE  status'[j] = "none"
  BY <1>1, <1>2
<1>3. ASSUME NEW q \in Requests, Handle(q) PROVE status'[j] = "none"
  <2>1. req[q].job \in Jobs /\ req[q].job # j
    BY <1>3, KeepsJob DEF Known
  <2>2. CASE SetStatusWrite(q) \/ RetryWrite(q) \/ Delete(q)
    BY <1>2, <2>1, <2>2 DEF SetStatusWrite, PutJob, RetryWrite, Delete, DeleteJob
  <2> QED BY <1>3, <2>2 DEF Handle, StopFlag, RaiseStopFlag, SetPauseEvent, SetEvent,
             StopCheck, Pause, RequestPause, Resume, SetStatusRead, AddTimer, Enqueue, RetryRead
<1>4. ASSUME NEW q \in Requests, NEW i \in Jobs, Arrive(q, i)
      PROVE  status'[j] = "none" \/ \E w \in Whens : CreatePost(q, j, w)
  <2>1. CASE \E w \in Whens : CreatePost(q, i, w)
    BY <1>2, <2>1 DEF CreatePost, PutJob
  <2> QED BY <1>4, <2>1 DEF Arrive, StopRead, PauseRead, ResumeRead, RetryClear,
             ClearControl, DeleteRead
<1>5. ASSUME RunOnce PROVE status'[j] = "none"
  <2>1. worker.at # "idle" => worker.job \in Jobs /\ worker.job # j
    BY DEF TypeInv, HasJob, Known
  <2>2. CASE SetFinal \/ SyncWrite \/ InvalidStatus \/ SetRunning \/ NoAccounts \/ ExceptSetFailed
    BY <1>2, <2>1, <2>2 DEF SetFinal, SyncWrite, InvalidStatus, SetRunning, NoAccounts,
         ExceptSetFailed, SetJobStatus, PutJob, WAt
  <2>3. CASE InvalidResult \/ StalledWrite
    BY <2>3 DEF InvalidResult, StalledWrite, UpdateResult
  <2> QED BY <1>5, <2>2, <2>3 DEF RunOnce, TakeItem, CheckRunnable, SkipClear, RunRead,
             RunClear, Spawn, NoAccountsClear, UploadsDone, OuterDeadline, StalledRead,
             TallyResults, Clear, ExceptClear, Cleanup, SyncRead, ClearControl
<1>6. ASSUME NEW r \in Runs, NEW a \in Accounts, Upload(r, a) \/ Dispatch(r, a)
      PROVE  UNCHANGED status
  BY <1>6 DEF Upload, FirstStopCheck, PauseCheck, TestEvent, SecondStopCheck, Skip, Reject,
       MarkUploading, Collect, Report, Write, UpdateResult, Dispatch, OpenMedia, Publish, Refuse
<1> QED BY <1>3, <1>4, <1>5, <1>6 DEF Next, EnqueueDueJob, WaitForRequest, vars

\* Media files appear with a job and go when its run is over.
LEMMA FilesFrame ==
  ASSUME TypeInv, Next
  PROVE  \/ UNCHANGED files
         \/ \E q \in Requests, j \in Jobs, w \in Whens : CreatePost(q, j, w)
         \/ Cleanup
<1>1. ASSUME RunOnce, ~Cleanup PROVE UNCHANGED files
  BY <1>1, RunOnceFrame DEF TakeItem, Spawn
<1>2. ASSUME NEW q \in Requests, NEW j \in Jobs, Arrive(q, j)
      PROVE  UNCHANGED files \/ \E w \in Whens : CreatePost(q, j, w)
  BY <1>2 DEF Arrive, StopRead, PauseRead, ResumeRead, RetryClear, DeleteRead
<1>3. ASSUME NEW r \in Runs, NEW a \in Accounts, Upload(r, a) \/ Dispatch(r, a)
      PROVE  UNCHANGED files
  BY <1>3 DEF Upload, FirstStopCheck, PauseCheck, TestEvent, SecondStopCheck, Skip, Reject,
       MarkUploading, Collect, Report, ThreadOnly, Dispatch, OpenMedia, Publish, Refuse
<1> QED BY <1>1, <1>2, <1>3, HandleFrame DEF Next, EnqueueDueJob, WaitForRequest, vars

\* The windows of a step that creates no job and cleans up after none.
LEMMA SameWindows ==
  ASSUME TypeInv, Known, Next, UNCHANGED files,
         ~(\E q \in Requests, j \in Jobs, w \in Whens : CreatePost(q, j, w))
  PROVE  \A j \in Jobs : Window(j)' = Window(j)
<1>1. \A j \in Jobs : (status'[j] = "none") <=> (status[j] = "none")
  BY StaysNew, StaysCreated
<1> QED BY <1>1 DEF Window

\* Steps that start no run and end no network call send nothing new.
LEMMA SameSending ==
  ASSUME NetsQuiet
  PROVE  \A j \in Jobs : Sending(j)' = Sending(j)
BY DEF Sending, NetsQuiet

\* Neither does the start of a run.
LEMMA SpawnSending ==
  ASSUME TypeInv, ThreadShape, Spawn
  PROVE  \A j \in Jobs : Sending(j)' = Sending(j)
<1>1. runs \in Nat /\ runs' > runs
  BY BoundsAssumption, SpawnFrame DEF TypeInv, TypeOK, Runs
<1>2. \A r \in Runs, a \in Accounts :
        (thr'[r][a].net = "sending") <=> (r # runs' /\ thr[r][a].net = "sending")
  BY SpawnFrame
<1>3. \A r \in Runs, a \in Accounts : thr[r][a].net = "sending" => r # runs'
  BY <1>1, SpawnFrame DEF ThreadShape, NoThread
<1>4. \A r \in Runs : r # runs' => runJob'[r] = runJob[r]
  BY SpawnFrame
<1>5. ASSUME NEW j \in Jobs PROVE Sending(j)' = Sending(j)
  BY <1>2, <1>3, <1>4 DEF Sending
<1> QED BY <1>5

\* create_post_job opens the window of its job.
LEMMA CreateOpens ==
  ASSUME TypeInv, NEW q \in Requests, NEW j \in Jobs, NEW w \in Whens, CreatePost(q, j, w)
  PROVE  Promise!Open(j)
<1>1. status \in [Jobs -> JobStatus \cup {"none", "deleted"}]
  BY DEF TypeInv, TypeOK
<1>2. /\ status[j] = "none" /\ files' = files \cup {j}
      /\ status' = [status EXCEPT ![j] = IF w = "now" THEN "pending" ELSE "scheduled"]
      /\ UNCHANGED <<runs, runJob, thr, posted>>
  BY DEF CreatePost, PutJob, poolVars
<1>3. Window(j) = "new" /\ Window(j)' = "open"
  BY <1>1, <1>2 DEF Window
<1>4. \A i \in Jobs : i # j => Window(i)' = Window(i)
  BY <1>1, <1>2 DEF Window
<1>5. \A i \in Jobs : Sending(i)' = Sending(i)
  BY <1>2 DEF Sending
<1>6. [i \in Jobs |-> Window(i)]' = [[i \in Jobs |-> Window(i)] EXCEPT ![j] = "open"]
  BY <1>3, <1>4
<1> QED BY <1>2, <1>3, <1>5, <1>6 DEF Promise!Open

\* _cleanup_temp_files shuts the window of the worker's job.
LEMMA CleanupShuts ==
  ASSUME TypeInv, Known, Cleanup, NEW j, j = worker.job
  PROVE  j \in Jobs /\ (Promise!Shut(j) \/ UNCHANGED Promise!vars)
<1>1. /\ j \in Jobs /\ status[j] # "none" /\ files' = files \ {j}
      /\ UNCHANGED <<status, runs, runJob, thr, posted>>
  BY DEF Cleanup, WAt, TypeInv, HasJob, Known, storeVars, poolVars
<1>2. \A i \in Jobs : Sending(i)' = Sending(i)
  BY <1>1 DEF Sending
<1>3. \A i \in Jobs : i # j => Window(i)' = Window(i)
  BY <1>1 DEF Window
<1>4. CASE j \in files
  <2>1. Window(j) = "open" /\ Window(j)' = "shut"
    BY <1>1, <1>4 DEF Window
  <2>2. [i \in Jobs |-> Window(i)]' = [[i \in Jobs |-> Window(i)] EXCEPT ![j] = "shut"]
    BY <1>3, <2>1
  <2> QED BY <1>1, <1>2, <2>1, <2>2 DEF Promise!Shut
<1>5. CASE j \notin files
  <2>1. Window(j)' = Window(j)
    BY <1>1, <1>5 DEF Window
  <2> QED BY <1>1, <1>2, <1>3, <2>1 DEF Promise!vars
<1> QED BY <1>1, <1>4, <1>5

\* A network call starts, publishes or fails as the promise allows.
LEMMA DispatchDelivers ==
  ASSUME TypeInv, DeliveryInv, Next, NEW r \in Runs, NEW a \in Accounts, Dispatch(r, a),
         NEW j, j = runJob[r]
  PROVE  /\ j \in Jobs
         /\ \/ Promise!Start(j, a) \/ Promise!Publish(j, a) \/ Promise!Refuse(j, a)
            \/ UNCHANGED Promise!vars
<1>1. /\ posted \in [Jobs -> [Accounts -> Nat]] /\ runs \in Nat
      /\ \A s \in Runs : s \in Nat
      /\ \A s \in Runs, b \in Accounts : s > runs => thr[s][b].net = "none"
  BY BoundsAssumption DEF TypeInv, TypeOK, Runs, DeliveryInv, ThreadShape, NoThread
<1>2. /\ j \in Jobs /\ UNCHANGED <<runs, runJob, files, status>>
      /\ \A s \in Runs, b \in Accounts : (s # r \/ b # a) => thr'[s][b] = thr[s][b]
  BY DispatchFrame, ZenonT(60)
<1>3. \A i \in Jobs : Window(i)' = Window(i)
  BY <1>2 DEF Window
<1>4. \A i \in Jobs : i # j => Sending(i)' = Sending(i)
  BY <1>2 DEF Sending
<1>5. \A b \in Accounts : b # a => (b \in Sending(j)' <=> b \in Sending(j))
  BY <1>2 DEF Sending
<1>6. CASE thr[r][a].net = "queued"
  <2>1. posted' = posted /\ thr'[r][a].net = IF j \in files THEN "sending" ELSE "err"
    BY <1>6, DispatchFrame
  <2>2. CASE j \in files
    <3>1. thr[r][a].net # "none" /\ r <= runs
      <4>1. ~(r > runs)
        BY <1>1, <1>6
      <4> QED BY <1>1, <1>6, <4>1
    <3>2. \A s \in Runs : runJob[s] = j /\ thr[s][a].net # "none" => s = r
      <4>1. \A s \in Runs : thr[s][a].net # "none" => s <= runs
        BY <1>1
      <4> QED BY <2>2, <3>1, <4>1 DEF DeliveryInv, OneRunHasMedia
    <3>3. a \notin Sending(j)
      BY <1>6, <3>2 DEF Sending
    <3>4. posted[j][a] = 0
      BY <1>1, <1>2, <1>6, <3>2 DEF DeliveryInv, PostsHaveCalls
    <3>5. Window(j) = "open"
      BY <1>2, <2>2 DEF Window, DeliveryInv, Known
    <3>6. Sending(j)' = Sending(j) \cup {a}
      <4>1. a \in Sending(j)'
        BY <1>2, <2>1, <2>2 DEF Sending
      <4> QED BY <1>5, <4>1 DEF Sending
    <3>7. [i \in Jobs |-> Sending(i)]' = [[i \in Jobs |-> Sending(i)] EXCEPT ![j] = Sending(j) \cup {a}]
      BY <1>2, <1>4, <3>6
    <3>8. Promise!Start(j, a)
      BY <1>2, <1>3, <2>1, <3>3, <3>4, <3>5, <3>7 DEF Promise!Start
    <3> QED BY <1>2, <3>8
  <2>3. CASE j \notin files
    <3>1. Sending(j)' = Sending(j)
      BY <1>2, <1>6, <2>1, <2>3 DEF Sending
    <3> QED BY <1>2, <1>3, <1>4, <2>1, <3>1 DEF Promise!vars
  <2> QED BY <2>2, <2>3
<1>7. CASE thr[r][a].net = "sending"
  <2>1. thr'[r][a].net \in {"ok", "err"}
    BY <1>7, DispatchFrame
  <2>2. /\ posted[j][a] = 0
        /\ \A s \in Runs : (runJob[s] = j /\ thr[s][a].net = "sending") => s = r
    BY <1>7 DEF DeliveryInv, PostsHaveCalls
  <2>3. a \in Sending(j) /\ Sending(j)' = Sending(j) \ {a}
    <3>1. a \in Sending(j)
      BY <1>7 DEF Sending
    <3>2. a \notin Sending(j)'
      BY <1>2, <2>1, <2>2 DEF Sending
    <3> QED BY <1>5, <3>1, <3>2 DEF Sending
  <2>4. [i \in Jobs |-> Sending(i)]' = [[i \in Jobs |-> Sending(i)] EXCEPT ![j] = Sending(j) \ {a}]
    BY <1>2, <1>4, <2>3
  <2>5. CASE posted' = posted
    BY <1>2, <1>3, <2>3, <2>4, <2>5 DEF Promise!Refuse
  <2>6. CASE posted' = [posted EXCEPT ![j][a] = posted[j][a] + 1]
    <3>1. posted' = [posted EXCEPT ![j][a] = 1]
      BY <2>2, <2>6
    <3> QED BY <1>2, <1>3, <2>2, <2>3, <2>4, <3>1 DEF Promise!Publish
  <2> QED BY <1>7, <2>5, <2>6, DispatchFrame
<1> QED BY <1>6, <1>7, DispatchFrame

\* Every step of PostJobs is a step of Delivery or changes none of its variables.
LEMMA PromiseStep ==
  TypeInv /\ DeliveryInv /\ [Next]_vars => [Promise!Next]_(Promise!vars)
<1> SUFFICES ASSUME TypeInv, DeliveryInv, [Next]_vars
             PROVE  Promise!Next \/ UNCHANGED Promise!vars
  OBVIOUS
<1>1. CASE UNCHANGED vars
  BY <1>1 DEF vars, storeVars, poolVars, Promise!vars, Window, Sending
<1>2. ASSUME NEW q \in Requests, NEW j \in Jobs, NEW w \in Whens, CreatePost(q, j, w)
      PROVE  Promise!Next
  BY <1>2, CreateOpens DEF Promise!Next
<1>3. CASE Cleanup
  BY <1>3, CleanupShuts DEF Promise!Next, DeliveryInv
<1>4. ASSUME Next, NEW r \in Runs, NEW a \in Accounts, Dispatch(r, a)
      PROVE  Promise!Next \/ UNCHANGED Promise!vars
  <2>1. PICK j : j = runJob[r]
    OBVIOUS
  <2> QED BY <1>4, <2>1, DispatchDelivers DEF Promise!Next
<1>5. ASSUME Next, UNCHANGED files, NetsQuiet \/ Spawn,
             ~(\E q \in Requests, j \in Jobs, w \in Whens : CreatePost(q, j, w))
      PROVE  UNCHANGED Promise!vars
  <2>1. \A j \in Jobs : Window(j)' = Window(j)
    BY <1>5, SameWindows DEF DeliveryInv
  <2>2. \A j \in Jobs : Sending(j)' = Sending(j)
    BY <1>5, SameSending, SpawnSending DEF DeliveryInv
  <2>3. posted' = posted
    BY <1>5, SpawnFrame DEF NetsQuiet
  <2> QED BY <2>1, <2>2, <2>3 DEF Promise!vars
<1>6. CASE Next
  <2>1. NetsQuiet \/ Spawn \/ \E r \in Runs, a \in Accounts : Dispatch(r, a)
    BY <1>6, NextKinds DEF DeliveryInv
  <2> QED BY <1>2, <1>3, <1>4, <1>5, <1>6, <2>1, FilesFrame
<1> QED BY <1>1, <1>6

\* The post-job subsystem keeps the promise of Delivery.
THEOREM Implements == Spec => ImplementsDelivery
<1>1. Spec => [](TypeInv /\ DeliveryInv)
  BY Reachable
<1> QED BY <1>1, PromiseInit, PromiseStep, PTL DEF Spec, ImplementsDelivery, Promise!Spec

-----------------------------------------------------------------------------
(* No job that waits to run is forgotten.                                    *)

\* Where a request can be next.
NextAt(rq) ==
  CASE rq.at = "stop_flag"   -> {"stop_check", "set_event"}
    [] rq.at = "set_event"   -> IF rq.op = "stop" THEN {"stop_check"} ELSE {"set_read"}
    [] rq.at = "stop_check"  -> {"set_read", "done"}
    [] rq.at = "pause"       -> {"set_read"}
    [] rq.at = "resume"      -> {"set_read", "set_event"}
    [] rq.at = "set_read"    -> IF rq.op = "create" THEN {"set_write", "timer"}
                                ELSE {"set_write", "done"}
    [] rq.at = "set_write"   -> IF rq.op = "create" THEN {"timer"} ELSE {"done"}
    [] rq.at = "retry_read"  -> {"retry_write", "done"}
    [] rq.at = "retry_write" -> {"enqueue"}
    [] OTHER                 -> {"done"}

\* A request is as far with the same job as it was, and knows the same results.
Same(t, u) == t.job = u.job /\ t.op = u.op /\ t.at = u.at /\ t.view = u.view
Moved(t, u) == \/ u.at = "done" /\ u.job = NoJob /\ u.op = "create"
               \/ u.job = t.job /\ u.op = t.op

\* Freezing what other requests saw moves none of them.
LEMMA OrphanSame ==
  ASSUME NEW rq \in [Requests -> Request], NEW j, NEW p \in Requests
  PROVE  Same(rq[p], Orphan(rq, j)[p])
<1>1. ASSUME NEW t \in Request, NEW s PROVE Same(t, [t EXCEPT !.seen = s])
  BY DEF Request, Same
<1> QED BY <1>1 DEF Orphan, Same

\* A step of a request is one along its handler, and moves no other request.
LEMMA HandleMoves ==
  ASSUME TypeInv, NEW q \in Requests, Handle(q)
  PROVE  /\ \A p \in Requests : p # q => Same(req[p], req'[p])
         /\ Moved(req[q], req'[q]) /\ req'[q].at \in NextAt(req[q])
<1> DEFINE o == req[q]
           Goes(rq, at) == /\ \A p \in Requests : p # q => Same(req[p], rq[p])
                           /\ Moved(o, rq[q]) /\ rq[q].at = at
<1>1. req \in [Requests -> Request] /\ AtWork(req) /\ o.at \notin {"new", "done"} /\ o \in Request
  BY DEF TypeInv, TypeOK, HasJob, At, Handle, StopFlag, SetPauseEvent, StopCheck, Pause, Resume,
         SetStatusRead, SetStatusWrite, AddTimer, Enqueue, RetryRead, RetryWrite, Delete
<1>2. ASSUME NEW at, NEW w, NEW v, NEW e, NEW rq,
             \/ rq = Goto(q, at)
             \/ rq = [req EXCEPT ![q].evt = e, ![q].at = at]
             \/ rq = [req EXCEPT ![q].at = at, ![q].view = v]
             \/ rq = [req EXCEPT ![q].at = at, ![q].when = w, ![q].view = v]
      PROVE  Goes(rq, at)
  <2>1. ASSUME NEW t, t \in {[o EXCEPT !.at = at], [o EXCEPT !.evt = e, !.at = at],
                             [o EXCEPT !.at = at, !.view = v],
                             [o EXCEPT !.at = at, !.when = w, !.view = v]}
        PROVE  Moved(o, t) /\ t.at = at
    BY <1>1, <2>1 DEF Request, Moved
  <2>2. \/ rq = [req EXCEPT ![q] = [o EXCEPT !.at = at]]
        \/ rq = [req EXCEPT ![q] = [o EXCEPT !.evt = e, !.at = at]]
        \/ rq = [req EXCEPT ![q] = [o EXCEPT !.at = at, !.view = v]]
        \/ rq = [req EXCEPT ![q] = [o EXCEPT !.at = at, !.when = w, !.view = v]]
    BY <1>1, <1>2 DEF Goto
  <2> QED BY <1>1, <2>1, <2>2 DEF Same
<1>3. ASSUME NEW rq, rq = [req EXCEPT ![q] = Finished] PROVE Goes(rq, "done")
  BY <1>1, <1>3 DEF Finished, Asks, Same, Moved
<1>4. ASSUME NEW at, NEW rq \in [Requests -> Request], NEW j, Goes(rq, at), req' = Orphan(rq, j)
      PROVE  Goes(req', at)
  BY <1>4, OrphanSame DEF Same, Moved
<1>5. ASSUME NEW at, at \in NextAt(o), Goes(req', at)
      PROVE  /\ \A p \in Requests : p # q => Same(req[p], req'[p])
             /\ Moved(o, req'[q]) /\ req'[q].at \in NextAt(o)
  BY <1>5
<1>6. /\ [req EXCEPT ![q] = Finished] \in [Requests -> Request]
      /\ Goto(q, "timer") \in [Requests -> Request]
      /\ Goto(q, "enqueue") \in [Requests -> Request]
  BY <1>1, FinishedType, GotoType DEF RequestAt
<1> SUFFICES \E at : at \in NextAt(o) /\ Goes(req', at)
  BY <1>5
<1> HIDE DEF Goes
<1> USE DEF NextAt, At
<1>7. CASE StopFlag(q) \/ SetPauseEvent(q) \/ Resume(q)
  BY <1>2, <1>7 DEF StopFlag, SetPauseEvent, Resume
<1>8. CASE StopCheck(q)
  BY <1>2, <1>3, <1>8 DEF StopCheck
<1>9. CASE Pause(q)
  BY <1>2, <1>9 DEF Pause
<1>10. CASE SetStatusRead(q)
  BY <1>2, <1>3, <1>10 DEF SetStatusRead
<1>11. CASE SetStatusWrite(q)
  BY <1>2, <1>3, <1>4, <1>6, <1>11 DEF SetStatusWrite
<1>12. CASE AddTimer(q) \/ Enqueue(q)
  BY <1>3, <1>12 DEF AddTimer, Enqueue
<1>13. CASE RetryRead(q)
  BY <1>2, <1>3, <1>13 DEF RetryRead
<1>14. CASE RetryWrite(q)
  BY <1>2, <1>4, <1>6, <1>14 DEF RetryWrite
<1>15. CASE Delete(q)
  BY <1>3, <1>4, <1>6, <1>15 DEF Delete
<1> QED BY <1>7, <1>8, <1>9, <1>10, <1>11, <1>12, <1>13, <1>14, <1>15 DEF Handle

\* The requests, timers and queue items that will start the worker on a job.
Starts(rq, j) ==
  /\ rq.job = j
  /\ rq.at \in {"enqueue", "timer"} \/ (rq.op = "create" /\ rq.at \in {"set_read", "set_write"})
Queued(j) == \E i \in DOMAIN queue : queue[i] = j
Expected(j) == j \in timers \/ Queued(j) \/ \E q \in Requests : Starts(req[q], j)

\* A job that waits is expected at the worker, or the worker is at it and has not
\* yet decided what becomes of it.  No status that is written later waits, unless
\* its job is expected.
Deciding == {"check", "run", "invalid", "set_running"}
WaitingInv ==
  /\ \A j \in Jobs : status[j] \in Runnable =>
       Expected(j) \/ (worker.job = j /\ worker.at \in Deciding)
  /\ worker.at \in {"clear", "set_final"} => worker.status \notin Runnable
  /\ (worker.at = "sync_write" /\ worker.status \in Runnable) => Expected(worker.job)

\* An appended item is in the queue, and so are those that were.
LEMMA QueuedAppend ==
  ASSUME queue \in Seq(Jobs), NEW i \in Jobs, queue' = Append(queue, i), NEW j
  PROVE  /\ Queued(j) => Queued(j)'
         /\ Queued(i)'
<1>1. /\ Len(queue) \in Nat /\ DOMAIN queue = 1..Len(queue)
      /\ DOMAIN queue' = 1..(Len(queue) + 1)
      /\ queue'[Len(queue) + 1] = i
      /\ \A k \in DOMAIN queue : queue'[k] = queue[k]
  OBVIOUS
<1>2. \A k \in DOMAIN queue : k \in DOMAIN queue'
  BY <1>1
<1>3. Len(queue) + 1 \in DOMAIN queue'
  BY <1>1
<1> QED BY <1>1, <1>2, <1>3 DEF Queued

\* An item that is taken is the worker's, the others stay.
LEMMA QueuedTail ==
  ASSUME queue \in Seq(Jobs), queue # <<>>, queue' = Tail(queue), NEW j
  PROVE  Queued(j) => j = Head(queue) \/ Queued(j)'
<1> SUFFICES ASSUME NEW k \in DOMAIN queue, queue[k] = j, j # Head(queue)
             PROVE  Queued(j)'
  BY DEF Queued
<1>1. /\ Len(queue) \in Nat /\ DOMAIN queue = 1..Len(queue)
      /\ k \in 1..Len(queue) /\ k # 1
      /\ DOMAIN queue' = 1..(Len(queue) - 1)
      /\ queue'[k - 1] = queue[k]
  OBVIOUS
<1>2. k - 1 \in DOMAIN queue'
  BY <1>1
<1> QED BY <1>1, <1>2 DEF Queued

\* A handler does not give up a job before it is in the queue or has a timer.
LEMMA HandleExpects ==
  ASSUME TypeInv, NEW q \in Requests, Handle(q), NEW j \in Jobs, Expected(j)
  PROVE  Expected(j)'
<1>1. queue \in Seq(Jobs) /\ req[q].job \in Jobs
  BY KeepsJob DEF TypeInv, TypeOK
<1>2. timers \subseteq timers' /\ (queue' = queue \/ queue' = Append(queue, req[q].job))
  <2>1. timers \subseteq timers'
    BY DEF Handle, StopFlag, SetPauseEvent, StopCheck, Pause, Resume, SetStatusRead,
           SetStatusWrite, AddTimer, Enqueue, RetryRead, RetryWrite, Delete
  <2> QED BY <2>1, HandleFrame
<1>3. CASE j \in timers
  BY <1>2, <1>3 DEF Expected
<1>4. CASE Queued(j)
  <2>1. CASE queue' = queue
    BY <1>4, <2>1 DEF Expected, Queued
  <2> QED BY <1>1, <1>2, <1>4, <2>1, QueuedAppend DEF Expected
<1>5. CASE \E p \in Requests : Starts(req[p], j)
  <2>1. PICK p \in Requests : Starts(req[p], j)
    BY <1>5
  <2>2. CASE p # q
    <3>1. Starts(req'[p], j)
      BY <2>1, <2>2, HandleMoves DEF Same, Starts
    <3> QED BY <3>1 DEF Expected
  <2>3. CASE p = q /\ req[q].at = "timer"
    <3>1. j \in timers'
      BY <2>1, <2>3 DEF Starts, Handle, StopFlag, SetPauseEvent, StopCheck, Pause, Resume, At,
         SetStatusRead, SetStatusWrite, AddTimer, Enqueue, RetryRead, RetryWrite, Delete
    <3> QED BY <3>1 DEF Expected
  <2>4. CASE p = q /\ req[q].at = "enqueue"
    <3>1. queue' = Append(queue, j)
      BY <2>1, <2>4 DEF Starts, Handle, StopFlag, SetPauseEvent, StopCheck, Pause, Resume, At,
         SetStatusRead, SetStatusWrite, AddTimer, Enqueue, RetryRead, RetryWrite, Delete
    <3> QED BY <1>1, <3>1, QueuedAppend DEF Expected
  <2>5. CASE p = q /\ req[q].op = "create" /\ req[q].at \in {"set_read", "set_write"}
    <3>1. req'[q].at \in {"set_write", "timer"}
      BY <2>5, HandleMoves DEF NextAt
    <3>2. Starts(req'[q], j)
      BY <2>1, <2>5, <3>1, HandleMoves DEF Moved, Starts
    <3> QED BY <3>2 DEF Expected
  <2> QED BY <2>1, <2>2, <2>3, <2>4, <2>5 DEF Starts
<1> QED BY <1>3, <1>4, <1>5 DEF Expected

\* What a request that is under way makes wait is expected.
LEMMA HandleWaits ==
  ASSUME TypeInv, NEW q \in Requests, Handle(q), NEW j \in Jobs, status'[j] \in Runnable
  PROVE  status[j] \in Runnable \/ Expected(j)'
<1>1. status \in [Jobs -> JobStatus \cup {"none", "deleted"}] /\ req[q].job \in Jobs
  BY KeepsJob DEF TypeInv, TypeOK
<1>2. CASE SetStatusWrite(q)
  <2>1. status' = [status EXCEPT ![req[q].job] = StatusOf(req[q].op)] /\ req[q].at = "set_write"
    BY <1>2 DEF SetStatusWrite, PutJob, At
  <2>2. CASE j = req[q].job
    <3>1. req[q].op = "create"
      BY <1>1, <2>1, <2>2 DEF StatusOf, Runnable
    <3>2. Starts(req[q], j)
      BY <2>1, <2>2, <3>1 DEF Starts
    <3> QED BY <3>2, HandleExpects DEF Expected
  <2> QED BY <1>1, <2>1, <2>2
<1>3. CASE RetryWrite(q)
  <2>1. status' = [status EXCEPT ![req[q].job] = "pending"] /\ req[q].at = "retry_write"
    BY <1>3 DEF RetryWrite, At
  <2>2. CASE j = req[q].job
    <3>1. req'[q].at = "enqueue" /\ req'[q].job = j
      BY <2>1, <2>2, HandleMoves DEF NextAt, Moved
    <3> QED BY <3>1 DEF Expected, Starts
  <2> QED BY <1>1, <2>1, <2>2
<1>4. CASE Delete(q)
  BY <1>1, <1>4 DEF Delete, DeleteJob, Runnable
<1> QED BY <1>2, <1>3, <1>4 DEF Handle, StopFlag, RaiseStopFlag, SetPauseEvent, SetEvent,
           StopCheck, Pause, RequestPause, Resume, SetStatusRead, AddTimer, Enqueue, RetryRead,
           storeVars, recordVars

\* A request that arrives leaves every job as expected as it was.
LEMMA ArriveExpects ==
  ASSUME TypeInv, NEW q \in Requests, NEW i \in Jobs, Arrive(q, i), NEW j
  PROVE  Expected(j) => Expected(j)'
<1>1. UNCHANGED <<queue, timers>> /\ req[q].at = "new" /\ \E op, at : req' = [req EXCEPT ![q] = Asks(op, i, at)]
  BY DEF Arrive, CreatePost, StopRead, PauseRead, ResumeRead, RetryClear, DeleteRead, Begin
<1>2. \A p \in Requests : p # q => req'[p] = req[p]
  BY <1>1 DEF TypeInv, TypeOK
<1>3. \A p \in Requests : Starts(req[p], j) => Starts(req'[p], j)
  BY <1>1, <1>2 DEF Starts
<1> QED BY <1>1, <1>3 DEF Expected, Queued

\* Of those that arrive only create_post_job makes a job wait, and it takes care of it.
LEMMA ArriveWaits ==
  ASSUME TypeInv, NEW q \in Requests, NEW i \in Jobs, Arrive(q, i), NEW j \in Jobs,
         status'[j] \in Runnable
  PROVE  status[j] \in Runnable \/ Expected(j)'
<1>1. ASSUME NEW w \in Whens, CreatePost(q, i, w), j = i PROVE Expected(j)'
  <2>1. req' = [req EXCEPT ![q] = Asks("create", j, IF w = "future" THEN "set_read" ELSE "enqueue")]
    BY <1>1 DEF CreatePost, Begin
  <2>2. req \in [Requests -> Request]
    BY DEF TypeInv, TypeOK
  <2>3. Starts(req'[q], j)
    BY <2>1, <2>2 DEF Asks, Starts
  <2> QED BY <2>3 DEF Expected
<1>2. CASE \E w \in Whens : CreatePost(q, i, w)
  BY <1>1, <1>2 DEF CreatePost, PutJob, TypeInv, TypeOK
<1> QED BY <1>2 DEF Arrive, StopRead, PauseRead, ResumeRead, RetryClear, DeleteRead,
           ClearControl, storeVars, recordVars

\* The step of a timer moves its job to the queue.
LEMMA TimerWaits ==
  ASSUME TypeInv, WaitingInv, NEW i \in Jobs, EnqueueDueJob(i)
  PROVE  WaitingInv'
<1>1. ASSUME NEW j, Expected(j) PROVE Expected(j)'
  <2>1. queue \in Seq(Jobs) /\ queue' = Append(queue, i) /\ timers' = timers \ {i} /\ req' = req
    BY DEF EnqueueDueJob, TypeInv, TypeOK
  <2>2. Queued(i)' /\ (Queued(j) => Queued(j)')
    BY <2>1, QueuedAppend
  <2> QED BY <1>1, <2>1, <2>2 DEF Expected
<1>2. UNCHANGED <<status, worker>>
  BY DEF EnqueueDueJob, storeVars
<1> QED BY <1>1, <1>2 DEF WaitingInv

\* Only the worker takes a job from the queue.
LEMMA RunOnceExpects ==
  ASSUME TypeInv, RunOnce, NEW j, Expected(j)
  PROVE  Expected(j)' \/ (TakeItem /\ worker'.job = j /\ worker'.at = "check")
<1>1. queue \in Seq(Jobs) /\ req \in [Requests -> Request] /\ UNCHANGED timers
  BY DEF TypeInv, TypeOK, RunOnce, TakeItem, CheckRunnable, SkipClear, RunRead,
         RunClear, InvalidStatus, InvalidResult, SetRunning, Spawn, NoAccounts, NoAccountsClear,
         UploadsDone, OuterDeadline, StalledRead, StalledWrite, TallyResults, Clear, SetFinal,
         ExceptClear, ExceptSetFailed, Cleanup, SyncRead, SyncWrite
<1>2. CASE TakeItem
  <2>1. UNCHANGED req /\ queue # <<>> /\ queue' = Tail(queue)
        /\ worker'.job = Head(queue) /\ worker'.at = "check"
    BY <1>2 DEF TakeItem, WorksOn
  <2> QED BY <1>1, <1>2, <2>1, QueuedTail DEF Expected
<1>3. CASE SyncWrite
  <2>1. \A q \in Requests : Starts(req[q], j) => Starts(req'[q], j)
    BY <1>1, <1>3, OrphanSame DEF SyncWrite, Starts, Same
  <2> QED BY <1>1, <1>3, <2>1 DEF SyncWrite, Expected, Queued
<1>4. CASE ~TakeItem /\ ~SyncWrite
  <2>1. UNCHANGED <<req, queue>>
    BY <1>4 DEF RunOnce, CheckRunnable, SkipClear, RunRead,
         RunClear, InvalidStatus, InvalidResult, SetRunning, Spawn, NoAccounts, NoAccountsClear,
         UploadsDone, OuterDeadline, StalledRead, StalledWrite, TallyResults, Clear, SetFinal,
         ExceptClear, ExceptSetFailed, Cleanup, SyncRead
  <2> QED BY <1>1, <2>1 DEF Expected, Queued
<1> QED BY <1>2, <1>3, <1>4

\* What an executor adds up to does not wait.
LEMMA FinalIsNotWaiting == \A t : FinalStatus(t) \notin Runnable
BY DEF FinalStatus, Runnable

\* The worker lets go of a job that waits in TakeItem only, where it takes it up.
LEMMA RunOnceWaits ==
  ASSUME TypeInv, WaitingInv, RunOnce
  PROVE  WaitingInv'
<1> DEFINE i == worker.job
           Decides(j) == worker.job = j /\ worker.at \in Deciding
           Waiting(j) == status[j] \in Runnable => Expected(j) \/ Decides(j)
           Final == worker.at \in {"clear", "set_final"} => worker.status \notin Runnable
           Writes == (worker.at = "sync_write" /\ worker.status \in Runnable) => Expected(worker.job)
<1> USE DEF WaitingInv, Deciding
<1>1. /\ worker \in Worker /\ status \in [Jobs -> JobStatus \cup {"none", "deleted"}]
      /\ (worker.at # "idle" => i \in Jobs)
  BY DEF TypeInv, TypeOK, HasJob
<1>2. /\ IdleWorker.at = "idle" /\ IdleWorker.job = NoJob
  BY DEF IdleWorker, WorksOn
<1>3. CASE TakeItem
  <2>1. worker.at = "idle" /\ worker'.at = "check" /\ status' = status
    BY <1>3 DEF TakeItem, WAt, WorksOn, storeVars
  <2>2. ASSUME NEW j \in Jobs, status[j] \in Runnable PROVE (Expected(j) \/ Decides(j))'
    BY <2>1, <2>2, RunOnceExpects
  <2> QED BY <2>1, <2>2
<1>4. ASSUME ~TakeItem, NEW j, Expected(j) PROVE Expected(j)'
  BY <1>4, RunOnceExpects
<1>5. ASSUME ~TakeItem, worker'.at \notin {"clear", "set_final", "sync_write"},
             \A j \in Jobs : (status'[j] = status[j] /\ (Decides(j) => Decides(j)')) \/ status'[j] \notin Runnable
      PROVE  WaitingInv'
  BY <1>4, <1>5
<1>6. ASSUME NEW at, WGoto(at) PROVE worker'.at = at /\ worker'.job = i /\ worker'.status = worker.status
  BY <1>1, <1>6 DEF WGoto, Worker
<1>7. CASE CheckRunnable
  <2>1. /\ status' = status /\ worker.at = "check" /\ ~TakeItem
        /\ worker' \in {[worker EXCEPT !.at = "skip_clear"], [worker EXCEPT !.at = "run"], IdleWorker}
        /\ status[i] \in Runnable => worker' = [worker EXCEPT !.at = "run"]
    BY <1>7 DEF CheckRunnable, WAt, storeVars, TakeItem, Runnable
  <2>2. [worker EXCEPT !.at = "run"].job = i /\ [worker EXCEPT !.at = "run"].at = "run"
        /\ [worker EXCEPT !.at = "skip_clear"].at = "skip_clear"
    BY <1>1, WorkerMove
  <2>3. /\ worker'.at \in {"skip_clear", "run", "idle"}
        /\ status[i] \in Runnable => worker'.at = "run" /\ worker'.job = i
    BY <1>2, <2>1, <2>2
  <2> QED BY <1>5, <2>1, <2>3
<1>8. CASE RunRead
  <2>1. /\ status' = status /\ worker.at = "run" /\ ~TakeItem
        /\ worker' \in {[worker EXCEPT !.at = "run_clear"], [worker EXCEPT !.at = "sync_read"],
                       [worker EXCEPT !.at = "invalid", !.view = view[i]],
                       [worker EXCEPT !.at = "set_running"]}
        /\ status[i] \in Runnable => worker'.at \in {"invalid", "set_running"}
    BY <1>1, <1>8 DEF RunRead, WAt, storeVars, TakeItem, Worker, Runnable
  <2>2. worker'.job = i /\ worker'.at \in {"run_clear", "sync_read", "invalid", "set_running"}
    BY <1>1, <2>1 DEF Worker
  <2> QED BY <1>1, <1>5, <2>1, <2>2
<1>9. CASE SkipClear \/ RunClear \/ NoAccountsClear \/ ExceptClear \/ Cleanup
  BY <1>1, <1>2, <1>5, <1>6, <1>9 DEF SkipClear, RunClear, NoAccountsClear, ExceptClear, Cleanup,
     ClearControl, WAt, recordVars, storeVars, TakeItem
<1>10. CASE InvalidStatus
  <2>1. CASE Exists(i)
    BY <1>1, <1>5, <1>10, <2>1 DEF InvalidStatus, SetJobStatus, WAt, TakeItem, Worker, Runnable
  <2>2. CASE ~Exists(i)
    BY <1>1, <1>5, <1>6, <1>10, <2>2 DEF InvalidStatus, Exists, Runnable, JobStatus, storeVars, WAt, TakeItem
  <2> QED BY <2>1, <2>2
<1>11. CASE SetRunning
  <2>1. CASE Exists(i)
    BY <1>1, <1>5, <1>6, <1>11, <2>1 DEF SetRunning, SetJobStatus, WAt, TakeItem, Runnable
  <2>2. CASE ~Exists(i)
    BY <1>1, <1>5, <1>6, <1>11, <2>2 DEF SetRunning, Exists, Runnable, JobStatus, storeVars, WAt, TakeItem
  <2> QED BY <2>1, <2>2
<1>12. CASE InvalidResult
  BY <1>1, <1>5, <1>6, <1>12 DEF InvalidResult, UpdateResult, storeVars, WAt, TakeItem, Worker
<1>13. CASE NoAccounts \/ ExceptSetFailed
  BY <1>1, <1>5, <1>6, <1>13 DEF NoAccounts, ExceptSetFailed, SetJobStatus, storeVars, WAt, TakeItem, Runnable
<1>14. CASE Spawn \/ UploadsDone
  BY <1>1, <1>5, <1>6, <1>14 DEF Spawn, UploadsDone, storeVars, WAt, TakeItem
<1>15. CASE OuterDeadline \/ StalledRead \/ StalledWrite
  <2>1. UNCHANGED status /\ worker.at \notin Deciding /\ ~TakeItem
    BY <1>15 DEF OuterDeadline, StalledRead, StalledWrite, UpdateResult, storeVars, WAt, TakeItem
  <2>2. CASE OuterDeadline
    BY <1>1, <1>5, <2>1, <2>2 DEF OuterDeadline, Worker
  <2>3. CASE StalledRead \/ StalledWrite
    <3>1. worker.at \in {"stalled", "stalled_write"}
      BY <2>3 DEF StalledRead, StalledWrite, WAt
    <3>2. ASSUME NEW at \in {"tally", "except", "stalled", "stalled_write"}, NEW todo, NEW a,
                 \/ worker' = [worker EXCEPT !.at = at]
                 \/ worker' = [worker EXCEPT !.todo = todo]
                 \/ worker' = [worker EXCEPT !.at = at, !.todo = todo]
                 \/ worker' = [worker EXCEPT !.at = at, !.acct = a]
          PROVE  WaitingInv'
      <4>1. /\ [worker EXCEPT !.at = at].at = at
            /\ [worker EXCEPT !.todo = todo].at = worker.at
            /\ [worker EXCEPT !.at = at, !.todo = todo].at = at
            /\ [worker EXCEPT !.at = at, !.acct = a].at = at
        BY <1>1, WorkerMove
      <4>2. worker'.at \in {"tally", "except", "stalled", "stalled_write"}
        BY <3>1, <3>2, <4>1
      <4> QED BY <1>5, <2>1, <4>2
    <3>3. CASE StalledRead
      <4>1. \/ WGoto("tally") \/ WGoto("except")
            \/ \E a \in worker.todo : \/ worker' = [worker EXCEPT !.todo = @ \ {a}]
                                     \/ worker' = [worker EXCEPT !.at = "stalled_write", !.acct = a]
        BY <3>3 DEF StalledRead
      <4> QED BY <3>2, <4>1 DEF WGoto
    <3>4. CASE StalledWrite
      <4>1. \/ WGoto("except")
            \/ worker' = [worker EXCEPT !.at = "stalled", !.todo = @ \ {worker.acct}]
        BY <3>4 DEF StalledWrite
      <4> QED BY <3>2, <4>1 DEF WGoto
    <3> QED BY <2>3, <3>3, <3>4
  <2> QED BY <1>15, <2>2, <2>3
<1>16. ASSUME ~TakeItem, status' = status, worker.at \notin Deciding,
              worker'.at \in {"clear", "set_final", "sync_write"}, Final', Writes'
       PROVE  WaitingInv'
  BY <1>4, <1>16
<1>17. CASE TallyResults
  <2>1. CASE Exists(i)
    BY <1>1, <1>16, <1>17, <2>1, FinalIsNotWaiting DEF TallyResults, storeVars, WAt, TakeItem, Worker
  <2>2. CASE ~Exists(i)
    BY <1>1, <1>5, <1>17, <2>2 DEF TallyResults, storeVars, WAt, TakeItem, Worker
  <2> QED BY <2>1, <2>2
<1>18. CASE Clear
  BY <1>1, <1>6, <1>16, <1>18 DEF Clear, ClearControl, recordVars, WAt, TakeItem
<1>19. CASE SetFinal
  <2>1. CASE Exists(i)
    BY <1>1, <1>5, <1>6, <1>19, <2>1 DEF SetFinal, SetJobStatus, WAt, TakeItem
  <2>2. CASE ~Exists(i)
    BY <1>1, <1>5, <1>6, <1>19, <2>2 DEF SetFinal, storeVars, WAt, TakeItem
  <2> QED BY <2>1, <2>2
<1>20. CASE SyncRead
  <2>1. CASE Exists(i)
    <3>1. worker'.at = "sync_write" /\ worker'.status = status[i] /\ worker'.job = i
          /\ status' = status /\ worker.at = "sync_read" /\ ~TakeItem
      BY <1>1, <1>20, <2>1 DEF SyncRead, storeVars, WAt, TakeItem, Worker
    <3>2. status[i] \in Runnable => Expected(i)'
      BY <1>1, <1>4, <3>1
    <3>3. Writes'
      BY <3>1, <3>2
    <3> QED BY <1>16, <3>1, <3>3
  <2>2. CASE ~Exists(i)
    BY <1>1, <1>2, <1>5, <1>20, <2>2 DEF SyncRead, storeVars, WAt, TakeItem
  <2> QED BY <2>1, <2>2
<1>21. CASE SyncWrite
  <2>1. /\ worker.at = "sync_write" /\ worker'.at = "idle" /\ i \in Jobs /\ ~TakeItem
        /\ status' = [status EXCEPT ![i] = worker.status]
    BY <1>1, <1>2, <1>21 DEF SyncWrite, PutJob, WAt, TakeItem
  <2>2. ASSUME NEW j \in Jobs, status'[j] \in Runnable PROVE Expected(j)'
    BY <1>1, <1>4, <2>1, <2>2
  <2> QED BY <2>1, <2>2
<1> QED BY <1>3, <1>7, <1>8, <1>9, <1>10, <1>11, <1>12, <1>13, <1>14, <1>15, <1>17, <1>18, <1>19, <1>20, <1>21 DEF RunOnce

\* The invariant holds initially and is kept by every step.
LEMMA WaitingStep ==
  /\ Init => WaitingInv
  /\ TypeInv /\ WaitingInv /\ [Next]_vars => WaitingInv'
<1>1. Init => WaitingInv
  BY DEF Init, StoreInit, IdleWorker, WorksOn, WaitingInv, Runnable
<1>2. ASSUME TypeInv, WaitingInv, UNCHANGED <<status, req, queue, timers, worker>> PROVE WaitingInv'
  BY <1>2 DEF WaitingInv, Expected, Queued
<1>3. ASSUME TypeInv, WaitingInv, NEW q \in Requests,
             Handle(q) \/ \E i \in Jobs : Arrive(q, i)
      PROVE  WaitingInv'
  <2>1. UNCHANGED worker
    BY <1>3, HandleFrame DEF Arrive, CreatePost, StopRead, PauseRead, ResumeRead, RetryClear, DeleteRead
  <2>2. \A j \in Jobs : /\ Expected(j) => Expected(j)'
                        /\ status'[j] \in Runnable => status[j] \in Runnable \/ Expected(j)'
    BY <1>3, HandleExpects, HandleWaits, ArriveExpects, ArriveWaits
  <2>3. worker.at = "sync_write" => worker.job \in Jobs
    BY <1>3 DEF TypeInv, HasJob
  <2> QED BY <1>3, <2>1, <2>2, <2>3 DEF WaitingInv
<1>4. ASSUME NEW r \in Runs, NEW a \in Accounts, Upload(r, a) \/ Dispatch(r, a)
      PROVE  UNCHANGED <<status, req, queue, timers, worker>>
  BY <1>4 DEF Upload, FirstStopCheck, PauseCheck, TestEvent, SecondStopCheck, Skip, Reject,
       MarkUploading, Collect, Report, Write, UpdateResult, Dispatch, OpenMedia, Publish, Refuse,
       ThreadOnly, storeVars
<1>5. UNCHANGED vars => UNCHANGED <<status, req, queue, timers, worker>>
  BY DEF vars, storeVars
<1> QED BY <1>1, <1>2, <1>3, <1>4, <1>5, TimerWaits, RunOnceWaits DEF Next, WaitForRequest

\* Whatever is stopped, retried, deleted or scheduled, nobody loses track of a job
\* that waits to run.
THEOREM NothingLost == Spec => []NoLostJob
<1>1. TypeInv /\ WaitingInv => NoLostJob
  BY DEF WaitingInv, Expected, Queued, Starts, NoLostJob, WillBeHandled
<1>2. Spec => [](TypeInv /\ WaitingInv)
  BY InitType, TypeStep, WaitingStep, PTL DEF Spec
<1> QED BY <1>1, <1>2, PTL

-----------------------------------------------------------------------------
(* A stop that was accepted holds, for clients that neither pause nor retry. *)

\* Where the worker can be next.
WorkerNext(at) ==
  CASE at = "idle"            -> {"check"}
    [] at = "check"           -> {"skip_clear", "run", "idle"}
    [] at = "skip_clear"      -> {"idle"}
    [] at = "run"             -> {"run_clear", "sync_read", "invalid", "set_running"}
    [] at = "run_clear"       -> {"sync_read"}
    [] at = "invalid"         -> {"invalid_results", "sync_read"}
    [] at = "invalid_results" -> {"invalid_results", "run_clear", "sync_read"}
    [] at = "set_running"     -> {"spawn", "sync_read"}
    [] at = "spawn"           -> {"wait", "empty", "except"}
    [] at = "empty"           -> {"cleanup"}
    [] at = "wait"            -> {"tally", "stalled"}
    [] at = "stalled"         -> {"stalled", "stalled_write", "tally", "except"}
    [] at = "stalled_write"   -> {"stalled", "except"}
    [] at = "tally"           -> {"clear", "except"}
    [] at = "clear"           -> {"set_final"}
    [] at = "set_final"       -> {"cleanup", "except"}
    [] at = "except"          -> {"set_failed"}
    [] at = "set_failed"      -> {"cleanup"}
    [] at = "cleanup"         -> {"sync_read"}
    [] at = "sync_read"       -> {"sync_write", "idle"}
    [] OTHER                  -> {"idle"}

\* A step of the worker is one along the loop and the executor, with one job.
LEMMA WorkerMoves ==
  ASSUME TypeInv, RunOnce
  PROVE  /\ worker'.at \in WorkerNext(worker.at)
         /\ \/ TakeItem
            \/ worker'.at = "idle" /\ worker'.job = NoJob
            \/ worker'.job = worker.job
<1> DEFINE Goes(at) == worker'.at = at /\ worker'.job = worker.job
           Stops == worker'.at = "idle" /\ worker'.job = NoJob
<1>1. worker \in Worker
  BY DEF TypeInv, TypeOK
<1>2. ASSUME NEW at, NEW todo, NEW a, NEW s, NEW d, NEW v,
             \/ WGoto(at)
             \/ worker' = [worker EXCEPT !.at = at]
             \/ worker' = [worker EXCEPT !.at = at, !.todo = todo]
             \/ worker' = [worker EXCEPT !.at = at, !.acct = a]
             \/ worker' = [worker EXCEPT !.at = at, !.todo = todo, !.status = s]
             \/ worker' = [worker EXCEPT !.at = at, !.view = v]
             \/ worker' = [worker EXCEPT !.at = at, !.todo = todo, !.status = s, !.when = d, !.view = v]
      PROVE  Goes(at)
  BY <1>1, <1>2 DEF WGoto, Worker
<1>3. ASSUME NEW todo, worker' = [worker EXCEPT !.todo = todo] PROVE Goes(worker.at)
  BY <1>1, <1>3 DEF Worker
<1>4. worker' = IdleWorker => Stops
  BY DEF IdleWorker, WorksOn
<1> SUFFICES ASSUME ~TakeItem
             PROVE  (\E at \in WorkerNext(worker.at) : Goes(at)) \/ (Stops /\ "idle" \in WorkerNext(worker.at))
  BY DEF TakeItem, WorksOn, WAt, WorkerNext
<1> HIDE DEF Goes, Stops
<1> USE DEF WorkerNext, WAt
<1>5. CASE CheckRunnable
  BY <1>2, <1>4, <1>5 DEF CheckRunnable
<1>6. CASE SkipClear \/ SyncWrite
  BY <1>4, <1>6 DEF SkipClear, SyncWrite
<1>7. CASE RunRead
  BY <1>2, <1>7 DEF RunRead
<1>8. CASE RunClear
  BY <1>2, <1>8 DEF RunClear
<1>9. CASE InvalidStatus
  BY <1>2, <1>9 DEF InvalidStatus
<1>10. CASE InvalidResult
  BY <1>2, <1>3, <1>10 DEF InvalidResult
<1>11. CASE SetRunning
  BY <1>2, <1>11 DEF SetRunning
<1>12. CASE Spawn \/ NoAccounts
  BY <1>2, <1>12 DEF Spawn, NoAccounts
<1>13. CASE NoAccountsClear \/ UploadsDone
  BY <1>2, <1>13 DEF NoAccountsClear, UploadsDone
<1>14. CASE OuterDeadline
  BY <1>2, <1>14 DEF OuterDeadline
<1>15. CASE StalledRead
  BY <1>2, <1>3, <1>15 DEF StalledRead
<1>16. CASE StalledWrite
  BY <1>2, <1>16 DEF StalledWrite
<1>17. CASE TallyResults
  BY <1>2, <1>17 DEF TallyResults
<1>18. CASE Clear \/ SetFinal
  BY <1>2, <1>18 DEF Clear, SetFinal
<1>19. CASE ExceptClear \/ ExceptSetFailed \/ Cleanup
  BY <1>2, <1>19 DEF ExceptClear, ExceptSetFailed, Cleanup
<1>20. CASE SyncRead
  BY <1>2, <1>4, <1>20 DEF SyncRead
<1> QED BY <1>5, <1>6, <1>7, <1>8, <1>9, <1>10, <1>11, <1>12, <1>13, <1>14, <1>15, <1>16, <1>17,
           <1>18, <1>19, <1>20 DEF RunOnce

\* The clients spoken of: they create, stop and delete.  And no upload outlasts the
\* timeout it has.
StopClients == Ops \subseteq {"create", "stop", "delete"} /\ ~Stalls

\* Where the requests of such clients can be.
Steps(op) == CASE op = "create" -> {"set_read", "set_write", "timer", "enqueue"}
               [] op = "stop"   -> {"stop_flag", "set_event", "stop_check", "set_read", "set_write"}
               [] op = "delete" -> {"delete"}
               [] OTHER         -> {}
StepsInv == \A q \in Requests : req[q].at \in {"new", "done"} \cup Steps(req[q].op)

\* Nothing is paused, and the worker waits as long as an upload thread lives.
Live(r, a) == thr[r][a].at \notin {"none", "done"}
WaitsForThreads ==
  /\ \A j \in Jobs : pauseEvt[j] = 0
  /\ held = {} /\ worker.at \notin {"stalled", "stalled_write"}
  /\ \A r \in Runs, a \in Accounts : Live(r, a) =>
       /\ thr[r][a].at \notin {"event", "blocked"}
       /\ worker.at = "wait" /\ r = runs /\ runJob[r] = worker.job

\* Nobody but the request that creates a job brings it to the queue.
Creating(rq) == rq.op = "create" /\ rq.at \notin {"new", "done"}
EnqueuedOnce ==
  \A q \in Requests : Creating(req[q]) =>
    /\ req[q].job \notin timers /\ ~Queued(req[q].job) /\ worker.job # req[q].job
    /\ \A p \in Requests : Creating(req[p]) /\ req[p].job = req[q].job => p = q

\* Once the worker has decided about a job, it does not wait any more.
Ahead == {"idle", "check", "run", "invalid", "set_running"}
DecidedInv ==
  /\ worker.at \notin Ahead => status[worker.job] \notin Runnable
  /\ worker.at = "sync_write" => worker.status \notin Runnable

\* A job that was stopped has its flag, or it will not run again: it does not wait,
\* the worker is not about to run it, and nobody is about to bring it to the queue.
Over(j) ==
  /\ status[j] \notin Runnable \cup {"none"}
  /\ worker.job = j => worker.at \notin {"invalid", "set_running", "spawn", "wait"}
  /\ \A q \in Requests : ~(Creating(req[q]) /\ req[q].job = j)
StoppedInv == \A j \in stopAsked : stopFlag[j] \/ Over(j)

StopInv == StepsInv /\ WaitsForThreads /\ EnqueuedOnce /\ DecidedInv /\ StoppedInv

\* What is known of a state besides.
Sound == TypeInv /\ Known /\ WaitingInv

LEMMA StopInit == Init => StopInv
BY DEF Init, StoreInit, NoRequest, Asks, IdleWorker, WorksOn, NoThread, StopInv, StepsInv,
   WaitsForThreads, EnqueuedOnce, DecidedInv, StoppedInv, Live, Creating, Ahead

\* A step of a request does not begin to create anything.
LEMMA HandleCreating ==
  ASSUME TypeInv, NEW q \in Requests, Handle(q), NEW p \in Requests, Creating(req'[p])
  PROVE  Creating(req[p]) /\ req'[p].job = req[p].job
<1>1. req[q].at \notin {"new", "done"}
  BY DEF Handle, StopFlag, SetPauseEvent, StopCheck, Pause, Resume, SetStatusRead,
         SetStatusWrite, AddTimer, Enqueue, RetryRead, RetryWrite, Delete, At
<1> QED BY <1>1, HandleMoves DEF Same, Moved, Creating

\* The steps of such requests stay in their handlers.
LEMMA HandleSteps ==
  ASSUME TypeInv, StepsInv, NEW q \in Requests, Handle(q)
  PROVE  StepsInv'
<1>1. req[q].at \in Steps(req[q].op)
  BY DEF Handle, StopFlag, SetPauseEvent, StopCheck, Pause, Resume, SetStatusRead, StepsInv,
         SetStatusWrite, AddTimer, Enqueue, RetryRead, RetryWrite, Delete, At
<1>2. \A p \in Requests : p # q => Same(req[p], req'[p])
  BY HandleMoves
<1>3. req'[q].at \in {"new", "done"} \cup Steps(req'[q].op)
  BY <1>1, HandleMoves DEF NextAt, Moved, Steps
<1> QED BY <1>2, <1>3 DEF StepsInv, Same

\* What a step of such a request does to the store.
LEMMA HandleStore ==
  ASSUME TypeInv, StepsInv, WaitsForThreads, NEW q \in Requests, Handle(q), NEW j \in Jobs
  PROVE  /\ \/ status'[j] = status[j]
            \/ /\ req[q].job = j
               /\ \/ status'[j] = "deleted" /\ ~Creating(req[q])
                  \/ status'[j] = "stopped" /\ req[q].op = "stop"
                  \/ status'[j] = "scheduled" /\ Creating(req[q])
         /\ status'[j] = "none" => status[j] = "none"
         /\ stopFlag'[j] = stopFlag[j] \/ stopFlag'[j] \/ j \notin stopAsked'
         /\ j \in stopAsked' => j \in stopAsked \/ stopFlag'[j]
         /\ pauseEvt'[j] = 0
         /\ UNCHANGED <<thr, held, worker, runs, runJob>>
<1>1. /\ status \in [Jobs -> JobStatus \cup {"none", "deleted"}] /\ req[q].job \in Jobs
      /\ stopFlag \in [Jobs -> BOOLEAN] /\ pauseEvt \in [Jobs -> Nat] /\ pauseEvt[j] = 0
      /\ thr \in [Runs -> [Accounts -> Thread]]
  BY KeepsJob DEF TypeInv, TypeOK, WaitsForThreads
<1>2. req[q].at \in Steps(req[q].op)
  BY DEF Handle, StopFlag, SetPauseEvent, StopCheck, Pause, Resume, SetStatusRead, StepsInv,
         SetStatusWrite, AddTimer, Enqueue, RetryRead, RetryWrite, Delete, At
<1>3. CASE SetStatusWrite(q)
  <2>1. status' = [status EXCEPT ![req[q].job] = StatusOf(req[q].op)]
        /\ UNCHANGED <<stopFlag, pauseEvt, stopAsked, thr, held, worker, runs, runJob>>
        /\ req[q].at = "set_write"
    BY <1>3 DEF SetStatusWrite, PutJob, At, poolVars, controlVars
  <2>2. req[q].op \in {"create", "stop"}
    BY <1>2, <2>1 DEF Steps
  <2> QED BY <1>1, <2>1, <2>2 DEF StatusOf, Creating
<1>4. CASE Delete(q)
  <2>1. ~Creating(req[q])
    BY <1>2, <1>4 DEF Delete, At, Creating, Steps
  <2> QED BY <1>1, <1>4, <2>1 DEF Delete, DeleteJob, poolVars
<1>5. CASE StopFlag(q)
  BY <1>1, <1>5 DEF StopFlag, RaiseStopFlag, poolVars, recordVars
<1>6. CASE SetPauseEvent(q)
  <2>1. \A r \in Runs, a \in Accounts : thr[r][a].at # "blocked"
    BY DEF WaitsForThreads, Live
  <2>2. thr' = [r \in Runs |-> [a \in Accounts |-> thr[r][a]]]
    BY <1>6, <2>1 DEF SetPauseEvent
  <2>4. thr' = thr
    BY <1>1, <2>2
  <2> QED BY <1>1, <1>6, <2>4 DEF SetPauseEvent, SetEvent, recordVars
<1>7. CASE StopCheck(q) \/ SetStatusRead(q) \/ AddTimer(q) \/ Enqueue(q)
  BY <1>1, <1>7 DEF StopCheck, SetStatusRead, AddTimer, Enqueue, storeVars, poolVars
<1>8. ~(Pause(q) \/ Resume(q) \/ RetryRead(q) \/ RetryWrite(q))
  BY <1>2 DEF Pause, Resume, RetryRead, RetryWrite, At, Steps
<1> QED BY <1>3, <1>4, <1>5, <1>6, <1>7, <1>8 DEF Handle

\* Append brings nothing else to the queue.
LEMMA AppendedOnly ==
  ASSUME queue \in Seq(Jobs), NEW i \in Jobs, queue' = Append(queue, i), NEW j, j # i, ~Queued(j)
  PROVE  ~Queued(j)'
<1>1. /\ Len(queue) \in Nat /\ DOMAIN queue' = 1..(Len(queue) + 1) /\ DOMAIN queue = 1..Len(queue)
      /\ queue'[Len(queue) + 1] = i
      /\ \A k \in DOMAIN queue : queue'[k] = queue[k]
  OBVIOUS
<1>2. \A k \in DOMAIN queue' : k \in DOMAIN queue \/ k = Len(queue) + 1
  BY <1>1
<1> QED BY <1>1, <1>2 DEF Queued

\* A step of such a request keeps the invariant.
LEMMA HandleStops ==
  ASSUME Sound, StopInv, NEW q \in Requests, Handle(q)
  PROVE  StopInv'
<1> USE DEF Sound, StopInv
<1>1. StepsInv'
  BY HandleSteps
<1>2. /\ WaitsForThreads' /\ UNCHANGED worker
  <2>1. req[q].job \in Jobs
    BY KeepsJob
  <2>2. UNCHANGED <<thr, held, worker, runs, runJob>> /\ \A j \in Jobs : pauseEvt'[j] = 0
    BY <2>1, HandleStore
  <2> QED BY <2>2 DEF WaitsForThreads, Live
<1>3. EnqueuedOnce'
  <2>1. /\ queue \in Seq(Jobs) /\ req[q].job \in Jobs
        /\ queue' = queue \/ (req[q].at = "enqueue" /\ queue' = Append(queue, req[q].job))
        /\ timers' = timers \/ (req[q].at = "timer" /\ timers' = timers \cup {req[q].job})
    BY KeepsJob DEF TypeInv, TypeOK, Handle, StopFlag, SetPauseEvent, StopCheck, Pause, Resume, At,
         SetStatusRead, SetStatusWrite, AddTimer, Enqueue, RetryRead, RetryWrite, Delete
  <2>2. queue' # queue \/ timers' # timers => Creating(req[q]) /\ ~Creating(req'[q])
    BY <2>1, HandleMoves DEF NextAt, Creating, StepsInv, Steps
  <2>3. ASSUME NEW p \in Requests, Creating(req'[p]), NEW j, j = req'[p].job
        PROVE  /\ j \notin timers' /\ ~Queued(j)' /\ worker'.job # j
               /\ \A s \in Requests : Creating(req'[s]) /\ req'[s].job = j => s = p
    <3>1. /\ Creating(req[p]) /\ req[p].job = j
      BY <2>3, HandleCreating
    <3>2. queue' # queue \/ timers' # timers => req[q].job # j
      BY <2>2, <2>3, <3>1 DEF EnqueuedOnce
    <3>3. j \notin timers'
      BY <2>1, <3>1, <3>2 DEF EnqueuedOnce
    <3>4. ~Queued(j)'
      <4>1. ~Queued(j)
        BY <3>1 DEF EnqueuedOnce
      <4>2. CASE queue' = queue
        BY <4>1, <4>2 DEF Queued
      <4>3. CASE queue' # queue
        BY <2>1, <3>2, <4>1, <4>3, AppendedOnly
      <4> QED BY <4>2, <4>3
    <3>5. \A s \in Requests : Creating(req'[s]) /\ req'[s].job = j => s = p
      BY <3>1, HandleCreating DEF EnqueuedOnce
    <3> QED BY <1>2, <3>1, <3>3, <3>4, <3>5 DEF EnqueuedOnce
  <2> QED BY <2>3 DEF EnqueuedOnce, Queued
<1>4. DecidedInv'
  <2>1. worker.at \notin Ahead => worker.job \in Jobs
    BY DEF TypeInv, HasJob, Ahead
  <2>2. Creating(req[q]) => worker.job # req[q].job
    BY DEF EnqueuedOnce
  <2> QED BY <1>2, <2>1, <2>2, HandleStore DEF DecidedInv, Runnable
<1>5. StoppedInv'
  <2> SUFFICES ASSUME NEW j \in stopAsked', ~stopFlag'[j] PROVE Over(j)'
    BY DEF StoppedInv
  <2>1. j \in Jobs
    BY HandleType DEF TypeInv, TypeOK
  <2>2. j \in stopAsked /\ ~stopFlag[j]
    BY <2>1, HandleStore DEF TypeInv, TypeOK
  <2>3. Over(j)
    BY <2>2 DEF StoppedInv
  <2>4. status'[j] \notin Runnable \cup {"none"}
    BY <2>1, <2>3, HandleStore DEF Over, Runnable
  <2> QED BY <1>2, <2>3, <2>4, HandleCreating DEF Over
<1> QED BY <1>1, <1>2, <1>3, <1>4, <1>5

\* A request that arrives keeps the invariant.
LEMMA ArriveStops ==
  ASSUME StopClients, Sound, StopInv, NEW q \in Requests, NEW i \in Jobs, Arrive(q, i)
  PROVE  StopInv'
<1> USE DEF Sound, StopInv, StopClients
<1>1. (\E w \in Whens : CreatePost(q, i, w)) \/ StopRead(q, i) \/ DeleteRead(q, i)
  BY DEF Arrive, PauseRead, ResumeRead, RetryClear, Begin
<1>2. /\ req \in [Requests -> Request] /\ req[q].at = "new"
      /\ status \in [Jobs -> JobStatus \cup {"none", "deleted"}]
      /\ UNCHANGED <<queue, timers, worker, runs, runJob, held, thr, stopAsked, stopFlag, pauseEvt>>
  BY <1>1 DEF CreatePost, PutJob, StopRead, DeleteRead, Begin, TypeInv, TypeOK, storeVars,
     controlVars, poolVars
<1>3. PICK op, at : /\ req' = [req EXCEPT ![q] = Asks(op, i, at)]
                    /\ at \in Steps(op)
                    /\ op = "create" => status[i] = "none"
  <2>1. CASE \E w \in Whens : CreatePost(q, i, w)
    <3>1. PICK w \in Whens : CreatePost(q, i, w)
      BY <2>1
    <3>2. /\ req' = [req EXCEPT ![q] = Asks("create", i, IF w = "future" THEN "set_read" ELSE "enqueue")]
          /\ status[i] = "none"
          /\ (IF w = "future" THEN "set_read" ELSE "enqueue") \in Steps("create")
      BY <3>1 DEF CreatePost, Begin, Steps
    <3> QED BY <3>2
  <2>2. CASE StopRead(q, i)
    <3>1. req' = [req EXCEPT ![q] = Asks("stop", i, "stop_flag")] /\ "stop_flag" \in Steps("stop")
      BY <2>2 DEF StopRead, Begin, Steps
    <3>2. "stop" # "create"
      OBVIOUS
    <3> QED BY <3>1, <3>2
  <2>3. CASE DeleteRead(q, i)
    <3>1. req' = [req EXCEPT ![q] = Asks("delete", i, "delete")] /\ "delete" \in Steps("delete")
      BY <2>3 DEF DeleteRead, Begin, Steps
    <3>2. "delete" # "create"
      OBVIOUS
    <3> QED BY <3>1, <3>2
  <2> QED BY <1>1, <2>1, <2>2, <2>3
<1>4. /\ req'[q].at = at /\ req'[q].op = op /\ req'[q].job = i
      /\ \A p \in Requests : p # q => req'[p] = req[p]
  BY <1>2, <1>3 DEF Asks
<1>5. \A j \in Jobs : \/ status'[j] = status[j]
                      \/ j = i /\ status[j] = "none" /\ status'[j] \in Runnable
  BY <1>1, <1>2 DEF CreatePost, PutJob, StopRead, DeleteRead, storeVars, Runnable
<1>6. StepsInv'
  BY <1>3, <1>4 DEF StepsInv
<1>7. WaitsForThreads'
  BY <1>2 DEF WaitsForThreads, Live
<1>8. ASSUME NEW p \in Requests, Creating(req'[p]), p # q PROVE Creating(req[p]) /\ req'[p].job = req[p].job
  BY <1>4, <1>8
<1>9. EnqueuedOnce'
  <2>1. ASSUME status[i] = "none"
        PROVE  /\ i \notin timers /\ ~Queued(i) /\ worker.job # i
               /\ \A p \in Requests : req[p].job # i
    BY <2>1 DEF Known, Queued
  <2> QED BY <1>2, <1>3, <1>4, <1>8, <2>1 DEF EnqueuedOnce, Queued, Creating
<1>10. DecidedInv'
  <2>1. worker.at \notin Ahead => worker.job \in Jobs
    BY DEF TypeInv, HasJob, Ahead
  <2>2. worker.job \in Jobs => status[worker.job] # "none"
    BY DEF Known
  <2> QED BY <1>2, <1>5, <2>1, <2>2 DEF DecidedInv
<1>11. StoppedInv'
  <2>1. ASSUME NEW j \in stopAsked, Over(j) PROVE Over(j)'
    <3>1. j \in Jobs
      BY DEF TypeInv, TypeOK
    <3>2. status'[j] = status[j]
      BY <1>5, <2>1, <3>1 DEF Over
    <3>3. Creating(req'[q]) => i # j
      BY <1>3, <1>4, <2>1 DEF Creating, Over, Steps
    <3> QED BY <1>2, <1>4, <1>8, <2>1, <3>2, <3>3 DEF Over
  <2> QED BY <1>2, <2>1 DEF StoppedInv
<1> QED BY <1>6, <1>7, <1>9, <1>10, <1>11

\* So does a timer.
LEMMA TimerStops ==
  ASSUME Sound, StopInv, NEW i \in Jobs, EnqueueDueJob(i)
  PROVE  StopInv'
<1> USE DEF Sound, StopInv
<1>1. /\ i \in timers /\ timers' = timers \ {i} /\ queue' = Append(queue, i) /\ queue \in Seq(Jobs)
      /\ UNCHANGED <<status, stopFlag, pauseEvt, req, worker, runs, runJob, held, thr, stopAsked>>
  BY DEF EnqueueDueJob, TypeInv, TypeOK, storeVars, poolVars
<1>2. EnqueuedOnce'
  <2>1. ASSUME NEW p \in Requests, Creating(req[p]), NEW j, j = req[p].job PROVE ~Queued(j)'
    BY <1>1, <2>1, AppendedOnly DEF EnqueuedOnce
  <2> QED BY <1>1, <2>1 DEF EnqueuedOnce, Queued
<1>3. StepsInv' /\ WaitsForThreads' /\ DecidedInv' /\ StoppedInv'
  BY <1>1 DEF StepsInv, WaitsForThreads, Live, DecidedInv, StoppedInv, Over
<1> QED BY <1>2, <1>3

\* Upload threads of such clients pass nobody by: no step of theirs concerns
\* anything but the threads.
LEMMA UploadStops ==
  ASSUME Sound, StopInv, NEW r \in Runs, NEW a \in Accounts, Upload(r, a) \/ Dispatch(r, a)
  PROVE  StopInv'
<1> USE DEF Sound, StopInv
<1>1. /\ UNCHANGED <<status, stopFlag, pauseEvt, req, queue, timers, worker, runs, runJob, stopAsked>>
      /\ thr \in [Runs -> [Accounts -> Thread]]
  BY DEF Upload, FirstStopCheck, PauseCheck, TestEvent, SecondStopCheck, Skip, Reject,
       MarkUploading, Collect, Report, Write, UpdateResult, Dispatch, OpenMedia, Publish, Refuse,
       ThreadOnly, storeVars, controlVars, TypeInv, TypeOK
<1>2. ~TestEvent(r, a)
  BY DEF TestEvent, TAt, WaitsForThreads, Live
<1>3. held' = held
  BY <1>2 DEF Upload, FirstStopCheck, PauseCheck, SecondStopCheck, Skip, Reject,
       MarkUploading, Collect, Report, Dispatch, OpenMedia, Publish, Refuse
<1>4. PICK t : Becomes(r, a, t) /\ (t.at \notin {"none", "done"} => Live(r, a) /\ t.at \notin {"event", "blocked"})
  <2>1. thr[r][a] \in Thread
    BY <1>1
  <2>2. ASSUME NEW at, TGoto(r, a, at), Live(r, a), at \notin {"event", "blocked"}
        PROVE  \E t : Becomes(r, a, t) /\ (t.at \notin {"none", "done"} => Live(r, a) /\ t.at \notin {"event", "blocked"})
    <3>1. [thr[r][a] EXCEPT !.at = at].at = at
      BY <2>1 DEF Thread
    <3> QED BY <2>2, <3>1 DEF TGoto
  <2>3. ASSUME TDone(r, a)
        PROVE  \E t : Becomes(r, a, t) /\ (t.at \notin {"none", "done"} => Live(r, a) /\ t.at \notin {"event", "blocked"})
    <3>1. [thr[r][a] EXCEPT !.at = "done", !.evt = 0].at = "done"
      BY <2>1 DEF Thread
    <3> QED BY <2>3, <3>1 DEF TDone
  <2>4. ASSUME NEW n, TNet(r, a, n)
        PROVE  \E t : Becomes(r, a, t) /\ (t.at \notin {"none", "done"} => Live(r, a) /\ t.at \notin {"event", "blocked"})
    <3>1. [thr[r][a] EXCEPT !.net = n].at = thr[r][a].at
      BY <2>1 DEF Thread
    <3> QED BY <2>4, <3>1 DEF TNet, WaitsForThreads, Live
  <2>5. CASE PauseCheck(r, a)
    <3>1. runJob[r] \in Jobs
      BY <2>5 DEF PauseCheck, TAt, TypeInv, HasJob, NoThread
    <3>2. pauseEvt[runJob[r]] = 0
      BY <3>1 DEF WaitsForThreads
    <3>3. Becomes(r, a, [thr[r][a] EXCEPT !.at = "stop_check", !.evt = 0]) /\ Live(r, a)
      BY <2>5, <3>2 DEF PauseCheck, TAt, Live
    <3>4. [thr[r][a] EXCEPT !.at = "stop_check", !.evt = 0].at = "stop_check"
      BY <2>1 DEF Thread
    <3> QED BY <3>3, <3>4
  <2>6. CASE MarkUploading(r, a)
    <3>1. [thr[r][a] EXCEPT !.at = "uploading", !.net = "queued"].at = "uploading"
      BY <2>1 DEF Thread
    <3> QED BY <2>3, <2>6, <3>1 DEF MarkUploading, TAt, Live
  <2>7. CASE FirstStopCheck(r, a) \/ SecondStopCheck(r, a) \/ Reject(r, a)
    BY <2>2, <2>7 DEF FirstStopCheck, SecondStopCheck, Reject, TAt, Live
  <2>8. CASE Collect(r, a)
    BY <2>2, <2>8 DEF Collect, TAt, Live
  <2>9. CASE Skip(r, a) \/ Report(r, a)
    BY <2>3, <2>9 DEF Skip, Report
  <2>10. CASE Dispatch(r, a)
    BY <2>4, <2>10 DEF Dispatch, OpenMedia, Publish, Refuse
  <2> QED BY <1>2, <2>5, <2>6, <2>7, <2>8, <2>9, <2>10 DEF Upload
<1>5. \A s \in Runs, b \in Accounts :
        Live(s, b)' => Live(s, b) /\ thr'[s][b].at \notin {"event", "blocked"}
  <2>1. thr'[r][a] = t /\ \A s \in Runs, b \in Accounts : (s # r \/ b # a) => thr'[s][b] = thr[s][b]
    BY <1>1, <1>4 DEF Becomes
  <2> QED BY <1>4, <2>1 DEF Live, WaitsForThreads
<1>6. WaitsForThreads'
  BY <1>1, <1>3, <1>5 DEF WaitsForThreads
<1>7. StepsInv' /\ EnqueuedOnce' /\ DecidedInv' /\ StoppedInv'
  BY <1>1 DEF StepsInv, EnqueuedOnce, Queued, DecidedInv, StoppedInv, Over
<1> QED BY <1>6, <1>7

\* What a step of the worker does to the store: it makes no job wait, and clears
\* the flags of a job it has decided about.
Clears == {"skip_clear", "run_clear", "empty", "clear", "except"}
LEMMA RunOnceStore ==
  ASSUME Sound, StopInv, RunOnce, NEW j \in Jobs
  PROVE  /\ \/ status'[j] = status[j]
            \/ j = worker.job /\ worker.at # "idle" /\ status'[j] \notin Runnable \cup {"none"}
         /\ stopFlag'[j] = stopFlag[j] \/ (j = worker.job /\ worker.at \in Clears)
         /\ pauseEvt'[j] = 0
         /\ UNCHANGED <<held, stopAsked, timers>>
<1> DEFINE i == worker.job
<1> USE DEF WAt
<1>1. /\ status \in [Jobs -> JobStatus \cup {"none", "deleted"}] /\ worker.status \in JobStatus
      /\ stopFlag \in [Jobs -> BOOLEAN] /\ pauseEvt \in [Jobs -> Nat] /\ pauseEvt[j] = 0
      /\ "none" \notin JobStatus
  BY DEF Sound, TypeInv, TypeOK, StopInv, WaitsForThreads, Worker, JobStatus
<1>2. UNCHANGED <<held, stopAsked, timers>>
  BY DEF RunOnce, TakeItem, CheckRunnable, SkipClear, RunRead,
         RunClear, InvalidStatus, InvalidResult, SetRunning, Spawn, NoAccounts, NoAccountsClear,
         UploadsDone, OuterDeadline, StalledRead, StalledWrite, TallyResults, Clear, SetFinal,
         ExceptClear, ExceptSetFailed, Cleanup, SyncRead, SyncWrite, poolVars
<1>3. CASE SkipClear \/ RunClear \/ NoAccountsClear \/ Clear \/ ExceptClear
  BY <1>1, <1>2, <1>3 DEF SkipClear, RunClear, NoAccountsClear, Clear, ExceptClear, ClearControl,
     recordVars, Clears
<1>4. ASSUME NEW s \in JobStatus \ Runnable, worker.at # "idle",
             SetJobStatus(i, s) \/ \E w, v : PutJob(i, s, w, v)
      PROVE  /\ \/ status'[j] = status[j]
                \/ j = i /\ worker.at # "idle" /\ status'[j] \notin Runnable \cup {"none"}
             /\ UNCHANGED <<stopFlag, pauseEvt>>
  BY <1>1, <1>4 DEF SetJobStatus, PutJob, controlVars
<1>5. {"failed", "running", "completed"} \subseteq JobStatus \ Runnable
  BY DEF JobStatus, Runnable
<1>6. CASE InvalidStatus \/ SetRunning \/ NoAccounts \/ ExceptSetFailed
  BY <1>1, <1>2, <1>4, <1>5, <1>6 DEF InvalidStatus, SetRunning, NoAccounts, ExceptSetFailed, storeVars
<1>7. CASE SetFinal
  <2>1. worker.at = "set_final" /\ worker.status \notin Runnable
    BY <1>7 DEF SetFinal, Sound, WaitingInv
  <2> QED BY <1>1, <1>2, <1>4, <1>7, <2>1 DEF SetFinal, storeVars
<1>8. CASE SyncWrite
  <2>1. worker.at = "sync_write" /\ worker.status \notin Runnable
    BY <1>8 DEF SyncWrite, StopInv, DecidedInv
  <2> QED BY <1>1, <1>2, <1>4, <1>8, <2>1 DEF SyncWrite
<1>9. CASE InvalidResult \/ StalledWrite
  BY <1>1, <1>2, <1>9 DEF InvalidResult, StalledWrite, UpdateResult, storeVars, controlVars
<1>10. CASE TakeItem \/ CheckRunnable \/ RunRead \/ Spawn \/ UploadsDone \/ OuterDeadline
            \/ StalledRead \/ TallyResults \/ Cleanup \/ SyncRead
  BY <1>1, <1>2, <1>10 DEF TakeItem, CheckRunnable, RunRead, Spawn, UploadsDone, OuterDeadline,
     StalledRead, TallyResults, Cleanup, SyncRead, storeVars
<1> QED BY <1>3, <1>6, <1>7, <1>8, <1>9, <1>10 DEF RunOnce

\* The worker decides about a job only when it does not wait.
LEMMA RunOnceDecides ==
  ASSUME Sound, StopInv, RunOnce
  PROVE  DecidedInv' /\ (worker'.at \in {"invalid", "set_running"} => status[worker.job] \in Runnable)
<1> DEFINE i == worker.job
<1>1. /\ worker \in Worker /\ (worker.at # "idle" => i \in Jobs)
      /\ status \in [Jobs -> JobStatus \cup {"none", "deleted"}]
  BY DEF Sound, TypeInv, TypeOK, HasJob
<1>9. /\ worker'.at \in WorkerNext(worker.at)
      /\ TakeItem \/ (worker'.at = "idle" /\ worker'.job = NoJob) \/ worker'.job = i
  BY WorkerMoves DEF Sound
<1>2. worker'.at \notin Ahead => worker.at # "idle" /\ worker'.job = i
  BY <1>9 DEF WorkerNext, Ahead, TakeItem, WorksOn
<1>3. ASSUME worker.at \notin Ahead, worker'.at \notin Ahead PROVE status'[worker'.job] \notin Runnable
  <2>1. status[i] \notin Runnable
    BY <1>3 DEF StopInv, DecidedInv
  <2>2. worker.at # "idle" /\ worker'.job = i /\ i \in Jobs
    BY <1>1, <1>2, <1>3
  <2> QED BY <2>1, <2>2, RunOnceStore
<1>4. CASE worker.at \notin {"check", "run", "invalid", "set_running", "sync_read"}
  <2>1. worker'.at \notin {"invalid", "set_running", "sync_write"}
    BY <1>4, <1>9 DEF WorkerNext
  <2>2. worker'.at \notin Ahead => worker.at \notin Ahead
    BY <1>2, <1>4 DEF Ahead
  <2> QED BY <1>3, <2>1, <2>2 DEF DecidedInv
<1>5. CASE worker.at = "check"
  <2>1. CheckRunnable
    BY <1>5 DEF RunOnce, TakeItem, SkipClear, RunRead,
         RunClear, InvalidStatus, InvalidResult, SetRunning, Spawn, NoAccounts, NoAccountsClear,
         UploadsDone, OuterDeadline, StalledRead, StalledWrite, TallyResults, Clear, SetFinal,
         ExceptClear, ExceptSetFailed, Cleanup, SyncRead, SyncWrite, WAt
  <2>2. worker'.at \in {"skip_clear", "run", "idle"} /\ status' = status
    BY <1>5, <2>1, <1>9 DEF WorkerNext, CheckRunnable, storeVars
  <2>3. [worker EXCEPT !.at = "run"].at = "run" /\ IdleWorker.at = "idle"
    BY <1>1 DEF Worker, IdleWorker, WorksOn
  <2>4. worker'.at = "skip_clear" => status[i] = "stopped"
    BY <2>1, <2>3 DEF CheckRunnable
  <2> QED BY <1>2, <2>2, <2>4 DEF DecidedInv, Ahead, Runnable
<1>6. CASE worker.at = "run"
  <2>1. RunRead
    BY <1>6 DEF RunOnce, TakeItem, SkipClear, CheckRunnable,
         RunClear, InvalidStatus, InvalidResult, SetRunning, Spawn, NoAccounts, NoAccountsClear,
         UploadsDone, OuterDeadline, StalledRead, StalledWrite, TallyResults, Clear, SetFinal,
         ExceptClear, ExceptSetFailed, Cleanup, SyncRead, SyncWrite, WAt
  <2>2. worker'.at \in {"run_clear", "sync_read", "invalid", "set_running"} /\ status' = status
    BY <1>6, <2>1, <1>9 DEF WorkerNext, RunRead, storeVars
  <2>3. /\ \A v : [worker EXCEPT !.at = "invalid", !.view = v].at = "invalid"
        /\ [worker EXCEPT !.at = "set_running"].at = "set_running"
        /\ [worker EXCEPT !.at = "run_clear"].at = "run_clear"
        /\ [worker EXCEPT !.at = "sync_read"].at = "sync_read"
    BY <1>1 DEF Worker
  <2>4. CASE status[i] \in Runnable
    <3>1. worker'.at \in {"invalid", "set_running"}
      BY <2>1, <2>3, <2>4 DEF RunRead, Runnable
    <3> QED BY <2>4, <3>1 DEF DecidedInv, Ahead
  <2>5. CASE status[i] \notin Runnable
    <3>1. worker'.at \notin {"invalid", "set_running"}
      BY <2>1, <2>3, <2>5 DEF RunRead, Runnable
    <3> QED BY <1>2, <2>2, <2>5, <3>1 DEF DecidedInv, Ahead
  <2> QED BY <2>4, <2>5
<1>7. CASE worker.at \in {"invalid", "set_running"}
  <2>1. InvalidStatus \/ SetRunning
    BY <1>7 DEF RunOnce, TakeItem, SkipClear, CheckRunnable, RunRead,
         RunClear, InvalidResult, Spawn, NoAccounts, NoAccountsClear,
         UploadsDone, OuterDeadline, StalledRead, StalledWrite, TallyResults, Clear, SetFinal,
         ExceptClear, ExceptSetFailed, Cleanup, SyncRead, SyncWrite, WAt
  <2>2. worker'.at \in {"invalid_results", "sync_read", "spawn"}
    BY <1>7, <1>9 DEF WorkerNext
  <2>3. \/ status' = [status EXCEPT ![i] = "failed"] \/ status' = [status EXCEPT ![i] = "running"]
        \/ status' = status /\ status[i] \notin JobStatus
    BY <2>1 DEF InvalidStatus, SetRunning, SetJobStatus, storeVars, Exists
  <2>4. Runnable \subseteq JobStatus /\ "failed" \notin Runnable /\ "running" \notin Runnable
    BY DEF Runnable, JobStatus
  <2>5. status'[i] \notin Runnable
    BY <1>1, <1>7, <2>3, <2>4
  <2> QED BY <1>2, <2>2, <2>5 DEF DecidedInv, Ahead
<1>8. CASE worker.at = "sync_read"
  <2>1. SyncRead
    BY <1>8 DEF RunOnce, TakeItem, SkipClear, CheckRunnable, RunRead,
         RunClear, InvalidStatus, InvalidResult, SetRunning, Spawn, NoAccounts, NoAccountsClear,
         UploadsDone, OuterDeadline, StalledRead, StalledWrite, TallyResults, Clear, SetFinal,
         ExceptClear, ExceptSetFailed, Cleanup, SyncWrite, WAt
  <2>2. worker'.at \in {"sync_write", "idle"} /\ worker.at \notin Ahead /\ status[i] \notin Runnable
    BY <1>8, <1>9 DEF WorkerNext, Ahead, StopInv, DecidedInv
  <2>3. worker'.at = "sync_write" => worker'.status = status[i]
    BY <1>1, <2>1 DEF SyncRead, IdleWorker, WorksOn, Worker
  <2> QED BY <1>3, <2>2, <2>3 DEF DecidedInv, Ahead
<1> QED BY <1>4, <1>5, <1>6, <1>7, <1>8

\* A step of the worker keeps the invariant.
LEMMA RunOnceStops ==
  ASSUME StopClients, Sound, StopInv, RunOnce
  PROVE  StopInv'
<1> USE DEF StopInv
<1>1. \A p \in Requests : Same(req[p], req'[p])
  <2>1. req \in [Requests -> Request]
    BY DEF Sound, TypeInv, TypeOK
  <2>2. CASE SyncWrite
    BY <2>1, <2>2, OrphanSame DEF SyncWrite
  <2>3. CASE ~SyncWrite
    BY <2>3 DEF Same, RunOnce, TakeItem, CheckRunnable, SkipClear, RunRead,
         RunClear, InvalidStatus, InvalidResult, SetRunning, Spawn, NoAccounts, NoAccountsClear,
         UploadsDone, OuterDeadline, StalledRead, StalledWrite, TallyResults, Clear, SetFinal,
         ExceptClear, ExceptSetFailed, Cleanup, SyncRead
  <2> QED BY <2>2, <2>3
<1>2. StepsInv' /\ \A p \in Requests : (Creating(req'[p]) <=> Creating(req[p])) /\ req'[p].job = req[p].job
  BY <1>1 DEF Same, StepsInv, Creating
<1>3. worker.at # "idle" => worker.job \in Jobs
  BY DEF Sound, TypeInv, HasJob
<1>4. held' = held /\ stopAsked' = stopAsked /\ timers' = timers
  BY DEF RunOnce, TakeItem, CheckRunnable, SkipClear, RunRead,
         RunClear, InvalidStatus, InvalidResult, SetRunning, Spawn, NoAccounts, NoAccountsClear,
         UploadsDone, OuterDeadline, StalledRead, StalledWrite, TallyResults, Clear, SetFinal,
         ExceptClear, ExceptSetFailed, Cleanup, SyncRead, SyncWrite, poolVars
<1>5. WaitsForThreads'
  <2>1. worker'.at \notin {"stalled", "stalled_write"}
    <3>1. worker.at \notin {"stalled", "stalled_write"} /\ ~OuterDeadline
      BY DEF WaitsForThreads, OuterDeadline, StopClients
    <3>2. worker.at = "wait" => UploadsDone
      BY <3>1 DEF RunOnce, TakeItem, SkipClear, CheckRunnable, RunRead,
         RunClear, InvalidStatus, InvalidResult, SetRunning, Spawn, NoAccounts, NoAccountsClear,
         StalledRead, StalledWrite, TallyResults, Clear, SetFinal,
         ExceptClear, ExceptSetFailed, Cleanup, SyncRead, SyncWrite, WAt
    <3>3. UploadsDone => worker'.at = "tally"
      BY WorkerMove DEF UploadsDone, WGoto, Sound, TypeInv, TypeOK
    <3> QED BY <3>1, <3>2, <3>3, WorkerMoves DEF WorkerNext, Sound
  <2>2. \A r \in Runs, a \in Accounts : ~Live(r, a)
    <3> SUFFICES ASSUME NEW r \in Runs, NEW a \in Accounts, Live(r, a) PROVE FALSE
      OBVIOUS
    <3>1. worker.at = "wait" /\ r = runs /\ held = {}
      BY DEF WaitsForThreads
    <3>2. Unfinished # {}
      BY <3>1 DEF Unfinished, Live
    <3> QED BY <3>1, <3>2 DEF RunOnce, TakeItem, SkipClear, CheckRunnable, RunRead, UploadsDone,
         RunClear, InvalidStatus, InvalidResult, SetRunning, Spawn, NoAccounts, NoAccountsClear,
         StalledRead, StalledWrite, TallyResults, Clear, SetFinal, OuterDeadline, StopClients,
         ExceptClear, ExceptSetFailed, Cleanup, SyncRead, SyncWrite, WAt
  <2>3. ASSUME NEW r \in Runs, NEW a \in Accounts, Live(r, a)'
        PROVE  /\ thr'[r][a].at \notin {"event", "blocked"}
               /\ worker'.at = "wait" /\ r = runs' /\ runJob'[r] = worker'.job
    <3>1. CASE Spawn
      <4>1. r = runs'
        BY <2>2, <2>3, <3>1, SpawnFrame DEF Live, Sound
      <4>2. thr'[r][a] \in {NoThread, [NoThread EXCEPT !.at = "start"]}
        BY <3>1, <4>1 DEF Spawn, Sound, TypeInv, TypeOK
      <4>3. thr'[r][a].at \notin {"event", "blocked"}
        BY <4>2 DEF NoThread
      <4> QED BY <3>1, <4>1, <4>3, SpawnFrame DEF Sound
    <3>2. CASE ~Spawn
      <4>1. thr' = thr
        BY <3>2, RunOnceFrame DEF Sound, TakeItem, Cleanup, poolVars
      <4> QED BY <2>2, <2>3, <4>1 DEF Live
    <3> QED BY <3>1, <3>2
  <2> QED BY <1>4, <2>1, <2>3, RunOnceStore DEF WaitsForThreads
<1>6. EnqueuedOnce'
  <2>1. queue \in Seq(Jobs)
    BY DEF Sound, TypeInv, TypeOK
  <2>2. ASSUME NEW p \in Requests, Creating(req[p]), NEW j, j = req[p].job
        PROVE  ~Queued(j)' /\ worker'.job # j
    <3>1. ~Queued(j) /\ worker.job # j
      BY <2>2 DEF EnqueuedOnce
    <3>2. CASE TakeItem
      <4>1. /\ queue # <<>> /\ queue' = Tail(queue) /\ worker'.job = Head(queue)
            /\ Head(queue) = queue[1] /\ 1 \in DOMAIN queue
            /\ \A k \in DOMAIN queue' : k + 1 \in DOMAIN queue /\ queue'[k] = queue[k + 1]
        BY <2>1, <3>2 DEF TakeItem, WorksOn
      <4> QED BY <3>1, <4>1 DEF Queued
    <3>3. CASE ~TakeItem
      <4>1. queue' = queue
        BY <3>3 DEF RunOnce, CheckRunnable, SkipClear, RunRead,
         RunClear, InvalidStatus, InvalidResult, SetRunning, Spawn, NoAccounts, NoAccountsClear,
         UploadsDone, OuterDeadline, StalledRead, StalledWrite, TallyResults, Clear, SetFinal,
         ExceptClear, ExceptSetFailed, Cleanup, SyncRead, SyncWrite
      <4>2. j \in Jobs
        BY <2>2 DEF Sound, TypeInv, HasJob, AtWork, Creating
      <4> QED BY <3>1, <3>3, <4>1, <4>2, WorkerMoves, NoneAssumption DEF Queued, Sound
    <3> QED BY <3>2, <3>3
  <2> QED BY <1>2, <1>4, <2>2 DEF EnqueuedOnce, Queued
<1>7. DecidedInv'
  BY RunOnceDecides
<1>8. StoppedInv'
  <2> SUFFICES ASSUME NEW j \in stopAsked, ~stopFlag'[j] PROVE Over(j)'
    BY <1>4 DEF StoppedInv
  <2>1. j \in Jobs
    BY DEF Sound, TypeInv, TypeOK
  <2>2. \A p \in Requests : Creating(req'[p]) => Creating(req[p]) /\ req'[p].job = req[p].job
    BY <1>2
  <2>3. CASE stopFlag[j]
    <3>1. j = worker.job /\ worker.at \in Clears
      BY <2>1, <2>3, RunOnceStore
    <3>2. status[j] \notin Runnable /\ status[j] # "none"
      BY <2>1, <3>1 DEF DecidedInv, Ahead, Clears, Sound, Known
    <3>3. status'[j] \notin Runnable \cup {"none"}
      BY <2>1, <3>2, RunOnceStore
    <3>4. worker'.at \notin {"invalid", "set_running", "spawn", "wait"}
      BY <3>1, WorkerMoves DEF WorkerNext, Clears, Sound
    <3>5. \A p \in Requests : ~(Creating(req'[p]) /\ req'[p].job = j)
      BY <2>2, <3>1 DEF EnqueuedOnce
    <3> QED BY <3>3, <3>4, <3>5 DEF Over
  <2>4. CASE ~stopFlag[j]
    <3>1. Over(j)
      BY <2>4 DEF StoppedInv
    <3>2. status'[j] \notin Runnable \cup {"none"}
      BY <2>1, <3>1, RunOnceStore DEF Over
    <3>3. ASSUME worker'.job = j PROVE worker'.at \notin {"invalid", "set_running", "spawn", "wait"}
      <4>1. CASE TakeItem
        BY <4>1 DEF TakeItem, WorksOn
      <4>2. CASE ~TakeItem
        <5>1. worker.job = j
          BY <2>1, <3>3, <4>2, WorkerMoves, NoneAssumption DEF Sound
        <5>2. worker'.at \notin {"invalid", "set_running"}
          BY <3>1, <5>1, RunOnceDecides DEF Over
        <5> QED BY <3>1, <5>1, <5>2, WorkerMoves DEF Over, WorkerNext, Sound
      <4> QED BY <4>1, <4>2
    <3> QED BY <2>2, <3>1, <3>2, <3>3 DEF Over
  <2> QED BY <2>3, <2>4
<1> QED BY <1>2, <1>5, <1>6, <1>7, <1>8

\* The invariant is kept by every step.
LEMMA StopStep ==
  ASSUME StopClients
  PROVE  Sound /\ StopInv /\ [Next]_vars => StopInv'
<1>1. ASSUME StopInv, UNCHANGED vars PROVE StopInv'
  BY <1>1 DEF StopInv, StepsInv, WaitsForThreads, Live, EnqueuedOnce, Queued, DecidedInv,
     StoppedInv, Over, vars, storeVars, poolVars
<1> QED BY <1>1, ArriveStops, HandleStops, TimerStops, UploadStops, RunOnceStops DEF Next, WaitForRequest

\* A thread passes its last check of the flag in that check only, if it is not set.
LEMMA PassesWithoutFlag ==
  ASSUME TypeInv, ThreadShape, Next, NEW r \in Runs, NEW a \in Accounts,
         TAt(r, a, "stop_check"), thr'[r][a].at = "preflight"
  PROVE  ~stopFlag[runJob[r]]
<1>1. /\ thr \in [Runs -> [Accounts -> Thread]] /\ thr[r][a] \in Thread
      /\ thr'[r][a] # thr[r][a]
  BY DEF TAt, TypeInv, TypeOK
<1>2. ASSUME NEW q \in Requests, Handle(q) PROVE FALSE
  <2>1. SetPauseEvent(q)
    BY <1>1, <1>2 DEF Handle, StopFlag, StopCheck, Pause, Resume, SetStatusRead,
       SetStatusWrite, AddTimer, Enqueue, RetryRead, RetryWrite, Delete, poolVars
  <2>2. thr'[r][a] = thr[r][a]
    BY <2>1 DEF SetPauseEvent, TAt
  <2> QED BY <1>1, <2>2
<1>3. ASSUME NEW q \in Requests, NEW j \in Jobs, Arrive(q, j) PROVE FALSE
  BY <1>1, <1>3 DEF Arrive, CreatePost, StopRead, PauseRead, ResumeRead, RetryClear, DeleteRead, poolVars
<1>4. ASSUME RunOnce PROVE FALSE
  <2>1. CASE Spawn
    <3>1. thr'[r][a] \in {thr[r][a], NoThread, [NoThread EXCEPT !.at = "start"]}
      BY <1>1, <2>1 DEF Spawn
    <3> QED BY <1>1, <3>1 DEF NoThread
  <2>2. CASE ~Spawn
    <3>1. thr' = thr
      BY <1>4, <2>2, RunOnceFrame DEF TakeItem, Cleanup, poolVars
    <3> QED BY <1>1, <3>1
  <2> QED BY <2>1, <2>2
<1>5. ASSUME NEW s \in Runs, NEW b \in Accounts, Dispatch(s, b) PROVE FALSE
  <2>1. PICK n : TNet(s, b, n)
    BY <1>5 DEF Dispatch, OpenMedia, Publish, Refuse
  <2>2. thr[s][b] \in Thread /\ [thr[s][b] EXCEPT !.net = n].at = thr[s][b].at
    BY <1>1 DEF Thread
  <2>3. thr'[r][a].at = thr[r][a].at
    BY <1>1, <2>1, <2>2 DEF TNet, Becomes
  <2> QED BY <2>3 DEF TAt
<1>6. ASSUME NEW s \in Runs, NEW b \in Accounts, Upload(s, b), ~(s = r /\ b = a) PROVE FALSE
  <2>1. PICK t : Becomes(s, b, t)
    BY <1>6, UploadFrame
  <2>2. thr'[r][a] = thr[r][a]
    BY <1>1, <1>6, <2>1 DEF Becomes
  <2> QED BY <1>1, <2>2
<1>7. ASSUME Upload(r, a) PROVE ~stopFlag[runJob[r]]
  <2>1. SecondStopCheck(r, a)
    BY <1>7 DEF Upload, FirstStopCheck, PauseCheck, TestEvent, Skip, Reject,
       MarkUploading, Collect, Report, TAt
  <2>2. [thr[r][a] EXCEPT !.at = "skip"].at = "skip"
    BY <1>1 DEF Thread
  <2>3. ASSUME stopFlag[runJob[r]] PROVE FALSE
    <3>1. thr'[r][a].at = "skip"
      BY <1>1, <2>1, <2>2, <2>3 DEF SecondStopCheck, TGoto, Becomes
    <3> QED BY <3>1
  <2> QED BY <2>3
<1>8. ASSUME UNCHANGED thr PROVE FALSE
  BY <1>1, <1>8
<1> QED BY <1>2, <1>3, <1>4, <1>5, <1>6, <1>7, <1>8 DEF Next, EnqueueDueJob, WaitForRequest, vars, poolVars

\* Once a stop was accepted, no upload thread of the job starts to upload, however
\* requests, timers, runs and their clean-up interleave, as long as nobody pauses
\* or retries a job and no upload stalls outside of its timeout.  Each of these
\* hypotheses is needed: a retry clears the flag before it knows whether it will be
\* refused, and a run that is given up at its deadline, which takes a pause or a
\* stall, leaves threads behind when it clears the flag.
THEOREM StopsHold ==
  ASSUME StopClients
  PROVE  Spec => StopHolds
<1>1. Init => TypeInv /\ DeliveryInv /\ WaitingInv /\ StopInv
  BY InitType, DeliveryInit, WaitingStep, StopInit
<1>2. TypeInv /\ DeliveryInv /\ WaitingInv /\ StopInv /\ [Next]_vars
        => (TypeInv /\ DeliveryInv /\ WaitingInv /\ StopInv)'
  BY TypeStep, DeliveryStep, WaitingStep, StopStep DEF Sound, DeliveryInv
<1>3. TypeInv /\ DeliveryInv /\ StopInv /\ [Next]_vars
        => [\A r \in Runs, a \in Accounts :
              (TAt(r, a, "stop_check") /\ thr'[r][a].at = "preflight")
                => runJob[r] \notin stopAsked]_vars
  <2> SUFFICES ASSUME TypeInv, DeliveryInv, StopInv, Next, NEW r \in Runs, NEW a \in Accounts,
                      TAt(r, a, "stop_check"), thr'[r][a].at = "preflight"
               PROVE  runJob[r] \notin stopAsked
    OBVIOUS
  <2>1. ~stopFlag[runJob[r]]
    BY PassesWithoutFlag DEF DeliveryInv
  <2>2. worker.at = "wait" /\ worker.job = runJob[r]
    BY DEF StopInv, WaitsForThreads, Live, TAt
  <2> QED BY <2>1, <2>2 DEF StopInv, StoppedInv, Over
<1> QED BY <1>1, <1>2, <1>3, PTL DEF Spec, StopHolds

-----------------------------------------------------------------------------
(* The status of a finished job adds up, for such clients when they make one *)
(* request at a time.                                                        *)

OneByOne ==
  /\ StopClients /\ MaxInFlight <= 1
  /\ IsFiniteSet(Requests) /\ IsFiniteSet(Accounts)
  /\ \A j \in Jobs : Targets[j] # {}

Busy(rq) == rq.at \notin {"new", "done"}
\* The one request that is under way found its job as it is.
RequestFits ==
  /\ \A p, q \in Requests : Busy(req[p]) /\ Busy(req[q]) => p = q
  /\ \A q \in Requests : Creating(req[q]) => status[req[q].job] \in Runnable
  /\ \A q \in Requests : Busy(req[q]) /\ req[q].op = "stop" => Exists(req[q].job)

\* Results are never replaced, only updated.
OneResult ==
  /\ \A j \in Jobs : view[j] = FirstView
  /\ \A j \in Jobs, a \in Accounts : Len(cells[j][a]) = 1
  /\ worker.at \in {"sync_write", "invalid", "invalid_results"} => worker.view = FirstView
  /\ \A q \in Requests : req[q].at = "set_write" => req[q].view = FirstView

\* Until it runs the results of a job are pending.  When it has run, its status is
\* what they add up to, and the worker writes no other status: at the end of the
\* executor, when it is done with a job whose schedule does not parse, or when it
\* copies the record.
Ended == {"completed", "failed", "partial"}
Fresh(j) == \A a \in Targets[j] : Result(j, a) = "pending"
Total(j) == FinalStatus(Tally(Results(j), Targets[j]))
AddsUp ==
  /\ \A j \in Jobs : status[j] \in Ended /\ ~(worker.job = j /\ worker.at = "invalid_results")
       => status[j] = Total(j)
  /\ \A j \in Jobs : status[j] \in Runnable \cup {"none"} => Fresh(j)
  /\ worker.at = "invalid" => Fresh(worker.job)
  /\ worker.at = "invalid_results" =>
       /\ status[worker.job] \in {"failed", "stopped", "deleted"}
       /\ \A a \in Targets[worker.job] :
            Result(worker.job, a) = IF a \in worker.todo THEN "pending" ELSE "failed"
  /\ worker.at \in {"clear", "set_final"} => worker.status = Total(worker.job)
  /\ worker.at = "sync_write" /\ worker.status \in Ended => worker.status = Total(worker.job)
  /\ worker.at \in {"spawn", "wait", "tally", "clear", "set_final"} => status[worker.job] \notin Ended
  /\ worker.at \in {"except", "set_failed"} => status[worker.job] = "deleted"

SumInv == RequestFits /\ OneResult /\ AddsUp
Settles == TypeInv /\ Known /\ WaitingInv /\ StopInv /\ SumInv

LEMMA SumInit == Init => SumInv
BY TargetsAssumption
   DEF Init, StoreInit, NoRequest, Asks, IdleWorker, WorksOn, SumInv, RequestFits, OneResult, AddsUp,
   Busy, Creating, Fresh, Result, FirstView, Ended

\* What a job adds up to depends on its results.
LEMMA SameTotal ==
  ASSUME NEW j, cells'[j] = cells[j], view'[j] = view[j]
  PROVE  /\ \A a : Result(j, a)' = Result(j, a)
         /\ Total(j)' = Total(j) /\ (Fresh(j)' <=> Fresh(j))
<1>1. \A a : Result(j, a)' = Result(j, a)
  BY DEF Result
<1>2. Results(j)' = Results(j)
  BY <1>1 DEF Results
<1> QED BY <1>1, <1>2 DEF Total, Fresh

\* Results that all failed add up to a failure.
LEMMA AllFailed ==
  ASSUME OneByOne, NEW j \in Jobs, \A a \in Targets[j] : Result(j, a) = "failed"
  PROVE  Total(j) = "failed"
<1>1. Targets[j] # {} /\ Targets[j] \subseteq Accounts /\ IsFiniteSet(Targets[j])
  BY TargetsAssumption, FS_Subset DEF OneByOne
<1>2. \A a \in Targets[j] : Results(j)[a] = "failed"
  BY <1>1 DEF Results
<1>3. /\ {a \in Targets[j] : Results(j)[a] = "failed"} = Targets[j]
      /\ {a \in Targets[j] : Results(j)[a] = "success"} = {}
      /\ {a \in Targets[j] : Results(j)[a] = "skipped"} = {}
  BY <1>2
<1>4. Cardinality(Targets[j]) \in Nat /\ Cardinality(Targets[j]) # 0
  BY <1>1, FS_EmptySet, FS_CardinalityType
<1>5. Cardinality({}) = 0
  BY FS_EmptySet
<1>6. /\ Tally(Results(j), Targets[j]).failed # 0
      /\ Tally(Results(j), Targets[j]).success = 0
      /\ Tally(Results(j), Targets[j]).skipped = 0
  BY <1>3, <1>4, <1>5 DEF Tally, Count
<1> QED BY <1>6 DEF Total, FinalStatus

\* A request begins only when no other is under way.
LEMMA BeginsAlone ==
  ASSUME OneByOne, NEW q \in Requests, NEW op, NEW j, NEW at, Begin(q, op, j, at)
  PROVE  \A p \in Requests : ~Busy(req[p])
<1> DEFINE B == {p \in Requests : req[p].at \notin {"new", "done"}}
<1>1. IsFiniteSet(B)
  BY FS_Subset DEF OneByOne
<1>2. Cardinality(B) \in Nat /\ Cardinality(B) < MaxInFlight /\ MaxInFlight \in Nat
  BY <1>1, FS_CardinalityType, BoundsAssumption DEF Begin
<1>3. Cardinality(B) = 0
  BY <1>2 DEF OneByOne
<1>4. B = {}
  BY <1>1, <1>3, FS_EmptySet
<1> QED BY <1>4 DEF Busy

\* What a request read of a record is in its record when it writes it.
LEMMA HandleViews ==
  ASSUME TypeInv, OneResult, NEW q \in Requests, Handle(q), NEW p \in Requests,
         req'[p].at = "set_write"
  PROVE  req'[p].view = FirstView
<1>1. req \in [Requests -> Request] /\ req[q].job \in Jobs /\ req[q] \in Request
  BY KeepsJob DEF TypeInv, TypeOK
<1>2. CASE p = q
  <2>1. req[q].at = "set_read" /\ req'[q].at = "set_write"
    BY <1>2, HandleMoves DEF NextAt
  <2>2. SetStatusRead(q)
    BY <2>1 DEF Handle, StopFlag, SetPauseEvent, StopCheck, Pause, Resume, At,
       SetStatusWrite, AddTimer, Enqueue, RetryRead, RetryWrite, Delete
  <2>3. Finished.at = "done" /\ [req[q] EXCEPT !.at = "timer"].at = "timer"
    BY <1>1 DEF Finished, Asks, Request
  <2>4. Exists(req[q].job)
    BY <1>1, <2>1, <2>2, <2>3 DEF SetStatusRead, Goto
  <2>5. req'[q] = [req[q] EXCEPT !.at = "set_write", !.when = when[req[q].job],
                                 !.view = view[req[q].job]]
    BY <1>1, <2>2, <2>4 DEF SetStatusRead
  <2> QED BY <1>1, <1>2, <2>5 DEF Request, OneResult
<1>3. CASE p # q
  BY <1>3, HandleMoves DEF Same, OneResult
<1> QED BY <1>2, <1>3

\* Such requests touch no results.
LEMMA HandleResults ==
  ASSUME Settles, NEW q \in Requests, Handle(q), NEW j \in Jobs
  PROVE  cells' = cells /\ view'[j] = view[j]
<1> USE DEF Settles, StopInv, SumInv
<1>1. req[q].at \in Steps(req[q].op)
  BY DEF Handle, StopFlag, SetPauseEvent, StopCheck, Pause, Resume, SetStatusRead, StepsInv,
         SetStatusWrite, AddTimer, Enqueue, RetryRead, RetryWrite, Delete, At
<1>2. CASE SetStatusWrite(q)
  <2>1. req[q].view = FirstView /\ view[j] = FirstView /\ view \in [Jobs -> Views]
    BY <1>2 DEF SetStatusWrite, At, OneResult, TypeInv, TypeOK
  <2> QED BY <1>2, <2>1 DEF SetStatusWrite, PutJob
<1>3. ~(Pause(q) \/ Resume(q) \/ RetryRead(q) \/ RetryWrite(q))
  BY <1>1 DEF Pause, Resume, RetryRead, RetryWrite, At, Steps
<1> QED BY <1>2, <1>3 DEF Handle, StopFlag, RaiseStopFlag, SetPauseEvent, SetEvent, StopCheck,
           SetStatusRead, AddTimer, Enqueue, Delete, DeleteJob, storeVars, recordVars

\* A step of such a request keeps the invariant.
LEMMA HandleSums ==
  ASSUME Settles, NEW q \in Requests, Handle(q)
  PROVE  SumInv'
<1> USE DEF Settles, StopInv, SumInv
<1>1. /\ Busy(req[q]) /\ req[q].job \in Jobs /\ worker' = worker
      /\ status \in [Jobs -> JobStatus \cup {"none", "deleted"}]
  BY KeepsJob, HandleFrame DEF TypeInv, TypeOK, Handle, StopFlag, SetPauseEvent, StopCheck, Pause,
     Resume, SetStatusRead, SetStatusWrite, AddTimer, Enqueue, RetryRead, RetryWrite, Delete, At, Busy
<1>2. \A p \in Requests : p # q => Same(req[p], req'[p]) /\ ~Busy(req[p])
  BY <1>1, HandleMoves DEF RequestFits
<1>3. ASSUME NEW j \in Jobs
      PROVE  \/ status'[j] = status[j]
             \/ /\ req[q].job = j
                /\ \/ status'[j] = "deleted" /\ ~Creating(req[q])
                   \/ status'[j] = "stopped" /\ req[q].op = "stop"
                   \/ status'[j] = "scheduled" /\ Creating(req[q])
  BY HandleStore
<1>4. RequestFits'
  <2>1. \A p, s \in Requests : Busy(req'[p]) /\ Busy(req'[s]) => p = s
    BY <1>2 DEF Busy, Same
  <2>2. ASSUME NEW p \in Requests, Creating(req'[p]) PROVE status'[req'[p].job] \in Runnable
    <3>1. p = q /\ Creating(req[q]) /\ req'[p].job = req[q].job
      BY <1>2, <2>2, HandleCreating DEF Busy, Creating
    <3>2. status[req[q].job] \in Runnable
      BY <3>1 DEF RequestFits
    <3>3. "scheduled" \in Runnable /\ (Creating(req[q]) => req[q].op # "stop")
      BY DEF Runnable, Creating
    <3> QED BY <1>1, <1>3, <3>1, <3>2, <3>3
  <2>3. ASSUME NEW p \in Requests, Busy(req'[p]), req'[p].op = "stop"
        PROVE  status'[req'[p].job] \in JobStatus
    <3>1. p = q
      BY <1>2, <2>3 DEF Busy, Same
    <3>2. req'[q].job = req[q].job /\ req[q].op = "stop"
      BY <2>3, <3>1, HandleMoves DEF Moved, Busy
    <3>3. status[req[q].job] \in JobStatus
      BY <1>1, <3>2 DEF RequestFits, Exists
    <3>4. status'[req[q].job] # "deleted" \/ status'[req[q].job] = status[req[q].job]
      <4>1. req[q].at # "delete"
        BY <1>1, <3>2 DEF StepsInv, Busy, Steps
      <4>2. ~Delete(q)
        BY <4>1 DEF Delete, At
      <4>3. status'[req[q].job] \in {status[req[q].job], StatusOf(req[q].op)}
        BY <1>1, <3>2, <4>2 DEF Handle, StopFlag, RaiseStopFlag, SetPauseEvent, SetEvent,
           StopCheck, Pause, RequestPause, Resume, SetStatusRead, AddTimer, Enqueue, RetryRead,
           storeVars, recordVars, SetStatusWrite, PutJob, RetryWrite, StepsInv, Steps, Busy, At
      <4> QED BY <3>2, <4>3 DEF StatusOf
    <3> QED BY <1>1, <1>3, <3>1, <3>2, <3>3, <3>4 DEF JobStatus
  <2> QED BY <2>1, <2>2, <2>3 DEF RequestFits, Exists
<1>5. /\ cells' = cells /\ \A j \in Jobs : view'[j] = view[j]
  BY <1>1, HandleResults
<1>6. OneResult'
  BY <1>1, <1>5, HandleViews DEF OneResult
<1>7. \A j \in Jobs : Total(j)' = Total(j) /\ (Fresh(j)' <=> Fresh(j)) /\ \A a : Result(j, a)' = Result(j, a)
  BY <1>5, SameTotal
<1>8. worker.at # "idle" => worker.job \in Jobs
  BY DEF TypeInv, HasJob
<1>9. Creating(req[q]) => worker.job # req[q].job /\ status[req[q].job] \in Runnable
  BY DEF EnqueuedOnce, RequestFits
<1>10. worker.at \in {"except", "set_failed"} => status'[worker.job] = "deleted"
  <2> SUFFICES ASSUME worker.at \in {"except", "set_failed"} PROVE status'[worker.job] = "deleted"
    OBVIOUS
  <2>1. worker.job \in Jobs /\ status[worker.job] = "deleted"
    BY <1>8 DEF AddsUp
  <2>2. req[q].op = "stop" => req[q].job # worker.job
    BY <1>1, <2>1 DEF RequestFits, Exists, JobStatus
  <2> QED BY <1>3, <1>9, <2>1, <2>2
<1>11. AddsUp'
  <2>1. \A j \in Jobs : status'[j] \in Ended => status'[j] = status[j]
    BY <1>3 DEF Ended
  <2>2. \A j \in Jobs : status'[j] \in Runnable \cup {"none"} => status[j] \in Runnable \cup {"none"}
    BY <1>3, <1>9 DEF Runnable
  <2>3. worker.at = "invalid_results" => status'[worker.job] \in {"failed", "stopped", "deleted"}
    BY <1>3, <1>8, <1>9 DEF AddsUp
  <2> QED BY <1>1, <1>7, <1>8, <1>10, <2>1, <2>2, <2>3 DEF AddsUp
<1> QED BY <1>4, <1>6, <1>11

\* A request that arrives keeps it.
LEMMA ArriveSums ==
  ASSUME OneByOne, Settles, NEW q \in Requests, NEW i \in Jobs, Arrive(q, i)
  PROVE  SumInv'
<1> USE DEF Settles, StopInv, SumInv
<1>1. (\E w \in Whens : CreatePost(q, i, w)) \/ StopRead(q, i) \/ DeleteRead(q, i)
  BY DEF Arrive, PauseRead, ResumeRead, RetryClear, Begin, OneByOne, StopClients
<1>2. /\ req \in [Requests -> Request]
      /\ status \in [Jobs -> JobStatus \cup {"none", "deleted"}]
      /\ view \in [Jobs -> Views]
      /\ worker' = worker /\ cells' = cells
  BY <1>1 DEF CreatePost, PutJob, StopRead, DeleteRead, TypeInv, TypeOK, storeVars
<1>3. \A p \in Requests : ~Busy(req[p])
  BY <1>1, BeginsAlone DEF CreatePost, StopRead, DeleteRead
<1>4. PICK op, at : /\ req' = [req EXCEPT ![q] = Asks(op, i, at)]
                    /\ at # "set_write"
                    /\ op = "create" => status[i] = "none" /\ status'[i] \in Runnable
                    /\ op # "create" => status' = status /\ view' = view
                    /\ op = "stop" => status[i] \in JobStatus
                    /\ \A j \in Jobs : j # i => status'[j] = status[j]
                    /\ \A j \in Jobs : view'[j] = view[j]
  <2>1. ASSUME NEW w \in Whens, CreatePost(q, i, w)
        PROVE  /\ req' = [req EXCEPT ![q] = Asks("create", i, IF w = "future" THEN "set_read" ELSE "enqueue")]
               /\ status[i] = "none" /\ status'[i] \in Runnable
               /\ \A j \in Jobs : j # i => status'[j] = status[j]
               /\ \A j \in Jobs : view'[j] = view[j]
    BY <1>2, <2>1 DEF CreatePost, PutJob, Begin, Runnable
  <2>2. CASE \E w \in Whens : CreatePost(q, i, w)
    <3>1. PICK w \in Whens : CreatePost(q, i, w)
      BY <2>2
    <3>2. (IF w = "future" THEN "set_read" ELSE "enqueue") # "set_write"
      OBVIOUS
    <3>3. "create" # "stop"
      OBVIOUS
    <3> QED BY <2>1, <3>1, <3>2, <3>3
  <2>3. CASE StopRead(q, i)
    <3>1. req' = [req EXCEPT ![q] = Asks("stop", i, "stop_flag")] /\ UNCHANGED <<status, view>>
          /\ status[i] \in JobStatus
      BY <2>3 DEF StopRead, Begin, storeVars, Stoppable, JobStatus
    <3>2. "stop" # "create" /\ "stop_flag" # "set_write"
      OBVIOUS
    <3> QED BY <3>1, <3>2
  <2>4. CASE DeleteRead(q, i)
    <3>1. req' = [req EXCEPT ![q] = Asks("delete", i, "delete")] /\ UNCHANGED <<status, view>>
      BY <2>4 DEF DeleteRead, Begin, storeVars
    <3>2. "delete" # "create" /\ "delete" # "set_write" /\ "delete" # "stop"
      OBVIOUS
    <3> QED BY <3>1, <3>2
  <2> QED BY <1>1, <2>2, <2>3, <2>4
<1>5. /\ req'[q].at = at /\ req'[q].op = op /\ req'[q].job = i
      /\ \A p \in Requests : p # q => req'[p] = req[p]
  BY <1>2, <1>4 DEF Asks
<1>6. RequestFits'
  BY <1>3, <1>4, <1>5 DEF RequestFits, Busy, Creating, Exists
<1>7. OneResult'
  BY <1>2, <1>4, <1>5 DEF OneResult
<1>8. \A j \in Jobs : Total(j)' = Total(j) /\ (Fresh(j)' <=> Fresh(j)) /\ \A a : Result(j, a)' = Result(j, a)
  BY <1>2, <1>4, SameTotal
<1>9. worker.at # "idle" => worker.job \in Jobs /\ status[worker.job] # "none"
  BY DEF TypeInv, HasJob, Known
<1>10. \A j \in Jobs : status'[j] = status[j] \/ (j = i /\ status[j] = "none" /\ status'[j] \in Runnable)
  BY <1>4
<1>11. AddsUp'
  BY <1>2, <1>8, <1>9, <1>10 DEF AddsUp, Ended, Runnable
<1> QED BY <1>6, <1>7, <1>11

\* So does a timer.
LEMMA TimerSums ==
  ASSUME Settles, NEW i \in Jobs, EnqueueDueJob(i)
  PROVE  SumInv'
<1>1. UNCHANGED <<status, view, cells, req, worker>>
  BY DEF EnqueueDueJob, storeVars
<1>2. \A j \in Jobs : Total(j)' = Total(j) /\ (Fresh(j)' <=> Fresh(j)) /\ \A a : Result(j, a)' = Result(j, a)
  BY <1>1, SameTotal
<1>3. RequestFits'
  BY <1>1 DEF Settles, SumInv, RequestFits, Exists
<1>4. OneResult'
  BY <1>1 DEF Settles, SumInv, OneResult
<1>5. AddsUp'
  BY <1>1, <1>2 DEF Settles, SumInv, AddsUp, TypeInv, HasJob
<1> QED BY <1>3, <1>4, <1>5 DEF SumInv

\* A result is written only while the worker waits for the upload threads.
LEMMA UploadSums ==
  ASSUME OneByOne, Settles, NEW r \in Runs, NEW a \in Accounts, Upload(r, a) \/ Dispatch(r, a)
  PROVE  SumInv'
<1> USE DEF Settles, StopInv, SumInv
<1>1. /\ UNCHANGED <<status, view, req, worker>>
      /\ cells' = cells \/ \E s : cells' = [cells EXCEPT ![runJob[r]][a][view[runJob[r]][a]] = s]
  BY DEF Upload, FirstStopCheck, PauseCheck, TestEvent, SecondStopCheck, Skip, Reject,
       MarkUploading, Collect, Report, Write, UpdateResult, Dispatch, OpenMedia, Publish, Refuse,
       ThreadOnly, storeVars
<1>2. CASE cells' = cells
  <2>1. \A j \in Jobs : Total(j)' = Total(j) /\ (Fresh(j)' <=> Fresh(j)) /\ \A b : Result(j, b)' = Result(j, b)
    BY <1>1, <1>2, SameTotal
  <2>2. RequestFits' /\ OneResult'
    BY <1>1, <1>2 DEF RequestFits, OneResult, Exists
  <2>3. AddsUp'
    BY <1>1, <1>2, <2>1 DEF AddsUp, TypeInv, HasJob
  <2> QED BY <2>2, <2>3
<1>3. CASE cells' # cells
  <2>1. Live(r, a)
    BY <1>3 DEF Upload, FirstStopCheck, PauseCheck, TestEvent, SecondStopCheck, Skip, Reject,
       MarkUploading, Collect, Report, Dispatch, OpenMedia, Publish, Refuse, ThreadOnly, storeVars,
       TAt, Live
  <2>2. worker.at = "wait" /\ runJob[r] = worker.job /\ worker.job \in Jobs
    BY <2>1 DEF WaitsForThreads, TypeInv, HasJob
  <2>3. /\ status[worker.job] \notin Ended
        /\ status[worker.job] \notin Runnable \cup {"none"}
    BY <2>2 DEF AddsUp, DecidedInv, Ahead, Known
  <2>4. view[worker.job][a] = 1
    BY <2>2 DEF OneResult, FirstView
  <2>5. PICK s : cells' = [cells EXCEPT ![worker.job][a][1] = s]
    BY <1>1, <1>3, <2>2, <2>4
  <2>6. cells \in [Jobs -> [Accounts -> Seq(ResultStatus)]]
    BY DEF TypeInv, TypeOK
  <2>7. \A j \in Jobs : j # worker.job => cells'[j] = cells[j]
    BY <2>5, <2>6
  <2>8. \A j \in Jobs, b \in Accounts : Len(cells'[j][b]) = 1
    <3>1. cells[worker.job][a] \in Seq(ResultStatus) /\ Len(cells[worker.job][a]) = 1
      BY <2>2, <2>6 DEF OneResult
    <3>2. cells'[worker.job][a] = [cells[worker.job][a] EXCEPT ![1] = s]
      BY <2>2, <2>5, <2>6
    <3>3. Len(cells'[worker.job][a]) = 1
      BY <3>1, <3>2
    <3>4. \A b \in Accounts : b # a => cells'[worker.job][b] = cells[worker.job][b]
      BY <2>2, <2>5, <2>6
    <3> QED BY <2>2, <2>7, <3>3, <3>4 DEF OneResult
  <2>9. \A j \in Jobs : j # worker.job =>
          Total(j)' = Total(j) /\ (Fresh(j)' <=> Fresh(j)) /\ \A b : Result(j, b)' = Result(j, b)
    BY <1>1, <2>7, SameTotal
  <2>10. OneResult'
    BY <1>1, <2>8 DEF OneResult
  <2>11. AddsUp'
    BY <1>1, <2>2, <2>3, <2>9 DEF AddsUp
  <2> QED BY <1>1, <2>10, <2>11 DEF RequestFits, Exists
<1> QED BY <1>2, <1>3

\* The worker writes statuses, not views, and results only for a schedule that
\* does not parse.
LEMMA RunOnceWrites ==
  ASSUME Settles, RunOnce, NEW j \in Jobs
  PROVE  /\ view'[j] = view[j]
         /\ status'[j] = status[j] \/ status'[j] \in JobStatus
         /\ ~InvalidResult => cells' = cells
<1>1. worker.status \in JobStatus /\ view \in [Jobs -> Views]
      /\ status \in [Jobs -> JobStatus \cup {"none", "deleted"}]
  BY DEF Settles, TypeInv, TypeOK, Worker
<1>2. {"failed", "running", "completed"} \subseteq JobStatus
  BY DEF JobStatus
<1>3. CASE SyncWrite
  <2>1. worker.view = FirstView /\ view[j] = FirstView
    BY <1>3 DEF SyncWrite, WAt, Settles, SumInv, OneResult
  <2> QED BY <1>1, <1>3, <2>1 DEF SyncWrite, PutJob, InvalidResult, WAt
<1>4. CASE InvalidStatus \/ SetRunning \/ NoAccounts \/ SetFinal \/ ExceptSetFailed
  BY <1>1, <1>2, <1>4 DEF InvalidStatus, SetRunning, NoAccounts, SetFinal, ExceptSetFailed,
     SetJobStatus, storeVars, InvalidResult, WAt
<1>5. CASE InvalidResult
  BY <1>5 DEF InvalidResult, UpdateResult, storeVars
<1>6. ~StalledWrite
  BY DEF StalledWrite, WAt, Settles, StopInv, WaitsForThreads
<1>7. CASE TakeItem \/ CheckRunnable \/ SkipClear \/ RunRead \/ RunClear \/ Spawn \/ NoAccountsClear
           \/ UploadsDone \/ OuterDeadline \/ StalledRead \/ TallyResults \/ Clear \/ ExceptClear
           \/ Cleanup \/ SyncRead
  BY <1>7 DEF TakeItem, CheckRunnable, SkipClear, RunRead, RunClear, Spawn, NoAccountsClear,
     UploadsDone, OuterDeadline, StalledRead, TallyResults, Clear, ExceptClear, Cleanup, SyncRead,
     ClearControl, recordVars, storeVars
<1> QED BY <1>3, <1>4, <1>5, <1>6, <1>7 DEF RunOnce

\* No request is disturbed by the worker.
LEMMA RunOnceFits ==
  ASSUME Settles, RunOnce
  PROVE  RequestFits' /\ \A q \in Requests : req'[q].at = "set_write" => req'[q].view = FirstView
<1> USE DEF Settles, StopInv, SumInv
<1>1. req \in [Requests -> Request] /\ status \in [Jobs -> JobStatus \cup {"none", "deleted"}]
  BY DEF TypeInv, TypeOK
<1>2. \A p \in Requests : Same(req[p], req'[p])
  <2>1. CASE SyncWrite
    BY <1>1, <2>1, OrphanSame DEF SyncWrite
  <2>2. CASE ~SyncWrite
    BY <2>2 DEF Same, RunOnce, TakeItem, CheckRunnable, SkipClear, RunRead,
         RunClear, InvalidStatus, InvalidResult, SetRunning, Spawn, NoAccounts, NoAccountsClear,
         UploadsDone, OuterDeadline, StalledRead, StalledWrite, TallyResults, Clear, SetFinal,
         ExceptClear, ExceptSetFailed, Cleanup, SyncRead
  <2> QED BY <2>1, <2>2
<1>3. ASSUME NEW p \in Requests, Creating(req'[p]) PROVE status'[req'[p].job] \in Runnable
  <2>1. Creating(req[p]) /\ req'[p].job = req[p].job
    BY <1>2, <1>3 DEF Same, Creating
  <2>2. req[p].job # worker.job /\ status[req[p].job] \in Runnable /\ req[p].job \in Jobs
    BY <2>1 DEF EnqueuedOnce, RequestFits, TypeInv, HasJob, AtWork, Creating
  <2> QED BY <2>1, <2>2, RunOnceStore DEF Sound
<1>4. ASSUME NEW p \in Requests, Busy(req'[p]), req'[p].op = "stop" PROVE status'[req'[p].job] \in JobStatus
  <2>1. Busy(req[p]) /\ req[p].op = "stop" /\ req'[p].job = req[p].job
    BY <1>2, <1>4 DEF Same, Busy
  <2>2. status[req[p].job] \in JobStatus /\ req[p].job \in Jobs
    BY <2>1 DEF RequestFits, Exists, TypeInv, HasJob, AtWork, Busy
  <2> QED BY <2>1, <2>2, RunOnceWrites
<1>5. \A p, s \in Requests : Busy(req'[p]) /\ Busy(req'[s]) => p = s
  BY <1>2 DEF Same, Busy, RequestFits
<1> QED BY <1>2, <1>3, <1>4, <1>5 DEF RequestFits, Exists, Same, OneResult

\* Nor does it replace a result.
LEMMA RunOnceResults ==
  ASSUME Settles, RunOnce
  PROVE  OneResult'
<1> USE DEF Settles, StopInv, SumInv
<1>1. /\ worker \in Worker /\ view \in [Jobs -> Views]
      /\ (worker.at # "idle" => worker.job \in Jobs)
      /\ cells \in [Jobs -> [Accounts -> Seq(ResultStatus)]]
  BY DEF TypeInv, TypeOK, HasJob
<1>2. \A j \in Jobs, a \in Accounts : Len(cells'[j][a]) = 1
  <2>1. CASE cells' = cells
    BY <2>1 DEF OneResult
  <2>2. CASE cells' # cells
    <3>1. InvalidResult
      BY <2>2, <1>1, RunOnceWrites DEF RunOnce, TakeItem, CheckRunnable, SkipClear, RunRead,
         RunClear, InvalidStatus, SetRunning, Spawn, NoAccounts, NoAccountsClear, StalledWrite,
         UploadsDone, OuterDeadline, StalledRead, TallyResults, Clear, SetFinal, WaitsForThreads,
         ExceptClear, ExceptSetFailed, Cleanup, SyncRead, SyncWrite, SetJobStatus, PutJob,
         ClearControl, recordVars, storeVars, WAt
    <3>2. PICK a \in Accounts : cells' = [cells EXCEPT ![worker.job][a][view[worker.job][a]] = "failed"]
      BY <1>1, <2>2, <3>1 DEF InvalidResult, UpdateResult, storeVars, Worker
    <3>3. worker.job \in Jobs /\ view[worker.job][a] = 1
      BY <1>1, <3>1 DEF InvalidResult, WAt, OneResult, FirstView
    <3>4. cells[worker.job][a] \in Seq(ResultStatus) /\ Len(cells[worker.job][a]) = 1
      BY <1>1, <3>3 DEF OneResult
    <3>5. cells'[worker.job][a] = [cells[worker.job][a] EXCEPT ![1] = "failed"]
      BY <1>1, <3>2, <3>3
    <3>6. Len(cells'[worker.job][a]) = 1
      BY <3>4, <3>5
    <3>7. \A j \in Jobs, b \in Accounts : (j # worker.job \/ b # a) => cells'[j][b] = cells[j][b]
      BY <1>1, <3>2, <3>3
    <3> QED BY <3>6, <3>7 DEF OneResult
  <2> QED BY <2>1, <2>2
<1>3. worker'.at \in {"sync_write", "invalid", "invalid_results"} => worker'.view = FirstView
  <2>1. worker'.at \in WorkerNext(worker.at)
    BY WorkerMoves
  <2>2. CASE RunRead
    <3>1. worker.job \in Jobs /\ view[worker.job] = FirstView
      BY <1>1, <2>2 DEF RunRead, WAt, OneResult
    <3>2. CASE worker' = [worker EXCEPT !.at = "invalid", !.view = view[worker.job]]
      BY <1>1, <3>1, <3>2 DEF Worker
    <3>3. CASE \E at \in {"run_clear", "sync_read", "set_running"} : worker' = [worker EXCEPT !.at = at]
      BY <1>1, <3>3 DEF Worker
    <3> QED BY <2>2, <3>2, <3>3 DEF RunRead
  <2>3. CASE SyncRead
    <3>1. worker.job \in Jobs /\ view[worker.job] = FirstView
      BY <1>1, <2>3 DEF SyncRead, WAt, OneResult
    <3> QED BY <1>1, <2>3, <3>1 DEF SyncRead, IdleWorker, WorksOn, Worker
  <2>4. CASE InvalidStatus
    BY <1>1, <2>4 DEF InvalidStatus, WAt, WGoto, Worker, OneResult
  <2>5. CASE InvalidResult
    BY <1>1, <2>5 DEF InvalidResult, WAt, WGoto, Worker, OneResult
  <2>6. CASE worker.at \notin {"run", "sync_read", "invalid", "invalid_results"}
    BY <2>1, <2>6 DEF WorkerNext
  <2> QED BY <2>2, <2>3, <2>4, <2>5, <2>6 DEF RunOnce, TakeItem, CheckRunnable, SkipClear,
         RunClear, SetRunning, Spawn, NoAccounts, NoAccountsClear, StalledWrite,
         UploadsDone, OuterDeadline, StalledRead, TallyResults, Clear, SetFinal,
         ExceptClear, ExceptSetFailed, Cleanup, SyncWrite, WAt
<1> QED BY <1>2, <1>3, RunOnceWrites, RunOnceFits DEF OneResult

\* An account of a job whose schedule does not parse fails, and no other result
\* is touched.
LEMMA InvalidResultSums ==
  ASSUME OneByOne, Settles, InvalidResult
  PROVE  AddsUp'
<1> DEFINE i == worker.job
<1> USE DEF Settles, StopInv, SumInv
<1>1. /\ worker \in Worker /\ i \in Jobs /\ worker.at = "invalid_results" /\ worker.view = FirstView
      /\ view \in [Jobs -> Views] /\ view[i] = FirstView
      /\ cells \in [Jobs -> [Accounts -> Seq(ResultStatus)]]
      /\ status \in [Jobs -> JobStatus \cup {"none", "deleted"}]
      /\ status[i] \in {"failed", "stopped", "deleted"}
  BY DEF InvalidResult, WAt, TypeInv, TypeOK, HasJob, OneResult, AddsUp
<1>2. RunOnce
  BY DEF RunOnce
<1>3. status' = status /\ \A j \in Jobs : view'[j] = view[j]
  BY <1>2, RunOnceWrites DEF InvalidResult, UpdateResult, storeVars
<1>4. worker'.at \in {"invalid_results", "run_clear", "sync_read"} /\ worker'.job = i
  <2>1. worker'.at \in {"invalid_results", "run_clear", "sync_read"}
    BY <1>1, <1>2, WorkerMoves DEF WorkerNext
  <2> QED BY <1>1, <1>2, <2>1, WorkerMoves DEF TakeItem, WAt
<1>5. ASSUME NEW j \in Jobs, cells'[j] = cells[j]
      PROVE  Total(j)' = Total(j) /\ (Fresh(j)' <=> Fresh(j)) /\ \A b : Result(j, b)' = Result(j, b)
  BY <1>3, <1>5, SameTotal
<1>6. \A j \in Jobs : j # i => cells'[j] = cells[j]
  BY <1>1 DEF InvalidResult, UpdateResult, storeVars
<1>7. \A j \in Jobs : j # i =>
         /\ status'[j] \in Ended => status'[j] = Total(j)'
         /\ status'[j] \in Runnable \cup {"none"} => Fresh(j)'
  BY <1>1, <1>3, <1>5, <1>6 DEF AddsUp
<1>8. status'[i] \notin Runnable \cup {"none"}
  BY <1>1, <1>3 DEF Runnable
<1>9. CASE worker.todo = {}
  <2>1. worker'.at = "run_clear" /\ cells' = cells
    BY <1>1, <1>9 DEF InvalidResult, WGoto, storeVars, Worker
  <2>2. status[i] = "failed" => Total(i) = "failed"
    BY <1>1, <1>9, AllFailed DEF AddsUp
  <2>3. \A j \in Jobs : j = i /\ status'[j] \in Ended => status'[j] = Total(j)'
    BY <1>1, <1>3, <1>5, <2>1, <2>2 DEF Ended
  <2> QED BY <1>4, <1>7, <1>8, <2>1, <2>3 DEF AddsUp
<1>10. CASE worker.todo # {} /\ worker'.at = "sync_read"
  <2>1. ~Exists(i)
    BY <1>1, <1>10 DEF InvalidResult, Worker
  <2>2. status'[i] \notin Ended
    BY <1>1, <1>3, <2>1 DEF Exists, Ended, JobStatus
  <2> QED BY <1>4, <1>7, <1>8, <1>10, <2>2 DEF AddsUp
<1>11. CASE worker.todo # {} /\ worker'.at # "sync_read"
  <2>1. PICK a \in worker.todo :
          /\ worker' = [worker EXCEPT !.todo = @ \ {a}]
          /\ IF Exists(i) /\ ~(cells[i][a][worker.view[a]] = "success")
             THEN UpdateResult(i, a, "failed") ELSE UNCHANGED storeVars
          /\ cells[i][a][worker.view[a]] = "success" \/ Exists(i)
    <3>1. PICK a \in worker.todo :
            LET kept == cells[i][a][worker.view[a]] = "success" IN
            /\ IF kept \/ Exists(i) THEN worker' = [worker EXCEPT !.todo = @ \ {a}]
               ELSE WGoto("sync_read")
            /\ IF Exists(i) /\ ~kept THEN UpdateResult(i, a, "failed")
               ELSE UNCHANGED storeVars
      BY <1>11 DEF InvalidResult
    <3>2. ~WGoto("sync_read")
      BY <1>1, <1>11 DEF WGoto, Worker
    <3> QED BY <3>1, <3>2
  <2>2. worker'.at = "invalid_results" /\ worker'.todo = worker.todo \ {a} /\ a \in Accounts
    BY <1>1, <2>1 DEF Worker
  <2>3. \A b \in Accounts : worker.view[b] = 1 /\ view[i][b] = 1 /\ view'[i][b] = 1
    BY <1>1, <1>3 DEF FirstView
  <2>4. cells[i][a] \in Seq(ResultStatus) /\ Len(cells[i][a]) = 1 /\ 1 \in DOMAIN cells[i][a]
    BY <1>1, <2>2 DEF OneResult
  <2>5. ASSUME a \in Targets[i] PROVE cells'[i][a][1] = "failed"
    <3>1. cells[i][a][1] = "pending"
      BY <1>1, <2>1, <2>3, <2>5, TargetsAssumption DEF AddsUp, Result
    <3>2. UpdateResult(i, a, "failed")
      BY <2>1, <2>2, <2>3, <3>1
    <3>3. cells'[i][a] = [cells[i][a] EXCEPT ![1] = "failed"]
      BY <1>1, <2>2, <2>3, <3>2 DEF UpdateResult
    <3> QED BY <2>4, <3>3
  <2>6. \A b \in Accounts : b # a => cells'[i][b] = cells[i][b]
    BY <1>1, <2>1, <2>2 DEF UpdateResult, storeVars
  <2>7. \A b \in Targets[i] :
          Result(i, b)' = IF b \in worker'.todo THEN "pending" ELSE "failed"
    <3> TAKE b \in Targets[i]
    <3>1. b \in Accounts
      BY <1>1, TargetsAssumption
    <3>2. Result(i, b)' = cells'[i][b][1] /\ Result(i, b) = cells[i][b][1]
      BY <1>4, <2>3, <3>1 DEF Result
    <3>3. Result(i, b) = IF b \in worker.todo THEN "pending" ELSE "failed"
      BY <1>1 DEF AddsUp
    <3> QED BY <2>2, <2>5, <2>6, <3>1, <3>2, <3>3
  <2>8. /\ worker'.at = "invalid_results" /\ worker'.job = i
        /\ status'[worker'.job] \in {"failed", "stopped", "deleted"}
    BY <1>1, <1>3, <1>4, <2>2
  <2> QED BY <1>4, <1>7, <1>8, <2>7, <2>8 DEF AddsUp
<1> QED BY <1>4, <1>9, <1>10, <1>11

\* The worker writes a status that ends a job only when the results add up to it.
LEMMA RunOnceSums ==
  ASSUME OneByOne, Settles, RunOnce
  PROVE  AddsUp'
<1> DEFINE i == worker.job
<1> USE DEF Settles, StopInv, SumInv
<1>1. /\ worker \in Worker /\ (worker.at # "idle" => i \in Jobs /\ status[i] # "none")
      /\ status \in [Jobs -> JobStatus \cup {"none", "deleted"}]
      /\ worker.status \in JobStatus /\ "deleted" \notin Ended /\ "running" \notin Ended
      /\ "none" \notin JobStatus /\ "deleted" \notin JobStatus
  BY DEF TypeInv, TypeOK, HasJob, Known, Worker, JobStatus, Ended
<1>2. worker'.at \in WorkerNext(worker.at)
  BY WorkerMoves
<1>3. worker'.at = "idle" \/ worker'.at = "check" \/ worker'.job = i
  BY WorkerMoves DEF TakeItem, WorksOn
<1> SUFFICES ASSUME ~InvalidResult PROVE AddsUp'
  BY InvalidResultSums
<1>4. \A j \in Jobs : Total(j)' = Total(j) /\ (Fresh(j)' <=> Fresh(j)) /\ \A b : Result(j, b)' = Result(j, b)
  BY RunOnceWrites, SameTotal
<1>5. worker.at \notin {"invalid_results", "stalled", "stalled_write"}
  BY DEF RunOnce, TakeItem, CheckRunnable, SkipClear, RunRead, RunClear, InvalidStatus,
     SetRunning, Spawn, NoAccounts, NoAccountsClear, UploadsDone, OuterDeadline, StalledRead,
     StalledWrite, TallyResults, Clear, SetFinal, ExceptClear, ExceptSetFailed, Cleanup,
     SyncRead, SyncWrite, WAt, WaitsForThreads
\* What is known of all jobs, and what the worker has to know to be where it is.
<1> DEFINE All == \A j \in Jobs :
                    /\ status'[j] \in Ended => status'[j] = Total(j)
                    /\ status'[j] \in Runnable \cup {"none"} => Fresh(j)
<1>6. ASSUME All,
             worker'.at \in {"invalid", "invalid_results", "clear", "set_final", "sync_write",
                             "spawn", "wait", "tally", "except", "set_failed"} => i \in Jobs,
             worker'.at = "invalid" => Fresh(i),
             worker'.at # "invalid_results",
             worker'.at \in {"clear", "set_final"} => worker'.status = Total(i),
             worker'.at = "sync_write" /\ worker'.status \in Ended => worker'.status = Total(i),
             worker'.at \in {"spawn", "wait", "tally", "clear", "set_final"} => status'[i] \notin Ended,
             worker'.at \in {"except", "set_failed"} => status'[i] = "deleted"
      PROVE  AddsUp'
  BY <1>3, <1>4, <1>6 DEF AddsUp
<1>7. ASSUME status' = status PROVE All
  BY <1>5, <1>7 DEF AddsUp
<1>8. ASSUME NEW s \in JobStatus, i \in Jobs, s \in Ended => s = Total(i), s \notin Runnable,
             status' = [status EXCEPT ![i] = s]
      PROVE  All
  BY <1>1, <1>5, <1>8 DEF AddsUp
<1> HIDE DEF All
<1>9. CASE TakeItem \/ CheckRunnable \/ SkipClear \/ RunClear \/ NoAccountsClear \/ Cleanup
  <2>1. status' = status
    BY <1>9 DEF TakeItem, CheckRunnable, SkipClear, RunClear, NoAccountsClear, Cleanup, ClearControl,
       recordVars, storeVars
  <2>2. worker'.at \in {"idle", "check", "skip_clear", "run", "sync_read", "cleanup"}
    BY <1>2, <1>9 DEF TakeItem, CheckRunnable, SkipClear, RunClear, NoAccountsClear, Cleanup, WAt, WorkerNext
  <2> QED BY <1>6, <1>7, <2>1, <2>2
<1>10. CASE RunRead
  <2>1. status' = status /\ worker.at = "run" /\ worker'.at \in {"run_clear", "sync_read", "invalid", "set_running"}
    BY <1>2, <1>10 DEF RunRead, storeVars, WAt, WorkerNext
  <2>2. worker'.at = "invalid" => Fresh(i)
    BY <1>1, <2>1, RunOnceDecides DEF Sound, AddsUp
  <2> QED BY <1>1, <1>6, <1>7, <2>1, <2>2
<1>11. CASE InvalidStatus
  <2>1. worker.at = "invalid" /\ i \in Jobs /\ Fresh(i) /\ worker'.at \in {"invalid_results", "sync_read"}
    BY <1>1, <1>2, <1>11 DEF InvalidStatus, WAt, AddsUp, WorkerNext
  <2>2. CASE ~Exists(i)
    <3>1. status' = status /\ worker'.at = "sync_read"
      BY <1>1, <1>11, <2>2 DEF InvalidStatus, storeVars, WGoto, Worker
    <3> QED BY <1>6, <1>7, <3>1
  <2>3. CASE Exists(i)
    <3>1. /\ status' = [status EXCEPT ![i] = "failed"]
          /\ worker'.at = "invalid_results" /\ worker'.job = i /\ worker'.todo = Targets[i]
      BY <1>1, <1>11, <2>3 DEF InvalidStatus, SetJobStatus, Worker
    <3>2. \A j \in Jobs : j # i => status'[j] = status[j]
      BY <1>1, <3>1
    <3>3. status'[i] = "failed" /\ "failed" \notin Runnable \cup {"none"}
      BY <1>1, <2>1, <3>1 DEF Runnable
    <3>4. \A b \in Targets[i] : Result(i, b) = "pending"
      BY <2>1 DEF Fresh
    <3>5. \A j \in Jobs : j = i => \A b \in Targets[j] :
            Result(j, b)' = "pending" /\ b \in worker'.todo
      BY <1>4, <2>1, <3>1, <3>4
    <3>6. /\ worker'.at = "invalid_results" /\ worker'.job = i /\ i \in Jobs
          /\ status'[worker'.job] = "failed"
          /\ \A j \in Jobs : j # i =>
               /\ status'[j] \in Ended => status'[j] = Total(j)'
               /\ status'[j] \in Runnable \cup {"none"} => Fresh(j)'
      BY <1>4, <1>5, <2>1, <3>1, <3>2, <3>3 DEF AddsUp
    <3> QED BY <3>3, <3>5, <3>6 DEF AddsUp
  <2> QED BY <2>2, <2>3
<1>12. CASE SetRunning
  <2>1. worker.at = "set_running" /\ i \in Jobs /\ worker'.at \in {"spawn", "sync_read"}
    BY <1>1, <1>2, <1>12 DEF SetRunning, WAt, WorkerNext
  <2>2. CASE ~Exists(i)
    <3>1. status' = status /\ worker'.at = "sync_read"
      BY <1>1, <1>12, <2>2 DEF SetRunning, storeVars, WGoto, Worker
    <3> QED BY <1>6, <1>7, <3>1
  <2>3. CASE Exists(i)
    <3>1. status' = [status EXCEPT ![i] = "running"] /\ "running" \in JobStatus \ Runnable
      BY <1>12, <2>3 DEF SetRunning, SetJobStatus, JobStatus, Runnable
    <3>2. status'[i] = "running"
      BY <1>1, <2>1, <3>1
    <3> QED BY <1>1, <1>6, <1>8, <2>1, <3>1, <3>2
  <2> QED BY <2>2, <2>3
<1>13. CASE Spawn \/ UploadsDone \/ Clear
  <2>1. /\ status' = status /\ i \in Jobs /\ worker'.status = worker.status
        /\ worker.at \in {"spawn", "wait", "clear"} /\ worker'.at \in {"wait", "tally", "set_final"}
        /\ worker'.at = "set_final" => worker.at = "clear"
    BY <1>1, <1>13 DEF Spawn, UploadsDone, Clear, ClearControl, recordVars, storeVars, WAt, WGoto, Worker
  <2>2. /\ worker'.at = "set_final" => worker'.status = Total(i)
        /\ status'[i] \notin Ended
    BY <2>1 DEF AddsUp
  <2> QED BY <1>6, <1>7, <2>1, <2>2
<1>14. ~NoAccounts /\ ~OuterDeadline /\ ~StalledRead /\ ~StalledWrite
  <2>1. NoAccounts => Targets[i] = {} /\ i \in Jobs
    BY <1>1 DEF NoAccounts, WAt
  <2> QED BY <1>5, <2>1 DEF OneByOne, StopClients, OuterDeadline, WaitsForThreads, StalledRead,
       StalledWrite, WAt
<1>15. CASE TallyResults
  <2>1. status' = status /\ i \in Jobs /\ status[i] \notin Ended
    BY <1>1, <1>15 DEF TallyResults, WAt, storeVars, AddsUp
  <2>2. CASE Exists(i)
    <3>1. worker'.at = "clear" /\ worker'.status = Total(i)
      BY <1>1, <1>15, <2>2 DEF TallyResults, Total, Worker
    <3> QED BY <1>6, <1>7, <2>1, <3>1
  <2>3. CASE ~Exists(i)
    <3>1. worker'.at = "except" /\ status[i] = "deleted"
      BY <1>1, <1>15, <2>3 DEF TallyResults, Exists, Worker, WAt
    <3> QED BY <1>6, <1>7, <2>1, <3>1
  <2> QED BY <2>2, <2>3
<1>16. CASE SetFinal
  <2>1. i \in Jobs /\ worker.at = "set_final" /\ worker.status = Total(i) /\ worker.status \notin Runnable
    BY <1>1, <1>16 DEF SetFinal, WAt, AddsUp, WaitingInv
  <2>2. CASE Exists(i)
    <3>1. worker'.at = "cleanup" /\ status' = [status EXCEPT ![i] = worker.status]
      BY <1>1, <1>16, <2>2 DEF SetFinal, SetJobStatus, WGoto, Worker
    <3> QED BY <1>1, <1>6, <1>8, <2>1, <3>1
  <2>3. CASE ~Exists(i)
    <3>1. worker'.at = "except" /\ status' = status /\ status[i] = "deleted"
      BY <1>1, <1>16, <2>1, <2>3 DEF SetFinal, WGoto, storeVars, Exists, Worker
    <3> QED BY <1>6, <1>7, <2>1, <3>1
  <2> QED BY <2>2, <2>3
<1>17. CASE ExceptClear \/ ExceptSetFailed
  <2>1. i \in Jobs /\ worker.at \in {"except", "set_failed"} /\ status[i] = "deleted" /\ ~Exists(i)
    BY <1>1, <1>17 DEF ExceptClear, ExceptSetFailed, WAt, AddsUp, Exists
  <2>2. status' = status
    BY <1>17, <2>1 DEF ExceptClear, ExceptSetFailed, ClearControl, recordVars, storeVars
  <2>3. worker'.at \in {"set_failed", "cleanup"}
    BY <1>2, <2>1 DEF WorkerNext
  <2> QED BY <1>6, <1>7, <2>1, <2>2, <2>3
<1>18. CASE SyncRead
  <2>1. status' = status /\ i \in Jobs /\ worker'.at \in {"sync_write", "idle"} /\ worker.at = "sync_read"
    BY <1>1, <1>2, <1>18 DEF SyncRead, WAt, storeVars, WorkerNext
  <2>2. worker'.at = "sync_write" => worker'.status = status[i]
    BY <1>1, <1>18 DEF SyncRead, IdleWorker, WorksOn, Worker
  <2>3. status[i] \in Ended => status[i] = Total(i)
    BY <2>1 DEF AddsUp
  <2> QED BY <1>6, <1>7, <2>1, <2>2, <2>3
<1>19. CASE SyncWrite
  <2>1. i \in Jobs /\ worker.at = "sync_write" /\ worker.status \notin Runnable
    BY <1>1, <1>19 DEF SyncWrite, WAt, DecidedInv
  <2>2. /\ status' = [status EXCEPT ![i] = worker.status] /\ worker'.at = "idle"
        /\ worker.status \in Ended => worker.status = Total(i)
    BY <1>19, <2>1 DEF SyncWrite, PutJob, IdleWorker, WorksOn, AddsUp
  <2> QED BY <1>1, <1>6, <1>8, <2>1, <2>2
<1> QED BY <1>9, <1>10, <1>11, <1>12, <1>13, <1>14, <1>15, <1>16, <1>17, <1>18, <1>19 DEF RunOnce

\* The invariant is kept by every step.
LEMMA SumStep ==
  ASSUME OneByOne
  PROVE  Settles /\ [Next]_vars => SumInv'
<1>1. ASSUME Settles, UNCHANGED vars PROVE SumInv'
  <2>1. UNCHANGED <<status, view, cells, req, worker>>
    BY <1>1 DEF vars, storeVars
  <2>2. \A j \in Jobs : Total(j)' = Total(j) /\ (Fresh(j)' <=> Fresh(j)) /\ \A a : Result(j, a)' = Result(j, a)
    BY <2>1, SameTotal
  <2>3. RequestFits' /\ OneResult'
    BY <1>1, <2>1 DEF Settles, SumInv, RequestFits, OneResult, Exists
  <2>4. AddsUp'
    BY <1>1, <2>1, <2>2 DEF Settles, SumInv, AddsUp, TypeInv, HasJob
  <2> QED BY <2>3, <2>4 DEF SumInv
<1>2. ASSUME Settles, RunOnce PROVE SumInv'
  BY <1>2, RunOnceFits, RunOnceResults, RunOnceSums DEF SumInv
<1> QED BY <1>1, <1>2, HandleSums, ArriveSums, TimerSums, UploadSums DEF Next, WaitForRequest

\* When nothing is under way, a finished job has the status its results add up to,
\* for clients that create, stop and delete, one request at a time, jobs that are
\* for somebody, and uploads that keep to their timeout.
\* Each hypothesis is needed: a stop that races with a delete revives the record in
\* the middle of a run; a retry comes while the worker copies the record back; a run
\* that is given up leaves threads behind that write results later; and a job for
\* nobody fails, without a failed result, when its schedule does not parse.
THEOREM SettledAddsUp ==
  ASSUME OneByOne
  PROVE  Spec => []SettledJobAddsUp
<1>1. Init => Settles /\ DeliveryInv
  BY InitType, DeliveryInit, WaitingStep, StopInit, SumInit DEF Settles, DeliveryInv
<1>2. Settles /\ DeliveryInv /\ [Next]_vars => (Settles /\ DeliveryInv)'
  BY TypeStep, DeliveryStep, WaitingStep, StopStep, SumStep DEF Settles, Sound, DeliveryInv, OneByOne
<1>3. Settles => SettledJobAddsUp
  BY DEF Settles, SumInv, AddsUp, SettledJobAddsUp, Quiet, WAt, Total, Ended
<1> QED BY <1>1, <1>2, <1>3, PTL DEF Spec
=============================================================================
