# TLA+ models of InstaManager

InstaManager posts to and runs several Instagram accounts: a FastAPI backend
(`src/backend`), LangGraph copilots (`src/backend/ai_copilot`), a React
frontend. This directory holds TLA+ models of the backend's own logic, the TLC
runs that check them on small instances and the TLAPS proofs about them.

## 1. Inventory

| Part | State | Operations | What is hard about it |
| --- | --- | --- | --- |
| Job store (`state.py`, `ThreadSafeJobStore`) | job records, stop flags, pause Events, one lock | `put`, `get`, `set_job_status`, `update_result`, `tally_results`, `request_stop`, `request_pause`, `request_resume`, `wait_if_paused`, `clear_control`, `delete` | Events are set and waited for outside of the lock; records are live dicts shared by every thread |
| Post job requests (`routers/posts.py`, `use_cases/post_job.py`, `post_job_control_adapter.py`) | none; each request is a server thread | create, stop, pause, resume, retry, delete | every request checks a status and acts on it later; a status is written by reading a record and installing a copy |
| Post job queue (`scheduler/job_queue.py`) | queue, timers, one worker thread | enqueue, delayed enqueue, worker loop, start, shutdown | a job may be queued twice, stopped, retried or deleted while it waits |
| Post job executor (`post_job_executor.py`, `upload_payloads.py`) | one upload thread and one dispatch thread per account, media files | `run`, `_upload_one`, `_dispatch_upload`, clean-up | timeouts that abandon threads which may still publish; an outer deadline; threads blocked by a pause |
| Copy back (`container.py`, `_run_and_sync_job`) | - | copy the finished record into the repository | races with retry and delete |
| SQL persistence, restore (`sql_repositories.py`, `sql_uow.py`, `main.py`) | rows, and the memory store they are copied to | unit of work, dual write, restore at startup | crash between an upload and its record; memory is written before the commit, by a retry or a deletion after it |
| Live updates (`scheduler/event_bus.py`, `http/streaming.py`, `stream_post_jobs`) | a bounded queue per listener, an unbounded queue per stream | notify, subscribe, pump, heartbeat, disconnect | threads signal an event loop; a full queue drops events |
| Logins (`challenge_resolver.py`, `account_auth.py`, `account/relogin.py`, `account_connectivity.py`, `account_import.py`) | account records, live clients, statuses, session files, pending challenges | login, 2FA, relogin (single, bulk, at startup), probe, logout, import of sessions, submit, cancel | four stores without a common lock; a login blocks for minutes on a code; overlapping logins of an account |
| Operator copilot (`graphs/operator_copilot`, `operator_copilot_policy.py`, `run_operator_copilot.py`) | graph state, a checkpoint per conversation, interaction summaries | run, resume; nine nodes | what was approved against what runs; two POSTs on one conversation; streams that break off; resume of a node that is not waiting |
| Smart engagement (`application/smart_engagement`, `run_smart_engagement.py`) | graph state, checkpoints, memory of past engagements | recommend, resume; eleven nodes | nodes run again from their start on resume; lost answers; a memory that recalls one page |
| Recovery, risk and content copilots (`application/account_recovery`, `risk_control`, `content_pipeline`) | graph state, checkpoints | run, resume | effects before an interrupt are made again; loops that must end |
| Instagram adapters, use cases, routes and tools (`adapters/instagram`, `application/use_cases`, `routers`, `adapters/ai/tool_registry`) | client, session, status, cooldown of each account | some 100 reads and writes, batches, background jobs, relogins | four layers that each decide what a failure means; answers nobody looks at; guards looked at before a client that another request may take away; a relogin that drops the client before it has another |
| Account and log buses, device pool and proxies, LLM gateways, dashboard login, templates, frontend | see `PROJECT.json` | | |

Requests, worker, upload threads and dispatch threads share the job store. The
composition root (`container.py`) wires the queue to the executor and to the copy
back; most changes of a job are signalled to the event bus, from there to the
streams of the browsers. The copilots call tools, tools and routes call use
cases, use cases call adapters, and adapters ask Instagram through the client
that a login left in the client store; what an adapter's failure says about the
session goes back into the stores the logins write. The restore of jobs waits
for the restore of the sessions.

What makes the parts correct: no account is posted to twice; a reported success
was posted; a waiting job is never forgotten, over restarts too; stops hold; a
job's status is what its results say; the worker, every stream, every login
always comes back; the copilot runs no blocked tool, and no tool that writes
unless the operator let it through; what was sent in the operator's name is what
the operator saw; reads and writes leave an account alone while it cools down
(the uploads of post jobs take the client without that guard,
post_job_executor.py:286, and a relogin does not look at it either); a caller
reads "done" only for what was done. `PROJECT.json` lists each hazard at its line with
the properties that guard it.

## 2. Modules

| Module | Models | State |
| --- | --- | --- |
| `JobRules` | the status rules scattered over the code: terminal, stoppable, retryable and runnable statuses, the tally and the final status it leads to | - |
| `JobStore` | `ThreadSafeJobStore`: one operator per method, each one critical section | `status`, `when`, `cells`/`view` (result dicts and which of them a record shows), `stopFlag`, `pauseEvt`, `evtSet` |
| `PostJobs` | requests, queue, timers, worker, executor, upload and dispatch threads, copy back, on the in-memory repository; EXTENDS the two above | `req`, `queue`, `timers`, `worker`, `runs`, `thr`, `files`, `posted` |
| `Delivery` | what the subsystem promises to the owner of the accounts, abstractly | `window`, `sending`, `posted` |
| `PostJobsDelivery` | the refinement mapping from `PostJobs` to `Delivery` | - |
| `DurableJobs` | one job on the SQL repository: row, memory, requests with and without a unit of work, run, copy back, crash, restore | `row`, `mem`, `owner`, `task`, `worker`, `thread`, `files`, `posted`, ... |
| `JobEvents` | changes with and without a notify, event bus, pump tasks, responses of the job stream | `changes`, `announced`, `registered`, `scheduled`, `inbox`, `pump`, `out`, `response` |
| `Challenges` | the resolver: pending entries, waits, codes, cancellation, expiry | `routed`, `pending`, `entry` |
| `Logins` | every request that logs in or out or imports sessions, and the restore of sessions, over `Challenges` | `record`, `client`, `status`, `session`, `pending2fa`, `req`, `toRestore` |
| `OperatorCopilot` | one conversation with the operator copilot: POSTs, nodes, edges, policy, checkpoint | `saved`, `stream`, `memory`, bounds and histories |
| `SmartEngagement` | the engagement graph, its two use cases, checkpoints and memory | `saved`, `stream`, `memory`, bounds and histories |
| `GraphRuns` | what the three workflow copilots share: POSTs, checkpoints, interrupts, broken streams, restarts | `saved`, `stream`, `graph`, `backend`, histories |
| `AccountRecovery`, `RiskControl`, `ContentPipeline` | the nodes of each, over `GraphRuns` | - |
| `Workflows` | composes the three: one conversation with one of them | - |
| `InstagramSteps` | what an Instagram operation is made of: checks, guard, call, and what a failure of each becomes | - |
| `InstagramPorts`, `InstagramUseCases`, `InstagramRoutes`, `InstagramTools` | every adapter method, use case, route and tool as a sequence of those steps, each layer built from the one below; the policy table of the tools | - |
| `InstagramFailures` | the catalogue of failures and the decisions taken from it | - |
| `InstagramCalls` | any of these operations at once on one account, relogins among them, with failures, refusals, cooldowns, evictions, logouts | `known`, `client`, `session`, `status`, `cooldown`, `request`, histories `dead`, `revived`, `late` |
| `MC...` | values of constants, symmetry and, in `MCInstagramCalls`, a view for TLC | - |
| `PostJobsProofs`, `DurableJobsProofs`, `JobEventsProofs`, `LoginsProofs`, `OperatorCopilotProofs`, `SmartEngagementProofs`, `WorkflowsProofs`, `InstagramCallsProofs` | theorems and proofs about the module of that name | - |

Definitions named "Faulty variant" are not part of a model: each is what a
plausible bug would make of the definition after it, and `PROJECT.json` names
the property that would catch it.

### PostJobs and the code

A thread's place in the code is a field `at` of its record; every action is one
critical section of the store or one read or write the code makes outside of it,
so that a check and the act it guards are different steps exactly where they are
in Python. The important consequences:

* `set_job_status` of the control adapter is two actions, `SetStatusRead` and
  `SetStatusWrite`: it installs a copy of the record it read. `PutJob` therefore
  replaces the record under the handlers that still hold the old dict; `Orphan`
  freezes what those see (`seen`). Result dicts are shared between copies of a
  record: `cells` holds every dict ever made, `view` the one a record shows, and
  a retry, which copies results, adds new cells.
* A pause Event is a number; `clear_control` drops it from `pauseEvt` without
  setting it, and a thread blocked on it stays blocked (`evtSet`, `thr[r][a].evt`).
* A run starts an upload thread per account; the upload itself is a second thread
  whose `net` field goes queued, sending, ok or err. `Collect` is the timeout of
  the upload: it may leave a dispatch thread that publishes later. `Publish` may
  also publish and report an error: an answer that is lost.
* `OuterDeadline` ends a run whose threads wait out a pause or stall.
* Media files are one bit per job (`files`), removed by `Cleanup`.
* `posted` counts what Instagram published; nothing in the code reads it.

`Stalls` says whether an upload may stall outside of its own timeout (after its
worker slot was taken and before its future is waited for). `MaxInFlight` bounds
overlapping requests, `MaxRuns` executor runs, `Requests` the requests a client
ever makes. `Ops`, `Whens` and `Targets` choose what requests may be.

### DurableJobs and the code

With the SQL repository create, stop, pause, resume and `mark_scheduled` are a
unit of work in a thread of its own:
it reads the record from the row (`ReadRow`), `set` loads the row again, applies
the record and writes memory (`PutRecord`), and the commit writes the columns
that changed (`CommitRow`, `Merge`: the session keeps what it loaded, so columns
nobody touched keep what another transaction wrote meanwhile). Memory is ahead
of the row from `PutRecord` to `CommitRow`; a crash in between takes the change
back. The result dicts of the record put in memory are those of the session
until the commit (`owner`), so that an upload thread that writes a result writes
it into the transaction too.

`retry_job` and `delete_job` have no unit of work (post_job.py:346-400), so that
the repository commits by itself, before it writes memory: `SaveRow`, then
`InstallRecord`. The row is ahead of memory between the two, and a crash there
leaves the retry or the deletion in force. A run changes memory alone, and `SyncSave` and
`SyncInstall` bring its outcome into the row and back.

`Crash` may come at any step; rows and media files are on disk and stay.
`Restart` is the lifespan and the first half of `_restore_pending_jobs` in one
step: it has no await, so that it ends before the server accepts a request. The
second half waits for the sessions, at most 120 seconds, and then goes by the
records read at startup (`task["restore"].new`), whatever requests have done
meanwhile. Threads left behind by the outer deadline do no more in this module;
what they may still do is the subject of `PostJobs`.

What the model shows of the code, apart from its properties: a job paused or
resumed keeps "paused" or "running" in its row, and after a crash nobody queues
it again until it is paused, stopped and retried; pause, resume and stop install
the results of the row, which are as old as its last copy back, over live ones;
the restore can put a job that was stopped meanwhile back to "scheduled", and
one that was stopped and retried then has no time and fails; a retry accepted
between `SyncSave` and `SyncInstall` is lost to memory until the next restart,
and one whose row is saved right before `SyncSave` is lost to the row.
The last three are writes that `crossed`, which the properties leave out: a value
was written over another than the writer had seen, or between the two writes of
somebody else.

### JobEvents and the code

Threads act at any time; callbacks and tasks of the event loop act one at a time
(`LoopFree`: a pump that has been woken builds its list before the loop does
anything else). A list of jobs is abstracted to the number of changes it shows.
A thread that changes a job either calls `notify` after it (`Change`) or does not
(`SilentChange`: a new job, "scheduled", a skipped upload, a job for no account);
`announced` is the last change of the first kind, and what the properties promise is
about those. A silent change is shown with the next list that is made, which may
be never. `call_soon_threadsafe` is the counter `scheduled`; `put_nowait` runs later, in
the loop, so a full queue raises there and not inside the `except` of `notify`.

### Logins and the code

A request is a thread (`req[r]`) that reads and writes four stores: `record` (the
account repository), `client` (the live client and what Instagram thinks of its
session), `status`, `session` (the file). Each write is an action of its own,
with the call to Instagram before it. The resolver's methods are one step each,
as they hold its lock; the end of a wait and the removal of the entry are two
steps, because the wait is outside of it. The key of an entry is the account id
routed for the username, or the username. `raced` remembers usernames on which
two requests worked at a time: nothing in the code orders their writes.

A relogin that fails for a transient reason leaves "logging_in" as the status
(relogin.py:226); a probe may write "active" after an eviction; both are in the
model. A failed probe that finds the session ended evicts it: client and session
file go (`ProbeFails`, error_utils.py:84-116).

`import_session_archive` (account_import.py:155-178) is a request (`StartImport`,
`SaveArchived`, `ImportAccount`): for each username of the archive it writes the
session file, makes a new account record without looking for one of that username,
and leaves a client if the session loads. So an account has a record more after each
import, race or no race; `imported` remembers those ids, and what
`UnracedAccountsAgree` says of one account at most is about the others. The text
import is one `login_account` for each line, which is `StartLogin`.

The container also builds the `AccountUseCases` facade (container.py:206, used by
the copilots' adapters and as a fallback of the tool registry). It delegates to
classes of its own (`account/auth.py`, `profile.py`); what the copilots reach
through it, relogin and reads, is in `Workflows`, `SmartEngagement` and
`InstagramTools` as they use it. Its own `login_account`, `logout_account` and
`import_session_archive` have no caller and are not modelled.

### The copilots and the code

Every node of a graph is an action, except that a node with `interrupt()` is two
(one ends at the interrupt, one is the node run again with the answer) and a node
that makes several outside effects is one step per effect, so that a stream may
break off between two. The routes are operators named as in the code. LangGraph
is external; the models take from it what the use cases rely on: input on a
conversation starts it from the first node, whatever the checkpoint;
`Command(resume=...)` runs the node the checkpoint names next, with its state;
the checkpoint is replaced when a node ends, and what a node that was cut off did
to the state is lost, but not what it did to the outside.

In `OperatorCopilot`, `Plans` and `Edits` are lists of calls (id, tool, whether
the arguments are well formed); a list is a function on positions, so that a call
dropped by the sanitizer or the policy leaves the others where they are.
Histories are read by properties only: `authorised` holds the calls an answer let
through, `executed` the calls handed to the tool registry, `careless` remembers
that a POST came while another was under way, or a decision while none was asked
for. The frontend does neither; the endpoints do not prevent it. Properties that
need this say `~careless`. The gate lets edited calls through without a second
request (`approval_attempted`, state.py:166-168), which `LetThrough` follows.

In `SmartEngagement` the memory is a sequence, and a recall returns the first
`RecallLimit` entries that match: the in-memory store returns the oldest
(engagement_memory_adapter.py:46). The deadline `timeout_at` of an approval is
only reported (approval.py:131), so that it is not in the model. Two runs that
overlap can both engage a target; `overlapped` leaves them out of
`NoSecondApproach`.

In `AccountRecovery` a relogin is made before the question for a code in the same
node, and made again with the answer, whose code the adapter drops. In
`RiskControl` the cooldown is always None, so that the proxy rotation of the
graph is never reached, and a policy ("cooldown", "rotate_proxy") is only reported:
no node carries it out. In `ContentPipeline` a run the operator let pass may report
an error although the draft was made (nodes.py:322-345), which `EndedRunAddsUp`
says of no other reason; `/run` builds a graph for itself, so that `/resume` finds its
checkpoint only with the sqlite checkpointer. The campaign monitor is wired to
methods that do not exist and ends every run without data.

### The Instagram modules and the code

An operation is a sequence of steps written in the order its code runs: an
argument check, the look at the account repository and at the client store, the
cooldown guard, taking the client, calls that read or write; each step says what
its failure becomes (an exception, a receipt with `success` False, nothing, or a
status taken from the failure). Adapter methods are such sequences
(`InstagramPorts`), use cases are checks in front of ports (`InstagramUseCases`),
routes and tools are use cases with a check of their arguments, batches and
background jobs are sequences of stages. `InstagramCalls` interprets them: one
step is one action, and a failed call leaves `duties` (mark the cooldown, drop
the client, set the status, delete the session, report) that are one action each.

A change is one of three steps: a "write" whose SDK call raises or works, a "try"
whose answer the adapter looks at, and a "blind" one, whose answer it discards and
reports success whatever it was (media_writer.py:74, account_writer.py:51,
highlight_writer.py:217, and about twenty more). `RefusedUnseen` is that case, and
`WritesAreReported` claims nothing of it. After a comment or a message the
adapter maps the answer inside of the `try`: an "answer" step, which may end in an
error over a change that was made (comment_writer.py:67-80, direct_writer.py:102-113).

A relogin is the sequence of its code: the cooldown is not looked at, the
account's client is discarded first (instagram_runtime/relogin.py:488), then come up to
three attempts, each of which loads the saved session without asking Instagram
whether it still is one, or logs in with the password; the session is written and the
client installed. `verify_session_on_restore` is off by default and left so. A session that
had died meanwhile, or before, is thereby back in both stores: `revived` remembers it, until
the next call finds it dead again. A relogin that waits for a code belongs to `Logins`.

The catalogue of failures is a set of records; `InstagramCalls` picks any class
of failure that the catalogue tells apart. The replies of Instagram are not
modelled, and an SDK call that raised after it took effect is not told apart from one
that did nothing. Seen in the code and outside of the properties: ports that raise a plain
ValueError lose the 429 hint (`media_writer.like_media`); a failure of an old
client removes the client a login has put there meanwhile (error_utils.py:104);
some copilot writes return a receipt with `success` False, which is logged as a
success (nodes_approval_execution.py:79-101); the asynchronous handlers of
`routers/direct.py` that upload files block the event loop and leave their
temporary files; a batch goes on after its client has disconnected.

## 3. Runs

Each run is one question; `PROJECT.json` names its properties and, for each, a
mutant of the model that breaks it.

| Run | Bounds | What it shows |
| --- | --- | --- |
| `posts_any_request` | one job, one account, three requests of any kind, two at once, three runs, stalls | no account is posted to twice, no success is invented, no waiting job is forgotten, and every step is one `Delivery` allows |
| `posts_stop` | one job, two accounts, four requests (create, stop, delete) one at a time, every `scheduled_at` | stops hold; status, run and results agree |
| `posts_live` | two jobs, one of them for no account, create, stop, retry, delete, one at a time | every job ends, whatever is asked for meanwhile; no deadlock |
| `durable` | one job, two accounts, three requests of any kind, one crash | a post is repeated only by a crash that cut a run short; row and memory agree at rest; every row that waits is served; the worker comes back from pauses nobody ends |
| `events` | two threads, one stream, a queue of two, four changes, announced or silent | dropped events hide nothing that was announced; no listener leaks; every announced change is shown or the stream ends |
| `logins` | one username, three accounts, the restore task and two requests at a time, three in all, imports among them, two attempts | the operator's code reaches a login that waits; bulk relogins take turns; the stores agree on accounts whose requests did not overlap, and only an import makes a second one |
| `logins_restart` | one request, one restart, probes after restore | every request ends, also one whose code nobody enters; the restore of the sessions ends |
| `copilot` | two POSTs at a time, two runs, two decisions; three plans, two edits; streams that break off, restarts with either checkpointer | no blocked tool runs; a write that ran was let through; a careful client gets exactly what it approved, once |
| `engagement` | two POSTs at a time, one conversation, two targets, two runs, two answers, a page of two records | what was sent was approved in that form; nobody is approached twice by runs that do not overlap |
| `workflows` | one conversation with one of three graphs, one POST at a time, two runs, two answers, two attempts, two revisions, either checkpointer | effects are no more than what the operator agreed to; relogins are bounded; the reason a run reports goes with what it saw, what it did and what the operator said; every POST ends |
| `instagram_calls` | two of all routes, tools, jobs and relogins at once, as often as they like, batches of two targets, cooldowns in half hours | cooldowns hold; dead sessions go unless a relogin that had loaded one brings it back; a transient failure costs no session; reports tell what was changed, as far as the adapters look; tools without approval change nothing |

Two overlapping requests are enough for every race between a check and its act,
because requests share no state but the record, which two of them already
contend for together with the worker; two accounts are needed only where a
property relates results of different accounts. In `posts_live` a second job is
what makes the single worker matter. A queue of two with four changes overflows.
Streams do not share anything but the event loop, so one stream stands for all in
`events`.

In `durable` three requests are create, one that stops, pauses or retries, and one
more that meets its effect; one crash suffices for `RepeatsCostACrash` to be
met with equality (an account posted to twice), and the theorem covers more.

In `logins` the three accounts are one that exists, one a second login of the
username creates, and one more for a race of the two. In `copilot` and
`engagement` two streams are the smallest number that overlap, and a third adds
nothing: a stream touches the checkpoint only by replacing it. Two runs are
needed so that an answer to the first can meet the second. The plans and edits
contain each kind of tool, bad arguments, and lists in which two kinds meet. In
`instagram_calls` two requests are enough since each decides by what it has read
of one account; requests are symmetric there: no property tells them apart. Logins are
numbered, and any number of relogins would make infinitely many states; but nothing ever asks
more of two logins than whether they are the same. The view `Relevant` therefore
gives them names by where they are held, and leaves out the status, the client of a
request that will take one anew and what is known of logins nobody holds, at none of
which a step or a property looks. It is sound as long as `MaxLogins` is not reached:
the search is less than 70 steps deep, a login takes six of them, and 20 logins are allowed.

`CHECK_DEADLOCK FALSE` stands where bounds end the behaviour: no requests, runs or
crashes are left and everything has come to rest.

| Run expected to fail | Statement of the code | What happens |
| --- | --- | --- |
| `durable_stop` | `PostJobControlAdapter.set_job_status`: durable backends persist control transitions so that stopped jobs are not resurrected | a stop of a running job is a flag in memory; a crash before the run is over leaves the row "pending", and the restore queues the job again |

Other deviations met while modelling, not kept as runs: a retry that is refused
has already erased the stop flag and the pause Event of the run
(posts.py:139); a resume that ends after the run leaves "running" for ever
(posts.py:184); a retry uploads to accounts that already succeeded as well, and
only the deleted media keep it from posting again (post_job_executor.py:171), so
that their results turn "failed"; a pause longer than the slack of the outer
deadline fires it (post_job_executor.py:189); a job deleted while it is copied
back is stored again (container.py:596); the copilot's review of results is keyed
by call ids that nothing makes unique. They are why `posts_stop` leaves out
pauses and retries, and `posts_live` pauses. Others are between what a comment says
and what the code does: the stream of jobs "emits the full job list whenever a job status changes"
(posts.py:193), but not after the silent changes of `JobEvents`; an evicted account "can no
longer report "active"" (error_utils.py:53-56), but does once a relogin that had loaded
the dead session installs it. And of logins: a relogin that fails for a transient
reason leaves the account without the client it had, and with the status "logging_in"; one
that races with a logout leaves a client and a session file of an account
that is not there; an import makes a second record for a username that has one.

### Fairness

Weak fairness of every thread that is runnable: Python threads are preempted and
the store's lock is held for a few statements. A thread that waits (blocked on an
Event, or for a future) is not enabled and gets none. Timers fire (`EnqueueDueJob`,
`TimerFires`), a dispatched network call returns or raises, since the SDK's
requests have a timeout; that an upload "stalls" is the exception the `Stalls`
constant turns on. Clients are not fair: no request ever has to be made, no pause
ever resumed. In `JobEvents` the loop runs what is ready; opening and leaving a
stream is not fair, and neither is that a thread changes a job. In `DurableJobs`
the backend is started again after a crash (`restart: unless-stopped` in
`docker-compose.yml`); crashes are not fair. In `Logins` waits for a code expire
(the resolver waits with a timeout) and the restore task takes its turns; that the
operator answers is not assumed. In `Workflows` the event loop goes on with a node
it has begun; that a client posts, or leaves, is not assumed.

## 4. Proofs

All proofs hold for any sets of jobs, accounts, requests, threads and streams and
any bounds, under the `ASSUME`s of the modules (membership of the constants in
their types; `NoJob`, `NoAccount` and `NoRecord` are not a job, an account and a
record; a queue has room for one event). Where a theorem has a hypothesis of its own, it is named
with the theorem and TLC finds a counterexample without it; that the properties of a
careful client end with the first careless POST is part of the properties
themselves (`careless`).

* `PostJobsProofs!TypeCorrect`. `TypeOK` is inductive together with `HasJob`: a
  request or a worker that is under way has a job.
* `PostJobsProofs!NoSecondPost`, `NoInventedSuccess`. `AtMostOnePost` alone is not
  inductive: nothing in it says why a second run does not post. The invariant
  `DeliveryInv` adds `Known` (jobs under way were created), `ThreadShape` (threads
  exist only in runs that were started, with a network call only after the start),
  `OneRunHasMedia` (a run whose
  job still has media is the last one started, and the worker is in it),
  `PostsHaveCalls` (every post was published by a call that is over; a call under
  way is the only one for its job and account, which has no post yet), and then both
  goals. The argument is that a call opens the media before it publishes, and a second run
  of a job starts only after the first one has deleted the media.
* `PostJobsProofs!NothingLost`, without hypotheses. `NoLostJob` is not inductive, since
  it counts any worker that is at the job as somebody who will run it. `WaitingInv` says who
  expects a waiting job: a timer, the queue, the request that brings it there, or a worker that
  has not yet decided what becomes of it. And of the two places that carry a status to be written
  later it says that this status does not wait, unless the job is expected again.
* `PostJobsProofs!StopsHold`, for clients that create, stop and delete, and uploads that keep
  to their timeout (`StopClients`). `StopInv`: the worker waits as long as an upload
  thread lives, nobody but the request that creates a job brings it to the queue, and a job whose stop
  was accepted has its flag or is `Over`: it will not run again. So the flag may be cleared only when
  no thread is left to look at it. A retry, a pause and a stall break this each on its
  own: a retry erases the flag before it knows whether it will be refused
  (posts.py:139), and the outer deadline ends a run, and with it the flag, while
  threads that wait out a pause or stall in the SDK live on.
* `PostJobsProofs!SettledAddsUp`, for such clients when one request is under way at a time
  and every job is for somebody (`OneByOne`). `SumInv`: results are updated but never
  replaced, they are all pending until the job runs, and whatever ending status the
  worker carries is what they add up to. The hypotheses are needed: a stop
  that races with a delete revives the record in the middle of a run, a retry comes
  while the worker copies the record back, threads left behind write late, and a job for nobody
  fails without a failed result when its schedule does not parse.
* `PostJobsProofs!Implements`: `Spec => Promise!Spec`. Create opens the window,
  clean-up shuts it, opening the media starts, publishing publishes, an error
  refuses; every other step stutters.
* `DurableJobsProofs!CrashesPayForRepeats`: `posted[a] <= 1 + cut` for every
  account, `cut` being the crashes that came between the start of a run and the
  deletion of its media. The invariant `CutInv` adds `NothingFirst` (no media
  before the first request), `ThreadsInRun` (upload threads live inside of a run)
  and `RoomToPost`: while there are media, whoever may still post, be it a thread that
  is not done or any account between two runs, has posted at most `cut`
  times. A run that ends removes the media and so discharges `RoomToPost`; a crash
  that leaves media behind after a post raises `cut` by one. None of it depends on
  what the requests, the unit of work or the restore do to statuses, which is why
  one lemma (`Elsewhere`) covers most steps.
* `DurableJobsProofs!RowsFollowMemory`, from `RowInv`. `RowFollowsMemory` speaks of states at
  rest; `ExplainedInv` says of all others why row and memory may differ: a run is going on,
  a commit is under way that will make the row what memory is (`Committing`), a commit that
  is bound to be counted as one that crossed another write (`Doomed`), a retry, a deletion or a
  restore has written the row and not yet memory. The restore needs the most: from what
  the rows were at startup, `WaitInv` and `InstallInv` follow what requests may do to a scheduled
  job while it waits for its refusal. A request may only take it out of the
  schedule (`ClientInv`), in memory first, and then the refusal crosses that write; or it
  has not yet reached memory, and then its commit crosses the refusal; or it is a
  retry or deletion that found the job no longer scheduled (`Retaken`). The actions are first
  reduced to moves that say what they do to row, memory, owner and tasks (`Steps`), and each part of
  the invariant is proved of the moves. `TypeCorrect` follows.
* `JobEventsProofs`: `TypeCorrect`, `NothingMissed`, `NothingLeaks`, by the
  invariant `TypeOK /\ Shape /\ NoMissedChange`. `Shape` relates pump, response and
  registration: a listener is registered exactly while its pump sends or waits, and
  a response ends only after its pump is done or failed. What is promised is about the last announced
  change, so that a silent one can only make a list newer than it has to be.
* `OperatorCopilotProofs`: `TypeCorrect`, `NoBlockedToolRuns`, `WritesDecided`,
  `SuccessIsOfRunCalls`, for any number of streams, runs and decisions and any plans
  and edits. The goals speak of what ran, so they are not inductive: the
  invariant `IInv` says, for the checkpoint and every stream alike, what a state
  that is about to enter a node has gone through (`NodeInv`): before
  `execute_tools` every call of the list is `Cleared` (not blocked, and let through if it writes),
  before `request_approval` no answer was given yet, before the review of
  the results the list has `Ran`. One place at a time is replaced by one that
  satisfies the same predicate, and histories only grow (`NodeInvGrows`), so the
  interleaving of POSTs and a checkpoint of any age are harmless.
  `OnlyApprovedCallsRun` and `EachCallRunsOnce` are about a client that has one POST
  under way and decides when asked. `Client` says that then one stream at most is
  past its checkpoint, that an interrupt waits at `request_approval` only, and that
  the calls that ran are among the approved ones and no longer among those to be made.

* `SmartEngagementProofs`. `OnlyDecidedIsSent` argues as above: `NodeInv` says of the
  checkpoint and of every stream which decisions lie behind a state at its node.
  `NobodyApproachedTwice` needs more: as long as no runs overlapped, one place at
  most is at work (`OneAtWork`) and it is the last run (`Latest`); every effect and
  every rejection is in the memory (`Recorded`, `Records`), and the target of a run
  on its way to the executor is in none of the memory it recalled (`Fresh`). It
  assumes `MaxRuns <= RecallLimit + 1`. Without it the theorem is false, and the
  code repeats itself: the memory returns its oldest page, so that from the second
  run after a full page on a recent target is not recalled
  (engagement_memory_adapter.py:46).
* `LoginsProofs`. `WaitInv` relates entries, keys and waits and gives
  `EntriesAreWaits` and `PendingIsListed`; `BulkReloginsTakeTurns` is inductive with the
  types. `AccountsAgree` needs what each request knows of its account at each of
  its steps (`Knows`): whether the record exists, which client it holds, which
  status it is about to write. Requests on one username that never overlapped are
  alone (`Alone`), and what one knows is not changed under it; `OwnerInv` keeps the
  account ids of different usernames apart, those of imports included.
* `WorkflowsProofs`. One half of the invariant holds for any client: a stream and the
  checkpoint are at a node of their graph with values that fit it (`StreamsInv`,
  `SavedInv`). The other is for a client that posts one thing at a time and answers what
  was asked: its one stream agrees with the checkpoint (`CarefulInv`); each login is
  paid by an attempt, a question or an answer (`LoginsInv`); effects and those still
  to be made are no more than the grants (`GrantsInv`); a run that has acted is one that had
  found an issue or been let through (`ActsInv`), from which the reason it reports follows. Four moves, which all graphs share (a step inside a node, the end of a
  node, an interrupt, the end of a run), are proved once and every node is
  one of them.
* `InstagramCallsProofs`. The first half is about operations: each port, use case,
  route, job and tool takes its client right after the look at the cooldown, calls
  only with a client taken, and does nothing but read once it has written. A layer
  is shown from the one below, with lemmas about concatenation and batches. The second half
  is about requests made of such operations, side by side: `LateInv` (one late call
  at most), `DeadInv` (a session found dead is in the stores only as long as someone still
  has to remove it, or if a relogin put it back), `RequestsInv` (what was written and missed so far is
  what the report will say; after a write come reads and answers only).

Every invariant and action property of the runs that pass is the subject of a theorem. Only
model-checked are the liveness properties (`EveryJobEnds`, `ChangesAreShown`,
`RequestsEnd`, `RestoreEnds`, `StreamsEnd`, `EveryRowIsServed`, `WorkerReturns`),
which are out of reach of TLAPS.

## 5. Assumptions

A request names an account once; `usertags` have the declared type; one backend
process. Commits do not fail. `PostJobs` has the in-memory job repository and no
crash, `DurableJobs` the SQL one and crashes. `Logins` and `InstagramCalls` have
the in-memory unit of work and one account or username at a time: accounts share
no state but the tables they are entries of. Time is abstract: a timeout may
happen whenever its wait is not over; a cooldown is counted in half hours.

## 6. Plan

1. `Circuits`: the upload and the copilot circuit breaker; no call while open, one
   probe. In `PostJobs` an open breaker is one of the ways to reject an upload.
2. An abstract specification of a conversation (asked, answered, done) that
   `SmartEngagement` and `Workflows` implement.
3. Proofs: what `Circuits` and that specification promise; weaker hypotheses for
   `StopsHold` and `SettledAddsUp`, with pauses that end before the outer deadline.

## 7. Not modelled

* The account and log buses, proxies, device pool, templates, dashboard login and log
  use cases: single records or unbounded queues, one request at a time.
* LLM gateways and OAuth clients: translation around external services.
* The frontend: its requests are inputs of the models.
* `http/rate_limit.py`: a counter per address and minute.
* Drafts without media (`needs_media`): they are never run.
* `PostJobQueue.shutdown`: after it the process ends, which is a crash of
  `DurableJobs` at the worst.
* Location ports and the track catalogue of the adapters: nothing calls them. Tools
  that stay in the backend or log in or out are not in `InstagramTools`; the
  logins they start are those of `Logins`.
