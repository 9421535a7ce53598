--------------------------- MODULE InstagramCalls ---------------------------
(***************************************************************************)
(* Routes, tools and background jobs that ask Instagram for one account at *)
(* the same time.  They share what the back end keeps of the account: its  *)
(* client in the store, the saved session, its status and its cooldown.    *)
(* Each runs the steps of its use case and, when a call fails, the         *)
(* handling the failure asks for, one access at a time.  A new login of    *)
(* the account is such a request too.  Meanwhile an operator may log the   *)
(* account out or end its cooldown.                                        *)
(***************************************************************************)
EXTENDS InstagramRoutes, InstagramTools

CONSTANTS
  Requests,    \* what may run at once
  Targets,     \* the targets of a batch
  MaxLogins    \* how often the account is logged in with its password again

ASSUME CallsAssumption ==
  Targets \in Nat /\ MaxLogins \in Nat

F == INSTANCE InstagramFailures

\* What the tools do that need no approval, and those that do.
Unapproved == {<<Tools[tool]>> : tool \in DOMAIN Tools \cap ReadOnlyTools}

Approved == {<<Tools[tool]>> :
               tool \in {t \in DOMAIN Tools : MayRun(t)} \ ReadOnlyTools}

\* The stages of whatever may be asked for: by a tool, a route or a job.
Operations ==
  Unapproved \cup Approved \cup Routes \cup {HydrateAndPublish}
    \cup RefreshCountsJobs \cup BatchJobs(Targets)

Statuses ==
  {"active", "error", "challenge", "2fa_required", "idle", "logging_in"}

\* What the caller is told of a stage; "running" before it is told anything.
Reports == {"running", "done", "unsuccessful", "error", "none"}

Duties == {"limit", "drop", "error", "forget", "demote", "report"}

NoClient == 0

Logins == 1..(1 + MaxLogins)

\* How often a relogin asks for a login before it gives up.
MaxAttempts == 3

VARIABLES
  known,      \* whether the account is in the repository of accounts
  client,     \* the login whose client is in the store
  session,    \* the login whose session is saved
  logins,     \* how many logins there were
  status,     \* the status of the account
  cooldown,   \* how long the account still cools down, in half hours
  request,    \* what each request is doing
  dead,       \* the logins Instagram was seen to have ended
  revived,    \* those a relogin put back that had loaded their saved session
  late        \* how often each request took a client during the cooldown

vars ==
  <<known, client, session, logins, status, cooldown, request, dead, revived, late>>

store == <<known, client, session, logins, status, cooldown, dead, revived>>

\* A request slot nothing runs in.
Idle == [stages |-> <<>>, taken |-> NoClient, failure |-> F!Unknown,
         duties |-> <<>>, report |-> "running", attempts |-> 0,
         wrote |-> FALSE, missed |-> {}]

Init ==
  /\ known = TRUE /\ client = 1 /\ session = 1 /\ logins = 1
  /\ status = "active" /\ cooldown = 0
  /\ dead = {} /\ revived = {}
  /\ request = [r \in Requests |-> Idle]
  /\ late = [r \in Requests |-> 0]

-----------------------------------------------------------------------------
(* The stages of a request                                                 *)

Begin(stages) == [Idle EXCEPT !.stages = stages]

Start(r) ==
  /\ request[r] = Idle
  /\ \E stages \in Operations : request' = [request EXCEPT ![r] = Begin(stages)]
  /\ late' = [late EXCEPT ![r] = 0]
  /\ UNCHANGED store

\* After its report a request goes on to its next stage: the next target of a
\* batch, or the second call after a login, whatever became of the first.
Reported(r) ==
  /\ request[r].report # "running"
  /\ request' = [request EXCEPT ![r] =
       IF Len(@.stages) = 1 THEN Idle ELSE Begin(Tail(@.stages))]
  /\ UNCHANGED <<store, late>>

StepOf(q) == Head(Head(q.stages))

NextStep(r) == StepOf(request[r])

\* A request whose next step does what.
Ready(r, what) ==
  /\ request[r] # Idle /\ request[r].report = "running"
  /\ request[r].duties = <<>>
  /\ NextStep(r).do = what

\* The request when its stage goes no further than the next step.
Ended(q) == [q EXCEPT !.stages[1] = <<Head(@)>>, !.taken = NoClient]

\* The request with its report, of which stage and step it is.
Report(q, report) ==
  [Ended(q) EXCEPT !.report = report, !.failure = F!Unknown]

\* The request after a step that went well.
Passed(q) ==
  IF Len(Head(q.stages)) = 1 THEN Report(q, "done")
  ELSE [q EXCEPT !.stages[1] = Tail(@)]

ReportOf(onFailure) ==
  CASE onFailure \in {"raise", "status"} -> "error"
    [] onFailure = "receipt" -> "unsuccessful"
    [] OTHER -> "none"

\* The request after a step that failed, once nothing is left to do about it.
Told(q) ==
  IF q.duties # <<>> THEN q
  ELSE Report(q, ReportOf(StepOf(q).onFailure))

\* Faulty: who takes the status from a failure is left to handle all of it.
DutiesLeftToCaller(failure, onFailure) ==
  (IF failure.cooldown > 0 THEN <<"limit">> ELSE <<>>)
    \o IF onFailure = "demote"
         THEN IF failure.status # "keep" THEN <<"demote", "drop">> ELSE <<>>
       ELSE IF failure.dead THEN <<"drop", "error", "forget">> ELSE <<>>

\* What is done about a failure: the adapter marks the cooldown and removes a dead
\* session, its caller may take the account's status from it and drop the client.
DutiesOf(failure, onFailure) ==
  (IF failure.cooldown > 0 THEN <<"limit">> ELSE <<>>)
    \o (IF failure.dead THEN <<"drop", "error", "forget">> ELSE <<>>)
    \o (IF failure.status = "keep" THEN <<>>
        ELSE CASE onFailure = "demote" -> <<"demote", "drop">>
               [] onFailure = "status" -> <<"demote">>
               [] OTHER -> <<>>)

\* The request after a call that worked, a change that was not made, a call that
\* failed, and after something was done about the failure.
Worked(q) == Passed([q EXCEPT !.wrote = @ \/ Writes(StepOf(q))])

Missed(q) ==
  [q EXCEPT !.missed = @ \cup {what \in {StepOf(q).do} : Writes(StepOf(q))}]

Failed(q, failure) ==
  Told([Ended(Missed(q)) EXCEPT
          !.failure = failure,
          !.duties = DutiesOf(failure, StepOf(q).onFailure)])

Fulfilled(q) == Told([q EXCEPT !.duties = Tail(@)])

Pass(r) == request' = [request EXCEPT ![r] = Passed(@)]

\* The step fails before Instagram is asked.
Refuse(r) == request' = [request EXCEPT ![r] = Told(@)]

-----------------------------------------------------------------------------
(* The steps                                                               *)

CheckArgument(r) ==
  /\ Ready(r, "argument")
  /\ Pass(r) \/ Refuse(r)
  /\ UNCHANGED <<store, late>>

CheckAccount(r) ==
  /\ Ready(r, "account")
  /\ IF known THEN Pass(r) ELSE Refuse(r)
  /\ UNCHANGED <<store, late>>

CheckClient(r) ==
  /\ Ready(r, "client")
  /\ IF client # NoClient THEN Pass(r) ELSE Refuse(r)
  /\ UNCHANGED <<store, late>>

CheckRateLimit(r) ==
  /\ Ready(r, "cooldown")
  /\ IF cooldown = 0 THEN Pass(r) ELSE Refuse(r)
  /\ UNCHANGED <<store, late>>

TakeClient(r) ==
  /\ Ready(r, "take")
  /\ IF client = NoClient THEN Refuse(r) /\ UNCHANGED late
     ELSE /\ request' = [request EXCEPT ![r] = Passed([@ EXCEPT !.taken = client])]
          /\ late' = IF cooldown = 0 THEN late ELSE [late EXCEPT ![r] = @ + 1]
  /\ UNCHANGED store

\* A call that works; a session that ended stays ended.
CallWorks(r) ==
  /\ \E what \in {"read", "write", "try", "blind"} : Ready(r, what)
  /\ request[r].taken \notin dead
  /\ request' = [request EXCEPT ![r] = Worked(@)]
  /\ UNCHANGED <<store, late>>

\* Faulty: the answer of the SDK is not looked at.
AnswerIgnored(r) ==
  /\ Ready(r, "try") /\ request[r].taken \notin dead
  /\ request' = [request EXCEPT ![r] = Passed(Missed(@))]
  /\ UNCHANGED <<store, late>>

\* Instagram answers that it did not make the change.
CallRefused(r) ==
  /\ Ready(r, "try") /\ request[r].taken \notin dead
  /\ request' = [request EXCEPT ![r] = Report(Missed(@), "unsuccessful")]
  /\ UNCHANGED <<store, late>>

\* It answers so to an adapter that does not look at the answer.
RefusedUnseen(r) ==
  /\ Ready(r, "blind") /\ request[r].taken \notin dead
  /\ request' = [request EXCEPT ![r] = Passed(Missed(@))]
  /\ UNCHANGED <<store, late>>

CallFails(r) ==
  /\ \E what \in {"read", "write", "try", "blind"} : Ready(r, what)
  /\ \E failure \in F!FailureClasses :
       /\ request[r].taken \in dead => failure.dead
       /\ dead' = IF failure.dead THEN dead \cup {request[r].taken} ELSE dead
       /\ revived' =
            IF failure.dead THEN revived \ {request[r].taken} ELSE revived
       /\ request' = [request EXCEPT ![r] = Failed(@, failure)]
  /\ UNCHANGED <<known, client, session, logins, status, cooldown, late>>

\* The answer to a change that was made lacks a field of the record, which is an
\* error as any other of the call.
ReadAnswer(r) ==
  /\ Ready(r, "answer")
  /\ Pass(r) \/ request' = [request EXCEPT ![r] = Failed(@, F!Unknown)]
  /\ UNCHANGED <<store, late>>

\* The client of a public read is of no account, and nothing is marked.
PublicCall(r) ==
  /\ Ready(r, "public")
  /\ Pass(r) \/ Refuse(r)
  /\ UNCHANGED <<store, late>>

SetVerified(r) ==
  /\ Ready(r, "verified")
  /\ status' = "active"
  /\ Pass(r)
  /\ UNCHANGED <<known, client, session, logins, cooldown, dead, revived, late>>

-----------------------------------------------------------------------------
(* The steps of a relogin                                                  *)

Announce(r) ==
  /\ Ready(r, "announce")
  /\ status' = "logging_in"
  /\ Pass(r)
  /\ UNCHANGED <<known, client, session, logins, cooldown, dead, revived, late>>

Discard(r) ==
  /\ Ready(r, "discard")
  /\ client' = NoClient
  /\ Pass(r)
  /\ UNCHANGED <<known, session, logins, status, cooldown, dead, revived, late>>

LoggedIn(q, login) == Passed([q EXCEPT !.taken = login, !.attempts = 0])

\* The saved session is loaded, and Instagram is not asked whether it still is one.
LoadSession(r) ==
  /\ Ready(r, "login")
  /\ session # NoClient
  /\ request' = [request EXCEPT ![r] = LoggedIn(@, session)]
  /\ UNCHANGED <<store, late>>

\* There is none, or the last error of the account asks for the password.
LogInAgain(r) ==
  /\ Ready(r, "login")
  /\ logins \in 1..MaxLogins
  /\ logins' = logins + 1
  /\ request' = [request EXCEPT ![r] = LoggedIn(@, logins')]
  /\ UNCHANGED <<known, client, session, status, cooldown, dead, revived, late>>

Extended(half_hours) == IF half_hours > cooldown THEN half_hours ELSE cooldown

\* A failure that may be retried marks the cooldown as any other does.
LoginRetried(r) ==
  /\ Ready(r, "login")
  /\ request[r].attempts < MaxAttempts - 1
  /\ \E failure \in F!Failures :
       /\ failure.retryable
       /\ cooldown' = Extended(F!CooldownOf(failure))
  /\ request' = [request EXCEPT ![r].attempts = @ + 1]
  /\ UNCHANGED <<known, client, session, logins, status, dead, revived, late>>

LoginFails(r) ==
  /\ Ready(r, "login")
  /\ \E failure \in F!Failures :
       /\ failure.retryable => request[r].attempts = MaxAttempts - 1
       /\ request' = [request EXCEPT ![r] =
            Failed([@ EXCEPT !.attempts = 0], F!Class(failure))]
  /\ UNCHANGED <<store, late>>

\* The session that was loaded or made is written, whatever became of the account
\* and of the session meanwhile.
SaveSession(r) ==
  /\ Ready(r, "save")
  /\ session' = request[r].taken
  /\ revived' = revived \cup ({request[r].taken} \cap dead)
  /\ Pass(r)
  /\ UNCHANGED <<known, client, logins, status, cooldown, dead, late>>

Install(r) ==
  /\ Ready(r, "install")
  /\ client' = request[r].taken /\ status' = "active"
  /\ revived' = revived \cup ({request[r].taken} \cap dead)
  /\ Pass(r)
  /\ UNCHANGED <<known, session, logins, cooldown, dead, late>>

-----------------------------------------------------------------------------
(* What is done about a failure                                            *)

Due(r, duty) ==
  /\ request[r].duties # <<>> /\ Head(request[r].duties) = duty

Fulfil(r) == request' = [request EXCEPT ![r] = Fulfilled(@)]

\* A cooldown is extended, never shortened.
MarkLimited(r) ==
  /\ Due(r, "limit")
  /\ cooldown' = Extended(request[r].failure.cooldown)
  /\ Fulfil(r)
  /\ UNCHANGED <<known, client, session, logins, status, dead, revived, late>>

DropClient(r) ==
  /\ Due(r, "drop")
  /\ client' = NoClient
  /\ Fulfil(r)
  /\ UNCHANGED <<known, session, logins, status, cooldown, dead, revived, late>>

SetError(r) ==
  /\ Due(r, "error")
  /\ status' = "error"
  /\ Fulfil(r)
  /\ UNCHANGED <<known, client, session, logins, cooldown, dead, revived, late>>

\* The session is saved under the username, which the account's record has.
DeleteSession(r) ==
  /\ Due(r, "forget")
  /\ session' = IF known THEN NoClient ELSE session
  /\ Fulfil(r)
  /\ UNCHANGED <<known, client, logins, status, cooldown, dead, revived, late>>

Demote(r) ==
  /\ Due(r, "demote")
  /\ status' = request[r].failure.status
  /\ Fulfil(r)
  /\ UNCHANGED <<known, client, session, logins, cooldown, dead, revived, late>>

-----------------------------------------------------------------------------
(* What happens meanwhile                                                  *)

Logout ==
  /\ known
  /\ known' = FALSE /\ client' = NoClient /\ session' = NoClient
  /\ status' = "idle"
  /\ UNCHANGED <<logins, cooldown, request, dead, revived, late>>

\* The cooldown runs down by half an hour, or is ended by an operator.
CooldownEnds(left) ==
  /\ cooldown > 0
  /\ cooldown' = left
  /\ late' = IF left = 0 THEN [r \in Requests |-> 0] ELSE late
  /\ UNCHANGED <<known, client, session, logins, status, request, dead, revived>>

Tick == CooldownEnds(cooldown - 1)

ClearRateLimit == CooldownEnds(0)

Advance(r) ==
  \/ Start(r) \/ Reported(r)
  \/ CheckArgument(r) \/ CheckAccount(r) \/ CheckClient(r) \/ CheckRateLimit(r)
  \/ TakeClient(r) \/ CallWorks(r) \/ CallRefused(r) \/ RefusedUnseen(r)
  \/ CallFails(r) \/ ReadAnswer(r) \/ PublicCall(r) \/ SetVerified(r)
  \/ Announce(r) \/ Discard(r) \/ LoadSession(r) \/ LogInAgain(r)
  \/ LoginRetried(r) \/ LoginFails(r) \/ SaveSession(r) \/ Install(r)
  \/ MarkLimited(r) \/ DropClient(r) \/ SetError(r) \/ DeleteSession(r)
  \/ Demote(r)

Next ==
  \/ \E r \in Requests : Advance(r)
  \/ Logout \/ Tick \/ ClearRateLimit

Spec == Init /\ [][Next]_vars

-----------------------------------------------------------------------------
(* Properties                                                              *)

\* The stores of the account and the requests keep their types.
TypeOK ==
  /\ known \in BOOLEAN /\ logins \in Logins
  /\ {client, session} \subseteq Logins \cup {NoClient}
  /\ dead \cup revived \subseteq Logins
  /\ status \in Statuses /\ cooldown \in 0..F!LongestCooldown
  /\ late \in [Requests -> Nat]
  /\ \A r \in Requests :
       /\ request[r].stages \in Seq(Seq(Step))
       /\ request[r].taken \in Logins \cup {NoClient}
       /\ request[r].failure \in F!FailureClasses \cup {F!Unknown}
       /\ request[r].duties \in Seq(Duties)
       /\ request[r].report \in Reports
       /\ request[r].attempts \in 0..(MaxAttempts - 1)
       /\ request[r].wrote \in BOOLEAN
       /\ request[r].missed \subseteq {"write", "try", "blind"}

\* A tool that runs without an operator's approval changes nothing on Instagram,
\* in whichever layer below it the call is made (operator_copilot_policy.py).
ReadOnlyToolsNeverWrite ==
  \A r \in Requests : request[r].stages \in Unapproved =>
    \A i \in DOMAIN request[r].stages[1] : ~Writes(request[r].stages[1][i])

\* The caller reads "done" only if every change was made whose answer the adapter
\* looks at: no failure and no refusal is lost on the way up.  It reads something
\* else only if no change was made, so that repeating the call repeats nothing;
\* what remains is an error over the answer, or over reading the account again.
WritesAreReported ==
  \A r \in Requests :
    /\ request[r].report = "done" => request[r].missed \subseteq {"blind"}
    /\ request[r].report \in {"unsuccessful", "none"} => ~request[r].wrote
    /\ request[r].report = "error" /\ request[r].wrote =>
         NextStep(r).do \in {"read", "answer"}

\* While an account cools down a request takes its client once at most, having
\* passed the guard before: a batch or a name looked up first does not go on
\* asking (client_guard.py).
LimitHolds == \A r \in Requests : late[r] <= 1

\* A login Instagram was seen to have ended is neither in use nor saved, as soon as
\* who saw it is done (_evict_dead_session), unless a relogin put it back that had
\* loaded it before; whoever uses it then takes it away again.
DeadSessionsAreDropped ==
  \A login \in {client} \cup {saved \in {session} : known} :
    login \in dead \ revived =>
      \E r \in Requests, i \in 1..3 :
        i \in DOMAIN request[r].duties /\ request[r].duties[i] = "forget"

\* While it is not logged out, an account loses its client only to a relogin, which
\* drops it before it has another, or to a failure that waiting cannot cure, and its
\* saved session only to the latter: after a limit or a network error, be it one of
\* the relogin, there is a session to go on with (status_from_failure with
\* keep_transient, pop_client instead of a logout).
TransientFailureKeepsSession ==
  [][known' =>
       /\ client # NoClient /\ client' = NoClient =>
            \E r \in Requests :
              \/ Ready(r, "discard")
              \/ Due(r, "drop") /\ ~request[r].failure.transient
       /\ session # NoClient /\ session' = NoClient =>
            \E r \in Requests :
              Due(r, "forget") /\ ~request[r].failure.transient]_vars
=============================================================================
