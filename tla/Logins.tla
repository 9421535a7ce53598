------------------------------- MODULE Logins -------------------------------
(* Logging accounts in and out: login, 2FA, relogin (single, bulk and at      *)
(* startup), connectivity probes, profile hydration, the import of saved      *)
(* sessions and logout (account_auth.py, account/relogin.py,                  *)
(* account_connectivity.py, account_import.py, instagram_runtime/auth.py and  *)
(* relogin.py), over the resolver of Challenges.                              *)
(*                                                                            *)
(* Each request is a thread. What it knows of an account is spread over four  *)
(* stores with no lock in common: the account records (kept in a file), the   *)
(* live clients, the statuses and the session files. A request reads some,    *)
(* spends seconds in a call to Instagram, and then writes others. The unit of *)
(* work is empty in the in-memory backend, which is the one modelled.         *)
EXTENDS Challenges

CONSTANTS Boot,           \* the request that is the restore task of a startup
          MaxAttempts,    \* _MAX_RELOGIN_ATTEMPTS
          VerifyRestored, \* verify_session_on_restore
          MaxStarts,      \* bound: requests in a behaviour
          MaxRestarts     \* bound: restarts of the service

ASSUME LoginAssumption ==
  /\ Boot \in Requests
  /\ MaxAttempts \in Nat \ {0}
  /\ VerifyRestored \in BOOLEAN
  /\ MaxStarts \in Nat
  /\ MaxRestarts \in Nat

VARIABLES record,     \* id -> account record, or NoRecord
          owner,      \* id -> username it was created for, None if unused
          imported,   \* history: ids created by an import of sessions
          client,     \* id -> live client: what Instagram thinks of its session
          status,     \* id -> account status ("idle" when none is stored)
          session,    \* username -> session file
          pending2fa, \* usernames with a client that waits for a 2FA code
          req,        \* what each request is doing
          toRestore,  \* accounts the restore task has still to log in
          starts,     \* requests so far, those of the restore task left out
          restarts,   \* restarts so far
          raced       \* history: usernames two requests worked on at a time

accountVars == <<record, owner, imported, client, status, session, pending2fa>>
vars == <<accountVars, resolverVars, req, toRestore, starts, restarts, raced>>
stores == <<record, client, status>>

-----------------------------------------------------------------------------
Sessions == {"none", "alive", "dead"}
Errors == {"none", "login_required", "challenge", "other"}
Statuses == {"idle", "logging_in", "active", "error", "challenge",
             "challenge_pending", "2fa_required"}
Faults == {"none", "transient", "challenge", "two_factor", "login_required", "error"}
\* pw: the record has the password of the account (then its username too)
Records == [user : Users, pw : BOOLEAN, err : Errors]
             \union [user : {None}, pw : {FALSE}, err : Errors]
NoRecord == [user |-> None, pw |-> FALSE, err |-> "absent"]

Relogins == {"relogin", "bulk", "restore"}
Ops == Relogins \union {"none", "login", "twofactor", "logout", "verify", "import"}
Pcs == {"idle", "find", "record", "queued", "pop", "call", "prompted", "coded",
        "activate", "settle", "failed", "probe", "probed", "popped", "archive", "archived"}
Idle == [op |-> "none", pc |-> "idle", id |-> None, user |-> None, tries |-> 0,
         fresh |-> FALSE, got |-> "none", fault |-> "none"]
RequestStates ==
  [op : Ops, pc : Pcs, id : AccountIds \union {None}, user : Users \union {None},
   tries : 0..MaxAttempts, fresh : BOOLEAN, got : Sessions, fault : Faults]

Exists(id) == record[id] # NoRecord
IdsOf(u) == {id \in AccountIds : Exists(id) /\ record[id].user = u}
InProgress(r) == req[r].pc # "idle"

\* update_account of the in-memory store creates the record it does not find.
Updated(id, err) ==
  [record EXCEPT ![id] = IF Exists(id) THEN [@ EXCEPT !.err = err]
                         ELSE [user |-> None, pw |-> FALSE, err |-> err]]
Touched(id) == IF Exists(id) THEN record ELSE Updated(id, "none")

\* status_from_failure with keep_transient: "" leaves the status alone.
StatusFrom(fault) ==
  CASE fault = "challenge" -> "challenge"
    [] fault = "two_factor" -> "2fa_required"
    [] fault = "transient" -> ""
    [] OTHER -> "error"
StatusAfter(id, fault) ==
  IF StatusFrom(fault) = "" THEN status ELSE [status EXCEPT ![id] = StatusFrom(fault)]

ErrorOf(fault) ==
  CASE fault \in {"none", "login_required", "challenge"} -> fault
    [] OTHER -> "other"

\* should_use_fresh_credentials_relogin
NeedsFresh(err) == err \in {"login_required", "challenge"}

-----------------------------------------------------------------------------
\* The service has started and the restore of the accounts in its file, one per
\* username, has logged them all in.
IdOf(o, u) ==
  IF \E id \in AccountIds : o[id] = u THEN CHOOSE id \in AccountIds : o[id] = u ELSE None
OnFile(o) == \A i, j \in AccountIds : o[i] = o[j] => i = j \/ o[i] = None

Init ==
  /\ owner \in {o \in [AccountIds -> Users \union {None}] : OnFile(o)}
  /\ ResolverInit
  /\ routed = [u \in Users |-> IdOf(owner, u)]
  /\ record = [id \in AccountIds |->
                 IF owner[id] = None THEN NoRecord
                 ELSE [user |-> owner[id], pw |-> TRUE, err |-> "none"]]
  /\ imported = {}
  /\ client = [id \in AccountIds |-> IF owner[id] = None THEN "none" ELSE "alive"]
  /\ status = [id \in AccountIds |-> IF owner[id] = None THEN "idle" ELSE "active"]
  /\ session = [u \in Users |-> IF \E id \in AccountIds : owner[id] = u THEN "alive" ELSE "none"]
  /\ pending2fa = {}
  /\ req = [r \in Requests |-> Idle]
  /\ toRestore = {}
  /\ starts = 0
  /\ restarts = 0
  /\ raced = {}

\* A request r that is at pc goes on as described by the fields of new.
At(r, pc) == req[r].pc = pc
Become(r, new) == req' = [req EXCEPT ![r] = new]
Goto(r, pc) == req' = [req EXCEPT ![r].pc = pc]
Finish(r) == Become(r, Idle)
Fail(r, fault) == req' = [req EXCEPT ![r].pc = "failed", ![r].fault = fault]

Begin(r, op, pc, id, u) ==
  /\ Become(r, [Idle EXCEPT !.op = op, !.pc = pc, !.id = id, !.user = u])
  /\ raced' = IF \E s \in Requests \ {r} : InProgress(s) /\ req[s].user = u
              THEN raced \union ({u} \ {None}) ELSE raced
  /\ UNCHANGED <<accountVars, resolverVars, restarts>>

StartLogin(r, u) ==
  /\ At(r, "idle") /\ r # Boot /\ starts < MaxStarts
  /\ Begin(r, "login", "find", None, u)
  /\ starts' = starts + 1
  /\ UNCHANGED toRestore

StartImport(r, u) ==
  /\ At(r, "idle") /\ r # Boot /\ starts < MaxStarts
  /\ Begin(r, "import", "archive", None, u)
  /\ starts' = starts + 1
  /\ UNCHANGED toRestore

StartOn(r, op, id) ==
  /\ At(r, "idle") /\ r # Boot /\ starts < MaxStarts
  /\ op \in {"relogin", "bulk", "twofactor", "logout", "verify"}
  /\ owner[id] # None
  /\ Begin(r, op, "queued", id, owner[id])
  /\ starts' = starts + 1
  /\ UNCHANGED toRestore

\* _restore_sessions: one account after the other.
StartRestore(id) ==
  /\ ~InProgress(Boot) /\ id \in toRestore
  /\ Begin(Boot, "restore", "queued", id, owner[id])
  /\ toRestore' = toRestore \ {id}
  /\ UNCHANGED starts

-----------------------------------------------------------------------------
(* login_account: find the account, write its record, log in.                *)
Find(r) ==
  LET u == req[r].user IN
  /\ At(r, "find")
  /\ \/ \E id \in IdsOf(u) :
          /\ Become(r, [req[r] EXCEPT !.id = id,
                          !.pc = IF client[id] # "none" THEN "probe" ELSE "record"])
          /\ UNCHANGED owner
     \/ /\ IdsOf(u) = {}
        /\ \E id \in AccountIds :
             /\ owner[id] = None
             /\ owner' = [owner EXCEPT ![id] = u]
             /\ Become(r, [req[r] EXCEPT !.id = id, !.pc = "record"])
  /\ UNCHANGED <<stores, imported, session, pending2fa, resolverVars,
                 toRestore, starts, restarts, raced>>

Record(r) ==
  LET id == req[r].id IN
  /\ At(r, "record")
  /\ record' = [record EXCEPT ![id] =
                  [user |-> req[r].user, pw |-> TRUE, err |-> IF Exists(id) THEN @.err ELSE "none"]]
  /\ Register(id, req[r].user)
  /\ Goto(r, "call")
  /\ UNCHANGED <<owner, imported, client, status, session, pending2fa, pending, entry, replaced,
                 toRestore, starts, restarts, raced>>

-----------------------------------------------------------------------------
(* import_session_archive, for one username of the archive: the session file  *)
(* is written, whatever it is worth, and a new record made, also for a        *)
(* username that has one. The record has no password.                         *)
SaveArchived(r) ==
  /\ At(r, "archive")
  /\ \E s \in {"alive", "dead"} : session' = [session EXCEPT ![req[r].user] = s]
  /\ Goto(r, "archived")
  /\ UNCHANGED <<stores, owner, imported, pending2fa, resolverVars,
                 toRestore, starts, restarts, raced>>

ImportAccount(r) ==
  /\ At(r, "archived")
  /\ \E id \in AccountIds :
       /\ owner[id] = None
       /\ owner' = [owner EXCEPT ![id] = req[r].user]
       /\ imported' = imported \union {id}
       /\ record' = [record EXCEPT ![id] = [user |-> req[r].user, pw |-> FALSE, err |-> "none"]]
  /\ Finish(r)
  /\ UNCHANGED <<client, status, session, pending2fa, resolverVars,
                 toRestore, starts, restarts, raced>>

-----------------------------------------------------------------------------
(* Relogin: the context, the status, then the old client goes.               *)
\* Faulty variant: the per-account lock is not taken.
BulkLockedNever(r) == FALSE

BulkLocked(r) ==
  \E s \in Requests \ {r} :
    req[s].op = "bulk" /\ req[s].id = req[r].id /\ req[s].pc \notin {"idle", "queued"}

BeginRelogin(r) ==
  LET id == req[r].id IN
  /\ At(r, "queued") /\ req[r].op \in Relogins
  /\ req[r].op = "bulk" => ~BulkLocked(r)
  /\ IF ~record[id].pw
     THEN Finish(r) /\ UNCHANGED <<status, routed>>  \* no stored password
     ELSE /\ Become(r, [req[r] EXCEPT !.pc = "pop", !.fresh = NeedsFresh(record[id].err),
                          !.user = record[id].user])
          /\ status' = [status EXCEPT ![id] = "logging_in"]
          /\ IF req[r].op = "bulk" THEN UNCHANGED routed ELSE Register(id, record[id].user)
  /\ UNCHANGED <<record, owner, imported, client, session, pending2fa, pending, entry, replaced,
                 toRestore, starts, restarts, raced>>

PopClient(r) ==
  /\ At(r, "pop")
  /\ client' = [client EXCEPT ![req[r].id] = "none"]
  /\ Goto(r, "call")
  /\ UNCHANGED <<record, owner, imported, status, session, pending2fa, resolverVars,
                 toRestore, starts, restarts, raced>>

-----------------------------------------------------------------------------
(* The call to Instagram.                                                    *)
\* The saved session is loaded; unless it is verified, nobody asks Instagram.
RestoreSession(r) ==
  LET s == session[req[r].user] IN
  /\ At(r, "call") /\ req[r].op # "twofactor" /\ ~req[r].fresh
  /\ s = "alive" \/ (s = "dead" /\ ~VerifyRestored)
  /\ req' = [req EXCEPT ![r].pc = "activate", ![r].got = s]
  /\ UNCHANGED <<accountVars, resolverVars, toRestore, starts, restarts, raced>>

LoggingIn(r) == req[r].pc \in {"call", "coded"}

CredentialsAccepted(r) ==
  /\ LoggingIn(r)
  /\ req' = [req EXCEPT ![r].pc = "activate", ![r].got = "alive"]
  /\ session' = [session EXCEPT ![req[r].user] = "alive"]
  /\ UNCHANGED <<stores, owner, imported, pending2fa, resolverVars, toRestore, starts, restarts, raced>>

CredentialsRefused(r, fault) ==
  /\ LoggingIn(r)
  /\ fault \in {"transient", "challenge", "two_factor", "error"}
  /\ Fail(r, fault)
  /\ pending2fa' = IF fault = "two_factor" /\ req[r].op # "twofactor"
                   THEN pending2fa \union {req[r].user} ELSE pending2fa
  /\ UNCHANGED <<stores, owner, imported, session, resolverVars, toRestore, starts, restarts, raced>>

\* The SDK asks for a code: the thread waits in the resolver.
AskForCode(r) ==
  /\ At(r, "call")
  /\ Prompt(r, req[r].user)
  /\ Goto(r, "prompted")
  /\ UNCHANGED <<accountVars, toRestore, starts, restarts, raced>>

WaitStep(r) ==
  /\ At(r, "prompted")
  /\ Wake(r) \/ Expire(r)
  /\ UNCHANGED <<accountVars, req, toRestore, starts, restarts, raced>>

\* A timeout and a cancellation both come back as a challenge failure.
EndWait(r) ==
  /\ At(r, "prompted")
  /\ LeaveWait(r)
  /\ IF GotCode(r) THEN Goto(r, "coded") ELSE Fail(r, "challenge")
  /\ UNCHANGED <<accountVars, toRestore, starts, restarts, raced>>

\* relogin_account_sync tries again after a transient failure.
Retry(r) ==
  /\ At(r, "failed") /\ req[r].op \in Relogins
  /\ req[r].fault = "transient" /\ req[r].tries < MaxAttempts - 1
  /\ req' = [req EXCEPT ![r].pc = "call", ![r].tries = @ + 1]
  /\ UNCHANGED <<accountVars, resolverVars, toRestore, starts, restarts, raced>>

-----------------------------------------------------------------------------
(* The outcome is written.                                                   *)
Activate(r) ==
  LET id == req[r].id IN
  /\ At(r, "activate")
  /\ client' = [client EXCEPT ![id] = req[r].got]
  /\ status' = [status EXCEPT ![id] = "active"]
  /\ Goto(r, IF req[r].op \in Relogins THEN "settle" ELSE "probe")
  /\ UNCHANGED <<record, owner, imported, session, pending2fa, resolverVars,
                 toRestore, starts, restarts, raced>>

Settle(r) ==
  LET id == req[r].id IN
  /\ At(r, "settle")
  /\ status' = [status EXCEPT ![id] = "active"]
  /\ record' = Updated(id, "none")
  /\ IF req[r].op = "bulk" THEN Finish(r) ELSE Goto(r, "probe")
  /\ UNCHANGED <<owner, imported, client, session, pending2fa, resolverVars,
                 toRestore, starts, restarts, raced>>

\* Faulty variant: any challenge counts as pending.
StillPendingAlways(r) == req[r].fault = "challenge"

\* A challenge counts as pending if the account has an entry at that moment;
\* the one of this very login is gone by then.
StillPending(r) == req[r].fault = "challenge" /\ HasPending(req[r].id)

LoginFails(r) ==
  LET id == req[r].id IN
  /\ At(r, "failed") /\ req[r].op = "login"
  /\ \/ req[r].fault = "two_factor" /\ UNCHANGED stores
     \/ /\ StillPending(r)
        /\ status' = [status EXCEPT ![id] = "challenge_pending"]
        /\ record' = Updated(id, "challenge")
        /\ UNCHANGED client
     \/ /\ req[r].fault # "two_factor" /\ ~StillPending(r)
        /\ record' = [record EXCEPT ![id] = NoRecord]
        /\ UNCHANGED <<client, status>>
  /\ Finish(r)
  /\ UNCHANGED <<owner, imported, session, pending2fa, resolverVars, toRestore, starts, restarts, raced>>

ReloginFails(r) ==
  LET id == req[r].id IN
  /\ At(r, "failed") /\ req[r].op \in Relogins
  /\ req[r].fault = "transient" => req[r].tries = MaxAttempts - 1
  /\ status' = IF StillPending(r) /\ req[r].op # "bulk"
               THEN [status EXCEPT ![id] = "challenge_pending"]
               ELSE StatusAfter(id, req[r].fault)
  /\ record' = Updated(id, ErrorOf(req[r].fault))
  /\ Finish(r)
  /\ UNCHANGED <<client, owner, imported, session, pending2fa, resolverVars,
                 toRestore, starts, restarts, raced>>

-----------------------------------------------------------------------------
(* complete_2fa_login: the client that waits for the code is taken, or a new  *)
(* one made; a refused code leaves everything else as it is.                  *)
BeginTwoFactor(r) ==
  LET u == record[req[r].id].user IN
  /\ At(r, "queued") /\ req[r].op = "twofactor"
  /\ IF u = None
     THEN Finish(r) /\ UNCHANGED pending2fa
     ELSE /\ pending2fa' = pending2fa \ {u}
          /\ Become(r, [req[r] EXCEPT !.pc = "call", !.user = u])
  /\ UNCHANGED <<stores, owner, imported, session, resolverVars, toRestore, starts, restarts, raced>>

TwoFactorFails(r) ==
  /\ At(r, "failed") /\ req[r].op = "twofactor"
  /\ Finish(r)
  /\ UNCHANGED <<accountVars, resolverVars, toRestore, starts, restarts, raced>>

-----------------------------------------------------------------------------
(* Probes: verify_account_connectivity, and hydrate_account_profile as the    *)
(* background task of a successful login.                                     *)
BeginVerify(r) ==
  LET id == req[r].id IN
  /\ At(r, "queued") /\ req[r].op = "verify"
  /\ IF Exists(id) /\ client[id] # "none" THEN Goto(r, "probe") ELSE Finish(r)
  /\ UNCHANGED <<accountVars, resolverVars, toRestore, starts, restarts, raced>>

\* get_guarded_client, then account_info. A missing client is not an answer
\* of Instagram: the caller takes it for a transient failure.
Probe(r) ==
  LET c == client[req[r].id] IN
  /\ At(r, "probe")
  /\ \E fault \in {"none", "transient", "challenge", "login_required"} :
       /\ c = "none" => fault = "transient"
       /\ c = "dead" => fault \in {"transient", "login_required"}
       /\ c = "alive" => fault # "login_required"
       /\ req' = [req EXCEPT ![r].pc = "probed", ![r].fault = fault]
  /\ UNCHANGED <<accountVars, resolverVars, toRestore, starts, restarts, raced>>

ProbeSucceeds(r) ==
  LET id == req[r].id IN
  /\ At(r, "probed") /\ req[r].fault = "none"
  /\ IF req[r].op = "verify"
     THEN record' = Updated(id, "none") /\ status' = [status EXCEPT ![id] = "active"]
     ELSE record' = Touched(id) /\ UNCHANGED status
  /\ Finish(r)
  /\ UNCHANGED <<client, owner, imported, session, pending2fa, resolverVars,
                 toRestore, starts, restarts, raced>>

\* Faulty variant: the client of a session that is gone stays.
EvictedNot(id) == client

\* A hard failure evicts whatever client the account has by now.
Evicted(id) == [client EXCEPT ![id] = "none"]

\* login_required takes the session file along (_evict_dead_session).
SessionAfter(id, fault) ==
  IF fault = "login_required" /\ record[id].user # None
  THEN [session EXCEPT ![record[id].user] = "none"] ELSE session

ProbeFails(r) ==
  LET id == req[r].id
      fault == req[r].fault
      hard == StatusFrom(fault) # "" IN
  /\ At(r, "probed") /\ fault # "none"
  /\ status' = StatusAfter(id, fault)
  /\ client' = IF hard THEN Evicted(id) ELSE client
  /\ session' = SessionAfter(id, fault)
  /\ record' = IF hard \/ req[r].op = "verify" THEN Updated(id, ErrorOf(fault)) ELSE record
  /\ Finish(r)
  /\ UNCHANGED <<owner, imported, pending2fa, resolverVars, toRestore, starts, restarts, raced>>

-----------------------------------------------------------------------------
(* logout_account: the client goes, Instagram is told, the rest goes.        *)
BeginLogout(r) ==
  LET id == req[r].id IN
  /\ At(r, "queued") /\ req[r].op = "logout"
  /\ IF Exists(id)
     THEN /\ client' = [client EXCEPT ![id] = "none"]
          /\ Become(r, [req[r] EXCEPT !.pc = "popped", !.user = record[id].user])
     ELSE Finish(r) /\ UNCHANGED client
  /\ UNCHANGED <<record, owner, imported, status, session, pending2fa, resolverVars,
                 toRestore, starts, restarts, raced>>

FinishLogout(r) ==
  LET id == req[r].id IN
  /\ At(r, "popped")
  /\ session' = IF req[r].user = None THEN session ELSE [session EXCEPT ![req[r].user] = "none"]
  /\ status' = [status EXCEPT ![id] = "idle"]
  /\ record' = [record EXCEPT ![id] = NoRecord]
  /\ Finish(r)
  /\ UNCHANGED <<owner, imported, client, pending2fa, resolverVars, toRestore, starts, restarts, raced>>

-----------------------------------------------------------------------------
(* The operator answers, Instagram ends sessions, the service restarts.      *)
OperatorAnswers(id) ==
  /\ Exists(id)
  /\ Submit(id) \/ CancelChallenge(id)
  /\ UNCHANGED <<accountVars, req, toRestore, starts, restarts, raced>>

\* All sessions of a user end.
ForceLogout(u) ==
  /\ session[u] = "alive" \/ \E id \in AccountIds : owner[id] = u /\ client[id] = "alive"
  /\ session' = [session EXCEPT ![u] = IF @ = "alive" THEN "dead" ELSE @]
  /\ client' = [id \in AccountIds |->
                  IF owner[id] = u /\ client[id] = "alive" THEN "dead" ELSE client[id]]
  /\ req' = [r \in Requests |->
               IF req[r].user = u /\ req[r].got = "alive" THEN [req[r] EXCEPT !.got = "dead"]
               ELSE req[r]]
  /\ UNCHANGED <<record, owner, imported, status, pending2fa, resolverVars,
                 toRestore, starts, restarts, raced>>

\* Records and session files are on disk, the rest is in memory.
Restart ==
  /\ restarts < MaxRestarts
  /\ restarts' = restarts + 1
  /\ toRestore' = {id \in AccountIds : Exists(id)}
  /\ client' = [id \in AccountIds |-> "none"]
  /\ status' = [id \in AccountIds |-> "idle"]
  /\ pending2fa' = {}
  /\ routed' = [u \in Users |-> None]
  /\ pending' = [k \in Keys |-> None]
  /\ entry' = [r \in Requests |-> NoEntry]
  /\ replaced' = {}
  /\ raced' = raced \union ({req[r].user : r \in {s \in Requests : InProgress(s)}} \ {None})
  /\ req' = [r \in Requests |-> Idle]
  /\ UNCHANGED <<record, owner, imported, session, starts>>

-----------------------------------------------------------------------------
LoginStep(r) == Find(r) \/ Record(r) \/ LoginFails(r)
ReloginStep(r) == BeginRelogin(r) \/ PopClient(r) \/ Retry(r) \/ Settle(r) \/ ReloginFails(r)
CallStep(r) ==
  \/ RestoreSession(r) \/ CredentialsAccepted(r) \/ AskForCode(r) \/ WaitStep(r) \/ EndWait(r)
  \/ \E fault \in Faults : CredentialsRefused(r, fault)
ImportStep(r) == SaveArchived(r) \/ ImportAccount(r)
OtherStep(r) ==
  \/ Activate(r) \/ BeginTwoFactor(r) \/ TwoFactorFails(r)
  \/ BeginVerify(r) \/ Probe(r) \/ ProbeSucceeds(r) \/ ProbeFails(r)
  \/ BeginLogout(r) \/ FinishLogout(r)
RequestStep(r) ==
  LoginStep(r) \/ ReloginStep(r) \/ CallStep(r) \/ ImportStep(r) \/ OtherStep(r)

Start(r) ==
  \/ \E u \in Users : StartLogin(r, u) \/ StartImport(r, u)
  \/ \E id \in AccountIds, op \in Ops : StartOn(r, op, id)

Next ==
  \/ \E r \in Requests : Start(r) \/ RequestStep(r)
  \/ \E id \in AccountIds : StartRestore(id) \/ OperatorAnswers(id)
  \/ \E u \in Users : ForceLogout(u)
  \/ Restart

Spec == Init /\ [][Next]_vars

\* Threads keep running and waits time out; the restore task takes its turns.
Fairness ==
  /\ \A r \in Requests : WF_vars(RequestStep(r))
  /\ WF_vars(\E id \in AccountIds : StartRestore(id))

FairSpec == Spec /\ Fairness

-----------------------------------------------------------------------------
\* Every store, the resolver and every request keep their types.
TypeOK ==
  /\ ResolverTypeOK
  /\ record \in [AccountIds -> Records \union {NoRecord}]
  /\ owner \in [AccountIds -> Users \union {None}]
  /\ imported \subseteq AccountIds
  /\ client \in [AccountIds -> Sessions]
  /\ status \in [AccountIds -> Statuses]
  /\ session \in [Users -> Sessions]
  /\ pending2fa \subseteq Users
  /\ req \in [Requests -> RequestStates]
  /\ toRestore \subseteq AccountIds
  /\ starts \in 0..MaxStarts
  /\ restarts \in 0..MaxRestarts
  /\ raced \subseteq Users

\* Where no two requests ever worked on a username at a time, the stores agree
\* once its requests have ended: logins made one account at most for it (an
\* import of sessions makes another one each time), a live client belongs to an
\* account that is on record, and "active" stands for a live client. Logins,
\* 2FA, relogins with retries, challenges, imports, probes that evict and
\* logouts each write these stores in steps of their own.
UnracedAccountsAgree ==
  \A u \in Users \ raced :
    (\A r \in Requests : req[r].user = u => ~InProgress(r)) =>
      /\ \A i, j \in IdsOf(u) \ imported : i = j
      /\ \A id \in AccountIds : owner[id] = u =>
           /\ (client[id] # "none") <=> (status[id] = "active")
           /\ client[id] # "none" => Exists(id)

\* "Per-account locks to prevent duplicate relogin attempts on the same
\* account": two bulk relogins never log the same account in at a time.
BulkTakesTurns ==
  \A r, s \in Requests :
    /\ req[r].op = "bulk" /\ req[s].op = "bulk" /\ req[r].id = req[s].id
    /\ req[r].pc \notin {"idle", "queued"}
    /\ req[s].pc \notin {"idle", "queued"}
    => r = s

\* An account is declared "challenge_pending" only while an entry for it is
\* listed, so that there is a login the operator's code would reach.
PendingStatusHasEntry ==
  [][\A id \in AccountIds :
       status'[id] = "challenge_pending" /\ status[id] # "challenge_pending"
         => pending'[id] # None /\ InWait(pending'[id])]_vars

\* Every request comes to an end, also one nobody answers; so does the restore
\* after a restart, which the jobs of the queue wait for.
RequestsEnd == \A r \in Requests : InProgress(r) ~> ~InProgress(r)
RestoreEnds == toRestore # {} ~> toRestore = {} /\ ~InProgress(Boot)
=============================================================================
