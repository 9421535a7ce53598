---------------------------- MODULE LoginsProofs -----------------------------
(* Logins and challenge codes, for any number of requests, usernames,        *)
(* accounts, attempts and restarts: entries of the resolver match the waits  *)
(* behind them, bulk relogins of an account take turns, and the four stores  *)
(* agree on an account that no two requests worked on at a time. The         *)
(* inductive invariant says what a request knows at each of its steps of the *)
(* account it works on.                                                      *)
EXTENDS Logins, TLAPS

Calling == {"call", "prompted", "coded", "failed", "activate"}
\* Before these requests have an account.
Early == {"find", "archive", "archived"}
USE DEF Early
CallOps == Relogins \union {"login", "twofactor"}

\* The steps of a request are those of its operation.
ShapeOf(q) ==
  /\ q.pc \notin {"idle"} \union Early => q.id \in AccountIds
  /\ q.pc \in {"record", "pop", "settle"} \union Early \union Calling => q.user \in Users
  /\ q.pc \in {"find", "record"} => q.op = "login"
  /\ q.pc \in {"archive", "archived"} => q.op = "import"
  /\ q.pc \in Early => q.id = None
  /\ q.pc \in {"pop", "settle"} => q.op \in Relogins
  /\ q.pc \in Calling => q.op \in CallOps
  /\ q.pc \in {"probe", "probed"} => q.op \in CallOps \union {"verify"}
  /\ q.pc = "popped" => q.op = "logout"
  /\ q.pc = "queued" => q.op # "login"
  /\ q.pc = "activate" => q.got # "none"

TypeInv == TypeOK /\ \A r \in Requests : ShapeOf(req[r])

\* A wait is listed under a key.
WaitInv == EntriesMatchWaits /\ \A r \in Requests : InWait(r) => entry[r].key \in Keys

-----------------------------------------------------------------------------
\* What the stores say of an account: it is up, down, or at least they agree.
Live(id) == client[id] # "none"
Active(id) == status[id] = "active"
Agreed(id) == (Live(id) <=> Active(id)) /\ (Live(id) => Exists(id))
Up(id) == Exists(id) /\ Live(id) /\ Active(id)
Down(id) == Exists(id) /\ ~Live(id) /\ ~Active(id)

\* The accounts of a username that logins made.
Own(u) == IdsOf(u) \ imported

\* An account belongs to the username it was created for, if to any, and so does
\* the work on it; a request that lost sight of the username was raced.
OwnerInv ==
  /\ \A id \in AccountIds :
       /\ owner[id] = None => ~Exists(id) /\ ~Live(id) /\ status[id] = "idle"
       /\ record[id].user \in {owner[id], None}
  /\ \A id \in toRestore : owner[id] # None
  /\ \A r \in Requests :
       InProgress(r) /\ req[r].id # None =>
         /\ owner[req[r].id] # None
         /\ req[r].user \in {owner[req[r].id], None}
         /\ req[r].user = None => owner[req[r].id] \in raced

\* One request at a time works on a username that was not raced.
Alone ==
  \A r, s \in Requests :
    InProgress(r) /\ InProgress(s) /\ req[r].user = req[s].user
      /\ req[r].user \in Users \ raced => r = s

\* What a request of such a username knows of its account.
Knows(r) ==
  LET id == req[r].id
      pc == req[r].pc IN
  /\ pc = "record" => ~Live(id) /\ ~Active(id) /\ (id \in imported \/ Own(req[r].user) \subseteq {id})
  /\ pc = "queued" => Agreed(id)
  /\ pc = "pop" => Exists(id) /\ ~Active(id)
  /\ pc \in Calling => IF req[r].op = "twofactor" THEN Exists(id) /\ Agreed(id) ELSE Down(id)
  /\ pc \in {"settle", "probe", "probed"} => Up(id)
  /\ pc = "popped" => ~Live(id)

WorkedOn(id) == \E r \in Requests : InProgress(r) /\ req[r].id = id

StoresInv ==
  /\ \A id \in AccountIds :
       owner[id] \in Users \ raced =>
         /\ Exists(id) => record[id].user = owner[id]
         /\ Agreed(id) \/ WorkedOn(id)
  /\ \A u \in Users \ raced : \A i, j \in Own(u) : i = j
  /\ \A r \in Requests : InProgress(r) /\ req[r].user \in Users \ raced => Knows(r)

IInv == TypeInv /\ WaitInv /\ BulkTakesTurns /\ OwnerInv /\ Alone /\ StoresInv

-----------------------------------------------------------------------------
(* Types.                                                                    *)

\* The state of a request goes from one of its operation's steps to another.
GoesTo(r, q) ==
  /\ q \in RequestStates /\ ShapeOf(q)
  /\ req' = [req EXCEPT ![r] = q]
  /\ q.pc # "idle" => q.op = req[r].op /\ q.pc # "queued"
                      /\ q.id = IF req[r].pc = "find" THEN q.id ELSE req[r].id

LEMMA RequestType ==
  ASSUME TypeInv, NEW r \in Requests, NEW q, GoesTo(r, q)
  PROVE  /\ req' \in [Requests -> RequestStates] /\ \A s \in Requests : ShapeOf(req'[s])
         /\ req'[r] = q /\ \A s \in Requests : s # r => req'[s] = req[s]
BY DEF TypeInv, TypeOK, GoesTo

LEMMA RecordType ==
  ASSUME record \in [AccountIds -> Records \union {NoRecord}], NEW id \in AccountIds
  PROVE  /\ record[id].user \in Users \union {None}
         /\ record[id].pw => record[id].user \in Users /\ Exists(id)
<1>1. CASE record[id] \in [user : Users, pw : BOOLEAN, err : Errors]
  <2>1. record[id].err # NoRecord.err
    BY <1>1 DEF Errors, NoRecord
  <2>. QED
    BY <1>1, <2>1 DEF Exists
<1>2. CASE record[id] \in [user : {None}, pw : {FALSE}, err : Errors]
  BY <1>2
<1>3. CASE record[id] = NoRecord
  BY <1>3 DEF NoRecord
<1>. QED
  BY <1>1, <1>2, <1>3 DEF Records

LEMMA IdleType == Idle \in RequestStates /\ ShapeOf(Idle)
BY LoginAssumption
   DEF Idle, RequestStates, ShapeOf, Ops, Relogins, Pcs, Sessions, Faults, Calling, CallOps

LEMMA FinishGoes ==
  ASSUME TypeInv, NEW r \in Requests, Finish(r)
  PROVE  GoesTo(r, Idle)
BY IdleType DEF GoesTo, Finish, Become, Idle

\* A request that goes on keeps its operation and, once it has one, its account.
LEMMA StateGoes ==
  ASSUME TypeInv, NEW r \in Requests, NEW q \in RequestStates, ShapeOf(q),
         req' = [req EXCEPT ![r] = q], q.pc # "queued", q.op = req[r].op,
         req[r].pc # "find" => q.id = req[r].id
  PROVE  \E p : GoesTo(r, p)
<1>1. GoesTo(r, q)
  BY DEF GoesTo
<1>. QED
  BY <1>1

LEMMA LoginGoes ==
  ASSUME TypeInv, NEW r \in Requests, LoginStep(r)
  PROVE  \E q : GoesTo(r, q)
<1>1. req[r] \in RequestStates /\ ShapeOf(req[r]) /\ req \in [Requests -> RequestStates]
  BY DEF TypeInv, TypeOK
<1>2. ASSUME NEW id \in AccountIds, NEW pc \in {"probe", "record"}, At(r, "find"),
             Become(r, [req[r] EXCEPT !.id = id, !.pc = pc])
      PROVE  GoesTo(r, [req[r] EXCEPT !.id = id, !.pc = pc])
  <2>1. [req[r] EXCEPT !.id = id, !.pc = pc] \in RequestStates
    BY <1>1 DEF RequestStates, Pcs
  <2>2. ShapeOf([req[r] EXCEPT !.id = id, !.pc = pc])
    BY <1>1, <1>2 DEF RequestStates, ShapeOf, At, CallOps, Calling
  <2>. QED
    BY <1>1, <1>2, <2>1, <2>2 DEF GoesTo, Become, At, RequestStates
<1>3. CASE Find(r)
  BY <1>2, <1>3 DEF Find, IdsOf
<1>4. CASE Record(r)
  <2>1. req' = [req EXCEPT ![r] = [req[r] EXCEPT !.pc = "call"]]
    BY <1>1, <1>4 DEF Record, Goto
  <2>2. [req[r] EXCEPT !.pc = "call"] \in RequestStates
    BY <1>1 DEF RequestStates, Pcs
  <2>3. ShapeOf([req[r] EXCEPT !.pc = "call"])
    BY <1>1, <1>4 DEF RequestStates, ShapeOf, Record, At, CallOps, Calling
  <2>. QED
    BY <1>1, <1>4, <2>1, <2>2, <2>3, StateGoes DEF Record, At, RequestStates
<1>5. CASE LoginFails(r)
  BY <1>5, FinishGoes DEF LoginFails
<1>. QED
  BY <1>3, <1>4, <1>5 DEF LoginStep

LEMMA ReloginGoes ==
  ASSUME TypeInv, NEW r \in Requests, ReloginStep(r)
  PROVE  \E q : GoesTo(r, q)
<1>1. req[r] \in RequestStates /\ ShapeOf(req[r]) /\ req \in [Requests -> RequestStates]
  BY DEF TypeInv, TypeOK
<1>. USE DEF At, Calling, CallOps
<1>2. CASE BeginRelogin(r)
  <2>. DEFINE u == record[req[r].id].user
              pw == record[req[r].id].pw
              fresh == NeedsFresh(record[req[r].id].err)
              q == [req[r] EXCEPT !.pc = "pop", !.fresh = fresh, !.user = u]
  <2>1. CASE ~pw
    BY <1>2, <2>1, FinishGoes DEF BeginRelogin
  <2>2. CASE pw
    <3>1. u \in Users /\ req[r].id \in AccountIds
      BY <1>1, <1>2, <2>2, RecordType DEF BeginRelogin, ShapeOf, TypeInv, TypeOK
    <3>2. req' = [req EXCEPT ![r] = q] /\ fresh \in BOOLEAN
      BY <1>2, <2>2 DEF BeginRelogin, Become, NeedsFresh
    <3>3. q \in RequestStates /\ q.op = req[r].op /\ q.id = req[r].id /\ q.pc = "pop"
          /\ q.user = u
      BY <1>1, <3>1, <3>2 DEF RequestStates, Pcs
    <3>4. ShapeOf(q)
      BY <1>1, <1>2, <3>1, <3>3 DEF ShapeOf, BeginRelogin
    <3>. QED
      BY <3>2, <3>3, <3>4, StateGoes
  <2>. QED
    BY <2>1, <2>2
<1>3. CASE PopClient(r)
  <2>1. req' = [req EXCEPT ![r] = [req[r] EXCEPT !.pc = "call"]]
    BY <1>1, <1>3 DEF PopClient, Goto
  <2>2. [req[r] EXCEPT !.pc = "call"] \in RequestStates
    BY <1>1 DEF RequestStates, Pcs
  <2>3. ShapeOf([req[r] EXCEPT !.pc = "call"])
    BY <1>1, <1>3 DEF RequestStates, ShapeOf, PopClient
  <2>. QED
    BY <1>1, <2>1, <2>2, <2>3, StateGoes DEF RequestStates
<1>4. CASE Retry(r)
  <2>. DEFINE q == [req[r] EXCEPT !.pc = "call", !.tries = req[r].tries + 1]
  <2>1. req' = [req EXCEPT ![r] = q]
    BY <1>1, <1>4 DEF Retry
  <2>2. q \in RequestStates
    BY <1>1, <1>4, LoginAssumption DEF RequestStates, Pcs, Retry
  <2>3. ShapeOf(q)
    BY <1>1, <1>4 DEF RequestStates, ShapeOf, Retry
  <2>. QED
    BY <1>1, <2>1, <2>2, <2>3, StateGoes DEF RequestStates
<1>5. CASE Settle(r)
  <2>1. CASE req[r].op = "bulk"
    BY <1>5, <2>1, FinishGoes DEF Settle
  <2>2. CASE req[r].op # "bulk"
    <3>1. req' = [req EXCEPT ![r] = [req[r] EXCEPT !.pc = "probe"]]
      BY <1>1, <1>5, <2>2 DEF Settle, Goto
    <3>2. [req[r] EXCEPT !.pc = "probe"] \in RequestStates
      BY <1>1 DEF RequestStates, Pcs
    <3>3. ShapeOf([req[r] EXCEPT !.pc = "probe"])
      BY <1>1, <1>5 DEF RequestStates, ShapeOf, Settle
    <3>. QED
      BY <1>1, <3>1, <3>2, <3>3, StateGoes DEF RequestStates
  <2>. QED
    BY <2>1, <2>2
<1>6. CASE ReloginFails(r)
  BY <1>6, FinishGoes DEF ReloginFails
<1>. QED
  BY <1>2, <1>3, <1>4, <1>5, <1>6 DEF ReloginStep

LEMMA CallGoes ==
  ASSUME TypeInv, NEW r \in Requests, CallStep(r), req' # req
  PROVE  \E q : GoesTo(r, q)
<1>1. req[r] \in RequestStates /\ ShapeOf(req[r]) /\ req \in [Requests -> RequestStates]
  BY DEF TypeInv, TypeOK
<1>. USE DEF At, Calling, CallOps
<1>2. CASE RestoreSession(r)
  <2>. DEFINE s == session[req[r].user]
  <2>0. s \in {"alive", "dead"}
    BY <1>2 DEF RestoreSession
  <2>1. req' = [req EXCEPT ![r] = [req[r] EXCEPT !.pc = "activate", !.got = s]]
    BY <1>1, <1>2, <2>0 DEF RestoreSession
  <2>2. [req[r] EXCEPT !.pc = "activate", !.got = s] \in RequestStates
    BY <1>1, <1>2, <2>0 DEF RequestStates, Pcs, Sessions
  <2>3. ShapeOf([req[r] EXCEPT !.pc = "activate", !.got = s])
    BY <1>1, <1>2, <2>0 DEF RequestStates, ShapeOf, RestoreSession
  <2>. QED
    BY <1>1, <1>2, <2>0, <2>1, <2>2, <2>3, StateGoes DEF RequestStates, RestoreSession
<1>3. CASE CredentialsAccepted(r)
  <2>1. req' = [req EXCEPT ![r] = [req[r] EXCEPT !.pc = "activate", !.got = "alive"]]
    BY <1>1, <1>3 DEF CredentialsAccepted
  <2>2. [req[r] EXCEPT !.pc = "activate", !.got = "alive"] \in RequestStates
    BY <1>1, <1>3 DEF RequestStates, Pcs, Sessions
  <2>3. ShapeOf([req[r] EXCEPT !.pc = "activate", !.got = "alive"])
    BY <1>1, <1>3 DEF RequestStates, ShapeOf, CredentialsAccepted, LoggingIn
  <2>. QED
    BY <1>1, <1>3, <2>1, <2>2, <2>3, StateGoes DEF RequestStates, CredentialsAccepted, LoggingIn
<1>4. ASSUME NEW fault \in Faults, CredentialsRefused(r, fault)
      PROVE  \E q : GoesTo(r, q)
  <2>1. req' = [req EXCEPT ![r] = [req[r] EXCEPT !.pc = "failed", !.fault = fault]]
    BY <1>1, <1>4 DEF CredentialsRefused, Fail
  <2>2. [req[r] EXCEPT !.pc = "failed", !.fault = fault] \in RequestStates
    BY <1>1, <1>4 DEF RequestStates, Pcs
  <2>3. ShapeOf([req[r] EXCEPT !.pc = "failed", !.fault = fault])
    BY <1>1, <1>4 DEF RequestStates, ShapeOf, CredentialsRefused, LoggingIn
  <2>. QED
    BY <1>1, <1>4, <2>1, <2>2, <2>3, StateGoes DEF RequestStates, CredentialsRefused, LoggingIn
<1>5. CASE AskForCode(r)
  <2>1. req' = [req EXCEPT ![r] = [req[r] EXCEPT !.pc = "prompted"]]
    BY <1>1, <1>5 DEF AskForCode, Goto
  <2>2. [req[r] EXCEPT !.pc = "prompted"] \in RequestStates
    BY <1>1, <1>5 DEF RequestStates, Pcs
  <2>3. ShapeOf([req[r] EXCEPT !.pc = "prompted"])
    BY <1>1, <1>5 DEF RequestStates, ShapeOf, AskForCode
  <2>. QED
    BY <1>1, <1>5, <2>1, <2>2, <2>3, StateGoes DEF RequestStates, AskForCode
<1>6. CASE EndWait(r)
  <2>1. CASE GotCode(r)
    <3>1. req' = [req EXCEPT ![r] = [req[r] EXCEPT !.pc = "coded"]]
      BY <1>1, <1>6, <2>1 DEF EndWait, Goto
    <3>2. [req[r] EXCEPT !.pc = "coded"] \in RequestStates
      BY <1>1, <1>6, <2>1 DEF RequestStates, Pcs
    <3>3. ShapeOf([req[r] EXCEPT !.pc = "coded"])
      BY <1>1, <1>6, <2>1 DEF RequestStates, ShapeOf, EndWait
    <3>. QED
      BY <1>1, <1>6, <2>1, <3>1, <3>2, <3>3, StateGoes DEF RequestStates, EndWait
  <2>2. CASE ~GotCode(r)
    <3>1. req' = [req EXCEPT ![r] = [req[r] EXCEPT !.pc = "failed", !.fault = "challenge"]]
      BY <1>1, <1>6, <2>2 DEF EndWait, Fail
    <3>2. [req[r] EXCEPT !.pc = "failed", !.fault = "challenge"] \in RequestStates
      BY <1>1, <1>6, <2>2 DEF RequestStates, Pcs, Faults
    <3>3. ShapeOf([req[r] EXCEPT !.pc = "failed", !.fault = "challenge"])
      BY <1>1, <1>6, <2>2 DEF RequestStates, ShapeOf, EndWait
    <3>. QED
      BY <1>1, <1>6, <2>2, <3>1, <3>2, <3>3, StateGoes DEF RequestStates, EndWait
  <2>. QED
    BY <2>1, <2>2
<1>7. CASE WaitStep(r)
  BY <1>7 DEF WaitStep
<1>. QED
  BY <1>2, <1>3, <1>4, <1>5, <1>6, <1>7 DEF CallStep

LEMMA ImportGoes ==
  ASSUME TypeInv, NEW r \in Requests, ImportStep(r)
  PROVE  \E q : GoesTo(r, q)
<1>1. req[r] \in RequestStates /\ ShapeOf(req[r]) /\ req \in [Requests -> RequestStates]
  BY DEF TypeInv, TypeOK
<1>2. CASE SaveArchived(r)
  <2>1. req' = [req EXCEPT ![r] = [req[r] EXCEPT !.pc = "archived"]]
    BY <1>1, <1>2 DEF SaveArchived, Goto
  <2>2. [req[r] EXCEPT !.pc = "archived"] \in RequestStates
    BY <1>1 DEF RequestStates, Pcs
  <2>3. ShapeOf([req[r] EXCEPT !.pc = "archived"])
    BY <1>1, <1>2 DEF RequestStates, ShapeOf, SaveArchived, At, Calling
  <2>. QED
    BY <1>1, <1>2, <2>1, <2>2, <2>3, StateGoes DEF RequestStates, SaveArchived, At
<1>3. CASE ImportAccount(r)
  BY <1>3, FinishGoes DEF ImportAccount
<1>. QED
  BY <1>2, <1>3 DEF ImportStep

LEMMA OtherGoes ==
  ASSUME TypeInv, NEW r \in Requests, OtherStep(r)
  PROVE  \E q : GoesTo(r, q)
<1>1. req[r] \in RequestStates /\ ShapeOf(req[r]) /\ req \in [Requests -> RequestStates]
  BY DEF TypeInv, TypeOK
<1>. USE DEF At, Calling, CallOps
<1>2. CASE Activate(r)
  <2>1. CASE req[r].op \in Relogins
    <3>1. req' = [req EXCEPT ![r] = [req[r] EXCEPT !.pc = "settle"]]
      BY <1>1, <1>2, <2>1 DEF Activate, Goto
    <3>2. [req[r] EXCEPT !.pc = "settle"] \in RequestStates
      BY <1>1, <1>2, <2>1 DEF RequestStates, Pcs
    <3>3. ShapeOf([req[r] EXCEPT !.pc = "settle"])
      BY <1>1, <1>2, <2>1 DEF RequestStates, ShapeOf, Activate
    <3>. QED
      BY <1>1, <1>2, <2>1, <3>1, <3>2, <3>3, StateGoes DEF RequestStates, Activate
  <2>2. CASE req[r].op \notin Relogins
    <3>1. req' = [req EXCEPT ![r] = [req[r] EXCEPT !.pc = "probe"]]
      BY <1>1, <1>2, <2>2 DEF Activate, Goto
    <3>2. [req[r] EXCEPT !.pc = "probe"] \in RequestStates
      BY <1>1, <1>2, <2>2 DEF RequestStates, Pcs
    <3>3. ShapeOf([req[r] EXCEPT !.pc = "probe"])
      BY <1>1, <1>2, <2>2 DEF RequestStates, ShapeOf, Activate
    <3>. QED
      BY <1>1, <1>2, <2>2, <3>1, <3>2, <3>3, StateGoes DEF RequestStates, Activate
  <2>. QED
    BY <2>1, <2>2
<1>3. CASE BeginTwoFactor(r)
  <2>. DEFINE u == record[req[r].id].user
  <2>1. CASE u = None
    BY <1>3, <2>1, FinishGoes DEF BeginTwoFactor
  <2>2. CASE u # None
    <3>0. u \in Users
      BY <1>1, <1>3, <2>2, RecordType DEF BeginTwoFactor, ShapeOf, TypeInv, TypeOK
    <3>1. req' = [req EXCEPT ![r] = [req[r] EXCEPT !.pc = "call", !.user = u]]
      BY <1>1, <1>3, <2>2, <3>0 DEF BeginTwoFactor, Become
    <3>2. [req[r] EXCEPT !.pc = "call", !.user = u] \in RequestStates
      BY <1>1, <1>3, <2>2, <3>0 DEF RequestStates, Pcs
    <3>3. ShapeOf([req[r] EXCEPT !.pc = "call", !.user = u])
      BY <1>1, <1>3, <2>2, <3>0 DEF RequestStates, ShapeOf, BeginTwoFactor
    <3>. QED
      BY <1>1, <1>3, <2>2, <3>0, <3>1, <3>2, <3>3, StateGoes DEF RequestStates, BeginTwoFactor
  <2>. QED
    BY <2>1, <2>2
<1>4. CASE TwoFactorFails(r)
  BY <1>4, FinishGoes DEF TwoFactorFails
<1>5. CASE BeginVerify(r)
  <2>1. CASE Finish(r)
    BY <2>1, FinishGoes
  <2>2. CASE Goto(r, "probe")
    <3>1. req' = [req EXCEPT ![r] = [req[r] EXCEPT !.pc = "probe"]]
      BY <1>1, <1>5, <2>2 DEF BeginVerify, Goto
    <3>2. [req[r] EXCEPT !.pc = "probe"] \in RequestStates
      BY <1>1, <1>5, <2>2 DEF RequestStates, Pcs
    <3>3. ShapeOf([req[r] EXCEPT !.pc = "probe"])
      BY <1>1, <1>5, <2>2 DEF RequestStates, ShapeOf, BeginVerify
    <3>. QED
      BY <1>1, <1>5, <2>2, <3>1, <3>2, <3>3, StateGoes DEF RequestStates, BeginVerify
  <2>. QED
    BY <1>5, <2>1, <2>2 DEF BeginVerify
<1>6. CASE Probe(r)
  <2>0. PICK fault \in {"none", "transient", "challenge", "login_required"} :
          req' = [req EXCEPT ![r].pc = "probed", ![r].fault = fault]
    BY <1>6 DEF Probe
  <2>1. req' = [req EXCEPT ![r] = [req[r] EXCEPT !.pc = "probed", !.fault = fault]]
    BY <1>1, <1>6, <2>0 DEF Probe
  <2>2. [req[r] EXCEPT !.pc = "probed", !.fault = fault] \in RequestStates
    BY <1>1, <1>6, <2>0 DEF RequestStates, Pcs, Faults
  <2>3. ShapeOf([req[r] EXCEPT !.pc = "probed", !.fault = fault])
    BY <1>1, <1>6, <2>0 DEF RequestStates, ShapeOf, Probe
  <2>. QED
    BY <1>1, <1>6, <2>0, <2>1, <2>2, <2>3, StateGoes DEF RequestStates, Probe
<1>7. CASE ProbeSucceeds(r) \/ ProbeFails(r)
  BY <1>7, FinishGoes DEF ProbeSucceeds, ProbeFails
<1>8. CASE BeginLogout(r)
  <2>. DEFINE u == record[req[r].id].user
  <2>1. CASE Exists(req[r].id)
    <3>0. u \in Users \union {None}
      BY <1>1, <1>8, <2>1, RecordType DEF BeginLogout, ShapeOf, TypeInv, TypeOK
    <3>1. req' = [req EXCEPT ![r] = [req[r] EXCEPT !.pc = "popped", !.user = u]]
      BY <1>1, <1>8, <2>1, <3>0 DEF BeginLogout, Become
    <3>2. [req[r] EXCEPT !.pc = "popped", !.user = u] \in RequestStates
      BY <1>1, <1>8, <2>1, <3>0 DEF RequestStates, Pcs
    <3>3. ShapeOf([req[r] EXCEPT !.pc = "popped", !.user = u])
      BY <1>1, <1>8, <2>1, <3>0 DEF RequestStates, ShapeOf, BeginLogout
    <3>. QED
      BY <1>1, <1>8, <2>1, <3>0, <3>1, <3>2, <3>3, StateGoes DEF RequestStates, BeginLogout
  <2>2. CASE ~Exists(req[r].id)
    BY <1>8, <2>2, FinishGoes DEF BeginLogout
  <2>. QED
    BY <2>1, <2>2
<1>9. CASE FinishLogout(r)
  BY <1>9, FinishGoes DEF FinishLogout
<1>. QED
  BY <1>2, <1>3, <1>4, <1>5, <1>6, <1>7, <1>8, <1>9 DEF OtherStep

\* What the steps write.
StoreTypes ==
  /\ record \in [AccountIds -> Records \union {NoRecord}]
  /\ owner \in [AccountIds -> Users \union {None}]
  /\ imported \subseteq AccountIds
  /\ client \in [AccountIds -> Sessions]
  /\ status \in [AccountIds -> Statuses]
  /\ session \in [Users -> Sessions]
  /\ pending2fa \subseteq Users
  /\ toRestore \subseteq AccountIds
  /\ starts \in 0..MaxStarts
  /\ restarts \in 0..MaxRestarts
  /\ raced \subseteq Users

LEMMA WrittenTypes ==
  ASSUME StoreTypes, NEW id \in AccountIds, NEW err \in Errors, NEW fault \in Faults
  PROVE  /\ Updated(id, err) \in [AccountIds -> Records \union {NoRecord}]
         /\ Touched(id) \in [AccountIds -> Records \union {NoRecord}]
         /\ ErrorOf(fault) \in Errors
         /\ StatusAfter(id, fault) \in [AccountIds -> Statuses]
<1>1. record \in [AccountIds -> Records \union {NoRecord}] /\ status \in [AccountIds -> Statuses]
  BY DEF StoreTypes
<1>2. \A e \in Errors : Exists(id) => [record[id] EXCEPT !.err = e] \in Records
  BY <1>1 DEF Exists, Records
<1>3. \A e \in Errors : [user |-> None, pw |-> FALSE, err |-> e] \in Records
  BY DEF Records
<1>4. \A e \in Errors : Updated(id, e) \in [AccountIds -> Records \union {NoRecord}]
  <2>. TAKE e \in Errors
  <2>1. (IF Exists(id) THEN [record[id] EXCEPT !.err = e]
         ELSE [user |-> None, pw |-> FALSE, err |-> e]) \in Records
    BY <1>2, <1>3
  <2>. QED
    BY <1>1, <2>1 DEF Updated
<1>5. Updated(id, err) \in [AccountIds -> Records \union {NoRecord}]
  BY <1>4
<1>6. Touched(id) \in [AccountIds -> Records \union {NoRecord}]
  BY <1>1, <1>4 DEF Touched, Errors
<1>7. StatusFrom(fault) = "" \/ StatusFrom(fault) \in Statuses
  BY DEF StatusFrom, Statuses
<1>8. StatusAfter(id, fault) \in [AccountIds -> Statuses]
  BY <1>1, <1>7 DEF StatusAfter
<1>9. ErrorOf(fault) \in Errors
  BY DEF ErrorOf, Errors
<1>. QED
  BY <1>5, <1>6, <1>8, <1>9

LEMMA ResolverTypes ==
  ASSUME ResolverTypeOK
  PROVE  /\ \A u \in Users, id \in AccountIds :
              Register(id, u) => routed' \in [Users -> AccountIds \union {None}]
         /\ \A r \in Requests, u \in Users : Prompt(r, u) => ResolverTypeOK'
         /\ \A r \in Requests : Wake(r) \/ Expire(r) \/ LeaveWait(r) => ResolverTypeOK'
         /\ \A id \in AccountIds : Submit(id) \/ CancelChallenge(id) => ResolverTypeOK'
<1>. USE DEF ResolverTypeOK
<1>2. ASSUME NEW u \in Users, NEW id \in AccountIds, Register(id, u)
      PROVE  routed' \in [Users -> AccountIds \union {None}]
  BY <1>2 DEF Register
<1>3. ASSUME NEW r \in Requests, NEW u \in Users, Prompt(r, u) PROVE ResolverTypeOK'
  <2>0. KeyOf(u) \in Keys
    BY DEF KeyOf, Keys
  <2>1. /\ pending' \in [Keys -> Requests \union {None}]
        /\ routed' = routed
        /\ pending[KeyOf(u)] \in Requests \union {None}
    BY <2>0, <1>3 DEF Prompt
  <2>2. [phase |-> "waiting", key |-> KeyOf(u), answer |-> "none"] \in Entries
    BY <2>0 DEF Entries, Phases, Answers
  <2>3. entry' \in [Requests -> Entries]
    BY <1>3, <2>2 DEF Prompt
  <2>4. replaced' \subseteq Requests
    BY <1>3, <2>1 DEF Prompt
  <2>. QED
    BY <2>1, <2>3, <2>4
<1>4. ASSUME NEW id \in AccountIds, NEW a \in Answers, Answer(id, a) PROVE ResolverTypeOK'
  <2>1. id \in Keys /\ pending[id] \in Requests
    BY <1>4 DEF Answer, Keys
  <2>2. entry' = [entry EXCEPT ![pending[id]] = [entry[pending[id]] EXCEPT !.answer = a]]
    BY <1>4, <2>1 DEF Answer
  <2>3. entry' \in [Requests -> Entries]
    BY <2>1, <2>2 DEF Entries
  <2>. QED
    BY <1>4, <2>3 DEF Answer
<1>5. ASSUME NEW r \in Requests, NEW phase \in Phases,
             entry' = [entry EXCEPT ![r] = [entry[r] EXCEPT !.phase = phase]],
             UNCHANGED <<routed, pending, replaced>>
      PROVE  ResolverTypeOK'
  <2>1. [entry[r] EXCEPT !.phase = phase] \in Entries
    BY <1>5 DEF Entries
  <2>. QED
    BY <1>5, <2>1
<1>6. ASSUME NEW r \in Requests, Wake(r) \/ Expire(r) PROVE ResolverTypeOK'
  BY <1>5, <1>6 DEF Wake, Expire, Phases
<1>7. ASSUME NEW r \in Requests, LeaveWait(r) PROVE ResolverTypeOK'
  <2>1. NoEntry \in Entries
    BY DEF NoEntry, Entries, Phases, Answers
  <2>2. pending' \in [Keys -> Requests \union {None}]
    BY <1>7 DEF LeaveWait, Unlist
  <2>. QED
    BY <1>7, <2>1, <2>2 DEF LeaveWait
<1>. QED
  BY <1>2, <1>3, <1>4, <1>6, <1>7 DEF Submit, CancelChallenge, Answers

LEMMA StepTypes ==
  ASSUME TypeInv, NEW r \in Requests, RequestStep(r)
  PROVE  StoreTypes' /\ ResolverTypeOK'
<1>. DEFINE id == req[r].id
<1>1. StoreTypes /\ ResolverTypeOK /\ ShapeOf(req[r]) /\ req[r] \in RequestStates
  BY DEF TypeInv, TypeOK, StoreTypes
<1>2. /\ req[r].pc \notin {"idle"} \union Early => id \in AccountIds
      /\ req[r].pc \in {"record"} \union Early \union Calling => req[r].user \in Users
      /\ req[r].got \in Sessions /\ req[r].fault \in Faults
      /\ req[r].user \in Users \union {None}
  BY <1>1 DEF ShapeOf, RequestStates
<1>3. ASSUME UNCHANGED <<routed, pending, entry, replaced>> PROVE ResolverTypeOK'
  BY <1>1, <1>3 DEF ResolverTypeOK
<1>4. "none" \in Errors /\ "challenge" \in Errors /\ "none" \in Sessions /\ "alive" \in Sessions
      /\ {"idle", "logging_in", "active", "challenge_pending"} \subseteq Statuses
  BY DEF Errors, Sessions, Statuses
<1>. USE DEF At, Calling, StoreTypes, resolverVars, accountVars, stores
<1>5. CASE Find(r)
  BY <1>1, <1>2, <1>3, <1>5 DEF Find
<1>6. CASE Record(r)
  <2>1. [user |-> req[r].user, pw |-> TRUE, err |-> IF Exists(id) THEN record[id].err ELSE "none"]
          \in Records
    BY <1>1, <1>2, <1>4, <1>6 DEF Record, Records, Exists
  <2>2. ResolverTypeOK'
    BY <1>1, <1>2, <1>6, ResolverTypes DEF Record, ResolverTypeOK
  <2>. QED
    BY <1>1, <1>2, <1>6, <2>1, <2>2 DEF Record
<1>7. CASE LoginFails(r)
  <2>1. id \in AccountIds
    BY <1>2, <1>7 DEF LoginFails
  <2>2. record' \in [AccountIds -> Records \union {NoRecord}]
    <3>1. Updated(id, "challenge") \in [AccountIds -> Records \union {NoRecord}]
      BY <1>1, <1>2, <1>4, <2>1, WrittenTypes
    <3>. QED
      BY <1>1, <1>7, <3>1 DEF LoginFails
  <2>3. status' \in [AccountIds -> Statuses] /\ client' = client
    BY <1>1, <1>4, <1>7, <2>1 DEF LoginFails
  <2>. QED
    BY <1>1, <1>3, <1>7, <2>2, <2>3 DEF LoginFails
<1>8. CASE BeginRelogin(r)
  <2>1. record[id].pw => record[id].user \in Users
    BY <1>1, <1>2, <1>8, RecordType DEF BeginRelogin
  <2>2. ResolverTypeOK'
    BY <1>1, <1>2, <1>8, <2>1, ResolverTypes DEF BeginRelogin, ResolverTypeOK
  <2>. QED
    BY <1>1, <1>2, <1>4, <1>8, <2>2 DEF BeginRelogin
<1>9. CASE PopClient(r)
  BY <1>1, <1>2, <1>3, <1>4, <1>9 DEF PopClient
<1>10. CASE Retry(r) \/ RestoreSession(r) \/ TwoFactorFails(r) \/ BeginVerify(r) \/ Probe(r)
  BY <1>1, <1>3, <1>10 DEF Retry, RestoreSession, TwoFactorFails, BeginVerify, Probe
<1>11. CASE Settle(r)
  <2>1. record' \in [AccountIds -> Records \union {NoRecord}]
    BY <1>1, <1>2, <1>4, <1>11, WrittenTypes DEF Settle
  <2>. QED
    BY <1>1, <1>2, <1>3, <1>4, <1>11, <2>1 DEF Settle
<1>12. CASE ReloginFails(r)
  BY <1>1, <1>2, <1>3, <1>4, <1>12, WrittenTypes DEF ReloginFails
<1>13. CASE CredentialsAccepted(r)
  BY <1>1, <1>2, <1>3, <1>4, <1>13 DEF CredentialsAccepted, LoggingIn
<1>14. ASSUME NEW fault \in Faults, CredentialsRefused(r, fault) PROVE StoreTypes' /\ ResolverTypeOK'
  BY <1>1, <1>2, <1>3, <1>14 DEF CredentialsRefused, LoggingIn
<1>15. CASE AskForCode(r) \/ WaitStep(r) \/ EndWait(r)
  <2>1. ResolverTypeOK'
    BY <1>1, <1>2, <1>15, ResolverTypes DEF AskForCode, WaitStep, EndWait
  <2>. QED
    BY <1>1, <1>15, <2>1 DEF AskForCode, WaitStep, EndWait
<1>16. CASE Activate(r)
  BY <1>1, <1>2, <1>3, <1>4, <1>16 DEF Activate
<1>17. CASE BeginTwoFactor(r)
  BY <1>1, <1>3, <1>17 DEF BeginTwoFactor
<1>18. CASE ProbeSucceeds(r)
  <2>1. record' \in [AccountIds -> Records \union {NoRecord}]
    BY <1>1, <1>2, <1>4, <1>18, WrittenTypes DEF ProbeSucceeds
  <2>2. status' \in [AccountIds -> Statuses]
    BY <1>1, <1>4, <1>18 DEF ProbeSucceeds
  <2>. QED
    BY <1>1, <1>3, <1>18, <2>1, <2>2 DEF ProbeSucceeds
<1>19. CASE ProbeFails(r)
  <2>1. id \in AccountIds
    BY <1>2, <1>19 DEF ProbeFails
  <2>2. session' \in [Users -> Sessions]
    BY <1>1, <1>4, <1>19, <2>1 DEF ProbeFails, SessionAfter
  <2>. QED
    BY <1>1, <1>2, <1>3, <1>4, <1>19, <2>1, <2>2, WrittenTypes DEF ProbeFails, Evicted
<1>20. CASE BeginLogout(r)
  BY <1>1, <1>2, <1>3, <1>4, <1>20 DEF BeginLogout
<1>21. CASE FinishLogout(r)
  BY <1>1, <1>2, <1>3, <1>4, <1>21 DEF FinishLogout
<1>22. CASE SaveArchived(r)
  <2>1. session' \in [Users -> Sessions]
    BY <1>1, <1>2, <1>22 DEF SaveArchived, Sessions
  <2>. QED
    BY <1>1, <1>3, <1>22, <2>1 DEF SaveArchived
<1>23. CASE ImportAccount(r)
  <2>1. PICK new \in AccountIds :
          /\ owner' = [owner EXCEPT ![new] = req[r].user]
          /\ imported' = imported \union {new}
          /\ record' = [record EXCEPT ![new] = [user |-> req[r].user, pw |-> FALSE, err |-> "none"]]
    BY <1>23 DEF ImportAccount
  <2>2. req[r].user \in Users
    BY <1>2, <1>23 DEF ImportAccount
  <2>3. [user |-> req[r].user, pw |-> FALSE, err |-> "none"] \in Records
    BY <1>4, <2>2 DEF Records
  <2>4. record' \in [AccountIds -> Records \union {NoRecord}]
        /\ owner' \in [AccountIds -> Users \union {None}] /\ imported' \subseteq AccountIds
    BY <1>1, <2>1, <2>2, <2>3
  <2>. QED
    BY <1>1, <1>3, <1>23, <2>4 DEF ImportAccount
<1>. QED
  BY <1>5, <1>6, <1>7, <1>8, <1>9, <1>10, <1>11, <1>12, <1>13, <1>14, <1>15, <1>16, <1>17, <1>18,
     <1>19, <1>20, <1>21, <1>22, <1>23
     DEF RequestStep, LoginStep, ReloginStep, CallStep, ImportStep, OtherStep

\* The steps of a request, for all that follows.
LEMMA Goes ==
  ASSUME TypeInv, NEW r \in Requests, RequestStep(r)
  PROVE  req' = req \/ \E q : GoesTo(r, q)
BY LoginGoes, ReloginGoes, CallGoes, ImportGoes, OtherGoes DEF RequestStep

\* A request begins.
LEMMA BeginTypes ==
  ASSUME TypeInv, NEW r \in Requests, NEW op \in Ops, NEW pc \in {"find", "archive", "queued"},
         NEW id \in AccountIds \union {None}, NEW u \in Users \union {None},
         Begin(r, op, pc, id, u),
         pc = "find" => op = "login" /\ id = None /\ u \in Users,
         pc = "archive" => op = "import" /\ id = None /\ u \in Users,
         pc = "queued" => op # "login" /\ id \in AccountIds,
         toRestore' \subseteq AccountIds, starts' \in 0..MaxStarts
  PROVE  TypeInv'
<1>. DEFINE q == [Idle EXCEPT !.op = op, !.pc = pc, !.id = id, !.user = u]
<1>1. q \in RequestStates
  BY IdleType DEF RequestStates, Pcs, Idle
<1>2. ShapeOf(q)
  BY DEF ShapeOf, Idle, Calling
<1>3. req' = [req EXCEPT ![r] = q]
  BY DEF Begin, Become
<1>. HIDE DEF q
<1>4. req' \in [Requests -> RequestStates] /\ \A s \in Requests : ShapeOf(req'[s])
  BY <1>1, <1>2, <1>3 DEF TypeInv, TypeOK
<1>5. raced' \subseteq Users
  BY DEF Begin, TypeInv, TypeOK
<1>. QED
  BY <1>4, <1>5 DEF TypeInv, TypeOK, ResolverTypeOK, Begin, accountVars, resolverVars

LEMMA TypeInit == Init => TypeInv
<1>. SUFFICES ASSUME Init PROVE TypeInv
  OBVIOUS
<1>. USE DEF Init
<1>1. owner \in [AccountIds -> Users \union {None}]
  OBVIOUS
<1>2. record \in [AccountIds -> Records \union {NoRecord}]
  BY <1>1 DEF Records, Errors
<1>3. client \in [AccountIds -> Sessions] /\ status \in [AccountIds -> Statuses]
      /\ session \in [Users -> Sessions]
  BY DEF Sessions, Statuses
<1>4. \A u \in Users : IdOf(owner, u) \in AccountIds \union {None}
  BY DEF IdOf
<1>5. NoEntry \in Entries
  BY DEF NoEntry, Entries, Phases, Answers
<1>6. ResolverTypeOK
  BY <1>4, <1>5 DEF ResolverTypeOK, ResolverInit
<1>7. req \in [Requests -> RequestStates] /\ \A r \in Requests : ShapeOf(req[r])
  BY IdleType
<1>. QED
  BY <1>1, <1>2, <1>3, <1>6, <1>7, LoginAssumption DEF TypeInv, TypeOK

LEMMA TypeStep == TypeInv /\ [Next]_vars => TypeInv'
<1>. SUFFICES ASSUME TypeInv, [Next]_vars PROVE TypeInv'
  OBVIOUS
<1>1. ASSUME NEW r \in Requests, Start(r) PROVE TypeInv'
  <2>1. ASSUME NEW u \in Users, StartLogin(r, u) PROVE TypeInv'
    <3>1. Begin(r, "login", "find", None, u) /\ "login" \in Ops
      BY <2>1 DEF StartLogin, Ops
    <3>2. toRestore' \subseteq AccountIds /\ starts' \in 0..MaxStarts
      BY <2>1, LoginAssumption DEF StartLogin, TypeInv, TypeOK
    <3>. QED
      BY <3>1, <3>2, BeginTypes
  <2>2. ASSUME NEW id \in AccountIds, NEW op \in Ops, StartOn(r, op, id) PROVE TypeInv'
    BY <2>2, BeginTypes, LoginAssumption DEF StartOn, TypeInv, TypeOK
  <2>3. ASSUME NEW u \in Users, StartImport(r, u) PROVE TypeInv'
    <3>1. Begin(r, "import", "archive", None, u) /\ "import" \in Ops
      BY <2>3 DEF StartImport, Ops
    <3>2. toRestore' \subseteq AccountIds /\ starts' \in 0..MaxStarts
      BY <2>3, LoginAssumption DEF StartImport, TypeInv, TypeOK
    <3>. QED
      BY <3>1, <3>2, BeginTypes
  <2>. QED
    BY <1>1, <2>1, <2>2, <2>3 DEF Start
<1>2. ASSUME NEW r \in Requests, RequestStep(r) PROVE TypeInv'
  <2>1. StoreTypes' /\ ResolverTypeOK'
    BY <1>2, StepTypes
  <2>2. req' \in [Requests -> RequestStates] /\ \A s \in Requests : ShapeOf(req'[s])
    BY <1>2, Goes, RequestType DEF TypeInv, TypeOK
  <2>. QED
    BY <2>1, <2>2 DEF TypeInv, TypeOK, StoreTypes
<1>3. ASSUME NEW id \in AccountIds, StartRestore(id) PROVE TypeInv'
  BY <1>3, BeginTypes, LoginAssumption DEF StartRestore, TypeInv, TypeOK, Ops, Relogins
<1>4. ASSUME NEW id \in AccountIds, OperatorAnswers(id) PROVE TypeInv'
  <2>1. ResolverTypeOK'
    BY <1>4, ResolverTypes DEF OperatorAnswers, TypeInv, TypeOK
  <2>. QED
    BY <1>4, <2>1 DEF OperatorAnswers, accountVars, TypeInv, TypeOK
<1>5. ASSUME NEW u \in Users, ForceLogout(u) PROVE TypeInv'
  <2>. DEFINE Dead(q) == IF q.user = u /\ q.got = "alive" THEN [q EXCEPT !.got = "dead"] ELSE q
  <2>1. ASSUME NEW q \in RequestStates, ShapeOf(q) PROVE Dead(q) \in RequestStates /\ ShapeOf(Dead(q))
    BY <2>1 DEF RequestStates, ShapeOf, Sessions
  <2>2. \A r \in Requests : req[r] \in RequestStates /\ ShapeOf(req[r])
    BY DEF TypeInv, TypeOK
  <2>3. req' = [r \in Requests |-> Dead(req[r])]
    BY <1>5 DEF ForceLogout
  <2>. HIDE DEF Dead
  <2>4. req' \in [Requests -> RequestStates] /\ \A r \in Requests : ShapeOf(req'[r])
    BY <2>1, <2>2, <2>3
  <2>5. session' \in [Users -> Sessions] /\ client' \in [AccountIds -> Sessions]
    BY <1>5 DEF ForceLogout, TypeInv, TypeOK, Sessions
  <2>. QED
    BY <1>5, <2>4, <2>5 DEF ForceLogout, TypeInv, TypeOK, ResolverTypeOK, resolverVars
<1>6. CASE Restart
  <2>1. req' \in [Requests -> RequestStates] /\ \A r \in Requests : ShapeOf(req'[r])
    BY <1>6, IdleType DEF Restart
  <2>2. NoEntry \in Entries
    BY DEF NoEntry, Entries, Phases, Answers
  <2>3. ResolverTypeOK'
    BY <1>6, <2>2 DEF Restart, ResolverTypeOK
  <2>4. raced' \subseteq Users
    BY <1>6 DEF Restart, TypeInv, TypeOK, RequestStates
  <2>5. client' \in [AccountIds -> Sessions] /\ status' \in [AccountIds -> Statuses]
    BY <1>6 DEF Restart, Sessions, Statuses
  <2>6. restarts' \in 0..MaxRestarts /\ toRestore' \subseteq AccountIds /\ pending2fa' \subseteq Users
    BY <1>6, LoginAssumption DEF Restart, TypeInv, TypeOK
  <2>. QED
    BY <1>6, <2>1, <2>3, <2>4, <2>5, <2>6 DEF Restart, TypeInv, TypeOK
<1>7. CASE UNCHANGED vars
  BY <1>7 DEF vars, accountVars, resolverVars, TypeInv, TypeOK, ResolverTypeOK
<1>. QED
  BY <1>1, <1>2, <1>3, <1>4, <1>5, <1>6, <1>7 DEF Next

\* The stores, the resolver and the requests keep their types, whatever logins,
\* answers of the operator, forced logouts and restarts do.
THEOREM TypeCorrect == Spec => []TypeOK
<1>1. Init => TypeInv
  BY TypeInit
<1>2. TypeInv /\ [Next]_vars => TypeInv'
  BY TypeStep
<1>3. TypeInv => TypeOK
  BY DEF TypeInv
<1>. QED
  BY <1>1, <1>2, <1>3, PTL DEF Spec

-----------------------------------------------------------------------------
(* Challenge codes.                                                          *)

\* A prompt is listed at once; the end of a wait takes the entry away with it.
LEMMA PromptMatches ==
  ASSUME ResolverTypeOK, WaitInv, NEW r \in Requests, NEW u \in Users, Prompt(r, u)
  PROVE  WaitInv'
<1>. DEFINE key == KeyOf(u)
            new == [phase |-> "waiting", key |-> key, answer |-> "none"]
<1>1. key \in Keys
  BY DEF ResolverTypeOK, KeyOf, Keys
<1>2. /\ pending' = [pending EXCEPT ![key] = r] /\ entry' = [entry EXCEPT ![r] = new]
      /\ pending \in [Keys -> Requests \union {None}] /\ entry \in [Requests -> Entries]
      /\ replaced' = (replaced \ {r}) \union ({pending[key]} \ {None, r})
      /\ entry[r].phase = "none"
  BY DEF Prompt, ResolverTypeOK, InWait
<1>3. new.phase # "none" /\ new.key = key
  OBVIOUS
<1>4. ASSUME NEW k \in Keys, pending'[k] # None
      PROVE  entry'[pending'[k]].phase # "none" /\ entry'[pending'[k]].key = k
  BY <1>1, <1>2, <1>3, <1>4 DEF WaitInv, EntriesMatchWaits, InWait
<1>5. ASSUME NEW s \in Requests, entry'[s].phase # "none", s \notin replaced'
      PROVE  pending'[entry'[s].key] = s
  <2>1. CASE s = r
    BY <1>1, <1>2, <1>3, <2>1
  <2>2. CASE s # r
    <3>1. entry'[s] = entry[s] /\ entry[s].phase # "none" /\ s \notin replaced
      BY <1>2, <1>5, <2>2
    <3>2. pending[entry[s].key] = s /\ entry[s].key \in Keys
      BY <3>1 DEF WaitInv, EntriesMatchWaits, InWait
    <3>3. entry[s].key # key
      BY <1>2, <1>5, <2>2, <3>2, NoneAssumption
    <3>. QED
      BY <1>2, <3>1, <3>2, <3>3
  <2>. QED
    BY <2>1, <2>2
<1>6. \A s \in Requests : entry'[s].phase # "none" => entry'[s].key \in Keys
  BY <1>1, <1>2, <1>3 DEF WaitInv, InWait
<1>. QED
  BY <1>4, <1>5, <1>6 DEF WaitInv, EntriesMatchWaits, InWait

LEMMA LeaveMatches ==
  ASSUME ResolverTypeOK, WaitInv, NEW r \in Requests, LeaveWait(r)
  PROVE  WaitInv'
<1>1. /\ pending \in [Keys -> Requests \union {None}] /\ entry \in [Requests -> Entries]
      /\ entry' = [entry EXCEPT ![r] = NoEntry] /\ replaced' = replaced
      /\ entry[r].phase # "none" /\ entry[r].key \in Keys
      /\ pending' = IF pending[entry[r].key] = r THEN [pending EXCEPT ![entry[r].key] = None]
                    ELSE pending
  BY DEF LeaveWait, Unlist, ResolverTypeOK, WaitInv, InWait
<1>2. NoEntry.phase = "none"
  BY DEF NoEntry
<1>3. ASSUME NEW k \in Keys, pending'[k] # None
      PROVE  entry'[pending'[k]].phase # "none" /\ entry'[pending'[k]].key = k
  <2>1. pending'[k] = pending[k] /\ pending[k] # r
    BY <1>1, <1>3 DEF WaitInv, EntriesMatchWaits
  <2>. QED
    BY <1>1, <1>3, <2>1 DEF WaitInv, EntriesMatchWaits, InWait
<1>4. ASSUME NEW s \in Requests, entry'[s].phase # "none", s \notin replaced'
      PROVE  pending'[entry'[s].key] = s
  <2>1. s # r /\ entry'[s] = entry[s]
    BY <1>1, <1>2, <1>4
  <2>. QED
    BY <1>1, <1>4, <2>1 DEF WaitInv, EntriesMatchWaits, InWait
<1>5. \A s \in Requests : entry'[s].phase # "none" => entry'[s].key \in Keys
  BY <1>1, <1>2 DEF WaitInv, InWait
<1>. QED
  BY <1>3, <1>4, <1>5 DEF WaitInv, EntriesMatchWaits, InWait

\* An answer, and what wakes a login, change neither the list nor the keys.
LEMMA MarkMatches ==
  ASSUME ResolverTypeOK, WaitInv, NEW q \in Requests, NEW e \in Entries,
         entry' = [entry EXCEPT ![q] = e], e.key = entry[q].key,
         (e.phase = "none") <=> (entry[q].phase = "none"),
         UNCHANGED <<pending, replaced>>
  PROVE  WaitInv'
<1>1. \A s \in Requests : /\ (entry'[s].phase = "none") <=> (entry[s].phase = "none")
                          /\ entry'[s].key = entry[s].key
  BY DEF ResolverTypeOK
<1>2. \A k \in Keys : pending[k] # None => pending[k] \in Requests
  BY DEF ResolverTypeOK
<1>. QED
  BY <1>1, <1>2 DEF WaitInv, EntriesMatchWaits, InWait

LEMMA AnswerMatches ==
  ASSUME ResolverTypeOK, WaitInv, NEW id \in AccountIds, NEW a \in Answers, Answer(id, a)
  PROVE  WaitInv'
<1>. DEFINE q == pending[id]
            e == [entry[q] EXCEPT !.answer = a]
<1>1. q \in Requests /\ entry \in [Requests -> Entries]
  BY DEF ResolverTypeOK, Answer, Keys
<1>2. e \in Entries /\ e.key = entry[q].key /\ e.phase = entry[q].phase
  BY <1>1 DEF Entries
<1>3. entry' = [entry EXCEPT ![q] = e] /\ UNCHANGED <<pending, replaced>>
  BY <1>1 DEF Answer
<1>. QED
  BY <1>1, <1>2, <1>3, MarkMatches

LEMMA WakeMatches ==
  ASSUME ResolverTypeOK, WaitInv, NEW r \in Requests, Wake(r) \/ Expire(r)
  PROVE  WaitInv'
<1>1. PICK phase \in {"woken", "expired"} :
        entry' = [entry EXCEPT ![r] = [entry[r] EXCEPT !.phase = phase]]
  BY DEF Wake, Expire, ResolverTypeOK
<1>. DEFINE e == [entry[r] EXCEPT !.phase = phase]
<1>2. e \in Entries /\ e.key = entry[r].key /\ e.phase # "none" /\ entry[r].phase # "none"
  BY DEF ResolverTypeOK, Entries, Phases, Wake, Expire
<1>3. UNCHANGED <<pending, replaced>>
  BY DEF Wake, Expire
<1>. QED
  BY <1>1, <1>2, <1>3, MarkMatches

LEMMA WaitInit == Init => WaitInv
BY DEF Init, ResolverInit, WaitInv, EntriesMatchWaits, InWait, NoEntry

LEMMA WaitStays ==
  ASSUME TypeInv, WaitInv, [Next]_vars
  PROVE  WaitInv'
<1>1. ResolverTypeOK
  BY DEF TypeInv, TypeOK
<1>2. ASSUME UNCHANGED <<pending, entry, replaced>> PROVE WaitInv'
  BY <1>2 DEF WaitInv, EntriesMatchWaits, InWait
<1>3. ASSUME NEW r \in Requests, NEW op, NEW pc, NEW id, NEW u, Begin(r, op, pc, id, u)
      PROVE  WaitInv'
  BY <1>2, <1>3 DEF Begin, resolverVars
<1>4. ASSUME NEW r \in Requests, Start(r) PROVE WaitInv'
  BY <1>3, <1>4 DEF Start, StartLogin, StartImport, StartOn
<1>5. ASSUME NEW r \in Requests, RequestStep(r) PROVE WaitInv'
  <2>1. CASE AskForCode(r)
    <3>1. req[r].user \in Users
      BY <2>1 DEF AskForCode, At, TypeInv, ShapeOf, Calling
    <3>. QED
      BY <1>1, <2>1, <3>1, PromptMatches DEF AskForCode
  <2>2. CASE WaitStep(r)
    BY <1>1, <2>2, WakeMatches DEF WaitStep
  <2>3. CASE EndWait(r)
    BY <1>1, <2>3, LeaveMatches DEF EndWait
  <2>4. CASE UNCHANGED <<pending, entry, replaced>>
    BY <1>2, <2>4
  <2>5. LoginStep(r) \/ ReloginStep(r) \/ ImportStep(r) \/ OtherStep(r)
          => UNCHANGED <<pending, entry, replaced>>
    BY DEF LoginStep, ReloginStep, ImportStep, SaveArchived, ImportAccount, OtherStep, Find, Record, LoginFails, BeginRelogin, PopClient,
       Retry, Settle, ReloginFails, Activate, BeginTwoFactor, TwoFactorFails, BeginVerify, Probe,
       ProbeSucceeds, ProbeFails, BeginLogout, FinishLogout, resolverVars
  <2>6. CallStep(r) => UNCHANGED <<pending, entry, replaced>>
                       \/ AskForCode(r) \/ WaitStep(r) \/ EndWait(r)
    BY DEF CallStep, RestoreSession, CredentialsAccepted, CredentialsRefused, resolverVars
  <2>. QED
    BY <1>5, <2>1, <2>2, <2>3, <2>4, <2>5, <2>6 DEF RequestStep
<1>6. ASSUME NEW id \in AccountIds, StartRestore(id) \/ OperatorAnswers(id) PROVE WaitInv'
  BY <1>1, <1>3, <1>6, AnswerMatches, LoginAssumption
     DEF StartRestore, OperatorAnswers, Submit, CancelChallenge, Answers
<1>7. CASE Restart
  BY <1>7 DEF Restart, WaitInv, EntriesMatchWaits, InWait, NoEntry
<1>8. CASE (\E u \in Users : ForceLogout(u)) \/ UNCHANGED vars
  BY <1>2, <1>8 DEF ForceLogout, vars, resolverVars
<1>. QED
  BY <1>4, <1>5, <1>6, <1>7, <1>8 DEF Next

\* An entry is listed exactly as long as its login waits for the answer and no
\* later login took its key, in any interleaving of prompts, answers,
\* cancellations, timeouts and restarts.
THEOREM EntriesAreWaits == Spec => []EntriesMatchWaits
<1>1. Init => TypeInv /\ WaitInv
  BY TypeInit, WaitInit
<1>2. TypeInv /\ WaitInv /\ [Next]_vars => TypeInv' /\ WaitInv'
  BY TypeStep, WaitStays
<1>3. WaitInv => EntriesMatchWaits
  BY DEF WaitInv
<1>. QED
  BY <1>1, <1>2, <1>3, PTL DEF Spec

\* No step but the end of a login or of a relogin declares a challenge pending.
LEMMA PendingWritten ==
  ASSUME TypeInv, WaitInv, [Next]_vars, NEW id \in AccountIds,
         status'[id] = "challenge_pending", status[id] # "challenge_pending"
  PROVE  pending'[id] # None /\ InWait(pending'[id])
<1>1. status \in [AccountIds -> Statuses] /\ id \in Keys /\ pending \in [Keys -> Requests \union {None}]
  BY DEF TypeInv, TypeOK, ResolverTypeOK, Keys
<1>2. status' # status
  OBVIOUS
<1>3. ASSUME NEW r \in Requests, NEW op, NEW pc, NEW i, NEW u, Begin(r, op, pc, i, u)
      PROVE  FALSE
  BY <1>2, <1>3 DEF Begin, accountVars
<1>4. ASSUME NEW r \in Requests, RequestStep(r), UNCHANGED pending, HasPending(id)
      PROVE  pending'[id] # None /\ InWait(pending'[id])
  BY <1>1, <1>4 DEF HasPending, WaitInv, EntriesMatchWaits
<1>5. ASSUME NEW r \in Requests, RequestStep(r)
      PROVE  UNCHANGED pending /\ HasPending(id)
  <2>1. \A fault : StatusFrom(fault) # "challenge_pending"
    BY DEF StatusFrom
  <2>2. \A fault : StatusAfter(req[r].id, fault)[id] # "challenge_pending"
    BY <1>1, <2>1 DEF StatusAfter
  <2>3. CASE LoginStep(r)
    BY <1>1, <1>2, <2>3 DEF LoginStep, Find, Record, LoginFails, StillPending, stores, resolverVars
  <2>4. CASE ReloginStep(r)
    BY <1>1, <1>2, <2>2, <2>4
       DEF ReloginStep, BeginRelogin, PopClient, Retry, Settle, ReloginFails, StillPending,
           accountVars, resolverVars
  <2>5. CASE CallStep(r)
    BY <1>2, <2>5 DEF CallStep, RestoreSession, CredentialsAccepted, CredentialsRefused,
       AskForCode, WaitStep, EndWait, stores, accountVars
  <2>6. CASE OtherStep(r)
    BY <1>1, <1>2, <2>2, <2>6
       DEF OtherStep, Activate, BeginTwoFactor, TwoFactorFails, BeginVerify, Probe, ProbeSucceeds,
           ProbeFails, BeginLogout, FinishLogout, stores, accountVars
  <2>7. CASE ImportStep(r)
    BY <1>2, <2>7 DEF ImportStep, SaveArchived, ImportAccount, stores
  <2>. QED
    BY <1>5, <2>3, <2>4, <2>5, <2>6, <2>7 DEF RequestStep
<1>6. CASE Restart
  BY <1>6 DEF Restart
<1>7. CASE UNCHANGED vars
  BY <1>2, <1>7 DEF vars, accountVars
<1>8. ASSUME NEW r \in Requests, Start(r) PROVE FALSE
  BY <1>3, <1>8 DEF Start, StartLogin, StartImport, StartOn
<1>9. ASSUME NEW i \in AccountIds, StartRestore(i) \/ OperatorAnswers(i) PROVE FALSE
  BY <1>2, <1>3, <1>9, LoginAssumption DEF StartRestore, OperatorAnswers, accountVars
<1>10. ASSUME NEW u \in Users, ForceLogout(u) PROVE FALSE
  BY <1>2, <1>10 DEF ForceLogout
<1>. QED
  BY <1>4, <1>5, <1>6, <1>7, <1>8, <1>9, <1>10 DEF Next

\* An account is declared "challenge_pending" only while an entry for it is
\* listed with a login that waits behind it.
THEOREM PendingIsListed == Spec => PendingStatusHasEntry
<1>1. Init => TypeInv /\ WaitInv
  BY TypeInit, WaitInit
<1>2. TypeInv /\ WaitInv /\ [Next]_vars => TypeInv' /\ WaitInv'
  BY TypeStep, WaitStays
<1>. DEFINE Declared ==
              \A id \in AccountIds :
                status'[id] = "challenge_pending" /\ status[id] # "challenge_pending"
                  => pending'[id] # None /\ InWait(pending'[id])
<1>3. TypeInv /\ WaitInv /\ [Next]_vars => [Declared]_vars
  BY PendingWritten
<1>. QED
  BY <1>1, <1>2, <1>3, PTL DEF Spec, PendingStatusHasEntry

-----------------------------------------------------------------------------
(* Bulk relogins.                                                            *)

\* A bulk relogin gets past the lock of its account only when no other has.
Holds(r) == req[r].op = "bulk" /\ req[r].pc \notin {"idle", "queued"}

LEMMA TurnsStay ==
  ASSUME TypeInv, BulkTakesTurns, [Next]_vars
  PROVE  BulkTakesTurns'
<1>0. \A r \in Requests : req[r] \in RequestStates /\ ShapeOf(req[r])
  BY DEF TypeInv, TypeOK
<1>1. ASSUME NEW r \in Requests, NEW op \in Ops, NEW pc, NEW id, NEW u, Begin(r, op, pc, id, u),
             pc = "queued" \/ op # "bulk"
      PROVE  BulkTakesTurns'
  <2>1. \A s \in Requests : Holds(s)' => Holds(s) /\ req'[s] = req[s]
    BY <1>1 DEF Begin, Become, Idle, Holds, TypeInv, TypeOK
  <2>. QED
    BY <2>1 DEF BulkTakesTurns, Holds
<1>2. ASSUME NEW r \in Requests, Start(r) PROVE BulkTakesTurns'
  BY <1>1, <1>2 DEF Start, StartLogin, StartImport, StartOn, Ops
<1>3. ASSUME NEW r \in Requests, RequestStep(r) PROVE BulkTakesTurns'
  <2>1. CASE req' = req
    BY <2>1 DEF BulkTakesTurns
  <2>2. ASSUME NEW q, GoesTo(r, q) PROVE BulkTakesTurns'
    <3>1. req'[r] = q /\ \A s \in Requests : s # r => req'[s] = req[s]
      BY <2>2, RequestType
    <3>2. \A s \in Requests : s # r => (Holds(s)' <=> Holds(s))
      BY <3>1 DEF Holds
    <3>3. CASE Holds(r)
      <4>1. Holds(r)' => req'[r].id = req[r].id
        BY <1>0, <2>2, <3>1, <3>3 DEF Holds, GoesTo, ShapeOf
      <4>. QED
        BY <3>1, <3>2, <3>3, <4>1 DEF BulkTakesTurns, Holds
    <3>4. CASE ~Holds(r) /\ Holds(r)'
      <4>1. req[r].op = "bulk" /\ req[r].pc \in {"idle", "queued"}
        BY <2>2, <3>1, <3>4 DEF Holds, GoesTo
      <4>2. BeginRelogin(r)
        BY <1>3, <2>2, <4>1
           DEF RequestStep, LoginStep, ReloginStep, CallStep, ImportStep, OtherStep, At, LoggingIn,
               SaveArchived, ImportAccount,
               Find, Record, LoginFails, PopClient, Retry, Settle, ReloginFails,
               RestoreSession, CredentialsAccepted, CredentialsRefused, AskForCode, WaitStep,
               EndWait, Activate, BeginTwoFactor, TwoFactorFails, BeginVerify, Probe,
               ProbeSucceeds, ProbeFails, BeginLogout, FinishLogout
      <4>3. req[r].pc = "queued" /\ ~BulkLocked(r) /\ q.id = req[r].id
        BY <2>2, <3>1, <3>4, <4>1, <4>2 DEF BeginRelogin, At, GoesTo, Holds
      <4>4. \A s \in Requests : s # r /\ Holds(s) => req[s].id # q.id
        BY <4>3 DEF BulkLocked, Holds
      <4>. QED
        BY <3>1, <3>2, <4>4 DEF BulkTakesTurns, Holds
    <3>5. CASE ~Holds(r)'
      BY <3>1, <3>2, <3>5 DEF BulkTakesTurns, Holds
    <3>. QED
      BY <3>3, <3>4, <3>5
  <2>. QED
    BY <1>3, <2>1, <2>2, Goes
<1>4. ASSUME NEW id \in AccountIds, StartRestore(id) PROVE BulkTakesTurns'
  BY <1>1, <1>4, LoginAssumption DEF StartRestore, Ops, Relogins
<1>5. ASSUME NEW u \in Users, ForceLogout(u) PROVE BulkTakesTurns'
  <2>1. \A r \in Requests : /\ req'[r].op = req[r].op /\ req'[r].pc = req[r].pc
                            /\ req'[r].id = req[r].id
    BY <1>0, <1>5 DEF ForceLogout, RequestStates
  <2>. QED
    BY <2>1 DEF BulkTakesTurns
<1>6. CASE Restart
  BY <1>6 DEF Restart, BulkTakesTurns, Idle
<1>7. CASE UNCHANGED vars \/ \E id \in AccountIds : OperatorAnswers(id)
  BY <1>7 DEF vars, OperatorAnswers, BulkTakesTurns
<1>. QED
  BY <1>2, <1>3, <1>4, <1>5, <1>6, <1>7 DEF Next

\* Two bulk relogins never log the same account in at a time, also when one of
\* them waits for a challenge code.
THEOREM BulkReloginsTakeTurns == Spec => []BulkTakesTurns
<1>1. Init => TypeInv /\ BulkTakesTurns
  BY TypeInit DEF Init, BulkTakesTurns, Idle
<1>2. TypeInv /\ BulkTakesTurns /\ [Next]_vars => TypeInv' /\ BulkTakesTurns'
  BY TypeStep, TurnsStay
<1>. QED
  BY <1>1, <1>2, PTL DEF Spec

-----------------------------------------------------------------------------
(* The stores agree.                                                         *)

\* What holds of the account a request works on.
LEMMA WorkerFacts ==
  ASSUME IInv, NEW r \in Requests, NEW id, id = req[r].id, InProgress(r), req[r].pc \notin Early
  PROVE  /\ id \in AccountIds /\ owner[id] \in Users
         /\ req[r].user \in {owner[id], None}
         /\ req[r].user = None => owner[id] \in raced
         /\ record[id].user \in {owner[id], None}
         /\ owner[id] \notin raced =>
              /\ req[r].user = owner[id] /\ Knows(r)
              /\ Exists(id) => record[id].user = owner[id]
              /\ \A s \in Requests : InProgress(s) /\ req[s].id = id => s = r
<1>1. id \in AccountIds /\ owner[id] \in Users \union {None}
  BY DEF IInv, TypeInv, TypeOK, ShapeOf, InProgress
<1>2. /\ owner[id] # None /\ req[r].user \in {owner[id], None}
      /\ req[r].user = None => owner[id] \in raced
      /\ record[id].user \in {owner[id], None}
  BY <1>1, NoneAssumption DEF IInv, OwnerInv
<1>3. ASSUME owner[id] \notin raced
      PROVE  /\ req[r].user = owner[id] /\ Knows(r)
             /\ Exists(id) => record[id].user = owner[id]
  BY <1>1, <1>2, <1>3 DEF IInv, StoresInv
<1>4. ASSUME owner[id] \notin raced, NEW s \in Requests, InProgress(s), req[s].id = id
      PROVE  s = r
  <2>1. req[s].user = owner[id]
    BY <1>1, <1>4, NoneAssumption DEF IInv, OwnerInv
  <2>. QED
    BY <1>1, <1>2, <1>3, <1>4, <2>1 DEF IInv, Alone
<1>. QED
  BY <1>1, <1>2, <1>3, <1>4

\* A step of r on account id keeps to that account, and leaves it as the next
\* step of r, or else the next request, may find it.
Within(r, id) ==
  /\ UNCHANGED <<owner, imported, raced, toRestore>>
  /\ \A i \in AccountIds :
       i # id => record'[i] = record[i] /\ client'[i] = client[i] /\ status'[i] = status[i]
  /\ \A s \in Requests : s # r => req'[s] = req[s]

Leaves(r, id) ==
  /\ record'[id].user \in {owner[id], None}
  /\ req'[r].pc # "idle" =>
       /\ req'[r].id = id
       /\ req'[r].user \in {owner[id], None}
       /\ req'[r].user = None => owner[id] \in raced
  /\ owner[id] \notin raced =>
       /\ Exists(id)' => record'[id].user = owner[id]
       /\ Exists(id)' => Exists(id) \/ id \in imported \/ Own(owner[id]) \subseteq {id}
       /\ req'[r].pc = "idle" => Agreed(id)'
       /\ req'[r].pc # "idle" => Knows(r)'

LEMMA AccountKept ==
  ASSUME IInv, NEW r \in Requests, NEW id, id = req[r].id, InProgress(r), req[r].pc \notin Early,
         Within(r, id), Leaves(r, id)
  PROVE  OwnerInv' /\ Alone' /\ StoresInv'
<1>1. /\ id \in AccountIds /\ owner[id] \in Users
      /\ req[r].user \in {owner[id], None}
      /\ owner[id] \notin raced =>
           /\ req[r].user = owner[id]
           /\ Exists(id) => record[id].user = owner[id]
           /\ \A s \in Requests : InProgress(s) /\ req[s].id = id => s = r
  BY WorkerFacts
<1>2. \A s \in Requests : InProgress(s)' => InProgress(s)
  BY DEF Within, InProgress
<1>3. OwnerInv'
  <2>1. \A i \in AccountIds : i # id => (Exists(i)' <=> Exists(i)) /\ (Live(i)' <=> Live(i))
    BY DEF Within, Exists, Live
  <2>2. \A i \in AccountIds : /\ owner'[i] = None => ~Exists(i)' /\ ~Live(i)' /\ status'[i] = "idle"
                              /\ record'[i].user \in {owner'[i], None}
    BY <1>1, <2>1, NoneAssumption DEF Within, Leaves, IInv, OwnerInv
  <2>3. \A i \in toRestore' : owner'[i] # None
    BY DEF Within, IInv, OwnerInv
  <2>4. ASSUME NEW s \in Requests, InProgress(s)', req'[s].id # None
        PROVE  /\ owner'[req'[s].id] # None
               /\ req'[s].user \in {owner'[req'[s].id], None}
               /\ req'[s].user = None => owner'[req'[s].id] \in raced'
    <3>1. CASE s = r
      BY <1>1, <2>4, <3>1, NoneAssumption DEF Within, Leaves, InProgress
    <3>2. CASE s # r
      BY <1>2, <2>4, <3>2 DEF Within, IInv, OwnerInv, InProgress
    <3>. QED
      BY <3>1, <3>2
  <2>. QED
    BY <2>2, <2>3, <2>4 DEF OwnerInv
<1>4. ASSUME NEW s \in Requests, InProgress(s)', req'[s].user \in Users \ raced
      PROVE  InProgress(s) /\ req[s].user = req'[s].user
  <2>1. CASE s = r
    BY <1>1, <1>4, <2>1, NoneAssumption DEF Leaves, InProgress
  <2>2. CASE s # r
    BY <1>4, <2>2 DEF Within, InProgress
  <2>. QED
    BY <2>1, <2>2
<1>5. Alone'
  BY <1>4 DEF Alone, IInv, Within
<1>6. \A u \in Users \ raced : \A i \in Own(u)' :
        i \in Own(u) \/ (i = id /\ u = owner[id] /\ ~Exists(id) /\ id \notin imported)
  <2>. SUFFICES ASSUME NEW u \in Users \ raced, NEW i \in Own(u)', i \notin Own(u)
                PROVE  i = id /\ u = owner[id] /\ ~Exists(id) /\ id \notin imported
    OBVIOUS
  <2>1. i \in AccountIds /\ record'[i] # NoRecord /\ record'[i].user = u /\ i \notin imported
    BY DEF Own, IdsOf, Exists, Within
  <2>2. i = id
    BY <2>1 DEF Within, Own, IdsOf, Exists
  <2>3. u = owner[id]
    BY <2>1, <2>2, NoneAssumption DEF Leaves
  <2>. QED
    BY <1>1, <2>1, <2>2, <2>3 DEF Own, IdsOf
<1>7. \A u \in Users \ raced : \A i, j \in Own(u)' : i = j
  <2>. SUFFICES ASSUME NEW u \in Users \ raced, NEW i \in Own(u)', NEW j \in Own(u)'
                PROVE  i = j
    OBVIOUS
  <2>1. CASE i \in Own(u) /\ j \in Own(u)
    BY <2>1 DEF IInv, StoresInv
  <2>2. CASE i \notin Own(u) \/ j \notin Own(u)
    <3>1. u = owner[id] /\ ~Exists(id) /\ id \in Own(u)' /\ id \notin imported
      BY <1>6, <2>2
    <3>2. Own(u) \subseteq {id}
      BY <3>1 DEF Leaves, Own, IdsOf
    <3>. QED
      BY <1>6, <3>1, <3>2
  <2>. QED
    BY <2>1, <2>2
<1>8. ASSUME NEW i \in AccountIds, owner[i] \in Users \ raced
      PROVE  /\ Exists(i)' => record'[i].user = owner[i]
             /\ Agreed(i)' \/ WorkedOn(i)'
  <2>1. CASE i = id
    BY <1>1, <1>8, <2>1 DEF Leaves, WorkedOn, InProgress
  <2>2. CASE i # id
    <3>1. (Exists(i)' <=> Exists(i)) /\ record'[i] = record[i]
      BY <2>2 DEF Within, Exists
    <3>2. Agreed(i) => Agreed(i)'
      BY <2>2, <3>1 DEF Within, Agreed, Live, Active
    <3>3. ASSUME NEW s \in Requests, InProgress(s), req[s].id = i PROVE WorkedOn(i)'
      BY <2>2, <3>3 DEF Within, WorkedOn, InProgress
    <3>. QED
      BY <1>8, <3>1, <3>2, <3>3 DEF IInv, StoresInv, WorkedOn
  <2>. QED
    BY <2>1, <2>2
<1>9. ASSUME NEW s \in Requests, InProgress(s)', req'[s].user \in Users \ raced
      PROVE  Knows(s)'
  <2>1. CASE s = r
    BY <1>1, <1>9, <2>1, NoneAssumption DEF Leaves, InProgress
  <2>2. CASE s # r
    <3>1. InProgress(s) /\ req[s].user = req'[s].user /\ req'[s] = req[s] /\ Knows(s)
      BY <1>4, <1>9, <2>2 DEF Within, IInv, StoresInv
    <3>2. req[s].user = owner[id] => FALSE
      BY <1>1, <1>9, <2>2, <3>1 DEF IInv, Alone
    <3>3. req[s].pc \in Early \/ (req[s].id # id /\ req[s].id \in AccountIds)
      BY <1>1, <1>9, <3>1, <3>2, NoneAssumption DEF IInv, OwnerInv, TypeInv, ShapeOf, InProgress
    <3>4. Own(req[s].user)' \subseteq Own(req[s].user)
      <4>. SUFFICES ASSUME NEW u, u = req[s].user PROVE Own(u)' \subseteq Own(u)
        BY <3>1
      <4>. QED
        BY <1>6, <1>9, <3>1, <3>2
    <3>5. CASE req[s].pc \in Early
      BY <3>1, <3>5 DEF Knows, Calling
    <3>6. CASE req[s].id # id /\ req[s].id \in AccountIds
      <4>. SUFFICES ASSUME NEW i \in AccountIds, i = req[s].id PROVE Knows(s)'
        BY <3>6
      <4>1. (Exists(i)' <=> Exists(i)) /\ (Live(i)' <=> Live(i)) /\ (Active(i)' <=> Active(i))
        BY <3>6 DEF Within, Exists, Live, Active
      <4>2. (Agreed(i)' <=> Agreed(i)) /\ (Up(i)' <=> Up(i)) /\ (Down(i)' <=> Down(i))
        BY <4>1 DEF Agreed, Up, Down
      <4>. QED
        BY <3>1, <3>4, <4>1, <4>2 DEF Knows, Within
    <3>. QED
      BY <3>3, <3>5, <3>6
  <2>. QED
    BY <2>1, <2>2
<1>. QED
  BY <1>3, <1>5, <1>7, <1>8, <1>9 DEF StoresInv, Within

\* update_account on the account of a request.
LEMMA Written ==
  ASSUME TypeInv, NEW id \in AccountIds, NEW err \in Errors, NEW new,
         new = Updated(id, err) \/ new = Touched(id)
  PROVE  /\ new[id] # NoRecord
         /\ new[id].user = IF Exists(id) THEN record[id].user ELSE None
         /\ \A i \in AccountIds : i # id => new[i] = record[i]
<1>1. record \in [AccountIds -> Records \union {NoRecord}]
  BY DEF TypeInv, TypeOK
<1>2. "absent" \notin Errors /\ "none" \in Errors
  BY DEF Errors
<1>. QED
  <2>1. ASSUME NEW e \in Errors
        PROVE  /\ Updated(id, e)[id] # NoRecord
               /\ Updated(id, e)[id].user = IF Exists(id) THEN record[id].user ELSE None
               /\ \A i \in AccountIds : i # id => Updated(id, e)[i] = record[i]
    <3>1. CASE Exists(id)
      <4>1. record[id] \in Records
        BY <1>1, <3>1 DEF Exists
      <4>2. /\ [record[id] EXCEPT !.err = e].user = record[id].user
            /\ [record[id] EXCEPT !.err = e].err = e
        BY <4>1 DEF Records
      <4>. QED
        BY <1>1, <1>2, <3>1, <4>2 DEF Updated, NoRecord
    <3>2. CASE ~Exists(id)
      BY <1>1, <1>2, <3>2 DEF Updated, NoRecord
    <3>. QED
      BY <3>1, <3>2
  <2>2. Exists(id) => record[id] # NoRecord
    BY DEF Exists
  <2>. QED
    BY <1>1, <1>2, <2>1, <2>2 DEF Touched

\* Login, relogin and 2FA on the way to their outcome: the stores stay.
LEMMA CallKeeps ==
  ASSUME IInv, NEW r \in Requests, NEW id, id = req[r].id, req'[r] # req[r],
         CallStep(r) \/ Retry(r) \/ Probe(r) \/ BeginVerify(r) \/ BeginTwoFactor(r)
           \/ TwoFactorFails(r)
  PROVE  Within(r, id) /\ Leaves(r, id)
<1>0. /\ InProgress(r) /\ req[r].pc \notin Early /\ req \in [Requests -> RequestStates]
      /\ req[r] \in RequestStates /\ ShapeOf(req[r])
  BY DEF CallStep, Retry, Probe, BeginVerify, BeginTwoFactor, TwoFactorFails, At, InProgress,
         RestoreSession, CredentialsAccepted, CredentialsRefused, LoggingIn, AskForCode,
         WaitStep, EndWait, IInv, TypeInv, TypeOK
<1>1. /\ id \in AccountIds /\ owner[id] \in Users
      /\ req[r].user \in {owner[id], None}
      /\ req[r].user = None => owner[id] \in raced
      /\ record[id].user \in {owner[id], None}
      /\ owner[id] \notin raced =>
           /\ req[r].user = owner[id] /\ Knows(r)
           /\ Exists(id) => record[id].user = owner[id]
  BY <1>0, WorkerFacts
<1>2. /\ UNCHANGED <<record, client, status, owner, imported, raced, toRestore>>
      /\ \A s \in Requests : s # r => req'[s] = req[s]
  BY DEF CallStep, Retry, Probe, BeginVerify, BeginTwoFactor, TwoFactorFails, Finish, Become, Goto,
         RestoreSession, CredentialsAccepted, CredentialsRefused, AskForCode, Fail,
         WaitStep, EndWait, accountVars, stores, IInv, TypeInv, TypeOK
<1>3. Within(r, id)
  BY <1>2 DEF Within
<1>. SUFFICES Leaves(r, id)
  BY <1>3
<1>4. (Exists(id)' <=> Exists(id)) /\ (Agreed(id)' <=> Agreed(id)) /\ (Up(id)' <=> Up(id))
      /\ (Down(id)' <=> Down(id))
  BY <1>2 DEF Exists, Agreed, Live, Active, Up, Down
<1>5. ASSUME /\ req'[r].pc # "idle"
             /\ req'[r].id = id /\ req'[r].user \in {owner[id], None}
             /\ req'[r].user = None => owner[id] \in raced
             /\ owner[id] \notin raced => Knows(r)'
      PROVE  Leaves(r, id)
  BY <1>1, <1>2, <1>4, <1>5 DEF Leaves, Exists
<1>6. ASSUME req' = [req EXCEPT ![r] = Idle], owner[id] \notin raced => Agreed(id)
      PROVE  Leaves(r, id)
  <2>1. req'[r].pc = "idle"
    BY <1>0, <1>6 DEF Idle
  <2>. QED
    BY <1>1, <1>2, <1>4, <1>6, <2>1 DEF Leaves, Exists
<1>7. CASE CallStep(r) \/ Retry(r)
  <2>1. /\ req'[r].id = id /\ req'[r].user = req[r].user /\ req'[r].op = req[r].op
        /\ req'[r].pc \in Calling
    BY <1>0, <1>7 DEF CallStep, Retry, RestoreSession, CredentialsAccepted, CredentialsRefused,
       AskForCode, WaitStep, EndWait, Goto, Fail, Calling, RequestStates
  <2>2. req[r].pc \in Calling
    BY <1>7 DEF CallStep, Retry, RestoreSession, CredentialsAccepted, CredentialsRefused, LoggingIn,
       AskForCode, WaitStep, EndWait, At, Calling
  <2>3. owner[id] \notin raced => Knows(r)'
    BY <1>1, <1>4, <2>1, <2>2 DEF Knows, Calling
  <2>. QED
    BY <1>1, <1>5, <2>1, <2>3 DEF Calling
<1>8. CASE Probe(r)
  <2>1. req'[r].id = id /\ req'[r].user = req[r].user /\ req'[r].pc = "probed"
    BY <1>0, <1>8 DEF Probe, RequestStates
  <2>2. owner[id] \notin raced => Knows(r)'
    BY <1>1, <1>4, <1>8, <2>1 DEF Knows, Calling, Probe, At
  <2>. QED
    BY <1>1, <1>5, <2>1, <2>2
<1>9. CASE BeginVerify(r)
  <2>1. owner[id] \notin raced => Agreed(id)
    BY <1>1, <1>9 DEF BeginVerify, At, Knows
  <2>2. CASE Finish(r)
    BY <1>6, <2>1, <2>2 DEF Finish, Become
  <2>3. CASE Exists(id) /\ client[id] # "none" /\ Goto(r, "probe")
    <3>1. req'[r].id = id /\ req'[r].user = req[r].user /\ req'[r].pc = "probe"
      BY <1>0, <2>3 DEF Goto, RequestStates
    <3>2. owner[id] \notin raced => Up(id)
      BY <2>1, <2>3 DEF Up, Agreed, Live
    <3>3. owner[id] \notin raced => Knows(r)'
      BY <1>4, <3>1, <3>2 DEF Knows, Calling
    <3>. QED
      BY <1>1, <1>5, <3>1, <3>3
  <2>. QED
    BY <1>9, <2>2, <2>3 DEF BeginVerify
<1>10. CASE BeginTwoFactor(r)
  <2>1. owner[id] \notin raced => Agreed(id)
    BY <1>1, <1>10 DEF BeginTwoFactor, At, Knows
  <2>2. CASE Finish(r)
    BY <1>6, <2>1, <2>2 DEF Finish, Become
  <2>3. CASE record[id].user # None /\ Become(r, [req[r] EXCEPT !.pc = "call", !.user = record[id].user])
    <3>1. /\ req'[r].id = id /\ req'[r].user = owner[id]
          /\ req'[r].pc = "call" /\ req'[r].op = "twofactor"
      BY <1>0, <1>1, <1>10, <2>3 DEF BeginTwoFactor, Become, RequestStates
    <3>2. Exists(id)
      BY <2>3 DEF Exists, NoRecord
    <3>3. owner[id] \notin raced => Knows(r)'
      BY <1>4, <2>1, <3>1, <3>2 DEF Knows, Calling
    <3>. QED
      BY <1>1, <1>5, <3>1, <3>3, NoneAssumption
  <2>. QED
    BY <1>10, <2>2, <2>3 DEF BeginTwoFactor
<1>11. CASE TwoFactorFails(r)
  <2>1. owner[id] \notin raced => Agreed(id)
    BY <1>1, <1>11 DEF TwoFactorFails, At, Knows, Calling
  <2>. QED
    BY <1>6, <1>11, <2>1 DEF TwoFactorFails, Finish, Become
<1>. QED
  BY <1>3, <1>7, <1>8, <1>9, <1>10, <1>11

\* The steps that write: each finds the account as the step before left it.
LEMMA WriteKeeps ==
  ASSUME IInv, NEW r \in Requests, NEW id, id = req[r].id,
         Record(r) \/ LoginFails(r) \/ BeginRelogin(r) \/ PopClient(r) \/ Settle(r)
           \/ ReloginFails(r) \/ Activate(r) \/ ProbeSucceeds(r) \/ ProbeFails(r)
           \/ BeginLogout(r) \/ FinishLogout(r)
  PROVE  Within(r, id) /\ Leaves(r, id)
<1>0. /\ InProgress(r) /\ req[r].pc \notin Early /\ req \in [Requests -> RequestStates]
      /\ req[r] \in RequestStates /\ ShapeOf(req[r])
      /\ client \in [AccountIds -> Sessions] /\ status \in [AccountIds -> Statuses]
      /\ record \in [AccountIds -> Records \union {NoRecord}] /\ TypeInv
  BY DEF Record, LoginFails, BeginRelogin, PopClient, Settle, ReloginFails, Activate,
         ProbeSucceeds, ProbeFails, BeginLogout, FinishLogout, At, InProgress, IInv, TypeInv, TypeOK
<1>1. /\ id \in AccountIds /\ owner[id] \in Users /\ owner[id] # None
      /\ req[r].user \in {owner[id], None}
      /\ req[r].user = None => owner[id] \in raced
      /\ record[id].user \in {owner[id], None}
      /\ owner[id] \notin raced =>
           /\ req[r].user = owner[id] /\ Knows(r)
           /\ Exists(id) => record[id].user = owner[id]
  BY <1>0, WorkerFacts, NoneAssumption
<1>2. /\ UNCHANGED <<owner, imported, raced, toRestore>>
      /\ \A s \in Requests : s # r => req'[s] = req[s]
  BY <1>0 DEF Record, LoginFails, BeginRelogin, PopClient, Settle, ReloginFails, Activate,
         ProbeSucceeds, ProbeFails, BeginLogout, FinishLogout, Finish, Become, Goto, stores
<1>3. ASSUME \A i \in AccountIds : i # id => record'[i] = record[i] /\ client'[i] = client[i]
                                             /\ status'[i] = status[i]
      PROVE  Within(r, id)
  BY <1>2, <1>3 DEF Within
<1>4. \A err \in Errors : /\ Updated(id, err)[id] # NoRecord
                          /\ Updated(id, err)[id].user = IF Exists(id) THEN record[id].user ELSE None
                          /\ \A i \in AccountIds : i # id => Updated(id, err)[i] = record[i]
  BY <1>0, <1>1, Written
<1>5. ASSUME /\ req'[r].pc # "idle"
             /\ req'[r].id = id /\ req'[r].user \in {owner[id], None}
             /\ req'[r].user = None => owner[id] \in raced
             /\ owner[id] \notin raced => Knows(r)'
             /\ record'[id].user = record[id].user /\ (Exists(id)' => Exists(id))
      PROVE  Leaves(r, id)
  BY <1>1, <1>2, <1>5 DEF Leaves
<1>6. ASSUME /\ req' = [req EXCEPT ![r] = Idle]
             /\ owner[id] \notin raced => Agreed(id)'
             /\ record'[id].user \in {owner[id], None}
             /\ owner[id] \notin raced /\ Exists(id)' => Exists(id) /\ record'[id].user = record[id].user
      PROVE  Leaves(r, id)
  <2>1. req'[r].pc = "idle"
    BY <1>0, <1>6 DEF Idle
  <2>. QED
    BY <1>1, <1>2, <1>6, <2>1 DEF Leaves
<1>. USE DEF At, Goto, Finish, Become, Exists, Live, Active, Up, Down, Agreed
<1>7. CASE Record(r)
  <2>1. Within(r, id)
    BY <1>0, <1>1, <1>3, <1>7 DEF Record
  <2>2. req[r].user = owner[id] /\ req[r].op = "login"
    BY <1>0, <1>1, <1>7, NoneAssumption DEF Record, ShapeOf
  <2>3. /\ req'[r].id = id /\ req'[r].user = owner[id] /\ req'[r].pc = "call"
        /\ req'[r].op = "login"
    BY <1>0, <1>7, <2>2 DEF Record, RequestStates
  <2>4. record'[id].user = owner[id] /\ record'[id] # NoRecord
    BY <1>0, <1>1, <1>7, <2>2 DEF Record, NoRecord
  <2>5. owner[id] \notin raced => ~Live(id) /\ ~Active(id)
                                   /\ (id \in imported \/ Own(owner[id]) \subseteq {id})
    BY <1>1, <1>7, <2>2 DEF Record, Knows
  <2>6. owner[id] \notin raced => Knows(r)'
    BY <1>7, <2>3, <2>4, <2>5 DEF Record, Knows, Calling
  <2>. QED
    BY <1>1, <2>1, <2>3, <2>4, <2>5, <2>6 DEF Leaves
<1>8. CASE LoginFails(r)
  <2>1. Within(r, id)
    BY <1>0, <1>1, <1>3, <1>4, <1>8 DEF LoginFails, Errors, stores
  <2>2. owner[id] \notin raced => Down(id)
    BY <1>1, <1>8 DEF LoginFails, Knows, Calling
  <2>3. record'[id].user \in {record[id].user, None}
        /\ (Exists(id)' /\ Exists(id) => record'[id].user = record[id].user)
    BY <1>0, <1>1, <1>4, <1>8 DEF LoginFails, NoRecord, Errors, stores
  <2>4. ~Live(id) /\ ~Active(id) => Agreed(id)'
    BY <1>0, <1>1, <1>8 DEF LoginFails, stores
  <2>. QED
    BY <1>1, <1>6, <1>8, <2>1, <2>2, <2>3, <2>4 DEF LoginFails
<1>9. CASE BeginRelogin(r)
  <2>1. Within(r, id)
    BY <1>0, <1>1, <1>3, <1>9 DEF BeginRelogin
  <2>2. owner[id] \notin raced => Agreed(id)
    BY <1>1, <1>9 DEF BeginRelogin, Knows
  <2>3. CASE ~record[id].pw
    BY <1>1, <1>6, <1>9, <2>1, <2>2, <2>3 DEF BeginRelogin
  <2>4. CASE record[id].pw
    <3>0. record[id].user \in Users /\ Exists(id)
      BY <1>0, <1>1, <2>4, RecordType
    <3>1. req'[r].id = id /\ req'[r].user = owner[id] /\ req'[r].pc = "pop"
      <4>. DEFINE q == [req[r] EXCEPT !.pc = "pop", !.fresh = NeedsFresh(record[id].err),
                                      !.user = record[id].user]
      <4>1. req' = [req EXCEPT ![r] = q]
        BY <1>9, <2>4 DEF BeginRelogin
      <4>2. q.id = id /\ q.user = record[id].user /\ q.pc = "pop"
        BY <1>0 DEF RequestStates
      <4>. HIDE DEF q
      <4>. QED
        BY <1>0, <1>1, <2>4, <3>0, <4>1, <4>2, NoneAssumption
    <3>2. Exists(id) /\ status'[id] = "logging_in" /\ record' = record
      BY <1>0, <1>1, <1>9, <2>4, <3>0 DEF BeginRelogin
    <3>3. Knows(r)'
      BY <3>1, <3>2 DEF Knows, Calling
    <3>. QED
      BY <1>1, <1>5, <2>1, <3>1, <3>2, <3>3
  <2>. QED
    BY <2>3, <2>4
<1>10. CASE PopClient(r)
  <2>1. Within(r, id)
    BY <1>0, <1>1, <1>3, <1>10 DEF PopClient
  <2>2. req'[r].id = id /\ req'[r].user = req[r].user /\ req'[r].pc = "call"
        /\ req'[r].op = req[r].op /\ req[r].op \in Relogins
    BY <1>0, <1>10 DEF PopClient, RequestStates, ShapeOf
  <2>3. client'[id] = "none" /\ UNCHANGED <<record, status>>
    BY <1>0, <1>1, <1>10 DEF PopClient
  <2>4. owner[id] \notin raced => Knows(r)'
    BY <1>1, <1>10, <2>2, <2>3 DEF PopClient, Knows, Calling, Relogins
  <2>. QED
    BY <1>1, <1>5, <2>1, <2>2, <2>3, <2>4
<1>11. CASE Settle(r)
  <2>1. Within(r, id)
    BY <1>0, <1>1, <1>3, <1>4, <1>11 DEF Settle, Errors
  <2>2. owner[id] \notin raced => Up(id)
    BY <1>1, <1>11 DEF Settle, Knows, Calling
  <2>3. /\ Exists(id)' /\ status'[id] = "active" /\ client' = client
        /\ record'[id].user = IF Exists(id) THEN record[id].user ELSE None
    BY <1>0, <1>1, <1>4, <1>11 DEF Settle, Errors
  <2>4. CASE Finish(r)
    BY <1>1, <1>6, <2>1, <2>2, <2>3, <2>4
  <2>5. CASE Goto(r, "probe")
    <3>1. req'[r].id = id /\ req'[r].user = req[r].user /\ req'[r].pc = "probe"
      BY <1>0, <2>5 DEF RequestStates
    <3>2. owner[id] \notin raced => Knows(r)'
      BY <2>2, <2>3, <3>1 DEF Knows, Calling
    <3>. QED
      BY <1>1, <2>1, <2>2, <2>3, <3>1, <3>2 DEF Leaves
  <2>. QED
    BY <1>11, <2>4, <2>5 DEF Settle

<1>12. CASE ReloginFails(r)
  <2>1. ErrorOf(req[r].fault) \in Errors
    BY <1>0 DEF ErrorOf, Errors, RequestStates
  <2>2. Within(r, id)
    BY <1>0, <1>1, <1>3, <1>4, <1>12, <2>1 DEF ReloginFails, StatusAfter
  <2>3. owner[id] \notin raced => Down(id)
    BY <1>1, <1>12 DEF ReloginFails, Knows, Calling, Relogins
  <2>4. /\ client' = client
        /\ record'[id].user = IF Exists(id) THEN record[id].user ELSE None
    BY <1>0, <1>1, <1>4, <1>12, <2>1 DEF ReloginFails
  <2>5. status'[id] = status[id] \/ status'[id] # "active"
    BY <1>0, <1>1, <1>12 DEF ReloginFails, StatusAfter, StatusFrom
  <2>. QED
    BY <1>1, <1>6, <1>12, <2>2, <2>3, <2>4, <2>5 DEF ReloginFails
<1>13. CASE Activate(r)
  <2>1. Within(r, id)
    BY <1>0, <1>1, <1>3, <1>13 DEF Activate
  <2>2. /\ req'[r].id = id /\ req'[r].user = req[r].user
        /\ req'[r].pc \in {"settle", "probe"}
    BY <1>0, <1>13 DEF Activate, RequestStates
  <2>3. /\ client'[id] # "none" /\ status'[id] = "active" /\ record' = record
    BY <1>0, <1>1, <1>13 DEF Activate, ShapeOf
  <2>4. owner[id] \notin raced => Exists(id)
    BY <1>1, <1>13 DEF Activate, Knows, Calling
  <2>5. owner[id] \notin raced => Knows(r)'
    BY <2>2, <2>3, <2>4 DEF Knows, Calling
  <2>. QED
    BY <1>1, <1>5, <2>1, <2>2, <2>3, <2>5
<1>14. CASE ProbeSucceeds(r)
  <2>1. Touched(id)[id].user = (IF Exists(id) THEN record[id].user ELSE None)
        /\ Touched(id)[id] # NoRecord
        /\ \A i \in AccountIds : i # id => Touched(id)[i] = record[i]
    BY <1>0, <1>1, <1>4 DEF Touched, Errors
  <2>2. Within(r, id)
    BY <1>0, <1>1, <1>3, <1>4, <1>14, <2>1 DEF ProbeSucceeds, Errors
  <2>3. owner[id] \notin raced => Up(id)
    BY <1>1, <1>14 DEF ProbeSucceeds, Knows, Calling
  <2>4. /\ Exists(id)' /\ client' = client
        /\ record'[id].user = IF Exists(id) THEN record[id].user ELSE None
    BY <1>0, <1>1, <1>4, <1>14, <2>1 DEF ProbeSucceeds, Errors
  <2>5. status'[id] = status[id] \/ status'[id] = "active"
    BY <1>0, <1>1, <1>14 DEF ProbeSucceeds
  <2>. QED
    BY <1>1, <1>6, <1>14, <2>2, <2>3, <2>4, <2>5 DEF ProbeSucceeds
<1>15. CASE ProbeFails(r)
  <2>1. ErrorOf(req[r].fault) \in Errors
    BY <1>0 DEF ErrorOf, Errors, RequestStates
  <2>2. Within(r, id)
    BY <1>0, <1>1, <1>3, <1>4, <1>15, <2>1 DEF ProbeFails, StatusAfter, Evicted
  <2>3. owner[id] \notin raced => Up(id)
    BY <1>1, <1>15 DEF ProbeFails, Knows, Calling
  <2>4. /\ Exists(id) => Exists(id)'
        /\ record'[id].user = IF Exists(id) THEN record[id].user ELSE record'[id].user
        /\ record'[id].user \in {record[id].user, None}
    BY <1>0, <1>1, <1>4, <1>15, <2>1 DEF ProbeFails
  <2>5. \/ status'[id] = status[id] /\ client'[id] = client[id]
        \/ status'[id] # "active" /\ client'[id] = "none"
    BY <1>0, <1>1, <1>15 DEF ProbeFails, StatusAfter, StatusFrom, Evicted
  <2>. QED
    BY <1>1, <1>6, <1>15, <2>2, <2>3, <2>4, <2>5 DEF ProbeFails
<1>16. CASE BeginLogout(r)
  <2>1. Within(r, id)
    BY <1>0, <1>1, <1>3, <1>16 DEF BeginLogout
  <2>2. CASE Exists(id)
    <3>1. /\ req'[r].id = id /\ req'[r].user = record[id].user /\ req'[r].pc = "popped"
          /\ client'[id] = "none" /\ record' = record
      <4>. DEFINE q == [req[r] EXCEPT !.pc = "popped", !.user = record[id].user]
      <4>1. req' = [req EXCEPT ![r] = q]
        BY <1>16, <2>2 DEF BeginLogout
      <4>2. q.id = id /\ q.user = record[id].user /\ q.pc = "popped"
        BY <1>0 DEF RequestStates
      <4>3. client'[id] = "none" /\ record' = record
        BY <1>0, <1>1, <1>16, <2>2 DEF BeginLogout
      <4>. HIDE DEF q
      <4>. QED
        BY <1>0, <4>1, <4>2, <4>3
    <3>2. Knows(r)'
      BY <3>1 DEF Knows, Calling
    <3>. QED
      BY <1>1, <1>5, <2>1, <2>2, <3>1, <3>2
  <2>3. CASE ~Exists(id)
    <3>1. Finish(r) /\ UNCHANGED <<record, client, status>>
      BY <1>16, <2>3 DEF BeginLogout
    <3>2. owner[id] \notin raced => Agreed(id)
      BY <1>1, <1>16 DEF BeginLogout, Knows
    <3>. QED
      BY <1>1, <1>6, <2>1, <2>3, <3>1, <3>2
  <2>. QED
    BY <2>2, <2>3
<1>17. CASE FinishLogout(r)
  <2>1. Within(r, id)
    BY <1>0, <1>1, <1>3, <1>17 DEF FinishLogout
  <2>2. owner[id] \notin raced => ~Live(id)
    BY <1>1, <1>17 DEF FinishLogout, Knows, Calling
  <2>3. record'[id] = NoRecord /\ client' = client /\ status'[id] = "idle"
    BY <1>0, <1>1, <1>17 DEF FinishLogout
  <2>. QED
    BY <1>1, <1>6, <1>17, <2>1, <2>2, <2>3 DEF FinishLogout, NoRecord
<1>. QED
  BY <1>7, <1>8, <1>9, <1>10, <1>11, <1>12, <1>13, <1>14, <1>15, <1>16, <1>17

\* Nothing that the invariant is about changes.
LEMMA NothingChanges ==
  ASSUME IInv, UNCHANGED <<record, owner, imported, client, status, req, toRestore, raced>>
  PROVE  OwnerInv' /\ Alone' /\ StoresInv'
<1>1. OwnerInv' /\ Alone'
  BY DEF IInv, OwnerInv, Alone, InProgress, Exists, Live
<1>2. \A id \in AccountIds : (Exists(id)' <=> Exists(id)) /\ (Agreed(id)' <=> Agreed(id))
                             /\ (Up(id)' <=> Up(id)) /\ (Down(id)' <=> Down(id))
                             /\ (WorkedOn(id)' <=> WorkedOn(id))
                             /\ (Live(id)' <=> Live(id)) /\ (Active(id)' <=> Active(id))
  BY DEF Exists, Agreed, Live, Active, Up, Down, WorkedOn, InProgress
<1>3. \A u : Own(u)' = Own(u)
  BY DEF Own, IdsOf, Exists
<1>4. ASSUME NEW r \in Requests, InProgress(r), Knows(r) PROVE Knows(r)'
  <2>1. Own(req[r].user)' = Own(req[r].user)
    BY DEF Own, IdsOf, Exists
  <2>2. req[r].pc \in Early \/ req[r].id \in AccountIds
    BY <1>4 DEF IInv, TypeInv, ShapeOf, InProgress
  <2>3. CASE req[r].pc \in Early
    BY <2>3 DEF Knows, Calling
  <2>4. ASSUME NEW id \in AccountIds, id = req[r].id PROVE Knows(r)'
    <3>1. req'[r] = req[r]
      OBVIOUS
    <3>. QED
      BY <1>2, <1>4, <2>1, <2>4, <3>1 DEF Knows
  <2>. QED
    BY <2>2, <2>3, <2>4
<1>5. StoresInv'
  <2>1. \A r \in Requests : InProgress(r)' <=> InProgress(r)
    BY DEF InProgress
  <2>. QED
    BY <1>2, <1>3, <1>4, <2>1 DEF IInv, StoresInv
<1>. QED
  BY <1>1, <1>5

\* A login that finds an account of the username, or makes one.
LEMMA FindKeeps ==
  ASSUME IInv, NEW r \in Requests, Find(r)
  PROVE  OwnerInv' /\ Alone' /\ StoresInv'
<1>. DEFINE u == req[r].user
<1>0. /\ InProgress(r) /\ req \in [Requests -> RequestStates] /\ req[r] \in RequestStates
      /\ u \in Users /\ req[r].id = None /\ req[r].pc = "find"
      /\ owner \in [AccountIds -> Users \union {None}]
  BY DEF Find, At, InProgress, IInv, TypeInv, TypeOK, ShapeOf
<1>1. PICK id \in AccountIds, pc \in {"probe", "record"} :
        /\ req' = [req EXCEPT ![r] = [req[r] EXCEPT !.id = id, !.pc = pc]]
        /\ \/ /\ id \in IdsOf(u) /\ owner' = owner
              /\ pc = IF client[id] # "none" THEN "probe" ELSE "record"
           \/ /\ IdsOf(u) = {} /\ owner[id] = None /\ owner' = [owner EXCEPT ![id] = u]
              /\ pc = "record"
  BY DEF Find, Become, IdsOf
<1>2. /\ UNCHANGED <<record, imported, client, status, toRestore, raced>>
      /\ \A s \in Requests : s # r => req'[s] = req[s]
      /\ req'[r].id = id /\ req'[r].user = u /\ req'[r].pc = pc
  <2>1. UNCHANGED <<record, imported, client, status, toRestore, raced>>
    BY DEF Find, stores
  <2>. DEFINE q == [req[r] EXCEPT !.id = id, !.pc = pc]
  <2>2. q.id = id /\ q.user = u /\ q.pc = pc
    BY <1>0 DEF RequestStates
  <2>3. req' = [req EXCEPT ![r] = q]
    BY <1>1
  <2>. HIDE DEF q, u
  <2>. QED
    BY <1>0, <2>1, <2>2, <2>3
<1>. HIDE DEF u
<1>3. owner'[id] = u /\ \A i \in AccountIds : i # id => owner'[i] = owner[i]
  BY <1>0, <1>1, NoneAssumption DEF IInv, OwnerInv, IdsOf
<1>4. ASSUME NEW s \in Requests, s # r, InProgress(s), req[s].pc \notin Early
      PROVE  req[s].id \in AccountIds /\ owner'[req[s].id] = owner[req[s].id]
  BY <1>0, <1>1, <1>3, <1>4, NoneAssumption
     DEF IInv, OwnerInv, TypeInv, ShapeOf, InProgress, IdsOf
<1>5. \A s \in Requests : InProgress(s)' <=> InProgress(s)
  BY <1>0, <1>1, <1>2 DEF InProgress
<1>6. /\ \A i \in AccountIds : (Exists(i)' <=> Exists(i)) /\ (Agreed(i)' <=> Agreed(i))
                             /\ (Up(i)' <=> Up(i)) /\ (Down(i)' <=> Down(i))
                             /\ (Live(i)' <=> Live(i)) /\ (Active(i)' <=> Active(i))
      /\ \A v : Own(v)' = Own(v)
  BY <1>2 DEF Exists, Agreed, Live, Active, Up, Down, Own, IdsOf
<1>7. OwnerInv'
  <2>1. \A i \in AccountIds : /\ owner'[i] = None => ~Exists(i)' /\ ~Live(i)' /\ status'[i] = "idle"
                              /\ record'[i].user \in {owner'[i], None}
    <3>1. record[id].user \in {u, None}
      BY <1>1 DEF IInv, OwnerInv, IdsOf
    <3>. QED
      BY <1>0, <1>2, <1>3, <1>6, <3>1, NoneAssumption DEF IInv, OwnerInv
  <2>2. \A i \in toRestore' : owner'[i] # None
    BY <1>0, <1>2, <1>3, NoneAssumption DEF IInv, OwnerInv, TypeInv, TypeOK
  <2>3. ASSUME NEW s \in Requests, InProgress(s)', req'[s].id # None
        PROVE  /\ owner'[req'[s].id] # None
               /\ req'[s].user \in {owner'[req'[s].id], None}
               /\ req'[s].user = None => owner'[req'[s].id] \in raced'
    <3>1. CASE s = r
      BY <1>0, <1>2, <1>3, <3>1, NoneAssumption
    <3>2. CASE s # r
      <4>1. req'[s] = req[s] /\ InProgress(s) /\ raced' = raced /\ req[s].pc \notin Early
        BY <1>2, <1>5, <2>3, <3>2 DEF IInv, TypeInv, ShapeOf
      <4>. QED
        BY <1>4, <2>3, <3>2, <4>1 DEF IInv, OwnerInv
    <3>. QED
      BY <3>1, <3>2
  <2>. QED
    BY <2>1, <2>2, <2>3 DEF OwnerInv
<1>8. Alone'
  BY <1>0, <1>2, <1>5 DEF Alone, IInv, u
<1>9. ASSUME u \notin raced, NEW s \in Requests, InProgress(s), req[s].id = id PROVE FALSE
  <2>1. s # r /\ req[s].user \in {owner[id], None} /\ owner[id] # None
        /\ (req[s].user = None => owner[id] \in raced)
    BY <1>0, <1>9, NoneAssumption DEF IInv, OwnerInv
  <2>2. owner[id] = u
    BY <1>1, <1>3, <2>1
  <2>3. req[s].user = req[r].user
    BY <1>9, <2>1, <2>2 DEF u
  <2>. QED
    BY <1>0, <1>9, <2>1, <2>3 DEF IInv, Alone, u
<1>10. ASSUME u \notin raced
       PROVE  /\ Exists(id) => record[id].user = u
              /\ Agreed(id) /\ (id \in imported \/ Own(u) \subseteq {id})
              /\ pc = "probe" => Up(id)
              /\ pc = "record" => ~Live(id) /\ ~Active(id)
  <2>1. CASE id \in IdsOf(u) /\ owner' = owner /\ pc = IF client[id] # "none" THEN "probe" ELSE "record"
    <3>1. Exists(id) /\ record[id].user = u /\ owner[id] = u
      BY <1>3, <2>1 DEF IdsOf
    <3>2. Agreed(id)
      BY <1>0, <1>9, <1>10, <3>1 DEF IInv, StoresInv, WorkedOn
    <3>3. id \in imported \/ Own(u) \subseteq {id}
      BY <1>0, <1>10, <2>1 DEF IInv, StoresInv, Own
    <3>. QED
      BY <2>1, <3>1, <3>2, <3>3 DEF Agreed, Live, Up
  <2>2. CASE IdsOf(u) = {} /\ owner[id] = None /\ pc = "record"
    <3>1. ~Exists(id) /\ ~Live(id) /\ ~Active(id)
      BY <2>2 DEF IInv, OwnerInv, Active
    <3>. QED
      BY <2>2, <3>1 DEF Agreed, Own
  <2>. QED
    BY <1>1, <2>1, <2>2
<1>11. ASSUME NEW i \in AccountIds, owner'[i] \in Users \ raced
       PROVE  (Exists(i)' => record'[i].user = owner'[i]) /\ (Agreed(i)' \/ WorkedOn(i)')
  <2>1. CASE i = id
    BY <1>2, <1>3, <1>6, <1>10, <1>11, <2>1
  <2>2. CASE i # id
    <3>1. WorkedOn(i) => WorkedOn(i)'
      BY <1>0, <1>2, <1>5, NoneAssumption DEF WorkedOn
    <3>. QED
      BY <1>2, <1>3, <1>6, <1>11, <2>2, <3>1 DEF IInv, StoresInv
  <2>. QED
    BY <2>1, <2>2
<1>12. ASSUME NEW s \in Requests, InProgress(s)', req'[s].user \in Users \ raced
       PROVE  Knows(s)'
  <2>1. CASE s = r
    <3>1. u \notin raced
      BY <1>2, <1>12, <2>1
    <3>2. id \in imported' \/ Own(req[r].user)' \subseteq {id}
      BY <1>2, <1>10, <3>1 DEF Own, IdsOf, Exists, u
    <3>. QED
      BY <1>2, <1>6, <1>10, <2>1, <3>1, <3>2 DEF Knows, Calling, Own, IdsOf, Exists, u
  <2>2. CASE s # r
    <3>1. req'[s] = req[s] /\ InProgress(s) /\ Knows(s)
      BY <1>2, <1>5, <1>12, <2>2 DEF IInv, StoresInv
    <3>2. Own(req[s].user)' = Own(req[s].user)
      BY <1>2, <3>1 DEF Own, IdsOf, Exists
    <3>3. CASE req[s].pc \in Early
      BY <3>1, <3>3 DEF Knows, Calling
    <3>4. ASSUME NEW i \in AccountIds, i = req[s].id PROVE Knows(s)'
      BY <1>2, <1>6, <3>1, <3>2, <3>4 DEF Knows
    <3>. QED
      BY <1>4, <2>2, <3>1, <3>3, <3>4
  <2>. QED
    BY <2>1, <2>2
<1>13. StoresInv'
  <2>1. \A v \in Users \ raced' : \A i, j \in Own(v)' : i = j
    BY <1>2, <1>6 DEF IInv, StoresInv
  <2>. QED
    BY <1>2, <1>11, <1>12, <2>1 DEF StoresInv
<1>. QED
  BY <1>7, <1>8, <1>13

\* An import writes the session file of its username,
LEMMA SaveKeeps ==
  ASSUME IInv, NEW r \in Requests, SaveArchived(r)
  PROVE  OwnerInv' /\ Alone' /\ StoresInv'
<1>0. /\ req \in [Requests -> RequestStates] /\ req[r] \in RequestStates
      /\ req[r].pc = "archive" /\ req[r].id = None
      /\ UNCHANGED <<record, owner, imported, client, status, toRestore, raced>>
  BY DEF SaveArchived, At, stores, IInv, TypeInv, TypeOK, ShapeOf
<1>1. /\ req'[r].pc = "archived" /\ req'[r].id = None /\ req'[r].user = req[r].user
      /\ \A s \in Requests : s # r => req'[s] = req[s]
  BY <1>0 DEF SaveArchived, Goto, RequestStates
<1>2. \A s \in Requests : /\ InProgress(s)' <=> InProgress(s)
                          /\ req'[s].user = req[s].user /\ req'[s].id = req[s].id
  BY <1>0, <1>1 DEF InProgress
<1>3. OwnerInv' /\ Alone'
  BY <1>0, <1>2 DEF IInv, OwnerInv, Alone, Exists, Live
<1>4. /\ \A i \in AccountIds : (Exists(i)' <=> Exists(i)) /\ (Agreed(i)' <=> Agreed(i))
                             /\ (Up(i)' <=> Up(i)) /\ (Down(i)' <=> Down(i))
                             /\ (Live(i)' <=> Live(i)) /\ (Active(i)' <=> Active(i))
                             /\ (WorkedOn(i)' <=> WorkedOn(i))
      /\ \A v : Own(v)' = Own(v)
  BY <1>0, <1>2 DEF Exists, Agreed, Live, Active, Up, Down, WorkedOn, Own, IdsOf
<1>5. ASSUME NEW s \in Requests, InProgress(s), Knows(s) PROVE Knows(s)'
  <2>1. CASE s = r
    BY <1>1, <2>1 DEF Knows, Calling
  <2>2. CASE s # r /\ req[s].pc \in Early
    BY <1>1, <2>2 DEF Knows, Calling
  <2>3. CASE s # r /\ req[s].pc \notin Early
    <3>1. PICK i \in AccountIds : i = req[s].id
      BY <1>5, <2>3 DEF IInv, TypeInv, ShapeOf, InProgress
    <3>2. req'[s] = req[s] /\ Own(req[s].user)' = Own(req[s].user)
      BY <1>0, <1>1, <2>3 DEF Own, IdsOf, Exists
    <3>. QED
      BY <1>0, <1>4, <1>5, <3>1, <3>2 DEF Knows
  <2>. QED
    BY <2>1, <2>2, <2>3
<1>6. StoresInv'
  BY <1>0, <1>2, <1>4, <1>5 DEF IInv, StoresInv
<1>. QED
  BY <1>3, <1>6

\* and makes a new account, which nobody works on and which has no client.
LEMMA ImportKeeps ==
  ASSUME IInv, NEW r \in Requests, ImportAccount(r)
  PROVE  OwnerInv' /\ Alone' /\ StoresInv'
<1>. DEFINE u == req[r].user
<1>0. /\ req \in [Requests -> RequestStates] /\ InProgress(r)
      /\ u \in Users /\ u # None
      /\ owner \in [AccountIds -> Users \union {None}]
      /\ record \in [AccountIds -> Records \union {NoRecord}]
  BY NoneAssumption DEF ImportAccount, At, InProgress, IInv, TypeInv, TypeOK, ShapeOf
<1>1. PICK id \in AccountIds :
        /\ owner[id] = None /\ owner' = [owner EXCEPT ![id] = u]
        /\ imported' = imported \union {id}
        /\ record' = [record EXCEPT ![id] = [user |-> u, pw |-> FALSE, err |-> "none"]]
  BY DEF ImportAccount
<1>2. /\ UNCHANGED <<client, status, toRestore, raced>>
      /\ req'[r].pc = "idle" /\ \A s \in Requests : s # r => req'[s] = req[s]
  BY <1>0 DEF ImportAccount, Finish, Become, Idle
<1>3. /\ owner'[id] = u /\ record'[id].user = u /\ Exists(id)'
      /\ \A i \in AccountIds : i # id => owner'[i] = owner[i] /\ record'[i] = record[i]
  BY <1>0, <1>1 DEF Exists, NoRecord
<1>. HIDE DEF u
<1>4. ~Exists(id) /\ ~Live(id) /\ ~Active(id) /\ id \notin toRestore
      /\ \A s \in Requests : InProgress(s) => req[s].id # id
  BY <1>1, NoneAssumption DEF IInv, OwnerInv, Active
<1>5. \A i \in AccountIds :
        i # id => /\ Exists(i)' <=> Exists(i)
                  /\ (Live(i)' <=> Live(i)) /\ (Active(i)' <=> Active(i))
  BY <1>2, <1>3 DEF Exists, Live, Active
<1>6. \A i \in AccountIds :
        i # id => /\ Agreed(i)' <=> Agreed(i)
                  /\ (Up(i)' <=> Up(i)) /\ (Down(i)' <=> Down(i))
  BY <1>5 DEF Agreed, Up, Down
<1>7. Agreed(id)' /\ ~Live(id)' /\ status'[id] = status[id]
  BY <1>2, <1>4 DEF Agreed, Live, Active
<1>8. \A s \in Requests : InProgress(s)' => InProgress(s) /\ s # r /\ req'[s] = req[s]
  BY <1>2 DEF InProgress
<1>9. \A v : Own(v)' = Own(v)
  <2>. TAKE v
  <2>1. \A i \in AccountIds : i # id => (i \in Own(v)' <=> i \in Own(v))
    BY <1>1, <1>3, <1>5 DEF Own, IdsOf
  <2>2. id \notin Own(v) /\ id \notin Own(v)'
    BY <1>1, <1>4 DEF Own, IdsOf
  <2>. QED
    BY <2>1, <2>2 DEF Own, IdsOf
<1>10. OwnerInv'
  <2>1. \A i \in AccountIds : /\ owner'[i] = None => ~Exists(i)' /\ ~Live(i)' /\ status'[i] = "idle"
                              /\ record'[i].user \in {owner'[i], None}
    BY <1>0, <1>2, <1>3, <1>5 DEF IInv, OwnerInv
  <2>2. ASSUME NEW s \in Requests, InProgress(s)', req'[s].id # None
        PROVE  /\ owner'[req'[s].id] # None
               /\ req'[s].user \in {owner'[req'[s].id], None}
               /\ req'[s].user = None => owner'[req'[s].id] \in raced'
    <3>1. InProgress(s) /\ req'[s] = req[s] /\ req[s].id # id /\ req[s].pc \notin Early
      BY <1>4, <1>8, <2>2 DEF IInv, TypeInv, ShapeOf
    <3>2. req[s].id \in AccountIds
      BY <3>1 DEF IInv, TypeInv, ShapeOf, InProgress
    <3>. QED
      BY <1>2, <1>3, <2>2, <3>1, <3>2 DEF IInv, OwnerInv
  <2>3. \A i \in toRestore' : owner'[i] # None
    BY <1>2, <1>3, <1>4 DEF IInv, OwnerInv, TypeInv, TypeOK
  <2>. QED
    BY <2>1, <2>2, <2>3 DEF OwnerInv
<1>11. Alone'
  BY <1>2, <1>8 DEF Alone, IInv
<1>12. ASSUME NEW i \in AccountIds, owner'[i] \in Users \ raced'
       PROVE  (Exists(i)' => record'[i].user = owner'[i]) /\ (Agreed(i)' \/ WorkedOn(i)')
  <2>1. CASE i = id
    BY <1>3, <1>7, <2>1
  <2>2. CASE i # id
    <3>1. ASSUME NEW s \in Requests, InProgress(s), req[s].id = i, s # r PROVE WorkedOn(i)'
      BY <1>2, <3>1 DEF WorkedOn, InProgress
    <3>2. req[r].id # i
      BY NoneAssumption DEF ImportAccount, At, IInv, TypeInv, ShapeOf
    <3>. QED
      BY <1>2, <1>3, <1>5, <1>6, <1>12, <2>2, <3>1, <3>2 DEF IInv, StoresInv, WorkedOn
  <2>. QED
    BY <2>1, <2>2
<1>13. ASSUME NEW s \in Requests, InProgress(s)', req'[s].user \in Users \ raced'
       PROVE  Knows(s)'
  <2>1. InProgress(s) /\ req'[s] = req[s] /\ Knows(s)
    BY <1>2, <1>8, <1>13 DEF IInv, StoresInv
  <2>2. CASE req[s].pc \in Early
    BY <2>1, <2>2 DEF Knows, Calling
  <2>3. CASE req[s].pc \notin Early
    <3>1. PICK i \in AccountIds : i = req[s].id
      BY <2>1, <2>3 DEF IInv, TypeInv, ShapeOf, InProgress
    <3>2. i # id
      BY <1>4, <2>1, <3>1
    <3>3. Own(req[s].user)' = Own(req[s].user) /\ (i \in imported' <=> i \in imported)
      <4>1. i \in imported' <=> i \in imported
        BY <1>1, <3>2
      <4>. SUFFICES ASSUME NEW v, v = req[s].user PROVE Own(v)' = Own(v)
        BY <2>1, <4>1
      <4>. QED
        BY <1>9
    <3>. QED
      BY <1>5, <1>6, <2>1, <3>1, <3>2, <3>3 DEF Knows
  <2>. QED
    BY <2>2, <2>3
<1>. QED
  BY <1>2, <1>9, <1>10, <1>11, <1>12, <1>13 DEF StoresInv, IInv

\* A request begins: on its own, or its username counts as raced from now on.
LEMMA BeginKeeps ==
  ASSUME IInv, NEW r \in Requests, ~InProgress(r), NEW op, NEW pc, NEW id, NEW u \in Users,
         Begin(r, op, pc, id, u), toRestore' \subseteq toRestore,
         \/ pc \in {"find", "archive"} /\ id = None
         \/ pc = "queued" /\ id \in AccountIds /\ owner[id] = u
  PROVE  OwnerInv' /\ Alone' /\ StoresInv'
<1>0. /\ req \in [Requests -> RequestStates] /\ raced \subseteq raced' /\ u # None
      /\ UNCHANGED <<record, owner, imported, client, status>>
      /\ u \notin raced' => \A s \in Requests : s # r /\ InProgress(s) => req[s].user # u
  BY NoneAssumption DEF IInv, TypeInv, TypeOK, Begin, accountVars
<1>1. /\ req'[r].pc = pc /\ req'[r].id = id /\ req'[r].user = u
      /\ \A s \in Requests : s # r => req'[s] = req[s]
  <2>. DEFINE q == [Idle EXCEPT !.op = op, !.pc = pc, !.id = id, !.user = u]
  <2>1. q.pc = pc /\ q.id = id /\ q.user = u
    BY DEF Idle
  <2>2. req' = [req EXCEPT ![r] = q]
    BY DEF Begin, Become
  <2>. HIDE DEF q
  <2>. QED
    BY <1>0, <2>1, <2>2
<1>2. /\ \A i \in AccountIds : (Exists(i)' <=> Exists(i)) /\ (Agreed(i)' <=> Agreed(i))
                             /\ (Up(i)' <=> Up(i)) /\ (Down(i)' <=> Down(i))
                             /\ (Live(i)' <=> Live(i)) /\ (Active(i)' <=> Active(i))
      /\ \A v : Own(v)' = Own(v)
  BY <1>0 DEF Exists, Agreed, Live, Active, Up, Down, Own, IdsOf
<1>3. \A s \in Requests : s # r => (InProgress(s)' <=> InProgress(s))
  BY <1>1 DEF InProgress
<1>4. OwnerInv'
  <2>1. \A i \in AccountIds : /\ owner'[i] = None => ~Exists(i)' /\ ~Live(i)' /\ status'[i] = "idle"
                              /\ record'[i].user \in {owner'[i], None}
    BY <1>0, <1>2 DEF IInv, OwnerInv
  <2>2. ASSUME NEW s \in Requests, InProgress(s)', req'[s].id # None
        PROVE  /\ owner'[req'[s].id] # None
               /\ req'[s].user \in {owner'[req'[s].id], None}
               /\ req'[s].user = None => owner'[req'[s].id] \in raced'
    <3>1. CASE s = r
      BY <1>0, <1>1, <2>2, <3>1
    <3>2. CASE s # r
      BY <1>0, <1>1, <1>3, <2>2, <3>2 DEF IInv, OwnerInv
    <3>. QED
      BY <3>1, <3>2
  <2>. QED
    BY <1>0, <2>1, <2>2 DEF IInv, OwnerInv
<1>5. Alone'
  <2>. SUFFICES ASSUME NEW s \in Requests, NEW t \in Requests, InProgress(s)', InProgress(t)',
                       req'[s].user = req'[t].user, req'[s].user \in Users \ raced'
                PROVE  s = t
    BY DEF Alone
  <2>1. CASE s # r /\ t # r
    BY <1>0, <1>1, <1>3, <2>1 DEF IInv, Alone
  <2>2. CASE s = r \/ t = r
    BY <1>0, <1>1, <1>3, <2>2
  <2>. QED
    BY <2>1, <2>2
<1>6. ASSUME NEW i \in AccountIds, owner[i] \in Users \ raced'
      PROVE  (Exists(i) => record[i].user = owner[i]) /\ (Agreed(i) \/ WorkedOn(i)')
  <2>1. WorkedOn(i) => WorkedOn(i)'
    BY <1>1, <1>3 DEF WorkedOn, InProgress
  <2>. QED
    BY <1>0, <1>6, <2>1 DEF IInv, StoresInv
<1>7. ASSUME NEW s \in Requests, InProgress(s)', req'[s].user \in Users \ raced'
      PROVE  Knows(s)'
  <2>1. CASE s = r
    <3>1. CASE pc \in {"find", "archive"}
      BY <1>1, <2>1, <3>1 DEF Knows, Calling
    <3>2. CASE pc = "queued" /\ id \in AccountIds /\ owner[id] = u
      <4>1. ASSUME NEW t \in Requests, InProgress(t), req[t].id = id PROVE FALSE
        <5>1. t # r /\ req[t].user \in {u, None} /\ (req[t].user = None => u \in raced)
          BY <3>2, <4>1, NoneAssumption DEF IInv, OwnerInv
        <5>. QED
          BY <1>0, <1>1, <1>7, <2>1, <4>1, <5>1
      <4>2. Agreed(id)
        BY <1>0, <1>1, <1>7, <2>1, <3>2, <4>1 DEF IInv, StoresInv, WorkedOn
      <4>. QED
        BY <1>1, <1>2, <2>1, <3>2, <4>2 DEF Knows, Calling
    <3>. QED
      BY <3>1, <3>2
  <2>2. CASE s # r
    <3>1. req'[s] = req[s] /\ InProgress(s) /\ Knows(s)
      BY <1>0, <1>1, <1>3, <1>7, <2>2 DEF IInv, StoresInv
    <3>2. Own(req[s].user)' = Own(req[s].user)
      BY <1>0, <3>1 DEF Own, IdsOf, Exists
    <3>3. CASE req[s].pc \in Early
      BY <3>1, <3>3 DEF Knows, Calling
    <3>4. ASSUME NEW i \in AccountIds, i = req[s].id PROVE Knows(s)'
      BY <1>0, <1>2, <3>1, <3>2, <3>4 DEF Knows
    <3>5. req[s].pc \in Early \/ req[s].id \in AccountIds
      BY <3>1 DEF IInv, TypeInv, ShapeOf, InProgress
    <3>. QED
      BY <3>3, <3>4, <3>5
  <2>. QED
    BY <2>1, <2>2
<1>8. StoresInv'
  <2>1. \A v \in Users \ raced' : \A i, j \in Own(v)' : i = j
    BY <1>0, <1>2 DEF IInv, StoresInv
  <2>. QED
    BY <1>0, <1>2, <1>6, <1>7, <2>1 DEF StoresInv
<1>. QED
  BY <1>4, <1>5, <1>8

\* Instagram ends the sessions of a username: a client may be dead by then, but
\* it is still there.
LEMMA ForceLogoutKeeps ==
  ASSUME IInv, NEW v \in Users, ForceLogout(v)
  PROVE  OwnerInv' /\ Alone' /\ StoresInv'
<1>0. /\ req \in [Requests -> RequestStates] /\ client \in [AccountIds -> Sessions]
      /\ UNCHANGED <<record, owner, imported, status, toRestore, raced>>
  BY DEF IInv, TypeInv, TypeOK, ForceLogout
<1>1. \A s \in Requests : /\ req'[s].pc = req[s].pc /\ req'[s].op = req[s].op
                          /\ req'[s].id = req[s].id /\ req'[s].user = req[s].user
  BY <1>0 DEF ForceLogout, RequestStates
<1>2. \A i \in AccountIds : Live(i)' <=> Live(i)
  BY <1>0 DEF ForceLogout, Live
<1>3. /\ \A i \in AccountIds : (Exists(i)' <=> Exists(i)) /\ (Agreed(i)' <=> Agreed(i))
                             /\ (Up(i)' <=> Up(i)) /\ (Down(i)' <=> Down(i))
                             /\ (Active(i)' <=> Active(i))
      /\ \A u : Own(u)' = Own(u)
      /\ \A i \in AccountIds : WorkedOn(i)' <=> WorkedOn(i)
      /\ \A s \in Requests : InProgress(s)' <=> InProgress(s)
  <2>1. \A s \in Requests : InProgress(s)' <=> InProgress(s)
    BY <1>1 DEF InProgress
  <2>2. \A i \in AccountIds : WorkedOn(i)' <=> WorkedOn(i)
    BY <1>1, <2>1 DEF WorkedOn
  <2>3. \A u : Own(u)' = Own(u)
    BY <1>0 DEF Own, IdsOf, Exists
  <2>4. \A i \in AccountIds : (Exists(i)' <=> Exists(i)) /\ (Active(i)' <=> Active(i))
    BY <1>0 DEF Exists, Active
  <2>. QED
    BY <1>2, <2>1, <2>2, <2>3, <2>4 DEF Agreed, Up, Down
<1>4. OwnerInv' /\ Alone'
  BY <1>0, <1>1, <1>2, <1>3 DEF IInv, OwnerInv, Alone
<1>5. ASSUME NEW s \in Requests, InProgress(s), Knows(s) PROVE Knows(s)'
  <2>1. Own(req[s].user)' = Own(req[s].user)
    BY <1>0, <1>1 DEF Own, IdsOf, Exists
  <2>2. req[s].pc \in Early \/ req[s].id \in AccountIds
    BY <1>5 DEF IInv, TypeInv, ShapeOf, InProgress
  <2>3. CASE req[s].pc \in Early
    BY <1>1, <2>3 DEF Knows, Calling
  <2>4. ASSUME NEW i \in AccountIds, i = req[s].id PROVE Knows(s)'
    BY <1>0, <1>1, <1>2, <1>3, <1>5, <2>1, <2>4 DEF Knows
  <2>. QED
    BY <2>2, <2>3, <2>4
<1>6. StoresInv'
  BY <1>0, <1>1, <1>3, <1>5 DEF IInv, StoresInv
<1>. QED
  BY <1>4, <1>6

\* A restart leaves no client, no status and no request; only a username with a
\* request that broke off is raced.
LEMMA RestartKeeps ==
  ASSUME IInv, Restart
  PROVE  OwnerInv' /\ Alone' /\ StoresInv'
<1>0. /\ UNCHANGED <<record, owner, imported>> /\ raced \subseteq raced'
      /\ \A i \in AccountIds : client'[i] = "none" /\ status'[i] = "idle"
      /\ \A s \in Requests : req'[s].pc = "idle"
      /\ \A i \in toRestore' : Exists(i) /\ i \in AccountIds
  BY DEF Restart, Idle
<1>1. \A s \in Requests : ~InProgress(s)'
  BY <1>0 DEF InProgress
<1>2. \A i \in AccountIds : (Exists(i)' <=> Exists(i)) /\ ~Live(i)' /\ Agreed(i)'
  BY <1>0 DEF Exists, Live, Active, Agreed
<1>3. OwnerInv'
  BY <1>0, <1>1, <1>2 DEF IInv, OwnerInv
<1>4. \A u : Own(u)' = Own(u)
  BY <1>0 DEF Own, IdsOf, Exists
<1>5. StoresInv'
  BY <1>0, <1>1, <1>2, <1>4 DEF IInv, StoresInv
<1>. QED
  BY <1>1, <1>3, <1>5 DEF Alone

LEMMA AgreeInit == Init => IInv
<1>. SUFFICES ASSUME Init PROVE IInv
  OBVIOUS
<1>1. TypeInv /\ WaitInv
  BY TypeInit, WaitInit
<1>2. \A r \in Requests : ~InProgress(r)
  BY DEF Init, Idle, InProgress
<1>3. BulkTakesTurns
  BY <1>2 DEF BulkTakesTurns, InProgress
<1>. USE DEF Init
<1>4. \A id \in AccountIds : /\ Exists(id) <=> owner[id] # None
                             /\ Live(id) <=> owner[id] # None
                             /\ Active(id) <=> owner[id] # None
                             /\ owner[id] = None => status[id] = "idle"
                             /\ record[id].user = owner[id]
  BY DEF Exists, Live, Active, NoRecord
<1>5. OwnerInv
  BY <1>2, <1>4 DEF OwnerInv
<1>6. \A u \in Users : \A i, j \in Own(u) : i = j
  BY <1>4, NoneAssumption DEF Own, IdsOf, OnFile
<1>7. StoresInv
  BY <1>2, <1>4, <1>6 DEF StoresInv, Agreed
<1>. QED
  BY <1>1, <1>2, <1>3, <1>5, <1>7 DEF IInv, Alone

LEMMA AgreeStep == IInv /\ [Next]_vars => IInv'
<1>. SUFFICES ASSUME IInv, [Next]_vars PROVE IInv'
  OBVIOUS
<1>1. TypeInv' /\ WaitInv' /\ BulkTakesTurns'
  BY TypeStep, WaitStays, TurnsStay DEF IInv
<1>. SUFFICES OwnerInv' /\ Alone' /\ StoresInv'
  BY <1>1 DEF IInv
<1>2. ASSUME NEW r \in Requests, NEW u \in Users, StartLogin(r, u) \/ StartImport(r, u)
      PROVE  OwnerInv' /\ Alone' /\ StoresInv'
  BY <1>2, BeginKeeps DEF StartLogin, StartImport, At, InProgress
<1>3. ASSUME NEW r \in Requests, NEW id \in AccountIds, NEW op \in Ops, StartOn(r, op, id)
      PROVE  OwnerInv' /\ Alone' /\ StoresInv'
  <2>1. owner[id] \in Users
    BY <1>3 DEF StartOn, IInv, TypeInv, TypeOK
  <2>. QED
    BY <1>3, <2>1, BeginKeeps DEF StartOn, At, InProgress
<1>4. ASSUME NEW id \in AccountIds, StartRestore(id)
      PROVE  OwnerInv' /\ Alone' /\ StoresInv'
  <2>1. owner[id] \in Users
    BY <1>4 DEF StartRestore, IInv, TypeInv, TypeOK, OwnerInv
  <2>. QED
    BY <1>4, <2>1, BeginKeeps, LoginAssumption DEF StartRestore
<1>5. ASSUME NEW r \in Requests, RequestStep(r)
      PROVE  OwnerInv' /\ Alone' /\ StoresInv'
  <2>1. CASE Find(r)
    BY <2>1, FindKeeps
  <2>2. ASSUME NEW id, id = req[r].id,
               Record(r) \/ LoginFails(r) \/ BeginRelogin(r) \/ PopClient(r) \/ Settle(r)
                 \/ ReloginFails(r) \/ Activate(r) \/ ProbeSucceeds(r) \/ ProbeFails(r)
                 \/ BeginLogout(r) \/ FinishLogout(r)
        PROVE  OwnerInv' /\ Alone' /\ StoresInv'
    <3>1. InProgress(r) /\ req[r].pc \notin Early
      BY <2>2 DEF Record, LoginFails, BeginRelogin, PopClient, Settle, ReloginFails, Activate,
         ProbeSucceeds, ProbeFails, BeginLogout, FinishLogout, At, InProgress
    <3>. QED
      BY <2>2, <3>1, WriteKeeps, AccountKept
  <2>3. ASSUME NEW id, id = req[r].id,
               CallStep(r) \/ Retry(r) \/ Probe(r) \/ BeginVerify(r) \/ BeginTwoFactor(r)
                 \/ TwoFactorFails(r)
        PROVE  OwnerInv' /\ Alone' /\ StoresInv'
    <3>1. InProgress(r) /\ req[r].pc \notin Early
      BY <2>3 DEF CallStep, Retry, Probe, BeginVerify, BeginTwoFactor, TwoFactorFails, At, InProgress,
         RestoreSession, CredentialsAccepted, CredentialsRefused, LoggingIn, AskForCode,
         WaitStep, EndWait
    <3>2. CASE req'[r] # req[r]
      BY <2>3, <3>1, <3>2, CallKeeps, AccountKept
    <3>3. CASE req'[r] = req[r]
      <4>1. req' = req
        <5>1. req' = req \/ \E q : req' = [req EXCEPT ![r] = q]
          BY <1>5, Goes DEF IInv, GoesTo
        <5>. QED
          BY <3>3, <5>1 DEF IInv, TypeInv, TypeOK
      <4>2. UNCHANGED <<record, owner, imported, client, status, toRestore, raced>>
        BY <2>3 DEF CallStep, Retry, Probe, BeginVerify, BeginTwoFactor, TwoFactorFails,
           RestoreSession, CredentialsAccepted, CredentialsRefused, AskForCode,
           WaitStep, EndWait, accountVars, stores
      <4>. QED
        BY <4>1, <4>2, NothingChanges
    <3>. QED
      BY <3>2, <3>3
  <2>4. CASE ImportStep(r)
    BY <2>4, SaveKeeps, ImportKeeps DEF ImportStep
  <2>. QED
    BY <1>5, <2>1, <2>2, <2>3, <2>4 DEF RequestStep, LoginStep, ReloginStep, OtherStep
<1>6. ASSUME NEW id \in AccountIds, OperatorAnswers(id)
      PROVE  OwnerInv' /\ Alone' /\ StoresInv'
  BY <1>6, NothingChanges DEF OperatorAnswers, accountVars
<1>7. CASE UNCHANGED vars
  BY <1>7, NothingChanges DEF vars, accountVars
<1>8. ASSUME NEW r \in Requests, Start(r)
      PROVE  OwnerInv' /\ Alone' /\ StoresInv'
  BY <1>2, <1>3, <1>8 DEF Start
<1>. QED
  BY <1>4, <1>5, <1>6, <1>7, <1>8, ForceLogoutKeeps, RestartKeeps DEF Next

\* Once the requests on a username that was never raced have ended, the account
\* records, the clients and the statuses agree about its one account, whatever
\* logins, 2FA, relogins, challenges, evicting probes and logouts came to.
THEOREM AccountsAgree == Spec => []UnracedAccountsAgree
<1>1. IInv => UnracedAccountsAgree
  <2>. SUFFICES ASSUME IInv, NEW u \in Users \ raced,
                       \A r \in Requests : req[r].user = u => ~InProgress(r),
                       NEW id \in AccountIds, owner[id] = u
                PROVE  /\ (client[id] # "none") <=> (status[id] = "active")
                       /\ client[id] # "none" => Exists(id)
    BY DEF IInv, StoresInv, Own, UnracedAccountsAgree
  <2>1. ~WorkedOn(id)
    BY NoneAssumption DEF WorkedOn, IInv, OwnerInv
  <2>2. Agreed(id)
    BY <2>1 DEF IInv, StoresInv
  <2>. QED
    BY <2>2 DEF Agreed, Live, Active
<1>. QED
  BY <1>1, AgreeInit, AgreeStep, PTL DEF Spec
=============================================================================
