------------------------------ MODULE Challenges ------------------------------
(* Challenge codes: a login that Instagram challenges blocks its thread until *)
(* the operator posts a code, cancels, or the wait times out                  *)
(* (app/adapters/instagram/challenge_resolver.py).                            *)
(*                                                                            *)
(* The resolver lists at most one entry per key. The key is the account id    *)
(* registered for the username, or the username itself when none is. A later  *)
(* prompt for the same key replaces the entry; the login that made the older  *)
(* one goes on waiting for an event nobody can find any more. The lock of the *)
(* resolver makes each method one step; the wait is not under the lock, so    *)
(* its end and the removal of the entry are two steps.                        *)
EXTENDS Integers

CONSTANTS Requests,   \* threads that may log in
          Users,      \* usernames
          AccountIds, \* ids the service gives to accounts
          None        \* no request, no user

ASSUME NoneAssumption ==
  None \notin Requests /\ None \notin Users /\ None \notin AccountIds

Keys == AccountIds \union Users

VARIABLES routed,   \* username -> account id the prompt is routed to, or None
          pending,  \* key -> request whose entry is listed, or None
          entry,    \* request -> its latest entry
          replaced  \* history: requests whose entry another one replaced

resolverVars == <<routed, pending, entry, replaced>>

Phases == {"none", "waiting", "woken", "expired"}
Answers == {"none", "code", "cancel"}
NoEntry == [phase |-> "none", key |-> None, answer |-> "none"]
Entries == [phase : Phases, key : Keys \union {None}, answer : Answers]

\* routed is initialised by the logins.
ResolverInit ==
  /\ pending = [k \in Keys |-> None]
  /\ entry = [r \in Requests |-> NoEntry]
  /\ replaced = {}

\* register_account; unregister_account exists but nobody calls it.
Register(id, u) == routed' = [routed EXCEPT ![u] = id]

KeyOf(u) == IF routed[u] = None THEN u ELSE routed[u]
InWait(r) == entry[r].phase # "none"
HasPending(id) == pending[id] # None

\* The entry is installed whether or not the key has one already.
Prompt(r, u) ==
  /\ ~InWait(r)
  /\ pending' = [pending EXCEPT ![KeyOf(u)] = r]
  /\ entry' = [entry EXCEPT ![r] = [phase |-> "waiting", key |-> KeyOf(u), answer |-> "none"]]
  /\ replaced' = (replaced \ {r}) \union ({pending[KeyOf(u)]} \ {None, r})
  /\ UNCHANGED routed

\* submit_code and cancel: the entry listed for the account is answered, also
\* when it was answered before and its thread has not run yet.
Answer(id, a) ==
  /\ pending[id] # None
  /\ entry' = [entry EXCEPT ![pending[id]].answer = a]
  /\ UNCHANGED <<routed, pending, replaced>>

Submit(id) == Answer(id, "code")
CancelChallenge(id) == Answer(id, "cancel")

\* event.wait returns: TRUE once somebody answered, FALSE after the timeout.
Wake(r) ==
  /\ entry[r].phase = "waiting"
  /\ entry[r].answer # "none"
  /\ entry' = [entry EXCEPT ![r].phase = "woken"]
  /\ UNCHANGED <<routed, pending, replaced>>

\* Faulty variant: the wait has no timeout.
ExpireNever(r) == FALSE /\ UNCHANGED resolverVars

Expire(r) ==
  /\ entry[r].phase = "waiting"
  /\ entry[r].answer = "none"
  /\ entry' = [entry EXCEPT ![r].phase = "expired"]
  /\ UNCHANGED <<routed, pending, replaced>>

\* The thread removes the entry if it is still its own and reads the answer.
GotCode(r) == entry[r].phase = "woken" /\ entry[r].answer = "code"

\* Faulty variant: the entry of the key is removed, whoever made it.
UnlistAny(r) == [pending EXCEPT ![entry[r].key] = None]

Unlist(r) ==
  IF pending[entry[r].key] = r
  THEN [pending EXCEPT ![entry[r].key] = None]
  ELSE pending

LeaveWait(r) ==
  /\ entry[r].phase \in {"woken", "expired"}
  /\ pending' = Unlist(r)
  /\ entry' = [entry EXCEPT ![r] = NoEntry]
  /\ UNCHANGED <<routed, replaced>>

ResolverTypeOK ==
  /\ routed \in [Users -> AccountIds \union {None}]
  /\ pending \in [Keys -> Requests \union {None}]
  /\ entry \in [Requests -> Entries]
  /\ replaced \subseteq Requests

\* An entry is listed exactly as long as its login waits for the answer and no
\* later login took its key: the operator never answers into the void, and no
\* login loses its entry to the end of an older one.
EntriesMatchWaits ==
  /\ \A k \in Keys : pending[k] # None =>
       InWait(pending[k]) /\ entry[pending[k]].key = k
  /\ \A r \in Requests : InWait(r) /\ r \notin replaced => pending[entry[r].key] = r
=============================================================================
