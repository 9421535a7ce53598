--------------------------- MODULE InstagramSteps ---------------------------
(***************************************************************************)
(* The steps an Instagram operation of the back end is made of.  A use     *)
(* case, an adapter method, a tool handler or a route is a sequence of     *)
(* them, written in the order its code runs; a layer that calls another    *)
(* puts its own steps before those of the layer below.                     *)
(*                                                                         *)
(* A step says what it does and what becomes of the operation when it      *)
(* fails: "raise" ends it with an exception, "receipt" with a receipt      *)
(* whose success is False, "none" without a result, "demote" with the      *)
(* account's status taken from the failure and its client dropped, and     *)
(* "status" with the status alone.                                         *)
(***************************************************************************)
EXTENDS Naturals, Sequences

Does == {"argument", "account", "client", "cooldown", "take",
         "read", "write", "try", "blind", "answer", "public", "verified",
         "announce", "discard", "login", "save", "install"}

OnFailure == {"raise", "receipt", "none", "demote", "status"}

Step == [do : Does, onFailure : OnFailure]

Do(what, onFailure) == <<[do |-> what, onFailure |-> onFailure]>>

-----------------------------------------------------------------------------
(* Checks made before Instagram is asked                                   *)

\* The arguments are looked at: a bad one raises ValueError.
Argument == Do("argument", "raise")

\* The repository of accounts knows the account, and that of clients has a
\* client of it: what nearly every use case asks first.
HasAccount == Do("account", "raise")

Authenticated == HasAccount \o Do("client", "raise")

\* Faulty: the client is taken without a look at the cooldown.
Unguarded(onFailure) == Do("take", onFailure)

\* get_guarded_client: no cooldown, then the client the calls are made with.
Guarded(onFailure) == Do("cooldown", onFailure) \o Do("take", onFailure)

-----------------------------------------------------------------------------
(* A new login of the account                                              *)

\* The account is shown as logging in, its client is dropped, a session is loaded
\* or made, and it is saved and used.
Login ==
  Do("announce", "raise") \o Do("discard", "raise") \o Do("login", "status")
    \o Do("save", "raise") \o Do("install", "raise")

-----------------------------------------------------------------------------
(* Calls of the SDK                                                        *)

\* A call that only reads.
Read(onFailure) == Do("read", onFailure)

\* A call that changes something on Instagram.
Write(onFailure) == Do("write", onFailure)

\* A call that changes something and answers whether it did.
Try(onFailure) == Do("try", onFailure)

\* A call that changes something, whose answer nobody looks at.
Blind(onFailure) == Do("blind", onFailure)

\* The answer to a change is put into a record, which fails when it lacks a field.
Answer == Do("answer", "raise")

\* A call of a client that is logged in to no account.
PublicRead == Do("public", "raise")

\* The account is "active" in the repository of statuses.
Verified == Do("verified", "raise")

GuardedRead == Guarded("raise") \o Read("raise")

\* A write whose failure raises, one whose answer is returned as a record, and one
\* that ends with a receipt of its own making.
GuardedWrite == Guarded("raise") \o Write("raise")

GuardedCreate == GuardedWrite \o Answer

GuardedReceipt == Guarded("raise") \o Blind("receipt")

GuardedTry == Guarded("raise") \o Try("raise")

\* What a caller that keeps the account's status up to date makes of steps
\* that raise.
Demoting(steps) ==
  [i \in DOMAIN steps |-> [steps[i] EXCEPT !.onFailure = "demote"]]

Writes(step) == step.do \in {"write", "try", "blind"}
=============================================================================
