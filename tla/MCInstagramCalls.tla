-------------------------- MODULE MCInstagramCalls --------------------------
(***************************************************************************)
(* Values of the constants of InstagramCalls for model checking, and a     *)
(* view.  Nothing but equality is ever asked of two logins, and no step    *)
(* looks at the status, at the client of a request that has to take one    *)
(* again, or at what is known of a login nobody has any more.  States that *)
(* differ only in these, or in the names of their logins, have the same    *)
(* future as long as MaxLogins is not reached, which no path of the search *)
(* comes near: its depth is below 70, and every login takes six steps.     *)
(***************************************************************************)
EXTENDS InstagramCalls, FiniteSets, TLC

RequestSymmetry == Permutations(Requests)

\* A request that has to take a client before it makes another call.
TakesFirst(q) ==
  \/ q = Idle \/ q.report # "running" \/ q.duties # <<>>
  \/ StepOf(q).do \in {"account", "client", "cooldown", "take"}

Relevant ==
  LET taken == [r \in Requests |->
                  IF TakesFirst(request[r]) THEN NoClient ELSE request[r].taken]
      others == {taken[r] : r \in Requests} \ {client, session, NoClient}
      referred == {client, session} \cup others
      Name(login) ==
        CASE login = NoClient -> 0
          [] login = client -> 1
          [] login = session -> 2
          [] OTHER -> 3 + Cardinality({other \in others : other < login})
      Names(logged) == {Name(login) : login \in logged \cap referred}
  IN  <<known, Name(client), Name(session), cooldown, late,
        [r \in Requests |-> [request[r] EXCEPT !.taken = Name(taken[r])]],
        Names(dead), Names(revived)>>
=============================================================================
