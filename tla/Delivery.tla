------------------------------ MODULE Delivery ------------------------------
(* What the post-job subsystem promises to the owner of the accounts: the    *)
(* media of a job may be sent while the job's window is open, to each        *)
(* account at most once, and the window never opens again.                   *)
EXTENDS Naturals

CONSTANTS Jobs, Accounts

VARIABLES window,   \* of a job: "new", "open" or "shut"
          sending,  \* the accounts a job is being sent to
          posted    \* posts published, per job and account

vars == <<window, sending, posted>>

Init ==
  /\ window = [j \in Jobs |-> "new"]
  /\ sending = [j \in Jobs |-> {}]
  /\ posted = [j \in Jobs |-> [a \in Accounts |-> 0]]

Open(j) ==
  /\ window[j] = "new"
  /\ window' = [window EXCEPT ![j] = "open"]
  /\ UNCHANGED <<sending, posted>>

Start(j, a) ==
  /\ window[j] = "open"
  /\ a \notin sending[j]
  /\ posted[j][a] = 0
  /\ sending' = [sending EXCEPT ![j] = @ \cup {a}]
  /\ UNCHANGED <<window, posted>>

Publish(j, a) ==
  /\ a \in sending[j]
  /\ posted[j][a] = 0
  /\ sending' = [sending EXCEPT ![j] = @ \ {a}]
  /\ posted' = [posted EXCEPT ![j][a] = 1]
  /\ UNCHANGED window

Refuse(j, a) ==
  /\ a \in sending[j]
  /\ sending' = [sending EXCEPT ![j] = @ \ {a}]
  /\ UNCHANGED <<window, posted>>

Shut(j) ==
  /\ window[j] = "open"
  /\ window' = [window EXCEPT ![j] = "shut"]
  /\ UNCHANGED <<sending, posted>>

Next ==
  \E j \in Jobs :
    \/ Open(j) \/ Shut(j)
    \/ \E a \in Accounts : Start(j, a) \/ Publish(j, a) \/ Refuse(j, a)

Spec == Init /\ [][Next]_vars
=============================================================================
