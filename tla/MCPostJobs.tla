----------------------------- MODULE MCPostJobs -----------------------------
(* Values of the constants of PostJobs for model checking.                   *)
EXTENDS PostJobsDelivery

\* Every job is for every account.
AllAccounts == [j \in Jobs |-> Accounts]

\* One of the jobs is for no account.
SomeEmpty == [j \in Jobs |-> IF j = CHOOSE i \in Jobs : TRUE THEN {} ELSE Accounts]
=============================================================================
