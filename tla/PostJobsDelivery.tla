-------------------------- MODULE PostJobsDelivery --------------------------
(* PostJobs implements Delivery: the window of a job is open while its media *)
(* files are on disk.                                                        *)
EXTENDS PostJobs

Window(j) == IF status[j] = "none" THEN "new"
             ELSE IF j \in files THEN "open" ELSE "shut"
Sending(j) == {a \in Accounts :
                 \E r \in Runs : runJob[r] = j /\ thr[r][a].net = "sending"}

Promise == INSTANCE Delivery WITH
             window  <- [j \in Jobs |-> Window(j)],
             sending <- [j \in Jobs |-> Sending(j)],
             posted  <- posted

\* Every step of the post-job subsystem is a step of Delivery or changes none of
\* what Delivery talks about: uploads start only while the media of the job is on
\* disk, only for an account the job is not being sent to and was not posted to,
\* and once deleted the media never comes back.
ImplementsDelivery == Promise!Spec
=============================================================================
