------------------------------ MODULE JobStore ------------------------------
(* ThreadSafeJobStore (state.py): the job records, stop flags and pause      *)
(* events every thread of the backend shares.  A method holds one lock from  *)
(* its first line to its last, so each is one step, except that an Event is  *)
(* set after the lock is released.                                           *)
(*                                                                           *)
(* InMemoryJobRepository.get copies a record but not its result dicts, and   *)
(* set installs such a copy: two records of one job may share result dicts   *)
(* or not.  So the result dicts are cells, and a record holds, for each      *)
(* account, the number of the cell it refers to.                             *)
EXTENDS JobRules, Sequences

CONSTANTS Jobs,       \* identifiers create_post_job may hand out
          Accounts    \* identifiers of the accounts

VARIABLES status,     \* status of the job's record: "none" before it exists,
                      \* "deleted" once it is removed
          when,       \* scheduled_at of the record: "now" when it has none,
                      \* a "past" or "future" time, or one that does not parse
          view,       \* for each account, the cell the record refers to
          cells,      \* the result dicts of a job and account, oldest first
          stopFlag,   \* _stop_flags
          pauseEvt,   \* _pause_events: number of the job's Event, 0 if none
          evtSet      \* is_set() of every Event made so far

recordVars  == <<status, when, view, cells>>
controlVars == <<stopFlag, pauseEvt, evtSet>>
storeVars   == <<status, when, view, cells, stopFlag, pauseEvt, evtSet>>

StoreInit ==
  /\ status = [j \in Jobs |-> "none"]
  /\ when = [j \in Jobs |-> "now"]
  /\ view = [j \in Jobs |-> [a \in Accounts |-> 1]]
  /\ cells = [j \in Jobs |-> [a \in Accounts |-> <<"pending">>]]
  /\ stopFlag = [j \in Jobs |-> FALSE]
  /\ pauseEvt = [j \in Jobs |-> 0]
  /\ evtSet = <<>>

\* A lookup of any other job raises KeyError.
Exists(j) == status[j] \in JobStatus

Result(j, a) == cells[j][a][view[j][a]]
Results(j)   == [a \in Accounts |-> Result(j, a)]

-----------------------------------------------------------------------------
\* set_job_status, on a job that exists
SetJobStatus(j, s) ==
  /\ status' = [status EXCEPT ![j] = s]
  /\ UNCHANGED <<when, view, cells, controlVars>>

\* put: install a record due at w that refers to the cells v
PutJob(j, s, w, v) ==
  /\ status' = [status EXCEPT ![j] = s]
  /\ when' = [when EXCEPT ![j] = w]
  /\ view' = [view EXCEPT ![j] = v]
  /\ UNCHANGED <<cells, controlVars>>

\* update_result, on a job that exists
UpdateResult(j, a, s) ==
  /\ cells' = [cells EXCEPT ![j][a][view[j][a]] = s]
  /\ UNCHANGED <<status, when, view, controlVars>>

\* request_stop, up to the release of the lock
RaiseStopFlag(j) ==
  /\ stopFlag' = [stopFlag EXCEPT ![j] = TRUE]
  /\ UNCHANGED <<recordVars, pauseEvt, evtSet>>

\* request_pause: a job that has no Event gets one; either way it is clear
RequestPause(j) ==
  /\ IF pauseEvt[j] = 0
     THEN /\ pauseEvt' = [pauseEvt EXCEPT ![j] = Len(evtSet) + 1]
          /\ evtSet' = Append(evtSet, FALSE)
     ELSE /\ evtSet' = [evtSet EXCEPT ![pauseEvt[j]] = FALSE]
          /\ UNCHANGED pauseEvt
  /\ UNCHANGED <<recordVars, stopFlag>>

\* evt.set(), after the lock is released
SetEvent(e) ==
  /\ evtSet' = [evtSet EXCEPT ![e] = TRUE]
  /\ UNCHANGED <<recordVars, stopFlag, pauseEvt>>

\* clear_control: the Event is dropped as it is, set or not
ClearControl(j) ==
  /\ stopFlag' = [stopFlag EXCEPT ![j] = FALSE]
  /\ pauseEvt' = [pauseEvt EXCEPT ![j] = 0]
  /\ UNCHANGED <<recordVars, evtSet>>

\* delete
DeleteJob(j) ==
  /\ status' = [status EXCEPT ![j] = "deleted"]
  /\ stopFlag' = [stopFlag EXCEPT ![j] = FALSE]
  /\ pauseEvt' = [pauseEvt EXCEPT ![j] = 0]
  /\ UNCHANGED <<when, view, cells, evtSet>>
=============================================================================
