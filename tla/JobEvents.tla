------------------------------ MODULE JobEvents ------------------------------
(* Live updates of the post jobs: threads that change a job call notify of   *)
(* the event bus (scheduler/event_bus.py), which hands one put_nowait per    *)
(* listener to the event loop; each stream of GET /api/posts/stream has a    *)
(* pump task that turns every event into a fresh list of the jobs, and a     *)
(* response that sends those lists to its client (http/streaming.py).        *)
(*                                                                           *)
(* The list a stream sends is abstracted to the number of changes it shows.  *)
(* Not every change is notified of: the two kinds are two actions.           *)
EXTENDS Naturals, Sequences

CONSTANTS Threads,    \* threads that change jobs
          Streams,    \* requests for the stream
          Capacity,   \* maxsize of a listener's queue
          MaxChanges, \* bound: changes made to jobs
          Error       \* what the pump passes on when it failed

ASSUME CapacityAssumption == Capacity \in Nat \ {0}
ASSUME MaxChangesAssumption == MaxChanges \in Nat
ASSUME ErrorAssumption == Error \notin Nat

VARIABLES changes,    \* changes made so far
          announced,  \* history: the last of them that notify is called for
          notifier,   \* what each thread does; "todo" are listeners left to tell
          registered, \* _listeners
          scheduled,  \* put_nowait calls the event loop has not run yet
          inbox,      \* events in each listener's queue
          pump,       \* the pump task of each stream
          out,        \* lists the pump has passed to the response
          response,   \* the response of each stream
          made,       \* history: the last list each pump made
          seen        \* the last list each client received

vars == <<changes, announced, notifier, registered, scheduled, inbox, pump, out,
          response, made, seen>>
busVars == <<changes, announced, notifier, scheduled>>

Init ==
  /\ changes = 0
  /\ announced = 0
  /\ notifier = [t \in Threads |-> [at |-> "idle", todo |-> {}]]
  /\ registered = {}
  /\ scheduled = [s \in Streams |-> 0]
  /\ inbox = [s \in Streams |-> 0]
  /\ pump = [s \in Streams |-> "none"]
  /\ out = [s \in Streams |-> <<>>]
  /\ response = [s \in Streams |-> "none"]
  /\ made = [s \in Streams |-> 0]
  /\ seen = [s \in Streams |-> 0]

-----------------------------------------------------------------------------
(* Threads.                                                                  *)

\* A stop, a pause, a retry, the start or the end of a run, an upload that
\* starts or ends: the thread writes the job, then calls notify.
Change(t) ==
  /\ notifier[t].at = "idle"
  /\ changes < MaxChanges
  /\ changes' = changes + 1
  /\ announced' = changes'
  /\ notifier' = [notifier EXCEPT ![t].at = "notify"]
  /\ UNCHANGED <<registered, scheduled, inbox, pump, out, response, made, seen>>

\* A new job, "scheduled" (job_queue.py:131), a skipped upload
\* (post_job_executor.py:262, 268), a job for no account (:163): the thread
\* writes the job and does not call notify.
SilentChange(t) ==
  /\ notifier[t].at = "idle"
  /\ changes < MaxChanges
  /\ changes' = changes + 1
  /\ UNCHANGED <<announced, notifier>>
  /\ UNCHANGED <<registered, scheduled, inbox, pump, out, response, made, seen>>

\* notify copies the listeners under its lock ...
Notify(t) ==
  /\ notifier[t].at = "notify"
  /\ notifier' = [notifier EXCEPT ![t] = [at |-> "post", todo |-> registered]]
  /\ UNCHANGED <<changes, announced, registered, scheduled, inbox, pump, out, response, made, seen>>

\* ... and tells them one by one without it.
Post(t) ==
  /\ notifier[t].at = "post"
  /\ \/ \E s \in notifier[t].todo :
          /\ scheduled' = [scheduled EXCEPT ![s] = @ + 1]
          /\ notifier' = [notifier EXCEPT ![t].todo = @ \ {s}]
     \/ /\ notifier[t].todo = {}
        /\ notifier' = [notifier EXCEPT ![t].at = "idle"]
        /\ UNCHANGED scheduled
  /\ UNCHANGED <<changes, announced, registered, inbox, pump, out, response, made, seen>>

-----------------------------------------------------------------------------
(* The event loop runs one callback or task at a time: a pump that has       *)
(* something to send gives it up only when it waits for the next event.      *)
LoopFree == \A s \in Streams : pump[s] # "send"

\* Faulty variant: a full queue is emptied to make room for the event.
PutNowaitClearing(s) ==
  /\ scheduled[s] > 0 /\ LoopFree
  /\ scheduled' = [scheduled EXCEPT ![s] = @ - 1]
  /\ inbox' = [inbox EXCEPT ![s] = IF @ < Capacity THEN @ + 1 ELSE 0]
  /\ UNCHANGED <<changes, announced, notifier, registered, pump, out, response, made, seen>>

\* Faulty variant: the queue has no limit.
PutNowaitUnbounded(s) ==
  /\ scheduled[s] > 0 /\ LoopFree
  /\ scheduled' = [scheduled EXCEPT ![s] = @ - 1]
  /\ inbox' = [inbox EXCEPT ![s] = @ + 1]
  /\ UNCHANGED <<changes, announced, notifier, registered, pump, out, response, made, seen>>

\* put_nowait on a full queue raises QueueFull in the loop: the event is lost.
PutNowait(s) ==
  /\ scheduled[s] > 0 /\ LoopFree
  /\ scheduled' = [scheduled EXCEPT ![s] = @ - 1]
  /\ inbox' = [inbox EXCEPT ![s] = IF @ < Capacity THEN @ + 1 ELSE @]
  /\ UNCHANGED <<changes, announced, notifier, registered, pump, out, response, made, seen>>

Open(s) ==
  /\ response[s] = "none" /\ LoopFree
  /\ response' = [response EXCEPT ![s] = "open"]
  /\ pump' = [pump EXCEPT ![s] = "new"]
  /\ UNCHANGED <<busVars, registered, inbox, out, made, seen>>

Subscribe(s) ==
  /\ pump[s] = "new" /\ response[s] = "open" /\ LoopFree
  /\ registered' = registered \cup {s}
  /\ pump' = [pump EXCEPT ![s] = "send"]
  /\ UNCHANGED <<busVars, inbox, out, response, made, seen>>

\* _serialize_jobs, while threads go on changing jobs
Serialize(s) ==
  /\ pump[s] = "send"
  /\ made' = [made EXCEPT ![s] = changes]
  /\ out' = [out EXCEPT ![s] = Append(@, changes)]
  /\ pump' = [pump EXCEPT ![s] = "get"]
  /\ UNCHANGED <<busVars, registered, inbox, response, seen>>

\* Faulty variant: the client is not told.
SerializeFailsSilently(s) ==
  /\ pump[s] = "send"
  /\ registered' = registered \ {s}
  /\ pump' = [pump EXCEPT ![s] = "done"]
  /\ UNCHANGED <<busVars, inbox, out, response, made, seen>>

\* Listing the jobs raises: the pump unsubscribes and passes the error on.
SerializeFails(s) ==
  /\ pump[s] = "send"
  /\ registered' = registered \ {s}
  /\ out' = [out EXCEPT ![s] = Append(@, Error)]
  /\ pump' = [pump EXCEPT ![s] = "done"]
  /\ UNCHANGED <<busVars, inbox, response, made, seen>>

GetEvent(s) ==
  /\ pump[s] = "get" /\ response[s] = "open" /\ inbox[s] > 0 /\ LoopFree
  /\ inbox' = [inbox EXCEPT ![s] = @ - 1]
  /\ pump' = [pump EXCEPT ![s] = "send"]
  /\ UNCHANGED <<busVars, registered, out, response, made, seen>>

\* The response takes what the pump passed on; an error ends it.
Receive(s) ==
  LET item == Head(out[s]) IN
  /\ response[s] = "open" /\ out[s] # <<>> /\ LoopFree
  /\ out' = [out EXCEPT ![s] = Tail(@)]
  /\ IF item = Error
     THEN response' = [response EXCEPT ![s] = "closed"] /\ UNCHANGED seen
     ELSE seen' = [seen EXCEPT ![s] = item] /\ UNCHANGED response
  /\ UNCHANGED <<busVars, registered, inbox, pump, made>>

\* Faulty variant: the response ends without waiting for the pump.
DisconnectAtOnce(s) ==
  /\ response[s] = "open" /\ LoopFree
  /\ response' = [response EXCEPT ![s] = "closed"]
  /\ UNCHANGED <<busVars, registered, inbox, pump, out, made, seen>>

\* The client leaves: the response cancels the pump, if it still runs, ...
Disconnect(s) ==
  /\ response[s] = "open" /\ LoopFree
  /\ response' = [response EXCEPT ![s] = "closing"]
  /\ UNCHANGED <<busVars, registered, inbox, pump, out, made, seen>>

\* ... which unsubscribes where it waits (before its first step it has not
\* subscribed) ...
Cancelled(s) ==
  /\ response[s] = "closing" /\ pump[s] # "done" /\ LoopFree
  /\ pump' = [pump EXCEPT ![s] = "done"]
  /\ registered' = registered \ {s}
  /\ UNCHANGED <<busVars, inbox, out, response, made, seen>>

\* ... and the response ends.
Close(s) ==
  /\ response[s] = "closing" /\ pump[s] = "done" /\ LoopFree
  /\ response' = [response EXCEPT ![s] = "closed"]
  /\ UNCHANGED <<busVars, registered, inbox, pump, out, made, seen>>

-----------------------------------------------------------------------------
Publisher(t) == Change(t) \/ SilentChange(t) \/ Notify(t) \/ Post(t)
Pump(s) == Subscribe(s) \/ Serialize(s) \/ SerializeFails(s) \/ GetEvent(s) \/ Cancelled(s)
Respond(s) == Receive(s) \/ Close(s)

Next ==
  \/ \E t \in Threads : Publisher(t)
  \/ \E s \in Streams : PutNowait(s) \/ Open(s) \/ Pump(s) \/ Respond(s) \/ Disconnect(s)

Spec == Init /\ [][Next]_vars

\* Threads finish their calls and the event loop runs whatever is ready.
Fairness ==
  /\ \A t \in Threads : WF_vars(Notify(t) \/ Post(t))
  /\ \A s \in Streams : WF_vars(PutNowait(s)) /\ WF_vars(Pump(s)) /\ WF_vars(Respond(s))

FairSpec == Spec /\ Fairness

-----------------------------------------------------------------------------
\* Type invariant: every variable stays in its range; a listener's queue holds
\* at most Capacity events.
TypeOK ==
  /\ changes \in 0..MaxChanges
  /\ announced \in 0..changes
  /\ notifier \in [Threads -> [at : {"idle", "notify", "post"}, todo : SUBSET Streams]]
  /\ registered \in SUBSET Streams
  /\ scheduled \in [Streams -> Nat]
  /\ inbox \in [Streams -> 0..Capacity]
  /\ pump \in [Streams -> {"none", "new", "send", "get", "done"}]
  /\ out \in [Streams -> Seq(Nat \cup {Error})]
  /\ response \in [Streams -> {"none", "open", "closing", "closed"}]
  /\ made \in [Streams -> Nat]
  /\ seen \in [Streams -> Nat]

\* Somebody will still make the stream's pump look at the jobs again.
LooksAgain(s) ==
  \/ \E t \in Threads : notifier[t].at = "notify" \/ s \in notifier[t].todo
  \/ scheduled[s] > 0
  \/ inbox[s] > 0
  \/ pump[s] = "send"

\* No change that notify is called for is missed: while the last list a stream
\* made is older than such a change, an event that will make it look again is
\* under way, although events are dropped when the queue is full
\* (event_bus.py:57), listeners come and go while a notify runs
\* (event_bus.py:46), and other changes are made without a notify.
NoMissedChange == \A s \in registered : made[s] < announced => LooksAgain(s)

\* A response that has ended leaves no listener behind in the bus, whether the
\* client left, the pump failed or both (streaming.py:101, posts.py:205).
NoListenerLeaks == \A s \in Streams : response[s] = "closed" => s \notin registered

\* Every change that notify is called for, with all changes made before it,
\* reaches every open stream, or the stream ends.
ChangesAreShown ==
  \A s \in Streams, n \in 1..MaxChanges :
    (response[s] = "open" /\ announced >= n)
      ~> (seen[s] >= n \/ response[s] = "closed")
=============================================================================
