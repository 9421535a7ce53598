--------------------------- MODULE JobEventsProofs ---------------------------
(* No change that is notified of is missed, and no stream leaves a           *)
(* listener behind: proved for any threads, streams, capacity and changes.   *)
EXTENDS JobEvents, TLAPS

\* Each pump by itself: it listens exactly while it sends or waits, it sends
\* only for an open response, it is done once it has passed on an error or its
\* response has ended, and it does not exist before the response.
PumpShape(s) ==
  /\ s \in registered <=> pump[s] \in {"send", "get"}
  /\ pump[s] = "send" => response[s] = "open"
  /\ \A i \in 1..Len(out[s]) : out[s][i] = Error => pump[s] = "done"
  /\ response[s] = "closed" => pump[s] = "done"
  /\ response[s] = "none" => pump[s] = "none"

Shape == \A s \in Streams : PumpShape(s)

IInv == TypeOK /\ Shape /\ NoMissedChange

\* Types are preserved by every step.
LEMMA TypeStep == TypeOK /\ [Next]_vars => TypeOK'
<1> SUFFICES ASSUME TypeOK, [Next]_vars PROVE TypeOK'
  OBVIOUS
<1> USE CapacityAssumption, MaxChangesAssumption, ErrorAssumption
<1>1. ASSUME NEW t \in Threads, Publisher(t) PROVE TypeOK'
  <2>0. notifier[t] \in [at : {"idle", "notify", "post"}, todo : SUBSET Streams]
    BY DEF TypeOK
  <2>1. CASE Change(t)
    <3>1. changes' \in 0..MaxChanges /\ announced' \in 0..changes'
      BY <2>1 DEF Change, TypeOK
    <3>2. notifier' \in [Threads -> [at : {"idle", "notify", "post"}, todo : SUBSET Streams]]
      BY <2>0, <2>1 DEF Change, TypeOK
    <3> QED BY <2>1, <3>1, <3>2 DEF Change, TypeOK
  <2>4. CASE SilentChange(t)
    <3>1. changes' \in 0..MaxChanges /\ announced' \in 0..changes'
      BY <2>4 DEF SilentChange, TypeOK
    <3> QED BY <2>4, <3>1 DEF SilentChange, TypeOK
  <2>2. CASE Notify(t)
    BY <2>2 DEF Notify, TypeOK
  <2>3. CASE Post(t)
    <3>1. notifier' \in [Threads -> [at : {"idle", "notify", "post"}, todo : SUBSET Streams]]
      <4>1. CASE \E s \in notifier[t].todo :
                    notifier' = [notifier EXCEPT ![t].todo = @ \ {s}]
        <5>1. PICK s \in notifier[t].todo :
                    notifier' = [notifier EXCEPT ![t].todo = @ \ {s}]
          BY <4>1
        <5>2. notifier[t].todo \ {s} \in SUBSET Streams
          BY <2>0
        <5>3. [notifier[t] EXCEPT !.todo = @ \ {s}]
                \in [at : {"idle", "notify", "post"}, todo : SUBSET Streams]
          BY <2>0, <5>2
        <5>4. notifier' = [notifier EXCEPT ![t] = [notifier[t] EXCEPT !.todo = @ \ {s}]]
          BY <5>1 DEF TypeOK
        <5> QED BY <5>3, <5>4 DEF TypeOK
      <4>2. CASE notifier' = [notifier EXCEPT ![t].at = "idle"]
        BY <2>0, <4>2 DEF TypeOK
      <4> QED BY <2>3, <4>1, <4>2 DEF Post
    <3>2. scheduled' \in [Streams -> Nat]
      <4>1. scheduled \in [Streams -> Nat]
        BY DEF TypeOK
      <4>2. UNCHANGED scheduled
              \/ \E s \in Streams : scheduled' = [scheduled EXCEPT ![s] = @ + 1]
        BY <2>0, <2>3 DEF Post
      <4> QED BY <4>1, <4>2
    <3> QED BY <2>3, <3>1, <3>2 DEF Post, TypeOK
  <2> QED BY <1>1, <2>1, <2>2, <2>3, <2>4 DEF Publisher
<1>2. ASSUME NEW s \in Streams, PutNowait(s) PROVE TypeOK'
  BY <1>2 DEF PutNowait, TypeOK
<1>3. ASSUME NEW s \in Streams, Open(s) PROVE TypeOK'
  BY <1>3 DEF Open, TypeOK, busVars
<1>4. ASSUME NEW s \in Streams, Subscribe(s) PROVE TypeOK'
  BY <1>4 DEF Subscribe, TypeOK, busVars
<1>5. ASSUME NEW s \in Streams, Serialize(s) PROVE TypeOK'
  <2>1. changes \in Nat
    BY DEF TypeOK
  <2>2. out' \in [Streams -> Seq(Nat \cup {Error})]
    BY <1>5, <2>1 DEF Serialize, TypeOK
  <2> QED BY <1>5, <2>1, <2>2 DEF Serialize, TypeOK, busVars
<1>6. ASSUME NEW s \in Streams, SerializeFails(s) PROVE TypeOK'
  <2>1. out' \in [Streams -> Seq(Nat \cup {Error})]
    BY <1>6 DEF SerializeFails, TypeOK
  <2> QED BY <1>6, <2>1 DEF SerializeFails, TypeOK, busVars
<1>7. ASSUME NEW s \in Streams, GetEvent(s) PROVE TypeOK'
  BY <1>7 DEF GetEvent, TypeOK, busVars
<1>8. ASSUME NEW s \in Streams, Cancelled(s) PROVE TypeOK'
  BY <1>8 DEF Cancelled, TypeOK, busVars
<1>9. ASSUME NEW s \in Streams, Receive(s) PROVE TypeOK'
  <2>1. out[s] \in Seq(Nat \cup {Error}) /\ out[s] # <<>>
    BY <1>9 DEF Receive, TypeOK
  <2>2. Head(out[s]) \in Nat \cup {Error} /\ Tail(out[s]) \in Seq(Nat \cup {Error})
    BY <2>1
  <2>3. out' \in [Streams -> Seq(Nat \cup {Error})]
    BY <1>9, <2>2 DEF Receive, TypeOK
  <2>4. seen' \in [Streams -> Nat]
    BY <1>9, <2>2 DEF Receive, TypeOK
  <2>5. response' \in [Streams -> {"none", "open", "closing", "closed"}]
    BY <1>9 DEF Receive, TypeOK
  <2> QED BY <1>9, <2>3, <2>4, <2>5 DEF Receive, TypeOK, busVars
<1>10. ASSUME NEW s \in Streams, Close(s) PROVE TypeOK'
  BY <1>10 DEF Close, TypeOK, busVars
<1>11. ASSUME NEW s \in Streams, Disconnect(s) PROVE TypeOK'
  BY <1>11 DEF Disconnect, TypeOK, busVars
<1>12. ASSUME UNCHANGED vars PROVE TypeOK'
  BY <1>12 DEF vars, TypeOK
<1> QED
  BY <1>1, <1>2, <1>3, <1>4, <1>5, <1>6, <1>7, <1>8, <1>9, <1>10, <1>11, <1>12
     DEF Next, Pump, Respond

\* Steps that leave the pumps, the responses and what passes between them alone
\* keep the shape.
LEMMA ShapeUnchanged ==
  ASSUME Shape, UNCHANGED <<registered, pump, out, response>>
  PROVE  Shape'
BY DEF Shape, PumpShape

\* The shape is preserved by every step.
LEMMA ShapeStep == TypeOK /\ Shape /\ [Next]_vars => Shape'
<1> SUFFICES ASSUME TypeOK, Shape, [Next]_vars PROVE Shape'
  OBVIOUS
<1> USE ErrorAssumption
<1>1. ASSUME NEW t \in Threads, Publisher(t) PROVE Shape'
  BY <1>1, ShapeUnchanged DEF Publisher, Change, SilentChange, Notify, Post
<1>2. ASSUME NEW s \in Streams, PutNowait(s) PROVE Shape'
  BY <1>2, ShapeUnchanged DEF PutNowait
<1>3. ASSUME NEW s \in Streams, Open(s) PROVE Shape'
  <2>1. pump[s] # "send" /\ response[s] = "none"
    BY <1>3 DEF Open, LoopFree
  <2>2. SUFFICES ASSUME NEW u \in Streams PROVE PumpShape(u)'
    BY DEF Shape
  <2> QED BY <1>3, <2>1 DEF Open, Shape, PumpShape, TypeOK
<1>4. ASSUME NEW s \in Streams, Subscribe(s) PROVE Shape'
  BY <1>4 DEF Subscribe, Shape, PumpShape, TypeOK
<1>5. ASSUME NEW s \in Streams, Serialize(s) PROVE Shape'
  BY <1>5 DEF Serialize, Shape, PumpShape, TypeOK
<1>6. ASSUME NEW s \in Streams, SerializeFails(s) PROVE Shape'
  BY <1>6 DEF SerializeFails, Shape, PumpShape, TypeOK
<1>7. ASSUME NEW s \in Streams, GetEvent(s) PROVE Shape'
  BY <1>7 DEF GetEvent, Shape, PumpShape, TypeOK
<1>8. ASSUME NEW s \in Streams, Cancelled(s) PROVE Shape'
  BY <1>8 DEF Cancelled, Shape, PumpShape, TypeOK
<1>9. ASSUME NEW s \in Streams, Receive(s) PROVE Shape'
  BY <1>9 DEF Receive, Shape, PumpShape, TypeOK
<1>10. ASSUME NEW s \in Streams, Close(s) PROVE Shape'
  BY <1>10 DEF Close, Shape, PumpShape, TypeOK
<1>11. ASSUME NEW s \in Streams, Disconnect(s) PROVE Shape'
  BY <1>11 DEF Disconnect, LoopFree, Shape, PumpShape, TypeOK
<1>12. ASSUME UNCHANGED vars PROVE Shape'
  BY <1>12, ShapeUnchanged DEF vars
<1> QED
  BY <1>1, <1>2, <1>3, <1>4, <1>5, <1>6, <1>7, <1>8, <1>9, <1>10, <1>11, <1>12
     DEF Next, Pump, Respond

\* Whatever happens, a stream whose list is older than the last change that
\* notify is called for is made to look again.
LEMMA NoMissedStep ==
  TypeOK /\ Shape /\ NoMissedChange /\ [Next]_vars => NoMissedChange'
<1> SUFFICES ASSUME TypeOK, Shape, NoMissedChange, [Next]_vars,
                    NEW u \in registered', (made[u] < announced)'
             PROVE  LooksAgain(u)'
  BY DEF NoMissedChange
<1> USE CapacityAssumption, MaxChangesAssumption
<1>0. u \in Streams
  BY TypeStep DEF TypeOK
<1>1. ASSUME NEW t \in Threads, Publisher(t) PROVE LooksAgain(u)'
  <2>1. CASE Change(t)
    BY <2>1 DEF Change, LooksAgain, TypeOK
  <2>4. CASE SilentChange(t)
    BY <2>4 DEF SilentChange, NoMissedChange, LooksAgain
  <2>2. CASE Notify(t)
    <3>1. u \in notifier'[t].todo
      BY <2>2 DEF Notify, TypeOK
    <3> QED BY <3>1 DEF LooksAgain
  <2>3. CASE Post(t)
    <3>1. LooksAgain(u)
      BY <2>3 DEF Post, NoMissedChange
    <3>2. CASE \E s \in notifier[t].todo :
                  /\ scheduled' = [scheduled EXCEPT ![s] = @ + 1]
                  /\ notifier' = [notifier EXCEPT ![t].todo = @ \ {s}]
      <4>1. PICK s \in notifier[t].todo :
                  /\ scheduled' = [scheduled EXCEPT ![s] = @ + 1]
                  /\ notifier' = [notifier EXCEPT ![t].todo = @ \ {s}]
        BY <3>2
      <4>2. CASE s = u
        BY <1>0, <4>1, <4>2 DEF LooksAgain, TypeOK
      <4>3. CASE s # u
        BY <1>0, <2>3, <3>1, <4>1, <4>3 DEF Post, LooksAgain, TypeOK
      <4> QED BY <4>2, <4>3
    <3>3. CASE /\ notifier[t].todo = {}
               /\ notifier' = [notifier EXCEPT ![t].at = "idle"]
               /\ UNCHANGED scheduled
      BY <2>3, <3>1, <3>3 DEF Post, LooksAgain, TypeOK
    <3> QED BY <2>3, <3>2, <3>3 DEF Post
  <2> QED BY <1>1, <2>1, <2>2, <2>3, <2>4 DEF Publisher
<1>2. ASSUME NEW s \in Streams, PutNowait(s) PROVE LooksAgain(u)'
  <2>1. LooksAgain(u)
    BY <1>2 DEF PutNowait, NoMissedChange
  <2>2. CASE s = u
    BY <1>2, <2>2 DEF PutNowait, LooksAgain, TypeOK
  <2>3. CASE s # u
    BY <1>0, <1>2, <2>1, <2>3 DEF PutNowait, LooksAgain, TypeOK
  <2> QED BY <2>2, <2>3
<1>3. ASSUME NEW s \in Streams, Open(s) PROVE LooksAgain(u)'
  <2>1. LooksAgain(u)
    BY <1>3 DEF Open, NoMissedChange, busVars
  <2> QED BY <1>0, <1>3, <2>1 DEF Open, LoopFree, LooksAgain, TypeOK, busVars
<1>4. ASSUME NEW s \in Streams, Subscribe(s) PROVE LooksAgain(u)'
  <2>1. u = s \/ LooksAgain(u)
    BY <1>4 DEF Subscribe, NoMissedChange, busVars
  <2> QED BY <1>0, <1>4, <2>1 DEF Subscribe, LooksAgain, TypeOK, busVars
<1>5. ASSUME NEW s \in Streams, Serialize(s) PROVE LooksAgain(u)'
  <2>1. u # s /\ LooksAgain(u)
    BY <1>0, <1>5 DEF Serialize, NoMissedChange, TypeOK, busVars
  <2> QED BY <1>0, <1>5, <2>1 DEF Serialize, LooksAgain, TypeOK, busVars
<1>6. ASSUME NEW s \in Streams, SerializeFails(s) PROVE LooksAgain(u)'
  <2>1. u # s /\ LooksAgain(u)
    BY <1>6 DEF SerializeFails, NoMissedChange, busVars
  <2> QED BY <1>0, <1>6, <2>1 DEF SerializeFails, LooksAgain, TypeOK, busVars
<1>7. ASSUME NEW s \in Streams, GetEvent(s) PROVE LooksAgain(u)'
  <2>1. LooksAgain(u)
    BY <1>7 DEF GetEvent, NoMissedChange, busVars
  <2> QED BY <1>0, <1>7, <2>1 DEF GetEvent, LooksAgain, TypeOK, busVars
<1>8. ASSUME NEW s \in Streams, Cancelled(s) PROVE LooksAgain(u)'
  <2>1. u # s /\ LooksAgain(u)
    BY <1>8 DEF Cancelled, NoMissedChange, busVars
  <2> QED BY <1>0, <1>8, <2>1 DEF Cancelled, LooksAgain, TypeOK, busVars
<1>9. ASSUME NEW s \in Streams, Receive(s) \/ Close(s) \/ Disconnect(s)
      PROVE  LooksAgain(u)'
  BY <1>9 DEF Receive, Close, Disconnect, NoMissedChange, LooksAgain, busVars
<1>10. ASSUME UNCHANGED vars PROVE LooksAgain(u)'
  BY <1>10 DEF vars, NoMissedChange, LooksAgain
<1> QED
  BY <1>1, <1>2, <1>3, <1>4, <1>5, <1>6, <1>7, <1>8, <1>9, <1>10
     DEF Next, Pump, Respond

\* The invariant holds initially and is kept by every step.
LEMMA InitIInv == Init => IInv
BY CapacityAssumption, MaxChangesAssumption
   DEF Init, IInv, TypeOK, Shape, PumpShape, NoMissedChange

LEMMA Invariance == Spec => []IInv
<1>1. Init => IInv
  BY InitIInv
<1>2. IInv /\ [Next]_vars => IInv'
  BY TypeStep, ShapeStep, NoMissedStep DEF IInv
<1> QED BY <1>1, <1>2, PTL DEF Spec

\* Every reachable state is well typed, and no listener's queue exceeds its
\* limit.
THEOREM TypeCorrect == Spec => []TypeOK
<1>1. IInv => TypeOK
  BY DEF IInv
<1> QED BY <1>1, Invariance, PTL

\* No change that notify is called for is missed by any stream that listens
\* (event_bus.py:37-57).
THEOREM NothingMissed == Spec => []NoMissedChange
<1>1. IInv => NoMissedChange
  BY DEF IInv
<1> QED BY <1>1, Invariance, PTL

\* A response that has ended left no listener behind (streaming.py:101-105).
THEOREM NothingLeaks == Spec => []NoListenerLeaks
<1>1. IInv => NoListenerLeaks
  BY DEF IInv, Shape, PumpShape, NoListenerLeaks
<1> QED BY <1>1, Invariance, PTL
=============================================================================
