------------------------ MODULE InstagramCallsProofs ------------------------
(***************************************************************************)
(* Proofs about InstagramCalls for any number of requests, logins and      *)
(* targets.  The first half shows of every route, tool and job, layer by   *)
(* layer, in which order it takes its steps; the second half that requests *)
(* made of such steps keep the account's stores right.                     *)
(***************************************************************************)
EXTENDS InstagramCalls, SequenceTheorems, TLAPS

-----------------------------------------------------------------------------
(* What every operation is made of                                         *)

\* A step that takes the client follows the look at the cooldown at once.
GuardedAt(s, i) == s[i].do = "take" => s[i - 1].do = "cooldown"

\* A change is the last thing an operation does, but for a look at the answer or at
\* what was changed, whose failure is an error.
Follows(step) == step.do \in {"read", "answer"} /\ step.onFailure = "raise"

FollowsWrite(s, i, j) == Writes(s[i]) /\ i < j => Follows(s[j])

\* The rest of an operation, at any point of it.
Rests ==
  {s \in Seq(Step) : /\ s # <<>>
                     /\ \A i \in 2..Len(s) : GuardedAt(s, i)
                     /\ \A i \in 1..Len(s), j \in 1..Len(s) : FollowsWrite(s, i, j)}

\* A part of an operation, whose calls may be made with a client taken before it.
Loose == {s \in Rests : s[1].do # "take"}

\* Uses the client the request has.
Calls(step) == step.do \in {"read", "write", "try", "blind", "save", "install"}

\* Takes the account's client, or makes one.
Provides(step) == step.do \in {"take", "login"}

\* Every call is made with a client that was taken before.
TakesBeforeCalls(s) ==
  \A i \in 1..Len(s) : Calls(s[i]) =>
    \E j \in 1..Len(s) : j < i /\ Provides(s[j])

\* A whole operation, and one that changes nothing.
Whole == {s \in Loose : TakesBeforeCalls(s)}

ReadOnly == {s \in Whole : \A i \in 1..Len(s) : ~Writes(s[i])}

Takes(s) == \E i \in 1..Len(s) : Provides(s[i])

\* Steps that change nothing may be put in front of any part of an operation.
LEMMA Joined ==
  ASSUME NEW s \in ReadOnly, NEW t \in Loose
  PROVE  /\ s \o t \in Loose
         /\ t \in Whole \/ Takes(s) => s \o t \in Whole
         /\ Takes(s) \/ Takes(t) => Takes(s \o t)
         /\ (\A i \in 1..Len(t) : ~Writes(t[i])) =>
              \A i \in 1..Len(s \o t) : ~Writes((s \o t)[i])
PROOF
<1>1. /\ s \in Seq(Step) /\ t \in Seq(Step) /\ s # <<>> /\ t # <<>>
      /\ Len(s) \in Nat /\ Len(t) \in Nat /\ Len(s) > 0 /\ Len(t) > 0
  BY DEF ReadOnly, Whole, Loose, Rests
<1>2. s \o t \in Seq(Step) /\ Len(s \o t) = Len(s) + Len(t) /\ s \o t # <<>>
  BY <1>1
<1>3. \A i \in 1..(Len(s) + Len(t)) :
        (s \o t)[i] = IF i <= Len(s) THEN s[i] ELSE t[i - Len(s)]
  BY <1>1
<1>4. \A i \in 2..(Len(s) + Len(t)) : GuardedAt(s \o t, i)
  <2>1. SUFFICES ASSUME NEW i \in 2..(Len(s) + Len(t)), (s \o t)[i].do = "take"
                 PROVE  (s \o t)[i - 1].do = "cooldown"
    BY DEF GuardedAt
  <2>2. CASE i <= Len(s)
    <3>1. (s \o t)[i] = s[i] /\ (s \o t)[i - 1] = s[i - 1] /\ i \in 2..Len(s)
      BY <1>1, <1>3, <2>2
    <3>. QED  BY <3>1, <2>1 DEF ReadOnly, Whole, Loose, Rests, GuardedAt
  <2>3. CASE i = Len(s) + 1
    <3>1. (s \o t)[i] = t[1]
      BY <1>1, <1>3, <2>3
    <3>. QED  BY <3>1, <2>1 DEF Loose
  <2>4. CASE i > Len(s) + 1
    <3>1. /\ (s \o t)[i] = t[i - Len(s)] /\ (s \o t)[i - 1] = t[(i - Len(s)) - 1]
          /\ i - Len(s) \in 2..Len(t)
      BY <1>1, <1>3, <2>4
    <3>. QED  BY <3>1, <2>1 DEF Loose, Rests, GuardedAt
  <2>. QED  BY <2>2, <2>3, <2>4, <1>1
<1>5. \A i \in 1..(Len(s) + Len(t)) :
        Writes((s \o t)[i]) => i > Len(s) /\ Writes(t[i - Len(s)])
  BY <1>1, <1>3 DEF ReadOnly
<1>6. \A i, j \in 1..(Len(s) + Len(t)) : FollowsWrite(s \o t, i, j)
  <2>1. SUFFICES ASSUME NEW i \in 1..(Len(s) + Len(t)), NEW j \in 1..(Len(s) + Len(t)),
                        Writes((s \o t)[i]), i < j
                 PROVE  Follows((s \o t)[j])
    BY DEF FollowsWrite
  <2>2. /\ Writes(t[i - Len(s)]) /\ i - Len(s) \in 1..Len(t)
        /\ j - Len(s) \in 1..Len(t) /\ i - Len(s) < j - Len(s)
        /\ (s \o t)[j] = t[j - Len(s)]
    BY <2>1, <1>1, <1>3, <1>5
  <2>. QED  BY <2>2 DEF Loose, Rests, FollowsWrite
<1>7. (s \o t)[1] = s[1]
  BY <1>1, <1>3
<1>8. s \o t \in Loose
  BY <1>2, <1>4, <1>6, <1>7 DEF Loose, Rests, Whole, ReadOnly
<1>9. ASSUME NEW i \in 1..Len(s)
      PROVE  i \in 1..Len(s \o t) /\ (s \o t)[i] = s[i]
  BY <1>1, <1>2, <1>3
<1>10. ASSUME Takes(s) \/ Takes(t)  PROVE Takes(s \o t)
  <2>1. CASE Takes(s)
    BY <1>9, <2>1 DEF Takes
  <2>2. CASE Takes(t)
    <3>1. PICK i \in 1..Len(t) : Provides(t[i])
      BY <2>2 DEF Takes
    <3>2. i + Len(s) \in 1..Len(s \o t) /\ (s \o t)[i + Len(s)] = t[i]
      BY <3>1, <1>1, <1>2, <1>3
    <3>. QED  BY <3>1, <3>2 DEF Takes
  <2>. QED  BY <1>10, <2>1, <2>2
<1>11. ASSUME t \in Whole \/ Takes(s)  PROVE TakesBeforeCalls(s \o t)
  <2>1. SUFFICES ASSUME NEW i \in 1..Len(s \o t), Calls((s \o t)[i])
                 PROVE  \E j \in 1..Len(s \o t) : j < i /\ Provides((s \o t)[j])
    BY DEF TakesBeforeCalls
  <2>2. CASE i <= Len(s)
    <3>1. i \in 1..Len(s) /\ Calls(s[i])
      BY <2>1, <2>2, <1>1, <1>2, <1>3
    <3>2. PICK j \in 1..Len(s) : j < i /\ Provides(s[j])
      BY <3>1 DEF ReadOnly, Whole, TakesBeforeCalls
    <3>. QED  BY <3>2, <1>9
  <2>3. CASE i > Len(s) /\ Takes(s)
    <3>1. PICK j \in 1..Len(s) : Provides(s[j])
      BY <2>3 DEF Takes
    <3>2. j < i
      BY <2>3, <1>1
    <3>. QED  BY <3>1, <3>2, <1>9
  <2>4. CASE i > Len(s) /\ t \in Whole
    <3>1. i - Len(s) \in 1..Len(t) /\ Calls(t[i - Len(s)])
      BY <2>1, <2>4, <1>1, <1>2, <1>3
    <3>2. PICK j \in 1..Len(t) : j < i - Len(s) /\ Provides(t[j])
      BY <3>1, <2>4 DEF Whole, TakesBeforeCalls
    <3>3. /\ j + Len(s) \in 1..Len(s \o t) /\ j + Len(s) < i
          /\ (s \o t)[j + Len(s)] = t[j]
      BY <3>2, <1>1, <1>2, <1>3
    <3>. QED  BY <3>2, <3>3
  <2>. QED  BY <2>2, <2>3, <2>4, <1>11, <1>1, <1>2
<1>12. ASSUME \A i \in 1..Len(t) : ~Writes(t[i])
       PROVE  \A i \in 1..Len(s \o t) : ~Writes((s \o t)[i])
  BY <1>12, <1>1, <1>2, <1>5
<1>. QED  BY <1>8, <1>10, <1>11, <1>12 DEF Whole

\* Such steps and a whole operation are a whole operation again.
LEMMA ReadsFirst ==
  ASSUME NEW s \in ReadOnly, NEW t \in Whole
  PROVE  /\ s \o t \in Whole
         /\ t \in ReadOnly => s \o t \in ReadOnly
PROOF
<1>1. t \in Loose
  BY DEF Whole
<1>. QED  BY <1>1, Joined DEF ReadOnly

\* So are such steps, one of which takes the client, and a call made with it.
LEMMA TakesFirst ==
  ASSUME NEW s \in ReadOnly, Takes(s), NEW t \in Loose
  PROVE  /\ s \o t \in Whole /\ Takes(s \o t)
         /\ (\A i \in 1..Len(t) : ~Writes(t[i])) => s \o t \in ReadOnly
PROOF
  BY Joined DEF ReadOnly

\* A change may be followed by a look at the answer or at what was changed.
LEMMA ReadAfter ==
  ASSUME NEW s \in Whole, Takes(s), NEW what \in {"read", "answer"}
  PROVE  s \o Do(what, "raise") \in Whole
PROOF
<1>. DEFINE last == [do |-> what, onFailure |-> "raise"]
            both == s \o <<last>>
<1>1. s \in Seq(Step) /\ s # <<>> /\ Len(s) \in Nat /\ Len(s) > 0
  BY DEF Whole, Loose, Rests
<1>2. last \in Step /\ Do(what, "raise") = <<last>>
  BY DEF Step, Does, OnFailure, Do
<1>3. both \in Seq(Step) /\ Len(both) = Len(s) + 1 /\ both # <<>>
  BY <1>1, <1>2
<1>4. \A i \in 1..(Len(s) + 1) : both[i] = IF i <= Len(s) THEN s[i] ELSE last
  BY <1>1, <1>2
<1>5. ~Writes(last) /\ Follows(last) /\ last.do # "take"
  BY DEF Writes, Follows
<1>. HIDE DEF both, last
<1>6. \A i \in 2..(Len(s) + 1) : GuardedAt(both, i)
  BY <1>1, <1>4, <1>5 DEF Whole, Loose, Rests, GuardedAt
<1>7. \A i, j \in 1..(Len(s) + 1) : FollowsWrite(both, i, j)
  BY <1>1, <1>4, <1>5 DEF Whole, Loose, Rests, FollowsWrite
<1>8. both[1] = s[1]
  BY <1>1, <1>4
<1>9. TakesBeforeCalls(both)
  <2>1. SUFFICES ASSUME NEW i \in 1..(Len(s) + 1), Calls(both[i])
                 PROVE  \E j \in 1..(Len(s) + 1) : j < i /\ Provides(both[j])
    BY <1>3 DEF TakesBeforeCalls
  <2>2. \E j \in 1..Len(s) : j < i /\ Provides(s[j])
    <3>1. CASE i <= Len(s)
      BY <3>1, <2>1, <1>1, <1>4 DEF Whole, TakesBeforeCalls
    <3>2. CASE i > Len(s)
      BY <3>2, <1>1 DEF Takes
    <3>. QED  BY <3>1, <3>2, <1>1
  <2>. QED  BY <2>2, <1>1, <1>4
<1>. QED  BY <1>2, <1>3, <1>6, <1>7, <1>8, <1>9 DEF Whole, Loose, Rests, both

\* A step that is not the taking of a client, on its own; and the guard with the
\* taking of the client behind it.
LEMMA SingleSteps ==
  ASSUME NEW what \in Does \ {"take"}, NEW onFailure \in OnFailure
  PROVE  /\ Do(what, onFailure) \in Loose
         /\ what \notin {"write", "try", "blind"} =>
              \A i \in 1..Len(Do(what, onFailure)) : ~Writes(Do(what, onFailure)[i])
         /\ what \notin {"read", "write", "try", "blind", "save", "install"} =>
              Do(what, onFailure) \in ReadOnly
         /\ what = "login" => Takes(Do(what, onFailure))
PROOF
<1>. DEFINE step == [do |-> what, onFailure |-> onFailure]
<1>1. step \in Step /\ Do(what, onFailure) = <<step>>
  BY DEF Step, Do
<1>2. <<step>> \in Seq(Step) /\ Len(<<step>>) = 1 /\ <<step>> # <<>> /\ <<step>>[1] = step
  BY <1>1
<1>3. <<step>> \in Loose
  BY <1>2 DEF Loose, Rests, FollowsWrite
<1>4. what \notin {"write", "try", "blind"} => ~Writes(step)
  BY DEF Writes
<1>5. what \notin {"read", "write", "try", "blind", "save", "install"} => ~Calls(step)
  BY DEF Calls
<1>6. what \notin {"read", "write", "try", "blind", "save", "install"} =>
        TakesBeforeCalls(<<step>>)
  BY <1>2, <1>5 DEF TakesBeforeCalls
<1>7. what = "login" => Takes(<<step>>)
  BY <1>2 DEF Takes, Provides
<1>. QED  BY <1>1, <1>2, <1>3, <1>4, <1>6, <1>7 DEF ReadOnly, Whole

LEMMA GuardedSteps ==
  ASSUME NEW onFailure \in OnFailure
  PROVE  Guarded(onFailure) \in ReadOnly /\ Takes(Guarded(onFailure))
PROOF
<1>. DEFINE look == [do |-> "cooldown", onFailure |-> onFailure]
            take == [do |-> "take", onFailure |-> onFailure]
<1>1. look \in Step /\ take \in Step /\ Guarded(onFailure) = <<look>> \o <<take>>
  BY DEF Step, Does, Guarded, Do
<1>2. <<look>> \in Seq(Step) /\ <<take>> \in Seq(Step) /\ Len(<<look>>) = 1
      /\ Len(<<take>>) = 1 /\ <<look>>[1] = look /\ <<take>>[1] = take
  BY <1>1
<1>. DEFINE both == <<look>> \o <<take>>
<1>3. both \in Seq(Step) /\ Len(both) = 2 /\ both # <<>>
  BY <1>2
<1>4. both[1] = look /\ both[2] = take
  BY <1>2
<1>. HIDE DEF both
<1>5. \A i \in 1..2 : ~Writes(both[i]) /\ ~Calls(both[i])
  BY <1>4 DEF Writes, Calls
<1>6. \A i \in 2..2 : GuardedAt(both, i)
  BY <1>4 DEF GuardedAt
<1>7. both \in Rests
  BY <1>3, <1>5, <1>6 DEF Rests, FollowsWrite
<1>8. both[1].do # "take" /\ Provides(both[2])
  BY <1>4 DEF Provides
<1>9. Takes(both)
  <2>1. 2 \in 1..Len(both)
    BY <1>3
  <2>. QED  BY <1>8, <2>1 DEF Takes
<1>a. TakesBeforeCalls(both)
  BY <1>3, <1>5 DEF TakesBeforeCalls
<1>b. both \in ReadOnly
  BY <1>3, <1>5, <1>7, <1>8, <1>a DEF ReadOnly, Whole, Loose
<1>. QED  BY <1>1, <1>9, <1>b DEF both

\* What the use cases and the ports are put together from.
LEMMA Parts ==
  /\ ReadOnly \subseteq Whole
  /\ Argument \in ReadOnly /\ HasAccount \in ReadOnly
  /\ Authenticated \in ReadOnly /\ Verified \in ReadOnly
  /\ PublicRead \in ReadOnly /\ GuardedRead \in ReadOnly
  /\ GuardedWrite \in Whole /\ GuardedReceipt \in Whole /\ GuardedTry \in Whole
  /\ GuardedCreate \in Whole
  /\ Takes(GuardedWrite)
PROOF
<1>1. ReadOnly \subseteq Whole
  BY DEF ReadOnly
<1>2. {"raise", "receipt", "none", "demote"} \subseteq OnFailure
  BY DEF OnFailure
<1>3. /\ {"argument", "account", "client", "public", "verified", "read"}
           \subseteq Does \ {"take"}
      /\ {"write", "try", "blind"} \subseteq Does \ {"take"}
      /\ {"read", "write", "try", "blind", "save", "install"}
           \cap {"argument", "account", "client", "public", "verified"} = {}
  BY DEF Does
<1>4. Argument \in ReadOnly /\ HasAccount \in ReadOnly
  BY <1>2, <1>3, SingleSteps DEF Argument, HasAccount
<1>5. /\ Do("client", "raise") \in ReadOnly
      /\ Verified \in ReadOnly /\ PublicRead \in ReadOnly
  BY <1>2, <1>3, SingleSteps DEF Verified, PublicRead
<1>6. Authenticated \in ReadOnly
  BY <1>1, <1>4, <1>5, ReadsFirst DEF Authenticated
<1>7. Guarded("raise") \in ReadOnly /\ Takes(Guarded("raise"))
  BY <1>2, GuardedSteps
<1>8. /\ Write("raise") \in Loose /\ Blind("receipt") \in Loose /\ Try("raise") \in Loose
      /\ Read("raise") \in Loose
      /\ \A i \in 1..Len(Read("raise")) : ~Writes(Read("raise")[i])
  BY <1>2, <1>3, SingleSteps DEF Write, Blind, Try, Read
<1>9. GuardedRead \in ReadOnly
  BY <1>7, <1>8, TakesFirst DEF GuardedRead
<1>10. /\ GuardedWrite \in Whole /\ GuardedReceipt \in Whole /\ GuardedTry \in Whole
       /\ Takes(GuardedWrite)
  BY <1>7, <1>8, TakesFirst DEF GuardedWrite, GuardedReceipt, GuardedTry
<1>11. GuardedCreate \in Whole
  BY <1>10, ReadAfter DEF GuardedCreate, Answer
<1>. QED  BY <1>1, <1>4, <1>5, <1>6, <1>9, <1>10, <1>11

\* A caller that keeps the status up to date takes the same steps.
LEMMA DemotingKeeps ==
  ASSUME NEW s \in ReadOnly
  PROVE  Demoting(s) \in ReadOnly
PROOF
<1>1. s \in Seq(Step) /\ s # <<>> /\ Len(s) \in Nat /\ DOMAIN s = 1..Len(s)
      /\ \A i \in 1..Len(s) : s[i] \in Step
  BY DEF ReadOnly, Whole, Loose, Rests
<1>2. /\ \A i \in 1..Len(s) : Demoting(s)[i] = [s[i] EXCEPT !.onFailure = "demote"]
      /\ DOMAIN Demoting(s) = 1..Len(s)
  BY <1>1 DEF Demoting
<1>3. \A i \in 1..Len(s) : Demoting(s)[i] \in Step /\ Demoting(s)[i].do = s[i].do
  BY <1>1, <1>2 DEF Step, OnFailure
<1>4. Demoting(s) = [i \in 1..Len(s) |-> Demoting(s)[i]]
  BY <1>1 DEF Demoting
<1>5. Demoting(s) \in [1..Len(s) -> Step]
  BY <1>3, <1>4
<1>6. Demoting(s) \in Seq(Step) /\ Len(Demoting(s)) = Len(s)
  BY <1>1, <1>5, <1>2
<1>7. Demoting(s) # <<>>
  BY <1>1, <1>6
<1>8. \A i \in 2..Len(s) : GuardedAt(Demoting(s), i)
  BY <1>1, <1>3 DEF GuardedAt, ReadOnly, Whole, Loose, Rests
<1>9. \A i \in 1..Len(s) : ~Writes(Demoting(s)[i])
  BY <1>1, <1>3 DEF ReadOnly, Writes
<1>10. Demoting(s)[1].do # "take"
  BY <1>1, <1>3 DEF ReadOnly, Whole, Loose
<1>11. TakesBeforeCalls(Demoting(s))
  BY <1>1, <1>3, <1>6 DEF TakesBeforeCalls, Calls, Provides, ReadOnly, Whole
<1>. QED  BY <1>6, <1>7, <1>8, <1>9, <1>10, <1>11
     DEF ReadOnly, Whole, Loose, Rests, FollowsWrite

-----------------------------------------------------------------------------
(* The ports                                                               *)

\* The ports are made of the same parts.
LEMMA PortParts ==
  /\ P!Argument = Argument /\ P!PublicRead = PublicRead
  /\ P!GuardedRead = GuardedRead /\ P!GuardedWrite = GuardedWrite
  /\ P!GuardedReceipt = GuardedReceipt /\ P!GuardedTry = GuardedTry
  /\ P!GuardedCreate = GuardedCreate
  /\ P!Guarded("raise") = Guarded("raise") /\ P!Guarded("none") = Guarded("none")
  /\ P!Write("raise") = Write("raise") /\ P!Blind("raise") = Blind("raise")
  /\ P!Answer = Answer
  /\ P!Read("raise") = Read("raise") /\ P!Read("none") = Read("none")
PROOF
<1>1. ASSUME NEW what, NEW onFailure
      PROVE  P!Do(what, onFailure) = Do(what, onFailure)
  BY DEF P!Do, Do
<1>2. P!Argument = Argument /\ P!PublicRead = PublicRead
  BY <1>1 DEF P!Argument, Argument, P!PublicRead, PublicRead
<1>3. ASSUME NEW onFailure
      PROVE  /\ P!Guarded(onFailure) = Guarded(onFailure)
             /\ P!Read(onFailure) = Read(onFailure)
             /\ P!Write(onFailure) = Write(onFailure)
             /\ P!Try(onFailure) = Try(onFailure)
             /\ P!Blind(onFailure) = Blind(onFailure)
  BY <1>1 DEF P!Guarded, Guarded, P!Read, Read, P!Write, Write, P!Try, Try,
              P!Blind, Blind
<1>4. /\ P!GuardedRead = GuardedRead /\ P!GuardedWrite = GuardedWrite
      /\ P!GuardedReceipt = GuardedReceipt /\ P!GuardedTry = GuardedTry
  BY <1>3 DEF P!GuardedRead, GuardedRead, P!GuardedWrite, GuardedWrite,
              P!GuardedReceipt, GuardedReceipt, P!GuardedTry, GuardedTry
<1>5. P!Answer = Answer
  BY <1>1 DEF P!Answer, Answer
<1>6. P!GuardedCreate = GuardedCreate
  BY <1>4, <1>5 DEF P!GuardedCreate, GuardedCreate
<1>. QED  BY <1>2, <1>3, <1>4, <1>5, <1>6

\* The ports with more than a guard and a call.
LEMMA LongerPorts ==
  /\ Guarded("none") \o Read("none") \in ReadOnly
  /\ (Guarded("raise") \o Blind("raise")) \o Read("raise") \in Whole
  /\ ((Guarded("raise") \o Argument) \o Write("raise")) \o Answer \in Whole
PROOF
<1>1. /\ {"raise", "none"} \subseteq OnFailure
      /\ {"read", "write", "blind"} \subseteq Does \ {"take"}
  BY DEF OnFailure, Does
<1>2. /\ Guarded("raise") \in ReadOnly /\ Takes(Guarded("raise"))
      /\ Guarded("none") \in ReadOnly /\ Takes(Guarded("none"))
  BY <1>1, GuardedSteps
<1>3. /\ Read("none") \in Loose /\ Write("raise") \in Loose /\ Blind("raise") \in Loose
      /\ \A i \in 1..Len(Read("none")) : ~Writes(Read("none")[i])
  BY <1>1, SingleSteps DEF Read, Write, Blind
<1>4. Guarded("none") \o Read("none") \in ReadOnly
  BY <1>2, <1>3, TakesFirst
<1>5. (Guarded("raise") \o Blind("raise")) \o Read("raise") \in Whole
  <2>1. /\ Guarded("raise") \o Blind("raise") \in Whole
        /\ Takes(Guarded("raise") \o Blind("raise"))
    BY <1>2, <1>3, TakesFirst
  <2>. QED  BY <2>1, ReadAfter DEF Read
<1>6. Guarded("raise") \o Argument \in ReadOnly /\ Takes(Guarded("raise") \o Argument)
  BY <1>2, Parts, ReadsFirst, Joined DEF Whole
<1>7. ((Guarded("raise") \o Argument) \o Write("raise")) \o Answer \in Whole
  <2>1. /\ (Guarded("raise") \o Argument) \o Write("raise") \in Whole
        /\ Takes((Guarded("raise") \o Argument) \o Write("raise"))
    BY <1>3, <1>6, TakesFirst
  <2>. QED  BY <2>1, ReadAfter DEF Answer
<1>. QED  BY <1>4, <1>5, <1>7

\* Every port asks with a client it just took with the guard, changes one thing at
\* most, and reads afterwards at most; what is named a reader changes nothing.
LEMMA PortSteps ==
  /\ {P!find_or_create_thread, P!send_to_thread, P!send_to_users,
      P!delete_message, P!approve_pending_thread, P!mark_thread_seen,
      P!send_photo, P!send_video, P!send_voice, P!share_media, P!share_story,
      P!mute_thread, P!unmute_thread, P!hide_thread, P!mark_thread_unread,
      P!share_profile} \subseteq Whole
  /\ {P!list_inbox_threads, P!list_pending_threads, P!get_thread,
      P!list_messages, P!search_threads} \subseteq ReadOnly
  /\ {P!follow_user, P!unfollow_user, P!remove_follower, P!close_friend_add,
      P!close_friend_remove, P!mute_posts, P!unmute_posts, P!mute_stories,
      P!unmute_stories, P!set_user_notifications} \subseteq Whole
  /\ {P!list_followers, P!list_following, P!search_followers,
      P!search_following} \subseteq ReadOnly
  /\ {P!create_comment, P!delete_comment, P!like_comment, P!unlike_comment,
      P!pin_comment, P!unpin_comment} \subseteq Whole
  /\ {P!list_comments, P!list_comments_page} \subseteq ReadOnly
  /\ {P!create_highlight, P!change_title, P!add_stories, P!remove_stories,
      P!delete_highlight} \subseteq Whole
  /\ {P!get_highlight_pk_from_url, P!get_highlight, P!list_user_highlights} \subseteq ReadOnly
  /\ {P!publish_story, P!delete_story, P!mark_seen} \subseteq Whole
  /\ {P!get_story_pk_from_url, P!get_story, P!list_user_stories} \subseteq ReadOnly
  /\ {P!like_media, P!unlike_media, P!edit_caption, P!delete_media,
      P!pin_media, P!unpin_media, P!archive_media, P!unarchive_media,
      P!save_media, P!unsave_media} \subseteq Whole
  /\ {P!get_media_by_pk, P!get_media_by_code, P!get_user_medias,
      P!list_media_likers, P!list_user_clips, P!list_usertag_medias,
      P!get_media_oembed} \subseteq ReadOnly
  /\ {P!list_collections, P!get_collection_pk_by_name, P!get_collection_posts,
      P!list_liked_medias} \subseteq ReadOnly
  /\ {P!search_hashtags, P!get_hashtag, P!get_hashtag_top_posts,
      P!get_hashtag_recent_posts} \subseteq ReadOnly
  /\ {P!get_account_insight, P!get_media_insight, P!list_media_insights} \subseteq ReadOnly
  /\ {P!get_authenticated_account, P!get_own_user_info,
      P!get_profile_for_hydration, P!get_public_user_by_id,
      P!get_public_user_by_username, P!get_user_id_by_username} \subseteq ReadOnly
  /\ {P!set_private, P!set_public, P!change_avatar, P!edit_profile,
      P!set_presence_disabled, P!request_email_confirm,
      P!request_phone_confirm} \subseteq Whole
  /\ {P!get_account_security_info} \subseteq ReadOnly
PROOF
<1>1. {P!find_or_create_thread, P!send_to_thread, P!send_to_users,
      P!delete_message, P!approve_pending_thread, P!mark_thread_seen,
      P!send_photo, P!send_video, P!send_voice, P!share_media, P!share_story,
      P!mute_thread, P!unmute_thread, P!hide_thread, P!mark_thread_unread,
      P!share_profile} \subseteq Whole
  BY Parts, PortParts, ReadsFirst, LongerPorts
     DEF P!find_or_create_thread, P!send_to_thread, P!send_to_users,
         P!delete_message, P!approve_pending_thread, P!mark_thread_seen,
         P!send_photo, P!send_video, P!send_voice, P!share_media,
         P!share_story, P!mute_thread, P!unmute_thread, P!hide_thread,
         P!mark_thread_unread, P!share_profile
<1>2. {P!list_inbox_threads, P!list_pending_threads, P!get_thread,
      P!list_messages, P!search_threads} \subseteq ReadOnly
  BY Parts, PortParts, ReadsFirst, LongerPorts
     DEF P!list_inbox_threads, P!list_pending_threads, P!get_thread,
         P!list_messages, P!search_threads
<1>3. {P!follow_user, P!unfollow_user, P!remove_follower, P!close_friend_add,
      P!close_friend_remove, P!mute_posts, P!unmute_posts, P!mute_stories,
      P!unmute_stories, P!set_user_notifications} \subseteq Whole
  BY Parts, PortParts, ReadsFirst, LongerPorts
     DEF P!follow_user, P!unfollow_user, P!remove_follower,
         P!close_friend_add, P!close_friend_remove, P!mute_posts,
         P!unmute_posts, P!mute_stories, P!unmute_stories,
         P!set_user_notifications
<1>4. {P!list_followers, P!list_following, P!search_followers,
      P!search_following}
        \subseteq ReadOnly
  BY Parts, PortParts, ReadsFirst, LongerPorts
     DEF P!list_followers, P!list_following, P!search_followers,
         P!search_following
<1>5. {P!create_comment, P!delete_comment, P!like_comment, P!unlike_comment,
      P!pin_comment, P!unpin_comment} \subseteq Whole
  BY Parts, PortParts, ReadsFirst, LongerPorts
     DEF P!create_comment, P!delete_comment, P!like_comment, P!unlike_comment,
         P!pin_comment, P!unpin_comment
<1>6. {P!list_comments, P!list_comments_page} \subseteq ReadOnly
  BY Parts, PortParts, ReadsFirst, LongerPorts
     DEF P!list_comments, P!list_comments_page
<1>7. {P!create_highlight, P!change_title, P!add_stories, P!remove_stories,
      P!delete_highlight} \subseteq Whole
  BY Parts, PortParts, ReadsFirst, LongerPorts
     DEF P!create_highlight, P!change_title, P!add_stories, P!remove_stories,
         P!delete_highlight
<1>8. {P!get_highlight_pk_from_url, P!get_highlight, P!list_user_highlights}
        \subseteq ReadOnly
  BY Parts, PortParts, ReadsFirst, LongerPorts
     DEF P!get_highlight_pk_from_url, P!get_highlight, P!list_user_highlights
<1>9. {P!publish_story, P!delete_story, P!mark_seen} \subseteq Whole
  BY Parts, PortParts, ReadsFirst, LongerPorts
     DEF P!publish_story, P!delete_story, P!mark_seen
<1>10. {P!get_story_pk_from_url, P!get_story, P!list_user_stories} \subseteq ReadOnly
  BY Parts, PortParts, ReadsFirst, LongerPorts
     DEF P!get_story_pk_from_url, P!get_story, P!list_user_stories
<1>11. {P!like_media, P!unlike_media, P!edit_caption, P!delete_media,
      P!pin_media, P!unpin_media, P!archive_media, P!unarchive_media,
      P!save_media, P!unsave_media} \subseteq Whole
  BY Parts, PortParts, ReadsFirst, LongerPorts
     DEF P!like_media, P!unlike_media, P!edit_caption, P!delete_media,
         P!pin_media, P!unpin_media, P!archive_media, P!unarchive_media,
         P!save_media, P!unsave_media
<1>12. {P!get_media_by_pk, P!get_media_by_code, P!get_user_medias,
      P!list_media_likers, P!list_user_clips, P!list_usertag_medias,
      P!get_media_oembed} \subseteq ReadOnly
  BY Parts, PortParts, ReadsFirst, LongerPorts
     DEF P!get_media_by_pk, P!get_media_by_code, P!get_user_medias,
         P!list_media_likers, P!list_user_clips, P!list_usertag_medias,
         P!get_media_oembed
<1>13. {P!list_collections, P!get_collection_pk_by_name,
      P!get_collection_posts, P!list_liked_medias} \subseteq ReadOnly
  BY Parts, PortParts, ReadsFirst, LongerPorts
     DEF P!list_collections, P!get_collection_pk_by_name,
         P!get_collection_posts, P!list_liked_medias
<1>14. {P!search_hashtags, P!get_hashtag, P!get_hashtag_top_posts,
      P!get_hashtag_recent_posts} \subseteq ReadOnly
  BY Parts, PortParts, ReadsFirst, LongerPorts
     DEF P!search_hashtags, P!get_hashtag, P!get_hashtag_top_posts,
         P!get_hashtag_recent_posts
<1>15. {P!get_account_insight, P!get_media_insight, P!list_media_insights}
        \subseteq ReadOnly
  BY Parts, PortParts, ReadsFirst, LongerPorts
     DEF P!get_account_insight, P!get_media_insight, P!list_media_insights
<1>16. {P!get_authenticated_account, P!get_own_user_info,
      P!get_profile_for_hydration, P!get_public_user_by_id,
      P!get_public_user_by_username, P!get_user_id_by_username} \subseteq ReadOnly
  BY Parts, PortParts, ReadsFirst, LongerPorts
     DEF P!get_authenticated_account, P!get_own_user_info,
         P!get_profile_for_hydration, P!get_public_user_by_id,
         P!get_public_user_by_username, P!get_user_id_by_username
<1>17. {P!set_private, P!set_public, P!change_avatar, P!edit_profile,
      P!set_presence_disabled, P!request_email_confirm,
      P!request_phone_confirm}
        \subseteq Whole
  BY Parts, PortParts, ReadsFirst, LongerPorts
     DEF P!set_private, P!set_public, P!change_avatar, P!edit_profile,
         P!set_presence_disabled, P!request_email_confirm,
         P!request_phone_confirm
<1>18. {P!get_account_security_info} \subseteq ReadOnly
  BY Parts, PortParts, ReadsFirst, LongerPorts
     DEF P!get_account_security_info
<1>. QED  BY <1>1, <1>2, <1>3, <1>4, <1>5, <1>6, <1>7, <1>8, <1>9, <1>10,
             <1>11, <1>12, <1>13, <1>14, <1>15, <1>16, <1>17, <1>18

-----------------------------------------------------------------------------
(* The use cases                                                           *)

\* What a use case looks at before it calls its port changes nothing, nor does it
\* take a client without looking at the cooldown.
LEMMA ChecksFirst ==
  /\ \A port \in ReadOnly :
       /\ Argument \o port \in ReadOnly
       /\ Authenticated \o port \in ReadOnly
       /\ (Authenticated \o Argument) \o port \in ReadOnly
       /\ (Argument \o Authenticated) \o port \in ReadOnly
       /\ (HasAccount \o Argument) \o port \in ReadOnly
       /\ (Argument \o HasAccount) \o port \in ReadOnly
  /\ \A port \in Whole :
       /\ Argument \o port \in Whole
       /\ Authenticated \o port \in Whole
       /\ (Authenticated \o Argument) \o port \in Whole
       /\ (HasAccount \o Argument) \o port \in Whole
PROOF
<1>1. /\ Argument \in ReadOnly /\ Authenticated \in ReadOnly
      /\ HasAccount \in ReadOnly /\ ReadOnly \subseteq Whole
  BY Parts
<1>2. \A s \in ReadOnly, t \in Whole : s \o t \in Whole
  BY ReadsFirst
<1>3. \A s \in ReadOnly, t \in ReadOnly : s \o t \in ReadOnly
  BY <1>1, ReadsFirst
<1>4. /\ Authenticated \o Argument \in ReadOnly
      /\ Argument \o Authenticated \in ReadOnly
      /\ HasAccount \o Argument \in ReadOnly
      /\ Argument \o HasAccount \in ReadOnly
  BY <1>1, <1>3
<1>. QED  BY <1>1, <1>2, <1>3, <1>4

\* A relogin asks for nothing to be changed on Instagram, and saves and uses the
\* session it has just loaded or made.
LEMMA LoginSteps == Login \in ReadOnly
PROOF
<1>. DEFINE announced == Do("announce", "raise") \o Do("discard", "raise")
            made == announced \o Do("login", "status")
            saved == made \o Do("save", "raise")
<1>1. /\ {"announce", "discard", "login", "save", "install"} \subseteq Does \ {"take"}
      /\ {"raise", "status"} \subseteq OnFailure
  BY DEF Does, OnFailure
<1>2. /\ Do("announce", "raise") \in ReadOnly /\ Do("discard", "raise") \in ReadOnly
      /\ Do("login", "status") \in ReadOnly /\ Takes(Do("login", "status"))
  BY <1>1, SingleSteps
<1>3. /\ Do("save", "raise") \in Loose /\ Do("install", "raise") \in Loose
      /\ \A i \in 1..Len(Do("save", "raise")) : ~Writes(Do("save", "raise")[i])
      /\ \A i \in 1..Len(Do("install", "raise")) : ~Writes(Do("install", "raise")[i])
  BY <1>1, SingleSteps
<1>4. announced \in ReadOnly
  BY <1>2, Parts, ReadsFirst
<1>. HIDE DEF announced
<1>5. made \in ReadOnly /\ Takes(made)
  <2>1. Do("login", "status") \in Whole /\ Do("login", "status") \in Loose
    BY <1>2 DEF ReadOnly, Whole
  <2>. QED  BY <1>2, <1>4, <2>1, ReadsFirst, Joined
<1>. HIDE DEF made
<1>6. saved \in ReadOnly /\ Takes(saved)
  BY <1>3, <1>5, TakesFirst
<1>. HIDE DEF saved
<1>7. saved \o Do("install", "raise") \in ReadOnly
  BY <1>3, <1>6, TakesFirst
<1>. QED  BY <1>7 DEF Login, saved, made, announced

\* Every use case that is named a reader changes nothing; any other takes its
\* client with the guard and ends with its change.
LEMMA UseCaseSteps ==
  /\ {list_inbox_threads, list_pending_threads, get_thread, list_messages,
      search_threads} \subseteq ReadOnly
  /\ {find_or_create_thread, send_to_thread, send_to_users, delete_message,
      approve_pending_thread, mark_thread_seen, send_photo, send_video,
      send_voice, share_media, share_story, mute_thread} \subseteq Whole
  /\ {unmute_thread, hide_thread, mark_thread_unread, share_profile}
        \subseteq Whole
  /\ {list_followers, list_following, search_followers, search_following}
        \subseteq ReadOnly
  /\ {follow_user, unfollow_user, remove_follower, close_friend_add,
      close_friend_remove} \subseteq Whole
  /\ {mute_posts, unmute_posts, mute_stories, unmute_stories,
      set_user_notifications} \subseteq Whole
  /\ {get_media_by_pk, get_media_by_code, get_user_medias, get_media_oembed,
      list_media_likers, list_user_clips, list_usertag_medias} \subseteq ReadOnly
  /\ {like_media, unlike_media, edit_caption, delete_media, pin_media,
      unpin_media, archive_media, unarchive_media, save_media, unsave_media}
        \subseteq Whole
  /\ {get_highlight_pk_from_url, get_highlight, list_user_highlights}
        \subseteq ReadOnly
  /\ {create_highlight, change_title, add_stories, remove_stories,
      delete_highlight} \subseteq Whole
  /\ {list_comments, list_comments_page} \subseteq ReadOnly
  /\ {create_comment, delete_comment, like_comment, unlike_comment,
      pin_comment, unpin_comment} \subseteq Whole
  /\ {get_story_pk_from_url, get_story, list_user_stories} \subseteq ReadOnly
  /\ {publish_story, delete_story, mark_seen} \subseteq Whole
  /\ {list_collections, get_collection_pk_by_name, get_collection_posts,
      list_liked_medias} \subseteq ReadOnly
  /\ {search_hashtags, get_hashtag, get_hashtag_top_posts,
      get_hashtag_recent_posts} \subseteq ReadOnly
  /\ {get_account_insight, get_media_insight, list_media_insights}
        \subseteq ReadOnly
  /\ {set_private, set_public, change_avatar, edit_profile,
      set_presence_disabled, request_email_confirm, request_phone_confirm}
        \subseteq Whole
  /\ {get_account_security_info} \subseteq ReadOnly
  /\ {get_authenticated_account, get_public_user_by_id,
      get_public_user_by_username, get_account_info} \subseteq ReadOnly
  /\ {find_or_create_thread_with_usernames, send_to_username} \subseteq Whole
  /\ {verify_account_connectivity, hydrate_account_profile,
      refresh_follower_counts} \subseteq ReadOnly
  /\ relogin_account \in ReadOnly
PROOF
<1>1. {P!get_user_id_by_username, P!get_public_user_by_username} \subseteq ReadOnly
  BY PortSteps
<1>2. \A lookup \in {P!get_user_id_by_username, P!get_public_user_by_username} :
        (Argument \o Authenticated) \o lookup \in ReadOnly
  BY <1>1, ChecksFirst
<1>3. \A lookup \in {P!get_user_id_by_username, P!get_public_user_by_username},
         port \in Whole :
        /\ ((Argument \o Authenticated) \o lookup) \o port \in Whole
        /\ port \in ReadOnly =>
             ((Argument \o Authenticated) \o lookup) \o port \in ReadOnly
  BY <1>2, ReadsFirst
<1>4. {list_inbox_threads, list_pending_threads, get_thread, list_messages,
      search_threads} \subseteq ReadOnly
  BY Parts, ChecksFirst, PortSteps
     DEF list_inbox_threads, list_pending_threads, get_thread, list_messages,
         search_threads
<1>5. {find_or_create_thread, send_to_thread, send_to_users, delete_message,
      approve_pending_thread, mark_thread_seen, send_photo, send_video,
      send_voice, share_media, share_story, mute_thread} \subseteq Whole
  BY Parts, ChecksFirst, PortSteps
     DEF find_or_create_thread, send_to_thread, send_to_users, delete_message,
         approve_pending_thread, mark_thread_seen, send_photo, send_video,
         send_voice, share_media, share_story, mute_thread
<1>6. {unmute_thread, hide_thread, mark_thread_unread, share_profile}
        \subseteq Whole
  BY Parts, ChecksFirst, PortSteps
     DEF unmute_thread, hide_thread, mark_thread_unread, share_profile
<1>7. {list_followers, list_following, search_followers, search_following}
        \subseteq ReadOnly
  BY <1>3, Parts, PortSteps
     DEF list_followers, list_following, search_followers, search_following,
         OfUser
<1>8. {follow_user, unfollow_user, remove_follower, close_friend_add,
      close_friend_remove} \subseteq Whole
  BY <1>3, Parts, PortSteps
     DEF follow_user, unfollow_user, remove_follower, close_friend_add,
         close_friend_remove, OfUser
<1>9. {mute_posts, unmute_posts, mute_stories, unmute_stories,
      set_user_notifications} \subseteq Whole
  BY <1>3, Parts, PortSteps
     DEF mute_posts, unmute_posts, mute_stories, unmute_stories,
         set_user_notifications, OfUser
<1>10. {get_media_by_pk, get_media_by_code, get_user_medias, get_media_oembed,
      list_media_likers, list_user_clips, list_usertag_medias} \subseteq ReadOnly
  BY Parts, ChecksFirst, PortSteps
     DEF get_media_by_pk, get_media_by_code, get_user_medias,
         get_media_oembed, list_media_likers, list_user_clips,
         list_usertag_medias
<1>11. {like_media, unlike_media, edit_caption, delete_media, pin_media,
      unpin_media, archive_media, unarchive_media, save_media, unsave_media}
        \subseteq Whole
  BY Parts, ChecksFirst, PortSteps
     DEF like_media, unlike_media, edit_caption, delete_media, pin_media,
         unpin_media, archive_media, unarchive_media, save_media, unsave_media
<1>12. {get_highlight_pk_from_url, get_highlight, list_user_highlights}
        \subseteq ReadOnly
  BY Parts, ChecksFirst, PortSteps
     DEF get_highlight_pk_from_url, get_highlight, list_user_highlights
<1>13. {create_highlight, change_title, add_stories, remove_stories,
      delete_highlight} \subseteq Whole
  BY Parts, ChecksFirst, PortSteps
     DEF create_highlight, change_title, add_stories, remove_stories,
         delete_highlight
<1>14. {list_comments, list_comments_page} \subseteq ReadOnly
  BY Parts, ChecksFirst, PortSteps
     DEF list_comments, list_comments_page
<1>15. {create_comment, delete_comment, like_comment, unlike_comment,
      pin_comment, unpin_comment} \subseteq Whole
  BY Parts, ChecksFirst, PortSteps
     DEF create_comment, delete_comment, like_comment, unlike_comment,
         pin_comment, unpin_comment
<1>16. {get_story_pk_from_url, get_story, list_user_stories} \subseteq ReadOnly
  BY Parts, ChecksFirst, PortSteps
     DEF get_story_pk_from_url, get_story, list_user_stories
<1>17. {publish_story, delete_story, mark_seen} \subseteq Whole
  BY Parts, ChecksFirst, PortSteps
     DEF publish_story, delete_story, mark_seen
<1>18. {list_collections, get_collection_pk_by_name, get_collection_posts,
      list_liked_medias} \subseteq ReadOnly
  BY Parts, ChecksFirst, PortSteps
     DEF list_collections, get_collection_pk_by_name, get_collection_posts,
         list_liked_medias
<1>19. {search_hashtags, get_hashtag, get_hashtag_top_posts,
      get_hashtag_recent_posts} \subseteq ReadOnly
  BY Parts, ChecksFirst, PortSteps
     DEF search_hashtags, get_hashtag, get_hashtag_top_posts,
         get_hashtag_recent_posts
<1>20. {get_account_insight, get_media_insight, list_media_insights}
        \subseteq ReadOnly
  BY Parts, ChecksFirst, PortSteps
     DEF get_account_insight, get_media_insight, list_media_insights
<1>21. {set_private, set_public, change_avatar, edit_profile,
      set_presence_disabled, request_email_confirm, request_phone_confirm}
        \subseteq Whole
  BY Parts, ChecksFirst, PortSteps
     DEF set_private, set_public, change_avatar, edit_profile,
         set_presence_disabled, request_email_confirm, request_phone_confirm
<1>22. {get_account_security_info} \subseteq ReadOnly
  BY Parts, ChecksFirst, PortSteps
     DEF get_account_security_info
<1>23. {get_authenticated_account, get_public_user_by_id,
      get_public_user_by_username, get_account_info} \subseteq ReadOnly
  BY Parts, ChecksFirst, PortSteps
     DEF get_authenticated_account, get_public_user_by_id,
         get_public_user_by_username, get_account_info
<1>24. get_public_user_by_username \in ReadOnly
  BY <1>23
<1>25. \A port \in Whole :
        /\ ((Authenticated \o Argument) \o get_public_user_by_username) \o port
             \in Whole
        /\ (((Authenticated \o Argument) \o get_public_user_by_username)
             \o get_public_user_by_username) \o port \in Whole
  BY <1>24, Parts, ReadsFirst
<1>26. {find_or_create_thread_with_usernames, send_to_username}
        \subseteq Whole
  BY <1>25, PortSteps DEF find_or_create_thread_with_usernames, send_to_username
<1>27. Demoting(P!get_authenticated_account) \in ReadOnly
  BY PortSteps, DemotingKeeps
<1>28. (Authenticated \o Demoting(P!get_authenticated_account)) \o Verified
        \in ReadOnly
  BY <1>27, Parts, ReadsFirst
<1>29. {verify_account_connectivity, hydrate_account_profile,
      refresh_follower_counts} \subseteq ReadOnly
  BY <1>27, <1>28, PortSteps
     DEF verify_account_connectivity, hydrate_account_profile,
         refresh_follower_counts
<1>30. relogin_account \in ReadOnly
  BY LoginSteps, ChecksFirst DEF relogin_account
<1>. QED  BY <1>4, <1>5, <1>6, <1>7, <1>8, <1>9, <1>10, <1>11, <1>12, <1>13,
             <1>14, <1>15, <1>16, <1>17, <1>18, <1>19, <1>20, <1>21, <1>22,
             <1>23, <1>26, <1>29, <1>30

-----------------------------------------------------------------------------
(* The routes and the jobs                                                 *)

\* What a handler asks for is one operation.
LEMMA RouteStages == \A useCase \in Whole : <<useCase>> \in Seq(Whole)
PROOF
  OBVIOUS

\* Every stage of what a route asks for is a whole operation.
LEMMA RoutesSteps == Routes \subseteq Seq(Whole)
PROOF
<1>1. ReadOnly \subseteq Whole
  BY Parts
<1>2. get_collection_pk_by_name \o get_collection_posts \in Whole
  BY <1>1, UseCaseSteps, ReadsFirst
<1>3. CommentRoutes \subseteq Seq(Whole)
  BY <1>1, <1>2, UseCaseSteps, RouteStages DEF CommentRoutes, Route
<1>4. DirectWriteRoutes \subseteq Seq(Whole)
  BY <1>1, <1>2, UseCaseSteps, RouteStages DEF DirectWriteRoutes, Route
<1>5. DirectReadRoutes \subseteq Seq(Whole)
  BY <1>1, <1>2, UseCaseSteps, RouteStages DEF DirectReadRoutes, Route
<1>6. HashtagRoutes \subseteq Seq(Whole)
  BY <1>1, <1>2, UseCaseSteps, RouteStages DEF HashtagRoutes, Route
<1>7. HighlightRoutes \subseteq Seq(Whole)
  BY <1>1, <1>2, UseCaseSteps, RouteStages DEF HighlightRoutes, Route
<1>8. IdentityRoutes \subseteq Seq(Whole)
  BY <1>1, <1>2, UseCaseSteps, RouteStages DEF IdentityRoutes, Route
<1>9. InsightRoutes \subseteq Seq(Whole)
  BY <1>1, <1>2, UseCaseSteps, RouteStages DEF InsightRoutes, Route
<1>10. MediaReadRoutes \subseteq Seq(Whole)
  BY <1>1, <1>2, UseCaseSteps, RouteStages DEF MediaReadRoutes, Route
<1>11. MediaWriteRoutes \subseteq Seq(Whole)
  BY <1>1, <1>2, UseCaseSteps, RouteStages DEF MediaWriteRoutes, Route
<1>12. StoryRoutes \subseteq Seq(Whole)
  BY <1>1, <1>2, UseCaseSteps, RouteStages DEF StoryRoutes, Route
<1>13. CollectionRoutes \subseteq Seq(Whole)
  BY <1>1, <1>2, UseCaseSteps, RouteStages DEF CollectionRoutes, Route
<1>14. RelationshipRoutes \subseteq Seq(Whole)
  BY <1>1, <1>2, UseCaseSteps, RouteStages DEF RelationshipRoutes, Route
<1>15. MuteRoutes \subseteq Seq(Whole)
  BY <1>1, <1>2, UseCaseSteps, RouteStages DEF MuteRoutes, Route
<1>16. AttachmentRoutes \subseteq Seq(Whole)
  BY <1>1, <1>2, UseCaseSteps, RouteStages DEF AttachmentRoutes, Route
<1>17. ThreadRoutes \subseteq Seq(Whole)
  BY <1>1, <1>2, UseCaseSteps, RouteStages DEF ThreadRoutes, Route
<1>18. AccountEditRoutes \subseteq Seq(Whole)
  BY <1>1, <1>2, UseCaseSteps, RouteStages DEF AccountEditRoutes, Route
<1>19. ConfirmationRoutes \subseteq Seq(Whole)
  BY <1>1, <1>2, UseCaseSteps, RouteStages DEF ConfirmationRoutes, Route
<1>20. VerifyRoutes \subseteq Seq(Whole)
  BY <1>1, <1>2, UseCaseSteps, RouteStages DEF VerifyRoutes, Route
<1>21. ReloginRoutes \subseteq Seq(Whole)
  BY <1>1, <1>2, UseCaseSteps, RouteStages DEF ReloginRoutes, Route
<1>. QED  BY <1>3, <1>4, <1>5, <1>6, <1>7, <1>8, <1>9, <1>10, <1>11, <1>12,
             <1>13, <1>14, <1>15, <1>16, <1>17, <1>18, <1>19, <1>20, <1>21
     DEF Routes, CommentRoutes, DirectWriteRoutes, DirectReadRoutes,
         HashtagRoutes, HighlightRoutes, IdentityRoutes, InsightRoutes,
         MediaReadRoutes, MediaWriteRoutes, StoryRoutes, CollectionRoutes,
         RelationshipRoutes, MuteRoutes, AttachmentRoutes, ThreadRoutes,
         AccountEditRoutes, ConfirmationRoutes, VerifyRoutes, ReloginRoutes

\* The jobs with several stages as well; a batch of no targets has none.
LEMMA JobsSteps ==
  /\ HydrateAndPublish \in Seq(Whole) /\ RefreshCountsJobs \subseteq Seq(Whole)
  /\ BatchJobs(Targets) \subseteq Seq(Whole)
PROOF
<1>1. /\ hydrate_account_profile \in Whole /\ refresh_follower_counts \in Whole
      /\ follow_user \in Whole /\ unfollow_user \in Whole
  BY UseCaseSteps, Parts
<1>2. Do("client", "none") \in ReadOnly /\ Do("cooldown", "none") \in ReadOnly
  BY SingleSteps DEF Does, OnFailure
<1>3. /\ Do("client", "none") \o refresh_follower_counts \in Whole
      /\ Do("cooldown", "none") \o refresh_follower_counts \in Whole
  BY <1>1, <1>2, ReadsFirst
<1>4. HydrateAndPublish \in Seq(Whole) /\ RefreshCountsJobs \subseteq Seq(Whole)
  BY <1>1, <1>3 DEF HydrateAndPublish, RefreshCountsJobs
<1>5. /\ BatchTask(follow_user, Targets) \in Seq(Whole)
      /\ BatchTask(unfollow_user, Targets) \in Seq(Whole)
  BY <1>1, CallsAssumption DEF BatchTask
<1>. QED  BY <1>4, <1>5 DEF BatchJobs

-----------------------------------------------------------------------------
(* The tools                                                               *)

\* A table of tools in which those that need no approval change nothing.
Sound(tools) ==
  \A tool \in DOMAIN tools : /\ tools[tool] \in Whole
                             /\ tool \in ReadOnlyTools => tools[tool] \in ReadOnly

\* A tool looks at the account and its arguments before its use case.
LEMMA ToolSteps ==
  /\ \A useCase \in Whole : (HasAccount \o Argument) \o useCase \in Whole
  /\ \A useCase \in ReadOnly : (HasAccount \o Argument) \o useCase \in ReadOnly
PROOF
  BY ChecksFirst

\* A table whose tools all need an approval, and one of tools that change nothing.
LEMMA SoundTables ==
  ASSUME NEW tools, NEW steps,
         \A tool \in DOMAIN tools : tools[tool] \in steps,
         \/ steps \subseteq ReadOnly
         \/ steps \subseteq Whole /\ DOMAIN tools \cap ReadOnlyTools = {}
  PROVE  Sound(tools)
PROOF
  BY Parts DEF Sound

\* No tool changes anything unless the policy wants it approved.
LEMMA ToolsAreSound == Sound(Tools)
PROOF
<1>1. Sound(HighlightWriteTools)
  <2>. DEFINE steps == {Tool(create_highlight), Tool(delete_highlight),
       Tool(change_title), Tool(add_stories), Tool(remove_stories)}
  <2>1. steps \subseteq Whole
    BY UseCaseSteps, ToolSteps DEF Tool
  <2>2. \A tool \in DOMAIN HighlightWriteTools : HighlightWriteTools[tool] \in steps
    BY DEF HighlightWriteTools
  <2>3. DOMAIN HighlightWriteTools \cap ReadOnlyTools = {}
    BY DEF HighlightWriteTools, ReadOnlyTools
  <2>. HIDE DEF steps
  <2>. QED  BY <2>1, <2>2, <2>3, SoundTables
<1>2. Sound(StoryWriteTools)
  <2>. DEFINE steps == {Tool(delete_story), Tool(mark_seen)}
  <2>1. steps \subseteq Whole
    BY UseCaseSteps, ToolSteps DEF Tool
  <2>2. \A tool \in DOMAIN StoryWriteTools : StoryWriteTools[tool] \in steps
    BY DEF StoryWriteTools
  <2>3. DOMAIN StoryWriteTools \cap ReadOnlyTools = {}
    BY DEF StoryWriteTools, ReadOnlyTools
  <2>. HIDE DEF steps
  <2>. QED  BY <2>1, <2>2, <2>3, SoundTables
<1>3. Sound(CommentWriteTools)
  <2>. DEFINE steps == {Tool(create_comment), Tool(delete_comment),
       Tool(like_comment), Tool(unlike_comment), Tool(pin_comment),
       Tool(unpin_comment)}
  <2>1. steps \subseteq Whole
    BY UseCaseSteps, ToolSteps DEF Tool
  <2>2. \A tool \in DOMAIN CommentWriteTools : CommentWriteTools[tool] \in steps
    BY DEF CommentWriteTools
  <2>3. DOMAIN CommentWriteTools \cap ReadOnlyTools = {}
    BY DEF CommentWriteTools, ReadOnlyTools
  <2>. HIDE DEF steps
  <2>. QED  BY <2>1, <2>2, <2>3, SoundTables
<1>4. Sound(SendDirectMessageTool)
  <2>. DEFINE steps == {Tool(send_to_username)}
  <2>1. steps \subseteq Whole
    BY UseCaseSteps, ToolSteps DEF Tool
  <2>2. \A tool \in DOMAIN SendDirectMessageTool : SendDirectMessageTool[tool] \in steps
    BY DEF SendDirectMessageTool
  <2>3. DOMAIN SendDirectMessageTool \cap ReadOnlyTools = {}
    BY DEF SendDirectMessageTool, ReadOnlyTools
  <2>. HIDE DEF steps
  <2>. QED  BY <2>1, <2>2, <2>3, SoundTables
<1>5. Sound(DirectThreadWriteTools)
  <2>. DEFINE steps == {Tool(send_to_thread),
       Tool(find_or_create_thread_with_usernames), Tool(delete_message),
       Tool(approve_pending_thread), Tool(mark_thread_seen)}
  <2>1. steps \subseteq Whole
    BY UseCaseSteps, ToolSteps DEF Tool
  <2>2. \A tool \in DOMAIN DirectThreadWriteTools :
          DirectThreadWriteTools[tool] \in steps
    BY DEF DirectThreadWriteTools
  <2>3. DOMAIN DirectThreadWriteTools \cap ReadOnlyTools = {}
    BY DEF DirectThreadWriteTools, ReadOnlyTools
  <2>. HIDE DEF steps
  <2>. QED  BY <2>1, <2>2, <2>3, SoundTables
<1>6. Sound(DirectAttachmentWriteTools)
  <2>. DEFINE steps == {Tool(send_photo), Tool(send_video), Tool(send_voice),
       Tool(share_media), Tool(share_story)}
  <2>1. steps \subseteq Whole
    BY UseCaseSteps, ToolSteps DEF Tool
  <2>2. \A tool \in DOMAIN DirectAttachmentWriteTools :
          DirectAttachmentWriteTools[tool] \in steps
    BY DEF DirectAttachmentWriteTools
  <2>3. DOMAIN DirectAttachmentWriteTools \cap ReadOnlyTools = {}
    BY DEF DirectAttachmentWriteTools, ReadOnlyTools
  <2>. HIDE DEF steps
  <2>. QED  BY <2>1, <2>2, <2>3, SoundTables
<1>7. Sound(RelationshipPrimaryWriteTools)
  <2>. DEFINE steps == {Tool(follow_user), Tool(unfollow_user)}
  <2>1. steps \subseteq Whole
    BY UseCaseSteps, ToolSteps DEF Tool
  <2>2. \A tool \in DOMAIN RelationshipPrimaryWriteTools :
          RelationshipPrimaryWriteTools[tool] \in steps
    BY DEF RelationshipPrimaryWriteTools
  <2>3. DOMAIN RelationshipPrimaryWriteTools \cap ReadOnlyTools = {}
    BY DEF RelationshipPrimaryWriteTools, ReadOnlyTools
  <2>. HIDE DEF steps
  <2>. QED  BY <2>1, <2>2, <2>3, SoundTables
<1>8. Sound(RelationshipManagementWriteTools)
  <2>. DEFINE steps == {Tool(remove_follower), Tool(close_friend_add),
       Tool(close_friend_remove)}
  <2>1. steps \subseteq Whole
    BY UseCaseSteps, ToolSteps DEF Tool
  <2>2. \A tool \in DOMAIN RelationshipManagementWriteTools :
          RelationshipManagementWriteTools[tool] \in steps
    BY DEF RelationshipManagementWriteTools
  <2>3. DOMAIN RelationshipManagementWriteTools \cap ReadOnlyTools = {}
    BY DEF RelationshipManagementWriteTools, ReadOnlyTools
  <2>. HIDE DEF steps
  <2>. QED  BY <2>1, <2>2, <2>3, SoundTables
<1>9. Sound(MediaWriteTools)
  <2>. DEFINE steps == {Tool(like_media), Tool(unlike_media)}
  <2>1. steps \subseteq Whole
    BY UseCaseSteps, ToolSteps DEF Tool
  <2>2. \A tool \in DOMAIN MediaWriteTools : MediaWriteTools[tool] \in steps
    BY DEF MediaWriteTools
  <2>3. DOMAIN MediaWriteTools \cap ReadOnlyTools = {}
    BY DEF MediaWriteTools, ReadOnlyTools
  <2>. HIDE DEF steps
  <2>. QED  BY <2>1, <2>2, <2>3, SoundTables
<1>10. Sound(MediaReadTools)
  <2>. DEFINE steps == {Tool(get_media_by_pk), Tool(get_media_by_code),
       Tool(get_user_medias), Tool(get_media_oembed)}
  <2>1. steps \subseteq ReadOnly
    BY UseCaseSteps, ToolSteps DEF Tool
  <2>2. \A tool \in DOMAIN MediaReadTools : MediaReadTools[tool] \in steps
    BY DEF MediaReadTools
  <2>. HIDE DEF steps
  <2>. QED  BY <2>1, <2>2, SoundTables
<1>11. Sound(StoryReadTools)
  <2>. DEFINE steps == {Tool(get_story), Tool(list_user_stories)}
  <2>1. steps \subseteq ReadOnly
    BY UseCaseSteps, ToolSteps DEF Tool
  <2>2. \A tool \in DOMAIN StoryReadTools : StoryReadTools[tool] \in steps
    BY DEF StoryReadTools
  <2>. HIDE DEF steps
  <2>. QED  BY <2>1, <2>2, SoundTables
<1>12. Sound(HighlightReadTools)
  <2>. DEFINE steps == {Tool(get_highlight), Tool(list_user_highlights)}
  <2>1. steps \subseteq ReadOnly
    BY UseCaseSteps, ToolSteps DEF Tool
  <2>2. \A tool \in DOMAIN HighlightReadTools : HighlightReadTools[tool] \in steps
    BY DEF HighlightReadTools
  <2>. HIDE DEF steps
  <2>. QED  BY <2>1, <2>2, SoundTables
<1>13. Sound(DiscoveryReadTools)
  <2>. DEFINE steps == {Tool(search_hashtags), Tool(get_hashtag),
       Tool(list_collections), Tool(list_liked_medias)}
  <2>1. steps \subseteq ReadOnly
    BY UseCaseSteps, ToolSteps DEF Tool
  <2>2. \A tool \in DOMAIN DiscoveryReadTools : DiscoveryReadTools[tool] \in steps
    BY DEF DiscoveryReadTools
  <2>. HIDE DEF steps
  <2>. QED  BY <2>1, <2>2, SoundTables
<1>14. Sound(CommentReadTools)
  <2>. DEFINE steps == {Tool(list_comments)}
  <2>1. steps \subseteq ReadOnly
    BY UseCaseSteps, ToolSteps DEF Tool
  <2>2. \A tool \in DOMAIN CommentReadTools : CommentReadTools[tool] \in steps
    BY DEF CommentReadTools
  <2>. HIDE DEF steps
  <2>. QED  BY <2>1, <2>2, SoundTables
<1>15. Sound(DirectInboxReadTools)
  <2>. DEFINE steps == {Tool(list_inbox_threads), Tool(list_pending_threads),
       Tool(search_threads)}
  <2>1. steps \subseteq ReadOnly
    BY UseCaseSteps, ToolSteps DEF Tool
  <2>2. \A tool \in DOMAIN DirectInboxReadTools : DirectInboxReadTools[tool] \in steps
    BY DEF DirectInboxReadTools
  <2>. HIDE DEF steps
  <2>. QED  BY <2>1, <2>2, SoundTables
<1>16. Sound(DirectThreadReadTools)
  <2>. DEFINE steps == {Tool(get_thread), Tool(list_messages)}
  <2>1. steps \subseteq ReadOnly
    BY UseCaseSteps, ToolSteps DEF Tool
  <2>2. \A tool \in DOMAIN DirectThreadReadTools : DirectThreadReadTools[tool] \in steps
    BY DEF DirectThreadReadTools
  <2>. HIDE DEF steps
  <2>. QED  BY <2>1, <2>2, SoundTables
<1>17. Sound(InsightReadTools)
  <2>. DEFINE steps == {Tool(get_media_insight), Tool(get_account_insight),
       Tool(list_media_insights)}
  <2>1. steps \subseteq ReadOnly
    BY UseCaseSteps, ToolSteps DEF Tool
  <2>2. \A tool \in DOMAIN InsightReadTools : InsightReadTools[tool] \in steps
    BY DEF InsightReadTools
  <2>. HIDE DEF steps
  <2>. QED  BY <2>1, <2>2, SoundTables
<1>18. Sound(RelationshipReadTools)
  <2>. DEFINE steps == {Tool(list_followers), Tool(list_following),
       Tool(search_followers), Tool(search_following)}
  <2>1. steps \subseteq ReadOnly
    BY UseCaseSteps, ToolSteps DEF Tool
  <2>2. \A tool \in DOMAIN RelationshipReadTools : RelationshipReadTools[tool] \in steps
    BY DEF RelationshipReadTools
  <2>. HIDE DEF steps
  <2>. QED  BY <2>1, <2>2, SoundTables
<1>a. Sound(AccountTools)
  <2>1. Tool(get_account_info) \in ReadOnly
    BY UseCaseSteps, ToolSteps DEF Tool
  <2>2. {Tool(set_private), Tool(edit_profile), Tool(set_presence_disabled)} \subseteq Whole
    BY UseCaseSteps, ToolSteps DEF Tool
  <2>3. {"set_account_privacy", "edit_account_profile", "set_account_presence"}
          \cap ReadOnlyTools = {}
    BY DEF ReadOnlyTools
  <2>4. \A tool \in DOMAIN AccountTools :
          \/ AccountTools[tool] = Tool(get_account_info)
          \/ /\ tool \in {"set_account_privacy", "edit_account_profile",
                          "set_account_presence"}
             /\ AccountTools[tool] \in {Tool(set_private), Tool(edit_profile),
                                        Tool(set_presence_disabled)}
    BY DEF AccountTools
  <2>. QED  BY <2>1, <2>2, <2>3, <2>4, Parts DEF Sound
<1>b. Sound(AccountContentTools)
  <2>. DEFINE posts == (Argument \o HasAccount) \o get_hashtag_recent_posts
              found == (Argument \o HasAccount) \o get_collection_pk_by_name
              saved == found \o get_collection_posts
  <2>1. posts \in ReadOnly /\ found \in ReadOnly
    BY UseCaseSteps, ChecksFirst
  <2>2. saved \in ReadOnly
    <3>. HIDE DEF found
    <3>. QED  BY <2>1, UseCaseSteps, Parts, ReadsFirst
  <2>3. \A tool \in DOMAIN AccountContentTools :
          AccountContentTools[tool] \in {posts, saved}
    BY DEF AccountContentTools
  <2>. HIDE DEF posts, saved
  <2>. QED  BY <2>1, <2>2, <2>3, Parts DEF Sound
<1>c. \A table \in ToolTables : Sound(table)
  BY <1>1, <1>2, <1>3, <1>4, <1>5, <1>6, <1>7, <1>8, <1>9, <1>10, <1>11,
     <1>12, <1>13, <1>14, <1>15, <1>16, <1>17, <1>18, <1>a, <1>b DEF ToolTables
<1>d. \A tool \in DOMAIN Tools : \E table \in ToolTables :
        tool \in DOMAIN table /\ Tools[tool] = table[tool]
  BY DEF Tools
<1>. QED  BY <1>c, <1>d DEF Sound

-----------------------------------------------------------------------------
(* What may be asked for                                                   *)

\* Whatever is asked for is a sequence of whole operations, and what needs no
\* approval changes nothing.
LEMMA OperationsSteps ==
  /\ Operations \subseteq Seq(Whole)
  /\ \A stages \in Unapproved : stages \in Seq(ReadOnly) /\ Len(stages) = 1
PROOF
<1>1. \A tool \in DOMAIN Tools :
        /\ <<Tools[tool]>> \in Seq(Whole)
        /\ tool \in ReadOnlyTools =>
             <<Tools[tool]>> \in Seq(ReadOnly) /\ Len(<<Tools[tool]>>) = 1
  BY ToolsAreSound DEF Sound
<1>2. Unapproved \subseteq Seq(Whole) /\ Approved \subseteq Seq(Whole)
  BY <1>1 DEF Unapproved, Approved
<1>3. \A stages \in Unapproved : stages \in Seq(ReadOnly) /\ Len(stages) = 1
  BY <1>1 DEF Unapproved
<1>. QED  BY <1>2, <1>3, RoutesSteps, JobsSteps DEF Operations

-----------------------------------------------------------------------------
(* The failures                                                            *)

\* A failure of the catalog: the end of a session is no rate limit, and what takes
\* the account out is nothing that waiting could cure.
Cataloged(failure) ==
  /\ failure.retryable \in BOOLEAN /\ failure.requires_user_action \in BOOLEAN
  /\ failure.code \in F!DeadSessionCodes => failure.http_hint # 429
  /\ F!IsChallengeFailure(failure) => ~failure.retryable
  /\ failure.code = "two_factor_required" => ~failure.retryable

\* It is enough to look at the entry's code, family, traits and hint.
LEMMA Entry ==
  \A code, family, traits, hint :
    /\ code \in F!DeadSessionCodes => hint # 429
    /\ \/ family = "challenge" \/ code \in F!ChallengeCodes
       \/ code = "two_factor_required"
       => "retryable" \notin traits
    => Cataloged(F!Failure(code, family, traits, hint))
PROOF
<1>1. SUFFICES
        ASSUME NEW code, NEW family, NEW traits, NEW hint,
               code \in F!DeadSessionCodes => hint # 429,
               \/ family = "challenge" \/ code \in F!ChallengeCodes
               \/ code = "two_factor_required"
               => "retryable" \notin traits
        PROVE  Cataloged(F!Failure(code, family, traits, hint))
  OBVIOUS
<1>. DEFINE entry == F!Failure(code, family, traits, hint)
<1>2. entry.code = code /\ entry.family = family /\ entry.http_hint = hint
  BY DEF F!Failure
<1>3. /\ entry.retryable = ("retryable" \in traits)
      /\ entry.requires_user_action = ("action" \in traits)
  BY Zenon DEF F!Failure
<1>. HIDE DEF entry
<1>4. entry.retryable \in BOOLEAN /\ entry.requires_user_action \in BOOLEAN
  BY <1>3
<1>5. F!IsChallengeFailure(entry) => ~entry.retryable
  BY <1>1, <1>2, <1>3 DEF F!IsChallengeFailure
<1>6. entry.code = "two_factor_required" => ~entry.retryable
  BY <1>1, <1>2, <1>3
<1>7. Cataloged(entry)
  BY <1>1, <1>2, <1>4, <1>5, <1>6 DEF Cataloged
<1>. QED  BY <1>7 DEF entry

\* Every entry of the catalog is such a failure.
LEMMA CatalogIsConsistent == \A failure \in F!Failures : Cataloged(failure)
PROOF
<1>1. \A failure \in F!AccountFailures : Cataloged(failure)
  BY Entry DEF F!AccountFailures, F!DeadSessionCodes, F!ChallengeCodes
<1>2. \A failure \in F!AlbumFailures : Cataloged(failure)
  BY Entry DEF F!AlbumFailures, F!DeadSessionCodes, F!ChallengeCodes
<1>3. \A failure \in F!ChallengeFailures : Cataloged(failure)
  BY Entry DEF F!ChallengeFailures, F!DeadSessionCodes, F!ChallengeCodes
<1>4. \A failure \in F!ClipFailures : Cataloged(failure)
  BY Entry DEF F!ClipFailures, F!DeadSessionCodes, F!ChallengeCodes
<1>5. \A failure \in F!CollectionFailures : Cataloged(failure)
  BY Entry DEF F!CollectionFailures, F!DeadSessionCodes, F!ChallengeCodes
<1>6. \A failure \in F!CommentFailures : Cataloged(failure)
  BY Entry DEF F!CommentFailures, F!DeadSessionCodes, F!ChallengeCodes
<1>7. \A failure \in F!CommonClientFailures : Cataloged(failure)
  BY Entry DEF F!CommonClientFailures, F!DeadSessionCodes, F!ChallengeCodes
<1>8. \A failure \in F!DirectFailures : Cataloged(failure)
  BY Entry DEF F!DirectFailures, F!DeadSessionCodes, F!ChallengeCodes
<1>9. \A failure \in F!HashtagFailures : Cataloged(failure)
  BY Entry DEF F!HashtagFailures, F!DeadSessionCodes, F!ChallengeCodes
<1>10. \A failure \in F!HighlightFailures : Cataloged(failure)
  BY Entry DEF F!HighlightFailures, F!DeadSessionCodes, F!ChallengeCodes
<1>11. \A failure \in F!IgtvFailures : Cataloged(failure)
  BY Entry DEF F!IgtvFailures, F!DeadSessionCodes, F!ChallengeCodes
<1>12. \A failure \in F!LocationFailures : Cataloged(failure)
  BY Entry DEF F!LocationFailures, F!DeadSessionCodes, F!ChallengeCodes
<1>13. \A failure \in F!MediaFailures : Cataloged(failure)
  BY Entry DEF F!MediaFailures, F!DeadSessionCodes, F!ChallengeCodes
<1>14. \A failure \in F!NoteFailures : Cataloged(failure)
  BY Entry DEF F!NoteFailures, F!DeadSessionCodes, F!ChallengeCodes
<1>15. \A failure \in F!PhotoFailures : Cataloged(failure)
  BY Entry DEF F!PhotoFailures, F!DeadSessionCodes, F!ChallengeCodes
<1>16. \A failure \in F!PrivateAuthFailures : Cataloged(failure)
  BY Entry DEF F!PrivateAuthFailures, F!DeadSessionCodes, F!ChallengeCodes
<1>17. \A failure \in F!ProxyFailures : Cataloged(failure)
  BY Entry DEF F!ProxyFailures, F!DeadSessionCodes, F!ChallengeCodes
<1>18. \A failure \in F!ShareFailures : Cataloged(failure)
  BY Entry DEF F!ShareFailures, F!DeadSessionCodes, F!ChallengeCodes
<1>19. \A failure \in F!StoryFailures : Cataloged(failure)
  BY Entry DEF F!StoryFailures, F!DeadSessionCodes, F!ChallengeCodes
<1>20. \A failure \in F!TrackFailures : Cataloged(failure)
  BY Entry DEF F!TrackFailures, F!DeadSessionCodes, F!ChallengeCodes
<1>21. \A failure \in F!UserFailures : Cataloged(failure)
  BY Entry DEF F!UserFailures, F!DeadSessionCodes, F!ChallengeCodes
<1>22. \A failure \in F!VideoFailures : Cataloged(failure)
  BY Entry DEF F!VideoFailures, F!DeadSessionCodes, F!ChallengeCodes
<1>. QED  BY <1>1, <1>2, <1>3, <1>4, <1>5, <1>6, <1>7, <1>8, <1>9, <1>10,
             <1>11, <1>12, <1>13, <1>14, <1>15, <1>16, <1>17, <1>18, <1>19,
             <1>20, <1>21, <1>22
     DEF F!Failures

\* What is decided from a failure: never that the account cools down and that its
\* session is dead, and no status from one that is transient.
Decided(class) ==
  /\ class.cooldown \in 0..F!LongestCooldown
  /\ class.dead \in BOOLEAN /\ class.transient \in BOOLEAN
  /\ class.status \in {"challenge", "2fa_required", "error", "keep"}
  /\ class.dead => class.cooldown = 0 /\ ~class.transient
  /\ class.status # "keep" => ~class.transient

LEMMA DecisionsAreConsistent ==
  \A class \in F!FailureClasses \cup {F!Unknown} : Decided(class)
PROOF
<1>1. ASSUME NEW failure, Cataloged(failure)
      PROVE  Decided(F!Class(failure))
  <2>1. F!CooldownOf(failure) \in 0..F!LongestCooldown
    BY DEF F!CooldownOf, F!LongestCooldown
  <2>2. /\ F!ShouldEvictDeadSession(failure) \in BOOLEAN
        /\ F!IsTransient(failure) \in BOOLEAN
    BY DEF F!ShouldEvictDeadSession, F!IsTransient
  <2>3. F!StatusFromFailure(failure) \in {"challenge", "2fa_required", "error", "keep"}
    BY DEF F!StatusFromFailure
  <2>4. F!ShouldEvictDeadSession(failure) =>
          F!CooldownOf(failure) = 0 /\ ~F!IsTransient(failure)
    <3>1. SUFFICES ASSUME F!ShouldEvictDeadSession(failure)
                   PROVE  F!CooldownOf(failure) = 0 /\ ~F!IsTransient(failure)
      OBVIOUS
    <3>2. /\ failure.http_hint # 429 /\ ~failure.retryable
          /\ failure.code # "feedback_required"
      BY <1>1, <3>1 DEF Cataloged, F!ShouldEvictDeadSession, F!DeadSessionCodes
    <3>. QED  BY <3>2 DEF F!CooldownOf, F!IsTransient
  <2>5. F!StatusFromFailure(failure) # "keep" => ~F!IsTransient(failure)
    BY <1>1 DEF Cataloged, F!StatusFromFailure, F!IsTransient
  <2>. QED  BY <2>1, <2>2, <2>3, <2>4, <2>5 DEF Decided, F!Class
<1>2. \A class \in F!FailureClasses : Decided(class)
  BY <1>1, CatalogIsConsistent DEF F!FailureClasses
<1>3. Cataloged(F!Failure("unknown_instagram_error", "unknown", {"retryable"}, 500))
  BY Entry DEF F!DeadSessionCodes, F!ChallengeCodes
<1>4. Decided(F!Unknown)
  BY <1>1, <1>3 DEF F!Unknown
<1>. QED  BY <1>2, <1>4

-----------------------------------------------------------------------------
(* The inductive invariant                                                 *)

Request ==
  [stages : Seq(Rests), taken : Logins \cup {NoClient},
   failure : F!FailureClasses \cup {F!Unknown}, duties : Seq(Duties),
   report : Reports, attempts : 0..(MaxAttempts - 1), wrote : BOOLEAN,
   missed : SUBSET {"write", "try", "blind"}]

Running(q) == q.stages # <<>> /\ q.report = "running"

Going(q) == Running(q) /\ q.duties = <<>>

\* A request is idle or at some point of a stage, with whole stages before it, and
\* has the client its next call is made with.
Staged(q) ==
  /\ q.stages = <<>> => q = Idle
  /\ \A i \in 2..Len(q.stages) : q.stages[i] \in Whole
  /\ Going(q) /\ q.taken = NoClient => TakesBeforeCalls(q.stages[1])
  /\ q.report # "running" => q.duties = <<>>

\* After a change a request only reads, and a change that was missed is reported
\* unless nobody looked.
Unseen == {"blind"}

Honest(q) ==
  /\ Running(q) /\ q.wrote =>
       \A i \in 1..Len(q.stages[1]) : Follows(q.stages[1][i])
  /\ Going(q) => q.missed \subseteq Unseen
  /\ q.report = "done" => q.missed \subseteq Unseen
  /\ q.report \in {"unsuccessful", "error", "none"} /\ q.wrote =>
       q.report = "error" /\ Follows(q.stages[1][1])

\* What is left to do suits the failure it is done about.
Suited(q) ==
  \A i \in 1..Len(q.duties) :
    /\ q.duties[i] \in {"drop", "forget"} => ~q.failure.transient
    /\ q.duties[i] = "demote" => q.failure.status # "keep"

RequestInv(q) == q \in Request /\ Staged(q) /\ Honest(q) /\ Suited(q)

StoresInv ==
  /\ known \in BOOLEAN /\ logins \in Logins
  /\ {client, session} \subseteq 0..logins
  /\ dead \subseteq 1..logins /\ revived \subseteq 1..logins
  /\ status \in Statuses /\ cooldown \in 0..F!LongestCooldown

RequestsInv ==
  /\ request \in [Requests -> Request]
  /\ \A r \in Requests : RequestInv(request[r]) /\ request[r].taken <= logins

\* Without a cooldown nothing is late, nor is what is about to take its client.
LateInv ==
  /\ late \in [Requests -> {0, 1}]
  /\ \A r \in Requests :
       cooldown = 0 \/ (Running(request[r]) /\ request[r].stages[1][1].do = "take")
         => late[r] = 0

WillDrop(q) == Len(q.duties) >= 3 /\ q.duties[1] = "drop" /\ q.duties[3] = "forget"

WillForget(q) == \E i \in 1..3 : i <= Len(q.duties) /\ q.duties[i] = "forget"

\* The client or the saved session is a dead one that no relogin put back.
ClientDead == client \in dead \ revived

SessionDead == known /\ session \in dead \ revived

\* Who saw it end is still to drop the client and to delete the session.
DeadInv ==
  /\ ClientDead => \E r \in Requests : WillDrop(request[r])
  /\ SessionDead => \E r \in Requests : WillForget(request[r])

IInv == StoresInv /\ RequestsInv /\ LateInv /\ DeadInv

-----------------------------------------------------------------------------
(* Requests from step to step                                              *)

\* What is left of a stage after its first step, and the first step alone.
LEMMA RestOfStage ==
  ASSUME NEW s \in Rests
  PROVE  /\ s \in Seq(Step) /\ s # <<>> /\ Len(s) \in Nat /\ Len(s) >= 1
         /\ Head(s) = s[1] /\ s[1] \in Step
         /\ <<s[1]>> \in Rests /\ <<s[1]>>[1] = s[1]
         /\ Len(s) # 1 =>
              /\ Tail(s) \in Rests /\ Len(Tail(s)) = Len(s) - 1
              /\ \A i \in 1..(Len(s) - 1) : Tail(s)[i] = s[i + 1]
              /\ Tail(s)[1].do = "take" => s[1].do = "cooldown"
              /\ TakesBeforeCalls(s) /\ ~Provides(s[1]) => TakesBeforeCalls(Tail(s))
PROOF
<1>1. s \in Seq(Step) /\ s # <<>> /\ Len(s) \in Nat /\ Len(s) >= 1
  BY DEF Rests
<1>2. Head(s) = s[1] /\ s[1] \in Step
  BY <1>1
<1>3. /\ <<s[1]>> \in Seq(Step) /\ Len(<<s[1]>>) = 1 /\ <<s[1]>> # <<>>
      /\ <<s[1]>>[1] = s[1]
  BY <1>2
<1>4. <<s[1]>> \in Rests
  BY <1>3 DEF Rests, FollowsWrite
<1>5. ASSUME Len(s) # 1
      PROVE  /\ Tail(s) \in Rests /\ Len(Tail(s)) = Len(s) - 1
             /\ \A i \in 1..(Len(s) - 1) : Tail(s)[i] = s[i + 1]
             /\ Tail(s)[1].do = "take" => s[1].do = "cooldown"
             /\ TakesBeforeCalls(s) /\ ~Provides(s[1]) => TakesBeforeCalls(Tail(s))
  <2>1. /\ Tail(s) \in Seq(Step) /\ Len(Tail(s)) = Len(s) - 1 /\ Tail(s) # <<>>
        /\ \A i \in 1..(Len(s) - 1) : Tail(s)[i] = s[i + 1]
    <3>1. Tail(s) \in Seq(Step) /\ Len(Tail(s)) = Len(s) - 1
      BY <1>1
    <3>2. \A i \in 1..(Len(s) - 1) : Tail(s)[i] = s[i + 1]
      BY <1>1
    <3>3. Len(Tail(s)) >= 1
      BY <1>1, <1>5, <3>1
    <3>4. Tail(s) # <<>>
      <4>1. Len(Tail(s)) # 0
        BY <1>1, <1>5, <3>1
      <4>. QED  BY <3>1, <4>1, EmptySeq
    <3>. QED  BY <3>1, <3>2, <3>4
  <2>2. \A i \in 2..(Len(s) - 1) : GuardedAt(Tail(s), i)
    <3>1. SUFFICES ASSUME NEW i \in 2..(Len(s) - 1), Tail(s)[i].do = "take"
                   PROVE  Tail(s)[i - 1].do = "cooldown"
      BY DEF GuardedAt
    <3>2. /\ Tail(s)[i] = s[i + 1] /\ Tail(s)[i - 1] = s[(i + 1) - 1]
          /\ i + 1 \in 2..Len(s)
      BY <1>1, <2>1
    <3>. QED  BY <3>1, <3>2 DEF Rests, GuardedAt
  <2>3. \A i \in 1..(Len(s) - 1), j \in 1..(Len(s) - 1) : FollowsWrite(Tail(s), i, j)
    <3>1. SUFFICES ASSUME NEW i \in 1..(Len(s) - 1), NEW j \in 1..(Len(s) - 1),
                          Writes(Tail(s)[i]), i < j
                   PROVE  Follows(Tail(s)[j])
      BY DEF FollowsWrite
    <3>2. /\ Tail(s)[i] = s[i + 1] /\ Tail(s)[j] = s[j + 1] /\ i + 1 < j + 1
          /\ i + 1 \in 1..Len(s) /\ j + 1 \in 1..Len(s)
      BY <1>1, <2>1, <3>1
    <3>. QED  BY <3>1, <3>2 DEF Rests, FollowsWrite
  <2>4. Tail(s) \in Rests
    BY <2>1, <2>2, <2>3 DEF Rests
  <2>5. Tail(s)[1].do = "take" => s[1].do = "cooldown"
    <3>1. Tail(s)[1] = s[2] /\ 2 \in 2..Len(s) /\ s[1] = s[2 - 1]
      BY <1>1, <1>5, <2>1
    <3>2. GuardedAt(s, 2)
      BY <3>1 DEF Rests
    <3>. QED  BY <3>1, <3>2 DEF GuardedAt
  <2>6. ASSUME TakesBeforeCalls(s), ~Provides(s[1])
        PROVE  TakesBeforeCalls(Tail(s))
    <3>1. SUFFICES ASSUME NEW i \in 1..(Len(s) - 1), Calls(Tail(s)[i])
                   PROVE  \E j \in 1..(Len(s) - 1) : j < i /\ Provides(Tail(s)[j])
      BY <2>1 DEF TakesBeforeCalls
    <3>2. i + 1 \in 1..Len(s) /\ Calls(s[i + 1])
      BY <1>1, <2>1, <3>1
    <3>3. PICK j \in 1..Len(s) : j < i + 1 /\ Provides(s[j])
      BY <3>2, <2>6 DEF TakesBeforeCalls
    <3>4. j # 1 /\ j - 1 \in 1..(Len(s) - 1) /\ j - 1 < i /\ Tail(s)[j - 1] = s[j]
      BY <1>1, <2>1, <2>6, <3>3
    <3>. QED  BY <3>3, <3>4
  <2>. QED  BY <2>1, <2>4, <2>5, <2>6
<1>. QED  BY <1>1, <1>2, <1>3, <1>4, <1>5

\* Another rest of the current stage leaves the stages to come alone.
LEMMA StageReplaced ==
  ASSUME NEW stages \in Seq(Rests), stages # <<>>, NEW s \in Rests
  PROVE  LET new == [stages EXCEPT ![1] = s]
         IN  /\ new \in Seq(Rests) /\ new # <<>> /\ Len(new) = Len(stages)
             /\ new[1] = s /\ \A i \in 2..Len(stages) : new[i] = stages[i]
PROOF
<1>. DEFINE new == [stages EXCEPT ![1] = s]
<1>1. Len(stages) \in Nat /\ Len(stages) >= 1 /\ DOMAIN stages = 1..Len(stages)
  OBVIOUS
<1>2. new \in [1..Len(stages) -> Rests]
  BY <1>1
<1>3. new \in Seq(Rests) /\ Len(new) = Len(stages)
  BY <1>1, <1>2
<1>4. new[1] = s /\ \A i \in 2..Len(stages) : new[i] = stages[i]
  BY <1>1
<1>5. new # <<>>
  BY <1>1, <1>3
<1>. QED  BY <1>3, <1>4, <1>5

\* The record of a request that is not idle, by its fields.
LEMMA Fields ==
  ASSUME NEW q \in Request
  PROVE  /\ q.stages \in Seq(Rests) /\ q.taken \in Logins \cup {NoClient}
         /\ q.failure \in F!FailureClasses \cup {F!Unknown}
         /\ q.duties \in Seq(Duties) /\ q.report \in Reports
         /\ q.attempts \in 0..(MaxAttempts - 1)
         /\ q.wrote \in BOOLEAN /\ q.missed \subseteq {"write", "try", "blind"}
         /\ q.stages # <<>> => /\ Len(q.stages) \in Nat /\ Len(q.stages) >= 1
                               /\ q.stages[1] \in Rests /\ Head(q.stages) = q.stages[1]
PROOF
<1>1. /\ q.stages \in Seq(Rests) /\ q.taken \in Logins \cup {NoClient}
      /\ q.failure \in F!FailureClasses \cup {F!Unknown}
      /\ q.duties \in Seq(Duties) /\ q.report \in Reports
      /\ q.attempts \in 0..(MaxAttempts - 1)
      /\ q.wrote \in BOOLEAN /\ q.missed \subseteq {"write", "try", "blind"}
  BY DEF Request
<1>. QED  BY <1>1

LEMMA IdleIsRight == RequestInv(Idle) /\ Idle.taken = NoClient /\ ~Running(Idle)
PROOF
<1>1. Idle \in Request
  BY DEF Request, Idle, Reports, MaxAttempts
<1>2. /\ Idle.stages = <<>> /\ Idle.duties = <<>> /\ Idle.report = "running"
      /\ ~Idle.wrote /\ Idle.missed = {} /\ Idle.taken = NoClient
  BY DEF Idle
<1>. QED  BY <1>1, <1>2 DEF RequestInv, Staged, Honest, Suited, Running, Going

\* A request begins with whole operations.
LEMMA BeginKeeps ==
  ASSUME NEW stages \in Seq(Whole)
  PROVE  /\ RequestInv(Begin(stages)) /\ Begin(stages).taken = NoClient
         /\ Begin(stages).duties = <<>>
         /\ Running(Begin(stages)) => Begin(stages).stages[1][1].do # "take"
PROOF
<1>. DEFINE q == Begin(stages)
<1>1. /\ q.stages = stages /\ q.duties = <<>> /\ q.report = "running"
      /\ ~q.wrote /\ q.missed = {} /\ q.taken = NoClient /\ q.failure = F!Unknown
  BY DEF Begin, Idle
<1>2. stages \in Seq(Rests)
  BY DEF Whole, Loose
<1>a. Idle \in Request /\ Idle.stages = <<>> /\ q = [Idle EXCEPT !.stages = stages]
  BY IdleIsRight DEF RequestInv, Begin, Idle
<1>3. q \in Request
  BY <1>2, <1>a DEF Request
<1>4. stages = <<>> => q = Idle
  BY <1>a DEF Request
<1>5. \A i \in 1..Len(stages) : stages[i] \in Whole
  OBVIOUS
<1>6. stages # <<>> => 1 \in 1..Len(stages)
  OBVIOUS
<1>7. stages # <<>> => TakesBeforeCalls(stages[1]) /\ stages[1][1].do # "take"
  BY <1>5, <1>6 DEF Whole, Loose
<1>8. \A i \in 2..Len(stages) : stages[i] \in Whole
  BY <1>5
<1>. HIDE DEF q
<1>9. Staged(q) /\ Honest(q) /\ Suited(q)
  BY <1>1, <1>4, <1>7, <1>8 DEF Staged, Honest, Suited, Running, Going
<1>10. RequestInv(q) /\ (Running(q) => q.stages[1][1].do # "take")
  BY <1>1, <1>3, <1>7, <1>9 DEF RequestInv, Running
<1>. QED  BY <1>1, <1>10 DEF q

\* A request that goes no further keeps its next step.
LEMMA EndedKeeps ==
  ASSUME NEW q \in Request, q.stages # <<>>
  PROVE  /\ Ended(q) \in Request /\ Ended(q).stages # <<>>
         /\ Len(Ended(q).stages) = Len(q.stages)
         /\ Ended(q).stages[1] = <<q.stages[1][1]>>
         /\ \A i \in 2..Len(q.stages) : Ended(q).stages[i] = q.stages[i]
         /\ Ended(q).taken = NoClient /\ Ended(q).failure = q.failure
         /\ Ended(q).duties = q.duties /\ Ended(q).report = q.report
         /\ Ended(q).attempts = q.attempts
         /\ Ended(q).wrote = q.wrote /\ Ended(q).missed = q.missed
PROOF
<1>. DEFINE stages == [q.stages EXCEPT ![1] = <<Head(q.stages[1])>>]
            new == [q EXCEPT !.stages = stages, !.taken = NoClient]
<1>1. q.stages \in Seq(Rests) /\ q.stages[1] \in Rests
  BY Fields
<1>2. Head(q.stages[1]) = q.stages[1][1] /\ <<q.stages[1][1]>> \in Rests
  BY <1>1, RestOfStage
<1>3. /\ stages \in Seq(Rests) /\ stages # <<>> /\ Len(stages) = Len(q.stages)
      /\ stages[1] = <<q.stages[1][1]>>
      /\ \A i \in 2..Len(q.stages) : stages[i] = q.stages[i]
  BY <1>1, <1>2, StageReplaced
<1>4. Ended(q) = new
  BY DEF Ended
<1>. HIDE DEF stages
<1>5. new \in Request
  BY <1>3 DEF Request
<1>6. /\ new.stages = stages /\ new.taken = NoClient /\ new.failure = q.failure
      /\ new.duties = q.duties /\ new.report = q.report /\ new.attempts = q.attempts
      /\ new.wrote = q.wrote /\ new.missed = q.missed
  BY DEF Request
<1>. HIDE DEF new
<1>. QED  BY <1>3, <1>4, <1>5, <1>6

\* What the report of a stage leaves of the request.
LEMMA ReportKeeps ==
  ASSUME NEW q \in Request, q.stages # <<>>, q.duties = <<>>,
         \A i \in 2..Len(q.stages) : q.stages[i] \in Whole,
         NEW report \in {"done", "unsuccessful", "error", "none"},
         report = "done" => q.missed \subseteq Unseen,
         report # "done" /\ q.wrote => report = "error" /\ Follows(q.stages[1][1])
  PROVE  /\ RequestInv(Report(q, report)) /\ Report(q, report).taken = NoClient
         /\ ~Running(Report(q, report)) /\ Report(q, report).duties = <<>>
PROOF
<1>. DEFINE ended == Ended(q)
            new == [ended EXCEPT !.report = report, !.failure = F!Unknown]
            stages == ended.stages
<1>1. Report(q, report) = new
  BY DEF Report
<1>2. /\ ended \in Request /\ ended.stages # <<>>
      /\ Len(ended.stages) = Len(q.stages) /\ ended.stages[1] = <<q.stages[1][1]>>
      /\ \A i \in 2..Len(q.stages) : ended.stages[i] = q.stages[i]
      /\ ended.taken = NoClient /\ ended.duties = <<>>
      /\ ended.wrote = q.wrote /\ ended.missed = q.missed
  BY EndedKeeps
<1>. HIDE DEF ended
<1>3. <<q.stages[1][1]>>[1] = q.stages[1][1]
  OBVIOUS
<1>4. /\ new.stages = stages /\ new.taken = NoClient /\ new.failure = F!Unknown
      /\ new.duties = <<>> /\ new.report = report /\ new.wrote = q.wrote
      /\ new.missed = q.missed
  BY <1>2 DEF Request
<1>5. new \in Request
  BY <1>2 DEF Request, Reports
<1>. HIDE DEF new
<1>6. ~Running(new)
  BY <1>4 DEF Running
<1>7. Staged(new)
  BY <1>2, <1>4, <1>6 DEF Staged, Going
<1>8. Honest(new)
  BY <1>2, <1>3, <1>4, <1>6 DEF Honest, Going
<1>9. Suited(new)
  BY <1>4 DEF Suited
<1>. QED  BY <1>1, <1>4, <1>5, <1>6, <1>7, <1>8, <1>9 DEF RequestInv

\* A request that goes on is at the end of a stage or has the next step before it,
\* which takes a client only after a look at the cooldown.
LEMMA PassedKeeps ==
  ASSUME NEW q \in Request, q.stages # <<>>, q.report = "running", q.duties = <<>>,
         \A i \in 2..Len(q.stages) : q.stages[i] \in Whole,
         q.missed \subseteq Unseen,
         q.wrote => \A i \in 2..Len(q.stages[1]) : Follows(q.stages[1][i]),
         q.taken = NoClient =>
           TakesBeforeCalls(q.stages[1]) /\ ~Provides(q.stages[1][1])
  PROVE  /\ RequestInv(Passed(q)) /\ Passed(q).taken \in {NoClient, q.taken}
         /\ Passed(q).duties = <<>>
         /\ Running(Passed(q)) /\ Passed(q).stages[1][1].do = "take" =>
              q.stages[1][1].do = "cooldown"
PROOF
<1>. DEFINE stages == [q.stages EXCEPT ![1] = Tail(q.stages[1])]
            new == [q EXCEPT !.stages = stages]
<1>1. /\ q.stages \in Seq(Rests) /\ q.stages[1] \in Rests
      /\ Head(q.stages) = q.stages[1]
  BY Fields
<1>2. CASE Len(q.stages[1]) = 1
  <2>1. Passed(q) = Report(q, "done")
    BY <1>1, <1>2 DEF Passed
  <2>. QED  BY <2>1, ReportKeeps
<1>3. CASE Len(q.stages[1]) # 1
  <2>1. Passed(q) = new
    BY <1>1, <1>3 DEF Passed
  <2>2. /\ Tail(q.stages[1]) \in Rests
        /\ Len(Tail(q.stages[1])) = Len(q.stages[1]) - 1
        /\ \A i \in 1..(Len(q.stages[1]) - 1) : Tail(q.stages[1])[i] = q.stages[1][i + 1]
        /\ Tail(q.stages[1])[1].do = "take" => q.stages[1][1].do = "cooldown"
        /\ q.taken = NoClient => TakesBeforeCalls(Tail(q.stages[1]))
        /\ Len(q.stages[1]) \in Nat /\ Len(q.stages[1]) >= 1
    BY <1>1, <1>3, RestOfStage
  <2>3. /\ stages \in Seq(Rests) /\ stages # <<>> /\ Len(stages) = Len(q.stages)
        /\ stages[1] = Tail(q.stages[1])
        /\ \A i \in 2..Len(q.stages) : stages[i] = q.stages[i]
    BY <1>1, <2>2, StageReplaced
  <2>. HIDE DEF stages
  <2>4. /\ new.stages = stages /\ new.taken = q.taken /\ new.failure = q.failure
        /\ new.duties = <<>> /\ new.report = "running" /\ new.wrote = q.wrote
        /\ new.missed = q.missed
    BY DEF Request
  <2>5. new \in Request
    BY <2>3 DEF Request
  <2>. HIDE DEF new
  <2>6. q.wrote => \A i \in 1..Len(Tail(q.stages[1])) : Follows(Tail(q.stages[1])[i])
    BY <2>2
  <2>7. Staged(new)
    BY <2>2, <2>3, <2>4 DEF Staged
  <2>8. Honest(new)
    BY <2>3, <2>4, <2>6 DEF Honest
  <2>9. Suited(new)
    BY <2>4 DEF Suited
  <2>10. Running(new) /\ new.stages[1][1].do = "take" => q.stages[1][1].do = "cooldown"
    BY <2>2, <2>3, <2>4
  <2>. QED  BY <2>1, <2>4, <2>5, <2>7, <2>8, <2>9, <2>10 DEF RequestInv
<1>. QED  BY <1>2, <1>3

\* A request that failed reports it once nothing is left to do about it.
LEMMA ToldKeeps ==
  ASSUME NEW q \in Request, q.stages # <<>>, q.report = "running",
         \A i \in 2..Len(q.stages) : q.stages[i] \in Whole,
         q.wrote => \A i \in 1..Len(q.stages[1]) : Follows(q.stages[1][i]),
         Suited(q)
  PROVE  /\ RequestInv(Told(q)) /\ Told(q).taken \in {NoClient, q.taken}
         /\ Told(q).duties = q.duties
         /\ Running(Told(q)) => Told(q).stages = q.stages /\ q.duties # <<>>
PROOF
<1>1. /\ q.stages \in Seq(Rests) /\ q.stages[1] \in Rests
      /\ Head(q.stages) = q.stages[1]
  BY Fields
<1>2. CASE q.duties # <<>>
  <2>1. Told(q) = q
    BY <1>2 DEF Told
  <2>2. Staged(q) /\ Honest(q)
    BY <1>2 DEF Staged, Honest, Going
  <2>3. RequestInv(q)
    BY <2>2 DEF RequestInv
  <2>. QED  BY <1>2, <2>1, <2>3
<1>3. CASE q.duties = <<>>
  <2>. DEFINE report == ReportOf(StepOf(q).onFailure)
  <2>1. report \in {"error", "unsuccessful", "none"}
    BY DEF ReportOf
  <2>2. Told(q) = Report(q, report)
    BY <1>3 DEF Told
  <2>3. q.wrote => report = "error" /\ Follows(q.stages[1][1])
    <3>1. /\ Len(q.stages[1]) \in Nat /\ Len(q.stages[1]) >= 1
          /\ StepOf(q) = q.stages[1][1]
      BY <1>1, RestOfStage DEF StepOf
    <3>2. 1 \in 1..Len(q.stages[1])
      BY <3>1
    <3>. QED  BY <3>1, <3>2 DEF Follows, ReportOf
  <2>. HIDE DEF report
  <2>. QED  BY <1>3, <2>1, <2>2, <2>3, ReportKeeps
<1>. QED  BY <1>2, <1>3

-----------------------------------------------------------------------------
(* Steps of one request                                                    *)

\* What is known of a request about to take a step.
LEMMA ReadyFacts ==
  ASSUME IInv, NEW r \in Requests, NEW what, Ready(r, what)
  PROVE  /\ request[r] \in Request /\ request[r].stages # <<>>
         /\ request[r].report = "running" /\ request[r].duties = <<>>
         /\ \A i \in 2..Len(request[r].stages) : request[r].stages[i] \in Whole
         /\ request[r].missed \subseteq Unseen /\ Running(request[r])
         /\ NextStep(r) = request[r].stages[1][1] /\ NextStep(r) \in Step
         /\ NextStep(r).do = what /\ request[r].stages[1] \in Rests
         /\ request[r].wrote =>
              \A i \in 1..Len(request[r].stages[1]) : Follows(request[r].stages[1][i])
         /\ request[r].taken = NoClient => TakesBeforeCalls(request[r].stages[1])
         /\ request[r].taken <= logins
PROOF
<1>. DEFINE q == request[r]
<1>1. RequestInv(q) /\ q.taken <= logins
  BY DEF IInv, RequestsInv
<1>2. q # Idle /\ q.report = "running" /\ q.duties = <<>> /\ NextStep(r).do = what
  BY DEF Ready
<1>. HIDE DEF q
<1>3. q \in Request /\ q.stages # <<>> /\ Running(q)
  BY <1>1, <1>2 DEF RequestInv, Staged, Running
<1>4. q.stages[1] \in Rests /\ Head(q.stages) = q.stages[1]
  BY <1>3, Fields
<1>5. NextStep(r) = q.stages[1][1] /\ NextStep(r) \in Step
  BY <1>4, RestOfStage DEF NextStep, StepOf, q
<1>6. q.missed \subseteq Unseen
  BY <1>1, <1>2, <1>3 DEF RequestInv, Honest, Going
<1>7. /\ \A i \in 2..Len(q.stages) : q.stages[i] \in Whole
      /\ q.taken = NoClient => TakesBeforeCalls(q.stages[1])
      /\ q.wrote => \A i \in 1..Len(q.stages[1]) : Follows(q.stages[1][i])
  BY <1>1, <1>2, <1>3 DEF RequestInv, Staged, Honest, Going
<1>. QED  BY <1>1, <1>2, <1>3, <1>4, <1>5, <1>6, <1>7 DEF q

\* What is known of a request with something left to do about a failure.
LEMMA DueFacts ==
  ASSUME IInv, NEW r \in Requests, NEW duty, Due(r, duty)
  PROVE  /\ request[r] \in Request /\ request[r].stages # <<>>
         /\ request[r].report = "running" /\ request[r].duties # <<>>
         /\ request[r].duties \in Seq(Duties) /\ Len(request[r].duties) \in Nat
         /\ Len(request[r].duties) >= 1 /\ request[r].duties[1] = duty
         /\ \A i \in 2..Len(request[r].stages) : request[r].stages[i] \in Whole
         /\ Running(request[r]) /\ Suited(request[r])
         /\ request[r].wrote =>
              \A i \in 1..Len(request[r].stages[1]) : Follows(request[r].stages[1][i])
         /\ request[r].taken <= logins
         /\ Decided(request[r].failure)
PROOF
<1>. DEFINE q == request[r]
<1>1. RequestInv(q) /\ q.taken <= logins
  BY DEF IInv, RequestsInv
<1>2. q.duties # <<>> /\ Head(q.duties) = duty
  BY DEF Due
<1>. HIDE DEF q
<1>3. q \in Request /\ q.duties \in Seq(Duties)
      /\ q.failure \in F!FailureClasses \cup {F!Unknown}
  BY <1>1, Fields DEF RequestInv
<1>4. q.stages # <<>>
  BY <1>1, <1>2 DEF RequestInv, Staged, Idle
<1>5. q.report = "running" /\ Running(q)
  BY <1>1, <1>2, <1>4 DEF RequestInv, Staged, Running
<1>6. Len(q.duties) \in Nat /\ Len(q.duties) >= 1 /\ q.duties[1] = duty
  BY <1>2, <1>3
<1>7. /\ \A i \in 2..Len(q.stages) : q.stages[i] \in Whole
      /\ q.wrote => \A i \in 1..Len(q.stages[1]) : Follows(q.stages[1][i])
      /\ Suited(q)
  BY <1>1, <1>5 DEF RequestInv, Staged, Honest
<1>8. Decided(q.failure)
  BY <1>3, DecisionsAreConsistent
<1>. QED  BY <1>1, <1>2, <1>3, <1>4, <1>5, <1>6, <1>7, <1>8 DEF q

\* A step of one request leaves the others as they are.
LEMMA OthersKept ==
  ASSUME IInv, NEW r \in Requests, NEW q, RequestInv(q), q.taken <= logins',
         request' = [request EXCEPT ![r] = q],
         logins \in Nat, logins' \in Nat, logins <= logins'
  PROVE  /\ RequestsInv' /\ request'[r] = q
         /\ \A s \in Requests \ {r} : request'[s] = request[s]
PROOF
<1>1. request \in [Requests -> Request] /\ q \in Request
  BY DEF IInv, RequestsInv, RequestInv
<1>2. /\ request'[r] = q /\ request' \in [Requests -> Request]
      /\ \A s \in Requests \ {r} : request'[s] = request[s]
  BY <1>1
<1>3. ASSUME NEW s \in Requests \ {r}
      PROVE  RequestInv(request'[s]) /\ request'[s].taken <= logins'
  <2>1. request'[s] = request[s]
    BY <1>2
  <2>2. RequestInv(request[s]) /\ request[s].taken <= logins
    BY DEF IInv, RequestsInv
  <2>3. request[s].taken \in Nat
    BY <1>1, Fields DEF Logins, NoClient
  <2>. QED  BY <2>1, <2>2, <2>3
<1>4. \A s \in Requests : RequestInv(request'[s]) /\ request'[s].taken <= logins'
  BY <1>2, <1>3
<1>. QED  BY <1>2, <1>4 DEF RequestsInv

\* A step of a request with nothing left to do takes away no witness of DeadInv.
LEMMA WitnessesKept ==
  ASSUME IInv, NEW r \in Requests, request[r].duties = <<>>,
         \A s \in Requests \ {r} : request'[s] = request[s],
         ClientDead' => ClientDead, SessionDead' => SessionDead
  PROVE  DeadInv'
PROOF
<1>1. \A s \in Requests : WillDrop(request[s]) => s # r
  BY DEF WillDrop
<1>2. \A s \in Requests : WillForget(request[s]) => s # r
  BY DEF WillForget
<1>. QED  BY <1>1, <1>2 DEF IInv, DeadInv

\* A step to the taking of a client follows the look at the cooldown.
LEMMA LateKept ==
  ASSUME IInv, NEW r \in Requests,
         \A s \in Requests \ {r} : request'[s] = request[s],
         Running(request'[r]) /\ request'[r].stages[1][1].do = "take" => cooldown = 0,
         cooldown' = 0 => cooldown = 0, late' = late
  PROVE  LateInv'
PROOF
<1>1. late' \in [Requests -> {0, 1}]
  BY DEF IInv, LateInv
<1>2. ASSUME NEW s \in Requests,
             cooldown' = 0 \/ (Running(request'[s]) /\ request'[s].stages[1][1].do = "take")
      PROVE  late'[s] = 0
  BY <1>2 DEF IInv, LateInv
<1>. QED  BY <1>1, <1>2 DEF LateInv

\* A request that goes on: only the look at the cooldown leads to the taking.
LEMMA GoesOn ==
  ASSUME IInv, NEW r \in Requests, NEW what, Ready(r, what),
         NEW q \in Request, q.stages = request[r].stages, q.report = "running",
         q.duties = <<>>, q.missed \subseteq Unseen,
         q.wrote => \A i \in 2..Len(q.stages[1]) : Follows(q.stages[1][i]),
         q.taken = NoClient =>
           TakesBeforeCalls(q.stages[1]) /\ what \notin {"take", "login"},
         q.taken <= logins', what = "cooldown" => cooldown = 0,
         request' = [request EXCEPT ![r] = Passed(q)],
         logins' \in Nat, logins <= logins'
  PROVE  /\ RequestsInv'
         /\ \A s \in Requests \ {r} : request'[s] = request[s]
         /\ Running(request'[r]) /\ request'[r].stages[1][1].do = "take" => cooldown = 0
PROOF
<1>1. /\ request[r].stages # <<>> /\ NextStep(r) = request[r].stages[1][1]
      /\ \A i \in 2..Len(request[r].stages) : request[r].stages[i] \in Whole
      /\ NextStep(r).do = what
  BY ReadyFacts
<1>2. /\ RequestInv(Passed(q)) /\ Passed(q).taken \in {NoClient, q.taken}
      /\ Running(Passed(q)) /\ Passed(q).stages[1][1].do = "take" =>
           q.stages[1][1].do = "cooldown"
  BY <1>1, PassedKeeps DEF Provides
<1>3. logins \in Nat /\ NoClient <= logins'
  BY DEF IInv, StoresInv, Logins, NoClient
<1>4. Passed(q).taken <= logins'
  BY <1>2, <1>3
<1>. DEFINE new == Passed(q)
<1>. HIDE DEF new
<1>5. RequestInv(new) /\ new.taken <= logins' /\ request' = [request EXCEPT ![r] = new]
  BY <1>2, <1>4 DEF new
<1>6. logins \in Nat /\ logins' \in Nat /\ logins <= logins'
  BY <1>3
<1>7. /\ RequestsInv' /\ request'[r] = new
      /\ \A s \in Requests \ {r} : request'[s] = request[s]
  BY <1>5, <1>6, OthersKept
<1>. QED  BY <1>1, <1>2, <1>7 DEF new

\* A request that fails is told, or has something to do first.
LEMMA Fails ==
  ASSUME IInv, NEW r \in Requests,
         NEW q \in Request, q.report = "running",
         q.stages # <<>>, \A i \in 2..Len(q.stages) : q.stages[i] \in Whole,
         q.stages[1][1] = request[r].stages[1][1],
         q.wrote => \A i \in 1..Len(q.stages[1]) : Follows(q.stages[1][i]),
         Suited(q), q.taken <= logins,
         request' = [request EXCEPT ![r] = Told(q)], logins' = logins
  PROVE  /\ RequestsInv' /\ request'[r].duties = q.duties
         /\ \A s \in Requests \ {r} : request'[s] = request[s]
         /\ Running(request'[r]) =>
              request'[r].stages[1][1] = request[r].stages[1][1] /\ q.duties # <<>>
PROOF
<1>1. /\ RequestInv(Told(q)) /\ Told(q).taken \in {NoClient, q.taken}
      /\ Told(q).duties = q.duties
      /\ Running(Told(q)) => Told(q).stages = q.stages /\ q.duties # <<>>
  BY ToldKeeps
<1>2. logins \in Nat /\ NoClient <= logins
  BY DEF IInv, StoresInv, Logins, NoClient
<1>3. Told(q).taken <= logins'
  BY <1>1, <1>2
<1>. DEFINE new == Told(q)
<1>. HIDE DEF new
<1>4. RequestInv(new) /\ new.taken <= logins' /\ request' = [request EXCEPT ![r] = new]
  BY <1>1, <1>3 DEF new
<1>5. logins \in Nat /\ logins' \in Nat /\ logins <= logins'
  BY <1>2
<1>6. /\ RequestsInv' /\ request'[r] = new
      /\ \A s \in Requests \ {r} : request'[s] = request[s]
  BY <1>4, <1>5, OthersKept
<1>. QED  BY <1>1, <1>6 DEF new

\* The checks and the steps beside Instagram pass or are refused.
LEMMA PassOrRefuse ==
  ASSUME IInv, NEW r \in Requests, NEW what, Ready(r, what),
         \/ Pass(r) /\ what \notin {"take", "login"} /\ (what = "cooldown" => cooldown = 0)
         \/ Refuse(r),
         ClientDead' => ClientDead, SessionDead' => SessionDead,
         UNCHANGED <<logins, cooldown, late>>
  PROVE  RequestsInv' /\ LateInv' /\ DeadInv'
PROOF
<1>. DEFINE q == request[r]
<1>1. /\ q \in Request /\ q.stages # <<>> /\ q.report = "running" /\ q.duties = <<>>
      /\ \A i \in 2..Len(q.stages) : q.stages[i] \in Whole
      /\ q.missed \subseteq Unseen /\ q.stages[1] \in Rests
      /\ q.wrote => \A i \in 1..Len(q.stages[1]) : Follows(q.stages[1][i])
      /\ q.taken = NoClient => TakesBeforeCalls(q.stages[1])
      /\ q.taken <= logins
  BY ReadyFacts
<1>2. q.wrote => \A i \in 2..Len(q.stages[1]) : Follows(q.stages[1][i])
  BY <1>1, RestOfStage
<1>a. logins' \in Nat /\ logins <= logins' /\ q.taken <= logins'
  BY <1>1 DEF IInv, StoresInv, Logins
<1>3. CASE Pass(r) /\ what \notin {"take", "login"} /\ (what = "cooldown" => cooldown = 0)
  <2>1. request' = [request EXCEPT ![r] = Passed(q)]
    BY <1>3 DEF Pass
  <2>2. /\ RequestsInv'
        /\ \A s \in Requests \ {r} : request'[s] = request[s]
        /\ Running(request'[r]) /\ request'[r].stages[1][1].do = "take" => cooldown = 0
    BY <1>1, <1>2, <1>a, <1>3, <2>1, GoesOn
  <2>3. LateInv'
    BY <2>2, LateKept
  <2>4. DeadInv'
    BY <1>1, <2>2, WitnessesKept
  <2>. QED  BY <2>2, <2>3, <2>4
<1>4. CASE Refuse(r)
  <2>1. request' = [request EXCEPT ![r] = Told(q)]
    BY <1>4 DEF Refuse
  <2>2. Suited(q)
    BY <1>1 DEF Suited
  <2>3. /\ RequestsInv' /\ ~Running(request'[r])
        /\ \A s \in Requests \ {r} : request'[s] = request[s]
    BY <1>1, <2>1, <2>2, Fails
  <2>4. LateInv'
    BY <2>3, LateKept
  <2>5. DeadInv'
    BY <1>1, <2>3, WitnessesKept
  <2>. QED  BY <2>3, <2>4, <2>5
<1>. QED  BY <1>3, <1>4

\* A stage begins.
LEMMA Begins ==
  ASSUME IInv, NEW r \in Requests, request[r].duties = <<>>,
         NEW stages \in Seq(Whole),
         request' = [request EXCEPT ![r] = Begin(stages)],
         UNCHANGED <<known, client, session, logins, cooldown, dead, revived>>,
         late' = late \/ late' = [late EXCEPT ![r] = 0]
  PROVE  RequestsInv' /\ LateInv' /\ DeadInv'
PROOF
<1>. DEFINE new == Begin(stages)
<1>1. /\ RequestInv(new) /\ new.taken = NoClient
      /\ Running(new) => new.stages[1][1].do # "take"
  BY BeginKeeps
<1>. HIDE DEF new
<1>2. logins \in Nat /\ logins' \in Nat /\ logins <= logins' /\ new.taken <= logins'
  BY <1>1 DEF IInv, StoresInv, Logins, NoClient
<1>3. request' = [request EXCEPT ![r] = new]
  BY DEF new
<1>4. /\ RequestsInv' /\ request'[r] = new
      /\ \A s \in Requests \ {r} : request'[s] = request[s]
  BY <1>1, <1>2, <1>3, OthersKept
<1>5. DeadInv'
  BY <1>4, WitnessesKept DEF ClientDead, SessionDead
<1>6. LateInv'
  <2>1. late \in [Requests -> {0, 1}]
    BY DEF IInv, LateInv
  <2>2. /\ late' \in [Requests -> {0, 1}]
        /\ \A s \in Requests : late[s] = 0 => late'[s] = 0
    BY <2>1
  <2>3. ASSUME NEW s \in Requests,
               \/ cooldown' = 0
               \/ Running(request'[s]) /\ request'[s].stages[1][1].do = "take"
        PROVE  late[s] = 0
    BY <2>3, <1>1, <1>4 DEF IInv, LateInv
  <2>. QED  BY <2>2, <2>3 DEF LateInv
<1>. QED  BY <1>4, <1>5, <1>6

LEMMA StartKeeps ==
  ASSUME IInv, NEW r \in Requests, Start(r)
  PROVE  IInv'
PROOF
<1>1. PICK stages \in Operations : request' = [request EXCEPT ![r] = Begin(stages)]
  BY DEF Start
<1>2. stages \in Seq(Whole)
  BY OperationsSteps
<1>3. /\ UNCHANGED <<known, client, session, logins, status, cooldown, dead, revived>>
      /\ late' = [late EXCEPT ![r] = 0] /\ request[r].duties = <<>>
  BY DEF Start, store, Idle
<1>4. RequestsInv' /\ LateInv' /\ DeadInv'
  BY <1>1, <1>2, <1>3, Begins
<1>5. StoresInv'
  BY <1>3 DEF IInv, StoresInv
<1>. QED  BY <1>4, <1>5 DEF IInv

LEMMA ReportedKeeps ==
  ASSUME IInv, NEW r \in Requests, Reported(r)
  PROVE  IInv'
PROOF
<1>. DEFINE q == request[r]
<1>1. RequestInv(q) /\ q.report # "running"
  BY DEF IInv, RequestsInv, Reported
<1>2. q.stages # <<>> /\ q.duties = <<>>
  BY <1>1 DEF RequestInv, Staged, Idle
<1>3. /\ q.stages \in Seq(Rests) /\ Len(q.stages) \in Nat /\ Len(q.stages) >= 1
      /\ \A i \in 2..Len(q.stages) : q.stages[i] \in Whole
  BY <1>1, <1>2, Fields DEF RequestInv, Staged
<1>4. PICK stages \in Seq(Whole) : request' = [request EXCEPT ![r] = Begin(stages)]
  <2>1. CASE Len(q.stages) = 1
    <3>1. Begin(<<>>) = Idle
      <4>1. Idle \in Request /\ Idle.stages = <<>>
        BY IdleIsRight DEF RequestInv, Idle
      <4>. QED  BY <4>1 DEF Begin, Request
    <3>2. request' = [request EXCEPT ![r] = Idle]
      BY <2>1 DEF Reported
    <3>3. <<>> \in Seq(Whole)
      OBVIOUS
    <3>. QED  BY <3>1, <3>2, <3>3
  <2>2. CASE Len(q.stages) # 1
    <3>. DEFINE rest == Tail(q.stages)
    <3>1. /\ rest \in Seq(Rests) /\ Len(rest) = Len(q.stages) - 1
          /\ \A i \in 1..Len(rest) : rest[i] = q.stages[i + 1]
      BY <1>2, <1>3
    <3>2. \A i \in 1..Len(rest) : rest[i] \in Whole
      BY <1>3, <3>1
    <3>. HIDE DEF rest
    <3>3. Len(rest) \in Nat /\ rest = [i \in 1..Len(rest) |-> rest[i]]
      BY <1>3, <3>1
    <3>4. rest \in Seq(Whole)
      BY <3>2, <3>3
    <3>5. request' = [request EXCEPT ![r] = Begin(rest)]
      BY <2>2 DEF Reported, rest
    <3>. QED  BY <3>4, <3>5
  <2>. QED  BY <2>1, <2>2
<1>5. UNCHANGED <<known, client, session, logins, status, cooldown, dead, revived,
                  late>>
  BY DEF Reported, store
<1>6. RequestsInv' /\ LateInv' /\ DeadInv'
  BY <1>2, <1>4, <1>5, Begins
<1>7. StoresInv'
  BY <1>5 DEF IInv, StoresInv
<1>. QED  BY <1>6, <1>7 DEF IInv

\* The checks, the public reads and the status after a verification.
LEMMA ChecksKeep ==
  ASSUME IInv, NEW r \in Requests,
         \/ CheckArgument(r) \/ CheckAccount(r) \/ CheckClient(r) \/ CheckRateLimit(r)
         \/ PublicCall(r) \/ SetVerified(r) \/ Announce(r)
  PROVE  IInv'
PROOF
<1>1. UNCHANGED <<known, client, session, logins, cooldown, dead, revived, late>>
  BY DEF CheckArgument, CheckAccount, CheckClient, CheckRateLimit, PublicCall,
         SetVerified, Announce, store
<1>2. status' \in {status, "active", "logging_in"}
  BY DEF CheckArgument, CheckAccount, CheckClient, CheckRateLimit, PublicCall,
         SetVerified, Announce, store
<1>3. PICK what \in Does \ {"take", "login"} :
        /\ Ready(r, what)
        /\ \/ Pass(r) /\ (what = "cooldown" => cooldown = 0)
           \/ Refuse(r)
  <2>1. {"argument", "account", "client", "cooldown", "public", "verified", "announce"}
          \subseteq Does \ {"take", "login"}
    BY DEF Does
  <2>. QED  BY <2>1 DEF CheckArgument, CheckAccount, CheckClient, CheckRateLimit,
                     PublicCall, SetVerified, Announce
<1>4. (ClientDead' => ClientDead) /\ (SessionDead' => SessionDead)
  BY <1>1 DEF ClientDead, SessionDead
<1>5. RequestsInv' /\ LateInv' /\ DeadInv'
  BY <1>1, <1>3, <1>4, PassOrRefuse
<1>6. StoresInv'
  BY <1>1, <1>2 DEF IInv, StoresInv, Statuses
<1>. QED  BY <1>5, <1>6 DEF IInv

\* A client is taken at most once during a cooldown: only a look that found none
\* leads to the taking.
LEMMA TakeClientKeeps ==
  ASSUME IInv, NEW r \in Requests, TakeClient(r)
  PROVE  IInv'
PROOF
<1>1. /\ UNCHANGED <<known, client, session, logins, status, cooldown, dead, revived>>
      /\ Ready(r, "take")
  BY DEF TakeClient, store
<1>2. StoresInv'
  BY <1>1 DEF IInv, StoresInv
<1>a. (ClientDead' => ClientDead) /\ (SessionDead' => SessionDead)
  BY <1>1 DEF ClientDead, SessionDead
<1>3. CASE client = NoClient
  <2>1. Refuse(r) /\ late' = late
    BY <1>3 DEF TakeClient
  <2>. QED  BY <1>1, <1>2, <1>a, <2>1, PassOrRefuse DEF IInv
<1>4. CASE client # NoClient
  <2>. DEFINE old == request[r]
              q == [old EXCEPT !.taken = client]
  <2>1. /\ old \in Request /\ old.stages # <<>> /\ old.report = "running"
        /\ old.duties = <<>> /\ old.missed \subseteq Unseen /\ Running(old)
        /\ old.stages[1] \in Rests /\ old.stages[1][1].do = "take"
        /\ old.wrote => \A i \in 1..Len(old.stages[1]) : Follows(old.stages[1][i])
    BY <1>1, ReadyFacts
  <2>2. client \in Logins \cup {NoClient} /\ client <= logins
    <3>1. logins \in 1..(1 + MaxLogins) /\ client \in 0..logins
      BY DEF IInv, StoresInv, Logins
    <3>. QED  BY <3>1, CallsAssumption DEF Logins, NoClient
  <2>3. q \in Request
    BY <2>1, <2>2 DEF Request
  <2>4. /\ q.stages = old.stages /\ q.report = "running" /\ q.duties = <<>>
        /\ q.missed \subseteq Unseen /\ q.wrote = old.wrote /\ q.taken = client
    BY <2>1 DEF Request
  <2>5. /\ request' = [request EXCEPT ![r] = Passed(q)]
        /\ late' = IF cooldown = 0 THEN late ELSE [late EXCEPT ![r] = @ + 1]
    BY <1>4 DEF TakeClient
  <2>. HIDE DEF q
  <2>6. q.wrote => \A i \in 2..Len(q.stages[1]) : Follows(q.stages[1][i])
    BY <2>1, <2>4, RestOfStage
  <2>7. /\ RequestsInv'
        /\ \A s \in Requests \ {r} : request'[s] = request[s]
        /\ Running(request'[r]) /\ request'[r].stages[1][1].do = "take" => cooldown = 0
    <3>1. ~(q.taken = NoClient) /\ "take" # "cooldown"
      BY <1>4, <2>4
    <3>2. logins' \in Nat /\ logins <= logins' /\ q.taken <= logins'
      BY <1>1, <2>2, <2>4 DEF IInv, StoresInv, Logins
    <3>. QED  BY <1>1, <2>3, <2>4, <2>5, <2>6, <3>1, <3>2, GoesOn
  <2>8. DeadInv'
    BY <1>a, <2>1, <2>7, WitnessesKept
  <2>9. LateInv'
    <3>1. late \in [Requests -> {0, 1}] /\ late[r] = 0
      BY <2>1 DEF IInv, LateInv
    <3>2. late' \in [Requests -> {0, 1}] /\ \A s \in Requests \ {r} : late'[s] = late[s]
      BY <2>5, <3>1
    <3>3. cooldown = 0 => late' = late
      BY <2>5
    <3>4. ASSUME NEW s \in Requests,
                 \/ cooldown' = 0
                 \/ Running(request'[s]) /\ request'[s].stages[1][1].do = "take"
          PROVE  late'[s] = 0
      <4>1. CASE s = r
        BY <4>1, <3>4, <3>1, <3>3, <1>1, <2>7
      <4>2. CASE s # r
        BY <4>2, <3>4, <3>2, <1>1, <2>7 DEF IInv, LateInv
      <4>. QED  BY <4>1, <4>2
    <3>. QED  BY <3>2, <3>4 DEF LateInv
  <2>. QED  BY <1>2, <2>7, <2>8, <2>9 DEF IInv
<1>. QED  BY <1>3, <1>4

\* Who calls has the client of a login, and who uses a session has loaded one.
LEMMA CallsHaveClient ==
  ASSUME IInv, NEW r \in Requests,
         NEW what \in {"read", "write", "try", "blind", "save", "install"},
         Ready(r, what)
  PROVE  request[r].taken \in 1..logins
PROOF
<1>. DEFINE old == request[r]
<1>1. /\ old \in Request /\ old.stages[1] \in Rests /\ old.stages[1][1].do = what
      /\ old.taken = NoClient => TakesBeforeCalls(old.stages[1])
      /\ old.taken <= logins
  BY ReadyFacts
<1>. HIDE DEF old
<1>2. Len(old.stages[1]) \in Nat /\ Len(old.stages[1]) >= 1
  BY <1>1, RestOfStage
<1>3. 1 \in 1..Len(old.stages[1]) /\ Calls(old.stages[1][1])
  BY <1>1, <1>2 DEF Calls
<1>4. ~TakesBeforeCalls(old.stages[1])
  <2>1. SUFFICES ASSUME TakesBeforeCalls(old.stages[1])
                 PROVE  FALSE
    OBVIOUS
  <2>2. PICK j \in 1..Len(old.stages[1]) : j < 1
    BY <1>3, <2>1 DEF TakesBeforeCalls
  <2>. QED  BY <1>2, <2>2
<1>5. old.taken \in Logins \cup {NoClient}
  BY <1>1, Fields
<1>. QED  BY <1>1, <1>4, <1>5, CallsAssumption
     DEF Logins, IInv, StoresInv, NoClient, old

\* A call that works, and one nobody sees was refused: after a change nothing but
\* reads and the look at the answer is left.
LEMMA CallGoesOn ==
  ASSUME IInv, NEW r \in Requests, NEW what \in {"read", "write", "try", "blind"},
         Ready(r, what), NEW q \in Request,
         q.stages = request[r].stages, q.report = "running", q.duties = <<>>,
         q.taken = request[r].taken, q.missed \subseteq Unseen,
         q.wrote => request[r].wrote \/ Writes(StepOf(request[r])),
         request' = [request EXCEPT ![r] = Passed(q)],
         UNCHANGED <<store, late>>
  PROVE  IInv'
PROOF
<1>. DEFINE old == request[r]
<1>1. UNCHANGED <<known, client, session, logins, status, cooldown, dead, revived, late>>
  BY DEF store
<1>2. /\ old \in Request /\ old.duties = <<>>
      /\ old.stages[1] \in Rests /\ StepOf(old) = old.stages[1][1]
      /\ old.wrote => \A i \in 1..Len(old.stages[1]) : Follows(old.stages[1][i])
      /\ old.taken <= logins
  BY ReadyFacts DEF NextStep
<1>3. q.wrote => \A i \in 2..Len(q.stages[1]) : Follows(q.stages[1][i])
  <2>1. Len(old.stages[1]) \in Nat /\ Len(old.stages[1]) >= 1
    BY <1>2, RestOfStage
  <2>2. CASE old.wrote
    BY <1>2, <2>1, <2>2
  <2>3. CASE Writes(old.stages[1][1])
    <3>1. \A i \in 2..Len(old.stages[1]) : FollowsWrite(old.stages[1], 1, i)
      BY <1>2, <2>1 DEF Rests
    <3>. QED  BY <2>3, <3>1 DEF FollowsWrite
  <2>. QED  BY <1>2, <2>2, <2>3
<1>4. q.taken # NoClient
  BY CallsHaveClient DEF NoClient
<1>5. what # "cooldown"
  OBVIOUS
<1>6. logins' \in Nat /\ logins <= logins' /\ q.taken <= logins'
  BY <1>1, <1>2 DEF IInv, StoresInv, Logins
<1>7. /\ RequestsInv'
      /\ \A s \in Requests \ {r} : request'[s] = request[s]
      /\ Running(request'[r]) /\ request'[r].stages[1][1].do = "take" => cooldown = 0
  BY <1>3, <1>4, <1>5, <1>6, GoesOn
<1>8. (ClientDead' => ClientDead) /\ (SessionDead' => SessionDead)
  BY <1>1 DEF ClientDead, SessionDead
<1>9. LateInv' /\ DeadInv'
  BY <1>1, <1>2, <1>7, <1>8, LateKept, WitnessesKept
<1>10. StoresInv'
  BY <1>1 DEF IInv, StoresInv
<1>. QED  BY <1>7, <1>9, <1>10 DEF IInv

LEMMA CallWorksKeeps ==
  ASSUME IInv, NEW r \in Requests, CallWorks(r)
  PROVE  IInv'
PROOF
<1>. DEFINE old == request[r]
            q == [old EXCEPT !.wrote = @ \/ Writes(StepOf(old))]
<1>1. PICK what \in {"read", "write", "try", "blind"} : Ready(r, what)
  BY DEF CallWorks
<1>2. UNCHANGED <<store, late>> /\ request' = [request EXCEPT ![r] = Passed(q)]
  BY DEF CallWorks, Worked
<1>3. /\ old \in Request /\ old.report = "running" /\ old.duties = <<>>
      /\ old.missed \subseteq Unseen
  BY <1>1, ReadyFacts
<1>4. (old.wrote \/ Writes(StepOf(old))) \in BOOLEAN
  OBVIOUS
<1>5. q \in Request
  BY <1>3, <1>4 DEF Request
<1>6. /\ q.stages = old.stages /\ q.report = "running" /\ q.duties = <<>>
      /\ q.missed \subseteq Unseen /\ q.taken = old.taken
  BY <1>3 DEF Request
<1>7. q.wrote => old.wrote \/ Writes(StepOf(old))
  BY <1>3, Zenon DEF Request
<1>. HIDE DEF q
<1>. QED  BY <1>1, <1>2, <1>5, <1>6, <1>7, CallGoesOn

LEMMA RefusedUnseenKeeps ==
  ASSUME IInv, NEW r \in Requests, RefusedUnseen(r)
  PROVE  IInv'
PROOF
<1>. DEFINE old == request[r]
            q == Missed(old)
<1>1. Ready(r, "blind") /\ "blind" \in {"read", "write", "try", "blind"}
  BY DEF RefusedUnseen
<1>2. UNCHANGED <<store, late>> /\ request' = [request EXCEPT ![r] = Passed(q)]
  BY DEF RefusedUnseen
<1>3. /\ old \in Request /\ old.report = "running" /\ old.duties = <<>>
      /\ old.missed \subseteq Unseen /\ StepOf(old).do = "blind"
  BY <1>1, ReadyFacts DEF NextStep
<1>4. old.missed \cup {what \in {StepOf(old).do} : Writes(StepOf(old))} \subseteq Unseen
  BY <1>3 DEF Unseen
<1>5. /\ q \in Request /\ q.stages = old.stages /\ q.report = "running"
      /\ q.duties = <<>> /\ q.missed \subseteq Unseen /\ q.taken = old.taken
      /\ q.wrote = old.wrote
  BY <1>3, <1>4 DEF Missed, Request, Unseen
<1>. HIDE DEF q
<1>. QED  BY <1>1, <1>2, <1>5, CallGoesOn

\* A refused change is reported as such.
LEMMA CallRefusedKeeps ==
  ASSUME IInv, NEW r \in Requests, CallRefused(r)
  PROVE  IInv'
PROOF
<1>. DEFINE old == request[r]
            q == Missed(old)
            new == Report(q, "unsuccessful")
<1>1. /\ UNCHANGED <<known, client, session, logins, status, cooldown, dead, revived,
                     late>>
      /\ request' = [request EXCEPT ![r] = new] /\ Ready(r, "try")
  BY DEF CallRefused, store
<1>2. /\ old \in Request /\ old.stages # <<>> /\ old.duties = <<>>
      /\ \A i \in 2..Len(old.stages) : old.stages[i] \in Whole
      /\ old.stages[1] \in Rests /\ old.stages[1][1].do = "try"
      /\ StepOf(old) = old.stages[1][1]
      /\ old.wrote => \A i \in 1..Len(old.stages[1]) : Follows(old.stages[1][i])
  BY <1>1, ReadyFacts DEF NextStep
<1>3. ~old.wrote
  <2>1. Len(old.stages[1]) \in Nat /\ Len(old.stages[1]) >= 1
    BY <1>2, RestOfStage
  <2>2. 1 \in 1..Len(old.stages[1])
    BY <2>1
  <2>. QED  BY <1>2, <2>2 DEF Follows
<1>a. old.missed \cup {what \in {StepOf(old).do} : Writes(StepOf(old))}
        \subseteq {"write", "try", "blind"}
  BY <1>2, Fields
<1>4. /\ q \in Request /\ q.stages = old.stages /\ q.duties = <<>>
      /\ q.wrote = old.wrote
  BY <1>2, <1>a DEF Missed, Request
<1>. HIDE DEF q
<1>5. /\ RequestInv(new) /\ new.taken = NoClient /\ ~Running(new)
  BY <1>2, <1>3, <1>4, ReportKeeps
<1>. HIDE DEF new
<1>6. logins \in Nat /\ logins' \in Nat /\ logins <= logins' /\ new.taken <= logins'
  BY <1>1, <1>5 DEF IInv, StoresInv, Logins, NoClient
<1>7. /\ RequestsInv' /\ request'[r] = new
      /\ \A s \in Requests \ {r} : request'[s] = request[s]
  BY <1>1, <1>5, <1>6, OthersKept
<1>b. (ClientDead' => ClientDead) /\ (SessionDead' => SessionDead)
  BY <1>1 DEF ClientDead, SessionDead
<1>8. LateInv' /\ DeadInv'
  BY <1>1, <1>2, <1>5, <1>7, <1>b, LateKept, WitnessesKept
<1>9. StoresInv'
  BY <1>1 DEF IInv, StoresInv
<1>. QED  BY <1>7, <1>8, <1>9 DEF IInv

\* What is to be done about a failure: a session that ended is dropped first and
\* forgotten as the third thing, and nothing is dropped for a transient failure.
LEMMA DutiesFit ==
  ASSUME NEW failure, Decided(failure), NEW onFailure
  PROVE  LET duties == DutiesOf(failure, onFailure)
         IN  /\ duties \in Seq(Duties)
             /\ \A i \in 1..Len(duties) :
                  /\ duties[i] \in {"drop", "forget"} => ~failure.transient
                  /\ duties[i] = "demote" => failure.status # "keep"
             /\ failure.dead =>
                  Len(duties) >= 3 /\ duties[1] = "drop" /\ duties[3] = "forget"
PROOF
<1>. DEFINE fitting ==
              {duty \in Duties :
                 /\ duty \in {"drop", "forget"} => ~failure.transient
                 /\ duty = "demote" => failure.status # "keep"}
            limit == IF failure.cooldown > 0 THEN <<"limit">> ELSE <<>>
            evict == IF failure.dead THEN <<"drop", "error", "forget">> ELSE <<>>
            demote == IF failure.status = "keep" THEN <<>>
                      ELSE CASE onFailure = "demote" -> <<"demote", "drop">>
                             [] onFailure = "status" -> <<"demote">>
                             [] OTHER -> <<>>
            both == limit \o evict
            duties == both \o demote
<1>1. DutiesOf(failure, onFailure) = duties
  BY DEF DutiesOf
<1>2. {"limit", "error"} \subseteq fitting
  BY DEF Duties
<1>3. limit \in Seq(fitting)
  <2>. HIDE DEF fitting
  <2>1. CASE failure.cooldown > 0
    <3>1. limit = <<"limit">> /\ "limit" \in fitting
      BY <1>2, <2>1
    <3>. QED  BY <3>1
  <2>2. CASE ~(failure.cooldown > 0)
    BY <2>2
  <2>. QED  BY <2>1, <2>2
<1>4. failure.dead => {"drop", "error", "forget"} \subseteq fitting
  BY <1>2 DEF Decided, Duties
<1>5. evict \in Seq(fitting)
  <2>. HIDE DEF fitting
  <2>1. CASE failure.dead
    <3>1. evict = <<"drop", "error", "forget">>
      BY <2>1
    <3>2. {"drop", "error", "forget"} \subseteq fitting
      BY <1>4, <2>1
    <3>. QED  BY <3>1, <3>2
  <2>2. CASE ~failure.dead
    BY <2>2
  <2>. QED  BY <2>1, <2>2
<1>6. failure.status # "keep" => {"demote", "drop"} \subseteq fitting
  BY DEF Decided, Duties
<1>7. demote \in Seq(fitting)
  <2>. HIDE DEF fitting
  <2>1. CASE failure.status # "keep" /\ onFailure = "demote"
    <3>1. demote = <<"demote", "drop">>
      BY <2>1
    <3>2. {"demote", "drop"} \subseteq fitting
      BY <1>6, <2>1
    <3>. QED  BY <3>1, <3>2
  <2>2. CASE failure.status # "keep" /\ onFailure = "status"
    <3>1. demote = <<"demote">>
      BY <2>2
    <3>2. {"demote", "drop"} \subseteq fitting
      BY <1>6, <2>2
    <3>. QED  BY <3>1, <3>2
  <2>3. CASE failure.status = "keep"
    <3>1. demote = <<>>
      BY <2>3
    <3>. QED  BY <3>1
  <2>4. CASE failure.status # "keep" /\ onFailure \notin {"demote", "status"}
    <3>1. demote = <<>>
      BY <2>4
    <3>. QED  BY <3>1
  <2>. QED  BY <2>1, <2>2, <2>3, <2>4
<1>8. failure.dead => /\ limit = <<>> /\ Len(evict) = 3
                      /\ evict[1] = "drop" /\ evict[3] = "forget"
  BY DEF Decided
<1>. HIDE DEF fitting, limit, evict, demote
<1>9. both \in Seq(fitting)
  BY <1>3, <1>5
<1>10. failure.dead => Len(both) = 3 /\ both[1] = "drop" /\ both[3] = "forget"
  <2>1. failure.dead => Len(limit) = 0
    BY <1>8
  <2>. QED  BY <1>3, <1>5, <1>8, <2>1
<1>. HIDE DEF both
<1>11. duties \in Seq(fitting)
  BY <1>7, <1>9
<1>12. failure.dead => Len(duties) >= 3 /\ duties[1] = "drop" /\ duties[3] = "forget"
  BY <1>7, <1>9, <1>10
<1>. HIDE DEF duties
<1>13. \A i \in 1..Len(duties) : duties[i] \in fitting
  BY <1>11
<1>14. duties \in Seq(Duties)
  BY <1>11 DEF fitting
<1>15. \A i \in 1..Len(duties) :
         /\ duties[i] \in {"drop", "forget"} => ~failure.transient
         /\ duties[i] = "demote" => failure.status # "keep"
  <2>1. \A duty \in fitting : /\ duty \in {"drop", "forget"} => ~failure.transient
                              /\ duty = "demote" => failure.status # "keep"
    BY DEF fitting
  <2>. QED  BY <1>13, <2>1
<1>. QED  BY <1>1, <1>12, <1>14, <1>15

\* A step that fails: a session seen to have ended has what drops it and forgets it.
LEMMA FailedKeeps ==
  ASSUME IInv, NEW r \in Requests, NEW what \in Does \ {"take"}, Ready(r, what),
         NEW old \in Request, old.stages = request[r].stages, old.report = "running",
         old.wrote = request[r].wrote,
         NEW failure \in F!FailureClasses \cup {F!Unknown},
         request' = [request EXCEPT ![r] = Failed(old, failure)],
         UNCHANGED <<logins, cooldown, late>>,
         ClientDead' => ClientDead \/ failure.dead,
         SessionDead' => SessionDead \/ failure.dead
  PROVE  RequestsInv' /\ LateInv' /\ DeadInv'
PROOF
<1>. DEFINE missed == Missed(old)
            ended == Ended(missed)
            duties == DutiesOf(failure, StepOf(old).onFailure)
            q == [ended EXCEPT !.failure = failure, !.duties = duties]
<1>1. /\ old.stages # <<>> /\ request[r].duties = <<>>
      /\ \A i \in 2..Len(old.stages) : old.stages[i] \in Whole
      /\ old.stages[1] \in Rests /\ old.stages[1][1].do = what
      /\ old.stages[1] = request[r].stages[1]
      /\ StepOf(old) = old.stages[1][1]
      /\ old.wrote => \A i \in 1..Len(old.stages[1]) : Follows(old.stages[1][i])
  BY ReadyFacts DEF NextStep, StepOf
<1>2. old.missed \cup {done \in {StepOf(old).do} : Writes(StepOf(old))}
        \subseteq {"write", "try", "blind"}
  BY Fields DEF Writes
<1>3. /\ missed \in Request /\ missed.stages = old.stages
      /\ missed.report = "running" /\ missed.wrote = old.wrote
  BY <1>2 DEF Missed, Request
<1>4. Decided(failure)
  BY DecisionsAreConsistent
<1>5. /\ duties \in Seq(Duties)
      /\ \A i \in 1..Len(duties) :
           /\ duties[i] \in {"drop", "forget"} => ~failure.transient
           /\ duties[i] = "demote" => failure.status # "keep"
      /\ failure.dead => Len(duties) >= 3 /\ duties[1] = "drop" /\ duties[3] = "forget"
  BY <1>4, DutiesFit
<1>6. request' = [request EXCEPT ![r] = Told(q)]
  BY DEF Failed
<1>. HIDE DEF missed, duties
<1>7. /\ ended \in Request /\ ended.stages # <<>>
      /\ Len(ended.stages) = Len(old.stages)
      /\ ended.stages[1] = <<old.stages[1][1]>>
      /\ \A i \in 2..Len(old.stages) : ended.stages[i] = old.stages[i]
      /\ ended.taken = NoClient /\ ended.report = "running" /\ ended.wrote = old.wrote
  BY <1>1, <1>3, EndedKeeps
<1>. HIDE DEF ended
<1>8. /\ q \in Request /\ q.stages = ended.stages /\ q.report = "running"
      /\ q.taken = NoClient /\ q.wrote = old.wrote /\ q.duties = duties
      /\ q.failure = failure
  BY <1>5, <1>7 DEF Request
<1>. HIDE DEF q
<1>9. Suited(q)
  BY <1>5, <1>8 DEF Suited
<1>a. q.stages # <<>> /\ q.stages[1][1] = request[r].stages[1][1]
  BY <1>1, <1>7, <1>8
<1>b. \A i \in 2..Len(q.stages) : q.stages[i] \in Whole
  BY <1>1, <1>7, <1>8
<1>c. q.wrote => \A i \in 1..Len(q.stages[1]) : Follows(q.stages[1][i])
  <2>1. 1 \in 1..Len(old.stages[1])
    <3>1. Len(old.stages[1]) \in Nat /\ Len(old.stages[1]) >= 1
      BY <1>1, RestOfStage
    <3>. QED  BY <3>1
  <2>2. old.wrote => Follows(old.stages[1][1])
    BY <1>1, <2>1
  <2>3. q.stages[1] = <<old.stages[1][1]>>
    BY <1>7, <1>8
  <2>4. Len(<<old.stages[1][1]>>) = 1 /\ <<old.stages[1][1]>>[1] = old.stages[1][1]
    OBVIOUS
  <2>5. ASSUME q.wrote, NEW i \in 1..Len(q.stages[1])  PROVE Follows(q.stages[1][i])
    <3>1. i = 1
      BY <2>3, <2>4
    <3>. QED  BY <1>8, <2>2, <2>3, <2>4, <2>5, <3>1
  <2>. QED  BY <2>5
<1>d. q.taken <= logins
  BY <1>8 DEF IInv, StoresInv, Logins, NoClient
<1>10. /\ RequestsInv' /\ request'[r].duties = duties
       /\ \A s \in Requests \ {r} : request'[s] = request[s]
       /\ Running(request'[r]) => request'[r].stages[1][1] = request[r].stages[1][1]
  BY <1>6, <1>8, <1>9, <1>a, <1>b, <1>c, <1>d, Fails
<1>11. LateInv'
  <2>1. Running(request'[r]) /\ request'[r].stages[1][1].do = "take" => cooldown = 0
    BY <1>1, <1>10
  <2>. QED  BY <1>10, <2>1, LateKept
<1>12. DeadInv'
  <2>1. CASE failure.dead
    <3>1. WillDrop(request'[r]) /\ WillForget(request'[r])
      <4>1. Len(duties) \in Nat
        BY <1>5
      <4>. QED  BY <1>5, <1>10, <2>1, <4>1 DEF WillDrop, WillForget
    <3>. QED  BY <3>1 DEF DeadInv
  <2>2. CASE ~failure.dead
    BY <1>1, <1>10, <2>2, WitnessesKept
  <2>. QED  BY <2>1, <2>2
<1>. QED  BY <1>10, <1>11, <1>12

\* A call that fails, perhaps because the session it was made with has ended.
LEMMA CallFailsKeeps ==
  ASSUME IInv, NEW r \in Requests, CallFails(r)
  PROVE  IInv'
PROOF
<1>. DEFINE old == request[r]
<1>1. PICK what \in {"read", "write", "try", "blind"} : Ready(r, what)
  BY DEF CallFails
<1>2. PICK failure \in F!FailureClasses :
        /\ dead' = IF failure.dead THEN dead \cup {old.taken} ELSE dead
        /\ revived' = IF failure.dead THEN revived \ {old.taken} ELSE revived
        /\ request' = [request EXCEPT ![r] = Failed(old, failure)]
  BY DEF CallFails
<1>3. UNCHANGED <<known, client, session, logins, status, cooldown, late>>
  BY DEF CallFails
<1>4. old \in Request /\ old.report = "running"
  BY <1>1, ReadyFacts
<1>5. what \in Does \ {"take"}
  BY DEF Does
<1>6. /\ ClientDead' => ClientDead \/ failure.dead
      /\ SessionDead' => SessionDead \/ failure.dead
  BY <1>2, <1>3 DEF ClientDead, SessionDead
<1>7. RequestsInv' /\ LateInv' /\ DeadInv'
  BY <1>1, <1>2, <1>3, <1>4, <1>5, <1>6, FailedKeeps
<1>8. old.taken \in 1..logins
  BY <1>1, CallsHaveClient
<1>9. dead' \subseteq 1..logins /\ revived' \subseteq 1..logins
  BY <1>2, <1>8 DEF IInv, StoresInv
<1>10. StoresInv'
  BY <1>3, <1>9 DEF IInv, StoresInv
<1>. QED  BY <1>7, <1>10 DEF IInv

\* The look at the answer to a change that was made.
LEMMA ReadAnswerKeeps ==
  ASSUME IInv, NEW r \in Requests, ReadAnswer(r)
  PROVE  IInv'
PROOF
<1>1. /\ UNCHANGED <<known, client, session, logins, status, cooldown, dead, revived,
                     late>>
      /\ Ready(r, "answer")
  BY DEF ReadAnswer, store
<1>2. (ClientDead' => ClientDead) /\ (SessionDead' => SessionDead)
  BY <1>1 DEF ClientDead, SessionDead
<1>3. StoresInv'
  BY <1>1 DEF IInv, StoresInv
<1>4. CASE Pass(r)
  BY <1>1, <1>2, <1>3, <1>4, PassOrRefuse DEF IInv
<1>5. CASE request' = [request EXCEPT ![r] = Failed(request[r], F!Unknown)]
  <2>1. "answer" \in Does \ {"take"}
    BY DEF Does
  <2>2. request[r] \in Request /\ request[r].report = "running"
    BY <1>1, ReadyFacts
  <2>3. RequestsInv' /\ LateInv' /\ DeadInv'
    BY <1>1, <1>2, <1>5, <2>1, <2>2, FailedKeeps
  <2>. QED  BY <1>3, <2>3 DEF IInv
<1>. QED  BY <1>4, <1>5 DEF ReadAnswer

-----------------------------------------------------------------------------
(* A relogin                                                               *)

LEMMA DiscardKeeps ==
  ASSUME IInv, NEW r \in Requests, Discard(r)
  PROVE  IInv'
PROOF
<1>1. /\ Ready(r, "discard") /\ Pass(r) /\ client' = NoClient
      /\ UNCHANGED <<known, session, logins, status, cooldown, dead, revived, late>>
  BY DEF Discard
<1>2. dead \subseteq 1..logins
  BY DEF IInv, StoresInv
<1>3. (ClientDead' => ClientDead) /\ (SessionDead' => SessionDead)
  BY <1>1, <1>2 DEF ClientDead, SessionDead, NoClient
<1>4. RequestsInv' /\ LateInv' /\ DeadInv'
  BY <1>1, <1>3, PassOrRefuse
<1>5. StoresInv'
  BY <1>1 DEF IInv, StoresInv, Logins, NoClient
<1>. QED  BY <1>4, <1>5 DEF IInv

\* The request has the login that was loaded or made.
LEMMA LoggedInKeeps ==
  ASSUME IInv, NEW r \in Requests, Ready(r, "login"), NEW login \in 1..logins',
         logins' \in Logins, logins <= logins',
         request' = [request EXCEPT ![r] = LoggedIn(request[r], login)],
         UNCHANGED <<known, client, session, status, cooldown, dead, revived, late>>
  PROVE  IInv'
PROOF
<1>. DEFINE old == request[r]
            q == [old EXCEPT !.taken = login, !.attempts = 0]
<1>1. /\ old \in Request /\ old.report = "running" /\ old.duties = <<>>
      /\ old.missed \subseteq Unseen /\ old.stages[1] \in Rests
      /\ old.wrote => \A i \in 1..Len(old.stages[1]) : Follows(old.stages[1][i])
  BY ReadyFacts
<1>2. logins' \in 1..(1 + MaxLogins) /\ logins' \in Nat /\ logins \in Nat
  BY CallsAssumption DEF Logins, IInv, StoresInv
<1>3. login \in Logins /\ login # NoClient /\ login <= logins'
  BY <1>2, CallsAssumption DEF Logins, NoClient
<1>a. 0 \in 0..(MaxAttempts - 1)
  BY DEF MaxAttempts
<1>b. q \in Request
  BY <1>1, <1>3, <1>a DEF Request
<1>4. /\ q.stages = old.stages /\ q.report = "running"
      /\ q.duties = <<>> /\ q.missed \subseteq Unseen /\ q.wrote = old.wrote
      /\ q.taken = login
  BY <1>1 DEF Request
<1>5. request' = [request EXCEPT ![r] = Passed(q)]
  BY DEF LoggedIn
<1>. HIDE DEF q
<1>6. q.wrote => \A i \in 2..Len(q.stages[1]) : Follows(q.stages[1][i])
  BY <1>1, <1>4, RestOfStage
<1>7. /\ RequestsInv'
      /\ \A s \in Requests \ {r} : request'[s] = request[s]
      /\ Running(request'[r]) /\ request'[r].stages[1][1].do = "take" => cooldown = 0
  <2>1. "login" # "cooldown" /\ q.taken # NoClient /\ q.taken <= logins'
    BY <1>3, <1>4
  <2>. QED  BY <1>2, <1>4, <1>5, <1>6, <1>b, <2>1, GoesOn
<1>8. (ClientDead' => ClientDead) /\ (SessionDead' => SessionDead)
  BY DEF ClientDead, SessionDead
<1>9. LateInv' /\ DeadInv'
  BY <1>1, <1>7, <1>8, LateKept, WitnessesKept
<1>10. StoresInv'
  <2>1. 0..logins \subseteq 0..logins' /\ 1..logins \subseteq 1..logins'
    BY <1>2
  <2>. QED  BY <2>1 DEF IInv, StoresInv
<1>. QED  BY <1>7, <1>9, <1>10 DEF IInv

LEMMA LoginsKeep ==
  ASSUME IInv, NEW r \in Requests, LoadSession(r) \/ LogInAgain(r)
  PROVE  IInv'
PROOF
<1>1. logins \in 1..(1 + MaxLogins) /\ session \in 0..logins
  BY DEF IInv, StoresInv, Logins
<1>2. CASE LoadSession(r)
  <2>1. /\ Ready(r, "login") /\ session # NoClient
        /\ request' = [request EXCEPT ![r] = LoggedIn(request[r], session)]
        /\ UNCHANGED <<known, client, session, logins, status, cooldown, dead,
                       revived, late>>
    BY <1>2 DEF LoadSession, store
  <2>2. session \in 1..logins' /\ logins' \in Logins /\ logins <= logins'
    BY <1>1, <2>1, CallsAssumption DEF NoClient, Logins
  <2>. QED  BY <2>1, <2>2, LoggedInKeeps
<1>3. CASE LogInAgain(r)
  <2>1. /\ Ready(r, "login") /\ logins \in 1..MaxLogins /\ logins' = logins + 1
        /\ request' = [request EXCEPT ![r] = LoggedIn(request[r], logins')]
        /\ UNCHANGED <<known, client, session, status, cooldown, dead, revived, late>>
    BY <1>3 DEF LogInAgain
  <2>2. logins' \in 1..logins' /\ logins' \in Logins /\ logins <= logins'
    BY <2>1, CallsAssumption DEF Logins
  <2>. QED  BY <2>1, <2>2, LoggedInKeeps
<1>. QED  BY <1>2, <1>3

\* A cooldown that is extended stays within its bound.
LEMMA ExtendedKeeps ==
  ASSUME IInv, NEW half_hours \in 0..F!LongestCooldown
  PROVE  /\ Extended(half_hours) \in 0..F!LongestCooldown
         /\ Extended(half_hours) = 0 => cooldown = 0
PROOF
  BY DEF IInv, StoresInv, Extended, F!LongestCooldown

LEMMA LoginRetriedKeeps ==
  ASSUME IInv, NEW r \in Requests, LoginRetried(r)
  PROVE  IInv'
PROOF
<1>. DEFINE old == request[r]
            q == [old EXCEPT !.attempts = @ + 1]
<1>1. /\ Ready(r, "login") /\ old.attempts < MaxAttempts - 1
      /\ request' = [request EXCEPT ![r] = q]
      /\ UNCHANGED <<known, client, session, logins, status, dead, revived, late>>
  BY DEF LoginRetried
<1>2. PICK failure \in F!Failures : cooldown' = Extended(F!CooldownOf(failure))
  BY DEF LoginRetried
<1>3. F!CooldownOf(failure) \in 0..F!LongestCooldown
  <2>1. Decided(F!Class(failure))
    BY DecisionsAreConsistent DEF F!FailureClasses
  <2>2. F!Class(failure).cooldown = F!CooldownOf(failure)
    BY DEF F!Class
  <2>. QED  BY <2>1, <2>2 DEF Decided
<1>4. cooldown' \in 0..F!LongestCooldown /\ (cooldown' = 0 => cooldown = 0)
  BY <1>2, <1>3, ExtendedKeeps
<1>5. RequestInv(old) /\ old.taken <= logins
  BY DEF IInv, RequestsInv
<1>6. /\ old \in Request /\ old.stages # <<>> /\ old.duties = <<>> /\ Running(old)
      /\ old.stages[1][1].do = "login"
  BY <1>1, ReadyFacts
<1>7. old.attempts + 1 \in 0..(MaxAttempts - 1)
  BY <1>1, <1>6, Fields DEF MaxAttempts
<1>8. /\ q \in Request /\ q.stages = old.stages /\ q.taken = old.taken
      /\ q.failure = old.failure /\ q.duties = old.duties /\ q.report = old.report
      /\ q.wrote = old.wrote /\ q.missed = old.missed
  BY <1>6, <1>7 DEF Request
<1>. HIDE DEF q
<1>9. RequestInv(q) /\ q.taken <= logins'
  <2>1. Staged(q) /\ Honest(q) /\ Suited(q)
    BY <1>5, <1>6, <1>8 DEF RequestInv, Staged, Honest, Suited, Going, Running
  <2>. QED  BY <1>1, <1>5, <1>8, <2>1 DEF RequestInv
<1>10. logins \in Nat /\ logins' \in Nat /\ logins <= logins'
  BY <1>1 DEF IInv, StoresInv, Logins
<1>11. /\ RequestsInv' /\ request'[r] = q
       /\ \A s \in Requests \ {r} : request'[s] = request[s]
  BY <1>1, <1>9, <1>10, OthersKept
<1>12. (ClientDead' => ClientDead) /\ (SessionDead' => SessionDead)
  BY <1>1 DEF ClientDead, SessionDead
<1>13. request'[r].stages[1][1].do # "take"
  BY <1>6, <1>8, <1>11
<1>14. LateInv' /\ DeadInv'
  BY <1>1, <1>4, <1>6, <1>11, <1>12, <1>13, LateKept, WitnessesKept
<1>15. StoresInv'
  BY <1>1, <1>4 DEF IInv, StoresInv
<1>. QED  BY <1>11, <1>14, <1>15 DEF IInv

LEMMA LoginFailsKeeps ==
  ASSUME IInv, NEW r \in Requests, LoginFails(r)
  PROVE  IInv'
PROOF
<1>. DEFINE old == request[r]
            q == [old EXCEPT !.attempts = 0]
<1>1. /\ Ready(r, "login")
      /\ UNCHANGED <<known, client, session, logins, status, cooldown, dead, revived,
                     late>>
  BY DEF LoginFails, store
<1>2. PICK failure \in F!Failures :
        request' = [request EXCEPT ![r] = Failed(q, F!Class(failure))]
  BY DEF LoginFails
<1>3. F!Class(failure) \in F!FailureClasses
  BY DEF F!FailureClasses
<1>4. old \in Request /\ old.report = "running" /\ "login" \in Does \ {"take"}
  BY <1>1, ReadyFacts DEF Does
<1>5. /\ q \in Request /\ q.stages = old.stages /\ q.report = "running"
      /\ q.wrote = old.wrote
  BY <1>4 DEF Request, MaxAttempts
<1>. HIDE DEF q
<1>6. (ClientDead' => ClientDead) /\ (SessionDead' => SessionDead)
  BY <1>1 DEF ClientDead, SessionDead
<1>. DEFINE class == F!Class(failure)
<1>7. class \in F!FailureClasses /\ request' = [request EXCEPT ![r] = Failed(q, class)]
  BY <1>2, <1>3
<1>. HIDE DEF class
<1>8. RequestsInv' /\ LateInv' /\ DeadInv'
  BY <1>1, <1>4, <1>5, <1>6, <1>7, FailedKeeps
<1>9. StoresInv'
  BY <1>1 DEF IInv, StoresInv
<1>. QED  BY <1>8, <1>9 DEF IInv

\* The session that is saved or used is a dead one only as one that was put back.
LEMMA InstallsKeep ==
  ASSUME IInv, NEW r \in Requests, SaveSession(r) \/ Install(r)
  PROVE  IInv'
PROOF
<1>1. dead \subseteq 1..logins /\ revived \subseteq 1..logins
  BY DEF IInv, StoresInv
<1>2. CASE SaveSession(r)
  <2>1. /\ Ready(r, "save") /\ Pass(r) /\ session' = request[r].taken
        /\ revived' = revived \cup ({request[r].taken} \cap dead)
        /\ UNCHANGED <<known, client, logins, status, cooldown, dead, late>>
    BY <1>2 DEF SaveSession
  <2>2. (ClientDead' => ClientDead) /\ (SessionDead' => SessionDead)
    BY <2>1 DEF ClientDead, SessionDead
  <2>3. RequestsInv' /\ LateInv' /\ DeadInv'
    BY <2>1, <2>2, PassOrRefuse
  <2>4. request[r].taken \in 1..logins
    BY <2>1, CallsHaveClient
  <2>5. StoresInv'
    <3>1. {client', session'} \subseteq 0..logins'
      <4>1. {client, session} \subseteq 0..logins /\ request[r].taken \in 0..logins
        BY <2>4 DEF IInv, StoresInv
      <4>. QED  BY <2>1, <4>1
    <3>a. revived' \subseteq 1..logins'
      BY <1>1, <2>1, <2>4
    <3>. QED  BY <2>1, <3>1, <3>a DEF IInv, StoresInv
  <2>. QED  BY <2>3, <2>5 DEF IInv
<1>3. CASE Install(r)
  <2>1. /\ Ready(r, "install") /\ Pass(r) /\ client' = request[r].taken
        /\ revived' = revived \cup ({request[r].taken} \cap dead)
        /\ status' = "active"
        /\ UNCHANGED <<known, session, logins, cooldown, dead, late>>
    BY <1>3 DEF Install
  <2>2. (ClientDead' => ClientDead) /\ (SessionDead' => SessionDead)
    BY <2>1 DEF ClientDead, SessionDead
  <2>3. RequestsInv' /\ LateInv' /\ DeadInv'
    BY <2>1, <2>2, PassOrRefuse
  <2>4. request[r].taken \in 1..logins
    BY <2>1, CallsHaveClient
  <2>5. StoresInv'
    <3>1. {client', session'} \subseteq 0..logins'
      <4>1. {client, session} \subseteq 0..logins /\ request[r].taken \in 0..logins
        BY <2>4 DEF IInv, StoresInv
      <4>. QED  BY <2>1, <4>1
    <3>a. revived' \subseteq 1..logins'
      BY <1>1, <2>1, <2>4
    <3>2. status' \in Statuses
      BY <2>1 DEF Statuses
    <3>. QED  BY <2>1, <3>1, <3>a, <3>2 DEF IInv, StoresInv
  <2>. QED  BY <2>3, <2>5 DEF IInv
<1>. QED  BY <1>2, <1>3

-----------------------------------------------------------------------------
(* What is done about a failure                                            *)

\* Something is done about a failure: what comes after it moves up by one.
LEMMA Fulfils ==
  ASSUME IInv, NEW r \in Requests, NEW duty, Due(r, duty), Fulfil(r),
         logins' = logins, late' = late, cooldown' = 0 => cooldown = 0
  PROVE  /\ RequestsInv' /\ LateInv'
         /\ \A s \in Requests \ {r} : request'[s] = request[s]
         /\ WillDrop(request[r]) => duty = "drop"
         /\ WillForget(request[r]) /\ duty # "forget" => WillForget(request'[r])
PROOF
<1>. DEFINE old == request[r]
            duties == Tail(old.duties)
            q == [old EXCEPT !.duties = duties]
<1>1. /\ old \in Request /\ old.stages # <<>> /\ old.report = "running"
      /\ old.duties \in Seq(Duties) /\ Len(old.duties) \in Nat /\ Len(old.duties) >= 1
      /\ old.duties # <<>> /\ old.duties[1] = duty
      /\ \A i \in 2..Len(old.stages) : old.stages[i] \in Whole
      /\ Running(old) /\ Suited(old)
      /\ old.wrote => \A i \in 1..Len(old.stages[1]) : Follows(old.stages[1][i])
      /\ old.taken <= logins
  BY DueFacts
<1>2. /\ duties \in Seq(Duties) /\ Len(duties) = Len(old.duties) - 1
      /\ \A i \in 1..(Len(old.duties) - 1) : duties[i] = old.duties[i + 1]
  BY <1>1
<1>3. request' = [request EXCEPT ![r] = Told(q)]
  BY DEF Fulfil, Fulfilled
<1>. HIDE DEF duties
<1>4. /\ q \in Request /\ q.stages = old.stages /\ q.report = "running"
      /\ q.taken = old.taken /\ q.wrote = old.wrote /\ q.duties = duties
      /\ q.failure = old.failure
  BY <1>1, <1>2 DEF Request
<1>. HIDE DEF q
<1>5. Suited(q)
  <2>1. \A i \in 1..Len(duties) : i + 1 \in 1..Len(old.duties)
    BY <1>1, <1>2
  <2>. QED  BY <1>1, <1>2, <1>4, <2>1 DEF Suited
<1>6. /\ RequestsInv' /\ request'[r].duties = duties
      /\ \A s \in Requests \ {r} : request'[s] = request[s]
      /\ Running(request'[r]) => request'[r].stages[1][1] = old.stages[1][1]
  BY <1>1, <1>3, <1>4, <1>5, Fails
<1>7. LateInv'
  <2>1. ASSUME NEW s \in Requests,
               \/ cooldown' = 0
               \/ Running(request'[s]) /\ request'[s].stages[1][1].do = "take"
        PROVE  late[s] = 0
    <3>1. \/ cooldown = 0
          \/ Running(request[s]) /\ request[s].stages[1][1].do = "take"
      BY <2>1, <1>1, <1>6
    <3>. QED  BY <3>1 DEF IInv, LateInv
  <2>. QED  BY <2>1 DEF IInv, LateInv
<1>8. ASSUME WillForget(old), duty # "forget"
      PROVE  WillForget(request'[r])
  <2>1. PICK i \in 1..3 : i <= Len(old.duties) /\ old.duties[i] = "forget"
    BY <1>8 DEF WillForget
  <2>2. i # 1
    BY <1>1, <1>8, <2>1
  <2>3. i - 1 \in 1..3 /\ i - 1 <= Len(duties) /\ duties[i - 1] = "forget"
    BY <1>1, <1>2, <2>1, <2>2
  <2>. QED  BY <1>6, <2>3 DEF WillForget
<1>9. WillDrop(old) => duty = "drop"
  BY <1>1 DEF WillDrop
<1>. QED  BY <1>6, <1>7, <1>8, <1>9

\* Each thing that is done about a failure.
LEMMA MarkLimitedKeeps ==
  ASSUME IInv, NEW r \in Requests, MarkLimited(r)
  PROVE  IInv'
PROOF
<1>1. /\ Due(r, "limit") /\ Fulfil(r)
      /\ UNCHANGED <<known, client, session, logins, status, dead, revived, late>>
      /\ cooldown' = Extended(request[r].failure.cooldown)
  BY DEF MarkLimited
<1>2. request[r].failure.cooldown \in 0..F!LongestCooldown
  BY <1>1, DueFacts DEF Decided
<1>3. cooldown' \in 0..F!LongestCooldown /\ (cooldown' = 0 => cooldown = 0)
  BY <1>1, <1>2, ExtendedKeeps
<1>4. /\ RequestsInv' /\ LateInv'
      /\ \A s \in Requests \ {r} : request'[s] = request[s]
      /\ ~WillDrop(request[r])
      /\ WillForget(request[r]) => WillForget(request'[r])
  BY <1>1, <1>3, Fulfils
<1>5. DeadInv'
  BY <1>1, <1>4 DEF IInv, DeadInv, ClientDead, SessionDead
<1>6. StoresInv'
  BY <1>1, <1>3 DEF IInv, StoresInv
<1>. QED  BY <1>4, <1>5, <1>6 DEF IInv

LEMMA DropClientKeeps ==
  ASSUME IInv, NEW r \in Requests, DropClient(r)
  PROVE  IInv'
PROOF
<1>1. /\ Due(r, "drop") /\ Fulfil(r) /\ client' = NoClient
      /\ UNCHANGED <<known, session, logins, status, cooldown, dead, revived, late>>
  BY DEF DropClient
<1>2. /\ RequestsInv' /\ LateInv'
      /\ \A s \in Requests \ {r} : request'[s] = request[s]
      /\ WillForget(request[r]) => WillForget(request'[r])
  BY <1>1, Fulfils
<1>3. dead \subseteq 1..logins
  BY DEF IInv, StoresInv
<1>4. client' \notin dead'
  BY <1>1, <1>3 DEF NoClient
<1>5. DeadInv'
  BY <1>1, <1>2, <1>4 DEF IInv, DeadInv, ClientDead, SessionDead
<1>6. StoresInv'
  BY <1>1 DEF IInv, StoresInv, Logins, NoClient
<1>. QED  BY <1>2, <1>5, <1>6 DEF IInv

LEMMA SetErrorKeeps ==
  ASSUME IInv, NEW r \in Requests, SetError(r)
  PROVE  IInv'
PROOF
<1>1. /\ Due(r, "error") /\ Fulfil(r) /\ status' = "error"
      /\ UNCHANGED <<known, client, session, logins, cooldown, dead, revived, late>>
  BY DEF SetError
<1>2. /\ RequestsInv' /\ LateInv'
      /\ \A s \in Requests \ {r} : request'[s] = request[s]
      /\ ~WillDrop(request[r])
      /\ WillForget(request[r]) => WillForget(request'[r])
  BY <1>1, Fulfils
<1>3. DeadInv'
  BY <1>1, <1>2 DEF IInv, DeadInv, ClientDead, SessionDead
<1>4. StoresInv'
  BY <1>1 DEF IInv, StoresInv, Statuses
<1>. QED  BY <1>2, <1>3, <1>4 DEF IInv

LEMMA DeleteSessionKeeps ==
  ASSUME IInv, NEW r \in Requests, DeleteSession(r)
  PROVE  IInv'
PROOF
<1>1. /\ Due(r, "forget") /\ Fulfil(r)
      /\ session' = IF known THEN NoClient ELSE session
      /\ UNCHANGED <<known, client, logins, status, cooldown, dead, revived, late>>
  BY DEF DeleteSession
<1>2. /\ RequestsInv' /\ LateInv'
      /\ \A s \in Requests \ {r} : request'[s] = request[s]
      /\ ~WillDrop(request[r])
  BY <1>1, Fulfils
<1>3. session' \in {session, NoClient} /\ (known => session' = NoClient)
  BY <1>1
<1>4. dead \subseteq 1..logins
  BY DEF IInv, StoresInv
<1>5. ~SessionDead'
  BY <1>1, <1>3, <1>4 DEF SessionDead, NoClient
<1>6. DeadInv'
  BY <1>1, <1>2, <1>5 DEF IInv, DeadInv, ClientDead
<1>7. StoresInv'
  BY <1>1, <1>3 DEF IInv, StoresInv, Logins, NoClient
<1>. QED  BY <1>2, <1>6, <1>7 DEF IInv

LEMMA DemoteKeeps ==
  ASSUME IInv, NEW r \in Requests, Demote(r)
  PROVE  IInv'
PROOF
<1>1. /\ Due(r, "demote") /\ Fulfil(r) /\ status' = request[r].failure.status
      /\ UNCHANGED <<known, client, session, logins, cooldown, dead, revived, late>>
  BY DEF Demote
<1>2. /\ RequestsInv' /\ LateInv'
      /\ \A s \in Requests \ {r} : request'[s] = request[s]
      /\ ~WillDrop(request[r])
      /\ WillForget(request[r]) => WillForget(request'[r])
  BY <1>1, Fulfils
<1>3. DeadInv'
  BY <1>1, <1>2 DEF IInv, DeadInv, ClientDead, SessionDead
<1>4. status' \in Statuses
  <2>1. /\ Suited(request[r]) /\ Decided(request[r].failure)
        /\ 1 \in 1..Len(request[r].duties) /\ request[r].duties[1] = "demote"
    BY <1>1, DueFacts
  <2>. QED  BY <1>1, <2>1 DEF Suited, Decided, Statuses
<1>5. StoresInv'
  BY <1>1, <1>4 DEF IInv, StoresInv
<1>. QED  BY <1>2, <1>3, <1>5 DEF IInv

-----------------------------------------------------------------------------
(* What happens meanwhile                                                  *)

\* What leaves requests and cooldown alone keeps what is said of them.
LEMMA RequestsKept ==
  ASSUME IInv, UNCHANGED request, logins \in Nat, logins' \in Nat, logins <= logins'
  PROVE  RequestsInv'
PROOF
<1>1. ASSUME NEW r \in Requests
      PROVE  RequestInv(request[r]) /\ request[r].taken <= logins'
  <2>1. RequestInv(request[r]) /\ request[r].taken <= logins
    BY DEF IInv, RequestsInv
  <2>2. request[r].taken \in Nat
    BY <2>1, Fields DEF RequestInv, Logins, NoClient
  <2>. QED  BY <2>1, <2>2
<1>. QED  BY <1>1 DEF IInv, RequestsInv

LEMMA LogoutKeeps == ASSUME IInv, Logout  PROVE IInv'
PROOF
<1>1. /\ known' = FALSE /\ client' = NoClient /\ session' = NoClient
      /\ status' = "idle" /\ UNCHANGED <<logins, cooldown, request, dead, revived, late>>
  BY DEF Logout
<1>2. /\ logins \in Nat /\ dead \subseteq 1..logins /\ revived \subseteq 1..logins
  BY CallsAssumption DEF IInv, StoresInv, Logins
<1>3. RequestsInv'
  BY <1>1, <1>2, RequestsKept
<1>a. /\ logins \in Logins /\ cooldown \in 0..F!LongestCooldown
      /\ {NoClient, NoClient} \subseteq 0..logins /\ "idle" \in Statuses
  BY <1>2 DEF IInv, StoresInv, Statuses, NoClient
<1>4. StoresInv'
  BY <1>1, <1>2, <1>a DEF StoresInv
<1>5. ~ClientDead' /\ ~SessionDead'
  BY <1>1, <1>2 DEF ClientDead, SessionDead, NoClient
<1>6. LateInv' /\ DeadInv'
  BY <1>1, <1>5 DEF IInv, LateInv, DeadInv
<1>. QED  BY <1>3, <1>4, <1>6 DEF IInv

LEMMA CooldownKeeps == ASSUME IInv, Tick \/ ClearRateLimit  PROVE IInv'
PROOF
<1>1. cooldown \in 0..F!LongestCooldown /\ F!LongestCooldown \in Nat
  BY DEF IInv, StoresInv, F!LongestCooldown
<1>2. PICK left \in 0..F!LongestCooldown : CooldownEnds(left)
  BY <1>1 DEF Tick, ClearRateLimit, CooldownEnds
<1>3. /\ cooldown > 0 /\ cooldown' = left
      /\ late' = IF left = 0 THEN [r \in Requests |-> 0] ELSE late
      /\ UNCHANGED <<known, client, session, logins, status, request, dead, revived>>
  BY <1>2 DEF CooldownEnds
<1>4. logins \in Nat
  BY CallsAssumption DEF IInv, StoresInv, Logins
<1>5. RequestsInv' /\ DeadInv'
  BY <1>3, <1>4, RequestsKept DEF IInv, DeadInv, ClientDead, SessionDead
<1>6. StoresInv'
  BY <1>3 DEF IInv, StoresInv
<1>7. LateInv'
  BY <1>3 DEF IInv, LateInv
<1>. QED  BY <1>5, <1>6, <1>7 DEF IInv

-----------------------------------------------------------------------------
(* The theorems                                                            *)

\* The invariant holds at first, and every step keeps it.
LEMMA Inductive == Spec => []IInv
PROOF
<1>1. ASSUME Init  PROVE IInv
  <2>1. /\ known = TRUE /\ client = 1 /\ session = 1 /\ logins = 1
        /\ status = "active" /\ cooldown = 0 /\ dead = {} /\ revived = {}
        /\ request = [r \in Requests |-> Idle] /\ late = [r \in Requests |-> 0]
    BY <1>1 DEF Init
  <2>2. StoresInv
    BY <2>1, CallsAssumption DEF StoresInv, Logins, Statuses, F!LongestCooldown
  <2>3. /\ Idle \in Request /\ RequestInv(Idle) /\ Idle.taken <= logins
        /\ ~Running(Idle)
    BY <2>1, IdleIsRight DEF RequestInv, NoClient
  <2>4. RequestsInv
    BY <2>1, <2>3 DEF RequestsInv
  <2>5. LateInv /\ DeadInv
    BY <2>1 DEF LateInv, DeadInv, ClientDead, SessionDead
  <2>. QED  BY <2>2, <2>4, <2>5 DEF IInv
<1>2. ASSUME IInv, [Next]_vars  PROVE IInv'
  <2>1. CASE UNCHANGED vars
    BY <1>2, <2>1 DEF vars, IInv, StoresInv, RequestsInv, LateInv, DeadInv,
                      ClientDead, SessionDead
  <2>2. ASSUME NEW r \in Requests, Advance(r)  PROVE IInv'
    <3>1. CASE Start(r) \/ Reported(r)
      BY <1>2, <3>1, StartKeeps, ReportedKeeps
    <3>2. CASE \/ CheckArgument(r) \/ CheckAccount(r) \/ CheckClient(r)
               \/ CheckRateLimit(r) \/ PublicCall(r) \/ SetVerified(r)
               \/ Announce(r)
      BY <1>2, <3>2, ChecksKeep
    <3>3. CASE TakeClient(r) \/ CallWorks(r)
      BY <1>2, <3>3, TakeClientKeeps, CallWorksKeeps
    <3>4. CASE CallRefused(r) \/ RefusedUnseen(r) \/ CallFails(r) \/ ReadAnswer(r)
      BY <1>2, <3>4, CallRefusedKeeps, RefusedUnseenKeeps, CallFailsKeeps,
         ReadAnswerKeeps
    <3>5. CASE MarkLimited(r) \/ DropClient(r) \/ SetError(r)
      BY <1>2, <3>5, MarkLimitedKeeps, DropClientKeeps, SetErrorKeeps
    <3>6. CASE DeleteSession(r) \/ Demote(r)
      BY <1>2, <3>6, DeleteSessionKeeps, DemoteKeeps
    <3>7. CASE Discard(r) \/ LoadSession(r) \/ LogInAgain(r)
      BY <1>2, <3>7, DiscardKeeps, LoginsKeep
    <3>8. CASE LoginRetried(r) \/ LoginFails(r)
      BY <1>2, <3>8, LoginRetriedKeeps, LoginFailsKeeps
    <3>9. CASE SaveSession(r) \/ Install(r)
      BY <1>2, <3>9, InstallsKeep
    <3>. QED  BY <2>2, <3>1, <3>2, <3>3, <3>4, <3>5, <3>6, <3>7, <3>8, <3>9 DEF Advance
  <2>3. CASE Logout \/ Tick \/ ClearRateLimit
    BY <1>2, <2>3, LogoutKeeps, CooldownKeeps
  <2>. QED  BY <1>2, <2>1, <2>2, <2>3 DEF Next
<1>. QED  BY <1>1, <1>2, PTL DEF Spec

\* The stores of the account and the requests keep their types, whatever is asked
\* for and whatever comes of it.
THEOREM TypeCorrect == Spec => []TypeOK
PROOF
<1>1. ASSUME IInv  PROVE TypeOK
  <2>1. MaxLogins \in Nat /\ logins \in Logins
    BY <1>1, CallsAssumption DEF IInv, StoresInv
  <2>2. /\ {client, session} \subseteq Logins \cup {NoClient}
        /\ dead \cup revived \subseteq Logins
    BY <1>1, <2>1 DEF IInv, StoresInv, Logins, NoClient
  <2>3. known \in BOOLEAN /\ status \in Statuses /\ cooldown \in 0..F!LongestCooldown
    BY <1>1 DEF IInv, StoresInv
  <2>4. late \in [Requests -> Nat]
    BY <1>1 DEF IInv, LateInv
  <2>5. Seq(Rests) \subseteq Seq(Seq(Step))
    <3>1. Rests \subseteq Seq(Step)
      BY DEF Rests
    <3>. QED  BY <3>1
  <2>6. ASSUME NEW r \in Requests
        PROVE  /\ request[r].stages \in Seq(Seq(Step))
               /\ request[r].taken \in Logins \cup {NoClient}
               /\ request[r].failure \in F!FailureClasses \cup {F!Unknown}
               /\ request[r].duties \in Seq(Duties)
               /\ request[r].report \in Reports
               /\ request[r].attempts \in 0..(MaxAttempts - 1)
               /\ request[r].wrote \in BOOLEAN
               /\ request[r].missed \subseteq {"write", "try", "blind"}
    <3>1. request[r] \in Request
      BY <1>1 DEF IInv, RequestsInv
    <3>. QED  BY <2>5, <3>1, Fields
  <2>. QED  BY <2>1, <2>2, <2>3, <2>4, <2>6 DEF TypeOK
<1>. QED  BY <1>1, Inductive, PTL

\* A session that ended is in use or saved only as long as who saw it end is still
\* to take it away, or because a relogin that had loaded it before put it back, for
\* any number of logins and of requests beside each other.
THEOREM DeadSessionsGo == Spec => []DeadSessionsAreDropped
PROOF
<1>1. ASSUME IInv  PROVE DeadSessionsAreDropped
  <2>1. ASSUME NEW r \in Requests, WillDrop(request[r]) \/ WillForget(request[r])
        PROVE  \E i \in 1..3 : i \in DOMAIN request[r].duties
                               /\ request[r].duties[i] = "forget"
    <3>1. request[r].duties \in Seq(Duties)
      BY <1>1, Fields DEF IInv, RequestsInv
    <3>2. /\ DOMAIN request[r].duties = 1..Len(request[r].duties)
          /\ Len(request[r].duties) \in Nat
      BY <3>1
    <3>. QED  BY <2>1, <3>2 DEF WillDrop, WillForget
  <2>2. ASSUME NEW login \in {client} \cup {saved \in {session} : known},
               login \in dead \ revived
        PROVE  \E r \in Requests : WillDrop(request[r]) \/ WillForget(request[r])
    BY <1>1, <2>2 DEF IInv, DeadInv, ClientDead, SessionDead
  <2>. QED  BY <2>1, <2>2 DEF DeadSessionsAreDropped
<1>. QED  BY <1>1, Inductive, PTL

\* A failure that waiting may cure costs the account neither its session nor its
\* client, whatever number of requests fail: the client is lost to a relogin that
\* has begun or to a failure that waiting does not cure.
THEOREM TransientFailuresCostNothing == Spec => TransientFailureKeepsSession
PROOF
<1>. DEFINE ClientLost ==
              \E r \in Requests : \/ Ready(r, "discard")
                                  \/ Due(r, "drop") /\ ~request[r].failure.transient
            SessionLost ==
              \E r \in Requests : Due(r, "forget") /\ ~request[r].failure.transient
<1>1. ASSUME IInv, NEW r \in Requests, NEW duty \in {"drop", "forget"}, Due(r, duty)
      PROVE  ~request[r].failure.transient
  <2>1. /\ Suited(request[r]) /\ 1 \in 1..Len(request[r].duties)
        /\ request[r].duties[1] = duty
    BY <1>1, DueFacts
  <2>. QED  BY <1>1, <2>1 DEF Suited
<1>2. ASSUME IInv, [Next]_vars, known', client # NoClient, client' = NoClient
      PROVE  ClientLost
  <2>1. PICK r \in Requests : Advance(r)
    <3>1. ~Logout
      BY <1>2 DEF Logout
    <3>2. Tick \/ ClearRateLimit => client' = client
      BY DEF Tick, ClearRateLimit, CooldownEnds
    <3>. QED  BY <1>2, <3>1, <3>2 DEF Next, vars
  <2>2. client' = client \/ Discard(r) \/ Install(r) \/ DropClient(r)
    BY <2>1 DEF Advance, Start, Reported, CheckArgument, CheckAccount, CheckClient,
         CheckRateLimit, TakeClient, CallWorks, CallRefused, RefusedUnseen, CallFails,
         ReadAnswer, PublicCall, SetVerified, Announce, LoadSession, LogInAgain,
         LoginRetried, LoginFails, SaveSession, MarkLimited, SetError, DeleteSession,
         Demote, store
  <2>3. ~Install(r)
    <3>1. Install(r) => Ready(r, "install") /\ client' = request[r].taken
      BY DEF Install
    <3>2. Ready(r, "install") => request[r].taken \in 1..logins
      BY <1>2, CallsHaveClient
    <3>. QED  BY <1>2, <3>1, <3>2 DEF NoClient
  <2>4. Ready(r, "discard") \/ Due(r, "drop")
    BY <1>2, <2>2, <2>3 DEF Discard, DropClient
  <2>. QED  BY <1>1, <1>2, <2>4
<1>3. ASSUME IInv, [Next]_vars, known', session # NoClient, session' = NoClient
      PROVE  SessionLost
  <2>1. PICK r \in Requests : Advance(r)
    <3>1. ~Logout
      BY <1>3 DEF Logout
    <3>2. Tick \/ ClearRateLimit => session' = session
      BY DEF Tick, ClearRateLimit, CooldownEnds
    <3>. QED  BY <1>3, <3>1, <3>2 DEF Next, vars
  <2>2. session' = session \/ SaveSession(r) \/ DeleteSession(r)
    BY <2>1 DEF Advance, Start, Reported, CheckArgument, CheckAccount, CheckClient,
         CheckRateLimit, TakeClient, CallWorks, CallRefused, RefusedUnseen, CallFails,
         ReadAnswer, PublicCall, SetVerified, Announce, Discard, LoadSession,
         LogInAgain, LoginRetried, LoginFails, Install, MarkLimited, DropClient,
         SetError, Demote, store
  <2>3. ~SaveSession(r)
    <3>1. SaveSession(r) => Ready(r, "save") /\ session' = request[r].taken
      BY DEF SaveSession
    <3>2. Ready(r, "save") => request[r].taken \in 1..logins
      BY <1>3, CallsHaveClient
    <3>. QED  BY <1>3, <3>1, <3>2 DEF NoClient
  <2>4. Due(r, "forget")
    BY <1>3, <2>2, <2>3 DEF DeleteSession
  <2>. QED  BY <1>1, <1>3, <2>4
<1>4. IInv /\ [Next]_vars =>
        [known' =>
           /\ client # NoClient /\ client' = NoClient => ClientLost
           /\ session # NoClient /\ session' = NoClient => SessionLost]_vars
  BY <1>2, <1>3
<1>. QED  BY <1>4, Inductive, PTL DEF Spec, TransientFailureKeepsSession

\* An account that cools down is asked for at most once more by each request, with
\* batches of any length.
THEOREM CooldownsHold == Spec => []LimitHolds
PROOF
<1>1. ASSUME IInv  PROVE LimitHolds
  BY <1>1 DEF IInv, LateInv, LimitHolds
<1>. QED  BY <1>1, Inductive, PTL

\* What the caller is told fits what was changed.
THEOREM ReportsAreTrue == Spec => []WritesAreReported
PROOF
<1>1. ASSUME IInv  PROVE WritesAreReported
  <2>1. ASSUME NEW r \in Requests
        PROVE  /\ request[r].report = "done" => request[r].missed \subseteq {"blind"}
               /\ request[r].report \in {"unsuccessful", "none"} => ~request[r].wrote
               /\ request[r].report = "error" /\ request[r].wrote =>
                    NextStep(r).do \in {"read", "answer"}
    <3>1. RequestInv(request[r])
      BY <1>1 DEF IInv, RequestsInv
    <3>2. ASSUME request[r].report \in {"unsuccessful", "error", "none"}
          PROVE  NextStep(r) = request[r].stages[1][1]
      <4>1. request[r].stages # <<>> /\ request[r] \in Request
        BY <3>1, <3>2 DEF RequestInv, Staged, Idle
      <4>2. request[r].stages[1] \in Rests /\ Head(request[r].stages) = request[r].stages[1]
        BY <4>1, Fields
      <4>. QED  BY <4>2, RestOfStage DEF NextStep, StepOf
    <3>. QED  BY <3>1, <3>2 DEF RequestInv, Honest, Follows, Unseen
  <2>. QED  BY <2>1 DEF WritesAreReported
<1>. QED  BY <1>1, Inductive, PTL

\* No tool that runs without approval changes anything, whichever layer below it
\* makes the call.
THEOREM UnapprovedNeverWrites == Spec => []ReadOnlyToolsNeverWrite
PROOF
<1>1. ReadOnlyToolsNeverWrite
  <2>1. ASSUME NEW r \in Requests, request[r].stages \in Unapproved,
               NEW i \in DOMAIN request[r].stages[1]
        PROVE  ~Writes(request[r].stages[1][i])
    <3>1. request[r].stages \in Seq(ReadOnly) /\ Len(request[r].stages) = 1
      BY <2>1, OperationsSteps
    <3>2. request[r].stages[1] \in ReadOnly
      BY <3>1
    <3>3. DOMAIN request[r].stages[1] = 1..Len(request[r].stages[1])
      BY <3>2 DEF ReadOnly, Whole, Loose, Rests
    <3>. QED  BY <2>1, <3>2, <3>3 DEF ReadOnly
  <2>. QED  BY <2>1 DEF ReadOnlyToolsNeverWrite
<1>. QED  BY <1>1, PTL
=============================================================================
