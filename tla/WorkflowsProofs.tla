--------------------------- MODULE WorkflowsProofs ---------------------------
(* Proofs about Workflows, for any number of streams, runs and decisions, any *)
(* number of attempts and revisions, and any proxies, policies and edits:     *)
(* what a conversation keeps is a state of its graph, a run that ended adds   *)
(* up, logins are bounded, and nothing is done to an account more often than  *)
(* the operator agreed to.                                                    *)
(*                                                                            *)
(* The inductive invariant has two halves. One holds whatever the client      *)
(* does: a stream and the checkpoint are at a node with values that go with   *)
(* it. The other is for a client that posts one thing at a time and answers   *)
(* what was asked: its one stream is at the checkpoint, and each login and    *)
(* each effect is paid for by an attempt, a question, an answer or a grant.   *)
EXTENDS Workflows, FiniteSetTheorems, TLAPS

-----------------------------------------------------------------------------
(* What goes with a node.                                                     *)

RecoveryNodes == {"detect_issue", "classify_issue", "choose_recovery_path",
                  "attempt_recovery", "verify_account_health", "finish"}
RiskNodes == {"load_account_signal", "evaluate_risk", "choose_policy", "cooldown_action",
              "escalate_to_operator", "apply_operator_override", "recheck_signal", "finish"}
ContentNodes == {"ingest_campaign_brief", "generate_caption", "validate_caption",
                 "select_target_accounts", "operator_approval", "schedule_draft", "finish"}

RecoveryAt(node, v) ==
  /\ v \in RecoveryValues
  /\ node \in RecoveryNodes \union {"end"}
  /\ node = "attempt_recovery" => v.attempts < MaxAttempts /\ v.stop = "none"
  /\ node \notin {"attempt_recovery", "finish", "end"} => v.op = "none"
  /\ node \in {"detect_issue", "classify_issue"} => v.error = "none" /\ v.stop = "none"
  /\ node \notin {"detect_issue", "classify_issue"} => v.error # "none" \/ v.stop # "none"
  /\ v.stop = "no_issue" => v.error = "none"
  /\ v.stop = "aborted" => v.op = "abort"
  /\ v.stop = "max_attempts_reached" => v.attempts >= MaxAttempts
  /\ node \notin {"finish", "end"} => ~v.healthy /\ v.result = "none" /\ v.stop # "recovered"
  /\ node \in {"finish", "end"} =>
       /\ v.stop # "none" /\ (v.result = "recovered" <=> v.healthy)
       /\ v.stop = "recovered" <=> v.healthy

Undecided(v) ==
  v.decision = "none" /\ v.answer = NoAnswer /\ v.final = "none" /\ v.recheck = "none"
    /\ v.stop = "none"
Settled(v) ==
  /\ v.level = "critical" =>
       (v.final # "none" <=> v.decision \in {"approve_policy", "override_policy"})
  /\ v.level # "critical" => v.decision = "none" /\ v.final \in {"none", "cooldown"}
  /\ v.decision = "override_policy" /\ v.answer.with # "nothing" => v.final = v.answer.with

RiskAt(node, v) ==
  /\ v \in RiskValues
  /\ node \in RiskNodes \union {"end"}
  /\ node \in {"load_account_signal", "evaluate_risk"} => v.level = "none"
  /\ node \in {"load_account_signal", "evaluate_risk", "choose_policy", "cooldown_action",
               "escalate_to_operator"} => Undecided(v)
  /\ node = "cooldown_action" => v.level # "critical"
  /\ node = "escalate_to_operator" => v.level = "critical" /\ v.policy = "escalate"
  /\ node = "apply_operator_override" =>
       /\ v.level = "critical" /\ v.policy = "escalate" /\ v.final = "none"
       /\ v.decision \in {"approve_policy", "override_policy"}
       /\ v.answer \in RiskAnswers /\ v.answer.decision = v.decision
       /\ v.recheck = "none" /\ v.stop = "none"
  /\ node = "recheck_signal" => Settled(v) /\ v.recheck = "none" /\ v.stop = "none"
                                /\ v.decision # "abort"
  /\ node \in {"finish", "end"} =>
       /\ v.stop = "aborted" <=> v.decision = "abort"
       /\ v.stop = "account_not_found" => v.level = "none"
  /\ node = "finish" => Settled(v) /\ v.stop # "completed"
                        /\ (v.recheck # "none" <=> v.stop = "none")
  /\ node = "end" => Settled(v) /\ v.stop # "none"
                     /\ (v.recheck # "none" <=> v.stop = "completed")

ContentAt(node, v) ==
  /\ v \in ContentValues
  /\ node \in ContentNodes \union {"end"}
  /\ (v.stop = "none") <=> node \notin {"finish", "end"}
  /\ node \notin {"schedule_draft", "finish", "end"} => v.approval = "none"
  /\ node \in {"select_target_accounts", "operator_approval"} => v.passed
  /\ node = "schedule_draft" => v.approval \in {"approved", "edited"}
  /\ v.approval # "none" => v.passed
  /\ node \in {"finish", "end"} =>
       /\ v.stop = "rejected" <=> v.approval = "rejected"
       /\ v.approval \in {"approved", "edited"} => v.stop = "error"

Fits(g, node, v) ==
  /\ g = "recovery" => RecoveryAt(node, v)
  /\ g = "risk" => RiskAt(node, v)
  /\ g = "content" => ContentAt(node, v)

\* The question of a graph is open at this node.
Asking(g, node, v) ==
  /\ g = "recovery" => node = "attempt_recovery"
                       /\ ~(v.path = "swap_proxy" /\ v.op = "approve_proxy_swap")
  /\ g = "risk" => node = "escalate_to_operator"
  /\ g = "content" => node = "operator_approval"

-----------------------------------------------------------------------------
(* The inductive invariant.                                                   *)

Deeds == {"nothing", "swap", "relogin", "requires_2fa", "draft", "no_account"}
Entries ==
  [kind : {"swap"}, run : 1..MaxRuns, what : {"nothing", "code"} \union Proxies]
    \union [kind : {"draft"}, run : 1..MaxRuns, what : Captions]

StoresInv ==
  /\ graph \in Graphs /\ backend \in Backends
  /\ runs \in 0..MaxRuns /\ resumes \in 0..MaxResumes /\ careless \in BOOLEAN
  /\ asks \in [1..MaxRuns -> Nat] /\ answers \in [1..MaxRuns -> Nat]
  /\ logins \in [1..MaxRuns -> Nat]
  /\ granted \in Seq(Entries) /\ effects \in Seq(Entries)
  /\ \A i \in DOMAIN effects : effects[i].run <= runs
  /\ \A r \in 1..MaxRuns : r > runs => logins[r] = 0

Driven(g, n, d) ==
  /\ d = Drive(d.pc, d.vals, d.answer, d.did)
  /\ Fits(g, d.pc, d.vals) /\ d.pc # "end"
  /\ d.answer \in AnswersOf[g] \union {NoAnswer}
  /\ d.did \in Deeds
  /\ d.did # "nothing" => d.pc \in {"attempt_recovery", "schedule_draft"}
  /\ d.vals.run <= n

StreamsInv ==
  /\ stream = [s \in Streams |-> stream[s]]
  /\ \A s \in Streams : stream[s] = Idle \/ Driven(graph, runs, stream[s])

Kept(g, n, c) ==
  /\ c = Checkpoint(c.next, c.vals, c.waits)
  /\ Fits(g, c.next, c.vals)
  /\ c.waits \in BOOLEAN
  /\ c.waits => Asking(g, c.next, c.vals)
  /\ c.vals.run <= n

SavedInv == saved = NoCheckpoint \/ Kept(graph, runs, saved)

\* One POST at a time, each of them where the checkpoint is.
CarefulInv ==
  ~careless =>
    \A s \in Streams : stream[s] # Idle =>
      /\ \A t \in Streams : stream[t] # Idle => s = t
      /\ saved.next = stream[s].pc /\ saved.vals = stream[s].vals
      /\ stream[s].answer # NoAnswer => saved.waits

LoggedIn(d) == IF d.did \in {"relogin", "requires_2fa"} THEN 1 ELSE 0
Answered == IF saved.waits THEN 1 ELSE 0
Paid(asked, answered, v) == v.attempts + asked[v.run] + answered[v.run]

\* A login is paid for by the attempt that ends with it or by the question it
\* leads to; a stream that begins with an answer has one login to spare.
LoginsInv ==
  ~careless =>
    /\ LoginsAreBounded
    /\ graph = "recovery" =>
         /\ saved.waits /\ ~Busy => logins[saved.vals.run] <= Paid(asks, answers, saved.vals)
         /\ \A s \in Streams : stream[s] # Idle =>
              logins[stream[s].vals.run] + Answered
                <= Paid(asks, answers, stream[s].vals) + LoggedIn(stream[s])

\* What the operator agreed to and the stream is about to do.
Permits(g, d) ==
  {e \in Entries :
     /\ d # Idle /\ d.did = "nothing" /\ e.run = d.vals.run
     /\ \/ /\ g = "recovery" /\ d.pc = "attempt_recovery"
           /\ d.vals.path = "swap_proxy" /\ d.vals.op = "approve_proxy_swap"
           /\ e.kind = "swap" /\ e.what = d.vals.with
        \/ /\ g = "content" /\ d.pc = "schedule_draft"
           /\ e.kind = "draft" /\ e.what = d.vals.caption}

Open(e) == IF \E s \in Streams : e \in Permits(graph, stream[s]) THEN 1 ELSE 0

GrantsInv ==
  ~careless => \A e \in Entries : Times(effects, e) + Open(e) <= Times(granted, e)

\* A run acts after it has found an issue, or with the approval of a caption.
Acted(r) == Effects(r) # {} \/ logins[r] > 0
MayAct(g, v) ==
  /\ g = "recovery" => v.error # "none"
  /\ g = "content" => v.approval \in {"approved", "edited"}

ActsInv ==
  ~careless /\ saved # NoCheckpoint => (Acted(saved.vals.run) => MayAct(graph, saved.vals))

IInv ==
  StoresInv /\ StreamsInv /\ SavedInv /\ CarefulInv /\ LoginsInv /\ GrantsInv /\ ActsInv

-----------------------------------------------------------------------------
(* Counting the entries of a log.                                             *)

LEMMA TimesIsNat ==
  ASSUME NEW log \in Seq(Entries), NEW e
  PROVE  Times(log, e) \in Nat
PROOF
<1>1. IsFiniteSet(DOMAIN log)
  <2>1. DOMAIN log = 1..Len(log) /\ Len(log) \in Nat
    OBVIOUS
  <2>. QED  BY <2>1, FS_Interval
<1>2. {i \in DOMAIN log : log[i] = e} \subseteq DOMAIN log
  OBVIOUS
<1>3. IsFiniteSet({i \in DOMAIN log : log[i] = e})
  BY <1>1, <1>2, FS_Subset
<1>. QED  BY <1>3, FS_CardinalityType DEF Times

\* One more entry counts once, and for itself only.
LEMMA TimesOfAppend ==
  ASSUME NEW log \in Seq(Entries), NEW e \in Entries, NEW x
  PROVE  Times(Append(log, e), x) = Times(log, x) + (IF e = x THEN 1 ELSE 0)
PROOF
<1>. DEFINE At1 == {i \in DOMAIN log : log[i] = x}
            At2 == {i \in DOMAIN Append(log, e) : Append(log, e)[i] = x}
<1>1. /\ Len(log) \in Nat /\ DOMAIN log = 1..Len(log)
      /\ DOMAIN Append(log, e) = 1..(Len(log) + 1)
      /\ \A i \in 1..Len(log) : Append(log, e)[i] = log[i]
      /\ Append(log, e)[Len(log) + 1] = e
  OBVIOUS
<1>2. At1 \subseteq 1..Len(log)
  BY <1>1
<1>3. IsFiniteSet(At1)
  <2>1. IsFiniteSet(1..Len(log))
    BY <1>1, FS_Interval
  <2>. QED  BY <2>1, <1>2, FS_Subset
<1>6. Times(log, x) = Cardinality(At1) /\ Times(Append(log, e), x) = Cardinality(At2)
  BY DEF Times
<1>4. CASE e = x
  <2>1. At2 = At1 \union {Len(log) + 1}
    <3>1. ASSUME NEW i \in At2  PROVE i \in At1 \union {Len(log) + 1}
      <4>1. i \in 1..(Len(log) + 1) /\ Append(log, e)[i] = x
        BY <1>1
      <4>2. i \in 1..Len(log) \/ i = Len(log) + 1
        BY <4>1, <1>1
      <4>. QED  BY <4>1, <4>2, <1>1
    <3>2. ASSUME NEW i \in At1  PROVE i \in At2
      <4>1. i \in 1..Len(log) /\ log[i] = x
        BY <1>1
      <4>2. i \in 1..(Len(log) + 1)
        BY <4>1, <1>1
      <4>. QED  BY <4>1, <4>2, <1>1
    <3>3. Len(log) + 1 \in At2
      <4>1. Len(log) + 1 \in 1..(Len(log) + 1)
        BY <1>1
      <4>. QED  BY <4>1, <1>1, <1>4
    <3>. QED  BY <3>1, <3>2, <3>3
  <2>2. Len(log) + 1 \notin At1
    BY <1>1, <1>2
  <2>3. Cardinality(At2) = Cardinality(At1) + 1
    BY <2>1, <2>2, <1>3, FS_AddElement
  <2>. QED  BY <2>3, <1>4, <1>6
<1>5. CASE e # x
  <2>1. At2 = At1
    <3>1. ASSUME NEW i \in At2  PROVE i \in At1
      <4>1. i \in 1..(Len(log) + 1) /\ Append(log, e)[i] = x
        BY <1>1
      <4>2. i \in 1..Len(log)
        BY <4>1, <1>1, <1>5
      <4>. QED  BY <4>1, <4>2, <1>1
    <3>2. ASSUME NEW i \in At1  PROVE i \in At2
      <4>1. i \in 1..Len(log) /\ log[i] = x
        BY <1>1
      <4>2. i \in 1..(Len(log) + 1)
        BY <4>1, <1>1
      <4>. QED  BY <4>1, <4>2, <1>1
    <3>. QED  BY <3>1, <3>2
  <2>2. Cardinality(At1) \in Nat
    BY <1>3, FS_CardinalityType
  <2>. HIDE DEF At1, At2
  <2>. QED  BY <2>1, <2>2, <1>5, <1>6
<1>. QED  BY <1>4, <1>5

\* A log gains the entries it gains, and no run other than theirs.
LEMMA AppendIsLog ==
  ASSUME NEW log \in Seq(Entries), NEW e \in Entries
  PROVE  /\ Append(log, e) \in Seq(Entries)
         /\ \A i \in DOMAIN Append(log, e) :
              Append(log, e)[i] = e \/ (i \in DOMAIN log /\ Append(log, e)[i] = log[i])
PROOF
<1>1. /\ Len(log) \in Nat /\ DOMAIN log = 1..Len(log)
      /\ DOMAIN Append(log, e) = 1..(Len(log) + 1)
      /\ \A i \in 1..Len(log) : Append(log, e)[i] = log[i]
      /\ Append(log, e)[Len(log) + 1] = e
  OBVIOUS
<1>2. ASSUME NEW i \in 1..(Len(log) + 1)  PROVE i \in 1..Len(log) \/ i = Len(log) + 1
  BY <1>1
<1>. QED  BY <1>1, <1>2

-----------------------------------------------------------------------------
(* Where a stream is.                                                         *)

LEMMA AtNode ==
  ASSUME IInv, NEW s \in Streams, stream[s].pc # "idle"
  PROVE  stream[s] # Idle /\ Driven(graph, runs, stream[s])
PROOF
<1>1. stream[s] = Idle \/ Driven(graph, runs, stream[s])
  BY DEF IInv, StreamsInv
<1>2. Idle.pc = "idle"
  BY DEF Idle, Drive
<1>. QED  BY <1>1, <1>2

LEMMA DriveFields ==
  ASSUME NEW node, NEW v, NEW answer, NEW did
  PROVE  /\ Drive(node, v, answer, did).pc = node /\ Drive(node, v, answer, did).vals = v
         /\ Drive(node, v, answer, did).answer = answer
         /\ Drive(node, v, answer, did).did = did
         /\ node # "idle" => Drive(node, v, answer, did) # Idle
PROOF
<1>1. Idle.pc = "idle"
  BY DEF Idle, Drive
<1>. QED  BY <1>1 DEF Drive

\* A node that fits is neither that of an idle stream nor that of no checkpoint.
LEMMA FittingNode ==
  ASSUME NEW g \in Graphs, NEW node, NEW v, Fits(g, node, v)
  PROVE  node \notin {"idle", "none"} /\ v.run \in 1..MaxRuns
PROOF
<1>1. g \in {"recovery", "risk", "content"}
  BY GraphAssumption
<1>2. CASE g = "recovery"
  BY <1>2 DEF Fits, RecoveryAt, RecoveryNodes, RecoveryValues
<1>3. CASE g = "risk"
  BY <1>3 DEF Fits, RiskAt, RiskNodes, RiskValues
<1>4. CASE g = "content"
  BY <1>4 DEF Fits, ContentAt, ContentNodes, ContentValues
<1>. QED  BY <1>1, <1>2, <1>3, <1>4

-----------------------------------------------------------------------------
(* What a step of one stream leaves as it was.                                *)

LEMMA StreamMoves ==
  ASSUME IInv, NEW s \in Streams, NEW d, stream' = [stream EXCEPT ![s] = d]
  PROVE  /\ stream'[s] = d
         /\ \A t \in Streams : t # s => stream'[t] = stream[t]
         /\ stream' = [t \in Streams |-> stream'[t]]
PROOF
<1>1. stream = [t \in Streams |-> stream[t]]
  BY DEF IInv, StreamsInv
<1>2. DOMAIN stream = Streams
  BY <1>1
<1>. QED  BY <1>1, <1>2

LEMMA DrivenLater ==
  ASSUME NEW g \in Graphs, NEW n \in Nat, NEW m \in Nat, n <= m,
         NEW d, Driven(g, n, d)
  PROVE  Driven(g, m, d)
PROOF
<1>1. d.vals.run \in 1..MaxRuns
  BY FittingNode DEF Driven
<1>2. d.vals.run <= m
  BY <1>1, GraphAssumption DEF Driven
<1>. QED  BY <1>2 DEF Driven

LEMMA StreamsStay ==
  ASSUME IInv, NEW s \in Streams, NEW d, stream' = [stream EXCEPT ![s] = d],
         graph' = graph, runs' >= runs, runs' \in Nat,
         d = Idle \/ Driven(graph', runs', d)
  PROVE  StreamsInv'
PROOF
<1>1. runs \in Nat /\ graph \in Graphs
  BY GraphAssumption DEF IInv, StoresInv
<1>2. ASSUME NEW t \in Streams
      PROVE  stream'[t] = Idle \/ Driven(graph', runs', stream'[t])
  <2>1. CASE t = s
    BY <2>1, StreamMoves
  <2>2. CASE t # s
    <3>1. stream'[t] = stream[t]
      BY <2>2, StreamMoves
    <3>2. stream[t] = Idle \/ Driven(graph, runs, stream[t])
      BY DEF IInv, StreamsInv
    <3>3. Driven(graph, runs, stream[t]) => Driven(graph, runs', stream[t])
      BY <1>1, DrivenLater
    <3>. QED  BY <3>1, <3>2, <3>3
  <2>. QED  BY <2>1, <2>2
<1>3. stream' = [t \in Streams |-> stream'[t]]
  BY StreamMoves
<1>. QED  BY <1>2, <1>3 DEF StreamsInv

\* A client that posts one thing at a time has one stream, then as now.
LEMMA OneStream ==
  ASSUME IInv, ~careless, NEW s \in Streams, stream[s] # Idle,
         NEW d, stream' = [stream EXCEPT ![s] = d]
  PROVE  \A t \in Streams : t # s => stream[t] = Idle /\ stream'[t] = Idle
PROOF
<1>1. \A t \in Streams : stream[t] # Idle => s = t
  BY DEF IInv, CarefulInv
<1>. QED  BY <1>1, StreamMoves

LEMMA IdlePermits == ASSUME NEW g  PROVE Permits(g, Idle) = {}
PROOF
<1>. QED  BY DEF Permits

LEMMA OneOpen ==
  ASSUME IInv, ~careless, NEW s \in Streams, stream[s] # Idle, graph' = graph,
         NEW d, stream' = [stream EXCEPT ![s] = d], NEW e \in Entries
  PROVE  /\ Open(e) = IF e \in Permits(graph, stream[s]) THEN 1 ELSE 0
         /\ Open(e)' = IF e \in Permits(graph, d) THEN 1 ELSE 0
PROOF
<1>1. \A t \in Streams : t # s => stream[t] = Idle /\ stream'[t] = Idle
  BY OneStream
<1>2. stream'[s] = d
  BY StreamMoves
<1>3. (\E t \in Streams : e \in Permits(graph, stream[t])) <=> e \in Permits(graph, stream[s])
  BY <1>1, IdlePermits
<1>4. (\E t \in Streams : e \in Permits(graph', stream'[t])) <=> e \in Permits(graph, d)
  BY <1>1, <1>2, IdlePermits
<1>. QED  BY <1>3, <1>4 DEF Open

LEMMA StoresFacts ==
  ASSUME IInv
  PROVE  /\ graph \in Graphs /\ graph \in {"recovery", "risk", "content"}
         /\ runs \in Nat /\ runs \in 0..MaxRuns /\ MaxRuns \in Nat
         /\ asks \in [1..MaxRuns -> Nat] /\ answers \in [1..MaxRuns -> Nat]
         /\ logins \in [1..MaxRuns -> Nat]
         /\ granted \in Seq(Entries) /\ effects \in Seq(Entries)
PROOF
<1>. QED  BY GraphAssumption DEF IInv, StoresInv

\* The values a busy stream has, and what its run has on record.
LEMMA DrivenFacts ==
  ASSUME IInv, NEW s \in Streams, stream[s] # Idle
  PROVE  /\ Driven(graph, runs, stream[s])
         /\ Fits(graph, stream[s].pc, stream[s].vals)
         /\ stream[s].vals.run \in 1..MaxRuns /\ stream[s].vals.run <= runs
         /\ asks[stream[s].vals.run] \in Nat /\ answers[stream[s].vals.run] \in Nat
         /\ logins[stream[s].vals.run] \in Nat
         /\ graph = "recovery" => stream[s].vals \in RecoveryValues
         /\ graph = "recovery" => stream[s].vals.attempts \in Nat
         /\ graph = "recovery" => Paid(asks, answers, stream[s].vals) \in Nat
PROOF
<1>1. Driven(graph, runs, stream[s])
  BY DEF IInv, StreamsInv
<1>2. Fits(graph, stream[s].pc, stream[s].vals) /\ stream[s].vals.run <= runs
  BY <1>1 DEF Driven
<1>3. stream[s].vals.run \in 1..MaxRuns
  BY <1>2, FittingNode, StoresFacts
<1>4. graph = "recovery" => stream[s].vals \in RecoveryValues
  BY <1>2 DEF Fits, RecoveryAt
<1>5. graph = "recovery" => stream[s].vals.attempts \in Nat
  BY <1>4, RecoveryAssumption DEF RecoveryValues
<1>6. /\ asks[stream[s].vals.run] \in Nat /\ answers[stream[s].vals.run] \in Nat
      /\ logins[stream[s].vals.run] \in Nat
  BY <1>3, StoresFacts
<1>7. graph = "recovery" => Paid(asks, answers, stream[s].vals) \in Nat
  BY <1>5, <1>6 DEF Paid
<1>. QED  BY <1>1, <1>2, <1>3, <1>4, <1>5, <1>6, <1>7

-----------------------------------------------------------------------------
(* The four moves every node is made of.                                      *)

Leads(s, node, v) ==
  /\ Advance(s, node, v) /\ Fits(graph, node, v) /\ node # "end"
  /\ v.run = stream[s].vals.run
  /\ UNCHANGED <<bounds, asks, effects, logins>>

\* An attempt that ends pays for the login it made; so does the answer a stream began with.
Spends(s, v) ==
  graph = "recovery" =>
    /\ stream[s].vals.attempts <= v.attempts
    /\ LoggedIn(stream[s]) = 1 =>
         v.attempts = stream[s].vals.attempts + 1 \/ stream[s].answer # NoAnswer

Grants(d) ==
  \/ granted' = granted /\ Permits(graph, d) = {}
  \/ \E e \in Entries : granted' = Append(granted, e) /\ Permits(graph, d) \subseteq {e}

MayStillAct(v, w) == MayAct(graph, v) => MayAct(graph, w)

LEMMA GrantedGrows ==
  ASSUME IInv, NEW d, Grants(d)
  PROVE  /\ granted' \in Seq(Entries)
         /\ \A e \in Entries :
              Times(granted, e) + (IF e \in Permits(graph, d) THEN 1 ELSE 0) <= Times(granted', e)
PROOF
<1>1. granted \in Seq(Entries)
  BY StoresFacts
<1>2. CASE granted' = granted /\ Permits(graph, d) = {}
  <2>1. \A e \in Entries : Times(granted, e) \in Nat
    BY <1>1, TimesIsNat
  <2>2. \A e \in Entries : Times(granted', e) = Times(granted, e)
    BY <1>2
  <2>. QED  BY <1>1, <1>2, <2>1, <2>2
<1>3. ASSUME NEW g \in Entries, granted' = Append(granted, g), Permits(graph, d) \subseteq {g}
      PROVE  /\ granted' \in Seq(Entries)
             /\ \A e \in Entries :
                  Times(granted, e) + (IF e \in Permits(graph, d) THEN 1 ELSE 0)
                    <= Times(granted', e)
  <2>1. granted' \in Seq(Entries)
    BY <1>1, <1>3, AppendIsLog
  <2>2. ASSUME NEW e \in Entries
        PROVE  Times(granted, e) + (IF e \in Permits(graph, d) THEN 1 ELSE 0)
                 <= Times(granted', e)
    <3>1. Times(Append(granted, g), e) = Times(granted, e) + (IF g = e THEN 1 ELSE 0)
      BY <1>1, TimesOfAppend
    <3>2. Times(granted, e) \in Nat
      BY <1>1, TimesIsNat
    <3>3. Times(granted', e) = Times(granted, e) + (IF g = e THEN 1 ELSE 0)
      BY <1>3, <3>1
    <3>. QED  BY <1>3, <3>2, <3>3
  <2>. QED  BY <2>1, <2>2
<1>. QED  BY <1>2, <1>3 DEF Grants

LEMMA LoginsStay ==
  ASSUME IInv, ~careless, NEW s \in Streams, stream[s] # Idle,
         NEW d, stream' = [stream EXCEPT ![s] = d], d # Idle, graph' = graph,
         LoginsAreBounded',
         graph = "recovery" =>
           logins'[d.vals.run] + Answered' <= Paid(asks', answers', d.vals) + LoggedIn(d)
  PROVE  LoginsInv'
PROOF
<1>1. stream'[s] = d
  BY StreamMoves
<1>2. Busy'
  BY <1>1 DEF Busy
<1>3. ASSUME graph = "recovery", NEW t \in Streams, stream'[t] # Idle
      PROVE  logins'[stream'[t].vals.run] + Answered'
               <= Paid(asks', answers', stream'[t].vals) + LoggedIn(stream'[t])
  <2>1. t = s
    BY <1>3, OneStream
  <2>. QED  BY <1>1, <1>3, <2>1
<1>. QED  BY <1>2, <1>3 DEF LoginsInv

LEMMA AdvanceKeeps ==
  ASSUME IInv, NEW s \in Streams, stream[s] # Idle, NEW node, NEW v, Leads(s, node, v),
         Spends(s, v), Grants(Drive(node, v, NoAnswer, "nothing")),
         MayStillAct(stream[s].vals, v)
  PROVE  IInv'
PROOF
<1>. DEFINE d == Drive(node, v, NoAnswer, "nothing")
            u == stream[s].vals
<1>1. /\ stream' = [stream EXCEPT ![s] = d] /\ saved' = Checkpoint(node, v, FALSE)
      /\ graph' = graph /\ backend' = backend /\ runs' = runs /\ resumes' = resumes
      /\ careless' = careless /\ answers' = answers /\ asks' = asks
      /\ effects' = effects /\ logins' = logins
  BY DEF Leads, Advance, bounds
<1>2. d.pc = node /\ d.vals = v /\ d.answer = NoAnswer /\ d.did = "nothing"
  BY DriveFields
<1>3. saved'.next = node /\ saved'.vals = v /\ saved'.waits = FALSE
  BY <1>1 DEF Checkpoint
<1>4. Fits(graph, node, v) /\ v.run = u.run /\ node # "end"
  BY DEF Leads
<1>14. d # Idle
  BY <1>4, StoresFacts, FittingNode, DriveFields
<1>5. Driven(graph, runs, d)
  BY <1>2, <1>4, DrivenFacts DEF Driven, Deeds
<1>6. StreamsInv'
  <2>1. runs' >= runs /\ runs' \in Nat
    BY <1>1, StoresFacts
  <2>2. Driven(graph', runs', d)
    BY <1>1, <1>5
  <2>. HIDE DEF d
  <2>. QED  BY <1>1, <2>1, <2>2, StreamsStay
<1>7. SavedInv'
  <2>1. saved' = Checkpoint(saved'.next, saved'.vals, saved'.waits)
    BY <1>1, <1>3
  <2>2. v.run <= runs
    BY <1>4, DrivenFacts
  <2>3. Kept(graph', runs', saved')
    BY <1>1, <1>3, <1>4, <2>1, <2>2 DEF Kept
  <2>. QED  BY <2>3 DEF SavedInv
<1>8. stream'[s] = d
  BY <1>1, StreamMoves
<1>9. CarefulInv'
  <2>1. ASSUME ~careless, NEW t \in Streams, stream'[t] # Idle  PROVE t = s
    BY <2>1, <1>1, OneStream
  <2>. QED  BY <1>1, <1>2, <1>3, <1>8, <2>1 DEF CarefulInv
<1>10. LoginsInv'
  <2>. SUFFICES ASSUME ~careless  PROVE LoginsInv'
    BY <1>1 DEF LoginsInv
  <2>1. LoginsAreBounded'
    BY <1>1 DEF IInv, LoginsInv, LoginsAreBounded
  <2>2. ASSUME graph = "recovery"
        PROVE  logins[v.run] + 0 <= Paid(asks, answers, v) + LoggedIn(d)
    <3>1. logins[u.run] + Answered <= Paid(asks, answers, u) + LoggedIn(stream[s])
      BY <2>2 DEF IInv, LoginsInv
    <3>2. LoggedIn(stream[s]) = 1 /\ stream[s].answer # NoAnswer => Answered = 1
      BY DEF IInv, CarefulInv, Answered
    <3>3. Paid(asks, answers, u) = u.attempts + asks[u.run] + answers[u.run]
          /\ Paid(asks, answers, v) = v.attempts + asks[u.run] + answers[u.run]
      BY <1>4 DEF Paid
    <3>4. Answered \in {0, 1} /\ LoggedIn(stream[s]) \in {0, 1} /\ LoggedIn(d) = 0
      BY <1>2 DEF Answered, LoggedIn
    <3>5. v \in RecoveryValues
      BY <1>4, <2>2 DEF Fits, RecoveryAt
    <3>6. v.attempts \in Nat
      BY <3>5, RecoveryAssumption DEF RecoveryValues
    <3>7. logins[u.run] \in Nat /\ asks[u.run] \in Nat /\ answers[u.run] \in Nat
          /\ u.attempts \in Nat
      BY <2>2, DrivenFacts
    <3>8. u.attempts <= v.attempts
          /\ (LoggedIn(stream[s]) = 1 =>
                v.attempts = u.attempts + 1 \/ stream[s].answer # NoAnswer)
      BY <2>2 DEF Spends
    <3>. HIDE DEF d, u
    <3>9. logins[u.run] <= Paid(asks, answers, v)
      BY <3>1, <3>2, <3>3, <3>4, <3>6, <3>7, <3>8
    <3>10. Paid(asks, answers, v) \in Nat
      BY <3>3, <3>6, <3>7
    <3>11. logins[v.run] = logins[u.run]
      BY <1>4 DEF u
    <3>. QED  BY <3>4, <3>7, <3>9, <3>10, <3>11
  <2>3. Answered' = 0
    BY <1>3 DEF Answered
  <2>4. graph = "recovery" =>
          logins'[d.vals.run] + Answered' <= Paid(asks', answers', d.vals) + LoggedIn(d)
    BY <1>1, <1>2, <2>2, <2>3
  <2>. HIDE DEF d
  <2>. QED  BY <1>1, <1>14, <2>1, <2>4, LoginsStay
<1>11. GrantsInv'
  <2>. SUFFICES ASSUME ~careless, NEW e \in Entries
                PROVE  Times(effects', e) + Open(e)' <= Times(granted', e)
    BY <1>1 DEF GrantsInv
  <2>1. Times(effects, e) + Open(e) <= Times(granted, e)
    BY DEF IInv, GrantsInv
  <2>2. Open(e)' = IF e \in Permits(graph, d) THEN 1 ELSE 0
    BY <1>1, OneOpen
  <2>3. Times(granted, e) + (IF e \in Permits(graph, d) THEN 1 ELSE 0) <= Times(granted', e)
        /\ granted' \in Seq(Entries)
    BY GrantedGrows
  <2>4. Open(e) \in {0, 1}
    BY DEF Open
  <2>5. Times(effects, e) \in Nat /\ Times(granted, e) \in Nat /\ Times(granted', e) \in Nat
    BY <2>3, StoresFacts, TimesIsNat
  <2>6. Times(effects', e) = Times(effects, e)
    BY <1>1
  <2>. HIDE DEF d
  <2>. QED  BY <2>1, <2>2, <2>3, <2>4, <2>5, <2>6
<1>12. ActsInv'
  <2>. SUFFICES ASSUME ~careless, Acted(v.run)'
                PROVE  MayAct(graph, v)
    BY <1>1, <1>3 DEF ActsInv, MayAct
  <2>1. saved.vals = u /\ saved.next = stream[s].pc
    BY DEF IInv, CarefulInv
  <2>2. stream[s].pc # "none"
    BY DrivenFacts, FittingNode, StoresFacts
  <2>3. saved # NoCheckpoint
    BY <2>1, <2>2 DEF NoCheckpoint, Checkpoint
  <2>4. Acted(u.run)
    BY <1>1, <1>4 DEF Acted, Effects
  <2>5. MayAct(graph, u)
    BY <2>1, <2>3, <2>4 DEF IInv, ActsInv
  <2>. QED  BY <2>5 DEF MayStillAct
<1>13. StoresInv'
  <2>1. granted' \in Seq(Entries)
    BY GrantedGrows
  <2>. QED  BY <1>1, <2>1 DEF IInv, StoresInv
<1>. QED  BY <1>6, <1>7, <1>9, <1>10, <1>11, <1>12, <1>13 DEF IInv

\* A stream that acts may do so.
LEMMA ActorMayAct ==
  ASSUME IInv, NEW s \in Streams, stream[s] # Idle,
         \/ graph = "recovery" /\ stream[s].pc = "attempt_recovery"
         \/ graph = "content" /\ stream[s].pc = "schedule_draft"
  PROVE  MayAct(graph, stream[s].vals)
PROOF
<1>1. Fits(graph, stream[s].pc, stream[s].vals)
  BY DrivenFacts
<1>2. CASE graph = "recovery" /\ stream[s].pc = "attempt_recovery"
  BY <1>1, <1>2 DEF Fits, RecoveryAt, MayAct
<1>3. CASE graph = "content" /\ stream[s].pc = "schedule_draft"
  BY <1>1, <1>3 DEF Fits, ContentAt, MayAct
<1>. QED  BY <1>2, <1>3

\* A login is tried by an attempt, and an attempt has not used up the limit.
Tries(s, what) ==
  \/ logins' = logins
  \/ /\ logins' = Counted(logins, stream[s].vals.run)
     /\ graph = "recovery" /\ stream[s].pc = "attempt_recovery"
     /\ what \in {"relogin", "requires_2fa"}

LEMMA DidKeeps ==
  ASSUME IInv, NEW s \in Streams, stream[s] # Idle, stream[s].did = "nothing",
         stream[s].pc \in {"attempt_recovery", "schedule_draft"},
         NEW what \in Deeds \ {"nothing"}, Did(s, what),
         UNCHANGED <<bounds, asks, granted>>, Tries(s, what),
         effects' = effects \/ \E e \in Permits(graph, stream[s]) : effects' = Append(effects, e)
  PROVE  IInv'
PROOF
<1>. DEFINE u == stream[s].vals
            d == Drive(stream[s].pc, u, stream[s].answer, what)
<1>1. Driven(graph, runs, stream[s])
  BY DrivenFacts
<1>2. stream' = [stream EXCEPT ![s] = d]
  <2>1. stream[s] = [pc |-> stream[s].pc, vals |-> u, answer |-> stream[s].answer,
                     did |-> stream[s].did]
    BY <1>1 DEF Driven, Drive
  <2>2. [stream[s] EXCEPT !.did = what] = d
    BY <2>1 DEF Drive
  <2>3. stream' = [stream EXCEPT ![s] = [stream[s] EXCEPT !.did = what]]
    BY DEF Did
  <2>. QED  BY <2>2, <2>3
<1>3. /\ saved' = saved /\ graph' = graph /\ backend' = backend /\ runs' = runs
      /\ resumes' = resumes /\ careless' = careless /\ answers' = answers /\ asks' = asks
      /\ granted' = granted
  BY DEF Did, bounds
<1>4. d.pc = stream[s].pc /\ d.vals = u /\ d.answer = stream[s].answer /\ d.did = what
  BY DriveFields
<1>5. Driven(graph, runs, d)
  BY <1>1, <1>4 DEF Driven
<1>6. d # Idle
  BY <1>4, DrivenFacts, StoresFacts, FittingNode DEF Idle, Drive
<1>7. stream'[s] = d
  BY <1>2, StreamMoves
<1>8. StreamsInv'
  <2>1. runs' >= runs /\ runs' \in Nat
    BY <1>3, StoresFacts
  <2>2. Driven(graph', runs', d)
    BY <1>3, <1>5
  <2>. HIDE DEF d
  <2>. QED  BY <1>2, <1>3, <2>1, <2>2, StreamsStay
<1>9. SavedInv'
  BY <1>3 DEF IInv, SavedInv
<1>10. CarefulInv'
  <2>. SUFFICES ASSUME ~careless  PROVE CarefulInv'
    BY <1>3 DEF CarefulInv
  <2>1. ASSUME NEW t \in Streams, stream'[t] # Idle  PROVE t = s
    BY <2>1, <1>2, OneStream
  <2>2. saved.next = stream[s].pc /\ saved.vals = u /\ (stream[s].answer # NoAnswer => saved.waits)
    BY DEF IInv, CarefulInv
  <2>. QED  BY <1>3, <1>4, <1>7, <2>1, <2>2 DEF CarefulInv
<1>11. /\ u.run \in 1..MaxRuns /\ u.run <= runs /\ logins[u.run] \in Nat
       /\ asks[u.run] \in Nat /\ answers[u.run] \in Nat
  BY DrivenFacts
<1>12. logins' \in [1..MaxRuns -> Nat] /\ \A r \in 1..MaxRuns : r > runs => logins'[r] = 0
  <2>1. CASE logins' = logins
    BY <2>1 DEF IInv, StoresInv
  <2>2. CASE logins' = [logins EXCEPT ![u.run] = logins[u.run] + 1]
    <3>1. logins \in [1..MaxRuns -> Nat] /\ \A r \in 1..MaxRuns : r > runs => logins[r] = 0
      BY DEF IInv, StoresInv
    <3>2. \A r \in 1..MaxRuns : r > runs => r # u.run
      BY <1>11, StoresFacts
    <3>. QED  BY <2>2, <3>1, <3>2, <1>11
  <2>. QED  BY <2>1, <2>2 DEF Tries, Counted
<1>13. LoginsInv'
  <2>. SUFFICES ASSUME ~careless  PROVE LoginsInv'
    BY <1>3 DEF LoginsInv
  <2>1. Answered' = Answered /\ Answered \in {0, 1}
    BY <1>3 DEF Answered
  <2>2. graph = "recovery" =>
          logins[u.run] + Answered <= Paid(asks, answers, u)
    <3>1. LoggedIn(stream[s]) = 0
      BY DEF LoggedIn
    <3>2. graph = "recovery" =>
            logins[u.run] + Answered <= Paid(asks, answers, u) + LoggedIn(stream[s])
      BY DEF IInv, LoginsInv
    <3>3. graph = "recovery" => Paid(asks, answers, u) \in Nat
      BY DrivenFacts
    <3>. QED  BY <3>1, <3>2, <3>3
  <2>3. graph = "recovery" => Paid(asks, answers, u) = u.attempts + asks[u.run] + answers[u.run]
                              /\ u.attempts \in Nat
    BY DrivenFacts DEF Paid
  <2>4. CASE logins' = logins
    <3>1. LoginsAreBounded'
      BY <1>3, <2>4 DEF IInv, LoginsInv, LoginsAreBounded
    <3>2. LoggedIn(d) \in {0, 1}
      BY DEF LoggedIn
    <3>3. graph = "recovery" =>
            logins'[d.vals.run] + Answered' <= Paid(asks', answers', d.vals) + LoggedIn(d)
      <4>1. /\ Paid(asks', answers', d.vals) = Paid(asks, answers, u)
            /\ logins'[d.vals.run] = logins[u.run]
        BY <1>3, <1>4, <2>4
      <4>. HIDE DEF d, u
      <4>. QED  BY <1>11, <2>1, <2>2, <2>3, <3>2, <4>1
    <3>. HIDE DEF d
    <3>. QED  BY <1>2, <1>3, <1>6, <3>1, <3>3, LoginsStay
  <2>5. CASE /\ logins' = Counted(logins, u.run)
             /\ graph = "recovery" /\ stream[s].pc = "attempt_recovery"
             /\ what \in {"relogin", "requires_2fa"}
    <3>1. logins'[u.run] = logins[u.run] + 1
          /\ \A r \in 1..MaxRuns : r # u.run => logins'[r] = logins[r]
      BY <1>11, <2>5, StoresFacts DEF Counted
    <3>2. u.attempts < MaxAttempts
      BY <2>5, DrivenFacts DEF Fits, RecoveryAt
    <3>3. LoginsAreBounded'
      <4>. SUFFICES ASSUME NEW r \in 1..MaxRuns
                    PROVE  logins'[r] <= MaxAttempts + asks[r] + answers[r]
        BY <1>3 DEF LoginsAreBounded
      <4>1. CASE r # u.run
        BY <3>1, <4>1 DEF IInv, LoginsInv, LoginsAreBounded
      <4>2. CASE r = u.run
        <5>1. logins'[r] = logins[u.run] + 1 /\ asks[r] = asks[u.run]
              /\ answers[r] = answers[u.run]
          BY <3>1, <4>2
        <5>2. graph = "recovery" /\ MaxAttempts \in Nat
          BY <2>5, RecoveryAssumption
        <5>. HIDE DEF u, d
        <5>3. logins[u.run] <= u.attempts + asks[u.run] + answers[u.run]
          BY <1>11, <2>1, <2>2, <2>3, <5>2
        <5>. QED  BY <1>11, <2>3, <3>2, <5>1, <5>2, <5>3
      <4>. QED  BY <4>1, <4>2
    <3>4. LoggedIn(d) = 1
      BY <1>4, <2>5 DEF LoggedIn
    <3>5. graph = "recovery" =>
            logins'[d.vals.run] + Answered' <= Paid(asks', answers', d.vals) + LoggedIn(d)
      <4>1. /\ Paid(asks', answers', d.vals) = Paid(asks, answers, u)
            /\ logins'[d.vals.run] = logins[u.run] + 1
        BY <1>3, <1>4, <3>1
      <4>. HIDE DEF d, u
      <4>. QED  BY <1>11, <2>1, <2>2, <2>3, <3>4, <4>1
    <3>. HIDE DEF d
    <3>. QED  BY <1>2, <1>3, <1>6, <3>3, <3>5, LoginsStay
  <2>. QED  BY <2>4, <2>5 DEF Tries
<1>14. ASSUME NEW e \in Permits(graph, stream[s]), effects' = Append(effects, e)
       PROVE  /\ effects' \in Seq(Entries)
              /\ \A i \in DOMAIN effects' :
                   effects'[i] = e \/ (i \in DOMAIN effects /\ effects'[i] = effects[i])
              /\ e \in Entries /\ e.run = u.run
  <2>1. e \in Entries /\ e.run = u.run
    BY DEF Permits
  <2>. QED  BY <1>14, <2>1, StoresFacts, AppendIsLog
<1>15. effects' \in Seq(Entries) /\ \A i \in DOMAIN effects' : effects'[i].run <= runs
  <2>1. effects \in Seq(Entries) /\ \A i \in DOMAIN effects : effects[i].run <= runs
    BY DEF IInv, StoresInv
  <2>. QED  BY <1>11, <1>14, <2>1
<1>16. GrantsInv'
  <2>. SUFFICES ASSUME ~careless, NEW e \in Entries
                PROVE  Times(effects', e) + Open(e)' <= Times(granted, e)
    BY <1>3 DEF GrantsInv
  <2>1. Times(effects, e) + Open(e) <= Times(granted, e)
    BY DEF IInv, GrantsInv
  <2>2. Open(e) = IF e \in Permits(graph, stream[s]) THEN 1 ELSE 0
    BY <1>2, <1>3, OneOpen
  <2>3. Open(e)' = 0
    <3>1. Permits(graph, d) = {}
      BY <1>4 DEF Permits
    <3>. HIDE DEF d
    <3>2. Open(e)' = IF e \in Permits(graph, d) THEN 1 ELSE 0
      BY <1>2, <1>3, OneOpen
    <3>. QED  BY <3>1, <3>2
  <2>4. Times(effects, e) \in Nat /\ Times(granted, e) \in Nat
    BY StoresFacts, TimesIsNat
  <2>5. CASE effects' = effects
    BY <2>1, <2>2, <2>3, <2>4, <2>5
  <2>6. ASSUME NEW f \in Permits(graph, stream[s]), effects' = Append(effects, f)
        PROVE  Times(effects', e) + Open(e)' <= Times(granted, e)
    <3>1. Times(Append(effects, f), e) = Times(effects, e) + (IF f = e THEN 1 ELSE 0)
      BY <1>14, <2>6, StoresFacts, TimesOfAppend
    <3>2. f = e => Open(e) = 1
      BY <2>2
    <3>3. Open(e) \in {0, 1}
      BY <2>2
    <3>. QED  BY <2>1, <2>3, <2>4, <2>6, <3>1, <3>2, <3>3
  <2>. QED  BY <2>5, <2>6
<1>17. ActsInv'
  <2>. SUFFICES ASSUME ~careless, saved # NoCheckpoint, Acted(saved.vals.run)'
                PROVE  MayAct(graph, saved.vals)
    BY <1>3 DEF ActsInv, MayAct
  <2>1. CASE effects' = effects /\ logins' = logins
    <3>1. Acted(saved.vals.run)
      BY <1>3, <2>1 DEF Acted, Effects
    <3>. QED  BY <3>1 DEF IInv, ActsInv
  <2>2. CASE \/ graph = "recovery" /\ stream[s].pc = "attempt_recovery"
             \/ graph = "content" /\ stream[s].pc = "schedule_draft"
    BY <2>2, ActorMayAct DEF IInv, CarefulInv
  <2>3. ASSUME NEW f \in Permits(graph, stream[s])
        PROVE  \/ graph = "recovery" /\ stream[s].pc = "attempt_recovery"
               \/ graph = "content" /\ stream[s].pc = "schedule_draft"
    BY DEF Permits
  <2>. QED  BY <2>1, <2>2, <2>3 DEF Tries
<1>18. StoresInv'
  BY <1>3, <1>12, <1>15 DEF IInv, StoresInv
<1>. QED  BY <1>8, <1>9, <1>10, <1>13, <1>16, <1>17, <1>18 DEF IInv

\* Streams are left; a checkpoint that waits is paid for.
LEMMA LeavingKeeps ==
  ASSUME IInv,
         stream' = [t \in Streams |-> stream'[t]],
         \A t \in Streams : stream'[t] = Idle \/ stream'[t] = stream[t],
         ~careless => \A t \in Streams : stream'[t] = Idle,
         UNCHANGED <<bounds, granted, effects, logins>>,
         asks' \in [1..MaxRuns -> Nat], \A r \in 1..MaxRuns : asks[r] <= asks'[r],
         saved' = NoCheckpoint \/ Kept(graph, runs, saved'),
         ~careless /\ graph = "recovery" /\ saved'.waits =>
           logins[saved'.vals.run] <= Paid(asks', answers, saved'.vals),
         ~careless /\ saved' # NoCheckpoint =>
           (Acted(saved'.vals.run) => MayAct(graph, saved'.vals))
  PROVE  IInv'
PROOF
<1>1. /\ graph' = graph /\ backend' = backend /\ runs' = runs /\ resumes' = resumes
      /\ careless' = careless /\ answers' = answers /\ granted' = granted
      /\ effects' = effects /\ logins' = logins
  BY DEF bounds
<1>2. StoresInv'
  BY <1>1 DEF IInv, StoresInv
<1>3. StreamsInv'
  BY <1>1 DEF IInv, StreamsInv
<1>4. SavedInv'
  BY <1>1 DEF SavedInv
<1>5. CarefulInv'
  BY <1>1 DEF CarefulInv
<1>6. LoginsInv'
  <2>. SUFFICES ASSUME ~careless  PROVE LoginsInv'
    BY <1>1 DEF LoginsInv
  <2>1. LoginsAreBounded'
    <3>. SUFFICES ASSUME NEW r \in 1..MaxRuns
                  PROVE  logins[r] <= MaxAttempts + asks'[r] + answers[r]
      BY <1>1 DEF LoginsAreBounded
    <3>1. logins[r] <= MaxAttempts + asks[r] + answers[r]
      BY DEF IInv, LoginsInv, LoginsAreBounded
    <3>2. logins[r] \in Nat /\ asks[r] \in Nat /\ answers[r] \in Nat /\ asks'[r] \in Nat
          /\ MaxAttempts \in Nat
      BY StoresFacts, RecoveryAssumption
    <3>. QED  BY <3>1, <3>2
  <2>. QED  BY <1>1, <2>1 DEF LoginsInv
<1>7. GrantsInv'
  <2>. SUFFICES ASSUME ~careless, NEW e \in Entries
                PROVE  Times(effects, e) + Open(e)' <= Times(granted, e)
    BY <1>1 DEF GrantsInv
  <2>1. Times(effects, e) + Open(e) <= Times(granted, e)
    BY DEF IInv, GrantsInv
  <2>2. Open(e)' = 0
    BY <1>1, IdlePermits DEF Open
  <2>3. Open(e) \in {0, 1}
    BY DEF Open
  <2>4. Times(effects, e) \in Nat /\ Times(granted, e) \in Nat
    BY StoresFacts, TimesIsNat
  <2>. QED  BY <2>1, <2>2, <2>3, <2>4
<1>8. ActsInv'
  BY <1>1 DEF ActsInv, Acted, Effects, MayAct
<1>. QED  BY <1>2, <1>3, <1>4, <1>5, <1>6, <1>7, <1>8 DEF IInv

LEMMA OneLeaves ==
  ASSUME IInv, NEW s \in Streams, stream[s] # Idle, stream' = [stream EXCEPT ![s] = Idle]
  PROVE  /\ stream' = [t \in Streams |-> stream'[t]]
         /\ \A t \in Streams : stream'[t] = Idle \/ stream'[t] = stream[t]
         /\ ~careless => \A t \in Streams : stream'[t] = Idle
PROOF
<1>1. ~careless => \A t \in Streams : t # s => stream[t] = Idle /\ stream'[t] = Idle
  BY OneStream
<1>. QED  BY <1>1, StreamMoves

\* Whoever stops can be asked to go on: what the checkpoint waits for is paid for.
LEMMA WaitingIsPaid ==
  ASSUME IInv, ~careless, graph = "recovery", saved.waits
  PROVE  logins[saved.vals.run] <= Paid(asks, answers, saved.vals)
PROOF
<1>1. CASE ~Busy
  BY <1>1 DEF IInv, LoginsInv
<1>2. ASSUME NEW s \in Streams, stream[s] # Idle
      PROVE  logins[saved.vals.run] <= Paid(asks, answers, saved.vals)
  <2>1. saved.vals = stream[s].vals
    BY <1>2 DEF IInv, CarefulInv
  <2>2. logins[saved.vals.run] + Answered
          <= Paid(asks, answers, saved.vals) + LoggedIn(stream[s])
    BY <1>2, <2>1 DEF IInv, LoginsInv
  <2>3. Answered = 1 /\ LoggedIn(stream[s]) \in {0, 1}
    BY DEF Answered, LoggedIn
  <2>4. logins[saved.vals.run] \in Nat /\ Paid(asks, answers, saved.vals) \in Nat
    BY <1>2, <2>1, DrivenFacts
  <2>. QED  BY <2>2, <2>3, <2>4
<1>. QED  BY <1>1, <1>2 DEF Busy

LEMMA NoneWaits == NoCheckpoint.waits = FALSE /\ NoCheckpoint.next = "none"
PROOF
<1>. QED  BY DEF NoCheckpoint, Checkpoint

LEMMA NothingAsked ==
  ASSUME IInv, asks' = asks
  PROVE  asks' \in [1..MaxRuns -> Nat] /\ \A r \in 1..MaxRuns : asks[r] <= asks'[r]
PROOF
<1>1. asks \in [1..MaxRuns -> Nat]
  BY StoresFacts
<1>2. \A r \in 1..MaxRuns : asks[r] \in Nat
  BY <1>1
<1>. QED  BY <1>1, <1>2

LEMMA BreakKeeps ==
  ASSUME IInv, NEW s \in Streams, Break(s)
  PROVE  IInv'
PROOF
<1>1. stream[s] # Idle /\ stream' = [stream EXCEPT ![s] = Idle] /\ saved' = saved
      /\ UNCHANGED <<bounds, granted, effects, logins>> /\ asks' = asks
  BY DEF Break
<1>2. saved' = NoCheckpoint \/ Kept(graph, runs, saved')
  BY <1>1 DEF IInv, SavedInv
<1>3. ~careless /\ graph = "recovery" /\ saved'.waits =>
        logins[saved'.vals.run] <= Paid(asks', answers, saved'.vals)
  BY <1>1, WaitingIsPaid
<1>4. ~careless /\ saved' # NoCheckpoint =>
        (Acted(saved'.vals.run) => MayAct(graph, saved'.vals))
  BY <1>1 DEF IInv, ActsInv
<1>5. asks' \in [1..MaxRuns -> Nat] /\ \A r \in 1..MaxRuns : asks[r] <= asks'[r]
  BY <1>1, NothingAsked
<1>. QED  BY <1>1, <1>2, <1>3, <1>4, <1>5, OneLeaves, LeavingKeeps

LEMMA RestartKeeps == ASSUME IInv, Restart  PROVE IInv'
PROOF
<1>1. /\ saved' = NoCheckpoint \/ saved' = saved
      /\ stream' = [t \in Streams |-> Idle]
      /\ UNCHANGED <<bounds, granted, effects, logins>> /\ asks' = asks
  BY DEF Restart
<1>2. stream' = [t \in Streams |-> stream'[t]] /\ \A t \in Streams : stream'[t] = Idle
  BY <1>1
<1>3. saved' = NoCheckpoint \/ Kept(graph, runs, saved')
  BY <1>1 DEF IInv, SavedInv
<1>4. ~careless /\ graph = "recovery" /\ saved'.waits =>
        logins[saved'.vals.run] <= Paid(asks', answers, saved'.vals)
  BY <1>1, WaitingIsPaid, NoneWaits
<1>5. ~careless /\ saved' # NoCheckpoint =>
        (Acted(saved'.vals.run) => MayAct(graph, saved'.vals))
  BY <1>1 DEF IInv, ActsInv
<1>6. asks' \in [1..MaxRuns -> Nat] /\ \A r \in 1..MaxRuns : asks[r] <= asks'[r]
  BY <1>1, NothingAsked
<1>. QED  BY <1>1, <1>2, <1>3, <1>4, <1>5, <1>6, LeavingKeeps

LEMMA EndRunKeeps ==
  ASSUME IInv, NEW s \in Streams, stream[s] # Idle, NEW v, EndRun(s, v),
         Fits(graph, "end", v), v.run = stream[s].vals.run,
         MayStillAct(stream[s].vals, v)
  PROVE  IInv'
PROOF
<1>1. /\ stream' = [stream EXCEPT ![s] = Idle] /\ saved' = Checkpoint("end", v, FALSE)
      /\ UNCHANGED <<bounds, granted, effects, logins>> /\ asks' = asks
  BY DEF EndRun
<1>2. saved'.next = "end" /\ saved'.vals = v /\ saved'.waits = FALSE
  BY <1>1 DEF Checkpoint
<1>3. v.run <= runs
  BY DrivenFacts
<1>4. saved' = Checkpoint(saved'.next, saved'.vals, saved'.waits)
  BY <1>1, <1>2
<1>5. Kept(graph, runs, saved')
  BY <1>2, <1>3, <1>4 DEF Kept
<1>6. ASSUME ~careless, Acted(v.run)  PROVE MayAct(graph, v)
  <2>1. saved.vals = stream[s].vals /\ saved.next = stream[s].pc
    BY <1>6 DEF IInv, CarefulInv
  <2>2. stream[s].pc # "none"
    BY DrivenFacts, FittingNode, StoresFacts
  <2>3. saved # NoCheckpoint
    BY <2>1, <2>2, NoneWaits
  <2>4. MayAct(graph, stream[s].vals)
    BY <1>6, <2>1, <2>3 DEF IInv, ActsInv
  <2>. QED  BY <1>6, <2>4 DEF MayStillAct
<1>7. asks' \in [1..MaxRuns -> Nat] /\ \A r \in 1..MaxRuns : asks[r] <= asks'[r]
  BY <1>1, NothingAsked
<1>. QED  BY <1>1, <1>2, <1>5, <1>6, <1>7, OneLeaves, LeavingKeeps

LEMMA InterruptKeeps ==
  ASSUME IInv, NEW s \in Streams, stream[s] # Idle, Interrupt(s),
         Asking(graph, stream[s].pc, stream[s].vals),
         UNCHANGED <<bounds, granted, effects, logins>>
  PROVE  IInv'
PROOF
<1>. DEFINE u == stream[s].vals
<1>1. /\ stream' = [stream EXCEPT ![s] = Idle]
      /\ saved' = [saved EXCEPT !.waits = @ \/ (saved.next = stream[s].pc /\ saved.vals = u)]
      /\ asks' = [asks EXCEPT ![u.run] = asks[u.run] + 1]
  BY DEF Interrupt, Counted
<1>2. u.run \in 1..MaxRuns /\ asks[u.run] \in Nat /\ stream[s].pc # "none"
  BY DrivenFacts, FittingNode, StoresFacts
<1>3. /\ asks' \in [1..MaxRuns -> Nat] /\ \A r \in 1..MaxRuns : asks[r] <= asks'[r]
      /\ asks'[u.run] = asks[u.run] + 1
  <2>1. asks \in [1..MaxRuns -> Nat]
    BY StoresFacts
  <2>. HIDE DEF u
  <2>2. /\ asks' \in [1..MaxRuns -> Nat] /\ asks'[u.run] = asks[u.run] + 1
        /\ \A r \in 1..MaxRuns : r # u.run => asks'[r] = asks[r]
    BY <1>1, <1>2, <2>1
  <2>3. \A r \in 1..MaxRuns : asks[r] \in Nat
    BY <2>1
  <2>. QED  BY <1>2, <2>2, <2>3
<1>4. CASE saved = NoCheckpoint
  <2>1. ~(saved.next = stream[s].pc)
    BY <1>2, <1>4, NoneWaits
  <2>2. saved' = NoCheckpoint
    BY <1>1, <1>4, <2>1 DEF NoCheckpoint, Checkpoint
  <2>. QED  BY <1>1, <1>3, <2>2, NoneWaits, OneLeaves, LeavingKeeps
<1>5. CASE saved # NoCheckpoint
  <2>1. Kept(graph, runs, saved)
    BY <1>5 DEF IInv, SavedInv
  <2>2. saved = [next |-> saved.next, vals |-> saved.vals, waits |-> saved.waits]
    BY <2>1 DEF Kept, Checkpoint
  <2>3. /\ saved'.next = saved.next /\ saved'.vals = saved.vals
        /\ saved'.waits = (saved.waits \/ (saved.next = stream[s].pc /\ saved.vals = u))
        /\ saved' = [next |-> saved'.next, vals |-> saved'.vals, waits |-> saved'.waits]
    BY <1>1, <2>2
  <2>4. Kept(graph, runs, saved')
    BY <2>1, <2>3 DEF Kept, Checkpoint
  <2>5. ASSUME ~careless, graph = "recovery"
        PROVE  logins[saved'.vals.run] <= Paid(asks', answers, saved'.vals)
    <3>1. saved'.vals = u
      BY <2>3, <2>5 DEF IInv, CarefulInv
    <3>2. logins[u.run] + Answered <= Paid(asks, answers, u) + LoggedIn(stream[s])
      BY <2>5 DEF IInv, LoginsInv
    <3>3. Answered \in {0, 1} /\ LoggedIn(stream[s]) \in {0, 1}
      BY DEF Answered, LoggedIn
    <3>4. Paid(asks, answers, u) = u.attempts + asks[u.run] + answers[u.run]
          /\ Paid(asks', answers, u) = u.attempts + (asks[u.run] + 1) + answers[u.run]
      BY <1>3 DEF Paid
    <3>5. u.attempts \in Nat /\ answers[u.run] \in Nat /\ logins[u.run] \in Nat
      BY <2>5, DrivenFacts
    <3>6. logins[u.run] <= Paid(asks', answers, u)
      <4>. HIDE DEF u
      <4>. QED  BY <1>2, <3>2, <3>3, <3>4, <3>5
    <3>. QED  BY <3>1, <3>6
  <2>6. ~careless => (Acted(saved'.vals.run) => MayAct(graph, saved'.vals))
    BY <1>5, <2>3 DEF IInv, ActsInv
  <2>. QED  BY <1>1, <1>3, <2>4, <2>5, <2>6, OneLeaves, LeavingKeeps
<1>. QED  BY <1>4, <1>5

-----------------------------------------------------------------------------
(* The POSTs.                                                                 *)

LEMMA OneBegins ==
  ASSUME IInv, NEW s \in Streams, ~Busy, graph' = graph,
         NEW d, stream' = [stream EXCEPT ![s] = d], Permits(graph, d) = {}
  PROVE  /\ stream'[s] = d /\ \A t \in Streams : t # s => stream'[t] = Idle
         /\ \A e \in Entries : Open(e)' = 0
PROOF
<1>1. \A t \in Streams : stream[t] = Idle
  BY DEF Busy
<1>2. stream'[s] = d /\ \A t \in Streams : t # s => stream'[t] = Idle
  BY <1>1, StreamMoves
<1>3. \A t \in Streams : Permits(graph', stream'[t]) = {}
  BY <1>2, IdlePermits
<1>. QED  BY <1>2, <1>3 DEF Open

LEMMA NothingMoreOpen ==
  ASSUME IInv, ~careless, \A e \in Entries : Open(e)' = 0,
         granted' = granted, effects' = effects
  PROVE  GrantsInv'
PROOF
<1>. SUFFICES ASSUME NEW e \in Entries
              PROVE  Times(effects, e) + Open(e)' <= Times(granted, e)
  BY DEF GrantsInv
<1>1. Times(effects, e) + Open(e) <= Times(granted, e)
  BY DEF IInv, GrantsInv
<1>2. Open(e) \in {0, 1}
  BY DEF Open
<1>3. Times(effects, e) \in Nat /\ Times(granted, e) \in Nat
  BY StoresFacts, TimesIsNat
<1>. QED  BY <1>1, <1>2, <1>3

LEMMA StartRunKeeps ==
  ASSUME IInv, NEW s \in Streams, NEW node, NEW v, StartRun(s, graph, node, v),
         runs < MaxRuns => Fits(graph, node, v), node # "end", v.run = runs + 1,
         graph = "recovery" => v.attempts = 0,
         Permits(graph, Drive(node, v, NoAnswer, "nothing")) = {}
  PROVE  IInv'
PROOF
<1>. DEFINE d == Drive(node, v, NoAnswer, "nothing")
<1>1. /\ runs < MaxRuns /\ runs' = runs + 1
      /\ stream' = [stream EXCEPT ![s] = d] /\ saved' = Checkpoint(node, v, FALSE)
      /\ careless' = (careless \/ Busy)
      /\ graph' = graph /\ backend' = backend /\ resumes' = resumes /\ asks' = asks
      /\ answers' = answers /\ granted' = granted /\ effects' = effects /\ logins' = logins
  BY DEF StartRun
<1>2. /\ runs' \in 0..MaxRuns /\ runs' \in Nat /\ runs' >= runs /\ v.run \in 1..MaxRuns
      /\ v.run <= runs'
  BY <1>1, StoresFacts
<1>3. d.pc = node /\ d.vals = v /\ d.answer = NoAnswer /\ d.did = "nothing"
  BY DriveFields
<1>4. saved'.next = node /\ saved'.vals = v /\ saved'.waits = FALSE
      /\ saved' = Checkpoint(saved'.next, saved'.vals, saved'.waits)
  BY <1>1 DEF Checkpoint
<1>5. Fits(graph, node, v)
  BY <1>1
<1>6. Driven(graph', runs', d)
  BY <1>1, <1>2, <1>3, <1>5 DEF Driven, Deeds
<1>7. d # Idle
  BY <1>5, StoresFacts, FittingNode, DriveFields
<1>8. StreamsInv'
  <2>. HIDE DEF d
  <2>. QED  BY <1>1, <1>2, <1>6, StreamsStay
<1>9. SavedInv'
  <2>1. Kept(graph', runs', saved')
    BY <1>1, <1>2, <1>4, <1>5 DEF Kept
  <2>. QED  BY <2>1 DEF SavedInv
<1>10. StoresInv'
  <2>1. \A i \in DOMAIN effects : effects[i].run <= runs'
    <3>1. effects \in Seq(Entries) /\ \A i \in DOMAIN effects : effects[i].run <= runs
      BY DEF IInv, StoresInv
    <3>2. ASSUME NEW i \in DOMAIN effects  PROVE effects[i].run \in Nat
      <4>1. effects[i] \in Entries
        BY <3>1
      <4>. QED  BY <4>1, GraphAssumption DEF Entries
    <3>. QED  BY <1>1, <1>2, <3>1, <3>2, StoresFacts
  <2>2. \A r \in 1..MaxRuns : r > runs' => logins[r] = 0
    <3>1. \A r \in 1..MaxRuns : r > runs => logins[r] = 0
      BY DEF IInv, StoresInv
    <3>2. \A r \in 1..MaxRuns : r > runs' => r > runs
      BY <1>1, <1>2, StoresFacts
    <3>. QED  BY <3>1, <3>2
  <2>3. careless' \in BOOLEAN
    BY <1>1
  <2>. QED  BY <1>1, <1>2, <2>1, <2>2, <2>3 DEF IInv, StoresInv
<1>11. ASSUME ~careless'
       PROVE  CarefulInv' /\ LoginsInv' /\ GrantsInv' /\ ActsInv'
  <2>1. ~careless /\ ~Busy
    BY <1>1, <1>11
  <2>2. stream'[s] = d /\ (\A t \in Streams : t # s => stream'[t] = Idle)
        /\ \A e \in Entries : Open(e)' = 0
    <3>1. Permits(graph, d) = {}
      OBVIOUS
    <3>. HIDE DEF d
    <3>. QED  BY <1>1, <2>1, <3>1, OneBegins
  <2>3. CarefulInv'
    BY <1>3, <1>4, <2>2 DEF CarefulInv
  <2>4. LoginsInv'
    <3>1. LoginsAreBounded'
      BY <1>1, <2>1 DEF IInv, LoginsInv, LoginsAreBounded
    <3>2. logins[v.run] = 0
      <4>1. v.run > runs
        BY StoresFacts
      <4>. QED  BY <1>2, <4>1 DEF IInv, StoresInv
    <3>3. Answered' = 0 /\ LoggedIn(d) = 0
      BY <1>3, <1>4 DEF Answered, LoggedIn
    <3>4. graph = "recovery" => Paid(asks, answers, v) \in Nat
      BY <1>2, StoresFacts DEF Paid
    <3>5. graph = "recovery" =>
            logins[v.run] + Answered' <= Paid(asks, answers, v) + LoggedIn(d)
      <4>. HIDE DEF d
      <4>. QED  BY <3>2, <3>3, <3>4
    <3>6. ASSUME NEW t \in Streams, stream'[t] # Idle  PROVE t = s
      BY <2>2, <3>6
    <3>. QED  BY <1>1, <1>3, <1>4, <2>2, <3>1, <3>5, <3>6 DEF LoginsInv
  <2>5. GrantsInv'
    BY <1>1, <2>1, <2>2, NothingMoreOpen
  <2>6. Effects(v.run) = {}
    <3>1. \A i \in DOMAIN effects : effects[i].run <= runs /\ effects[i].run # v.run
      <4>1. effects \in Seq(Entries) /\ \A i \in DOMAIN effects : effects[i].run <= runs
        BY DEF IInv, StoresInv
      <4>. QED  BY <4>1, StoresFacts
    <3>. QED  BY <3>1 DEF Effects
  <2>8. logins[v.run] = 0
    <3>1. v.run > runs
      BY StoresFacts
    <3>. QED  BY <1>2, <3>1 DEF IInv, StoresInv
  <2>7. ActsInv'
    <3>1. ~Acted(v.run)'
      BY <1>1, <2>6, <2>8 DEF Acted, Effects
    <3>. QED  BY <1>4, <3>1 DEF ActsInv
  <2>. QED  BY <2>3, <2>4, <2>5, <2>7
<1>12. careless' => CarefulInv' /\ LoginsInv' /\ GrantsInv' /\ ActsInv'
  BY DEF CarefulInv, LoginsInv, GrantsInv, ActsInv
<1>. QED  BY <1>8, <1>9, <1>10, <1>11, <1>12 DEF IInv

LEMMA ResumeKeeps ==
  ASSUME IInv, NEW s \in Streams, NEW answer \in AnswersOf[graph], Resume(s, graph, answer)
  PROVE  IInv'
PROOF
<1>. DEFINE w == saved.vals
            d == Drive(saved.next, w, answer, "nothing")
<1>1. /\ stream' = [stream EXCEPT ![s] = d] /\ saved' = saved
      /\ saved.next \notin {"none", "end"}
      /\ resumes < MaxResumes /\ resumes' = resumes + 1
      /\ careless' = (careless \/ Busy \/ ~saved.waits)
      /\ answers' = [answers EXCEPT ![w.run] = answers[w.run] + 1]
      /\ graph' = graph /\ backend' = backend /\ runs' = runs /\ asks' = asks
      /\ granted' = granted /\ effects' = effects /\ logins' = logins
  BY DEF Resume, Counted
<1>2. Kept(graph, runs, saved)
  BY <1>1, NoneWaits DEF IInv, SavedInv
<1>3. /\ Fits(graph, saved.next, w) /\ w.run <= runs
      /\ saved.waits => Asking(graph, saved.next, w)
  BY <1>2 DEF Kept
<1>4. w.run \in 1..MaxRuns /\ saved.next # "idle"
  BY <1>3, StoresFacts, FittingNode
<1>5. d.pc = saved.next /\ d.vals = w /\ d.answer = answer /\ d.did = "nothing" /\ d # Idle
  BY <1>4, DriveFields
<1>6. Driven(graph', runs', d)
  BY <1>1, <1>3, <1>5 DEF Driven, Deeds
<1>7. StreamsInv'
  <2>1. runs' >= runs /\ runs' \in Nat
    BY <1>1, StoresFacts
  <2>. HIDE DEF d
  <2>. QED  BY <1>1, <1>6, <2>1, StreamsStay
<1>8. SavedInv'
  BY <1>1 DEF IInv, SavedInv
<1>9. /\ answers' \in [1..MaxRuns -> Nat] /\ answers'[w.run] = answers[w.run] + 1
      /\ \A r \in 1..MaxRuns : answers[r] \in Nat /\ answers[r] <= answers'[r]
  <2>1. answers \in [1..MaxRuns -> Nat]
    BY StoresFacts
  <2>. HIDE DEF w
  <2>2. /\ answers' \in [1..MaxRuns -> Nat] /\ answers'[w.run] = answers[w.run] + 1
        /\ \A r \in 1..MaxRuns : r # w.run => answers'[r] = answers[r]
    BY <1>1, <1>4, <2>1
  <2>3. \A r \in 1..MaxRuns : answers[r] \in Nat
    BY <2>1
  <2>. QED  BY <1>4, <2>2, <2>3
<1>10. StoresInv'
  <2>1. resumes' \in 0..MaxResumes
    BY <1>1, GraphAssumption DEF IInv, StoresInv
  <2>2. careless' \in BOOLEAN
    BY <1>1
  <2>. QED  BY <1>1, <1>9, <2>1, <2>2 DEF IInv, StoresInv
<1>11. ASSUME ~careless'
       PROVE  CarefulInv' /\ LoginsInv' /\ GrantsInv' /\ ActsInv'
  <2>1. ~careless /\ ~Busy /\ saved.waits
    BY <1>1, <1>11
  <2>2. Permits(graph, d) = {}
    BY <1>3, <1>5, <2>1 DEF Permits, Asking
  <2>3. stream'[s] = d /\ (\A t \in Streams : t # s => stream'[t] = Idle)
        /\ \A e \in Entries : Open(e)' = 0
    <3>. HIDE DEF d
    <3>. QED  BY <1>1, <2>1, <2>2, OneBegins
  <2>4. CarefulInv'
    BY <1>1, <1>5, <2>1, <2>3 DEF CarefulInv
  <2>5. LoginsInv'
    <3>1. LoginsAreBounded'
      <4>. SUFFICES ASSUME NEW r \in 1..MaxRuns
                    PROVE  logins[r] <= MaxAttempts + asks[r] + answers'[r]
        BY <1>1 DEF LoginsAreBounded
      <4>1. logins[r] <= MaxAttempts + asks[r] + answers[r]
        BY <2>1 DEF IInv, LoginsInv, LoginsAreBounded
      <4>2. logins[r] \in Nat /\ asks[r] \in Nat /\ MaxAttempts \in Nat
            /\ answers[r] \in Nat /\ answers'[r] \in Nat /\ answers[r] <= answers'[r]
        BY <1>9, StoresFacts, RecoveryAssumption
      <4>. QED  BY <4>1, <4>2
    <3>2. ASSUME graph = "recovery"
          PROVE  logins[w.run] + Answered' <= Paid(asks, answers', w) + LoggedIn(d)
      <4>1. logins[w.run] <= Paid(asks, answers, w)
        BY <2>1, <3>2 DEF IInv, LoginsInv
      <4>2. Answered' = 1 /\ LoggedIn(d) = 0
        BY <1>1, <1>5, <2>1 DEF Answered, LoggedIn
      <4>3. w.attempts \in Nat
        BY <1>3, <3>2, RecoveryAssumption DEF Fits, RecoveryAt, RecoveryValues
      <4>4. Paid(asks, answers, w) = w.attempts + asks[w.run] + answers[w.run]
            /\ Paid(asks, answers', w) = w.attempts + asks[w.run] + (answers[w.run] + 1)
        BY <1>9 DEF Paid
      <4>5. asks[w.run] \in Nat /\ answers[w.run] \in Nat /\ logins[w.run] \in Nat
        BY <1>4, StoresFacts
      <4>. HIDE DEF w, d
      <4>. QED  BY <4>1, <4>2, <4>3, <4>4, <4>5
    <3>3. ASSUME NEW t \in Streams, stream'[t] # Idle  PROVE t = s
      BY <2>3, <3>3
    <3>4. Busy'
      BY <1>5, <2>3 DEF Busy
    <3>. QED  BY <1>1, <1>5, <2>3, <3>1, <3>2, <3>3, <3>4 DEF LoginsInv
  <2>6. GrantsInv'
    BY <1>1, <2>1, <2>3, NothingMoreOpen
  <2>7. ActsInv'
    BY <1>1, <2>1 DEF IInv, ActsInv, Acted, Effects, MayAct
  <2>. QED  BY <2>4, <2>5, <2>6, <2>7
<1>12. careless' => CarefulInv' /\ LoginsInv' /\ GrantsInv' /\ ActsInv'
  BY DEF CarefulInv, LoginsInv, GrantsInv, ActsInv
<1>. QED  BY <1>7, <1>8, <1>10, <1>11, <1>12 DEF IInv

-----------------------------------------------------------------------------
(* Account recovery.                                                          *)

LEMMA RecoveryAdvance ==
  ASSUME IInv, graph = "recovery", NEW s \in Streams, stream[s] # Idle,
         NEW node, NEW v, Advance(s, node, v), RecoveryAt(node, v), node # "end",
         v.run = stream[s].vals.run, UNCHANGED <<bounds, asks, effects, logins>>,
         v.error = stream[s].vals.error \/ v.error # "none",
         Spends(s, v), Grants(Drive(node, v, NoAnswer, "nothing"))
  PROVE  IInv'
PROOF
<1>1. Fits(graph, node, v)
  BY DEF Fits
<1>2. MayStillAct(stream[s].vals, v)
  BY DEF MayStillAct, MayAct
<1>. QED  BY <1>1, <1>2, AdvanceKeeps DEF Leads

\* No swap is permitted unless its approval has just been given.
LEMMA NoSwapPermitted ==
  ASSUME NEW node, NEW v,
         ~(node = "attempt_recovery" /\ v.path = "swap_proxy" /\ v.op = "approve_proxy_swap")
  PROVE  Permits("recovery", Drive(node, v, NoAnswer, "nothing")) = {}
PROOF
<1>. QED  BY DriveFields DEF Permits

LEMMA AtRecoveryNode ==
  ASSUME IInv, NEW s \in Streams, NEW node \in RecoveryNodes, At(s, "recovery", node)
  PROVE  /\ graph = "recovery" /\ stream[s] # Idle /\ stream[s].pc = node
         /\ RecoveryAt(node, stream[s].vals) /\ stream[s].vals \in RecoveryValues
         /\ stream[s].did \in Deeds
         /\ node # "attempt_recovery" => stream[s].did = "nothing"
         /\ stream[s].answer \in RecoveryAnswers \union {NoAnswer}
         /\ stream[s].vals.attempts \in Nat /\ MaxAttempts \in Nat
PROOF
<1>1. graph = "recovery" /\ stream[s].pc = node /\ node \notin {"idle", "schedule_draft"}
  BY DEF At, RecoveryNodes
<1>2. stream[s] # Idle /\ Driven(graph, runs, stream[s])
  BY <1>1, AtNode
<1>3. RecoveryAt(node, stream[s].vals)
  BY <1>1, <1>2 DEF Driven, Fits
<1>4. AnswersOf[graph] = RecoveryAnswers
  BY <1>1, StoresFacts DEF AnswersOf
<1>5. stream[s].vals \in RecoveryValues
  BY <1>3 DEF RecoveryAt
<1>. QED  BY <1>1, <1>2, <1>3, <1>4, <1>5, RecoveryAssumption DEF Driven, RecoveryValues

\* Most nodes begin with nothing done and end with nothing granted.
LEMMA RecoveryGoesOn ==
  ASSUME IInv, graph = "recovery", NEW s \in Streams, stream[s] # Idle,
         stream[s].did = "nothing", NEW node, NEW v, Advance(s, node, v), RecoveryAt(node, v),
         node # "end", v.run = stream[s].vals.run, v.attempts = stream[s].vals.attempts,
         v.error = stream[s].vals.error \/ v.error # "none",
         ~(node = "attempt_recovery" /\ v.path = "swap_proxy" /\ v.op = "approve_proxy_swap"),
         UNCHANGED <<bounds, asks, granted, effects, logins>>
  PROVE  IInv'
PROOF
<1>1. stream[s].vals.attempts \in Nat
  BY DrivenFacts
<1>2. Spends(s, v)
  BY <1>1 DEF Spends, LoggedIn
<1>3. Grants(Drive(node, v, NoAnswer, "nothing"))
  BY NoSwapPermitted DEF Grants
<1>. QED  BY <1>2, <1>3, RecoveryAdvance

LEMMA DetectIssueKeeps == ASSUME IInv, NEW s \in Streams, DetectIssue(s)  PROVE IInv'
PROOF
<1>. DEFINE u == stream[s].vals
<1>1. At(s, "recovery", "detect_issue") /\ UNCHANGED <<bounds, asks, granted, effects, logins>>
  BY DEF DetectIssue
<1>2. /\ graph = "recovery" /\ stream[s] # Idle /\ RecoveryAt("detect_issue", u)
      /\ u \in RecoveryValues /\ stream[s].did = "nothing"
  BY <1>1, AtRecoveryNode DEF RecoveryNodes
<1>3. CASE Advance(s, "verify_account_health", [u EXCEPT !.stop = "no_issue"])
  <2>. DEFINE w == [u EXCEPT !.stop = "no_issue"]
  <2>1. /\ w \in RecoveryValues /\ w.run = u.run /\ w.attempts = u.attempts /\ w.op = u.op
        /\ w.healthy = u.healthy /\ w.result = u.result /\ w.stop = "no_issue"
        /\ w.error = u.error
    BY <1>2 DEF RecoveryValues, RecoveryStops
  <2>2. RecoveryAt("verify_account_health", w)
    BY <1>2, <2>1 DEF RecoveryAt, RecoveryNodes
  <2>. QED  BY <1>1, <1>2, <1>3, <2>1, <2>2, RecoveryGoesOn
<1>4. CASE Advance(s, "classify_issue", u)
  <2>1. RecoveryAt("classify_issue", u)
    BY <1>2 DEF RecoveryAt, RecoveryNodes
  <2>. QED  BY <1>1, <1>2, <1>4, <2>1, RecoveryGoesOn
<1>. QED  BY <1>3, <1>4 DEF DetectIssue

LEMMA ClassifyIssueKeeps == ASSUME IInv, NEW s \in Streams, ClassifyIssue(s)  PROVE IInv'
PROOF
<1>. DEFINE u == stream[s].vals
<1>1. At(s, "recovery", "classify_issue") /\ UNCHANGED <<bounds, asks, granted, effects, logins>>
  BY DEF ClassifyIssue
<1>2. /\ graph = "recovery" /\ stream[s] # Idle /\ RecoveryAt("classify_issue", u)
      /\ u \in RecoveryValues /\ stream[s].did = "nothing"
  BY <1>1, AtRecoveryNode DEF RecoveryNodes
<1>3. PICK error \in {"challenge", "session"} :
        Advance(s, "choose_recovery_path", [u EXCEPT !.error = error])
  BY DEF ClassifyIssue
<1>. DEFINE w == [u EXCEPT !.error = error]
<1>4. /\ w \in RecoveryValues /\ w.run = u.run /\ w.attempts = u.attempts /\ w.op = u.op
      /\ w.healthy = u.healthy /\ w.result = u.result /\ w.stop = u.stop /\ w.error = error
  BY <1>2 DEF RecoveryValues
<1>5. RecoveryAt("choose_recovery_path", w)
  BY <1>2, <1>4 DEF RecoveryAt, RecoveryNodes
<1>. QED  BY <1>1, <1>2, <1>3, <1>4, <1>5, RecoveryGoesOn

LEMMA ChooseRecoveryPathKeeps ==
  ASSUME IInv, NEW s \in Streams, ChooseRecoveryPath(s)  PROVE IInv'
PROOF
<1>. DEFINE u == stream[s].vals
<1>1. /\ At(s, "recovery", "choose_recovery_path")
      /\ UNCHANGED <<bounds, asks, granted, effects, logins>>
  BY DEF ChooseRecoveryPath
<1>2. /\ graph = "recovery" /\ stream[s] # Idle /\ RecoveryAt("choose_recovery_path", u)
      /\ u \in RecoveryValues /\ stream[s].did = "nothing"
      /\ u.attempts \in Nat /\ MaxAttempts \in Nat
  BY <1>1, AtRecoveryNode DEF RecoveryNodes
<1>3. CASE u.attempts >= MaxAttempts
  <2>. DEFINE w == [u EXCEPT !.path = "none", !.stop = "max_attempts_reached"]
  <2>1. /\ w \in RecoveryValues /\ w.run = u.run /\ w.attempts = u.attempts
        /\ w.healthy = u.healthy /\ w.result = u.result /\ w.stop = "max_attempts_reached"
        /\ w.error = u.error
    BY <1>2 DEF RecoveryValues, RecoveryStops
  <2>2. RecoveryAt("finish", w)
    BY <1>2, <1>3, <2>1 DEF RecoveryAt, RecoveryNodes
  <2>3. Advance(s, "finish", w)
    BY <1>3 DEF ChooseRecoveryPath
  <2>. QED  BY <1>1, <1>2, <2>1, <2>2, <2>3, RecoveryGoesOn
<1>4. CASE ~(u.attempts >= MaxAttempts)
  <2>. DEFINE w == [u EXCEPT !.path = PathFor(u)]
              node == IF u.stop = "none" THEN "attempt_recovery" ELSE "finish"
  <2>1. /\ w \in RecoveryValues /\ w.run = u.run /\ w.attempts = u.attempts /\ w.op = u.op
        /\ w.healthy = u.healthy /\ w.result = u.result /\ w.stop = u.stop /\ w.error = u.error
    BY <1>2 DEF RecoveryValues, PathFor
  <2>2. RecoveryAt(node, w) /\ u.op = "none" /\ node # "end"
    BY <1>2, <1>4, <2>1 DEF RecoveryAt, RecoveryNodes
  <2>3. Advance(s, node, w)
    BY <1>4 DEF ChooseRecoveryPath
  <2>. HIDE DEF w, node
  <2>. QED  BY <1>1, <1>2, <2>1, <2>2, <2>3, RecoveryGoesOn
<1>. QED  BY <1>3, <1>4

LEMMA AskOperatorKeeps == ASSUME IInv, NEW s \in Streams, AskOperator(s)  PROVE IInv'
PROOF
<1>1. /\ At(s, "recovery", "attempt_recovery") /\ MayAsk(s) /\ Interrupt(s)
      /\ UNCHANGED <<bounds, granted, effects, logins>>
  BY DEF AskOperator
<1>2. graph = "recovery" /\ stream[s] # Idle /\ stream[s].pc = "attempt_recovery"
  BY <1>1, AtRecoveryNode DEF RecoveryNodes
<1>3. Asking(graph, stream[s].pc, stream[s].vals)
  BY <1>1, <1>2 DEF Asking, MayAsk
<1>. QED  BY <1>1, <1>2, <1>3, InterruptKeeps

LEMMA TakeAnswerKeeps == ASSUME IInv, NEW s \in Streams, TakeAnswer(s)  PROVE IInv'
PROOF
<1>. DEFINE u == stream[s].vals
            answer == stream[s].answer
            w == [u EXCEPT !.op = answer.decision, !.with = answer.with,
                           !.stop = IF answer.decision = "abort" THEN "aborted" ELSE @]
            e == [run |-> u.run, kind |-> "swap", what |-> answer.with]
            node == RouteAfterAttempt(w)
<1>1. /\ At(s, "recovery", "attempt_recovery") /\ answer # NoAnswer
      /\ Advance(s, node, w)
      /\ granted' = IF answer.decision = "approve_proxy_swap" THEN Append(granted, e) ELSE granted
      /\ UNCHANGED <<bounds, asks, effects, logins>>
  BY DEF TakeAnswer, AttemptEnds
<1>2. /\ graph = "recovery" /\ stream[s] # Idle /\ RecoveryAt("attempt_recovery", u)
      /\ u \in RecoveryValues /\ answer \in RecoveryAnswers
      /\ u.attempts \in Nat /\ MaxAttempts \in Nat
  BY <1>1, AtRecoveryNode DEF RecoveryNodes
<1>3. /\ answer.decision \in {"provide_2fa", "approve_proxy_swap", "abort"}
      /\ answer.with \in {"nothing", "code"} \union Proxies
  BY <1>2 DEF RecoveryAnswers
<1>4. /\ w \in RecoveryValues /\ w.run = u.run /\ w.attempts = u.attempts
      /\ w.op = answer.decision /\ w.with = answer.with
      /\ w.healthy = u.healthy /\ w.result = u.result /\ w.error = u.error
      /\ w.stop = IF answer.decision = "abort" THEN "aborted" ELSE u.stop
  <2>. DEFINE stop == IF answer.decision = "abort" THEN "aborted" ELSE u.stop
  <2>1. stop \in RecoveryStops
    BY <1>2 DEF RecoveryValues, RecoveryStops
  <2>2. w = [u EXCEPT !.op = answer.decision, !.with = answer.with, !.stop = stop]
    OBVIOUS
  <2>3. /\ answer.decision \in {"none", "provide_2fa", "approve_proxy_swap", "abort"}
        /\ answer.with \in {"nothing", "code"} \union Proxies
    BY <1>3
  <2>. HIDE DEF w, stop, answer, u
  <2>4. /\ w \in RecoveryValues /\ w.run = u.run /\ w.attempts = u.attempts
        /\ w.op = answer.decision /\ w.with = answer.with
        /\ w.healthy = u.healthy /\ w.result = u.result /\ w.stop = stop /\ w.error = u.error
    BY <1>2, <2>1, <2>2, <2>3 DEF RecoveryValues
  <2>. QED  BY <2>4 DEF stop
<1>5. node = IF w.stop # "none" THEN "finish" ELSE "attempt_recovery"
  <2>. HIDE DEF w
  <2>1. w.stop = "none" => w.op \in {"provide_2fa", "approve_proxy_swap"}
    BY <1>3, <1>4
  <2>. QED  BY <2>1 DEF RouteAfterAttempt
<1>6. RecoveryAt(node, w) /\ node # "end"
  <2>. HIDE DEF w, node
  <2>. QED  BY <1>2, <1>4, <1>5 DEF RecoveryAt, RecoveryNodes
<1>7. Spends(s, w)
  <2>. HIDE DEF w
  <2>. QED  BY <1>1, <1>2, <1>4 DEF Spends
<1>8. Grants(Drive(node, w, NoAnswer, "nothing"))
  <2>1. CASE answer.decision = "approve_proxy_swap"
    <3>1. e \in Entries
      BY <1>2, <1>3 DEF Entries, RecoveryValues
    <3>2. e.run = u.run /\ e.kind = "swap" /\ e.what = answer.with
      OBVIOUS
    <3>. HIDE DEF w, node, e
    <3>3. ASSUME NEW f \in Permits(graph, Drive(node, w, NoAnswer, "nothing"))  PROVE f = e
      <4>1. f \in Entries /\ f.run = e.run /\ f.kind = e.kind /\ f.what = e.what
        BY <1>2, <1>4, <3>2, DriveFields DEF Permits
      <4>. QED  BY <3>1, <4>1 DEF Entries
    <3>. QED  BY <1>1, <2>1, <3>1, <3>3 DEF Grants
  <2>2. CASE answer.decision # "approve_proxy_swap"
    <3>. HIDE DEF w, node
    <3>1. Permits(graph, Drive(node, w, NoAnswer, "nothing")) = {}
      BY <1>2, <1>4, <2>2, NoSwapPermitted
    <3>. QED  BY <1>1, <2>2, <3>1 DEF Grants
  <2>. QED  BY <2>1, <2>2
<1>. HIDE DEF w, node
<1>. QED  BY <1>1, <1>2, <1>4, <1>6, <1>7, <1>8, RecoveryAdvance

LEMMA SwapProxyKeeps == ASSUME IInv, NEW s \in Streams, SwapProxy(s)  PROVE IInv'
PROOF
<1>. DEFINE u == stream[s].vals
<1>1. /\ At(s, "recovery", "attempt_recovery") /\ stream[s].did = "nothing"
      /\ u.path = "swap_proxy" /\ u.op = "approve_proxy_swap"
      /\ UNCHANGED <<bounds, asks, granted, logins>>
  BY DEF SwapProxy
<1>2. /\ graph = "recovery" /\ stream[s] # Idle /\ RecoveryAt("attempt_recovery", u)
      /\ u \in RecoveryValues /\ u.attempts \in Nat /\ MaxAttempts \in Nat
      /\ stream[s].pc = "attempt_recovery"
  BY <1>1, AtRecoveryNode DEF RecoveryNodes
<1>3. CASE AttemptEnds(s, [u EXCEPT !.path = "relogin"]) /\ UNCHANGED effects
  <2>. DEFINE w == [u EXCEPT !.path = "relogin"]
              node == RouteAfterAttempt(w)
  <2>1. /\ w \in RecoveryValues /\ w.run = u.run /\ w.attempts = u.attempts /\ w.op = u.op
        /\ w.healthy = u.healthy /\ w.result = u.result /\ w.stop = u.stop
        /\ w.path = "relogin" /\ w.error = u.error
    BY <1>2 DEF RecoveryValues
  <2>2. Advance(s, node, w)
    BY <1>3 DEF AttemptEnds
  <2>. HIDE DEF w
  <2>3. node = IF w.stop # "none" THEN "finish" ELSE "attempt_recovery"
    BY <1>1, <2>1 DEF RouteAfterAttempt
  <2>4. RecoveryAt(node, w) /\ node # "end"
    <3>. HIDE DEF node
    <3>. QED  BY <1>2, <2>1, <2>3 DEF RecoveryAt, RecoveryNodes
  <2>. HIDE DEF node
  <2>. QED  BY <1>1, <1>2, <1>3, <2>1, <2>2, <2>4, RecoveryGoesOn
<1>4. CASE /\ u.with \in Proxies /\ Did(s, "swap")
           /\ effects' = Append(effects, [run |-> u.run, kind |-> "swap", what |-> u.with])
  <2>. DEFINE e == [run |-> u.run, kind |-> "swap", what |-> u.with]
  <2>1. e \in Entries
    BY <1>2, <1>4 DEF Entries, RecoveryValues
  <2>2. e \in Permits(graph, stream[s])
    BY <1>1, <1>2, <2>1 DEF Permits
  <2>3. Tries(s, "swap")
    BY <1>1 DEF Tries
  <2>. HIDE DEF e
  <2>4. effects' = Append(effects, e)
    BY <1>4 DEF e
  <2>. QED  BY <1>1, <1>2, <1>4, <2>2, <2>3, <2>4, DidKeeps DEF Deeds
<1>. QED  BY <1>3, <1>4 DEF SwapProxy

LEMMA ReloginKeeps == ASSUME IInv, NEW s \in Streams, Relogin(s)  PROVE IInv'
PROOF
<1>1. /\ At(s, "recovery", "attempt_recovery") /\ stream[s].did = "nothing"
      /\ logins' = Counted(logins, stream[s].vals.run)
      /\ UNCHANGED <<bounds, asks, granted, effects>>
  BY DEF Relogin
<1>2. PICK outcome \in {"relogin", "requires_2fa"} : Did(s, outcome)
  BY DEF Relogin
<1>3. graph = "recovery" /\ stream[s] # Idle /\ stream[s].pc = "attempt_recovery"
  BY <1>1, AtRecoveryNode DEF RecoveryNodes
<1>4. Tries(s, outcome)
  BY <1>1, <1>3 DEF Tries
<1>5. outcome \in Deeds \ {"nothing"}
  BY DEF Deeds
<1>. QED  BY <1>1, <1>2, <1>3, <1>4, <1>5, DidKeeps

LEMMA AttemptDoneKeeps == ASSUME IInv, NEW s \in Streams, AttemptDone(s)  PROVE IInv'
PROOF
<1>. DEFINE u == stream[s].vals
            w == Attempted(u)
            node == RouteAfterAttempt(w)
<1>1. /\ At(s, "recovery", "attempt_recovery") /\ Advance(s, node, w)
      /\ UNCHANGED <<bounds, asks, granted, effects, logins>>
  BY DEF AttemptDone, AttemptEnds
<1>2. /\ graph = "recovery" /\ stream[s] # Idle /\ RecoveryAt("attempt_recovery", u)
      /\ u \in RecoveryValues /\ u.attempts \in Nat /\ MaxAttempts \in Nat
  BY <1>1, AtRecoveryNode DEF RecoveryNodes
<1>3. u.attempts + 1 \in 0..MaxAttempts
  BY <1>2 DEF RecoveryAt
<1>4. /\ w \in RecoveryValues /\ w.run = u.run /\ w.attempts = u.attempts + 1 /\ w.op = "none"
      /\ w.healthy = u.healthy /\ w.result = u.result /\ w.stop = u.stop /\ w.error = u.error
  BY <1>2, <1>3 DEF RecoveryValues, Attempted
<1>. HIDE DEF w
<1>5. node = IF w.stop # "none" THEN "finish" ELSE "verify_account_health"
  BY <1>4 DEF RouteAfterAttempt
<1>. HIDE DEF node
<1>6. RecoveryAt(node, w) /\ node \notin {"end", "attempt_recovery"}
  BY <1>2, <1>4, <1>5 DEF RecoveryAt, RecoveryNodes
<1>7. Spends(s, w)
  BY <1>2, <1>4 DEF Spends
<1>8. Grants(Drive(node, w, NoAnswer, "nothing"))
  BY <1>1, <1>2, <1>6, NoSwapPermitted DEF Grants
<1>. QED  BY <1>1, <1>2, <1>4, <1>6, <1>7, <1>8, RecoveryAdvance

LEMMA VerifyAccountHealthKeeps ==
  ASSUME IInv, NEW s \in Streams, VerifyAccountHealth(s)  PROVE IInv'
PROOF
<1>. DEFINE u == stream[s].vals
            w(healthy) ==
              [u EXCEPT !.healthy = healthy,
                        !.result = IF healthy THEN "recovered"
                                   ELSE IF u.attempts >= MaxAttempts THEN "failed" ELSE @,
                        !.stop = IF healthy THEN "recovered"
                                 ELSE IF u.attempts >= MaxAttempts THEN "max_attempts_reached"
                                 ELSE @]
<1>1. /\ At(s, "recovery", "verify_account_health")
      /\ UNCHANGED <<bounds, asks, granted, effects, logins>>
  BY DEF VerifyAccountHealth
<1>2. /\ graph = "recovery" /\ stream[s] # Idle /\ RecoveryAt("verify_account_health", u)
      /\ u \in RecoveryValues /\ stream[s].did = "nothing"
  BY <1>1, AtRecoveryNode DEF RecoveryNodes
<1>3. PICK healthy \in BOOLEAN : Advance(s, RouteAfterHealth(w(healthy)), w(healthy))
  BY DEF VerifyAccountHealth
<1>. DEFINE v == w(healthy)
            node == RouteAfterHealth(v)
<1>4. /\ v \in RecoveryValues /\ v.run = u.run /\ v.attempts = u.attempts /\ v.op = u.op
      /\ v.healthy = healthy
      /\ v.result = IF healthy THEN "recovered"
                    ELSE IF u.attempts >= MaxAttempts THEN "failed" ELSE u.result
      /\ v.stop = IF healthy THEN "recovered"
                  ELSE IF u.attempts >= MaxAttempts THEN "max_attempts_reached" ELSE u.stop
  BY <1>2 DEF RecoveryValues, RecoveryStops
<1>8. v.error = u.error
  BY <1>2 DEF RecoveryValues
<1>5. Advance(s, node, v)
  BY <1>3
<1>. HIDE DEF v
<1>6. node = IF v.stop \in {"recovered", "max_attempts_reached"} THEN "finish"
             ELSE "choose_recovery_path"
  BY DEF RouteAfterHealth
<1>. HIDE DEF node
<1>7. RecoveryAt(node, v) /\ node \notin {"end", "attempt_recovery"}
  BY <1>2, <1>4, <1>6, <1>8 DEF RecoveryAt, RecoveryNodes
<1>. QED  BY <1>1, <1>2, <1>4, <1>5, <1>7, <1>8, RecoveryGoesOn

LEMMA FinishRecoveryKeeps == ASSUME IInv, NEW s \in Streams, FinishRecovery(s)  PROVE IInv'
PROOF
<1>. DEFINE u == stream[s].vals
            w == [u EXCEPT !.result = IF @ = "none" THEN u.stop ELSE @]
<1>1. At(s, "recovery", "finish") /\ EndRun(s, w)
  BY DEF FinishRecovery
<1>2. /\ graph = "recovery" /\ stream[s] # Idle /\ RecoveryAt("finish", u)
      /\ u \in RecoveryValues
  BY <1>1, AtRecoveryNode DEF RecoveryNodes
<1>3. /\ w \in RecoveryValues /\ w.run = u.run /\ w.stop = u.stop /\ w.healthy = u.healthy
      /\ w.error = u.error /\ w.op = u.op /\ w.attempts = u.attempts
      /\ w.result = IF u.result = "none" THEN u.stop ELSE u.result
  BY <1>2 DEF RecoveryValues
<1>. HIDE DEF w
<1>4. RecoveryAt("end", w)
  BY <1>2, <1>3 DEF RecoveryAt
<1>5. Fits(graph, "end", w) /\ MayStillAct(u, w)
  BY <1>2, <1>3, <1>4 DEF Fits, MayStillAct, MayAct
<1>. QED  BY <1>1, <1>2, <1>3, <1>5, EndRunKeeps

LEMMA RecoveryNodeKeeps == ASSUME IInv, NEW s \in Streams, RecoveryNode(s)  PROVE IInv'
PROOF
<1>. QED  BY DetectIssueKeeps, ClassifyIssueKeeps, ChooseRecoveryPathKeeps, AskOperatorKeeps,
            TakeAnswerKeeps, SwapProxyKeeps, ReloginKeeps, AttemptDoneKeeps,
            VerifyAccountHealthKeeps, FinishRecoveryKeeps DEF RecoveryNode

LEMMA RunRecoveryKeeps == ASSUME IInv, NEW s \in Streams, RunRecovery(s)  PROVE IInv'
PROOF
<1>. DEFINE v == RecoveryState(runs + 1)
<1>1. StartRun(s, graph, "detect_issue", v) /\ graph = "recovery" /\ runs < MaxRuns
  BY DEF RunRecovery, StartRun, At
<1>2. runs + 1 \in 1..MaxRuns
  BY <1>1, StoresFacts
<1>3. RecoveryAt("detect_issue", v)
  BY <1>2, RecoveryAssumption
     DEF RecoveryAt, RecoveryValues, RecoveryState, RecoveryStops, RecoveryNodes
<1>4. v.run = runs + 1 /\ v.attempts = 0 /\ Fits(graph, "detect_issue", v)
  BY <1>1, <1>3 DEF RecoveryState, Fits
<1>. HIDE DEF v
<1>5. Permits(graph, Drive("detect_issue", v, NoAnswer, "nothing")) = {}
  BY <1>1, NoSwapPermitted
<1>. QED  BY <1>1, <1>4, <1>5, StartRunKeeps

-----------------------------------------------------------------------------
(* Risk control.                                                              *)

LEMMA RiskGoesOn ==
  ASSUME IInv, graph = "risk", NEW s \in Streams, stream[s] # Idle,
         NEW node, NEW v, RiskNodeEnds(s, node, v), RiskAt(node, v), node # "end",
         v.run = stream[s].vals.run
  PROVE  IInv'
PROOF
<1>1. /\ Advance(s, node, v) /\ granted' = granted
      /\ UNCHANGED <<bounds, asks, granted, effects, logins>>
  BY DEF RiskNodeEnds
<1>2. Fits(graph, node, v)
  BY DEF Fits
<1>3. MayStillAct(stream[s].vals, v) /\ Spends(s, v)
  BY DEF MayStillAct, MayAct, Spends
<1>4. Permits(graph, Drive(node, v, NoAnswer, "nothing")) = {}
  BY DEF Permits
<1>5. Leads(s, node, v) /\ Grants(Drive(node, v, NoAnswer, "nothing"))
  BY <1>1, <1>2, <1>4 DEF Leads, Grants
<1>. QED  BY <1>3, <1>5, AdvanceKeeps

LEMMA AtRiskNode ==
  ASSUME IInv, NEW s \in Streams, NEW node \in RiskNodes, At(s, "risk", node)
  PROVE  /\ graph = "risk" /\ stream[s] # Idle /\ stream[s].pc = node
         /\ RiskAt(node, stream[s].vals) /\ stream[s].vals \in RiskValues
         /\ stream[s].answer \in RiskAnswers \union {NoAnswer}
PROOF
<1>1. graph = "risk" /\ stream[s].pc = node /\ node # "idle"
  BY DEF At, RiskNodes
<1>2. stream[s] # Idle /\ Driven(graph, runs, stream[s])
  BY <1>1, AtNode
<1>3. RiskAt(node, stream[s].vals)
  BY <1>1, <1>2 DEF Driven, Fits
<1>4. AnswersOf[graph] = RiskAnswers
  BY <1>1, StoresFacts DEF AnswersOf
<1>. QED  BY <1>1, <1>2, <1>3, <1>4 DEF Driven, RiskAt

LEMMA LoadAccountSignalKeeps ==
  ASSUME IInv, NEW s \in Streams, LoadAccountSignal(s)  PROVE IInv'
PROOF
<1>. DEFINE u == stream[s].vals
<1>1. At(s, "risk", "load_account_signal")
  BY DEF LoadAccountSignal
<1>2. /\ graph = "risk" /\ stream[s] # Idle /\ RiskAt("load_account_signal", u)
      /\ u \in RiskValues
  BY <1>1, AtRiskNode DEF RiskNodes
<1>3. CASE RiskNodeEnds(s, "finish", [u EXCEPT !.stop = "account_not_found"])
  <2>. DEFINE w == [u EXCEPT !.stop = "account_not_found"]
  <2>1. /\ w \in RiskValues /\ w.run = u.run /\ w.level = u.level /\ w.decision = u.decision
        /\ w.policy = u.policy /\ w.answer = u.answer /\ w.final = u.final
        /\ w.recheck = u.recheck /\ w.stop = "account_not_found"
    BY <1>2 DEF RiskValues
  <2>. HIDE DEF w
  <2>2. RiskAt("finish", w)
    BY <1>2, <2>1 DEF RiskAt, RiskNodes, Undecided, Settled
  <2>3. RiskNodeEnds(s, "finish", w)
    BY <1>3 DEF w
  <2>. QED  BY <1>2, <2>1, <2>2, <2>3, RiskGoesOn
<1>4. CASE RiskNodeEnds(s, "evaluate_risk", u)
  <2>1. RiskAt("evaluate_risk", u)
    BY <1>2 DEF RiskAt, RiskNodes
  <2>. QED  BY <1>2, <1>4, <2>1, RiskGoesOn
<1>. QED  BY <1>3, <1>4 DEF LoadAccountSignal

LEMMA EvaluateRiskKeeps == ASSUME IInv, NEW s \in Streams, EvaluateRisk(s)  PROVE IInv'
PROOF
<1>. DEFINE u == stream[s].vals
<1>1. At(s, "risk", "evaluate_risk")
  BY DEF EvaluateRisk
<1>2. graph = "risk" /\ stream[s] # Idle /\ RiskAt("evaluate_risk", u) /\ u \in RiskValues
  BY <1>1, AtRiskNode DEF RiskNodes
<1>3. PICK level \in {"low", "raised", "critical"} :
        RiskNodeEnds(s, IF level = "low" THEN "recheck_signal" ELSE "choose_policy",
                     [u EXCEPT !.level = level])
  BY DEF EvaluateRisk
<1>. DEFINE w == [u EXCEPT !.level = level]
            node == IF level = "low" THEN "recheck_signal" ELSE "choose_policy"
<1>4. /\ w \in RiskValues /\ w.run = u.run /\ w.level = level /\ w.decision = u.decision
      /\ w.policy = u.policy /\ w.answer = u.answer /\ w.final = u.final
      /\ w.recheck = u.recheck /\ w.stop = u.stop
  BY <1>2 DEF RiskValues
<1>5. RiskNodeEnds(s, node, w)
  BY <1>3
<1>. HIDE DEF w
<1>6. RiskAt(node, w) /\ node # "end"
  BY <1>2, <1>4 DEF RiskAt, RiskNodes, Undecided, Settled
<1>. HIDE DEF node
<1>. QED  BY <1>2, <1>4, <1>5, <1>6, RiskGoesOn

LEMMA ChoosePolicyKeeps == ASSUME IInv, NEW s \in Streams, ChoosePolicy(s)  PROVE IInv'
PROOF
<1>. DEFINE u == stream[s].vals
            policy == IF u.level = "critical" THEN "escalate" ELSE "cooldown"
            w == [u EXCEPT !.policy = policy]
            node == IF policy = "escalate" THEN "escalate_to_operator" ELSE "cooldown_action"
<1>1. At(s, "risk", "choose_policy") /\ RiskNodeEnds(s, node, w)
  BY DEF ChoosePolicy
<1>2. graph = "risk" /\ stream[s] # Idle /\ RiskAt("choose_policy", u) /\ u \in RiskValues
  BY <1>1, AtRiskNode DEF RiskNodes
<1>3. /\ w \in RiskValues /\ w.run = u.run /\ w.level = u.level /\ w.decision = u.decision
      /\ w.policy = policy /\ w.answer = u.answer /\ w.final = u.final
      /\ w.recheck = u.recheck /\ w.stop = u.stop
  BY <1>2 DEF RiskValues
<1>. HIDE DEF w
<1>4. RiskAt(node, w) /\ node # "end"
  BY <1>2, <1>3 DEF RiskAt, RiskNodes, Undecided, Settled
<1>. HIDE DEF node
<1>. QED  BY <1>1, <1>2, <1>3, <1>4, RiskGoesOn

LEMMA CooldownActionKeeps == ASSUME IInv, NEW s \in Streams, CooldownAction(s)  PROVE IInv'
PROOF
<1>. DEFINE u == stream[s].vals
            w == [u EXCEPT !.final = "cooldown"]
<1>1. At(s, "risk", "cooldown_action") /\ RiskNodeEnds(s, "recheck_signal", w)
  BY DEF CooldownAction
<1>2. graph = "risk" /\ stream[s] # Idle /\ RiskAt("cooldown_action", u) /\ u \in RiskValues
  BY <1>1, AtRiskNode DEF RiskNodes
<1>3. /\ w \in RiskValues /\ w.run = u.run /\ w.level = u.level /\ w.decision = u.decision
      /\ w.answer = u.answer /\ w.final = "cooldown" /\ w.recheck = u.recheck /\ w.stop = u.stop
  BY <1>2 DEF RiskValues
<1>. HIDE DEF w
<1>4. RiskAt("recheck_signal", w)
  BY <1>2, <1>3 DEF RiskAt, RiskNodes, Undecided, Settled
<1>. QED  BY <1>1, <1>2, <1>3, <1>4, RiskGoesOn

LEMMA AskAboutRiskKeeps == ASSUME IInv, NEW s \in Streams, AskAboutRisk(s)  PROVE IInv'
PROOF
<1>1. /\ At(s, "risk", "escalate_to_operator") /\ Interrupt(s)
      /\ UNCHANGED <<bounds, granted, effects, logins>>
  BY DEF AskAboutRisk
<1>2. graph = "risk" /\ stream[s] # Idle /\ stream[s].pc = "escalate_to_operator"
  BY <1>1, AtRiskNode DEF RiskNodes
<1>3. Asking(graph, stream[s].pc, stream[s].vals)
  BY <1>2 DEF Asking
<1>. QED  BY <1>1, <1>2, <1>3, InterruptKeeps

LEMMA EscalateToOperatorKeeps ==
  ASSUME IInv, NEW s \in Streams, EscalateToOperator(s)  PROVE IInv'
PROOF
<1>. DEFINE u == stream[s].vals
            answer == stream[s].answer
            w == [u EXCEPT !.answer = answer, !.decision = answer.decision,
                           !.stop = IF answer.decision = "abort" THEN "aborted" ELSE @]
            stop == IF answer.decision = "abort" THEN "aborted" ELSE u.stop
            node == RouteAfterEscalation(w)
<1>1. At(s, "risk", "escalate_to_operator") /\ answer # NoAnswer /\ RiskNodeEnds(s, node, w)
  BY DEF EscalateToOperator
<1>2. /\ graph = "risk" /\ stream[s] # Idle /\ RiskAt("escalate_to_operator", u)
      /\ u \in RiskValues /\ answer \in RiskAnswers
  BY <1>1, AtRiskNode DEF RiskNodes
<1>3. answer.decision \in {"approve_policy", "override_policy", "abort"}
      /\ (answer.decision # "override_policy" => answer.with = "nothing")
  BY <1>2 DEF RiskAnswers
<1>4. stop \in {"none", "aborted", "account_not_found", "completed"}
  BY <1>2 DEF RiskValues
<1>5. w = [u EXCEPT !.answer = answer, !.decision = answer.decision, !.stop = stop]
  OBVIOUS
<1>6. stop = IF answer.decision = "abort" THEN "aborted" ELSE u.stop
  OBVIOUS
<1>. HIDE DEF w, stop, u, answer
<1>7. /\ w \in RiskValues /\ w.run = u.run /\ w.level = u.level
      /\ w.decision = answer.decision /\ w.policy = u.policy /\ w.answer = answer
      /\ w.final = u.final /\ w.recheck = u.recheck /\ w.stop = stop
  BY <1>2, <1>3, <1>4, <1>5 DEF RiskValues
<1>8. node = IF w.stop = "aborted" THEN "finish" ELSE "apply_operator_override"
  BY DEF RouteAfterEscalation
<1>9. CASE answer.decision = "abort"
  <2>1. RiskAt("finish", w)
    BY <1>2, <1>6, <1>7, <1>9 DEF RiskAt, RiskNodes, Undecided, Settled
  <2>2. node = "finish"
    BY <1>6, <1>7, <1>8, <1>9
  <2>. QED  BY <1>1, <1>2, <1>7, <2>1, <2>2, RiskGoesOn DEF u
<1>10. CASE answer.decision # "abort"
  <2>1. RiskAt("apply_operator_override", w)
    BY <1>2, <1>3, <1>6, <1>7, <1>10 DEF RiskAt, RiskNodes, Undecided
  <2>2. node = "apply_operator_override"
    BY <1>2, <1>6, <1>7, <1>8, <1>10 DEF RiskAt, Undecided
  <2>. QED  BY <1>1, <1>2, <1>7, <2>1, <2>2, RiskGoesOn DEF u
<1>. QED  BY <1>9, <1>10

LEMMA ApplyOperatorOverrideKeeps ==
  ASSUME IInv, NEW s \in Streams, ApplyOperatorOverride(s)  PROVE IInv'
PROOF
<1>. DEFINE u == stream[s].vals
            final == IF u.decision = "override_policy" /\ u.answer.with # "nothing"
                     THEN u.answer.with ELSE u.policy
            w == [u EXCEPT !.final = final]
<1>1. At(s, "risk", "apply_operator_override") /\ RiskNodeEnds(s, "recheck_signal", w)
  BY DEF ApplyOperatorOverride
<1>2. /\ graph = "risk" /\ stream[s] # Idle /\ RiskAt("apply_operator_override", u)
      /\ u \in RiskValues
  BY <1>1, AtRiskNode DEF RiskNodes
<1>3. /\ u.level = "critical" /\ u.policy = "escalate" /\ u.answer \in RiskAnswers
      /\ u.decision \in {"approve_policy", "override_policy"} /\ u.answer.decision = u.decision
      /\ u.recheck = "none" /\ u.stop = "none"
  BY <1>2 DEF RiskAt
<1>4. u.answer.with \in {"nothing"} \union Policies
  BY <1>3 DEF RiskAnswers
<1>5. final \in {"escalate"} \union Policies /\ final # "none"
      /\ (u.decision = "override_policy" /\ u.answer.with # "nothing" => final = u.answer.with)
  BY <1>3, <1>4, RiskAssumption
<1>. HIDE DEF final
<1>6. /\ w \in RiskValues /\ w.run = u.run /\ w.level = u.level /\ w.decision = u.decision
      /\ w.answer = u.answer /\ w.final = final /\ w.recheck = u.recheck /\ w.stop = u.stop
  BY <1>2, <1>5 DEF RiskValues
<1>. HIDE DEF w
<1>7. RiskAt("recheck_signal", w)
  BY <1>3, <1>5, <1>6 DEF RiskAt, RiskNodes, Settled
<1>. QED  BY <1>1, <1>2, <1>6, <1>7, RiskGoesOn

LEMMA RecheckSignalKeeps == ASSUME IInv, NEW s \in Streams, RecheckSignal(s)  PROVE IInv'
PROOF
<1>. DEFINE u == stream[s].vals
<1>1. At(s, "risk", "recheck_signal")
  BY DEF RecheckSignal
<1>2. graph = "risk" /\ stream[s] # Idle /\ RiskAt("recheck_signal", u) /\ u \in RiskValues
  BY <1>1, AtRiskNode DEF RiskNodes
<1>3. PICK risk \in {"low", "high"} : RiskNodeEnds(s, "finish", [u EXCEPT !.recheck = risk])
  BY DEF RecheckSignal
<1>. DEFINE w == [u EXCEPT !.recheck = risk]
<1>4. /\ w \in RiskValues /\ w.run = u.run /\ w.level = u.level /\ w.decision = u.decision
      /\ w.answer = u.answer /\ w.final = u.final /\ w.recheck = risk /\ w.stop = u.stop
  BY <1>2 DEF RiskValues
<1>5. RiskNodeEnds(s, "finish", w)
  BY <1>3
<1>. HIDE DEF w
<1>6. RiskAt("finish", w)
  BY <1>2, <1>4 DEF RiskAt, RiskNodes, Settled
<1>. QED  BY <1>2, <1>4, <1>5, <1>6, RiskGoesOn

LEMMA FinishRiskKeeps == ASSUME IInv, NEW s \in Streams, FinishRisk(s)  PROVE IInv'
PROOF
<1>. DEFINE u == stream[s].vals
            w == [u EXCEPT !.stop = IF @ = "none" THEN "completed" ELSE @]
<1>1. At(s, "risk", "finish") /\ EndRun(s, w)
  BY DEF FinishRisk
<1>2. graph = "risk" /\ stream[s] # Idle /\ RiskAt("finish", u) /\ u \in RiskValues
  BY <1>1, AtRiskNode DEF RiskNodes
<1>3. /\ w \in RiskValues /\ w.run = u.run /\ w.level = u.level /\ w.decision = u.decision
      /\ w.answer = u.answer /\ w.final = u.final /\ w.recheck = u.recheck
      /\ w.stop = IF u.stop = "none" THEN "completed" ELSE u.stop
  BY <1>2 DEF RiskValues
<1>. HIDE DEF w
<1>4. RiskAt("end", w)
  BY <1>2, <1>3 DEF RiskAt, RiskNodes, Settled
<1>5. Fits(graph, "end", w) /\ MayStillAct(u, w)
  BY <1>2, <1>4 DEF Fits, MayStillAct, MayAct
<1>. QED  BY <1>1, <1>2, <1>3, <1>5, EndRunKeeps

LEMMA RiskNodeKeeps == ASSUME IInv, NEW s \in Streams, RiskNode(s)  PROVE IInv'
PROOF
<1>. QED  BY LoadAccountSignalKeeps, EvaluateRiskKeeps, ChoosePolicyKeeps, CooldownActionKeeps,
            AskAboutRiskKeeps, EscalateToOperatorKeeps, ApplyOperatorOverrideKeeps,
            RecheckSignalKeeps, FinishRiskKeeps DEF RiskNode

LEMMA RunRiskKeeps == ASSUME IInv, NEW s \in Streams, RunRisk(s)  PROVE IInv'
PROOF
<1>. DEFINE v == RiskState(runs + 1)
<1>1. StartRun(s, graph, "load_account_signal", v) /\ graph = "risk" /\ runs < MaxRuns
  BY DEF RunRisk, StartRun, At
<1>2. runs + 1 \in 1..MaxRuns
  BY <1>1, StoresFacts
<1>3. RiskAt("load_account_signal", v)
  BY <1>2 DEF RiskAt, RiskValues, RiskState, RiskNodes, Undecided
<1>4. v.run = runs + 1 /\ Fits(graph, "load_account_signal", v)
  BY <1>1, <1>3 DEF RiskState, Fits
<1>. HIDE DEF v
<1>5. Permits(graph, Drive("load_account_signal", v, NoAnswer, "nothing")) = {}
  BY <1>1 DEF Permits
<1>. QED  BY <1>1, <1>4, <1>5, StartRunKeeps

-----------------------------------------------------------------------------
(* The content pipeline.                                                      *)

Onward(node, v) == IF v.stop = "none" THEN node ELSE "finish"

LEMMA ContentAdvance ==
  ASSUME IInv, graph = "content", NEW s \in Streams, stream[s] # Idle,
         NEW node, NEW v, ContentNodeEnds(s, node, v), ContentAt(Onward(node, v), v),
         node # "end", v.run = stream[s].vals.run, MayStillAct(stream[s].vals, v),
         Grants(Drive(Onward(node, v), v, NoAnswer, "nothing"))
  PROVE  IInv'
PROOF
<1>. DEFINE next == Onward(node, v)
<1>1. Advance(s, next, v) /\ UNCHANGED <<bounds, asks, effects, logins>>
  BY DEF ContentNodeEnds, Onward
<1>2. Fits(graph, next, v) /\ next # "end" /\ Spends(s, v)
  BY DEF Fits, Spends, Onward
<1>. HIDE DEF next
<1>3. Leads(s, next, v)
  BY <1>1, <1>2 DEF Leads
<1>4. Grants(Drive(next, v, NoAnswer, "nothing"))
  BY DEF next
<1>. QED  BY <1>2, <1>3, <1>4, AdvanceKeeps

\* Only the operator's approval leads to a draft.
LEMMA ContentGoesOn ==
  ASSUME IInv, graph = "content", NEW s \in Streams, stream[s] # Idle,
         NEW node, NEW v, ContentNodeEnds(s, node, v), ContentAt(Onward(node, v), v),
         node \notin {"end", "schedule_draft"}, v.run = stream[s].vals.run,
         v.approval = stream[s].vals.approval \/ stream[s].vals.approval = "none",
         UNCHANGED granted
  PROVE  IInv'
PROOF
<1>1. MayStillAct(stream[s].vals, v)
  BY DEF MayStillAct, MayAct
<1>2. Onward(node, v) # "schedule_draft"
  BY DEF Onward
<1>3. Permits(graph, Drive(Onward(node, v), v, NoAnswer, "nothing")) = {}
  BY <1>2, DriveFields DEF Permits
<1>4. Grants(Drive(Onward(node, v), v, NoAnswer, "nothing"))
  BY <1>3 DEF Grants
<1>. QED  BY <1>1, <1>4, ContentAdvance

LEMMA AtContentNode ==
  ASSUME IInv, NEW s \in Streams, NEW node \in ContentNodes, At(s, "content", node)
  PROVE  /\ graph = "content" /\ stream[s] # Idle /\ stream[s].pc = node
         /\ ContentAt(node, stream[s].vals) /\ stream[s].vals \in ContentValues
         /\ stream[s].answer \in ContentAnswers \union {NoAnswer}
         /\ stream[s].did \in Deeds
PROOF
<1>1. graph = "content" /\ stream[s].pc = node /\ node # "idle"
  BY DEF At, ContentNodes
<1>2. stream[s] # Idle /\ Driven(graph, runs, stream[s])
  BY <1>1, AtNode
<1>3. ContentAt(node, stream[s].vals)
  BY <1>1, <1>2 DEF Driven, Fits
<1>4. AnswersOf[graph] = ContentAnswers
  BY <1>1, StoresFacts DEF AnswersOf
<1>. QED  BY <1>1, <1>2, <1>3, <1>4 DEF Driven, ContentAt

ContentStops ==
  {"none", "invalid_input", "validation_failed", "error", "no_targets", "rejected"}

\* What a node may change of the values and stay within their types.
LEMMA StoppedContent ==
  ASSUME NEW u \in ContentValues, NEW stop \in ContentStops
  PROVE  LET w == [u EXCEPT !.stop = stop] IN
         /\ w \in ContentValues /\ w.run = u.run /\ w.approval = u.approval
         /\ w.passed = u.passed /\ w.stop = stop /\ w.caption = u.caption
PROOF
<1>. QED  BY DEF ContentValues, ContentStops

LEMMA IngestCampaignBriefKeeps ==
  ASSUME IInv, NEW s \in Streams, IngestCampaignBrief(s)  PROVE IInv'
PROOF
<1>. DEFINE u == stream[s].vals
            stop == IF u.brief THEN u.stop ELSE "invalid_input"
            w == [u EXCEPT !.stop = stop]
<1>1. /\ At(s, "content", "ingest_campaign_brief") /\ UNCHANGED granted
      /\ ContentNodeEnds(s, "generate_caption", w)
  BY DEF IngestCampaignBrief
<1>2. /\ graph = "content" /\ stream[s] # Idle /\ ContentAt("ingest_campaign_brief", u)
      /\ u \in ContentValues
  BY <1>1, AtContentNode DEF ContentNodes
<1>3. stop \in ContentStops
  BY <1>2 DEF ContentValues, ContentStops
<1>4. /\ w \in ContentValues /\ w.run = u.run /\ w.approval = u.approval
      /\ w.passed = u.passed /\ w.stop = stop
  <2>. HIDE DEF stop
  <2>. QED  BY <1>2, <1>3, StoppedContent
<1>. HIDE DEF w
<1>5. ContentAt(Onward("generate_caption", w), w)
  BY <1>2, <1>4 DEF ContentAt, ContentNodes, Onward
<1>. QED  BY <1>1, <1>2, <1>4, <1>5, ContentGoesOn

LEMMA GenerateCaptionKeeps == ASSUME IInv, NEW s \in Streams, GenerateCaption(s)  PROVE IInv'
PROOF
<1>. DEFINE u == stream[s].vals
<1>1. At(s, "content", "generate_caption") /\ UNCHANGED granted
  BY DEF GenerateCaption
<1>2. /\ graph = "content" /\ stream[s] # Idle /\ ContentAt("generate_caption", u)
      /\ u \in ContentValues
  BY <1>1, AtContentNode DEF ContentNodes
<1>3. ASSUME NEW stop \in ContentStops \ {"none", "rejected"},
             ContentNodeEnds(s, "finish", [u EXCEPT !.stop = stop])
      PROVE  IInv'
  <2>. DEFINE w == [u EXCEPT !.stop = stop]
  <2>1. /\ w \in ContentValues /\ w.run = u.run /\ w.approval = u.approval
        /\ w.passed = u.passed /\ w.stop = stop
    BY <1>2, StoppedContent
  <2>2. ContentNodeEnds(s, "finish", w)
    BY <1>3
  <2>. HIDE DEF w
  <2>3. ContentAt(Onward("finish", w), w)
    BY <1>2, <2>1 DEF ContentAt, ContentNodes, Onward
  <2>. QED  BY <1>1, <1>2, <2>1, <2>2, <2>3, ContentGoesOn
<1>4. CASE ~NoMoreRevisions(u) /\ ContentNodeEnds(s, "validate_caption", Revised(u))
  <2>. DEFINE w == Revised(u)
              n == u.revisions + 1
  <2>1. /\ u.revisions \in Nat /\ u.max \in 0..MaxRevisions /\ MaxRevisions \in Nat
        /\ u.revisions < u.max
    BY <1>2, <1>4, ContentAssumption DEF ContentValues, NoMoreRevisions
  <2>2. n \in 0..MaxRevisions /\ n <= u.max
    BY <2>1
  <2>3. w = [u EXCEPT !.revisions = n, !.caption = Caption("generated", n), !.passed = FALSE]
    BY <1>2 DEF Revised, ContentValues
  <2>4. Caption("generated", n) \in Captions
    BY <2>2 DEF Caption, Captions
  <2>. HIDE DEF w, n
  <2>5. /\ w \in ContentValues /\ w.run = u.run /\ w.approval = u.approval /\ w.stop = u.stop
    BY <1>2, <2>2, <2>3, <2>4 DEF ContentValues
  <2>6. ContentAt(Onward("validate_caption", w), w)
    BY <1>2, <2>5 DEF ContentAt, ContentNodes, Onward
  <2>. QED  BY <1>1, <1>2, <1>4, <2>5, <2>6, ContentGoesOn DEF w
<1>5. {"validation_failed", "error"} \subseteq ContentStops \ {"none", "rejected"}
  BY DEF ContentStops
<1>. QED  BY <1>3, <1>4, <1>5 DEF GenerateCaption

LEMMA ValidateCaptionKeeps == ASSUME IInv, NEW s \in Streams, ValidateCaption(s)  PROVE IInv'
PROOF
<1>. DEFINE u == stream[s].vals
            v(passed) == [u EXCEPT !.passed = passed]
            last(passed) == ~passed /\ v(passed).revisions >= v(passed).max
            w(passed) ==
              [v(passed) EXCEPT !.stop = IF last(passed) THEN "validation_failed" ELSE @]
<1>1. At(s, "content", "validate_caption") /\ UNCHANGED granted
  BY DEF ValidateCaption
<1>2. /\ graph = "content" /\ stream[s] # Idle /\ ContentAt("validate_caption", u)
      /\ u \in ContentValues
  BY <1>1, AtContentNode DEF ContentNodes
<1>3. PICK passed \in BOOLEAN :
        ContentNodeEnds(s, RouteAfterValidate(w(passed)), w(passed))
  BY DEF ValidateCaption
<1>. DEFINE x == v(passed)
            stop == IF last(passed) THEN "validation_failed" ELSE x.stop
            y == [x EXCEPT !.stop = stop]
            node == RouteAfterValidate(y)
<1>4. /\ x \in ContentValues /\ x.run = u.run /\ x.approval = u.approval
      /\ x.passed = passed /\ x.stop = u.stop
  BY <1>2 DEF ContentValues
<1>5. stop \in ContentStops
  BY <1>4 DEF ContentValues, ContentStops
<1>6. stop # "rejected" /\ (stop # "none" => ~passed)
  <2>1. u.stop = "none"
    BY <1>2 DEF ContentAt
  <2>2. last(passed) => ~passed /\ stop = "validation_failed"
    OBVIOUS
  <2>3. ~last(passed) => stop = x.stop
    OBVIOUS
  <2>. HIDE DEF x, last, stop
  <2>. QED  BY <1>4, <2>1, <2>2, <2>3
<1>7. ContentNodeEnds(s, node, y)
  BY <1>3
<1>. HIDE DEF x, stop
<1>8. /\ y \in ContentValues /\ y.run = u.run /\ y.approval = u.approval
      /\ y.passed = passed /\ y.stop = stop
  BY <1>4, <1>5, StoppedContent
<1>. HIDE DEF y
<1>9. node = IF passed THEN "select_target_accounts" ELSE "generate_caption"
  BY <1>8 DEF RouteAfterValidate
<1>. HIDE DEF node
<1>10. ContentAt(Onward(node, y), y) /\ node \notin {"end", "schedule_draft"}
  BY <1>2, <1>6, <1>8, <1>9 DEF ContentAt, ContentNodes, Onward
<1>. QED  BY <1>1, <1>2, <1>7, <1>8, <1>10, ContentGoesOn

LEMMA SelectTargetAccountsKeeps ==
  ASSUME IInv, NEW s \in Streams, SelectTargetAccounts(s)  PROVE IInv'
PROOF
<1>. DEFINE u == stream[s].vals
            stop == IF u.targets THEN u.stop ELSE "no_targets"
            w == [u EXCEPT !.stop = stop]
<1>1. /\ At(s, "content", "select_target_accounts") /\ UNCHANGED granted
      /\ ContentNodeEnds(s, "operator_approval", w)
  BY DEF SelectTargetAccounts
<1>2. /\ graph = "content" /\ stream[s] # Idle /\ ContentAt("select_target_accounts", u)
      /\ u \in ContentValues
  BY <1>1, AtContentNode DEF ContentNodes
<1>3. stop \in ContentStops
  BY <1>2 DEF ContentValues, ContentStops
<1>4. /\ w \in ContentValues /\ w.run = u.run /\ w.approval = u.approval
      /\ w.passed = u.passed /\ w.stop = stop
  <2>. HIDE DEF stop
  <2>. QED  BY <1>2, <1>3, StoppedContent
<1>. HIDE DEF w
<1>5. ContentAt(Onward("operator_approval", w), w)
  BY <1>2, <1>4 DEF ContentAt, ContentNodes, Onward
<1>. QED  BY <1>1, <1>2, <1>4, <1>5, ContentGoesOn

LEMMA AskForApprovalKeeps == ASSUME IInv, NEW s \in Streams, AskForApproval(s)  PROVE IInv'
PROOF
<1>1. /\ At(s, "content", "operator_approval") /\ Interrupt(s)
      /\ UNCHANGED <<bounds, granted, effects, logins>>
  BY DEF AskForApproval
<1>2. graph = "content" /\ stream[s] # Idle /\ stream[s].pc = "operator_approval"
  BY <1>1, AtContentNode DEF ContentNodes
<1>3. Asking(graph, stream[s].pc, stream[s].vals)
  BY <1>2 DEF Asking
<1>. QED  BY <1>1, <1>2, <1>3, InterruptKeeps

\* The caption of the draft is the one the operator let pass.
LEMMA OperatorApprovalKeeps ==
  ASSUME IInv, NEW s \in Streams, OperatorApproval(s)  PROVE IInv'
PROOF
<1>. DEFINE u == stream[s].vals
            answer == stream[s].answer
<1>1. At(s, "content", "operator_approval") /\ answer # NoAnswer
  BY DEF OperatorApproval
<1>2. /\ graph = "content" /\ stream[s] # Idle /\ ContentAt("operator_approval", u)
      /\ u \in ContentValues /\ answer \in ContentAnswers
  BY <1>1, AtContentNode DEF ContentNodes
<1>3. u.stop = "none" /\ u.passed /\ u.approval = "none"
  BY <1>2 DEF ContentAt
<1>4. CASE answer.decision = "rejected"
  <2>. DEFINE w == [u EXCEPT !.approval = "rejected", !.stop = "rejected"]
  <2>1. ContentNodeEnds(s, "finish", w) /\ UNCHANGED granted
    BY <1>4 DEF OperatorApproval
  <2>2. /\ w \in ContentValues /\ w.run = u.run /\ w.approval = "rejected"
        /\ w.passed = u.passed /\ w.stop = "rejected"
    BY <1>2 DEF ContentValues
  <2>. HIDE DEF w
  <2>3. ContentAt(Onward("finish", w), w)
    BY <1>3, <2>2 DEF ContentAt, ContentNodes, Onward
  <2>. QED  BY <1>2, <1>3, <2>1, <2>2, <2>3, ContentGoesOn
<1>5. CASE answer.decision # "rejected"
  <2>. DEFINE w == Approved(u, answer)
              e == LetPass(u, answer)
  <2>1. ContentNodeEnds(s, "schedule_draft", w) /\ granted' = Append(granted, e)
    BY <1>5 DEF OperatorApproval
  <2>2. answer.with \in {"nothing"} \union Edits
    BY <1>2 DEF ContentAnswers
  <2>3. Caption(answer.with, 0) \in Captions
    BY <2>2, ContentAssumption DEF Caption, Captions
  <2>4. /\ w \in ContentValues /\ w.run = u.run /\ w.approval \in {"approved", "edited"}
        /\ w.passed = u.passed /\ w.stop = u.stop
        /\ w.caption = IF answer.with = "nothing" THEN u.caption ELSE Caption(answer.with, 0)
    <3>1. CASE answer.with = "nothing"
      <4>1. w = [u EXCEPT !.approval = "approved"]
        BY <3>1 DEF Approved
      <4>. HIDE DEF w
      <4>. QED  BY <1>2, <3>1, <4>1 DEF ContentValues
    <3>2. CASE answer.with # "nothing"
      <4>1. w = [u EXCEPT !.approval = "edited", !.caption = Caption(answer.with, 0)]
        BY <3>2 DEF Approved
      <4>. HIDE DEF w
      <4>. QED  BY <1>2, <2>3, <3>2, <4>1 DEF ContentValues
    <3>. QED  BY <3>1, <3>2
  <2>5. e \in Entries /\ e.run = u.run /\ e.kind = "draft" /\ e.what = w.caption
    <3>1. e = [run |-> u.run, kind |-> "draft", what |-> w.caption]
      <4>. HIDE DEF w
      <4>. QED  BY <2>4 DEF LetPass
    <3>2. w.caption \in Captions /\ u.run \in 1..MaxRuns
      <4>. HIDE DEF w
      <4>. QED  BY <1>2, <2>4 DEF ContentValues
    <3>. HIDE DEF w, e
    <3>. QED  BY <3>1, <3>2 DEF Entries
  <2>. HIDE DEF w, e
  <2>6. Onward("schedule_draft", w) = "schedule_draft"
    BY <1>3, <2>4 DEF Onward
  <2>7. ContentAt("schedule_draft", w)
    BY <1>3, <2>4 DEF ContentAt, ContentNodes
  <2>8. MayStillAct(u, w)
    BY <1>2, <2>4 DEF MayStillAct, MayAct
  <2>9. ASSUME NEW f \in Permits(graph, Drive("schedule_draft", w, NoAnswer, "nothing"))
        PROVE  f = e
    <3>1. f \in Entries /\ f.run = e.run /\ f.kind = e.kind /\ f.what = e.what
      BY <1>2, <2>4, <2>5, DriveFields DEF Permits
    <3>. QED  BY <2>5, <3>1 DEF Entries
  <2>10. Grants(Drive("schedule_draft", w, NoAnswer, "nothing"))
    BY <2>1, <2>5, <2>9 DEF Grants
  <2>. QED  BY <1>2, <2>1, <2>4, <2>6, <2>7, <2>8, <2>10, ContentAdvance
<1>. QED  BY <1>4, <1>5

LEMMA ScheduleDraftKeeps == ASSUME IInv, NEW s \in Streams, ScheduleDraft(s)  PROVE IInv'
PROOF
<1>. DEFINE u == stream[s].vals
            e == [run |-> u.run, kind |-> "draft", what |-> u.caption]
<1>1. /\ At(s, "content", "schedule_draft") /\ stream[s].did = "nothing"
      /\ UNCHANGED <<bounds, asks, granted, logins>>
  BY DEF ScheduleDraft
<1>2. /\ graph = "content" /\ stream[s] # Idle /\ stream[s].pc = "schedule_draft"
      /\ u \in ContentValues
  BY <1>1, AtContentNode DEF ContentNodes
<1>3. e \in Entries
  BY <1>2 DEF Entries, ContentValues
<1>4. e \in Permits(graph, stream[s])
  BY <1>1, <1>2, <1>3 DEF Permits
<1>5. \/ Did(s, "draft") /\ effects' = Append(effects, e)
      \/ Did(s, "no_account") /\ effects' = effects
  BY DEF ScheduleDraft
<1>. HIDE DEF e
<1>6. Tries(s, "draft") /\ Tries(s, "no_account")
  BY <1>1 DEF Tries
<1>7. {"draft", "no_account"} \subseteq Deeds \ {"nothing"}
  BY DEF Deeds
<1>8. CASE Did(s, "draft") /\ effects' = Append(effects, e)
  BY <1>1, <1>2, <1>4, <1>6, <1>7, <1>8, DidKeeps
<1>9. CASE Did(s, "no_account") /\ effects' = effects
  BY <1>1, <1>2, <1>6, <1>7, <1>9, DidKeeps
<1>. QED  BY <1>5, <1>8, <1>9

LEMMA ScheduleDoneKeeps == ASSUME IInv, NEW s \in Streams, ScheduleDone(s)  PROVE IInv'
PROOF
<1>. DEFINE u == stream[s].vals
            w == [u EXCEPT !.stop = "error"]
<1>1. /\ At(s, "content", "schedule_draft") /\ UNCHANGED granted
      /\ ContentNodeEnds(s, "finish", w)
  BY DEF ScheduleDone
<1>2. /\ graph = "content" /\ stream[s] # Idle /\ ContentAt("schedule_draft", u)
      /\ u \in ContentValues
  BY <1>1, AtContentNode DEF ContentNodes
<1>3. /\ w \in ContentValues /\ w.run = u.run /\ w.approval = u.approval
      /\ w.passed = u.passed /\ w.stop = "error"
  BY <1>2, StoppedContent DEF ContentStops
<1>. HIDE DEF w
<1>4. ContentAt(Onward("finish", w), w)
  BY <1>2, <1>3 DEF ContentAt, ContentNodes, Onward
<1>. QED  BY <1>1, <1>2, <1>3, <1>4, ContentGoesOn

LEMMA FinishContentKeeps == ASSUME IInv, NEW s \in Streams, FinishContent(s)  PROVE IInv'
PROOF
<1>. DEFINE u == stream[s].vals
<1>1. At(s, "content", "finish") /\ EndRun(s, u)
  BY DEF FinishContent
<1>2. graph = "content" /\ stream[s] # Idle /\ ContentAt("finish", u)
  BY <1>1, AtContentNode DEF ContentNodes
<1>3. ContentAt("end", u)
  BY <1>2 DEF ContentAt
<1>4. Fits(graph, "end", u) /\ MayStillAct(u, u)
  BY <1>2, <1>3 DEF Fits, MayStillAct, MayAct
<1>. QED  BY <1>1, <1>2, <1>4, EndRunKeeps

LEMMA ContentNodeKeeps == ASSUME IInv, NEW s \in Streams, ContentNode(s)  PROVE IInv'
PROOF
<1>. QED  BY IngestCampaignBriefKeeps, GenerateCaptionKeeps, ValidateCaptionKeeps,
            SelectTargetAccountsKeeps, AskForApprovalKeeps, OperatorApprovalKeeps,
            ScheduleDraftKeeps, ScheduleDoneKeeps, FinishContentKeeps DEF ContentNode

LEMMA RunContentKeeps == ASSUME IInv, NEW s \in Streams, RunContent(s)  PROVE IInv'
PROOF
<1>1. PICK brief \in BOOLEAN, targets \in BOOLEAN, max \in 0..MaxRevisions :
        StartRun(s, "content", "ingest_campaign_brief",
                 ContentState(runs + 1, brief, targets, max))
  BY DEF RunContent
<1>. DEFINE v == ContentState(runs + 1, brief, targets, max)
<1>2. /\ StartRun(s, graph, "ingest_campaign_brief", v) /\ graph = "content"
      /\ runs < MaxRuns
  BY <1>1 DEF StartRun, At
<1>3. runs + 1 \in 1..MaxRuns
  BY <1>2, StoresFacts
<1>4. NoCaption \in Captions
  BY ContentAssumption DEF NoCaption, Caption, Captions
<1>5. 0 \in 0..MaxRevisions /\ 0 <= max
  BY ContentAssumption
<1>6. v = [run |-> runs + 1, brief |-> brief, targets |-> targets, max |-> max,
           revisions |-> 0, caption |-> NoCaption, passed |-> FALSE, approval |-> "none",
           stop |-> "none"]
  BY DEF ContentState
<1>. HIDE DEF v
<1>7. v \in ContentValues /\ v.run = runs + 1 /\ v.approval = "none" /\ v.stop = "none"
  BY <1>3, <1>4, <1>5, <1>6 DEF ContentValues
<1>8. ContentAt("ingest_campaign_brief", v)
  BY <1>7 DEF ContentAt, ContentNodes
<1>9. Fits(graph, "ingest_campaign_brief", v)
  BY <1>2, <1>8 DEF Fits
<1>10. Permits(graph, Drive("ingest_campaign_brief", v, NoAnswer, "nothing")) = {}
  BY <1>2, DriveFields DEF Permits
<1>. QED  BY <1>2, <1>7, <1>9, <1>10, StartRunKeeps

-----------------------------------------------------------------------------
(* The theorems.                                                              *)

LEMMA InitHolds == Init => IInv
PROOF
<1>. SUFFICES ASSUME Init  PROVE IInv
  OBVIOUS
<1>1. /\ graph \in Graphs /\ backend \in Backends /\ saved = NoCheckpoint
      /\ stream = [s \in Streams |-> Idle] /\ runs = 0 /\ resumes = 0 /\ careless = FALSE
      /\ asks = [r \in 1..MaxRuns |-> 0] /\ answers = [r \in 1..MaxRuns |-> 0]
      /\ granted = <<>> /\ effects = <<>> /\ logins = [r \in 1..MaxRuns |-> 0]
  BY DEF Init, GraphInit
<1>2. StoresInv
  <2>1. granted \in Seq(Entries) /\ effects \in Seq(Entries) /\ DOMAIN effects = {}
    BY <1>1
  <2>2. runs \in 0..MaxRuns /\ resumes \in 0..MaxResumes
    BY <1>1, GraphAssumption
  <2>. QED  BY <1>1, <2>1, <2>2 DEF StoresInv
<1>3. StreamsInv /\ SavedInv /\ CarefulInv
  BY <1>1 DEF StreamsInv, SavedInv, CarefulInv
<1>4. LoginsInv
  BY <1>1, NoneWaits, RecoveryAssumption DEF LoginsInv, LoginsAreBounded
<1>5. GrantsInv
  <2>. SUFFICES ASSUME NEW e \in Entries
                PROVE  Times(effects, e) + Open(e) <= Times(granted, e)
    BY DEF GrantsInv
  <2>1. Open(e) = 0
    BY <1>1, IdlePermits DEF Open
  <2>2. Times(granted, e) \in Nat
    BY <1>2, TimesIsNat DEF StoresInv
  <2>3. effects = granted
    BY <1>1
  <2>. QED  BY <2>1, <2>2, <2>3
<1>6. ActsInv
  BY <1>1 DEF ActsInv
<1>. QED  BY <1>2, <1>3, <1>4, <1>5, <1>6 DEF IInv

LEMMA PostResumeKeeps == ASSUME IInv, NEW s \in Streams, PostResume(s)  PROVE IInv'
PROOF
<1>. QED  BY ResumeKeeps DEF PostResume

LEMMA StutterKeeps == ASSUME IInv, UNCHANGED vars  PROVE IInv'
PROOF
<1>1. /\ stream' = stream /\ saved' = saved /\ graph' = graph /\ backend' = backend
      /\ runs' = runs /\ resumes' = resumes /\ careless' = careless /\ answers' = answers
      /\ asks' = asks /\ granted' = granted /\ effects' = effects /\ logins' = logins
  BY DEF vars, runVars, bounds
<1>2. StoresInv' /\ StreamsInv' /\ SavedInv' /\ CarefulInv'
  BY <1>1 DEF IInv, StoresInv, StreamsInv, SavedInv, CarefulInv
<1>3. LoginsInv' /\ ActsInv'
  BY <1>1 DEF IInv, LoginsInv, LoginsAreBounded, Busy, Answered, ActsInv, Acted, Effects, MayAct
<1>4. GrantsInv'
  <2>1. \A e : Open(e)' = Open(e)
    BY <1>1 DEF Open
  <2>. QED  BY <1>1, <2>1 DEF IInv, GrantsInv
<1>. QED  BY <1>2, <1>3, <1>4 DEF IInv

LEMMA StepHolds == IInv /\ [Next]_vars => IInv'
PROOF
<1>. SUFFICES ASSUME IInv, [Next]_vars  PROVE IInv'
  OBVIOUS
<1>1. CASE Restart
  BY <1>1, RestartKeeps
<1>2. ASSUME NEW s \in Streams, PostRun(s)  PROVE IInv'
  BY <1>2, RunRecoveryKeeps, RunRiskKeeps, RunContentKeeps DEF PostRun
<1>3. ASSUME NEW s \in Streams, PostResume(s)  PROVE IInv'
  BY <1>3, PostResumeKeeps
<1>4. ASSUME NEW s \in Streams, Node(s)  PROVE IInv'
  BY <1>4, RecoveryNodeKeeps, RiskNodeKeeps, ContentNodeKeeps DEF Node
<1>5. ASSUME NEW s \in Streams, Break(s)  PROVE IInv'
  BY <1>5, BreakKeeps
<1>6. CASE UNCHANGED vars
  BY <1>6, StutterKeeps
<1>. QED  BY <1>1, <1>2, <1>3, <1>4, <1>5, <1>6 DEF Next

LEMMA Inductive == Spec => []IInv
PROOF
<1>. QED  BY InitHolds, StepHolds, PTL DEF Spec

\* What a conversation keeps, in its streams and in its checkpoint, is a state
\* of its own graph.
THEOREM TypeCorrect == Spec => []TypeOK
PROOF
<1>1. ASSUME IInv  PROVE TypeOK
  <2>1. /\ graph \in {"recovery", "risk", "content"}
        /\ graph \in Graphs /\ backend \in Backends /\ runs \in 0..MaxRuns
        /\ resumes \in 0..MaxResumes /\ careless \in BOOLEAN
    BY <1>1, StoresFacts DEF IInv, StoresInv
  <2>2. ASSUME NEW node, NEW v, Fits(graph, node, v)  PROVE ValidValues(v)
    <3>1. ValuesOf[graph] = CASE graph = "recovery" -> RecoveryValues
                              [] graph = "risk" -> RiskValues
                              [] graph = "content" -> ContentValues
      BY <2>1 DEF ValuesOf
    <3>2. CASE graph = "recovery"
      BY <2>2, <3>1, <3>2 DEF Fits, RecoveryAt, ValidValues
    <3>3. CASE graph = "risk"
      BY <2>2, <3>1, <3>3 DEF Fits, RiskAt, ValidValues
    <3>4. CASE graph = "content"
      BY <2>2, <3>1, <3>4 DEF Fits, ContentAt, ValidValues
    <3>. QED  BY <2>1, <3>2, <3>3, <3>4
  <2>3. ASSUME NEW s \in Streams  PROVE ValidValues(stream[s].vals)
    <3>1. CASE stream[s] = Idle
      BY <3>1 DEF Idle, Drive, ValidValues
    <3>2. CASE stream[s] # Idle
      BY <1>1, <2>2, <3>2, DrivenFacts
    <3>. QED  BY <3>1, <3>2
  <2>4. ValidValues(saved.vals)
    <3>1. CASE saved = NoCheckpoint
      BY <3>1 DEF NoCheckpoint, Checkpoint, ValidValues
    <3>2. CASE saved # NoCheckpoint
      <4>1. Kept(graph, runs, saved)
        BY <1>1, <3>2 DEF IInv, SavedInv
      <4>. QED  BY <2>2, <4>1 DEF Kept
    <3>. QED  BY <3>1, <3>2
  <2>. QED  BY <2>1, <2>3, <2>4 DEF TypeOK
<1>. QED  BY <1>1, Inductive, PTL

\* An account is logged in no more often than by its attempts, and once more for
\* each question and each answer, for any limit of attempts.
THEOREM LoginsStayBounded == Spec => []LoginsAreBounded
PROOF
<1>1. ASSUME IInv  PROVE LoginsAreBounded
  BY <1>1 DEF IInv, LoginsInv, LoginsAreBounded
<1>. QED  BY <1>1, Inductive, PTL

\* A swap or a draft is made no more often than the operator agreed to it, with
\* any proxies and captions.
THEOREM EffectsFollowAnswers == Spec => []EffectsAreAnswered
PROOF
<1>1. ASSUME IInv  PROVE EffectsAreAnswered
  <2>. SUFFICES ASSUME ~careless, NEW i \in DOMAIN effects
                PROVE  Times(effects, effects[i]) <= Times(granted, effects[i])
    BY DEF EffectsAreAnswered
  <2>1. effects \in Seq(Entries) /\ granted \in Seq(Entries)
    BY <1>1, StoresFacts
  <2>2. effects[i] \in Entries
    BY <2>1
  <2>3. Times(effects, effects[i]) + Open(effects[i]) <= Times(granted, effects[i])
    BY <1>1, <2>2 DEF IInv, GrantsInv
  <2>4. Times(effects, effects[i]) \in Nat /\ Times(granted, effects[i]) \in Nat
    BY <2>1, TimesIsNat
  <2>5. Open(effects[i]) \in {0, 1}
    BY DEF Open
  <2>. QED  BY <2>3, <2>4, <2>5
<1>. QED  BY <1>1, Inductive, PTL

\* The reason a run reports when it has ended goes with what it saw and did and
\* with what the operator said, however often it went round and whatever a
\* client that leaves or a restart made of it.
THEOREM EndedRunsAddUp == Spec => []EndedRunAddsUp
PROOF
<1>1. ASSUME IInv  PROVE EndedRunAddsUp
  <2>. DEFINE v == saved.vals
              acted == Effects(v.run) # {}
  <2>. SUFFICES ASSUME ~careless, saved.next = "end"
                PROVE  /\ v.stop # "none"
                       /\ graph = "recovery" => RecoveryAddsUp(v, acted \/ logins[v.run] > 0)
                       /\ graph = "risk" => RiskAddsUp(v)
                       /\ graph = "content" => ContentAddsUp(v, acted)
    BY DEF EndedRunAddsUp
  <2>1. saved # NoCheckpoint
    BY NoneWaits
  <2>2. Fits(graph, "end", v)
    BY <1>1, <2>1 DEF IInv, SavedInv, Kept
  <2>3. Acted(v.run) => MayAct(graph, v)
    BY <1>1, <2>1 DEF IInv, ActsInv
  <2>4. CASE graph = "recovery"
    <3>1. v.stop = "no_issue" => ~Acted(v.run)
      BY <2>2, <2>3, <2>4 DEF Fits, RecoveryAt, MayAct
    <3>. QED  BY <2>2, <2>4, <3>1 DEF Fits, RecoveryAt, RecoveryAddsUp, Acted
  <2>5. CASE graph = "risk"
    BY <2>2, <2>5 DEF Fits, RiskAt, Settled, RiskAddsUp
  <2>6. CASE graph = "content"
    <3>1. ContentAt("end", v)
      BY <2>2, <2>6 DEF Fits
    <3>2. acted => v.approval \in {"approved", "edited"}
      BY <2>3, <2>6 DEF Acted, MayAct
    <3>. QED  BY <2>6, <3>1, <3>2 DEF ContentAt, ContentAddsUp
  <2>7. graph \in {"recovery", "risk", "content"}
    BY <1>1, StoresFacts
  <2>. QED  BY <2>4, <2>5, <2>6, <2>7
<1>. QED  BY <1>1, Inductive, PTL
=============================================================================
