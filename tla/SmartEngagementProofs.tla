----------------------- MODULE SmartEngagementProofs ------------------------
(* For any number of conversations, streams, targets and runs: only what an  *)
(* answer let through is sent, and runs that do not overlap approach nobody  *)
(* twice, as long as the memory is not longer than one recall. The inductive *)
(* invariants say what a state has gone through by the node it is about to   *)
(* enter, be it in a stream or in a checkpoint.                              *)
EXTENDS SmartEngagement, TLAPS

Streaming == Nodes \union {"idle", "executed"}
Resting == Nodes \union {"none", "end"}
Engagements == [target : Targets, outcome : Outcomes]
Drives == [thread : Threads, pc : Streaming, vals : Values, answer : Answers \union {NoAnswer}]
Checkpoints == [next : Resting, vals : Values, waits : BOOLEAN]

\* The message that the state v would have sent.
MessageOf(v) == [run |-> v.run, target |-> v.target, content |-> v.content]

\* What is true of a state that is about to enter a node, or is inside one: it
\* belongs to a run, has a target once one was picked, is not asked about
\* twice, and goes to the executor in the executing graph and with an answer.
Targeted == {"draft_action", "score_risk", "gate_by_mode", "request_approval",
             "execute_action", "executed"}
Unasked == {"ingest_goal", "load_account_context", "discover_candidates", "rank_candidates",
            "draft_action", "score_risk", "gate_by_mode", "request_approval"}
Executing == {"request_approval", "execute_action", "executed"}
NodeInv(node, v, let) ==
  /\ node \notin {"idle", "none"} => v.run \in 1..MaxRuns
  /\ node \in Targeted => v.target \in Targets
  /\ node \in Unasked => ~v.attempted
  /\ node \in Executing => v.mode = "execute"
  /\ node = "execute_action" => MessageOf(v) \in let

SequencesOK ==
  /\ memory \in [engaged : Seq(Engagements), refused : Seq(Targets)]
  /\ effects \in Seq(Messages)
TypeInv == TypeOK /\ SequencesOK

PlacesInv ==
  /\ \A t \in Threads : NodeInv(saved[t].next, saved[t].vals, decided)
  /\ \A s \in Streams : NodeInv(stream[s].pc, stream[s].vals, decided)

DecidedInv == TypeInv /\ PlacesInv /\ EffectsAreDecided

-----------------------------------------------------------------------------
\* Runs that do not overlap: one stream or one checkpoint is at work.
Open(t) == saved[t].next \notin {"none", "finish", "end"}
Working(s) == stream[s].pc # "idle"

OneAtWork ==
  /\ \A s, r \in Streams : Working(s) /\ Working(r) => s = r
  /\ \A t, u \in Threads : Open(t) /\ Open(u) => t = u
  /\ \A s \in Streams, t \in Threads :
       Working(s) /\ Open(t) => stream[s].thread = t /\ stream[s].vals.mode = "execute"
  /\ \A s \in Streams :
       stream[s].pc \notin {"idle", "finish"} /\ stream[s].vals.mode = "execute" =>
         /\ Open(stream[s].thread)
         /\ stream[s].pc # "request_approval" => ~saved[stream[s].thread].waits
  /\ \A t \in Threads :
       /\ saved[t].waits => saved[t].next = "request_approval"
       /\ saved[t].next # "none" => saved[t].vals.mode = "execute"

\* What is at work is the latest run.
Latest ==
  /\ \A s \in Streams : Working(s) => stream[s].vals.run = runs
  /\ \A t \in Threads : Open(t) => saved[t].vals.run = runs
  /\ \A i \in DOMAIN effects : effects[i].run <= runs
  /\ \A x \in rejected : x.run <= runs

\* A run leaves one record, when it has ended.
Records ==
  /\ Len(memory.engaged) <= runs
  /\ \A s \in Streams : stream[s].pc \notin {"idle", "finish"} => Len(memory.engaged) < runs
  /\ \A t \in Threads : Open(t) => Len(memory.engaged) < runs

\* The targets on record, and those written to or rejected.
Engaged(m) == {m.engaged[i].target : i \in DOMAIN m.engaged}
Touched(sent, refusals) ==
  {sent[i].target : i \in DOMAIN sent} \union {x.target : x \in refusals}

\* Everything touched is on record, but for the target of the run at work once
\* its message went out or was refused, and then it is that of the last run.
Pending(s) == stream[s].pc \in {"executed", "log_outcome"}
Broken(t) == Open(t) /\ ~saved[t].waits /\ \A s \in Streams : ~Working(s)
Recorded ==
  \/ Touched(effects, rejected) \subseteq Engaged(memory)
  \/ \E s \in Streams :
       /\ Pending(s) /\ stream[s].vals.mode = "execute"
       /\ Touched(effects, rejected) \subseteq Engaged(memory) \union {stream[s].vals.target}
  \/ \E t \in Threads : Broken(t)

\* A target that is still to be asked about was never touched by a run on record.
Fresh ==
  /\ \A s \in Streams :
       /\ stream[s].pc = "rank_candidates" => stream[s].vals.found \cap Engaged(memory) = {}
       /\ stream[s].pc \in Targeted \ {"executed"} => stream[s].vals.target \notin Engaged(memory)
  /\ \A t \in Threads : saved[t].waits => saved[t].vals.target \notin Engaged(memory)

ApproachInv ==
  ~overlapped => OneAtWork /\ Latest /\ Records /\ Recorded /\ Fresh


-----------------------------------------------------------------------------
(* Only what was let through is sent.                                        *)

\* What an answer lets through stays let through.
LEMMA NodeInvGrows ==
  ASSUME NEW node, NEW v, NEW let, NEW more, let \subseteq more, NodeInv(node, v, let)
  PROVE  NodeInv(node, v, more)
BY DEF NodeInv

\* The state of a run that begins, and of a stream or a conversation without one.
LEMMA InitialStates ==
  ASSUME NEW r \in 0..MaxRuns, NEW mode \in Modes
  PROVE  InitialState(r, mode) \in Values
BY DEF InitialState, Values, Modes, Stops, Contents

LEMMA NoRunYet ==
  ASSUME NEW t \in Threads, NEW let
  PROVE  /\ Idle(t) \in Drives
         /\ NoCheckpoint \in Checkpoints
         /\ NodeInv(Idle(t).pc, Idle(t).vals, let)
         /\ NodeInv(NoCheckpoint.next, NoCheckpoint.vals, let)
<1>1. 0 \in 0..MaxRuns /\ {"recommendation", "execute"} = Modes
  BY EngagementAssumption DEF Modes
<1>2. InitialState(0, "recommendation") \in Values /\ InitialState(0, "execute") \in Values
  BY <1>1, InitialStates
<1>. QED
  BY <1>2 DEF Idle, NoCheckpoint, Drive, Checkpoint, Drives, Checkpoints, NodeInv, Streaming, Resting, Targeted, Unasked, Executing

\* A node that ends with a state fit for the next one leaves stream and
\* checkpoint in order.
LEMMA AdvanceFacts ==
  ASSUME TypeInv, PlacesInv, NEW s \in Streams, NEW node \in Nodes, NEW v \in Values,
         Advance(s, node, v), decided \subseteq decided', NodeInv(node, v, decided')
  PROVE  /\ saved' \in [Threads -> Checkpoints]
         /\ stream' \in [Streams -> Drives]
         /\ PlacesInv'
<1>. DEFINE t == stream[s].thread
            new == Drive(t, node, v, NoAnswer)
<1>1. /\ t \in Threads
      /\ saved \in [Threads -> Checkpoints]
      /\ stream \in [Streams -> Drives]
  BY DEF TypeInv, TypeOK, Drives, Checkpoints, Streaming, Resting
<1>2. /\ new \in Drives
      /\ Checkpoint(node, v, FALSE) \in Checkpoints
      /\ new.pc = node /\ new.vals = v
      /\ Checkpoint(node, v, FALSE).next = node /\ Checkpoint(node, v, FALSE).vals = v
  BY <1>1 DEF Drive, Checkpoint, Drives, Checkpoints, Streaming, Resting
<1>3. /\ stream' = [stream EXCEPT ![s] = new]
      /\ saved' = saved \/ saved' = [saved EXCEPT ![t] = Checkpoint(node, v, FALSE)]
  BY DEF Advance, Saved
<1>4. \A u \in Threads : NodeInv(saved[u].next, saved[u].vals, decided')
  BY NodeInvGrows DEF PlacesInv
<1>5. \A r \in Streams : NodeInv(stream[r].pc, stream[r].vals, decided')
  BY NodeInvGrows DEF PlacesInv
<1>6. PlacesInv'
  BY <1>1, <1>2, <1>3, <1>4, <1>5 DEF PlacesInv
<1>7. stream' \in [Streams -> Drives] /\ saved' \in [Threads -> Checkpoints]
  <2>. HIDE DEF new, t
  <2>. QED BY <1>1, <1>2, <1>3
<1>. QED
  BY <1>6, <1>7

\* A node that changes nothing else.
LEMMA QuietNode ==
  ASSUME DecidedInv, NEW s \in Streams, NEW node \in Nodes, NEW v \in Values,
         Advance(s, node, v), UNCHANGED <<memory, history, quiet>>,
         NodeInv(node, v, decided)
  PROVE  DecidedInv'
<1>. USE DEF history, quiet
<1>1. /\ decided' = decided /\ effects' = effects /\ rejected' = rejected
      /\ memory' = memory /\ runs' = runs /\ resumes' = resumes /\ overlapped' = overlapped
  OBVIOUS
<1>2. /\ saved' \in [Threads -> Checkpoints]
      /\ stream' \in [Streams -> Drives]
      /\ PlacesInv'
  BY <1>1, AdvanceFacts DEF DecidedInv
<1>3. TypeInv'
  BY <1>1, <1>2 DEF DecidedInv, TypeInv, TypeOK, SequencesOK, Drives, Checkpoints, Streaming,
      Resting
<1>. QED
  BY <1>1, <1>2, <1>3 DEF DecidedInv, EffectsAreDecided

\* A run that stops early has only its outcome to log.
LEMMA StopFacts ==
  ASSUME DecidedInv, NEW s \in Streams, ~At(s, "idle"), NEW reason \in Stops,
         StopAt(s, reason), UNCHANGED <<memory, history, quiet>>
  PROVE  DecidedInv'
<1>1. /\ stream[s].vals \in Values
      /\ stream[s].pc \in Streaming
      /\ NodeInv(stream[s].pc, stream[s].vals, decided)
  BY DEF DecidedInv, TypeInv, TypeOK, PlacesInv, Streaming
<1>. DEFINE v == [stream[s].vals EXCEPT !.stop = reason]
<1>2. v \in Values /\ "log_outcome" \in Nodes
  BY <1>1 DEF Values, Nodes
<1>3. NodeInv("log_outcome", v, decided)
  BY <1>1 DEF NodeInv, Streaming, Nodes, Targeted, Unasked, Executing, At, Values
<1>4. Advance(s, "log_outcome", v)
  BY DEF StopAt
<1>. QED
  BY <1>2, <1>3, <1>4, QuietNode

\* What the memory still suggests of the targets found.
LEMMA CandidatesType ==
  ASSUME NEW found \in SUBSET Targets
  PROVE  Candidates(found) \in SUBSET Targets
BY DEF Candidates

\* POSTs.
LEMMA RecommendFacts ==
  ASSUME DecidedInv, NEW s \in Streams, NEW t \in Threads, NEW mode \in Modes,
         Recommend(s, t, mode)
  PROVE  DecidedInv'
<1>. DEFINE v == InitialState(runs + 1, mode)
            new == Drive(t, "ingest_goal", v, NoAnswer)
            point == Checkpoint("ingest_goal", v, FALSE)
<1>1. runs \in Nat /\ runs' \in 1..MaxRuns /\ runs' = runs + 1
  BY EngagementAssumption DEF DecidedInv, TypeInv, TypeOK, Recommend
<1>2. v \in Values /\ v.run = runs'
  BY <1>1, InitialStates, EngagementAssumption DEF InitialState
<1>3. NodeInv("ingest_goal", v, decided)
  BY <1>1, <1>2 DEF NodeInv, Targeted, Executing, InitialState
<1>4. new \in Drives /\ point \in Checkpoints
  BY <1>2 DEF Drive, Checkpoint, Drives, Checkpoints, Streaming, Resting, Nodes
<1>5. /\ stream' = [stream EXCEPT ![s] = new]
      /\ saved' = saved \/ saved' = [saved EXCEPT ![t] = point]
      /\ UNCHANGED <<memory, resumes, decided, effects, rejected>>
      /\ overlapped' \in BOOLEAN
  BY DEF Recommend, Saved, history, DecidedInv, TypeInv, TypeOK
<1>6. stream \in [Streams -> Drives] /\ saved \in [Threads -> Checkpoints]
  BY DEF DecidedInv, TypeInv, TypeOK, Drives, Checkpoints, Streaming, Resting
<1>7. stream' \in [Streams -> Drives] /\ saved' \in [Threads -> Checkpoints]
  <2>. HIDE DEF new, point
  <2>. QED BY <1>4, <1>5, <1>6
<1>8. PlacesInv'
  BY <1>3, <1>5, <1>6 DEF DecidedInv, PlacesInv, Drive, Checkpoint
<1>9. TypeInv'
  BY <1>1, <1>5, <1>7
     DEF DecidedInv, TypeInv, TypeOK, SequencesOK, Drives, Checkpoints, Streaming, Resting
<1>. QED
  BY <1>5, <1>8, <1>9 DEF DecidedInv, EffectsAreDecided

LEMMA ResumeFacts ==
  ASSUME DecidedInv, NEW s \in Streams, NEW t \in Threads, NEW answer \in Answers,
         Resume(s, t, answer)
  PROVE  DecidedInv'
<1>. DEFINE new == Drive(t, saved[t].next, saved[t].vals, answer)
<1>1. stream \in [Streams -> Drives] /\ saved \in [Threads -> Checkpoints]
  BY DEF DecidedInv, TypeInv, TypeOK, Drives, Checkpoints, Streaming, Resting
<1>2. new \in Drives
  BY <1>1 DEF Resume, Drive, Drives, Checkpoints, Streaming
<1>3. /\ stream' = [stream EXCEPT ![s] = new]
      /\ UNCHANGED <<saved, memory, runs, decided, effects, rejected>>
      /\ overlapped' \in BOOLEAN
      /\ resumes' \in 0..MaxResumes
  BY EngagementAssumption DEF Resume, history, DecidedInv, TypeInv, TypeOK
<1>4. stream' \in [Streams -> Drives]
  <2>. HIDE DEF new
  <2>. QED BY <1>1, <1>2, <1>3
<1>5. PlacesInv'
  BY <1>1, <1>3 DEF DecidedInv, PlacesInv, Drive
<1>6. TypeInv'
  BY <1>1, <1>3, <1>4
     DEF DecidedInv, TypeInv, TypeOK, SequencesOK, Drives, Checkpoints, Streaming, Resting
<1>. QED
  BY <1>3, <1>5, <1>6 DEF DecidedInv, EffectsAreDecided

\* A stream that breaks off and a restart leave states without a run.
LEMMA BreakFacts ==
  ASSUME DecidedInv, NEW s \in Streams, Break(s)
  PROVE  DecidedInv'
<1>1. stream \in [Streams -> Drives] /\ saved \in [Threads -> Checkpoints]
  BY DEF DecidedInv, TypeInv, TypeOK, Drives, Checkpoints, Streaming, Resting
<1>2. stream[s].thread \in Threads
  BY <1>1 DEF Drives
<1>3. stream' = [stream EXCEPT ![s] = Idle(stream[s].thread)]
  BY <1>1 DEF Break
<1>4. stream' \in [Streams -> Drives]
  BY <1>1, <1>2, <1>3, NoRunYet DEF Drives
<1>5. UNCHANGED <<saved, memory, runs, resumes, decided, effects, rejected, overlapped>>
  BY DEF Break, history
<1>6. PlacesInv'
  BY <1>1, <1>2, <1>3, <1>5, NoRunYet DEF DecidedInv, PlacesInv
<1>7. TypeInv'
  BY <1>1, <1>4, <1>5
     DEF DecidedInv, TypeInv, TypeOK, SequencesOK, Drives, Checkpoints, Streaming, Resting
<1>. QED
  BY <1>5, <1>6, <1>7 DEF DecidedInv, EffectsAreDecided

LEMMA RestartFacts ==
  ASSUME DecidedInv, Restart
  PROVE  DecidedInv'
<1>1. stream \in [Streams -> Drives]
  BY DEF DecidedInv, TypeInv, TypeOK, Drives, Streaming
<1>2. \A s \in Streams : stream[s].thread \in Threads
  BY <1>1 DEF Drives
<1>3. \A let : \A t \in Threads :
        /\ Idle(t) \in Drives
        /\ NodeInv(Idle(t).pc, Idle(t).vals, let)
        /\ NoCheckpoint \in Checkpoints
        /\ NodeInv(NoCheckpoint.next, NoCheckpoint.vals, let)
  BY NoRunYet DEF Drives, Checkpoints
<1>4. /\ stream' = [s \in Streams |-> Idle(stream[s].thread)]
      /\ saved' = [t \in Threads |-> NoCheckpoint]
      /\ memory' = [engaged |-> <<>>, refused |-> <<>>]
      /\ overlapped' = TRUE
      /\ UNCHANGED <<runs, resumes, decided, effects, rejected>>
  BY DEF Restart, history
<1>5. stream' \in [Streams -> Drives] /\ saved' \in [Threads -> Checkpoints]
  BY <1>2, <1>3, <1>4
<1>6. PlacesInv'
  BY <1>2, <1>3, <1>4 DEF PlacesInv
<1>7. memory' \in [engaged : Seq(Engagements), refused : Seq(Targets)] /\ Range(memory'.refused) = {}
      /\ DOMAIN memory'.engaged = {}
  BY <1>4 DEF Range
<1>8. TypeInv'
  BY <1>4, <1>5, <1>7
     DEF DecidedInv, TypeInv, TypeOK, SequencesOK, Drives, Checkpoints, Streaming, Resting
<1>. QED
  BY <1>4, <1>6, <1>8 DEF DecidedInv, EffectsAreDecided

\* Nodes.
LEMMA NodeFacts ==
  ASSUME DecidedInv, NEW s \in Streams,
         IngestGoal(s) \/ LoadAccountContext(s) \/ DiscoverCandidates(s) \/ RankCandidates(s)
           \/ DraftAction(s) \/ ScoreRisk(s) \/ GateByMode(s) \/ ExecuteDone(s)
  PROVE  DecidedInv'
<1>. DEFINE v == stream[s].vals
<1>1. /\ v \in Values
      /\ NodeInv(stream[s].pc, v, decided)
  BY DEF DecidedInv, TypeInv, TypeOK, PlacesInv
<1>. USE DEF At
<1>2. CASE IngestGoal(s)
  <2>1. NodeInv("load_account_context", v, decided)
    BY <1>1, <1>2 DEF IngestGoal, NodeInv, Targeted, Unasked, Executing
  <2>. QED
    BY <1>1, <1>2, <2>1, QuietNode DEF IngestGoal, Nodes
<1>3. CASE LoadAccountContext(s)
  <2>1. NodeInv("discover_candidates", v, decided)
    BY <1>1, <1>3 DEF LoadAccountContext, NodeInv, Targeted, Unasked, Executing
  <2>. QED
    BY <1>1, <1>3, <2>1, QuietNode, StopFacts
       DEF LoadAccountContext, AccountAnswers, Nodes, Stops
<1>4. CASE DiscoverCandidates(s)
  <2>1. ASSUME NEW found \in SUBSET Targets,
               Advance(s, "rank_candidates", [v EXCEPT !.found = Candidates(found)])
        PROVE  DecidedInv'
    <3>. DEFINE w == [v EXCEPT !.found = Candidates(found)]
    <3>1. w \in Values
      BY <1>1, CandidatesType DEF Values
    <3>2. NodeInv("rank_candidates", w, decided)
      BY <1>1, <1>4 DEF DiscoverCandidates, NodeInv, Targeted, Unasked, Executing, Values
    <3>. QED
      BY <1>4, <2>1, <3>1, <3>2, QuietNode DEF DiscoverCandidates, Nodes
  <2>. QED
    BY <1>4, <2>1, StopFacts DEF DiscoverCandidates, Stops
<1>5. CASE RankCandidates(s)
  <2>1. PICK x \in v.found : Advance(s, "draft_action", [v EXCEPT !.target = x, !.found = {}])
    BY <1>5 DEF RankCandidates
  <2>. DEFINE w == [v EXCEPT !.target = x, !.found = {}]
  <2>2. x \in Targets /\ w \in Values
    BY <1>1 DEF Values
  <2>3. NodeInv("draft_action", w, decided)
    BY <1>1, <1>5, <2>2 DEF RankCandidates, NodeInv, Targeted, Unasked, Executing, Values
  <2>. QED
    BY <1>5, <2>1, <2>2, <2>3, QuietNode DEF RankCandidates, Nodes
<1>6. CASE DraftAction(s)
  <2>. DEFINE w == [v EXCEPT !.content = "draft"]
  <2>1. w \in Values
    BY <1>1 DEF Values, Contents
  <2>2. NodeInv("score_risk", w, decided)
    BY <1>1, <1>6 DEF DraftAction, NodeInv, Targeted, Unasked, Executing, Values
  <2>. QED
    BY <1>6, <2>1, <2>2, QuietNode DEF DraftAction, Nodes
<1>7. CASE ScoreRisk(s)
  <2>1. NodeInv("gate_by_mode", v, decided)
    BY <1>1, <1>7 DEF ScoreRisk, NodeInv, Targeted, Unasked, Executing
  <2>. QED
    BY <1>1, <1>7, <2>1, QuietNode, StopFacts DEF ScoreRisk, RiskAnswers, Nodes, Stops
<1>8. CASE GateByMode(s)
  <2>1. v.mode # "recommendation" => NodeInv("request_approval", v, decided)
    BY <1>1, <1>8 DEF GateByMode, NodeInv, Targeted, Unasked, Executing, Values, Modes
  <2>. QED
    BY <1>1, <1>8, <2>1, QuietNode, StopFacts DEF GateByMode, Nodes, Stops
<1>9. CASE ExecuteDone(s)
  <2>1. NodeInv("log_outcome", v, decided)
    BY <1>1, <1>9 DEF ExecuteDone, NodeInv, Targeted, Unasked, Executing
  <2>. QED
    BY <1>1, <1>9, <2>1, QuietNode DEF ExecuteDone, Nodes
<1>. QED
  BY <1>2, <1>3, <1>4, <1>5, <1>6, <1>7, <1>8, <1>9

\* The operator is asked, and answers.
LEMMA AskFacts ==
  ASSUME DecidedInv, NEW s \in Streams, Ask(s)
  PROVE  DecidedInv'
<1>1. stream \in [Streams -> Drives] /\ saved \in [Threads -> Checkpoints]
  BY DEF DecidedInv, TypeInv, TypeOK, Drives, Checkpoints, Streaming, Resting
<1>. DEFINE t == stream[s].thread
            w == saved[t].waits \/ saved[t] = Checkpoint("request_approval", stream[s].vals, FALSE)
<1>2. /\ t \in Threads
      /\ stream' = [stream EXCEPT ![s] = Idle(t)]
      /\ saved' = [saved EXCEPT ![t] = [saved[t] EXCEPT !.waits = w]]
      /\ UNCHANGED <<memory, runs, resumes, decided, effects, rejected, overlapped>>
  BY <1>1 DEF Ask, Drives, history, quiet
<1>3. w \in BOOLEAN
  BY <1>1, <1>2 DEF Checkpoints
<1>. HIDE DEF w, t
<1>4. stream' \in [Streams -> Drives]
  BY <1>1, <1>2, NoRunYet DEF Drives
<1>5. saved' \in [Threads -> Checkpoints]
  BY <1>1, <1>2, <1>3 DEF Checkpoints
<1>6. \A u \in Threads : saved'[u].next = saved[u].next /\ saved'[u].vals = saved[u].vals
  BY <1>1, <1>2 DEF Checkpoints
<1>7. PlacesInv'
  BY <1>1, <1>2, <1>6, NoRunYet DEF DecidedInv, PlacesInv
<1>8. TypeInv'
  BY <1>1, <1>2, <1>4, <1>5
     DEF DecidedInv, TypeInv, TypeOK, SequencesOK, Drives, Checkpoints, Streaming, Resting
<1>. QED
  BY <1>2, <1>7, <1>8 DEF DecidedInv, EffectsAreDecided

LEMMA DecideFacts ==
  ASSUME DecidedInv, NEW s \in Streams, Decide(s)
  PROVE  DecidedInv'
<1>. DEFINE v == stream[s].vals
            answer == stream[s].answer
            w == Decided(v, answer)
<1>1. /\ v \in Values /\ ~v.attempted /\ v.run \in 1..MaxRuns /\ v.target \in Targets
      /\ answer \in Answers /\ v.mode = "execute"
  BY DEF DecidedInv, TypeInv, TypeOK, PlacesInv, NodeInv, Targeted, Unasked, Executing, Decide, At
<1>2. CASE answer.decision = "rejected"
  <2>1. w = [v EXCEPT !.attempted = TRUE, !.decision = "rejected", !.stop = "approval_rejected"]
    BY <1>1, <1>2 DEF Decided
  <2>2. w \in Values /\ w.run = v.run /\ w.stop = "approval_rejected" /\ w.decision = "rejected"
    BY <1>1, <2>1 DEF Values, Stops
  <2>3. Advance(s, "log_outcome", w)
    BY <2>2 DEF Decide, RouteAfterApproval
  <2>4. /\ decided' = decided
        /\ rejected' = rejected \union {[run |-> v.run, target |-> v.target]}
        /\ UNCHANGED <<memory, effects, runs, resumes, overlapped>>
    BY <1>2, <2>2 DEF Decide, LetThrough, quiet
  <2>5. NodeInv("log_outcome", w, decided')
    BY <1>1, <2>2 DEF NodeInv, Targeted, Unasked, Executing
  <2>6. saved' \in [Threads -> Checkpoints] /\ stream' \in [Streams -> Drives] /\ PlacesInv'
    BY <2>2, <2>3, <2>4, <2>5, AdvanceFacts DEF DecidedInv, Nodes, Drives, Checkpoints
  <2>7. TypeInv'
    BY <1>1, <2>4, <2>6
       DEF DecidedInv, TypeInv, TypeOK, SequencesOK, Drives, Checkpoints, Streaming, Resting
  <2>. QED
    BY <2>4, <2>6, <2>7 DEF DecidedInv, EffectsAreDecided
<1>3. CASE answer.decision # "rejected"
  <2>. DEFINE words == IF IsEdit(answer) THEN "edited" ELSE v.content
  <2>1. w = [v EXCEPT !.attempted = TRUE, !.decision = "approved", !.content = words]
    BY <1>1, <1>3 DEF Decided, Values
  <2>2. /\ w \in Values /\ w.run = v.run /\ w.decision = "approved" /\ w.target = v.target
        /\ w.mode = "execute" /\ w.content = words /\ words \in Contents
    BY <1>1, <2>1 DEF Values, Contents
  <2>3. PICK node \in {"execute_action", "log_outcome"} : Advance(s, node, w)
    BY DEF Decide, RouteAfterApproval
  <2>4. /\ decided' = decided \union {MessageOf(w)}
        /\ UNCHANGED <<memory, rejected, effects, runs, resumes, overlapped>>
    BY <1>3, <2>2 DEF Decide, LetThrough, MessageOf, quiet
  <2>5. NodeInv(node, w, decided')
    BY <1>1, <2>2, <2>4 DEF NodeInv, Targeted, Unasked, Executing
  <2>6. saved' \in [Threads -> Checkpoints] /\ stream' \in [Streams -> Drives] /\ PlacesInv'
    BY <2>2, <2>3, <2>4, <2>5, AdvanceFacts DEF DecidedInv, Nodes, Drives, Checkpoints
  <2>7. MessageOf(w) \in Messages
    BY <1>1, <2>2 DEF MessageOf, Messages
  <2>8. TypeInv'
    BY <2>4, <2>6, <2>7
       DEF DecidedInv, TypeInv, TypeOK, SequencesOK, Drives, Checkpoints, Streaming, Resting
  <2>. QED
    BY <2>4, <2>6, <2>8 DEF DecidedInv, EffectsAreDecided
<1>. QED
  BY <1>2, <1>3

\* What was let through may go out, whatever comes back.
LEMMA ExecuteFacts ==
  ASSUME DecidedInv, NEW s \in Streams, ExecuteAction(s)
  PROVE  DecidedInv'
<1>. DEFINE v == stream[s].vals
<1>1. stream \in [Streams -> Drives] /\ saved \in [Threads -> Checkpoints]
  BY DEF DecidedInv, TypeInv, TypeOK, Drives, Checkpoints, Streaming, Resting
<1>2. /\ v \in Values /\ v.run \in 1..MaxRuns /\ v.target \in Targets
      /\ MessageOf(v) \in decided /\ v.mode = "execute"
  BY DEF DecidedInv, TypeInv, TypeOK, PlacesInv, NodeInv, Targeted, Executing, ExecuteAction, At
<1>3. MessageOf(v) \in Messages
  BY <1>2 DEF DecidedInv, TypeInv, TypeOK
<1>4. PICK answer \in ExecutorAnswers :
        /\ effects' = IF answer.sent THEN Append(effects, MessageOf(v)) ELSE effects
        /\ stream' = [stream EXCEPT ![s].pc = "executed", ![s].vals.result = answer.result]
  BY DEF ExecuteAction, MessageOf
<1>. DEFINE w == [v EXCEPT !.result = answer.result]
            new == [stream[s] EXCEPT !.pc = "executed", !.vals = w]
<1>5. w \in Values /\ w.run = v.run /\ w.target = v.target /\ w.mode = v.mode
  BY <1>2 DEF Values, ExecutorAnswers
<1>6. stream' = [stream EXCEPT ![s] = new] /\ new \in Drives /\ new.pc = "executed" /\ new.vals = w
  BY <1>1, <1>4, <1>5 DEF Drives, Streaming
<1>7. stream' \in [Streams -> Drives]
  <2>. HIDE DEF new
  <2>. QED BY <1>1, <1>6
<1>8. UNCHANGED <<saved, memory, runs, resumes, decided, rejected, overlapped>>
  BY DEF ExecuteAction, quiet
<1>9. /\ effects' \in Seq(Messages)
      /\ Range(effects') \subseteq Messages
      /\ \A i \in DOMAIN effects' : effects'[i] \in decided
  BY <1>2, <1>3, <1>4 DEF DecidedInv, TypeInv, SequencesOK, EffectsAreDecided, Range
<1>10. NodeInv("executed", w, decided)
  BY <1>2, <1>5 DEF NodeInv, Targeted, Unasked, Executing
<1>11. PlacesInv'
  <2>. HIDE DEF new, w
  <2>. QED BY <1>1, <1>6, <1>8, <1>10 DEF DecidedInv, PlacesInv
<1>12. TypeInv'
  BY <1>1, <1>7, <1>8, <1>9
     DEF DecidedInv, TypeInv, TypeOK, SequencesOK, Drives, Checkpoints, Streaming, Resting
<1>. QED
  BY <1>8, <1>9, <1>11, <1>12 DEF DecidedInv, EffectsAreDecided

\* What a run leaves in the memory.
LEMMA RememberedType ==
  ASSUME TypeInv, NEW v \in Values
  PROVE  /\ Remembered(v) \in [engaged : Seq(Engagements), refused : Seq(Targets)]
         /\ Range(Remembered(v).refused) \subseteq Targets
         /\ \A i \in DOMAIN Remembered(v).engaged : Remembered(v).engaged[i] \in Engagements
<1>1. memory \in [engaged : Seq(Engagements), refused : Seq(Targets)]
  BY DEF TypeInv, SequencesOK
<1>2. OutcomeOf(v) \in Outcomes
  BY DEF OutcomeOf, Outcomes
<1>3. v.target # NoTarget => [target |-> v.target, outcome |-> OutcomeOf(v)] \in Engagements
                              /\ v.target \in Targets
  BY <1>2 DEF Values, Engagements
<1>4. Remembered(v) \in [engaged : Seq(Engagements), refused : Seq(Targets)]
  BY <1>1, <1>3 DEF Remembered
<1>. QED
  BY <1>4 DEF Range

\* The outcome is remembered, and the run ends.
LEMMA LogFacts ==
  ASSUME DecidedInv, NEW s \in Streams, LogOutcome(s)
  PROVE  DecidedInv'
<1>. DEFINE v == stream[s].vals
<1>1. /\ v \in Values
      /\ NodeInv("finish", v, decided)
  BY DEF DecidedInv, TypeInv, TypeOK, PlacesInv, NodeInv, Targeted, Unasked, Executing, LogOutcome, At
<1>2. /\ Advance(s, "finish", v) /\ memory' = Remembered(v)
      /\ UNCHANGED <<runs, resumes, decided, effects, rejected, overlapped>>
  BY DEF LogOutcome, history, quiet
<1>3. saved' \in [Threads -> Checkpoints] /\ stream' \in [Streams -> Drives] /\ PlacesInv'
  BY <1>1, <1>2, AdvanceFacts DEF DecidedInv, Nodes, Drives, Checkpoints
<1>4. TypeInv'
  BY <1>1, <1>2, <1>3, RememberedType
     DEF DecidedInv, TypeInv, TypeOK, SequencesOK, Drives, Checkpoints, Streaming, Resting, Engagements
<1>. QED
  BY <1>2, <1>3, <1>4 DEF DecidedInv, EffectsAreDecided

LEMMA FinishFacts ==
  ASSUME DecidedInv, NEW s \in Streams, Finish(s)
  PROVE  DecidedInv'
<1>. DEFINE t == stream[s].thread
            v == [stream[s].vals EXCEPT !.stop = FinalStop(stream[s].vals.stop)]
            point == Checkpoint("end", v, FALSE)
<1>1. stream \in [Streams -> Drives] /\ saved \in [Threads -> Checkpoints]
  BY DEF DecidedInv, TypeInv, TypeOK, Drives, Checkpoints, Streaming, Resting
<1>2. /\ t \in Threads /\ stream[s].vals \in Values
      /\ stream[s].vals.run \in 1..MaxRuns
  BY <1>1 DEF DecidedInv, PlacesInv, NodeInv, Finish, At, Drives
<1>3. v \in Values /\ v.run = stream[s].vals.run
  BY <1>2 DEF FinalStop, Values, Stops
<1>4. point \in Checkpoints /\ point.next = "end" /\ point.vals = v
  BY <1>3 DEF Checkpoint, Checkpoints, Resting
<1>5. /\ stream' = [stream EXCEPT ![s] = Idle(t)]
      /\ saved' = saved \/ saved' = [saved EXCEPT ![t] = point]
      /\ UNCHANGED <<memory, runs, resumes, decided, effects, rejected, overlapped>>
  BY DEF Finish, Saved, history, quiet
<1>6. NodeInv("end", v, decided)
  BY <1>2, <1>3 DEF NodeInv, Targeted, Unasked, Executing
<1>. HIDE DEF point, v, t
<1>7. stream' \in [Streams -> Drives] /\ saved' \in [Threads -> Checkpoints]
  BY <1>1, <1>2, <1>4, <1>5, NoRunYet DEF Drives
<1>8. PlacesInv'
  BY <1>1, <1>2, <1>4, <1>5, <1>6, NoRunYet DEF DecidedInv, PlacesInv
<1>9. TypeInv'
  BY <1>5, <1>7
     DEF DecidedInv, TypeInv, TypeOK, SequencesOK, Drives, Checkpoints, Streaming, Resting
<1>. QED
  BY <1>5, <1>8, <1>9 DEF DecidedInv, EffectsAreDecided

LEMMA DecidedInit == Init => DecidedInv
<1>. SUFFICES ASSUME Init PROVE DecidedInv
  OBVIOUS
<1>1. PICK t \in Threads : stream = [s \in Streams |-> Idle(t)]
  BY DEF Init
<1>2. /\ saved = [u \in Threads |-> NoCheckpoint]
      /\ memory = [engaged |-> <<>>, refused |-> <<>>] /\ runs = 0 /\ resumes = 0
      /\ decided = {} /\ effects = <<>> /\ rejected = {} /\ overlapped = FALSE
  BY DEF Init
<1>3. stream \in [Streams -> Drives] /\ saved \in [Threads -> Checkpoints]
  BY <1>1, <1>2, NoRunYet DEF Drives, Checkpoints
<1>4. PlacesInv
  BY <1>1, <1>2, NoRunYet DEF PlacesInv
<1>5. SequencesOK /\ Range(memory.refused) = {} /\ DOMAIN memory.engaged = {} /\ Range(effects) = {}
  BY <1>2 DEF SequencesOK, Range
<1>6. runs \in 0..MaxRuns /\ resumes \in 0..MaxResumes
  BY <1>2, EngagementAssumption
<1>7. TypeInv
  BY <1>2, <1>3, <1>5, <1>6
     DEF TypeInv, TypeOK, Drives, Checkpoints, Streaming, Resting
<1>. QED
  BY <1>2, <1>4, <1>7 DEF DecidedInv, EffectsAreDecided

LEMMA DecidedStep == DecidedInv /\ [Next]_vars => DecidedInv'
<1>. SUFFICES ASSUME DecidedInv, [Next]_vars PROVE DecidedInv'
  OBVIOUS
<1>1. ASSUME NEW s \in Streams, Post(s) PROVE DecidedInv'
  BY <1>1, RecommendFacts, ResumeFacts DEF Post
<1>2. ASSUME NEW s \in Streams, Node(s) PROVE DecidedInv'
  BY <1>2, NodeFacts, AskFacts, DecideFacts, ExecuteFacts, LogFacts, FinishFacts DEF Node
<1>3. CASE UNCHANGED vars
  BY <1>3 DEF vars, DecidedInv, TypeInv, TypeOK, SequencesOK, PlacesInv, EffectsAreDecided
<1>. QED
  BY <1>1, <1>2, <1>3, BreakFacts, RestartFacts DEF Next

\* Checkpoints, streams, memory and histories keep their types, whatever POSTs,
\* breaks and restarts do.
THEOREM TypeCorrect == Spec => []TypeOK
<1>1. Init => DecidedInv
  BY DecidedInit
<1>2. DecidedInv /\ [Next]_vars => DecidedInv'
  BY DecidedStep
<1>3. DecidedInv => TypeOK
  BY DEF DecidedInv, TypeInv
<1>. QED
  BY <1>1, <1>2, <1>3, PTL DEF Spec

\* Only a message that an answer of the operator let through is sent, in the
\* same run, to the same target and in those words: through the executing node
\* as through a checkpoint that is resumed by any number of streams at a time.
THEOREM OnlyDecidedIsSent == Spec => []EffectsAreDecided
<1>1. Init => DecidedInv
  BY DecidedInit
<1>2. DecidedInv /\ [Next]_vars => DecidedInv'
  BY DecidedStep
<1>3. DecidedInv => EffectsAreDecided
  BY DEF DecidedInv
<1>. QED
  BY <1>1, <1>2, <1>3, PTL DEF Spec

-----------------------------------------------------------------------------
(* Nobody is approached twice by runs that do not overlap.                   *)

\* The parts of the types that the rest needs.
LEMMA Shapes ==
  ASSUME DecidedInv
  PROVE  /\ stream \in [Streams -> Drives] /\ saved \in [Threads -> Checkpoints]
         /\ \A s \in Streams : stream[s].thread \in Threads
         /\ runs \in Nat /\ runs <= MaxRuns
         /\ \A i \in DOMAIN effects : effects[i] \in Messages /\ effects[i].run \in Nat
         /\ \A x \in rejected : x.run \in Nat
         /\ Len(memory.engaged) \in Nat /\ memory.engaged \in Seq(Engagements)
<1>1. stream \in [Streams -> Drives] /\ saved \in [Threads -> Checkpoints]
  BY DEF DecidedInv, TypeInv, TypeOK, Drives, Checkpoints, Streaming, Resting
<1>2. \A s \in Streams : stream[s].thread \in Threads
  BY <1>1 DEF Drives
<1>3. runs \in Nat /\ runs <= MaxRuns
  BY EngagementAssumption DEF DecidedInv, TypeInv, TypeOK
<1>6. \A x \in rejected : x \in [run : 1..MaxRuns, target : Targets]
  BY DEF DecidedInv, TypeInv, TypeOK
<1>7. \A x \in [run : 1..MaxRuns, target : Targets] : x.run \in Nat
  BY EngagementAssumption
<1>4. Len(memory.engaged) \in Nat /\ memory.engaged \in Seq(Engagements)
  BY DEF DecidedInv, TypeInv, SequencesOK
<1>5. \A i \in DOMAIN effects : effects[i] \in Messages /\ effects[i].run \in Nat
  <2>1. effects \in Seq(Messages)
    BY DEF DecidedInv, TypeInv, SequencesOK
  <2>2. \A m \in Messages : m.run \in Nat
    BY EngagementAssumption DEF Messages
  <2>. QED
    BY <2>1, <2>2
<1>. QED
  BY <1>1, <1>2, <1>3, <1>4, <1>5, <1>6, <1>7

\* The stream at work goes on to the next node.
LEMMA AdvanceShape ==
  ASSUME DecidedInv, OneAtWork, Latest, NEW s \in Streams, Working(s),
         NEW node \in Nodes, NEW v \in Values, Advance(s, node, v), runs' = runs,
         v.run = stream[s].vals.run, v.mode = stream[s].vals.mode
  PROVE  /\ OneAtWork'
         /\ stream'[s].pc = node /\ stream'[s].vals = v /\ v.run = runs
         /\ \A r \in Streams : Working(r)' => r = s
         /\ \A t \in Threads : ~saved'[t].waits
         /\ \A t \in Threads : Open(t)' => saved'[t].vals = v /\ node # "finish"
<1>. DEFINE u == stream[s].thread
<1>1. /\ u \in Threads /\ stream \in [Streams -> Drives] /\ saved \in [Threads -> Checkpoints]
  BY Shapes
<1>2. /\ stream'[s].pc = node /\ stream'[s].vals = v /\ stream'[s].thread = u
      /\ \A r \in Streams : r # s => stream'[r] = stream[r]
  BY <1>1 DEF Advance, Drive
<1>3. \A r \in Streams : Working(r)' => r = s
  BY <1>2 DEF OneAtWork, Working
<1>4. v.run = runs
  BY DEF Latest
<1>5. CASE v.mode = "execute"
  <2>1. /\ saved'[u] = Checkpoint(node, v, FALSE)
        /\ \A t \in Threads : t # u => saved'[t] = saved[t] /\ ~Open(t)
    BY <1>1, <1>5 DEF Advance, Saved, OneAtWork
  <2>2. /\ saved'[u].next = node /\ saved'[u].vals = v /\ saved'[u].waits = FALSE
    BY <2>1 DEF Checkpoint
  <2>3. \A t \in Threads : t # u => ~Open(t)' /\ ~saved'[t].waits
    BY <2>1 DEF Open, OneAtWork
  <2>4. \A t \in Threads : ~saved'[t].waits
    BY <2>2, <2>3
  <2>5. \A t \in Threads : Open(t)' => t = u /\ saved'[t].vals = v /\ node # "finish"
    BY <2>2, <2>3 DEF Open
  <2>6. \A t \in Threads : saved'[t].next # "none" => saved'[t].vals.mode = "execute"
    BY <1>5, <2>1, <2>2 DEF OneAtWork
  <2>7. \A t \in Threads : node # "finish" /\ t = u => Open(t)'
    BY <2>2 DEF Open, Nodes
  <2>8. \A r \in Streams :
          stream'[r].pc \notin {"idle", "finish"} => r = s /\ saved'[u].next \notin {"none", "finish", "end"}
    BY <1>1, <1>2, <1>3, <2>7 DEF Working, Open
  <2>. QED
    BY <1>1, <1>2, <1>3, <1>4, <1>5, <2>4, <2>5, <2>6, <2>8 DEF OneAtWork, Open
<1>6. CASE v.mode # "execute"
  <2>1. saved' = saved /\ \A t \in Threads : ~Open(t)
    BY <1>6 DEF Advance, Saved, OneAtWork
  <2>2. \A t \in Threads : ~Open(t)' /\ ~saved'[t].waits
    BY <2>1 DEF Open, OneAtWork
  <2>. QED
    BY <1>2, <1>3, <1>4, <1>6, <2>1, <2>2 DEF OneAtWork, Working
<1>. QED
  BY <1>5, <1>6

\* What has to hold of the next node and its state.
LEMMA AdvanceApproach ==
  ASSUME DecidedInv, OneAtWork, Latest, NEW s \in Streams, Working(s),
         NEW node \in Nodes, NEW v \in Values, Advance(s, node, v), runs' = runs,
         v.run = stream[s].vals.run, v.mode = stream[s].vals.mode,
         \A i \in DOMAIN effects' : effects'[i].run <= runs,
         \A x \in rejected' : x.run <= runs,
         Len(memory'.engaged) <= runs,
         node # "finish" => Len(memory'.engaged) < runs,
         \/ Touched(effects', rejected') \subseteq Engaged(memory')
         \/ /\ node = "log_outcome" /\ v.mode = "execute"
            /\ Touched(effects', rejected') \subseteq Engaged(memory') \union {v.target},
         node = "rank_candidates" => v.found \cap Engaged(memory') = {},
         node \in Targeted => v.target \notin Engaged(memory')
  PROVE  ApproachInv'
<1>1. /\ OneAtWork'
      /\ stream'[s].pc = node /\ stream'[s].vals = v /\ v.run = runs
      /\ \A r \in Streams : Working(r)' => r = s
      /\ \A t \in Threads : ~saved'[t].waits
      /\ \A t \in Threads : Open(t)' => saved'[t].vals = v /\ node # "finish"
  BY AdvanceShape
<1>2. \A r \in Streams : stream'[r].pc # "idle" => r = s
  BY <1>1 DEF Working
<1>3. Latest'
  BY <1>1 DEF Latest
<1>4. Records'
  BY <1>1, <1>2 DEF Records
<1>5. Recorded'
  BY <1>1 DEF Recorded, Pending
<1>6. Fresh'
  BY <1>1, <1>2 DEF Fresh, Targeted
<1>. QED
  BY <1>1, <1>3, <1>4, <1>5, <1>6 DEF ApproachInv

\* Such a node when nothing else changes.
LEMMA QuietApproach ==
  ASSUME DecidedInv, ApproachInv, NoSecondApproach, ~overlapped, NEW s \in Streams,
         stream[s].pc \notin {"idle", "finish", "log_outcome"},
         NEW node \in Nodes \ {"finish"}, NEW v \in Values,
         Advance(s, node, v), UNCHANGED <<memory, history, quiet>>,
         v.run = stream[s].vals.run, v.mode = stream[s].vals.mode,
         stream[s].pc = "executed" => node = "log_outcome" /\ v.target = stream[s].vals.target,
         node = "rank_candidates" => v.found \cap Engaged(memory) = {},
         node \in Targeted => v.target \notin Engaged(memory)
  PROVE  ApproachInv' /\ NoSecondApproach'
<1>1. /\ memory' = memory /\ effects' = effects /\ rejected' = rejected /\ runs' = runs
      /\ overlapped' = overlapped
  BY DEF history, quiet
<1>2. OneAtWork /\ Latest /\ Records /\ Recorded /\ Fresh /\ Working(s)
  BY DEF ApproachInv, Working
<1>3. Len(memory.engaged) <= runs /\ Len(memory.engaged) < runs
  BY <1>2 DEF Records
<1>4. \A r \in Streams : Pending(r) => r = s
  BY <1>2 DEF OneAtWork, Working, Pending
<1>5. \/ Touched(effects, rejected) \subseteq Engaged(memory)
      \/ /\ stream[s].pc = "executed" /\ stream[s].vals.mode = "execute"
         /\ Touched(effects, rejected) \subseteq Engaged(memory) \union {stream[s].vals.target}
  BY <1>2, <1>4 DEF Recorded, Broken, Pending
<1>6. ApproachInv'
  BY <1>1, <1>2, <1>3, <1>5, AdvanceApproach DEF Latest
<1>. QED
  BY <1>1, <1>6 DEF NoSecondApproach

\* A memory that is not longer than a recall is recalled as a whole, and no
\* target on record is a candidate.
LEMMA WholeRecall ==
  ASSUME NEW S, NEW seq \in Seq(S), Len(seq) <= RecallLimit
  PROVE  FirstOf(seq) = seq
<1>1. FirstOf(seq) = SubSeq(seq, 1, Len(seq))
  BY EngagementAssumption DEF FirstOf
<1>. QED
  BY <1>1

LEMMA CandidatesAreFresh ==
  ASSUME DecidedInv, Len(memory.engaged) <= RecallLimit, NEW found
  PROVE  Candidates(found) \cap Engaged(memory) = {}
<1>1. FirstOf(memory.engaged) = memory.engaged
  BY WholeRecall, Shapes
<1>. QED
  BY <1>1 DEF Candidates, Recalled, Engaged

\* A stream starts when nothing is at work.
LEMMA StartApproach ==
  ASSUME DecidedInv, ApproachInv, NoSecondApproach, ~overlapped, ~Busy,
         \A t \in Threads : Open(t) => saved[t].waits
  PROVE  /\ Touched(effects, rejected) \subseteq Engaged(memory)
         /\ \A s \in Streams : ~Working(s)
BY DEF ApproachInv, Recorded, Broken, Pending, Busy, Working

LEMMA RecommendApproach ==
  ASSUME DecidedInv, ApproachInv, NoSecondApproach, ~overlapped',
         NEW s \in Streams, NEW t \in Threads, NEW mode \in Modes, Recommend(s, t, mode)
  PROVE  ApproachInv' /\ NoSecondApproach'
<1>. DEFINE v == InitialState(runs + 1, mode)
            point == Checkpoint("ingest_goal", v, FALSE)
<1>1. /\ ~overlapped /\ ~Busy /\ ~Unfinished
      /\ runs' = runs + 1 /\ memory' = memory /\ effects' = effects /\ rejected' = rejected
      /\ stream' = [stream EXCEPT ![s] = Drive(t, "ingest_goal", v, NoAnswer)]
      /\ saved' = IF mode = "execute" THEN [saved EXCEPT ![t] = point] ELSE saved
  BY DEF Recommend, history, Saved, InitialState
<1>2. \A u \in Threads : ~Open(u) /\ ~saved[u].waits
  BY <1>1 DEF Unfinished, Open, ApproachInv, OneAtWork
<1>3. /\ Touched(effects, rejected) \subseteq Engaged(memory)
      /\ \A r \in Streams : ~Working(r)
  BY <1>1, <1>2, StartApproach
<1>4. /\ stream'[s].pc = "ingest_goal" /\ stream'[s].vals = v /\ stream'[s].thread = t
      /\ \A r \in Streams : r # s => ~Working(r)'
      /\ v.run = runs + 1 /\ v.mode = mode
  BY <1>1, <1>3, Shapes DEF Drive, Working, InitialState
<1>5. \A u \in Threads : ~saved'[u].waits
  BY <1>1, <1>2, Shapes DEF Checkpoint
<1>6. \A u \in Threads : Open(u)' => u = t /\ saved'[u].vals = v /\ mode = "execute"
  BY <1>1, <1>2, Shapes DEF Checkpoint, Open
<1>7. \A u \in Threads : saved'[u].next # "none" => saved'[u].vals.mode = "execute"
  BY <1>1, <1>4, Shapes DEF Checkpoint, ApproachInv, OneAtWork
<1>8. OneAtWork'
  <2>1. mode = "execute" => saved'[t].next = "ingest_goal"
    BY <1>1, Shapes DEF Checkpoint
  <2>2. Working(s)' /\ (mode = "execute" => Open(t)')
    BY <1>4, <2>1 DEF Working, Open
  <2>. QED
    BY <1>4, <1>5, <1>6, <1>7, <2>2 DEF OneAtWork, Working
<1>9. Latest'
  <2>1. Latest
    BY <1>1 DEF ApproachInv
  <2>2. /\ \A i \in DOMAIN effects : effects[i].run <= runs + 1
        /\ \A x \in rejected : x.run <= runs + 1
    BY <2>1, Shapes DEF Latest
  <2>3. \A u \in Threads : Open(u)' => saved'[u].vals.run = runs + 1
    BY <1>4, <1>6
  <2>4. \A r \in Streams : Working(r)' => stream'[r].vals.run = runs + 1
    BY <1>4
  <2>. QED
    BY <1>1, <2>2, <2>3, <2>4 DEF Latest
<1>10. Len(memory'.engaged) < runs'
  BY <1>1, Shapes DEF ApproachInv, Records
<1>11. Records'
  BY <1>1, <1>10, Shapes DEF Records
<1>12. Recorded' /\ Fresh'
  BY <1>1, <1>3, <1>4, <1>5 DEF Recorded, Fresh, Targeted, Working
<1>. QED
  BY <1>1, <1>8, <1>9, <1>11, <1>12 DEF ApproachInv, NoSecondApproach

LEMMA ResumeApproach ==
  ASSUME DecidedInv, ApproachInv, NoSecondApproach, ~overlapped',
         NEW s \in Streams, NEW t \in Threads, NEW answer \in Answers, Resume(s, t, answer)
  PROVE  ApproachInv' /\ NoSecondApproach'
<1>1. /\ ~overlapped /\ ~Busy /\ saved[t].waits
      /\ UNCHANGED <<saved, runs, memory, effects, rejected>>
      /\ stream' = [stream EXCEPT ![s] = Drive(t, saved[t].next, saved[t].vals, answer)]
  BY DEF Resume, history, ApproachInv, OneAtWork
<1>2. saved[t].next = "request_approval" /\ Open(t) /\ \A u \in Threads : Open(u) => u = t
  BY <1>1 DEF ApproachInv, OneAtWork, Open
<1>3. /\ Touched(effects, rejected) \subseteq Engaged(memory)
      /\ \A r \in Streams : ~Working(r)
  BY <1>1, <1>2, StartApproach
<1>4. /\ stream'[s].pc = "request_approval" /\ stream'[s].vals = saved[t].vals
      /\ stream'[s].thread = t
      /\ \A r \in Streams : Working(r)' => r = s
  BY <1>1, <1>2, <1>3, Shapes DEF Drive, Working
<1>5. OneAtWork'
  BY <1>1, <1>2, <1>4 DEF OneAtWork, ApproachInv, Open
<1>6. Latest'
  BY <1>1, <1>2, <1>4 DEF Latest, ApproachInv, Open
<1>7. Records'
  BY <1>1, <1>2, <1>4 DEF Records, ApproachInv, Open, Working
<1>8. Recorded'
  BY <1>1, <1>3 DEF Recorded
<1>9. Fresh'
  BY <1>1, <1>4 DEF Fresh, ApproachInv, Targeted, Working
<1>. QED
  BY <1>1, <1>5, <1>6, <1>7, <1>8, <1>9 DEF ApproachInv, NoSecondApproach

LEMMA BreakApproach ==
  ASSUME DecidedInv, ApproachInv, NoSecondApproach, ~overlapped', NEW s \in Streams, Break(s)
  PROVE  ApproachInv' /\ NoSecondApproach'
<1>1. /\ UNCHANGED <<saved, runs, memory, effects, rejected, overlapped>>
      /\ ~overlapped /\ Working(s)
      /\ stream' = [stream EXCEPT ![s] = Idle(stream[s].thread)]
  BY DEF Break, history, At, Working
<1>2. OneAtWork /\ Latest /\ Records /\ Recorded /\ Fresh
  BY <1>1 DEF ApproachInv
<1>3. \A r \in Streams : ~Working(r)' /\ stream'[r].pc = "idle"
  BY <1>1, <1>2, Shapes DEF OneAtWork, Working, Idle, Drive
<1>4. OneAtWork' /\ Latest' /\ Records' /\ Fresh'
  BY <1>1, <1>2, <1>3 DEF OneAtWork, Latest, Records, Fresh, Open, Targeted
<1>5. Recorded'
  <2>1. CASE Touched(effects, rejected) \subseteq Engaged(memory)
    BY <1>1, <2>1 DEF Recorded
  <2>2. CASE \E r \in Streams : Pending(r) /\ stream[r].vals.mode = "execute"
    <3>1. PICK r \in Streams : Pending(r) /\ stream[r].vals.mode = "execute"
      BY <2>2
    <3>2. PICK t \in Threads : t = stream[r].thread
      BY Shapes
    <3>3. Open(t) /\ ~saved[t].waits
      BY <1>2, <3>1, <3>2 DEF Pending, OneAtWork
    <3>4. Broken(t)'
      BY <1>1, <1>3, <3>3 DEF Broken, Open
    <3>. QED
      BY <3>4 DEF Recorded
  <2>. QED
    BY <1>1, <1>2, <2>1, <2>2 DEF Recorded, Broken
<1>. QED
  BY <1>1, <1>4, <1>5 DEF ApproachInv, NoSecondApproach

LEMMA NodeApproach ==
  ASSUME MaxRuns <= RecallLimit + 1, DecidedInv, ApproachInv, NoSecondApproach, ~overlapped',
         NEW s \in Streams,
         IngestGoal(s) \/ LoadAccountContext(s) \/ DiscoverCandidates(s) \/ RankCandidates(s)
           \/ DraftAction(s) \/ ScoreRisk(s) \/ GateByMode(s) \/ ExecuteDone(s)
  PROVE  ApproachInv' /\ NoSecondApproach'
<1>. DEFINE v == stream[s].vals
<1>1. v \in Values
  BY DEF DecidedInv, TypeInv, TypeOK
<1>2. ~overlapped /\ UNCHANGED <<memory, history, quiet>>
  <2>1. UNCHANGED <<memory, history, quiet>>
    BY DEF IngestGoal, LoadAccountContext, DiscoverCandidates, RankCandidates, DraftAction,
           ScoreRisk, GateByMode, ExecuteDone
  <2>. QED
    BY <2>1 DEF quiet
<1>3. stream[s].pc \in {"ingest_goal", "load_account_context", "discover_candidates",
                        "rank_candidates", "draft_action", "score_risk", "gate_by_mode", "executed"}
  BY DEF At, IngestGoal, LoadAccountContext, DiscoverCandidates, RankCandidates, DraftAction,
         ScoreRisk, GateByMode, ExecuteDone
<1>. USE DEF At
<1>4. ASSUME NEW reason \in Stops, StopAt(s, reason), stream[s].pc # "executed"
      PROVE  ApproachInv' /\ NoSecondApproach'
  <2>. DEFINE w == [v EXCEPT !.stop = reason]
  <2>1. w \in Values /\ w.run = v.run /\ w.mode = v.mode
    BY <1>1 DEF Values
  <2>2. Advance(s, "log_outcome", w)
    BY <1>4 DEF StopAt
  <2>. QED
    BY <1>2, <1>3, <1>4, <2>1, <2>2, QuietApproach DEF Nodes, Targeted
<1>5. ASSUME NEW node \in {"load_account_context", "discover_candidates"}, Advance(s, node, v),
             stream[s].pc # "executed"
      PROVE  ApproachInv' /\ NoSecondApproach'
  BY <1>1, <1>2, <1>3, <1>5, QuietApproach DEF Nodes, Targeted
<1>6. CASE IngestGoal(s)
  BY <1>5, <1>6 DEF IngestGoal
<1>7. CASE LoadAccountContext(s)
  BY <1>4, <1>5, <1>7 DEF LoadAccountContext, AccountAnswers, Stops
<1>8. CASE DiscoverCandidates(s)
  <2>1. ASSUME NEW found \in SUBSET Targets,
               Advance(s, "rank_candidates", [v EXCEPT !.found = Candidates(found)])
        PROVE  ApproachInv' /\ NoSecondApproach'
    <3>. DEFINE w == [v EXCEPT !.found = Candidates(found)]
    <3>1. w \in Values /\ w.run = v.run /\ w.mode = v.mode /\ w.found = Candidates(found)
      BY <1>1, CandidatesType DEF Values
    <3>2. Len(memory.engaged) < runs
      BY <1>2, <1>8 DEF DiscoverCandidates, ApproachInv, Records
    <3>3. Len(memory.engaged) <= RecallLimit
      BY <3>2, Shapes, EngagementAssumption
    <3>4. w.found \cap Engaged(memory) = {}
      BY <3>1, <3>3, CandidatesAreFresh
    <3>. QED
      BY <1>2, <1>8, <2>1, <3>1, <3>4, QuietApproach DEF DiscoverCandidates, Nodes, Targeted
  <2>. QED
    BY <1>4, <1>8, <2>1 DEF DiscoverCandidates, Stops
<1>9. CASE RankCandidates(s)
  <2>1. PICK x \in v.found : Advance(s, "draft_action", [v EXCEPT !.target = x, !.found = {}])
    BY <1>9 DEF RankCandidates
  <2>. DEFINE w == [v EXCEPT !.target = x, !.found = {}]
  <2>2. w \in Values /\ w.run = v.run /\ w.mode = v.mode /\ w.target = x
    BY <1>1 DEF Values
  <2>3. x \notin Engaged(memory)
    BY <1>2, <1>9 DEF RankCandidates, ApproachInv, Fresh
  <2>. QED
    BY <1>2, <1>9, <2>1, <2>2, <2>3, QuietApproach DEF RankCandidates, Nodes
<1>10. ASSUME stream[s].pc \in Targeted \ {"executed"}
       PROVE  v.target \notin Engaged(memory)
  BY <1>2, <1>10 DEF ApproachInv, Fresh
<1>11. CASE DraftAction(s)
  <2>. DEFINE w == [v EXCEPT !.content = "draft"]
  <2>1. w \in Values /\ w.run = v.run /\ w.mode = v.mode /\ w.target = v.target
    BY <1>1 DEF Values, Contents
  <2>. QED
    BY <1>2, <1>10, <1>11, <2>1, QuietApproach DEF DraftAction, Nodes, Targeted
<1>12. ASSUME NEW node \in {"gate_by_mode", "request_approval"}, Advance(s, node, v),
              stream[s].pc \in {"score_risk", "gate_by_mode"}
       PROVE  ApproachInv' /\ NoSecondApproach'
  BY <1>1, <1>2, <1>10, <1>12, QuietApproach DEF Nodes, Targeted
<1>13. CASE ScoreRisk(s)
  BY <1>4, <1>12, <1>13 DEF ScoreRisk, RiskAnswers, Stops
<1>14. CASE GateByMode(s)
  BY <1>4, <1>12, <1>14 DEF GateByMode, Stops
<1>15. CASE ExecuteDone(s)
  BY <1>1, <1>2, <1>15, QuietApproach DEF ExecuteDone, Nodes, Targeted
<1>. QED
  BY <1>6, <1>7, <1>8, <1>9, <1>11, <1>13, <1>14, <1>15

\* What a stream that is not pending knows of the rest.
LEMMA AloneAtWork ==
  ASSUME ApproachInv, ~overlapped, NEW s \in Streams, Working(s), ~Pending(s)
  PROVE  Touched(effects, rejected) \subseteq Engaged(memory)
BY DEF ApproachInv, Recorded, OneAtWork, Broken, Pending, Working

LEMMA AskApproach ==
  ASSUME DecidedInv, ApproachInv, NoSecondApproach, ~overlapped', NEW s \in Streams, Ask(s)
  PROVE  ApproachInv' /\ NoSecondApproach'
<1>. DEFINE t == stream[s].thread
            point == Checkpoint("request_approval", stream[s].vals, FALSE)
            w == saved[t].waits \/ saved[t] = point
<1>1. /\ UNCHANGED <<memory, runs, effects, rejected, overlapped>> /\ ~overlapped
      /\ stream[s].pc = "request_approval" /\ Working(s) /\ ~Pending(s)
      /\ stream' = [stream EXCEPT ![s] = Idle(t)]
      /\ saved' = [saved EXCEPT ![t].waits = w]
  BY DEF Ask, history, quiet, At, Working, Pending
<1>2. OneAtWork /\ Latest /\ Records /\ Fresh
  BY <1>1 DEF ApproachInv
<1>3. \A r \in Streams : ~Working(r)' /\ stream'[r].pc = "idle"
  BY <1>1, <1>2, Shapes DEF OneAtWork, Working, Idle, Drive
<1>4. /\ t \in Threads
      /\ \A u \in Threads : u # t => saved'[u] = saved[u]
      /\ saved'[t].next = saved[t].next /\ saved'[t].vals = saved[t].vals
      /\ saved'[t].waits = w
  BY <1>1, Shapes DEF Checkpoints
<1>. HIDE DEF t
<1>5. w => saved[t].next = "request_approval"
           /\ saved[t].vals.target \notin Engaged(memory)
  BY <1>1, <1>2, <1>4 DEF OneAtWork, Checkpoint, Fresh, Targeted
<1>. HIDE DEF w
<1>6. /\ \A u \in Threads : saved'[u].next = saved[u].next /\ saved'[u].vals = saved[u].vals
      /\ \A u \in Threads : saved'[u].waits =>
           saved[u].next = "request_approval" /\ saved[u].vals.target \notin Engaged(memory)
  BY <1>2, <1>4, <1>5 DEF OneAtWork, Fresh
<1>7. OneAtWork'
  BY <1>2, <1>3, <1>6 DEF OneAtWork, Open
<1>8. Latest' /\ Records'
  BY <1>1, <1>2, <1>3, <1>6 DEF Latest, Records, Open
<1>9. Recorded'
  BY <1>1, AloneAtWork DEF Recorded
<1>10. Fresh'
  BY <1>1, <1>3, <1>6 DEF Fresh, Targeted
<1>. QED
  BY <1>1, <1>7, <1>8, <1>9, <1>10 DEF ApproachInv, NoSecondApproach

LEMMA DecideApproach ==
  ASSUME DecidedInv, ApproachInv, NoSecondApproach, ~overlapped', NEW s \in Streams, Decide(s)
  PROVE  ApproachInv' /\ NoSecondApproach'
<1>. DEFINE v == stream[s].vals
            answer == stream[s].answer
            w == Decided(v, answer)
<1>1. /\ v \in Values /\ ~v.attempted /\ v.mode = "execute" /\ answer \in Answers
      /\ stream[s].pc = "request_approval" /\ Working(s) /\ ~Pending(s)
  BY DEF DecidedInv, TypeInv, TypeOK, PlacesInv, NodeInv, Unasked, Executing, Decide, At,
         Working, Pending
<1>2. /\ UNCHANGED <<memory, effects, runs, overlapped>> /\ ~overlapped
      /\ Advance(s, RouteAfterApproval(w), w)
      /\ rejected' = IF w.decision = "rejected"
                     THEN rejected \union {[run |-> v.run, target |-> v.target]} ELSE rejected
  BY DEF Decide, quiet
<1>3. OneAtWork /\ Latest /\ Records /\ Fresh
  BY <1>2 DEF ApproachInv
<1>4. /\ v.target \notin Engaged(memory) /\ v.run = runs
      /\ Len(memory.engaged) < runs /\ Len(memory.engaged) <= runs
  BY <1>1, <1>3 DEF Fresh, Latest, Records, Targeted
<1>5. Touched(effects, rejected) \subseteq Engaged(memory)
  BY <1>1, <1>2, AloneAtWork
<1>6. /\ w \in Values /\ w.run = v.run /\ w.target = v.target /\ w.mode = v.mode
      /\ w.decision = "rejected" => w.stop = "approval_rejected"
  BY <1>1 DEF Decided, Values, Stops, Contents
<1>7. RouteAfterApproval(w) \in {"execute_action", "log_outcome"}
  BY DEF RouteAfterApproval
<1>. HIDE DEF w
<1>8. CASE w.decision = "rejected"
  <2>1. RouteAfterApproval(w) = "log_outcome"
    BY <1>6, <1>8 DEF RouteAfterApproval
  <2>2. Touched(effects', rejected') \subseteq Engaged(memory') \union {w.target}
    BY <1>2, <1>5, <1>6, <1>8 DEF Touched
  <2>3. \A x \in rejected' : x.run <= runs
    BY <1>2, <1>3, <1>4, <1>8, Shapes DEF Latest
  <2>4. ApproachInv'
    BY <1>1, <1>2, <1>3, <1>4, <1>6, <2>1, <2>2, <2>3, AdvanceApproach
       DEF Latest, Nodes, Targeted
  <2>5. \A i \in DOMAIN effects : effects[i].target # v.target
    BY <1>4, <1>5 DEF Touched
  <2>6. NoSecondApproach'
    BY <1>2, <1>8, <2>5 DEF NoSecondApproach
  <2>. QED
    BY <2>4, <2>6
<1>9. CASE w.decision # "rejected"
  <2>1. rejected' = rejected
    BY <1>2, <1>9
  <2>2. ApproachInv'
    BY <1>1, <1>2, <1>3, <1>4, <1>5, <1>6, <1>7, <2>1, AdvanceApproach DEF Latest, Nodes
  <2>. QED
    BY <1>2, <2>1, <2>2 DEF NoSecondApproach
<1>. QED
  BY <1>8, <1>9

\* A message goes out to somebody no run on record has touched.
LEMMA ExecuteApproach ==
  ASSUME DecidedInv, ApproachInv, NoSecondApproach, ~overlapped', NEW s \in Streams,
         ExecuteAction(s)
  PROVE  ApproachInv' /\ NoSecondApproach'
<1>. DEFINE v == stream[s].vals
<1>1. /\ v \in Values /\ v.mode = "execute"
      /\ stream[s].pc = "execute_action" /\ Working(s) /\ ~Pending(s)
  BY DEF DecidedInv, TypeInv, TypeOK, PlacesInv, NodeInv, Executing, ExecuteAction, At,
         Working, Pending
<1>2. UNCHANGED <<saved, memory, rejected, runs, overlapped>> /\ ~overlapped
  BY DEF ExecuteAction, quiet
<1>3. PICK answer \in ExecutorAnswers :
        /\ effects' = IF answer.sent THEN Append(effects, MessageOf(v)) ELSE effects
        /\ stream' = [stream EXCEPT ![s].pc = "executed", ![s].vals.result = answer.result]
  BY DEF ExecuteAction, MessageOf
<1>4. /\ stream'[s].pc = "executed" /\ stream'[s].thread = stream[s].thread
      /\ stream'[s].vals.run = v.run /\ stream'[s].vals.target = v.target
      /\ stream'[s].vals.mode = v.mode
      /\ \A r \in Streams : r # s => stream'[r] = stream[r]
  BY <1>1, <1>3, Shapes DEF Drives, Values
<1>5. OneAtWork /\ Latest /\ Records /\ Fresh
  BY <1>2 DEF ApproachInv
<1>6. \A r \in Streams : r # s => stream'[r].pc = "idle" /\ ~Working(r)'
  BY <1>1, <1>4, <1>5 DEF OneAtWork, Working
<1>7. v.target \notin Engaged(memory) /\ v.run = runs /\ runs \in Nat
  BY <1>1, <1>5, Shapes DEF Fresh, Latest, Targeted
<1>8. Touched(effects, rejected) \subseteq Engaged(memory)
  BY <1>1, <1>2, AloneAtWork
<1>9. effects \in Seq(Messages) /\ MessageOf(v) \in Messages
  BY DEF DecidedInv, TypeInv, TypeOK, SequencesOK, PlacesInv, NodeInv, ExecuteAction, At
<1>10. \A i \in DOMAIN effects' :
         \/ i \in DOMAIN effects /\ effects'[i] = effects[i]
         \/ i = Len(effects) + 1 /\ effects'[i] = MessageOf(v)
  BY <1>3, <1>9
<1>11. /\ \A i \in DOMAIN effects' : effects'[i].target \in Engaged(memory) \union {v.target}
       /\ \A i \in DOMAIN effects' : effects'[i].run <= runs
  BY <1>5, <1>7, <1>8, <1>10, Shapes DEF Touched, Latest, MessageOf
<1>12. OneAtWork'
  BY <1>1, <1>2, <1>4, <1>5, <1>6 DEF OneAtWork, Working, Open
<1>13. Latest'
  BY <1>2, <1>4, <1>5, <1>6, <1>7, <1>11 DEF Latest, Open
<1>14. Records'
  BY <1>1, <1>2, <1>4, <1>5, <1>6 DEF Records, Open
<1>15. Touched(effects', rejected') \subseteq Engaged(memory') \union {stream'[s].vals.target}
  BY <1>2, <1>4, <1>8, <1>11 DEF Touched
<1>16. Recorded'
  BY <1>1, <1>4, <1>15 DEF Recorded, Pending
<1>17. Fresh'
  BY <1>2, <1>4, <1>5, <1>6 DEF Fresh, Targeted
<1>18. NoSecondApproach'
  <2>1. \A i \in DOMAIN effects : effects[i].target # v.target
    BY <1>7, <1>8 DEF Touched
  <2>2. \A x \in rejected : x.target # v.target
    BY <1>7, <1>8 DEF Touched
  <2>3. MessageOf(v).target = v.target
    BY DEF MessageOf
  <2>. QED
    BY <1>2, <1>10, <2>1, <2>2, <2>3 DEF NoSecondApproach
<1>. QED
  BY <1>12, <1>13, <1>14, <1>16, <1>17, <1>18 DEF ApproachInv

\* The target of the run goes on record.
LEMMA LogApproach ==
  ASSUME DecidedInv, ApproachInv, NoSecondApproach, ~overlapped', NEW s \in Streams,
         LogOutcome(s)
  PROVE  ApproachInv' /\ NoSecondApproach'
<1>. DEFINE v == stream[s].vals
<1>1. v \in Values /\ stream[s].pc = "log_outcome" /\ Working(s)
  BY DEF DecidedInv, TypeInv, TypeOK, LogOutcome, At, Working
<1>2. /\ UNCHANGED <<effects, rejected, runs, overlapped>> /\ ~overlapped
      /\ Advance(s, "finish", v) /\ memory' = Remembered(v)
  BY DEF LogOutcome, history, quiet
<1>3. OneAtWork /\ Latest /\ Records /\ Recorded
  BY <1>2 DEF ApproachInv
<1>4. Touched(effects, rejected) \subseteq Engaged(memory) \union {v.target}
  BY <1>1, <1>3 DEF OneAtWork, Recorded, Broken, Pending, Working
<1>5. NoTarget \notin Touched(effects, rejected)
  <2>1. \A i \in DOMAIN effects : effects[i].target \in Targets
    BY Shapes DEF Messages
  <2>2. \A x \in rejected : x.target \in Targets
    BY DEF DecidedInv, TypeInv, TypeOK
  <2>. QED
    BY <2>1, <2>2, EngagementAssumption DEF Touched
<1>6. Len(memory.engaged) < runs
  BY <1>1, <1>3 DEF Records
<1>7. /\ Touched(effects, rejected) \subseteq Engaged(memory')
      /\ Len(memory'.engaged) <= runs
  <2>1. CASE v.target = NoTarget
    BY <1>2, <1>4, <1>5, <1>6, <2>1, Shapes DEF Remembered
  <2>2. CASE v.target # NoTarget
    <3>. DEFINE new == [target |-> v.target, outcome |-> OutcomeOf(v)]
    <3>1. memory'.engaged = Append(memory.engaged, new)
      BY <1>2, <2>2 DEF Remembered
    <3>2. new \in Engagements /\ new.target = v.target
      BY <1>1, <2>2 DEF Engagements, Values, OutcomeOf, Outcomes
    <3>. HIDE DEF new
    <3>3. /\ Len(memory'.engaged) = Len(memory.engaged) + 1
          /\ \A i \in DOMAIN memory.engaged :
               i \in DOMAIN memory'.engaged /\ memory'.engaged[i] = memory.engaged[i]
          /\ Len(memory.engaged) + 1 \in DOMAIN memory'.engaged
          /\ memory'.engaged[Len(memory.engaged) + 1] = new
      BY <3>1, <3>2, Shapes
    <3>4. Engaged(memory) \subseteq Engaged(memory') /\ v.target \in Engaged(memory')
      BY <3>2, <3>3 DEF Engaged
    <3>. QED
      BY <1>4, <1>6, <3>3, <3>4, Shapes
  <2>. QED
    BY <2>1, <2>2
<1>8. ApproachInv'
  BY <1>1, <1>2, <1>3, <1>7, AdvanceApproach DEF Latest, Nodes, Targeted
<1>. QED
  BY <1>2, <1>8 DEF NoSecondApproach

LEMMA FinishApproach ==
  ASSUME DecidedInv, ApproachInv, NoSecondApproach, ~overlapped', NEW s \in Streams, Finish(s)
  PROVE  ApproachInv' /\ NoSecondApproach'
<1>. DEFINE t == stream[s].thread
            v == [stream[s].vals EXCEPT !.stop = FinalStop(stream[s].vals.stop)]
            point == Checkpoint("end", v, FALSE)
<1>1. /\ UNCHANGED <<memory, runs, effects, rejected, overlapped>> /\ ~overlapped
      /\ stream[s].pc = "finish" /\ Working(s) /\ ~Pending(s)
      /\ stream' = [stream EXCEPT ![s] = Idle(t)]
  BY DEF Finish, history, quiet, At, Working, Pending
<1>2. OneAtWork /\ Latest /\ Records /\ Fresh
  BY <1>1 DEF ApproachInv
<1>3. \A r \in Streams : ~Working(r)' /\ stream'[r].pc = "idle"
  BY <1>1, <1>2, Shapes DEF OneAtWork, Working, Idle, Drive
<1>4. stream[s].vals \in Values /\ v.mode = stream[s].vals.mode
  BY DEF DecidedInv, TypeInv, TypeOK, Values
<1>5. \A u \in Threads :
        \/ saved'[u] = saved[u]
        \/ saved'[u] = point /\ v.mode = "execute"
  BY Shapes DEF Finish, Saved
<1>6. point.next = "end" /\ point.vals = v /\ point.waits = FALSE
  BY DEF Checkpoint
<1>. HIDE DEF point, v
<1>7. \A u \in Threads : /\ Open(u)' => saved'[u] = saved[u]
                         /\ saved'[u].waits => saved'[u] = saved[u]
                         /\ saved'[u].next # "none" => saved'[u].vals.mode = "execute"
  BY <1>2, <1>5, <1>6 DEF Open, OneAtWork
<1>8. OneAtWork'
  BY <1>2, <1>3, <1>7 DEF OneAtWork, Open
<1>9. Latest' /\ Records'
  BY <1>1, <1>2, <1>3, <1>7 DEF Latest, Records, Open
<1>10. Recorded'
  BY <1>1, AloneAtWork DEF Recorded
<1>11. Fresh'
  BY <1>1, <1>2, <1>3, <1>7 DEF Fresh, Targeted
<1>. QED
  BY <1>1, <1>8, <1>9, <1>10, <1>11 DEF ApproachInv, NoSecondApproach

IInv == DecidedInv /\ ApproachInv /\ NoSecondApproach

LEMMA ApproachInit == Init => IInv
<1>. SUFFICES ASSUME Init PROVE IInv
  OBVIOUS
<1>1. DecidedInv
  BY DecidedInit
<1>2. /\ saved = [u \in Threads |-> NoCheckpoint] /\ memory.engaged = <<>>
      /\ runs = 0 /\ effects = <<>> /\ rejected = {}
  BY DEF Init
<1>3. \A t \in Threads : ~Open(t) /\ ~saved[t].waits /\ saved[t].next = "none"
  BY <1>2 DEF NoCheckpoint, Checkpoint, Open
<1>4. \A s \in Streams : ~Working(s) /\ stream[s].pc = "idle"
  BY DEF Init, Working, Idle, Drive
<1>5. OneAtWork /\ Latest /\ Fresh
  BY <1>2, <1>3, <1>4 DEF OneAtWork, Latest, Fresh, Targeted
<1>6. Records
  BY <1>2, <1>3, <1>4 DEF Records
<1>7. Recorded /\ NoSecondApproach
  BY <1>2 DEF Recorded, Touched, NoSecondApproach
<1>. QED
  BY <1>1, <1>5, <1>6, <1>7 DEF IInv, ApproachInv

LEMMA ApproachStep ==
  ASSUME MaxRuns <= RecallLimit + 1
  PROVE  IInv /\ [Next]_vars => IInv'
<1>. SUFFICES ASSUME IInv, [Next]_vars PROVE IInv'
  OBVIOUS
<1>1. DecidedInv /\ ApproachInv /\ NoSecondApproach
  BY DEF IInv
<1>2. DecidedInv'
  BY <1>1, DecidedStep
<1>3. CASE overlapped'
  BY <1>2, <1>3 DEF IInv, ApproachInv, NoSecondApproach
<1>4. CASE ~overlapped'
  <2>1. ASSUME NEW s \in Streams, Post(s) PROVE ApproachInv' /\ NoSecondApproach'
    BY <1>1, <1>4, <2>1, RecommendApproach, ResumeApproach DEF Post
  <2>2. ASSUME NEW s \in Streams, Node(s) PROVE ApproachInv' /\ NoSecondApproach'
    BY <1>1, <1>4, <2>2, NodeApproach, AskApproach, DecideApproach, ExecuteApproach,
       LogApproach, FinishApproach DEF Node
  <2>3. ASSUME NEW s \in Streams, Break(s) PROVE ApproachInv' /\ NoSecondApproach'
    BY <1>1, <1>4, <2>3, BreakApproach
  <2>4. CASE Restart
    BY <1>4, <2>4 DEF Restart
  <2>5. CASE UNCHANGED vars
    <3>1. UNCHANGED <<saved, stream, memory, runs, effects, rejected, overlapped>>
      BY <2>5 DEF vars
    <3>2. OneAtWork => OneAtWork'
      BY <3>1 DEF OneAtWork, Open, Working
    <3>3. Latest /\ Records => Latest' /\ Records'
      BY <3>1 DEF Latest, Records, Open, Working
    <3>4. Recorded => Recorded'
      BY <3>1 DEF Recorded, Pending, Broken, Open, Working
    <3>5. Fresh => Fresh'
      BY <3>1 DEF Fresh
    <3>. QED
      BY <1>1, <1>2, <3>1, <3>2, <3>3, <3>4, <3>5 DEF IInv, ApproachInv, NoSecondApproach
  <2>6. CASE Next
    BY <1>2, <2>1, <2>2, <2>3, <2>4, <2>6 DEF Next, IInv
  <2>. QED
    BY <2>5, <2>6
<1>. QED
  BY <1>3, <1>4

\* Runs that do not overlap write to no target twice, nor to one the operator
\* has rejected in an earlier run, as long as there are no more of them than
\* the memory recalls at a time, and one: later runs no longer see the oldest
\* targets, which is why the hypothesis is there.
THEOREM NobodyApproachedTwice ==
  ASSUME MaxRuns <= RecallLimit + 1
  PROVE  Spec => []NoSecondApproach
<1>1. Init => IInv
  BY ApproachInit
<1>2. IInv /\ [Next]_vars => IInv'
  BY ApproachStep
<1>3. IInv => NoSecondApproach
  BY DEF IInv
<1>. QED
  BY <1>1, <1>2, <1>3, PTL DEF Spec

=============================================================================
