--------------------------- MODULE SmartEngagement ---------------------------
(* Smart engagement: a graph of nodes that finds a target for an account,     *)
(* drafts a message, scores its risk, asks the operator and sends it          *)
(* (ai_copilot/application/smart_engagement, run_smart_engagement.py,         *)
(* routers/smart_engagement.py).                                              *)
(*                                                                            *)
(* Every POST drives the graph in a stream of its own, on the conversation    *)
(* (thread id) it names. The executing graph keeps a checkpoint of each       *)
(* conversation, which /resume goes on from; the recommending graph has a     *)
(* checkpointer of its own that nobody resumes. What a run came to is kept in *)
(* a memory of the account that all conversations share. Checkpoints and      *)
(* memory are the in-memory ones, which are the default. One account.         *)
EXTENDS Naturals, Sequences, SequencesExt

CONSTANTS Threads,     \* conversations
          Streams,     \* POSTs that can be under way at a time
          Targets,     \* accounts and posts that can be engaged with
          NoTarget,    \* no target
          RecallLimit, \* records the memory returns for one question
          MaxRuns,     \* bound: runs started
          MaxResumes   \* bound: decisions posted

ASSUME EngagementAssumption ==
  /\ NoTarget \notin Targets
  /\ RecallLimit \in Nat
  /\ MaxRuns \in Nat
  /\ MaxResumes \in Nat

VARIABLES saved,     \* conversation -> checkpoint of the executing graph
          stream,    \* what each POST's stream is doing
          memory,    \* outcomes of runs and rejected targets, oldest first
          runs,      \* runs started
          resumes,   \* decisions posted
          decided,   \* history: messages an answer of the operator let through
          effects,   \* history: messages sent, in order
          rejected,  \* history: targets the operator rejected, with the run
          overlapped \* history: a run began before an earlier one had ended, a
                     \* decision came when none was asked for, or a restart

vars == <<saved, stream, memory, runs, resumes, decided, effects,
          rejected, overlapped>>
history == <<decided, effects, rejected>>

-----------------------------------------------------------------------------
Nodes == {"ingest_goal", "load_account_context", "discover_candidates",
          "rank_candidates", "draft_action", "score_risk", "gate_by_mode",
          "request_approval", "execute_action", "log_outcome", "finish"}
Modes == {"recommendation", "execute"}
Contents == {"none", "draft", "edited"}
Stops == {"none", "account_not_ready", "no_candidates", "error", "risk_threshold_exceeded",
          "recommendation_only", "approval_rejected", "approval_limit_reached", "completed"}
Outcomes == {"success", "failed", "rejected", "skipped"}

\* _build_initial_state
InitialState(r, mode) ==
  [run |-> r, mode |-> mode, stop |-> "none", found |-> {},
   target |-> NoTarget, content |-> "none", attempted |-> FALSE,
   decision |-> "none", result |-> "none"]

\* A decision and the words of an edit. When it comes does not matter: the
\* deadline a request reports is never compared with the time of the answer.
Answers == [decision : {"approved", "rejected", "edited"}, content : {"none", "edited"}]
NoAnswer == [decision |-> "none", content |-> "none"]
IsEdit(answer) == answer.decision = "edited" /\ answer.content = "edited"

Drive(t, node, v, answer) == [thread |-> t, pc |-> node, vals |-> v, answer |-> answer]
Idle(t) == Drive(t, "idle", InitialState(0, "recommendation"), NoAnswer)

Checkpoint(node, v, waits) == [next |-> node, vals |-> v, waits |-> waits]
NoCheckpoint == Checkpoint("none", InitialState(0, "execute"), FALSE)

Busy == \E s \in Streams : stream[s].pc # "idle"
Unfinished == \E t \in Threads : saved[t].next \notin {"none", "finish", "end"}

\* A node has ended with the state v. Only the executing graph's checkpoint is
\* ever read again.
Saved(t, node, v, waits) ==
  IF v.mode = "execute" THEN [saved EXCEPT ![t] = Checkpoint(node, v, waits)] ELSE saved
Advance(s, node, v) ==
  /\ stream' = [stream EXCEPT ![s] = Drive(@.thread, node, v, NoAnswer)]
  /\ saved' = Saved(stream[s].thread, node, v, FALSE)

At(s, node) == stream[s].pc = node

Init ==
  /\ saved = [t \in Threads |-> NoCheckpoint]
  /\ \E t \in Threads : stream = [s \in Streams |-> Idle(t)]
  /\ memory = [engaged |-> <<>>, refused |-> <<>>]
  /\ runs = 0
  /\ resumes = 0
  /\ decided = {}
  /\ effects = <<>>
  /\ rejected = {}
  /\ overlapped = FALSE

-----------------------------------------------------------------------------
(* POSTs.                                                                    *)
Recommend(s, t, mode) ==
  /\ At(s, "idle")
  /\ runs < MaxRuns
  /\ runs' = runs + 1
  /\ LET v == InitialState(runs + 1, mode) IN
     /\ stream' = [stream EXCEPT ![s] = Drive(t, "ingest_goal", v, NoAnswer)]
     /\ saved' = Saved(t, "ingest_goal", v, FALSE)
  /\ overlapped' = (overlapped \/ Busy \/ Unfinished)
  /\ UNCHANGED <<memory, resumes, history>>

Resume(s, t, answer) ==
  /\ At(s, "idle")
  /\ saved[t].next \in Nodes
  /\ resumes < MaxResumes
  /\ resumes' = resumes + 1
  /\ stream' = [stream EXCEPT ![s] = Drive(t, saved[t].next, saved[t].vals, answer)]
  /\ overlapped' = (overlapped \/ Busy \/ ~saved[t].waits)
  /\ UNCHANGED <<saved, memory, runs, history>>

\* The client leaves the stream, or a node raises (the audit log cannot be
\* written): what the node did to the state is lost.
Break(s) ==
  /\ ~At(s, "idle")
  /\ stream' = [stream EXCEPT ![s] = Idle(@.thread)]
  /\ UNCHANGED <<saved, memory, runs, resumes, history, overlapped>>

Restart ==
  /\ runs > 0
  /\ saved' = [t \in Threads |-> NoCheckpoint]
  /\ stream' = [s \in Streams |-> Idle(stream[s].thread)]
  /\ memory' = [engaged |-> <<>>, refused |-> <<>>]
  /\ overlapped' = TRUE
  /\ UNCHANGED <<runs, resumes, history>>

-----------------------------------------------------------------------------
(* Nodes.                                                                    *)
StopAt(s, reason) ==
  Advance(s, "log_outcome", [stream[s].vals EXCEPT !.stop = reason])
quiet == <<runs, resumes, overlapped>>

IngestGoal(s) ==
  /\ At(s, "ingest_goal")
  /\ Advance(s, "load_account_context", stream[s].vals)
  /\ UNCHANGED <<memory, history, quiet>>

\* The account is active, if need be after one relogin, or it is not, or nobody
\* can tell.
AccountAnswers == {"active", "needs_relogin", "not_found"}
LoadAccountContext(s) ==
  /\ At(s, "load_account_context")
  /\ \E answer \in AccountAnswers :
       CASE answer = "active" -> Advance(s, "discover_candidates", stream[s].vals)
         [] answer = "needs_relogin" -> StopAt(s, "account_not_ready")
         [] answer = "not_found" -> StopAt(s, "error")
  /\ UNCHANGED <<memory, history, quiet>>

\* The memory returns the first RecallLimit records it holds.
FirstOf(seq) == SubSeq(seq, 1, IF Len(seq) < RecallLimit THEN Len(seq) ELSE RecallLimit)
Recalled ==
  {FirstOf(memory.engaged)[i].target : i \in DOMAIN FirstOf(memory.engaged)}
    \union Range(FirstOf(memory.refused))

\* Faulty variant: rejections are not asked for.
CandidatesOfEngaged(found) ==
  {x \in found : ~\E i \in DOMAIN FirstOf(memory.engaged) :
                    FirstOf(memory.engaged)[i] \in [target : {x}, outcome : {"success"}]}

Candidates(found) == found \ Recalled

DiscoverCandidates(s) ==
  /\ At(s, "discover_candidates")
  /\ \/ \E found \in SUBSET Targets :
          IF Candidates(found) = {} THEN StopAt(s, "no_candidates")
          ELSE Advance(s, "rank_candidates",
                       [stream[s].vals EXCEPT !.found = Candidates(found)])
     \/ StopAt(s, "error")
  /\ UNCHANGED <<memory, history, quiet>>

RankCandidates(s) ==
  /\ At(s, "rank_candidates")
  /\ \E x \in stream[s].vals.found :
       Advance(s, "draft_action", [stream[s].vals EXCEPT !.target = x, !.found = {}])
  /\ UNCHANGED <<memory, history, quiet>>

DraftAction(s) ==
  /\ At(s, "draft_action")
  /\ Advance(s, "score_risk", [stream[s].vals EXCEPT !.content = "draft"])
  /\ UNCHANGED <<memory, history, quiet>>

\* A high risk ends the run, a low or medium one goes on.
RiskAnswers == {"low", "high", "raised"}
ScoreRisk(s) ==
  /\ At(s, "score_risk")
  /\ \E risk \in RiskAnswers :
       CASE risk = "low" -> Advance(s, "gate_by_mode", stream[s].vals)
         [] risk = "high" -> StopAt(s, "risk_threshold_exceeded")
         [] risk = "raised" -> StopAt(s, "error")
  /\ UNCHANGED <<memory, history, quiet>>

GateByMode(s) ==
  /\ At(s, "gate_by_mode")
  /\ IF stream[s].vals.mode = "recommendation"
     THEN StopAt(s, "recommendation_only")
     ELSE Advance(s, "request_approval", stream[s].vals)
  /\ UNCHANGED <<memory, history, quiet>>

\* interrupt() without an answer: the stream ends and the checkpoint waits.
Ask(s) ==
  LET v == stream[s].vals IN
  /\ At(s, "request_approval")
  /\ stream[s].answer = NoAnswer /\ ~v.attempted
  /\ saved' = [saved EXCEPT ![stream[s].thread].waits =
                 @ \/ saved[stream[s].thread] = Checkpoint("request_approval", v, FALSE)]
  /\ stream' = [stream EXCEPT ![s] = Idle(@.thread)]
  /\ UNCHANGED <<memory, history, quiet>>

\* Faulty variant: the edit is accepted and the draft is kept.
DecidedKeepsDraft(v, answer) ==
  IF answer.decision = "rejected"
  THEN [v EXCEPT !.attempted = TRUE, !.decision = "rejected", !.stop = "approval_rejected"]
  ELSE [v EXCEPT !.attempted = TRUE, !.decision = "approved"]

Decided(v, answer) ==
  CASE v.attempted -> [v EXCEPT !.stop = "approval_limit_reached"]
    [] ~v.attempted /\ answer.decision = "rejected" ->
         [v EXCEPT !.attempted = TRUE, !.decision = "rejected", !.stop = "approval_rejected"]
    [] OTHER ->
         [v EXCEPT !.attempted = TRUE, !.decision = "approved",
                   !.content = IF IsEdit(answer) THEN "edited" ELSE @]

RouteAfterApproval(v) ==
  IF v.stop = "none" /\ v.decision = "approved" THEN "execute_action" ELSE "log_outcome"

\* What the operator lets through: the content of the request, or the edit.
LetThrough(v, answer) ==
  IF answer.decision = "rejected" THEN {}
  ELSE {[run |-> v.run, target |-> v.target,
         content |-> IF IsEdit(answer) THEN "edited" ELSE v.content]}

\* The node starts again with the answer. (It also submits the approval once
\* more, a record nothing here reads.)
Decide(s) ==
  LET v == stream[s].vals
      w == Decided(v, stream[s].answer)
  IN /\ At(s, "request_approval")
     /\ stream[s].answer # NoAnswer \/ v.attempted
     /\ Advance(s, RouteAfterApproval(w), w)
     /\ decided' = decided \union LetThrough(v, stream[s].answer)
     /\ rejected' = IF w.decision = "rejected"
                    THEN rejected \union {[run |-> v.run, target |-> v.target]} ELSE rejected
     /\ UNCHANGED <<memory, effects, quiet>>

\* A message or a comment may go out although its answer is lost. A follow or a
\* like is refused by the executor, which is one of the ways to fail.
ExecutorAnswers ==
  {[sent |-> TRUE, result |-> "success"], [sent |-> TRUE, result |-> "failed"],
   [sent |-> FALSE, result |-> "failed"]}

ExecuteAction(s) ==
  LET v == stream[s].vals
      message == [run |-> v.run, target |-> v.target, content |-> v.content]
  IN /\ At(s, "execute_action")
     /\ \E answer \in ExecutorAnswers :
          /\ effects' = IF answer.sent THEN Append(effects, message) ELSE effects
          /\ stream' = [stream EXCEPT ![s].pc = "executed", ![s].vals.result = answer.result]
     /\ UNCHANGED <<saved, memory, decided, rejected, quiet>>

ExecuteDone(s) ==
  /\ At(s, "executed")
  /\ Advance(s, "log_outcome", stream[s].vals)
  /\ UNCHANGED <<memory, history, quiet>>

OutcomeOf(v) ==
  CASE v.result \in {"success", "failed"} -> v.result
    [] v.result = "none" /\ v.stop = "approval_rejected" -> "rejected"
    [] OTHER -> "skipped"

\* store_engagement_outcome; rejections are listed once more, by target.
Remembered(v) ==
  IF v.target = NoTarget THEN memory
  ELSE [engaged |-> Append(memory.engaged, [target |-> v.target, outcome |-> OutcomeOf(v)]),
        refused |-> IF OutcomeOf(v) = "rejected" /\ ~Contains(memory.refused, v.target)
                    THEN Append(memory.refused, v.target) ELSE memory.refused]

LogOutcome(s) ==
  /\ At(s, "log_outcome")
  /\ memory' = Remembered(stream[s].vals)
  /\ Advance(s, "finish", stream[s].vals)
  /\ UNCHANGED <<history, quiet>>

FinalStop(stop) == IF stop = "none" THEN "completed" ELSE stop

Finish(s) ==
  LET v == [stream[s].vals EXCEPT !.stop = FinalStop(@)] IN
  /\ At(s, "finish")
  /\ stream' = [stream EXCEPT ![s] = Idle(@.thread)]
  /\ saved' = Saved(stream[s].thread, "end", v, FALSE)
  /\ UNCHANGED <<memory, history, quiet>>

-----------------------------------------------------------------------------
Post(s) ==
  \E t \in Threads :
    \/ \E mode \in Modes : Recommend(s, t, mode)
    \/ \E answer \in Answers : Resume(s, t, answer)
Node(s) ==
  \/ IngestGoal(s) \/ LoadAccountContext(s) \/ DiscoverCandidates(s) \/ RankCandidates(s)
  \/ DraftAction(s) \/ ScoreRisk(s) \/ GateByMode(s) \/ Ask(s) \/ Decide(s)
  \/ ExecuteAction(s) \/ ExecuteDone(s) \/ LogOutcome(s) \/ Finish(s)
Next ==
  \/ \E s \in Streams : Post(s) \/ Node(s) \/ Break(s)
  \/ Restart

Spec == Init /\ [][Next]_vars

-----------------------------------------------------------------------------
Values ==
  [run : 0..MaxRuns, mode : Modes, stop : Stops, found : SUBSET Targets,
   target : Targets \union {NoTarget}, content : Contents, attempted : BOOLEAN,
   decision : {"none", "approved", "rejected"}, result : {"none", "success", "failed"}]
Messages == [run : 1..MaxRuns, target : Targets, content : Contents]

\* Checkpoints, streams, memory and histories keep their types.
TypeOK ==
  /\ saved \in [Threads -> [next : Nodes \union {"none", "end"}, vals : Values, waits : BOOLEAN]]
  /\ stream \in [Streams -> [thread : Threads, pc : Nodes \union {"idle", "executed"},
                             vals : Values, answer : Answers \union {NoAnswer}]]
  /\ \A i \in DOMAIN memory.engaged : memory.engaged[i] \in [target : Targets, outcome : Outcomes]
  /\ Range(memory.refused) \subseteq Targets
  /\ runs \in 0..MaxRuns
  /\ resumes \in 0..MaxResumes
  /\ decided \subseteq Messages
  /\ Range(effects) \subseteq Messages
  /\ rejected \subseteq [run : 1..MaxRuns, target : Targets]
  /\ overlapped \in BOOLEAN

\* Every message that was sent is one that an answer of the operator in the
\* same run let through, to the target and with the words of the request or of
\* the edit, however POSTs, breaks and restarts interleave.
EffectsAreDecided == \A i \in DOMAIN effects : effects[i] \in decided

\* "Avoid re-engaging recently contacted targets", "skip targets whose
\* engagement was rejected": as long as one run ends before the next begins,
\* no target is written to twice, nor after the operator has rejected it.
NoSecondApproach ==
  ~overlapped =>
    \A i \in DOMAIN effects :
      /\ \A j \in DOMAIN effects : effects[i].target = effects[j].target => i = j
      /\ \A x \in rejected : x.target = effects[i].target => x.run > effects[i].run

=============================================================================
