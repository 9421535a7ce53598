--------------------------- MODULE OperatorCopilot ---------------------------
(* The operator copilot: a graph of nodes that classifies a request, plans   *)
(* tool calls, passes them through a policy gate, asks the operator before   *)
(* anything is written, runs them and records the outcome                    *)
(* (ai_copilot/application/graphs/operator_copilot, run_operator_copilot).   *)
(*                                                                           *)
(* One conversation (thread id). Every POST drives the graph in a stream of  *)
(* its own: it starts from the conversation's checkpoint, and every node     *)
(* that ends replaces it. Nothing keeps two POSTs apart, and a stream may    *)
(* break off anywhere. What the language model plans and the operator edits  *)
(* are sets of lists of calls; a list maps positions to calls, and dropping  *)
(* a call leaves the other positions as they are.                            *)
EXTENDS Integers

CONSTANTS Streams,    \* POSTs that can be under way at a time
          Positions,  \* positions in a list of calls
          CallIds,    \* ids the language model gives to calls
          ReadTools,  \* tools the policy classifies read-only
          WriteTools, \* tools the policy classifies write-sensitive
          OtherTools, \* blocked tools, and tools the policy does not know
          Registered, \* tools of the tool registry
          Plans,      \* lists of calls the planner may propose
          Edits,      \* lists of calls the operator may send back
          MaxRuns,    \* bound: runs of the conversation
          MaxResumes  \* bound: decisions posted

Tools == ReadTools \union WriteTools \union OtherTools
Call == [id : CallIds, tool : Tools, argsOk : BOOLEAN]
CallLists == UNION {[D -> Call] : D \in SUBSET Positions}

ASSUME PositionsAssumption == Positions \subseteq Int
ASSUME PolicyAssumption ==
  /\ ReadTools \intersect WriteTools = {}
  /\ OtherTools \intersect (ReadTools \union WriteTools) = {}
ASSUME ListsAssumption ==
  /\ Plans \subseteq CallLists
  /\ Edits \subseteq {l \in CallLists : DOMAIN l # {}}
ASSUME BoundsAssumption == MaxRuns \in Nat /\ MaxResumes \in Nat

VARIABLES saved,      \* the checkpoint: state, node to run next, whether it waits
          stream,     \* what each POST's stream is doing
          runs,       \* runs started
          resumes,    \* decisions posted
          memory,     \* interaction summaries
          asked,      \* history: how often each run asked the operator
          authorised, \* history: calls of a run the operator let through
          executed,   \* history: calls handed to the tool registry
          careless    \* history: a POST came while another one was under way,
                      \* or a decision while the conversation did not wait for one

vars == <<saved, stream, runs, resumes, memory, asked, authorised, executed, careless>>
history == <<asked, authorised, executed>>

-----------------------------------------------------------------------------
(* Lists of calls and the tool policy.                                       *)
Nothing == [i \in {} |-> i]
CallsIn(list) == {list[i] : i \in DOMAIN list}
Keep(list, D) == [i \in D |-> list[i]]

\* Faulty variant: a tool the policy does not know is taken for harmless.
PolicyOfAllowUnknown(tool) ==
  IF tool \in WriteTools THEN "write_sensitive" ELSE "read_only"

PolicyOf(tool) ==
  CASE tool \in ReadTools -> "read_only"
    [] tool \in WriteTools -> "write_sensitive"
    [] OTHER -> "blocked"

AllReadOnly(list) == \A c \in CallsIn(list) : PolicyOf(c.tool) = "read_only"

\* _sanitize_proposed_tool_calls, with the schemas of the bridge, which shows
\* registered tools that are not blocked.
Visible(tool) == tool \in Registered /\ PolicyOf(tool) # "blocked"
Sanitize(list) ==
  Keep(list, {i \in DOMAIN list : Visible(list[i].tool) /\ list[i].argsOk})

FilterExecutable(list) ==
  Keep(list, {i \in DOMAIN list : PolicyOf(list[i].tool) # "blocked"})

\* tool_policy_flags: one flag per call id, that of the last call with the id.
Flag(list, id) ==
  LET last == CHOOSE i \in DOMAIN list :
                /\ list[i].id = id
                /\ \A j \in DOMAIN list : list[j].id = id => j <= i
  IN PolicyOf(list[last].tool)

-----------------------------------------------------------------------------
(* The state of the graph and its edges.                                     *)
Nodes == {"ingest_request", "classify_goal", "plan_actions", "review_tool_policy",
          "request_approval", "execute_tools", "review_results",
          "summarize_result", "finish"}
StopReasons == {"none", "llm_failed", "blocked", "responded", "rejected", "done"}

\* make_initial_state, for the r-th run.
InitialState(r) ==
  [run |-> r, proposed |-> Nothing, approved |-> Nothing, attempted |-> FALSE,
   decision |-> "none", stop |-> "none", failed |-> {}]

RouteAfterClassify(v) ==
  CASE v.stop = "llm_failed" -> "finish"
    [] v.stop \in {"blocked", "responded"} -> "summarize_result"
    [] OTHER -> "plan_actions"

RouteAfterPlan(v) ==
  CASE v.stop = "llm_failed" -> "finish"
    [] v.stop # "llm_failed" /\ DOMAIN v.proposed = {} -> "summarize_result"
    [] OTHER -> "review_tool_policy"

\* Faulty variant: one read-only call is enough to skip the operator.
RouteAfterPolicySomeReadOnly(v) ==
  CASE DOMAIN v.proposed = {} -> "summarize_result"
    [] \E c \in CallsIn(v.proposed) : PolicyOf(c.tool) = "read_only" -> "execute_tools"
    [] OTHER -> IF v.attempted THEN "execute_tools" ELSE "request_approval"

RouteAfterPolicy(v) ==
  CASE DOMAIN v.proposed = {} -> "summarize_result"
    [] DOMAIN v.proposed # {} /\ (AllReadOnly(v.proposed) \/ v.attempted) -> "execute_tools"
    [] OTHER -> "request_approval"

RouteAfterApproval(v) ==
  CASE v.decision = "approved" -> "execute_tools"
    [] v.decision = "edited" -> "review_tool_policy"
    [] OTHER -> "summarize_result"

\* Faulty variants: after a failed tool, run the calls again or plan anew.
RouteAfterExecuteRetry(v, large) ==
  IF v.failed # {} THEN "execute_tools" ELSE "summarize_result"
RouteAfterExecuteReplan(v, large) ==
  IF v.failed # {} THEN "plan_actions" ELSE "summarize_result"

RouteAfterExecute(v, large) ==
  IF \/ \E c \in CallsIn(v.approved) : Flag(v.approved, c.id) # "read_only"
     \/ v.failed # {}
     \/ large
  THEN "review_results" ELSE "summarize_result"

-----------------------------------------------------------------------------
(* Streams and the checkpoint.                                               *)
NoAnswer == [result |-> "none", edited |-> Nothing]
Answers == [result : {"approved", "rejected"}, edited : {Nothing}]
             \union [result : {"edited"}, edited : Edits]

\* A stream about to run a node; execute_tools goes through the approved calls.
At(node, v, answer) ==
  [pc |-> node, vals |-> v, answer |-> answer, failed |-> {},
   todo |-> IF node = "execute_tools" THEN DOMAIN v.approved ELSE {}]
Idle == At("idle", InitialState(0), NoAnswer)

Checkpoint(node, v) == [next |-> node, vals |-> v, waits |-> FALSE]
NoCheckpoint == Checkpoint("none", InitialState(0))

\* A node has ended: the checkpoint holds what it made, the stream goes on.
Advance(s, node, v) ==
  /\ stream' = [stream EXCEPT ![s] = At(node, v, NoAnswer)]
  /\ saved' = Checkpoint(node, v)

Busy == \E s \in Streams : stream[s].pc # "idle"

Init ==
  /\ saved = NoCheckpoint
  /\ stream = [s \in Streams |-> Idle]
  /\ runs = 0
  /\ resumes = 0
  /\ memory = {}
  /\ asked = [r \in 1..MaxRuns |-> 0]
  /\ authorised = {}
  /\ executed = {}
  /\ careless = FALSE

-----------------------------------------------------------------------------
(* POSTs.                                                                    *)

\* A request on the conversation, whatever became of the one before.
Run(s) ==
  /\ stream[s].pc = "idle"
  /\ runs < MaxRuns
  /\ runs' = runs + 1
  /\ Advance(s, "ingest_request", InitialState(runs + 1))
  /\ careless' = (careless \/ Busy)
  /\ UNCHANGED <<resumes, memory, history>>

\* A decision: the node the checkpoint names next runs with it. "edited" with
\* no calls is refused.
Resume(s) ==
  /\ stream[s].pc = "idle"
  /\ saved.next \in Nodes
  /\ resumes < MaxResumes
  /\ resumes' = resumes + 1
  /\ \E answer \in Answers :
       stream' = [stream EXCEPT ![s] = At(saved.next, saved.vals, answer)]
  /\ careless' = (careless \/ Busy \/ ~saved.waits)
  /\ UNCHANGED <<saved, runs, memory, history>>

\* The client leaves, or a node raises: what the node did to the state is lost.
Break(s) ==
  /\ stream[s].pc # "idle"
  /\ stream' = [stream EXCEPT ![s] = Idle]
  /\ UNCHANGED <<saved, runs, resumes, memory, history, careless>>

\* The server restarts; a checkpointer in memory forgets the conversation.
Restart ==
  /\ stream' = [s \in Streams |-> Idle]
  /\ saved' \in {saved, NoCheckpoint}
  /\ memory' = {}
  /\ UNCHANGED <<runs, resumes, history, careless>>

-----------------------------------------------------------------------------
(* Nodes.                                                                    *)

Ingest(s) ==
  /\ stream[s].pc = "ingest_request"
  /\ LET v == [stream[s].vals EXCEPT !.proposed = Nothing, !.approved = Nothing,
                                     !.attempted = FALSE]
     IN Advance(s, "classify_goal", v)
  /\ UNCHANGED <<runs, resumes, memory, history, careless>>

\* The language model fails, refuses, answers at once, or states a goal.
Classify(s) ==
  /\ stream[s].pc = "classify_goal"
  /\ \E stop \in {"llm_failed", "blocked", "responded", stream[s].vals.stop} :
       LET v == [stream[s].vals EXCEPT !.stop = stop]
       IN Advance(s, RouteAfterClassify(v), v)
  /\ UNCHANGED <<runs, resumes, memory, history, careless>>

\* An answer that cannot be parsed is an empty plan.
Plan(s) ==
  /\ stream[s].pc = "plan_actions"
  /\ \/ LET v == [stream[s].vals EXCEPT !.stop = "llm_failed"]
        IN Advance(s, RouteAfterPlan(v), v)
     \/ \E plan \in Plans \union {Nothing} :
          LET v == [stream[s].vals EXCEPT !.proposed = Sanitize(plan)]
          IN Advance(s, RouteAfterPlan(v), v)
  /\ UNCHANGED <<runs, resumes, memory, history, careless>>

ReviewPolicy(s) ==
  /\ stream[s].pc = "review_tool_policy"
  /\ LET list == FilterExecutable(stream[s].vals.proposed)
         v == [stream[s].vals EXCEPT !.proposed = list, !.approved = list]
     IN Advance(s, RouteAfterPolicy(v), v)
  /\ UNCHANGED <<runs, resumes, memory, history, careless>>

\* interrupt() without an answer: the checkpoint waits and the stream ends.
Ask(s) ==
  LET v == stream[s].vals IN
  /\ stream[s].pc = "request_approval"
  /\ stream[s].answer = NoAnswer
  /\ ~v.attempted
  /\ saved' = [saved EXCEPT !.waits = @ \/ saved = Checkpoint("request_approval", v)]
  /\ stream' = [stream EXCEPT ![s] = Idle]
  /\ asked' = [asked EXCEPT ![v.run] = @ + 1]
  /\ UNCHANGED <<runs, resumes, memory, authorised, executed, careless>>

\* Faulty variant: a rejection leaves the calls and the stop reason as they were.
DecidedRejectKeeps(v, answer) ==
  CASE answer.result = "edited" ->
         [v EXCEPT !.decision = "edited", !.attempted = TRUE,
                   !.proposed = Sanitize(answer.edited), !.approved = Nothing]
    [] OTHER -> [v EXCEPT !.decision = answer.result, !.attempted = TRUE]

\* The state after the operator's answer; a second approval in a run is final.
Decided(v, answer) ==
  CASE v.attempted -> [v EXCEPT !.stop = "rejected"]
    [] ~v.attempted /\ answer.result = "approved" -> [v EXCEPT !.decision = "approved", !.attempted = TRUE]
    [] ~v.attempted /\ answer.result = "edited" ->
         [v EXCEPT !.decision = "edited", !.attempted = TRUE,
                   !.proposed = Sanitize(answer.edited), !.approved = Nothing]
    [] OTHER -> [v EXCEPT !.decision = answer.result, !.attempted = TRUE,
                          !.stop = "rejected", !.approved = Nothing]

\* The calls an answer lets through.
LetThrough(v, answer) ==
  CASE ~v.attempted /\ answer.result = "approved" -> CallsIn(v.proposed)
    [] ~v.attempted /\ answer.result = "edited" -> CallsIn(answer.edited)
    [] OTHER -> {}

\* interrupt() with an answer, or no interrupt at all.
Decide(s) ==
  LET v == stream[s].vals
      answer == stream[s].answer
  IN /\ stream[s].pc = "request_approval"
     /\ v.attempted \/ answer # NoAnswer
     /\ Advance(s, RouteAfterApproval(Decided(v, answer)), Decided(v, answer))
     /\ authorised' = authorised \union [run : {v.run}, call : LetThrough(v, answer)]
     /\ UNCHANGED <<runs, resumes, memory, asked, executed, careless>>

\* The next approved call, in order. The bridge refuses a blocked tool; any
\* other goes to the registry. The result of a call is kept under its id.
ExecuteTool(s) ==
  LET v == stream[s].vals IN
  /\ stream[s].pc = "execute_tools"
  /\ \E i \in stream[s].todo :
       LET call == v.approved[i]
           allowed == PolicyOf(call.tool) # "blocked"
       IN /\ \A j \in stream[s].todo : i <= j
          /\ executed' = IF allowed
                         THEN executed \union {[run |-> v.run, pos |-> i, call |-> call]}
                         ELSE executed
          /\ \E ok \in IF allowed THEN BOOLEAN ELSE {FALSE} :
               stream' = [stream EXCEPT ![s].todo = @ \ {i},
                                        ![s].failed = IF ok THEN @ \ {call.id}
                                                            ELSE @ \union {call.id}]
  /\ UNCHANGED <<saved, runs, resumes, memory, asked, authorised, careless>>

ExecuteDone(s) ==
  /\ stream[s].pc = "execute_tools"
  /\ stream[s].todo = {}
  /\ \E large \in BOOLEAN :
       LET v == [stream[s].vals EXCEPT !.failed = stream[s].failed]
       IN Advance(s, RouteAfterExecute(v, large), v)
  /\ UNCHANGED <<runs, resumes, memory, history, careless>>

\* Whatever the language model says of the results, or fails to, a summary follows.
ReviewResults(s) ==
  /\ stream[s].pc = "review_results"
  /\ Advance(s, "summarize_result", stream[s].vals)
  /\ UNCHANGED <<runs, resumes, memory, history, careless>>

Summarize(s) ==
  /\ stream[s].pc = "summarize_result"
  /\ Advance(s, "finish", stream[s].vals)
  /\ UNCHANGED <<runs, resumes, memory, history, careless>>

\* Faulty variant: an answer given at once is recorded under its own name.
FinalStopResponded(v) == IF v.stop = "none" THEN "done" ELSE v.stop

FinalStop(v) == IF v.stop \in {"none", "responded"} THEN "done" ELSE v.stop
Outcome(v) ==
  IF FinalStop(v) = "done" /\ DOMAIN v.approved # {} THEN "success" ELSE FinalStop(v)

\* The run is over; storing the summary may fail.
Finish(s) ==
  LET v == stream[s].vals
      summary == [run |-> v.run, outcome |-> Outcome(v), calls |-> v.approved]
  IN /\ stream[s].pc = "finish"
     /\ stream' = [stream EXCEPT ![s] = Idle]
     /\ saved' = Checkpoint("end", [v EXCEPT !.stop = FinalStop(v)])
     /\ memory' \in {memory, memory \union {summary}}
     /\ UNCHANGED <<runs, resumes, history, careless>>

-----------------------------------------------------------------------------
Step(s) ==
  \/ Run(s) \/ Resume(s) \/ Break(s)
  \/ Ingest(s) \/ Classify(s) \/ Plan(s) \/ ReviewPolicy(s)
  \/ Ask(s) \/ Decide(s) \/ ExecuteTool(s) \/ ExecuteDone(s)
  \/ ReviewResults(s) \/ Summarize(s) \/ Finish(s)

Next == Restart \/ \E s \in Streams : Step(s)

Spec == Init /\ [][Next]_vars
-----------------------------------------------------------------------------
(* Properties.                                                               *)

\* What the state of a run can be.
Values ==
  [run : 0..MaxRuns, proposed : CallLists, approved : CallLists,
   attempted : BOOLEAN, decision : {"none", "approved", "rejected", "edited"},
   stop : StopReasons, failed : SUBSET CallIds]

\* Types of the variables; the stop reasons and outcomes are those that
\* state.py lists and finish_node records.
TypeOK ==
  /\ saved \in [next : Nodes \union {"none", "end"}, vals : Values, waits : BOOLEAN]
  /\ stream \in [Streams -> [pc : Nodes \union {"idle"}, vals : Values,
                             answer : Answers \union {NoAnswer},
                             todo : SUBSET Positions, failed : SUBSET CallIds]]
  /\ runs \in 0..MaxRuns
  /\ resumes \in 0..MaxResumes
  /\ memory \subseteq [run : 1..MaxRuns, calls : CallLists,
                       outcome : {"success", "done", "rejected", "blocked", "llm_failed"}]
  /\ asked \in [1..MaxRuns -> Nat]
  /\ authorised \subseteq [run : 1..MaxRuns, call : Call]
  /\ executed \subseteq [run : 1..MaxRuns, pos : Positions, call : Call]
  /\ careless \in BOOLEAN

\* A tool that is blocked or unknown to the policy never gets as far as the
\* executor, whatever the planner proposes and the operator edits
\* (operator_copilot_policy.py:8-9), and however the POSTs interleave.
BlockedNeverRuns ==
  /\ \A s \in Streams : \A i \in stream[s].todo :
       stream[s].vals.approved[i].tool \notin OtherTools
  /\ \A e \in executed : e.call.tool \notin OtherTools

\* A write-sensitive call that ran was let through by an answer of the operator
\* to the request of the same run: approved as proposed, or sent back by the
\* operator. A checkpoint that is old, overtaken by another POST, or left by a
\* stream that broke off does not get around the gate.
WritesAreDecided ==
  \A e \in executed :
    e.call.tool \in WriteTools => [run |-> e.run, call |-> e.call] \in authorised

\* As long as POSTs do not overlap and decisions come when the conversation
\* waits for one, only approved calls have run: after a rejection, a refusal or
\* a failed plan none has.
ExecutesWhatWasApproved ==
  ~careless =>
    \A e \in executed :
      e.run = saved.vals.run =>
        /\ e.pos \in DOMAIN saved.vals.approved
        /\ saved.vals.approved[e.pos] = e.call

\* Under the same condition no call is handed to the registry twice: one answer
\* pays for one execution, also when a tool fails or the stream breaks off.
NoCallRunsTwice ==
  [][\A s \in Streams :
       stream'[s].todo # stream[s].todo /\ stream[s].pc = "execute_tools"
                                       /\ stream'[s].pc = "execute_tools"
         => careless \/ executed' # executed]_vars

\* A summary that tells later plans of a success names only calls that ran.
SuccessWasRun ==
  \A m \in memory :
    m.outcome = "success" =>
      \A i \in DOMAIN m.calls : [run |-> m.run, pos |-> i, call |-> m.calls[i]] \in executed
=============================================================================
