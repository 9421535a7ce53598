------------------------ MODULE OperatorCopilotProofs ------------------------
(* The approval gate of the operator copilot holds for any number of streams *)
(* and runs, any plans and any edits: an inductive invariant that says what  *)
(* a state has gone through by the node it is about to enter, be it in a     *)
(* stream or in the checkpoint.                                              *)
EXTENDS OperatorCopilot, TLAPS

\* Every call of the list may run: none is blocked, every write was let through.
Cleared(v, list, auth) ==
  \A c \in CallsIn(list) :
    /\ c.tool \notin OtherTools
    /\ c.tool \in WriteTools => [run |-> v.run, call |-> c] \in auth

\* The approved calls at the positions D have run.
Ran(v, D, exec) ==
  \A i \in D : [run |-> v.run, pos |-> i, call |-> v.approved[i]] \in exec

\* What is true of a state that is about to enter a node.
NodeInv(node, v, auth, exec) ==
  /\ node \in Nodes => v.run \in 1..MaxRuns
  /\ node \in {"classify_goal", "plan_actions"} => DOMAIN v.approved = {} /\ ~v.attempted
  /\ node = "review_tool_policy" /\ v.attempted => Cleared(v, v.proposed, auth)
  /\ node = "request_approval" =>
       /\ ~v.attempted
       /\ v.approved = v.proposed
       /\ \A c \in CallsIn(v.proposed) : c.tool \notin OtherTools
  /\ node = "execute_tools" => Cleared(v, v.approved, auth)
  /\ node = "review_results" => Ran(v, DOMAIN v.approved, exec)
  /\ node \in {"summarize_result", "finish"} /\ v.stop \in {"none", "responded", "done"}
       => Ran(v, DOMAIN v.approved, exec)

\* A stream inside execute_tools has run what it is done with.
StreamInv(st, auth, exec) ==
  /\ NodeInv(st.pc, st.vals, auth, exec)
  /\ st.todo \subseteq DOMAIN st.vals.approved
  /\ st.todo # {} => st.pc = "execute_tools"
  /\ st.pc = "execute_tools" => Ran(st.vals, DOMAIN st.vals.approved \ st.todo, exec)

PlacesInv ==
  /\ NodeInv(saved.next, saved.vals, authorised, executed)
  /\ \A s \in Streams : StreamInv(stream[s], authorised, executed)

ExecutedInv ==
  \A e \in executed :
    /\ e.call.tool \notin OtherTools
    /\ e.call.tool \in WriteTools => [run |-> e.run, call |-> e.call] \in authorised

IInv == TypeOK /\ PlacesInv /\ ExecutedInv /\ SuccessWasRun

-----------------------------------------------------------------------------
(* Lists, and how the invariant carries over.                                *)

\* Dropping calls from a list leaves a list of calls of the list.
LEMMA KeepType ==
  ASSUME NEW list \in CallLists, NEW D \in SUBSET DOMAIN list
  PROVE  /\ Keep(list, D) \in CallLists
         /\ DOMAIN Keep(list, D) = D
         /\ \A i \in D : Keep(list, D)[i] = list[i]
         /\ CallsIn(Keep(list, D)) \subseteq CallsIn(list)
<1>1. PICK P \in SUBSET Positions : list \in [P -> Call]
  BY DEF CallLists
<1>2. Keep(list, D) \in [D -> Call] /\ D \in SUBSET Positions
  BY <1>1 DEF Keep
<1>. QED
  BY <1>2 DEF CallLists, CallsIn, Keep

\* The empty list.
LEMMA NothingType == Nothing \in CallLists /\ DOMAIN Nothing = {}
<1>1. Nothing \in [{} -> Call] /\ {} \in SUBSET Positions
  BY DEF Nothing
<1>. QED
  BY <1>1 DEF CallLists, Nothing

\* The calls of a list are calls.
LEMMA CallsType ==
  ASSUME NEW list \in CallLists
  PROVE  CallsIn(list) \subseteq Call /\ DOMAIN list \subseteq Positions
BY DEF CallLists, CallsIn

\* What sanitizing leaves is not blocked and comes from the list.
LEMMA SanitizeFacts ==
  ASSUME NEW list \in CallLists
  PROVE  /\ Sanitize(list) \in CallLists
         /\ \A c \in CallsIn(Sanitize(list)) : c \in CallsIn(list) /\ c.tool \notin OtherTools
<1>. DEFINE D == {i \in DOMAIN list : Visible(list[i].tool) /\ list[i].argsOk}
<1>1. D \in SUBSET DOMAIN list /\ Sanitize(list) = Keep(list, D)
  BY DEF Sanitize
<1>2. ASSUME NEW i \in D
      PROVE  list[i].tool \notin OtherTools
  BY PolicyAssumption DEF Visible, PolicyOf
<1>. QED
  BY <1>1, <1>2, KeepType DEF CallsIn

\* What the policy gate leaves is not blocked and comes from the list.
LEMMA FilterFacts ==
  ASSUME NEW list \in CallLists
  PROVE  /\ FilterExecutable(list) \in CallLists
         /\ \A c \in CallsIn(FilterExecutable(list)) :
              c \in CallsIn(list) /\ c.tool \notin OtherTools
<1>. DEFINE D == {i \in DOMAIN list : PolicyOf(list[i].tool) # "blocked"}
<1>1. D \in SUBSET DOMAIN list /\ FilterExecutable(list) = Keep(list, D)
  BY DEF FilterExecutable
<1>2. ASSUME NEW i \in D
      PROVE  list[i].tool \notin OtherTools
  BY PolicyAssumption DEF PolicyOf
<1>. QED
  BY <1>1, <1>2, KeepType DEF CallsIn

\* What the histories hold is never taken back.
LEMMA NodeInvGrows ==
  ASSUME NEW node, NEW v, NEW auth, NEW exec, NEW auth2, NEW exec2,
         auth \subseteq auth2, exec \subseteq exec2, NodeInv(node, v, auth, exec)
  PROVE  NodeInv(node, v, auth2, exec2)
BY DEF NodeInv, Cleared, Ran

LEMMA StreamInvGrows ==
  ASSUME NEW st, NEW auth, NEW exec, NEW auth2, NEW exec2,
         auth \subseteq auth2, exec \subseteq exec2, StreamInv(st, auth, exec)
  PROVE  StreamInv(st, auth2, exec2)
BY NodeInvGrows DEF StreamInv, Ran

\* A stream that enters a node.
LEMMA AtFacts ==
  ASSUME NEW node \in Nodes \union {"idle"}, NEW v \in Values,
         NEW answer \in Answers \union {NoAnswer}, NEW auth, NEW exec,
         NodeInv(node, v, auth, exec)
  PROVE  /\ StreamInv(At(node, v, answer), auth, exec)
         /\ At(node, v, answer) \in
              [pc : Nodes \union {"idle"}, vals : Values,
               answer : Answers \union {NoAnswer},
               todo : SUBSET Positions, failed : SUBSET CallIds]
BY CallsType DEF StreamInv, At, Ran, Values

LEMMA IdleFacts ==
  ASSUME NEW auth, NEW exec
  PROVE  /\ InitialState(0) \in Values
         /\ NodeInv("none", InitialState(0), auth, exec)
         /\ NodeInv("idle", InitialState(0), auth, exec)
         /\ StreamInv(Idle, auth, exec)
         /\ Idle \in [pc : Nodes \union {"idle"}, vals : Values,
                      answer : Answers \union {NoAnswer},
                      todo : SUBSET Positions, failed : SUBSET CallIds]
<1>1. InitialState(0) \in Values
  BY NothingType, BoundsAssumption DEF InitialState, Values, StopReasons
<1>2. NodeInv("none", InitialState(0), auth, exec) /\ NodeInv("idle", InitialState(0), auth, exec)
  BY DEF NodeInv, Nodes
<1>. QED
  BY <1>1, <1>2, AtFacts DEF Idle

-----------------------------------------------------------------------------
(* The edges of the graph.                                                   *)

LEMMA PolicyFacts ==
  ASSUME NEW t
  PROVE  /\ PolicyOf(t) = "read_only" => t \in ReadTools
         /\ PolicyOf(t) # "blocked" => t \notin OtherTools
         /\ t \in Tools /\ t \notin OtherTools => PolicyOf(t) # "blocked"
BY PolicyAssumption DEF PolicyOf, Tools

LEMMA RouteTypes ==
  ASSUME NEW v, NEW large
  PROVE  /\ RouteAfterClassify(v) \in {"finish", "summarize_result", "plan_actions"}
         /\ RouteAfterPlan(v) \in {"finish", "summarize_result", "review_tool_policy"}
         /\ RouteAfterPolicy(v) \in {"summarize_result", "execute_tools", "request_approval"}
         /\ RouteAfterApproval(v) \in {"execute_tools", "review_tool_policy", "summarize_result"}
         /\ RouteAfterExecute(v, large) \in {"review_results", "summarize_result"}
BY DEF RouteAfterClassify, RouteAfterPlan, RouteAfterPolicy, RouteAfterApproval, RouteAfterExecute

\* A state without approved calls may enter any node up to the gate, and end.
LEMMA ClassifyEdge ==
  ASSUME NEW v, NEW auth, NEW exec, v.run \in 1..MaxRuns, DOMAIN v.approved = {},
         ~v.attempted
  PROVE  NodeInv(RouteAfterClassify(v), v, auth, exec)
<1>1. RouteAfterClassify(v) \in {"finish", "summarize_result", "plan_actions"}
  BY RouteTypes
<1>. QED
  BY <1>1 DEF NodeInv, Ran

LEMMA PlanEdge ==
  ASSUME NEW v, NEW auth, NEW exec, v.run \in 1..MaxRuns, DOMAIN v.approved = {},
         ~v.attempted
  PROVE  NodeInv(RouteAfterPlan(v), v, auth, exec)
<1>1. RouteAfterPlan(v) \in {"finish", "summarize_result", "review_tool_policy"}
  BY RouteTypes
<1>. QED
  BY <1>1 DEF NodeInv, Ran

\* Behind the gate a list is empty, read-only, let through, or asked about.
LEMMA PolicyEdge ==
  ASSUME NEW v, NEW auth, NEW exec, v.run \in 1..MaxRuns, v.approved = v.proposed,
         v.attempted \in BOOLEAN,
         \A c \in CallsIn(v.proposed) : c.tool \notin OtherTools,
         v.attempted => Cleared(v, v.proposed, auth)
  PROVE  NodeInv(RouteAfterPolicy(v), v, auth, exec)
<1>1. CASE RouteAfterPolicy(v) = "summarize_result"
  <2>1. DOMAIN v.proposed = {}
    BY <1>1 DEF RouteAfterPolicy
  <2>. QED
    BY <1>1, <2>1 DEF NodeInv, Ran
<1>2. CASE RouteAfterPolicy(v) = "execute_tools"
  <2>1. AllReadOnly(v.proposed) \/ v.attempted
    BY <1>2 DEF RouteAfterPolicy
  <2>2. AllReadOnly(v.proposed) => Cleared(v, v.proposed, auth)
    BY PolicyFacts, PolicyAssumption DEF AllReadOnly, Cleared
  <2>. QED
    BY <1>2, <2>1, <2>2 DEF NodeInv
<1>3. CASE RouteAfterPolicy(v) = "request_approval"
  <2>1. ~v.attempted
    BY <1>3 DEF RouteAfterPolicy
  <2>. QED
    BY <1>3, <2>1 DEF NodeInv
<1>. QED
  BY <1>1, <1>2, <1>3, RouteTypes

\* An answer to a first request: approved calls may run, edited ones go back
\* to the gate as let through, a rejection ends the run.
LEMMA ApprovalEdge ==
  ASSUME NEW v \in Values, NEW answer \in Answers, NEW auth, NEW exec,
         v.run \in 1..MaxRuns, NodeInv("request_approval", v, auth, exec),
         [run : {v.run}, call : LetThrough(v, answer)] \subseteq auth
  PROVE  /\ Decided(v, answer) \in Values
         /\ NodeInv(RouteAfterApproval(Decided(v, answer)), Decided(v, answer), auth, exec)
<1>. DEFINE w == Decided(v, answer)
<1>1. /\ ~v.attempted
      /\ v.approved = v.proposed
      /\ \A c \in CallsIn(v.proposed) : c.tool \notin OtherTools
  BY DEF NodeInv
<1>2. \A c \in LetThrough(v, answer) : [run |-> v.run, call |-> c] \in auth
  OBVIOUS
<1>3. CASE answer.result = "approved"
  <2>1. w = [v EXCEPT !.decision = "approved", !.attempted = TRUE]
    BY <1>1, <1>3 DEF Decided
  <2>2. w \in Values /\ w.decision = "approved" /\ w.approved = v.approved /\ w.run = v.run
    BY <2>1 DEF Values
  <2>3. RouteAfterApproval(w) = "execute_tools"
    BY <2>2 DEF RouteAfterApproval
  <2>4. LetThrough(v, answer) = CallsIn(v.proposed)
    BY <1>1, <1>3 DEF LetThrough
  <2>5. Cleared(w, w.approved, auth)
    BY <1>1, <1>2, <2>2, <2>4 DEF Cleared
  <2>. QED
    BY <2>2, <2>3, <2>5 DEF NodeInv
<1>4. CASE answer.result = "edited"
  <2>1. w = [v EXCEPT !.decision = "edited", !.attempted = TRUE,
                      !.proposed = Sanitize(answer.edited), !.approved = Nothing]
    BY <1>1, <1>4 DEF Decided
  <2>2. answer.edited \in CallLists
    BY <1>4, ListsAssumption DEF Answers
  <2>3. /\ Sanitize(answer.edited) \in CallLists
        /\ \A c \in CallsIn(Sanitize(answer.edited)) :
             c \in CallsIn(answer.edited) /\ c.tool \notin OtherTools
    BY <2>2, SanitizeFacts
  <2>4. /\ w \in Values /\ w.decision = "edited" /\ w.run = v.run
        /\ w.proposed = Sanitize(answer.edited)
    BY <2>1, <2>3, NothingType DEF Values
  <2>5. RouteAfterApproval(w) = "review_tool_policy"
    BY <2>4 DEF RouteAfterApproval
  <2>6. LetThrough(v, answer) = CallsIn(answer.edited)
    BY <1>1, <1>4 DEF LetThrough
  <2>7. Cleared(w, w.proposed, auth)
    BY <1>2, <2>3, <2>4, <2>6 DEF Cleared
  <2>. QED
    BY <2>4, <2>5, <2>7 DEF NodeInv
<1>5. CASE answer.result = "rejected"
  <2>1. w = [v EXCEPT !.decision = answer.result, !.attempted = TRUE,
                      !.stop = "rejected", !.approved = Nothing]
    BY <1>1, <1>5 DEF Decided
  <2>2. w \in Values /\ w.decision = "rejected" /\ w.run = v.run /\ w.stop = "rejected"
    BY <1>5, <2>1, NothingType DEF Values, StopReasons
  <2>3. RouteAfterApproval(w) = "summarize_result"
    BY <2>2 DEF RouteAfterApproval
  <2>. QED
    BY <2>2, <2>3 DEF NodeInv
<1>. QED
  BY <1>3, <1>4, <1>5 DEF Answers

LEMMA ExecuteEdge ==
  ASSUME NEW v, NEW large, NEW auth, NEW exec, v.run \in 1..MaxRuns,
         Ran(v, DOMAIN v.approved, exec)
  PROVE  NodeInv(RouteAfterExecute(v, large), v, auth, exec)
<1>1. RouteAfterExecute(v, large) \in {"review_results", "summarize_result"}
  BY RouteTypes
<1>. QED
  BY <1>1 DEF NodeInv

-----------------------------------------------------------------------------
(* The invariant is inductive.                                               *)

SavedType == [next : Nodes \union {"none", "end"}, vals : Values, waits : BOOLEAN]
StreamType == [pc : Nodes \union {"idle"}, vals : Values,
               answer : Answers \union {NoAnswer},
               todo : SUBSET Positions, failed : SUBSET CallIds]

\* A node that ends with a state its successor may have keeps all places well.
LEMMA AdvanceKeeps ==
  ASSUME TypeOK, PlacesInv, NEW s \in Streams, NEW node \in Nodes, NEW v \in Values,
         Advance(s, node, v), authorised \subseteq authorised', executed \subseteq executed',
         NodeInv(node, v, authorised', executed')
  PROVE  /\ PlacesInv'
         /\ saved' \in SavedType
         /\ stream' \in [Streams -> StreamType]
<1>1. NoAnswer \in Answers \union {NoAnswer}
  OBVIOUS
<1>2. /\ StreamInv(At(node, v, NoAnswer), authorised', executed')
      /\ At(node, v, NoAnswer) \in StreamType
  BY <1>1, AtFacts DEF StreamType
<1>3. /\ saved' = [next |-> node, vals |-> v, waits |-> FALSE]
      /\ stream' = [stream EXCEPT ![s] = At(node, v, NoAnswer)]
      /\ saved' \in SavedType
  BY DEF Advance, Checkpoint, SavedType
<1>4. stream \in [Streams -> StreamType]
  BY DEF TypeOK, StreamType
<1>5. ASSUME NEW t \in Streams
      PROVE  StreamInv(stream'[t], authorised', executed')
  <2>1. StreamInv(stream[t], authorised, executed)
    BY DEF PlacesInv
  <2>2. StreamInv(stream[t], authorised', executed')
    BY <2>1, StreamInvGrows
  <2>. QED
    BY <1>2, <1>3, <1>4, <2>2
<1>6. NodeInv(saved'.next, saved'.vals, authorised', executed')
  BY <1>3
<1>7. PlacesInv'
  BY <1>5, <1>6 DEF PlacesInv
<1>8. stream' \in [Streams -> StreamType]
  BY <1>2, <1>3, <1>4
<1>. QED
  BY <1>3, <1>7, <1>8

\* What is known of a stream in a node.
LEMMA InNode ==
  ASSUME TypeOK, PlacesInv, NEW s \in Streams, stream[s].pc \in Nodes
  PROVE  /\ stream[s] \in StreamType
         /\ stream[s].vals \in Values
         /\ stream[s].vals.run \in 1..MaxRuns
         /\ NodeInv(stream[s].pc, stream[s].vals, authorised, executed)
<1>1. stream[s] \in StreamType
  BY DEF TypeOK, StreamType
<1>2. NodeInv(stream[s].pc, stream[s].vals, authorised, executed)
  BY DEF PlacesInv, StreamInv
<1>3. stream[s].vals.run \in 1..MaxRuns
  BY <1>2 DEF NodeInv
<1>. QED
  BY <1>1, <1>2, <1>3 DEF StreamType

\* Memory, histories and counters when a step leaves them alone.
LEMMA RestKept ==
  ASSUME TypeOK, ExecutedInv, SuccessWasRun,
         saved' \in SavedType,
         stream' \in [Streams -> StreamType],
         runs' \in 0..MaxRuns, resumes' \in 0..MaxResumes, careless' \in BOOLEAN,
         memory' \subseteq memory, UNCHANGED history
  PROVE  TypeOK' /\ ExecutedInv' /\ SuccessWasRun'
<1>1. TypeOK'
  BY DEF TypeOK, SavedType, StreamType, history
<1>2. ExecutedInv'
  BY DEF ExecutedInv, history
<1>3. SuccessWasRun'
  BY DEF SuccessWasRun, history
<1>. QED
  BY <1>1, <1>2, <1>3

\* A node that only moves the state on.
LEMMA NodeKeeps ==
  ASSUME IInv, NEW s \in Streams, NEW node \in Nodes, NEW v \in Values,
         Advance(s, node, v), NodeInv(node, v, authorised, executed),
         UNCHANGED <<runs, resumes, memory, history, careless>>
  PROVE  IInv'
<1>1. authorised' = authorised /\ executed' = executed
  BY DEF history
<1>2. /\ PlacesInv'
      /\ saved' \in SavedType
      /\ stream' \in [Streams -> StreamType]
  BY <1>1, AdvanceKeeps DEF IInv
<1>3. /\ runs' \in 0..MaxRuns /\ resumes' \in 0..MaxResumes /\ careless' \in BOOLEAN
      /\ memory' \subseteq memory /\ UNCHANGED history
  BY DEF IInv, TypeOK
<1>. QED
  BY <1>2, <1>3, RestKept DEF IInv

LEMMA InitInv == Init => IInv
<1>. SUFFICES ASSUME Init PROVE IInv
  OBVIOUS
<1>1. /\ saved = [next |-> "none", vals |-> InitialState(0), waits |-> FALSE]
      /\ stream = [s \in Streams |-> Idle]
  BY DEF Init, NoCheckpoint, Checkpoint
<1>2. PlacesInv
  BY <1>1, IdleFacts DEF PlacesInv
<1>3. saved \in SavedType
  BY <1>1, IdleFacts DEF SavedType
<1>4. stream \in [Streams -> StreamType]
  BY <1>1, IdleFacts DEF StreamType
<1>5. TypeOK
  <2>1. runs \in 0..MaxRuns /\ resumes \in 0..MaxResumes /\ asked \in [1..MaxRuns -> Nat]
    BY BoundsAssumption DEF Init
  <2>2. memory = {} /\ authorised = {} /\ executed = {} /\ careless \in BOOLEAN
    BY DEF Init
  <2>. QED
    BY <1>3, <1>4, <2>1, <2>2 DEF TypeOK, SavedType, StreamType
<1>. QED
  BY <1>2, <1>5 DEF Init, IInv, ExecutedInv, SuccessWasRun

LEMMA RunInv == ASSUME IInv, NEW s \in Streams, Run(s) PROVE IInv'
<1>. DEFINE v == InitialState(runs + 1)
<1>1. v \in Values /\ v.run \in 1..MaxRuns
  BY NothingType, BoundsAssumption DEF IInv, TypeOK, Run, InitialState, Values, StopReasons
<1>2. NodeInv("ingest_request", v, authorised, executed)
  BY <1>1 DEF NodeInv
<1>3. /\ PlacesInv'
      /\ saved' \in SavedType
      /\ stream' \in [Streams -> StreamType]
  <2>1. Advance(s, "ingest_request", v) /\ authorised' = authorised /\ executed' = executed
    BY DEF Run, history
  <2>2. "ingest_request" \in Nodes
    BY DEF Nodes
  <2>. QED
    BY <1>1, <1>2, <2>1, <2>2, AdvanceKeeps DEF IInv
<1>4. runs' \in 0..MaxRuns /\ careless' \in BOOLEAN
  BY BoundsAssumption DEF IInv, TypeOK, Run, Busy
<1>5. resumes' \in 0..MaxResumes /\ memory' \subseteq memory /\ UNCHANGED history
  BY DEF IInv, TypeOK, Run
<1>. QED
  BY <1>3, <1>4, <1>5, RestKept DEF IInv

LEMMA ResumeInv == ASSUME IInv, NEW s \in Streams, Resume(s) PROVE IInv'
<1>1. PICK answer \in Answers : stream' = [stream EXCEPT ![s] = At(saved.next, saved.vals, answer)]
  BY DEF Resume
<1>2. /\ saved.next \in Nodes /\ saved.vals \in Values /\ saved' = saved
      /\ NodeInv(saved.next, saved.vals, authorised, executed)
      /\ stream \in [Streams -> StreamType]
  BY DEF IInv, TypeOK, PlacesInv, Resume, StreamType
<1>3. /\ StreamInv(At(saved.next, saved.vals, answer), authorised, executed)
      /\ At(saved.next, saved.vals, answer) \in StreamType
  BY <1>2, AtFacts DEF StreamType
<1>4. stream' \in [Streams -> StreamType]
  BY <1>1, <1>2, <1>3
<1>5. /\ UNCHANGED history /\ authorised' = authorised /\ executed' = executed
      /\ memory' \subseteq memory /\ runs' \in 0..MaxRuns
  BY DEF Resume, history, IInv, TypeOK
<1>6. PlacesInv'
  <2>1. ASSUME NEW t \in Streams
        PROVE  StreamInv(stream'[t], authorised', executed')
    <3>1. StreamInv(stream[t], authorised, executed)
      BY DEF IInv, PlacesInv
    <3>. QED
      BY <1>1, <1>2, <1>3, <1>5, <3>1
  <2>. QED
    BY <1>2, <1>5, <2>1 DEF PlacesInv
<1>7. resumes' \in 0..MaxResumes /\ careless' \in BOOLEAN
  BY BoundsAssumption DEF IInv, TypeOK, Resume, Busy
<1>8. saved' \in SavedType
  BY <1>2 DEF IInv, TypeOK, SavedType
<1>. QED
  BY <1>4, <1>5, <1>6, <1>7, <1>8, RestKept DEF IInv

\* A stream that stops, and a checkpoint that names the same node as before or
\* none at all.
LEMMA StopKeeps ==
  ASSUME IInv, stream' \in [Streams -> {Idle} \union StreamType],
         \A t \in Streams : stream'[t] \in {Idle, stream[t]},
         \/ /\ saved' \in SavedType
            /\ saved'.next = saved.next /\ saved'.vals = saved.vals
         \/ saved' = NoCheckpoint,
         authorised' = authorised, executed' = executed
  PROVE  /\ PlacesInv'
         /\ saved' \in SavedType
         /\ stream' \in [Streams -> StreamType]
<1>1. Idle \in StreamType /\ StreamInv(Idle, authorised, executed)
  BY IdleFacts DEF StreamType
<1>2. /\ NoCheckpoint = [next |-> "none", vals |-> InitialState(0), waits |-> FALSE]
      /\ InitialState(0) \in Values
      /\ NodeInv("none", InitialState(0), authorised, executed)
  BY IdleFacts DEF NoCheckpoint, Checkpoint
<1>3. \A t \in Streams : StreamInv(stream'[t], authorised', executed')
  BY <1>1 DEF IInv, PlacesInv
<1>4. NodeInv(saved'.next, saved'.vals, authorised', executed')
  BY <1>2 DEF IInv, PlacesInv
<1>5. NoCheckpoint \in SavedType
  BY <1>2 DEF SavedType
<1>. QED
  BY <1>1, <1>3, <1>4, <1>5 DEF PlacesInv

LEMMA BreakInv == ASSUME IInv, NEW s \in Streams, Break(s) PROVE IInv'
<1>1. /\ stream' \in [Streams -> {Idle} \union StreamType]
      /\ \A t \in Streams : stream'[t] \in {Idle, stream[t]}
  BY DEF IInv, TypeOK, StreamType, Break
<1>2. saved' = saved /\ saved \in SavedType
  BY DEF IInv, TypeOK, SavedType, Break
<1>3. /\ UNCHANGED history /\ authorised' = authorised /\ executed' = executed
      /\ memory' \subseteq memory /\ runs' \in 0..MaxRuns /\ resumes' \in 0..MaxResumes
      /\ careless' \in BOOLEAN
  BY DEF Break, history, IInv, TypeOK
<1>4. PlacesInv' /\ saved' \in SavedType /\ stream' \in [Streams -> StreamType]
  BY <1>1, <1>2, <1>3, StopKeeps
<1>. QED
  BY <1>3, <1>4, RestKept DEF IInv

LEMMA RestartInv == ASSUME IInv, Restart PROVE IInv'
<1>1. /\ stream' \in [Streams -> {Idle} \union StreamType]
      /\ \A t \in Streams : stream'[t] \in {Idle, stream[t]}
  BY DEF Restart
<1>2. saved \in SavedType /\ saved' \in {saved, NoCheckpoint}
  BY DEF IInv, TypeOK, SavedType, Restart
<1>3. /\ UNCHANGED history /\ authorised' = authorised /\ executed' = executed
      /\ memory' \subseteq memory /\ runs' \in 0..MaxRuns /\ resumes' \in 0..MaxResumes
      /\ careless' \in BOOLEAN
  BY DEF Restart, history, IInv, TypeOK
<1>4. PlacesInv' /\ saved' \in SavedType /\ stream' \in [Streams -> StreamType]
  BY <1>1, <1>2, <1>3, StopKeeps
<1>. QED
  BY <1>3, <1>4, RestKept DEF IInv

LEMMA IngestInv == ASSUME IInv, NEW s \in Streams, Ingest(s) PROVE IInv'
<1>. DEFINE u == stream[s].vals
            v == [u EXCEPT !.proposed = Nothing, !.approved = Nothing, !.attempted = FALSE]
<1>1. u \in Values /\ u.run \in 1..MaxRuns
  BY InNode DEF IInv, Ingest, Nodes
<1>2. v \in Values /\ v.run \in 1..MaxRuns /\ DOMAIN v.approved = {} /\ ~v.attempted
  BY <1>1, NothingType DEF Values
<1>3. NodeInv("classify_goal", v, authorised, executed) /\ "classify_goal" \in Nodes
  BY <1>2 DEF NodeInv, Nodes
<1>4. Advance(s, "classify_goal", v) /\ UNCHANGED <<runs, resumes, memory, history, careless>>
  BY DEF Ingest
<1>. QED
  BY <1>2, <1>3, <1>4, NodeKeeps

LEMMA ClassifyInv == ASSUME IInv, NEW s \in Streams, Classify(s) PROVE IInv'
<1>. DEFINE u == stream[s].vals
<1>1. u \in Values /\ u.run \in 1..MaxRuns /\ DOMAIN u.approved = {} /\ ~u.attempted
  BY InNode DEF IInv, Classify, Nodes, NodeInv
<1>2. PICK stop \in {"llm_failed", "blocked", "responded", u.stop} :
        Advance(s, RouteAfterClassify([u EXCEPT !.stop = stop]), [u EXCEPT !.stop = stop])
  BY DEF Classify
<1>. DEFINE v == [u EXCEPT !.stop = stop]
<1>3. v \in Values /\ v.run \in 1..MaxRuns /\ DOMAIN v.approved = {} /\ ~v.attempted
  BY <1>1 DEF Values, StopReasons
<1>4. NodeInv(RouteAfterClassify(v), v, authorised, executed) /\ RouteAfterClassify(v) \in Nodes
  BY <1>3, ClassifyEdge, RouteTypes DEF Nodes
<1>5. UNCHANGED <<runs, resumes, memory, history, careless>>
  BY DEF Classify
<1>. QED
  BY <1>2, <1>3, <1>4, <1>5, NodeKeeps

LEMMA PlanInv == ASSUME IInv, NEW s \in Streams, Plan(s) PROVE IInv'
<1>. DEFINE u == stream[s].vals
            Moves(v) == Advance(s, RouteAfterPlan(v), v)
<1>1. u \in Values /\ u.run \in 1..MaxRuns /\ DOMAIN u.approved = {} /\ ~u.attempted
  BY InNode DEF IInv, Plan, Nodes, NodeInv
<1>2. PICK v : /\ Moves(v)
               /\ \/ v = [u EXCEPT !.stop = "llm_failed"]
                  \/ \E plan \in Plans \union {Nothing} :
                       v = [u EXCEPT !.proposed = Sanitize(plan)]
  BY DEF Plan
<1>3. \A plan \in Plans \union {Nothing} : Sanitize(plan) \in CallLists
  BY SanitizeFacts, NothingType, ListsAssumption
<1>4. v \in Values /\ v.run \in 1..MaxRuns /\ DOMAIN v.approved = {} /\ ~v.attempted
  BY <1>1, <1>2, <1>3 DEF Values, StopReasons
<1>5. NodeInv(RouteAfterPlan(v), v, authorised, executed) /\ RouteAfterPlan(v) \in Nodes
  BY <1>4, PlanEdge, RouteTypes DEF Nodes
<1>6. UNCHANGED <<runs, resumes, memory, history, careless>>
  BY DEF Plan
<1>. QED
  BY <1>2, <1>4, <1>5, <1>6, NodeKeeps

LEMMA ReviewPolicyInv == ASSUME IInv, NEW s \in Streams, ReviewPolicy(s) PROVE IInv'
<1>. DEFINE u == stream[s].vals
            list == FilterExecutable(u.proposed)
            v == [u EXCEPT !.proposed = list, !.approved = list]
<1>1. /\ u \in Values /\ u.run \in 1..MaxRuns
      /\ u.attempted => Cleared(u, u.proposed, authorised)
  BY InNode DEF IInv, ReviewPolicy, Nodes, NodeInv
<1>2. /\ list \in CallLists
      /\ \A c \in CallsIn(list) : c \in CallsIn(u.proposed) /\ c.tool \notin OtherTools
  BY <1>1, FilterFacts DEF Values
<1>3. /\ v \in Values /\ v.run = u.run /\ v.attempted = u.attempted
      /\ v.approved = list /\ v.proposed = list
  BY <1>1, <1>2 DEF Values
<1>4. v.attempted => Cleared(v, v.proposed, authorised)
  BY <1>1, <1>2, <1>3 DEF Cleared
<1>5. v.attempted \in BOOLEAN /\ v.run \in 1..MaxRuns
  BY <1>1, <1>3 DEF Values
<1>6. NodeInv(RouteAfterPolicy(v), v, authorised, executed)
  BY <1>2, <1>3, <1>4, <1>5, PolicyEdge
<1>7. RouteAfterPolicy(v) \in Nodes
  BY RouteTypes DEF Nodes
<1>8. Advance(s, RouteAfterPolicy(v), v) /\ UNCHANGED <<runs, resumes, memory, history, careless>>
  BY DEF ReviewPolicy
<1>. QED
  BY <1>3, <1>6, <1>7, <1>8, NodeKeeps

LEMMA AskInv == ASSUME IInv, NEW s \in Streams, Ask(s) PROVE IInv'
<1>1. /\ stream' \in [Streams -> {Idle} \union StreamType]
      /\ \A t \in Streams : stream'[t] \in {Idle, stream[t]}
  BY DEF IInv, TypeOK, StreamType, Ask
<1>2. saved \in SavedType /\ saved.waits \in BOOLEAN
  BY DEF IInv, TypeOK, SavedType
<1>3. PICK w \in BOOLEAN : saved' = [saved EXCEPT !.waits = w]
  BY <1>2 DEF Ask
<1>4. saved' \in SavedType /\ saved'.next = saved.next /\ saved'.vals = saved.vals
  BY <1>2, <1>3 DEF SavedType
<1>5. authorised' = authorised /\ executed' = executed /\ memory' = memory
  BY DEF Ask
<1>6. PlacesInv' /\ saved' \in SavedType /\ stream' \in [Streams -> StreamType]
  BY <1>1, <1>4, <1>5, StopKeeps
<1>7. asked' \in [1..MaxRuns -> Nat]
  BY InNode DEF IInv, TypeOK, Ask, Nodes
<1>8. TypeOK'
  BY <1>5, <1>6, <1>7 DEF IInv, TypeOK, Ask, SavedType, StreamType
<1>. QED
  BY <1>5, <1>6, <1>8 DEF IInv, ExecutedInv, SuccessWasRun

LEMMA DecideInv == ASSUME IInv, NEW s \in Streams, Decide(s) PROVE IInv'
<1>. DEFINE u == stream[s].vals
            answer == stream[s].answer
            v == Decided(u, answer)
<1>1. /\ u \in Values /\ u.run \in 1..MaxRuns /\ stream[s] \in StreamType
      /\ NodeInv("request_approval", u, authorised, executed)
  BY InNode DEF IInv, Decide, Nodes
<1>2. ~u.attempted
  BY <1>1 DEF NodeInv
<1>3. answer \in Answers
  BY <1>1, <1>2 DEF Decide, StreamType
<1>4. /\ authorised' = authorised \union [run : {u.run}, call : LetThrough(u, answer)]
      /\ executed' = executed /\ memory' = memory
      /\ Advance(s, RouteAfterApproval(v), v)
  BY DEF Decide
<1>5. NodeInv("request_approval", u, authorised', executed')
  BY <1>1, <1>4, NodeInvGrows
<1>6. v \in Values /\ NodeInv(RouteAfterApproval(v), v, authorised', executed')
  BY <1>1, <1>3, <1>4, <1>5, ApprovalEdge
<1>7. RouteAfterApproval(v) \in Nodes
  BY RouteTypes DEF Nodes
<1>8. PlacesInv' /\ saved' \in SavedType /\ stream' \in [Streams -> StreamType]
  BY <1>4, <1>6, <1>7, AdvanceKeeps DEF IInv
<1>9. LetThrough(u, answer) \subseteq Call
  <2>1. CallsIn(u.proposed) \subseteq Call
    BY <1>1, CallsType DEF Values
  <2>2. answer.result = "edited" => CallsIn(answer.edited) \subseteq Call
    <3>1. answer.result = "edited" => answer.edited \in CallLists
      BY <1>3, ListsAssumption DEF Answers
    <3>. QED
      BY <3>1, CallsType
  <2>. QED
    BY <2>1, <2>2 DEF LetThrough
<1>10. authorised' \subseteq [run : 1..MaxRuns, call : Call]
  BY <1>1, <1>4, <1>9 DEF IInv, TypeOK
<1>11. TypeOK'
  BY <1>4, <1>8, <1>10 DEF IInv, TypeOK, Decide, SavedType, StreamType
<1>. QED
  BY <1>4, <1>8, <1>11 DEF IInv, ExecutedInv, SuccessWasRun

\* The call that runs is one the gate has cleared; the others wait for their turn.
LEMMA ExecuteToolInv == ASSUME IInv, NEW s \in Streams, ExecuteTool(s) PROVE IInv'
<1>. DEFINE st == stream[s]
            u == stream[s].vals
<1>1. /\ u \in Values /\ u.run \in 1..MaxRuns /\ st \in StreamType
      /\ Cleared(u, u.approved, authorised)
  BY InNode DEF IInv, ExecuteTool, Nodes, NodeInv
<1>2. /\ st.pc = "execute_tools" /\ StreamInv(st, authorised, executed)
      /\ st.todo \subseteq DOMAIN u.approved
      /\ Ran(u, DOMAIN u.approved \ st.todo, executed)
  BY DEF IInv, PlacesInv, StreamInv, ExecuteTool
<1>3. PICK i \in st.todo, ok \in BOOLEAN :
        /\ executed' = IF PolicyOf(u.approved[i].tool) # "blocked"
                       THEN executed \union {[run |-> u.run, pos |-> i, call |-> u.approved[i]]}
                       ELSE executed
        /\ stream' = [stream EXCEPT ![s].todo = @ \ {i},
                                    ![s].failed = IF ok THEN @ \ {u.approved[i].id}
                                                        ELSE @ \union {u.approved[i].id}]
  BY DEF ExecuteTool
<1>. DEFINE call == u.approved[i]
            e == [run |-> u.run, pos |-> i, call |-> call]
<1>4. call \in CallsIn(u.approved) /\ call \in Call /\ i \in Positions
  BY <1>1, <1>2, CallsType DEF CallsIn, Values
<1>5. /\ call.tool \notin OtherTools
      /\ call.tool \in WriteTools => [run |-> u.run, call |-> call] \in authorised
  BY <1>1, <1>4 DEF Cleared
<1>6. executed' = executed \union {e}
  BY <1>3, <1>4, <1>5, PolicyFacts DEF Call
<1>7. /\ saved' = saved /\ runs' = runs /\ resumes' = resumes /\ memory' = memory
      /\ asked' = asked /\ authorised' = authorised /\ careless' = careless
  BY DEF ExecuteTool
<1>8. stream \in [Streams -> StreamType]
  BY DEF IInv, TypeOK, StreamType
<1>9. /\ stream' \in [Streams -> StreamType]
      /\ stream'[s].pc = st.pc /\ stream'[s].vals = u
      /\ stream'[s].todo = st.todo \ {i}
      /\ \A t \in Streams \ {s} : stream'[t] = stream[t]
  <2>. DEFINE failed2 == IF ok THEN st.failed \ {call.id} ELSE st.failed \union {call.id}
              st2 == [st EXCEPT !.todo = st.todo \ {i}, !.failed = failed2]
  <2>1. stream' = [stream EXCEPT ![s] = st2]
    BY <1>3, <1>8
  <2>2. failed2 \in SUBSET CallIds
    BY <1>1, <1>4 DEF StreamType, Call
  <2>3. st2 \in StreamType /\ st2.pc = st.pc /\ st2.vals = u /\ st2.todo = st.todo \ {i}
    BY <1>1, <2>2 DEF StreamType
  <2>. QED
    BY <1>8, <2>1, <2>3
<1>10. PlacesInv'
  <2>1. NodeInv(saved'.next, saved'.vals, authorised', executed')
    BY <1>6, <1>7, NodeInvGrows DEF IInv, PlacesInv
  <2>2. ASSUME NEW t \in Streams \ {s}
        PROVE  StreamInv(stream'[t], authorised', executed')
    BY <1>6, <1>7, <1>9, StreamInvGrows DEF IInv, PlacesInv
  <2>3. StreamInv(stream'[s], authorised', executed')
    <3>1. NodeInv(stream'[s].pc, u, authorised', executed')
      BY <1>2, <1>6, <1>7, <1>9, NodeInvGrows DEF StreamInv
    <3>2. Ran(u, DOMAIN u.approved \ (st.todo \ {i}), executed')
      BY <1>2, <1>6 DEF Ran
    <3>. QED
      BY <1>2, <1>9, <3>1, <3>2 DEF StreamInv
  <2>. QED
    BY <2>1, <2>2, <2>3 DEF PlacesInv
<1>11. e \in [run : 1..MaxRuns, pos : Positions, call : Call]
  BY <1>1, <1>4
<1>12. TypeOK'
  BY <1>6, <1>7, <1>9, <1>11 DEF IInv, TypeOK, StreamType
<1>13. ExecutedInv'
  <2>1. e.call = call /\ e.run = u.run
    OBVIOUS
  <2>2. ExecutedInv
    BY DEF IInv
  <2>. QED
    BY <1>5, <1>6, <1>7, <2>1, <2>2 DEF ExecutedInv
<1>14. SuccessWasRun'
  BY <1>6, <1>7 DEF IInv, SuccessWasRun
<1>. QED
  BY <1>10, <1>12, <1>13, <1>14 DEF IInv

LEMMA ExecuteDoneInv == ASSUME IInv, NEW s \in Streams, ExecuteDone(s) PROVE IInv'
<1>. DEFINE u == stream[s].vals
            v == [u EXCEPT !.failed = stream[s].failed]
<1>1. u \in Values /\ u.run \in 1..MaxRuns /\ stream[s] \in StreamType
  BY InNode DEF IInv, ExecuteDone, Nodes
<1>2. Ran(u, DOMAIN u.approved \ stream[s].todo, executed) /\ stream[s].todo = {}
  BY DEF IInv, PlacesInv, StreamInv, ExecuteDone
<1>3. v \in Values /\ v.run = u.run /\ v.approved = u.approved
  BY <1>1 DEF Values, StreamType
<1>4. Ran(v, DOMAIN v.approved, executed)
  BY <1>2, <1>3 DEF Ran
<1>5. PICK large \in BOOLEAN : Advance(s, RouteAfterExecute(v, large), v)
  BY DEF ExecuteDone
<1>6. /\ NodeInv(RouteAfterExecute(v, large), v, authorised, executed)
      /\ RouteAfterExecute(v, large) \in Nodes
  BY <1>1, <1>3, <1>4, ExecuteEdge, RouteTypes DEF Nodes
<1>7. UNCHANGED <<runs, resumes, memory, history, careless>>
  BY DEF ExecuteDone
<1>. QED
  BY <1>3, <1>5, <1>6, <1>7, NodeKeeps

LEMMA ReviewResultsInv == ASSUME IInv, NEW s \in Streams, ReviewResults(s) PROVE IInv'
<1>1. /\ stream[s].vals \in Values /\ stream[s].vals.run \in 1..MaxRuns
      /\ NodeInv("summarize_result", stream[s].vals, authorised, executed)
  BY InNode DEF IInv, ReviewResults, Nodes, NodeInv
<1>2. "summarize_result" \in Nodes
  BY DEF Nodes
<1>. QED
  BY <1>1, <1>2, NodeKeeps DEF ReviewResults

LEMMA SummarizeInv == ASSUME IInv, NEW s \in Streams, Summarize(s) PROVE IInv'
<1>1. /\ stream[s].vals \in Values /\ stream[s].vals.run \in 1..MaxRuns
      /\ NodeInv("finish", stream[s].vals, authorised, executed)
  BY InNode DEF IInv, Summarize, Nodes, NodeInv
<1>2. "finish" \in Nodes
  BY DEF Nodes
<1>. QED
  BY <1>1, <1>2, NodeKeeps DEF Summarize

\* A success is recorded for a run that was not stopped, so its calls have run.
LEMMA FinishInv == ASSUME IInv, NEW s \in Streams, Finish(s) PROVE IInv'
<1>. DEFINE u == stream[s].vals
            v == [u EXCEPT !.stop = FinalStop(u)]
            summary == [run |-> u.run, outcome |-> Outcome(u), calls |-> u.approved]
<1>1. /\ u \in Values /\ u.run \in 1..MaxRuns
      /\ u.stop \in {"none", "responded", "done"} => Ran(u, DOMAIN u.approved, executed)
  BY InNode DEF IInv, Finish, Nodes, NodeInv
<1>2. FinalStop(u) \in {"done", "rejected", "blocked", "llm_failed"}
  BY <1>1 DEF FinalStop, Values, StopReasons
<1>3. Outcome(u) \in {"success", "done", "rejected", "blocked", "llm_failed"}
  BY <1>2 DEF Outcome
<1>4. v \in Values
  BY <1>1, <1>2 DEF Values, StopReasons
<1>5. /\ stream' = [stream EXCEPT ![s] = Idle]
      /\ saved' = [next |-> "end", vals |-> v, waits |-> FALSE]
      /\ memory' \in {memory, memory \union {summary}}
      /\ runs' = runs /\ resumes' = resumes /\ careless' = careless
      /\ asked' = asked /\ authorised' = authorised /\ executed' = executed
  BY DEF Finish, Checkpoint, history
<1>6. stream \in [Streams -> StreamType] /\ Idle \in StreamType
  BY IdleFacts DEF IInv, TypeOK, StreamType
<1>7. saved' \in SavedType /\ stream' \in [Streams -> StreamType]
  BY <1>4, <1>5, <1>6 DEF SavedType
<1>8. PlacesInv'
  <2>1. NodeInv(saved'.next, saved'.vals, authorised', executed')
    BY <1>5 DEF NodeInv, Nodes
  <2>2. \A t \in Streams : StreamInv(stream'[t], authorised', executed')
    BY <1>5, <1>6, IdleFacts DEF IInv, PlacesInv
  <2>. QED
    BY <2>1, <2>2 DEF PlacesInv
<1>9. summary \in [run : 1..MaxRuns, calls : CallLists,
                   outcome : {"success", "done", "rejected", "blocked", "llm_failed"}]
  BY <1>1, <1>3 DEF Values
<1>10. TypeOK'
  BY <1>5, <1>7, <1>9 DEF IInv, TypeOK, SavedType, StreamType
<1>11. SuccessWasRun'
  <2>1. summary.outcome = "success" => Ran(u, DOMAIN u.approved, executed)
    BY <1>1, <1>2 DEF Outcome, FinalStop, Values, StopReasons
  <2>. QED
    BY <1>5, <2>1 DEF IInv, SuccessWasRun, Ran
<1>12. ExecutedInv'
  BY <1>5 DEF IInv, ExecutedInv
<1>. QED
  BY <1>8, <1>10, <1>11, <1>12 DEF IInv

-----------------------------------------------------------------------------
(* The theorems.                                                             *)

LEMMA StutterInv == ASSUME IInv, UNCHANGED vars PROVE IInv'
BY DEF IInv, TypeOK, PlacesInv, ExecutedInv, SuccessWasRun, vars

LEMMA StepInv == ASSUME IInv, [Next]_vars PROVE IInv'
<1>1. CASE UNCHANGED vars
  BY <1>1, StutterInv
<1>2. CASE Restart
  BY <1>2, RestartInv
<1>3. ASSUME NEW s \in Streams, Step(s)
      PROVE  IInv'
  BY <1>3, RunInv, ResumeInv, BreakInv, IngestInv, ClassifyInv, PlanInv, ReviewPolicyInv,
     AskInv, DecideInv, ExecuteToolInv, ExecuteDoneInv, ReviewResultsInv, SummarizeInv,
     FinishInv DEF Step
<1>. QED
  BY <1>1, <1>2, <1>3 DEF Next

\* Any number of runs, decisions, broken streams and restarts keep the invariant.
THEOREM GateInvariant == Spec => []IInv
BY InitInv, StepInv, PTL DEF Spec

\* Every state of a run, wherever it is kept, has the types of state.py, and
\* every summary has one of the outcomes that finish_node records.
THEOREM TypeCorrect == Spec => []TypeOK
<1>1. IInv => TypeOK
  BY DEF IInv
<1>. QED
  BY <1>1, GateInvariant, PTL

\* No tool that the policy blocks or does not know reaches the executor
\* (nodes_approval_execution.py, operator_copilot_policy.py).
THEOREM NoBlockedToolRuns == Spec => []BlockedNeverRuns
<1>1. ASSUME IInv
      PROVE  BlockedNeverRuns
  <2>1. ASSUME NEW s \in Streams, NEW i \in stream[s].todo
        PROVE  stream[s].vals.approved[i].tool \notin OtherTools
    <3>1. /\ StreamInv(stream[s], authorised, executed)
          /\ stream[s].pc = "execute_tools" /\ i \in DOMAIN stream[s].vals.approved
      BY <1>1 DEF IInv, PlacesInv, StreamInv
    <3>. QED
      BY <3>1 DEF StreamInv, NodeInv, Cleared, CallsIn
  <2>2. \A e \in executed : e.call.tool \notin OtherTools
    BY <1>1 DEF IInv, ExecutedInv
  <2>. QED
    BY <2>1, <2>2 DEF BlockedNeverRuns
<1>. QED
  BY <1>1, GateInvariant, PTL

\* A write-sensitive call that has run was let through by an answer of the
\* operator in the same run, whatever interleaving of POSTs led to it.
THEOREM WritesDecided == Spec => []WritesAreDecided
<1>1. IInv => WritesAreDecided
  BY DEF IInv, ExecutedInv, WritesAreDecided
<1>. QED
  BY <1>1, GateInvariant, PTL

\* A summary in memory that says "success" names calls that have run.
THEOREM SuccessIsOfRunCalls == Spec => []SuccessWasRun
<1>1. IInv => SuccessWasRun
  BY DEF IInv
<1>. QED
  BY <1>1, GateInvariant, PTL
-----------------------------------------------------------------------------
(* A careful client: one POST at a time, decisions when one is asked for.    *)

\* Nothing a run executes comes before these nodes.
BeforeTools ==
  {"ingest_request", "classify_goal", "plan_actions", "review_tool_policy", "request_approval"}

\* What ran, and what is kept, belongs to a run that was started.
NumberedInv ==
  /\ saved.vals.run <= runs
  /\ \A s \in Streams : stream[s].vals.run <= runs
  /\ \A e \in executed : e.run <= runs

\* The one stream of a careful client is where the checkpoint is, what waits is a
\* question, and the calls of the run that have been made are among those the
\* checkpoint holds approved, and are not still to be made.
CarefulInv ==
  ~careless =>
    /\ \A s, t \in Streams : stream[s].pc # "idle" /\ stream[t].pc # "idle" => s = t
    /\ \A s \in Streams : stream[s].pc # "idle" =>
         stream[s].pc = saved.next /\ stream[s].vals = saved.vals
    /\ saved.waits => saved.next = "request_approval"
    /\ \A e \in executed : e.run = saved.vals.run =>
         /\ saved.next \notin BeforeTools
         /\ e.pos \in DOMAIN saved.vals.approved
         /\ saved.vals.approved[e.pos] = e.call
         /\ \A s \in Streams : e.pos \notin stream[s].todo

Client == NumberedInv /\ CarefulInv

\* The types of what the argument looks at.
LEMMA ClientTypes ==
  ASSUME IInv
  PROVE  /\ saved \in SavedType /\ stream \in [Streams -> StreamType]
         /\ runs \in Nat /\ careless \in BOOLEAN
         /\ saved.vals.run \in Nat
         /\ \A s \in Streams : stream[s].vals.run \in Nat
         /\ \A e \in executed : e.run \in Nat /\ e.run >= 1
         /\ \A s \in Streams : stream[s].todo # {} => stream[s].pc = "execute_tools"
<1>1. saved \in SavedType /\ stream \in [Streams -> StreamType]
  BY DEF IInv, TypeOK, SavedType, StreamType
<1>2. runs \in Nat /\ careless \in BOOLEAN
  BY BoundsAssumption DEF IInv, TypeOK
<1>3. saved.vals \in Values /\ \A s \in Streams : stream[s].vals \in Values
  BY <1>1 DEF SavedType, StreamType
<1>4. ASSUME NEW v \in Values  PROVE v.run \in Nat
  BY BoundsAssumption DEF Values
<1>5. \A e \in executed : e.run \in Nat /\ e.run >= 1
  BY BoundsAssumption DEF IInv, TypeOK
<1>6. \A s \in Streams : stream[s].todo # {} => stream[s].pc = "execute_tools"
  BY DEF IInv, PlacesInv, StreamInv
<1>. QED
  BY <1>1, <1>2, <1>3, <1>4, <1>5, <1>6

\* What enters a node has its own list of calls still to make.
LEMMA AtFields ==
  ASSUME NEW node, NEW v, NEW answer
  PROVE  /\ At(node, v, answer).pc = node /\ At(node, v, answer).vals = v
         /\ At(node, v, answer).todo = IF node = "execute_tools" THEN DOMAIN v.approved ELSE {}
BY DEF At

LEMMA IdleFields == Idle.pc = "idle" /\ Idle.vals.run = 0 /\ Idle.todo = {}
BY DEF Idle, At, InitialState

\* A node that ends moves stream and checkpoint together. It may change the list of
\* approved calls as long as none of them has run, and does not go back to before them.
LEMMA ClientAdvances ==
  ASSUME IInv, Client, NEW s \in Streams, NEW node, NEW v,
         Advance(s, node, v), stream[s].pc # "idle",
         v.run = stream[s].vals.run,
         \/ stream[s].pc \in BeforeTools
         \/ v.approved = stream[s].vals.approved /\ node \notin BeforeTools \union {"execute_tools"},
         UNCHANGED <<runs, executed, careless>>
  PROVE  Client'
<1>1. /\ stream' = [stream EXCEPT ![s] = At(node, v, NoAnswer)]
      /\ saved' = [next |-> node, vals |-> v, waits |-> FALSE]
  BY DEF Advance, Checkpoint
<1>2. stream \in [Streams -> StreamType]
  BY ClientTypes
<1>3. /\ stream'[s].pc = node /\ stream'[s].vals = v
      /\ stream'[s].todo = IF node = "execute_tools" THEN DOMAIN v.approved ELSE {}
      /\ \A t \in Streams \ {s} : stream'[t] = stream[t]
  BY <1>1, <1>2, AtFields
<1>4. NumberedInv'
  BY <1>1, <1>3 DEF Client, NumberedInv
<1>5. ASSUME ~careless
      PROVE  /\ \A t \in Streams \ {s} : stream[t].pc = "idle" /\ stream[t].todo = {}
             /\ stream[s].pc = saved.next /\ stream[s].vals = saved.vals
  BY <1>5, ClientTypes DEF Client, CarefulInv
<1>6. ASSUME ~careless, NEW e \in executed, e.run = v.run
      PROVE  /\ node \notin BeforeTools
             /\ e.pos \in DOMAIN v.approved
             /\ v.approved[e.pos] = e.call
             /\ \A t \in Streams : e.pos \notin stream'[t].todo
  BY <1>3, <1>5, <1>6 DEF Client, CarefulInv
<1>7. CarefulInv'
  BY <1>1, <1>3, <1>5, <1>6 DEF CarefulInv
<1>. QED
  BY <1>4, <1>7 DEF Client

\* A stream that ends, be it at a question, cut off, or with the server.
LEMMA ClientStops ==
  ASSUME IInv, Client,
         \A t \in Streams : stream'[t] \in {Idle, stream[t]},
         \/ /\ saved'.next = saved.next /\ saved'.vals = saved.vals
            /\ saved'.waits => saved.waits \/ saved.next = "request_approval"
         \/ saved' = NoCheckpoint /\ \A t \in Streams : stream'[t] = Idle,
         UNCHANGED <<runs, executed, careless>>
  PROVE  Client'
<1>1. NoCheckpoint.vals.run = 0 /\ NoCheckpoint.waits = FALSE
  BY DEF NoCheckpoint, Checkpoint, InitialState
<1>2. \A t \in Streams : stream'[t] = stream[t] \/ stream'[t] = Idle
  OBVIOUS
<1>3. NumberedInv'
  BY <1>1, <1>2, IdleFields, ClientTypes DEF Client, NumberedInv
<1>4. CASE saved'.next = saved.next /\ saved'.vals = saved.vals
           /\ (saved'.waits => saved.waits \/ saved.next = "request_approval")
  <2>1. CarefulInv'
    BY <1>2, <1>4, IdleFields DEF Client, CarefulInv
  <2>. QED  BY <1>3, <2>1 DEF Client
<1>5. CASE saved' = NoCheckpoint /\ \A t \in Streams : stream'[t] = Idle
  <2>1. \A e \in executed : e.run # saved'.vals.run
    BY <1>1, <1>5, ClientTypes
  <2>2. CarefulInv'
    BY <1>1, <1>5, <2>1, IdleFields DEF CarefulInv
  <2>. QED  BY <1>3, <2>2 DEF Client
<1>. QED  BY <1>4, <1>5

\* A new run has a number of its own, so that nothing has run in it.
LEMMA ClientRuns ==
  ASSUME IInv, Client, NEW s \in Streams, Run(s)
  PROVE  Client'
<1>. DEFINE v == InitialState(runs + 1)
<1>1. /\ stream' = [stream EXCEPT ![s] = At("ingest_request", v, NoAnswer)]
      /\ saved' = [next |-> "ingest_request", vals |-> v, waits |-> FALSE]
      /\ runs' = runs + 1 /\ executed' = executed /\ careless' = (careless \/ Busy)
  BY DEF Run, Advance, Checkpoint, history
<1>2. v.run = runs + 1
  BY DEF InitialState
<1>3. /\ stream'[s].pc = "ingest_request" /\ stream'[s].vals = v /\ stream'[s].todo = {}
      /\ \A t \in Streams \ {s} : stream'[t] = stream[t]
  BY <1>1, ClientTypes, AtFields
<1>4. NumberedInv'
  <2>. HIDE DEF v
  <2>. QED  BY <1>1, <1>2, <1>3, ClientTypes DEF Client, NumberedInv
<1>5. \A e \in executed : e.run # v.run
  <2>. HIDE DEF v
  <2>. QED  BY <1>2, ClientTypes DEF Client, NumberedInv
<1>6. CarefulInv'
  <2>. HIDE DEF v
  <2>. QED  BY <1>1, <1>3, <1>5 DEF CarefulInv, Busy
<1>. QED  BY <1>4, <1>6 DEF Client

\* A decision a careful client posts is an answer to a question, and so comes
\* before anything has run.
LEMMA ClientResumes ==
  ASSUME IInv, Client, NEW s \in Streams, Resume(s)
  PROVE  Client'
<1>1. PICK answer \in Answers : stream' = [stream EXCEPT ![s] = At(saved.next, saved.vals, answer)]
  BY DEF Resume
<1>2. /\ saved' = saved /\ runs' = runs /\ executed' = executed
      /\ careless' = (careless \/ Busy \/ ~saved.waits)
  BY DEF Resume, history
<1>3. /\ stream'[s].pc = saved.next /\ stream'[s].vals = saved.vals
      /\ saved.next # "execute_tools" => stream'[s].todo = {}
      /\ \A t \in Streams \ {s} : stream'[t] = stream[t]
  BY <1>1, ClientTypes, AtFields
<1>4. NumberedInv'
  BY <1>2, <1>3 DEF Client, NumberedInv
<1>5. CarefulInv'
  BY <1>2, <1>3 DEF Client, CarefulInv, Busy
<1>. QED  BY <1>4, <1>5 DEF Client

\* A call is made once its turn has come, and is not to be made again.
LEMMA ClientExecutes ==
  ASSUME IInv, Client, NEW s \in Streams, ExecuteTool(s)
  PROVE  /\ Client'
         /\ ~careless => executed' # executed
<1>. DEFINE u == stream[s].vals
<1>1. PICK i \in stream[s].todo, ok \in BOOLEAN :
        /\ executed' = IF PolicyOf(u.approved[i].tool) # "blocked"
                       THEN executed \union {[run |-> u.run, pos |-> i, call |-> u.approved[i]]}
                       ELSE executed
        /\ stream' = [stream EXCEPT ![s].todo = @ \ {i},
                                    ![s].failed = IF ok THEN @ \ {u.approved[i].id}
                                                        ELSE @ \union {u.approved[i].id}]
  BY DEF ExecuteTool
<1>. DEFINE e == [run |-> u.run, pos |-> i, call |-> u.approved[i]]
<1>2. /\ stream[s] \in StreamType /\ u \in Values
      /\ stream[s].pc = "execute_tools" /\ stream[s].todo \subseteq DOMAIN u.approved
      /\ Cleared(u, u.approved, authorised)
  BY InNode DEF IInv, PlacesInv, StreamInv, NodeInv, ExecuteTool, Nodes
<1>3. executed' = executed \union {e}
  <2>1. u.approved[i] \in CallsIn(u.approved) /\ u.approved[i] \in Call
    BY <1>2, CallsType DEF CallsIn, Values
  <2>2. u.approved[i].tool \notin OtherTools /\ u.approved[i].tool \in Tools
    BY <1>2, <2>1 DEF Cleared, Call
  <2>. QED  BY <1>1, <2>2, PolicyFacts
<1>4. /\ stream'[s].pc = stream[s].pc /\ stream'[s].vals = u
      /\ stream'[s].todo = stream[s].todo \ {i}
      /\ \A t \in Streams \ {s} : stream'[t] = stream[t]
  BY <1>1, <1>2, ClientTypes DEF StreamType
<1>5. saved' = saved /\ runs' = runs /\ careless' = careless
  BY DEF ExecuteTool
<1>6. e.run = u.run /\ e.pos = i /\ e.call = u.approved[i]
  OBVIOUS
<1>. HIDE DEF e
<1>7. NumberedInv'
  BY <1>3, <1>4, <1>5, <1>6 DEF Client, NumberedInv
<1>8. ASSUME ~careless
      PROVE  /\ saved.next = "execute_tools" /\ saved.vals = u
             /\ \A t \in Streams \ {s} : stream[t].pc = "idle" /\ stream[t].todo = {}
             /\ e \notin executed
  BY <1>2, <1>6, <1>8, ClientTypes DEF Client, CarefulInv
<1>9. CarefulInv'
  <2>. SUFFICES ASSUME ~careless  PROVE CarefulInv'
    BY <1>5 DEF CarefulInv
  <2>1. ASSUME NEW f \in executed', f.run = saved.vals.run
        PROVE  /\ saved.next \notin BeforeTools
               /\ f.pos \in DOMAIN saved.vals.approved
               /\ saved.vals.approved[f.pos] = f.call
               /\ \A t \in Streams : f.pos \notin stream'[t].todo
    <3>1. CASE f = e
      BY <1>2, <1>4, <1>6, <1>8, <3>1 DEF BeforeTools
    <3>2. CASE f \in executed
      BY <1>4, <2>1, <3>2 DEF Client, CarefulInv
    <3>. QED  BY <1>3, <3>1, <3>2
  <2>. QED  BY <1>4, <1>5, <1>8, <2>1 DEF Client, CarefulInv
<1>. QED  BY <1>3, <1>7, <1>8, <1>9 DEF Client

\* The nodes up to the gate and those behind the tools.
LEMMA ClientNodes ==
  ASSUME IInv, Client, NEW s \in Streams,
         \/ Ingest(s) \/ Classify(s) \/ Plan(s) \/ ReviewPolicy(s) \/ Decide(s)
         \/ ExecuteDone(s) \/ ReviewResults(s) \/ Summarize(s)
  PROVE  Client'
<1>. DEFINE u == stream[s].vals
            Moves(node, v) == Advance(s, node, v) /\ v.run = u.run
<1>1. stream[s].pc \in Nodes /\ stream[s].pc # "idle"
  BY DEF Ingest, Classify, Plan, ReviewPolicy, Decide, ExecuteDone, ReviewResults, Summarize, Nodes
<1>2. u \in Values /\ UNCHANGED <<runs, executed, careless>>
  <2>1. u \in Values
    BY <1>1, InNode DEF IInv
  <2>. QED
    BY <2>1 DEF Ingest, Classify, Plan, ReviewPolicy, Decide, ExecuteDone, ReviewResults,
                Summarize, history
<1>3. CASE Ingest(s)
  <2>. DEFINE v == [u EXCEPT !.proposed = Nothing, !.approved = Nothing, !.attempted = FALSE]
  <2>1. Moves("classify_goal", v)
    BY <1>2, <1>3 DEF Ingest, Values
  <2>. QED  BY <1>1, <1>2, <1>3, <2>1, ClientAdvances DEF Ingest, BeforeTools
<1>4. CASE Classify(s)
  <2>1. PICK stop : LET v == [u EXCEPT !.stop = stop] IN Moves(RouteAfterClassify(v), v)
    BY <1>2, <1>4 DEF Classify, Values
  <2>. QED  BY <1>1, <1>2, <1>4, <2>1, ClientAdvances DEF Classify, BeforeTools
<1>5. CASE Plan(s)
  <2>1. PICK v : /\ Advance(s, RouteAfterPlan(v), v)
                 /\ \/ v = [u EXCEPT !.stop = "llm_failed"]
                    \/ \E plan \in Plans \union {Nothing} :
                         v = [u EXCEPT !.proposed = Sanitize(plan)]
    BY <1>5 DEF Plan
  <2>2. v.run = u.run
    BY <1>2, <2>1 DEF Values
  <2>. QED  BY <1>1, <1>2, <1>5, <2>1, <2>2, ClientAdvances DEF Plan, BeforeTools
<1>6. CASE ReviewPolicy(s)
  <2>. DEFINE list == FilterExecutable(u.proposed)
              v == [u EXCEPT !.proposed = list, !.approved = list]
  <2>1. Moves(RouteAfterPolicy(v), v)
    BY <1>2, <1>6 DEF ReviewPolicy, Values
  <2>. QED  BY <1>1, <1>2, <1>6, <2>1, ClientAdvances DEF ReviewPolicy, BeforeTools
<1>7. CASE Decide(s)
  <2>. DEFINE v == Decided(u, stream[s].answer)
  <2>1. v.run = u.run
    BY <1>2 DEF Decided, Values
  <2>2. Advance(s, RouteAfterApproval(v), v)
    BY <1>7 DEF Decide
  <2>. QED  BY <1>1, <1>2, <1>7, <2>1, <2>2, ClientAdvances DEF Decide, BeforeTools
<1>8. CASE ExecuteDone(s)
  <2>1. PICK large : LET v == [u EXCEPT !.failed = stream[s].failed]
                     IN Advance(s, RouteAfterExecute(v, large), v)
    BY <1>8 DEF ExecuteDone
  <2>. DEFINE v == [u EXCEPT !.failed = stream[s].failed]
  <2>2. v.run = u.run /\ v.approved = u.approved
    BY <1>2 DEF Values
  <2>3. RouteAfterExecute(v, large) \notin BeforeTools \union {"execute_tools"}
    BY RouteTypes DEF BeforeTools
  <2>. QED  BY <1>1, <1>2, <2>1, <2>2, <2>3, ClientAdvances
<1>9. CASE ReviewResults(s)
  <2>1. Advance(s, "summarize_result", u)
    BY <1>9 DEF ReviewResults
  <2>. QED  BY <1>1, <1>2, <2>1, ClientAdvances DEF BeforeTools
<1>10. CASE Summarize(s)
  <2>1. Advance(s, "finish", u)
    BY <1>10 DEF Summarize
  <2>. QED  BY <1>1, <1>2, <2>1, ClientAdvances DEF BeforeTools
<1>. QED
  BY <1>3, <1>4, <1>5, <1>6, <1>7, <1>8, <1>9, <1>10

\* The run is over: the stream ends, and the checkpoint is behind the tools.
LEMMA ClientFinishes ==
  ASSUME IInv, Client, NEW s \in Streams, Finish(s)
  PROVE  Client'
<1>. DEFINE u == stream[s].vals
            v == [u EXCEPT !.stop = FinalStop(u)]
<1>1. u \in Values
  BY InNode DEF IInv, Finish, Nodes
<1>2. /\ saved' = [next |-> "end", vals |-> v, waits |-> FALSE]
      /\ stream' = [stream EXCEPT ![s] = Idle]
      /\ runs' = runs /\ executed' = executed /\ careless' = careless
  BY DEF Finish, Checkpoint, history
<1>3. v.run = u.run /\ v.approved = u.approved
  BY <1>1 DEF Values
<1>4. stream'[s] = Idle /\ \A t \in Streams \ {s} : stream'[t] = stream[t]
  BY <1>2, ClientTypes
<1>5. NumberedInv'
  <2>. HIDE DEF v
  <2>. QED  BY <1>2, <1>3, <1>4, IdleFields, ClientTypes DEF Client, NumberedInv
<1>6. CarefulInv'
  <2>. SUFFICES ASSUME ~careless  PROVE CarefulInv'
    BY <1>2 DEF CarefulInv
  <2>1. /\ \A t \in Streams \ {s} : stream[t].pc = "idle" /\ stream[t].todo = {}
        /\ u = saved.vals
    BY ClientTypes DEF Client, CarefulInv, Finish
  <2>2. \A t \in Streams : stream'[t].pc = "idle" /\ stream'[t].todo = {}
    BY <1>4, <2>1, IdleFields
  <2>3. "end" \notin BeforeTools
    BY DEF BeforeTools
  <2>. HIDE DEF v
  <2>. QED  BY <1>2, <1>3, <2>1, <2>2, <2>3 DEF Client, CarefulInv
<1>. QED  BY <1>5, <1>6 DEF Client

LEMMA ClientInit == Init => Client
<1>. SUFFICES ASSUME Init PROVE Client
  OBVIOUS
<1>1. /\ saved = NoCheckpoint /\ runs = 0 /\ executed = {}
      /\ \A s \in Streams : stream[s] = Idle
  BY DEF Init
<1>2. saved.vals.run = 0 /\ saved.waits = FALSE
  BY <1>1 DEF NoCheckpoint, Checkpoint, InitialState
<1>. QED
  BY <1>1, <1>2, IdleFields DEF Client, NumberedInv, CarefulInv

LEMMA ClientStep == ASSUME IInv, Client, [Next]_vars PROVE Client'
<1>1. CASE UNCHANGED vars
  BY <1>1 DEF vars, Client, NumberedInv, CarefulInv
<1>2. CASE Restart
  <2>1. \A t \in Streams : stream'[t] = Idle
    BY <1>2 DEF Restart
  <2>2. /\ saved' \in {saved, NoCheckpoint}
        /\ UNCHANGED <<runs, executed, careless>>
    BY <1>2 DEF Restart, history
  <2>. QED  BY <2>1, <2>2, ClientStops
<1>3. ASSUME NEW s \in Streams, Break(s)  PROVE Client'
  <2>1. \A t \in Streams : stream'[t] \in {Idle, stream[t]}
    BY <1>3, ClientTypes DEF Break
  <2>. QED  BY <1>3, <2>1, ClientStops DEF Break, history
<1>4. ASSUME NEW s \in Streams, Ask(s)  PROVE Client'
  <2>1. \A t \in Streams : stream'[t] \in {Idle, stream[t]}
    BY <1>4, ClientTypes DEF Ask
  <2>2. /\ saved'.next = saved.next /\ saved'.vals = saved.vals
        /\ saved'.waits => saved.waits \/ saved.next = "request_approval"
    <3>1. saved = Checkpoint("request_approval", stream[s].vals)
            => saved.next = "request_approval"
      BY DEF Checkpoint
    <3>. QED  BY <1>4, <3>1, ClientTypes DEF Ask, SavedType
  <2>. QED  BY <1>4, <2>1, <2>2, ClientStops DEF Ask
<1>5. ASSUME NEW s \in Streams, Step(s)  PROVE Client'
  BY <1>3, <1>4, <1>5, ClientRuns, ClientResumes, ClientNodes, ClientExecutes, ClientFinishes
     DEF Step
<1>. QED
  BY <1>1, <1>2, <1>5 DEF Next

\* As long as POSTs do not overlap and decisions come when one is asked for, what
\* a run has executed is what its checkpoint holds approved, in any order of runs,
\* edits, rejections, streams that break off and restarts.
THEOREM OnlyApprovedCallsRun == Spec => []ExecutesWhatWasApproved
<1>1. Init => IInv /\ Client
  BY InitInv, ClientInit
<1>2. IInv /\ Client /\ [Next]_vars => (IInv /\ Client)'
  BY StepInv, ClientStep
<1>3. IInv /\ Client => ExecutesWhatWasApproved
  BY DEF Client, CarefulInv, ExecutesWhatWasApproved
<1>. QED
  BY <1>1, <1>2, <1>3, PTL DEF Spec

\* For such a client a call that leaves the list of those to be made is one that
\* has not run before: no answer pays for two executions.
THEOREM EachCallRunsOnce == Spec => NoCallRunsTwice
<1>. DEFINE Once == \A s \in Streams :
                     stream'[s].todo # stream[s].todo /\ stream[s].pc = "execute_tools"
                                                     /\ stream'[s].pc = "execute_tools"
                       => careless \/ executed' # executed
<1>1. Init => IInv /\ Client
  BY InitInv, ClientInit
<1>2. IInv /\ Client /\ [Next]_vars => (IInv /\ Client)'
  BY StepInv, ClientStep
<1>3. IInv /\ Client /\ [Next]_vars => [Once]_vars
  <2>. SUFFICES ASSUME IInv, Client, Next, ~UNCHANGED vars, NEW s \in Streams,
                       stream'[s].todo # stream[s].todo, stream[s].pc = "execute_tools",
                       stream'[s].pc = "execute_tools", ~careless
                PROVE  executed' # executed
    OBVIOUS
  <2>1. ~Restart
    BY IdleFields DEF Restart
  <2>2. ASSUME NEW t \in Streams, ExecuteTool(t)  PROVE executed' # executed
    BY <2>2, ClientExecutes
  <2>3. ASSUME NEW t \in Streams, Step(t)  PROVE ExecuteTool(t)
    <3>. SUFFICES ASSUME ~ExecuteTool(t)  PROVE FALSE
      OBVIOUS
    <3>1. t = s
      <4>. SUFFICES ASSUME t # s  PROVE stream'[s] = stream[s]
        OBVIOUS
      <4>. QED
        BY <2>3, ClientTypes
           DEF Step, Run, Resume, Break, Ingest, Classify, Plan, ReviewPolicy, Ask, Decide,
               ExecuteDone, ReviewResults, Summarize, Finish, Advance
    <3>2. Break(s) \/ ExecuteDone(s)
      BY <2>3, <3>1 DEF Step, Run, Resume, Ingest, Classify, Plan, ReviewPolicy, Ask, Decide,
                        ReviewResults, Summarize, Finish
    <3>3. ~Break(s)
      BY ClientTypes, IdleFields DEF Break
    <3>4. ~ExecuteDone(s)
      <4>. SUFFICES ASSUME ExecuteDone(s)  PROVE FALSE
        OBVIOUS
      <4>1. PICK v, large : Advance(s, RouteAfterExecute(v, large), v)
        BY DEF ExecuteDone
      <4>2. stream'[s].pc = RouteAfterExecute(v, large)
        BY <4>1, ClientTypes, AtFields DEF Advance
      <4>. QED  BY <4>2, RouteTypes
    <3>. QED  BY <3>2, <3>3, <3>4
  <2>. QED  BY <2>1, <2>2, <2>3 DEF Next
<1>. QED
  BY <1>1, <1>2, <1>3, PTL DEF Spec, NoCallRunsTwice
=============================================================================
