------------------------------ MODULE GraphRuns ------------------------------
(* What the risk control, account recovery and content pipeline copilots      *)
(* share: a POST to /run or /resume drives a graph of nodes in a stream of    *)
(* its own, on the conversation (thread id) it names, and the graph keeps a   *)
(* checkpoint of the conversation (ai_copilot/application/use_cases/run_*.py, *)
(* ai_copilot/dependencies.py).                                               *)
(*                                                                            *)
(* One conversation. Each graph is built once per process with a checkpointer *)
(* of its own; /run of the content pipeline builds a graph and a checkpointer *)
(* for itself, so that /resume finds its checkpoint only in a common file.    *)
EXTENDS Naturals, Sequences

CONSTANTS Streams,    \* POSTs that can be under way at a time
          Graphs,     \* the graphs a conversation may be with
          Backends,   \* LANGGRAPH_CHECKPOINTER_BACKEND
          MaxRuns,    \* bound: runs started
          MaxResumes  \* bound: decisions posted

ASSUME GraphAssumption ==
  /\ Graphs \subseteq {"recovery", "risk", "content"}
  /\ Backends \subseteq {"memory", "sqlite"}
  /\ MaxRuns \in Nat
  /\ MaxResumes \in Nat

VARIABLES graph,    \* the graph of the conversation
          backend,  \* where checkpoints are kept
          saved,    \* the checkpoint of the conversation
          stream,   \* what each POST's stream is doing
          runs,     \* runs started
          resumes,  \* decisions posted
          careless, \* history: POSTs overlapped, or a decision was not asked for
          asks,     \* history: requests to the operator, by run
          answers,  \* history: decisions posted, by run
          granted,  \* history: what the operator let be done, in order
          effects,  \* history: what was done, in order
          logins    \* history: logins tried, by run

runVars == <<saved, stream>>
bounds == <<graph, backend, runs, resumes, careless, answers>>
vars == <<runVars, bounds, asks, granted, effects, logins>>

-----------------------------------------------------------------------------
NoAnswer == [decision |-> "none", with |-> "nothing"]
NoValues == [run |-> 0, stop |-> "none"]
Drive(node, v, answer, did) == [pc |-> node, vals |-> v, answer |-> answer, did |-> did]
Idle == Drive("idle", NoValues, NoAnswer, "nothing")
Checkpoint(node, v, waits) == [next |-> node, vals |-> v, waits |-> waits]
NoCheckpoint == Checkpoint("none", NoValues, FALSE)

At(s, g, node) == graph = g /\ stream[s].pc = node
Busy == \E s \in Streams : stream[s] # Idle
Counted(f, r) == [f EXCEPT ![r] = @ + 1]

GraphInit ==
  /\ graph \in Graphs
  /\ backend \in Backends
  /\ saved = NoCheckpoint
  /\ stream = [s \in Streams |-> Idle]
  /\ runs = 0
  /\ resumes = 0
  /\ careless = FALSE
  /\ asks = [r \in 1..MaxRuns |-> 0]
  /\ answers = [r \in 1..MaxRuns |-> 0]
  /\ granted = <<>>
  /\ effects = <<>>
  /\ logins = [r \in 1..MaxRuns |-> 0]

\* /run: the conversation starts anew, whatever its checkpoint is.
StartRun(s, g, node, v) ==
  /\ At(s, g, "idle")
  /\ runs < MaxRuns
  /\ runs' = runs + 1
  /\ stream' = [stream EXCEPT ![s] = Drive(node, v, NoAnswer, "nothing")]
  /\ saved' = Checkpoint(node, v, FALSE)
  /\ careless' = (careless \/ Busy)
  /\ UNCHANGED <<graph, backend, resumes, asks, answers, granted, effects, logins>>

\* /resume: the graph goes on from the checkpoint it finds, with the answer.
Resume(s, g, answer) ==
  /\ At(s, g, "idle")
  /\ saved.next \notin {"none", "end"}
  /\ g = "content" => backend = "sqlite"
  /\ resumes < MaxResumes
  /\ resumes' = resumes + 1
  /\ stream' = [stream EXCEPT ![s] = Drive(saved.next, saved.vals, answer, "nothing")]
  /\ careless' = (careless \/ Busy \/ ~saved.waits)
  /\ answers' = Counted(answers, saved.vals.run)
  /\ UNCHANGED <<graph, backend, saved, runs, asks, granted, effects, logins>>

\* A node has ended with the state v; only the first node of a stream sees the
\* answer the stream began with.
Advance(s, node, v) ==
  /\ stream' = [stream EXCEPT ![s] = Drive(node, v, NoAnswer, "nothing")]
  /\ saved' = Checkpoint(node, v, FALSE)

\* A node has done something and not ended yet.
Did(s, what) == stream' = [stream EXCEPT ![s].did = what] /\ UNCHANGED saved

\* interrupt() without an answer: the checkpoint of the node before waits.
Interrupt(s) ==
  /\ stream[s].answer = NoAnswer
  /\ saved' = [saved EXCEPT !.waits =
                 @ \/ (saved.next = stream[s].pc /\ saved.vals = stream[s].vals)]
  /\ stream' = [stream EXCEPT ![s] = Idle]
  /\ asks' = Counted(asks, stream[s].vals.run)

EndRun(s, v) ==
  /\ stream' = [stream EXCEPT ![s] = Idle]
  /\ saved' = Checkpoint("end", v, FALSE)
  /\ UNCHANGED <<bounds, asks, granted, effects, logins>>

\* The client leaves the stream: the node under way is cancelled, what it did
\* to the state is lost, what it did outside is not.
Break(s) ==
  /\ stream[s] # Idle
  /\ stream' = [stream EXCEPT ![s] = Idle]
  /\ UNCHANGED <<saved, bounds, asks, granted, effects, logins>>

Restart ==
  /\ runs > 0
  /\ saved' = IF backend = "memory" THEN NoCheckpoint ELSE saved
  /\ stream' = [s \in Streams |-> Idle]
  /\ UNCHANGED <<bounds, asks, granted, effects, logins>>
=============================================================================
