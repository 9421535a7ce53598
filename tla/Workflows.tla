------------------------------ MODULE Workflows ------------------------------
(* A conversation with one of the three workflow copilots: POSTs to /run and  *)
(* /resume of the operator, streams the client may leave, and restarts of the *)
(* service (ai_copilot/api.py, ai_copilot/endpoints/content_pipeline.py).     *)
EXTENDS AccountRecovery, RiskControl, ContentPipeline, FiniteSets

Init == GraphInit

AnswersOf == [g \in Graphs |-> CASE g = "recovery" -> RecoveryAnswers
                                 [] g = "risk" -> RiskAnswers
                                 [] g = "content" -> ContentAnswers]

PostRun(s) == RunRecovery(s) \/ RunRisk(s) \/ RunContent(s)
PostResume(s) == \E answer \in AnswersOf[graph] : Resume(s, graph, answer)
Node(s) == RecoveryNode(s) \/ RiskNode(s) \/ ContentNode(s)

Next == Restart \/ \E s \in Streams : PostRun(s) \/ PostResume(s) \/ Node(s) \/ Break(s)

\* The event loop goes on with every node it has begun.
Spec == Init /\ [][Next]_vars /\ \A s \in Streams : WF_vars(Node(s))

-----------------------------------------------------------------------------
ValuesOf == [g \in Graphs |-> CASE g = "recovery" -> RecoveryValues
                                [] g = "risk" -> RiskValues
                                [] g = "content" -> ContentValues]
ValidValues(v) == v = NoValues \/ v \in ValuesOf[graph]

\* What a conversation keeps is a state of its own graph.
TypeOK ==
  /\ graph \in Graphs
  /\ backend \in Backends
  /\ \A s \in Streams : ValidValues(stream[s].vals)
  /\ ValidValues(saved.vals)
  /\ runs \in 0..MaxRuns
  /\ resumes \in 0..MaxResumes
  /\ careless \in BOOLEAN

Times(log, entry) == Cardinality({i \in DOMAIN log : log[i] = entry})
Effects(r) == {i \in DOMAIN effects : effects[i].run = r}

\* As long as the operator answers what was asked, one POST at a time, a proxy
\* is swapped and a draft made no more often than the operator agreed to it,
\* with the proxy and the caption the operator agreed to - whatever a client
\* that leaves or a restart makes a node do again.
EffectsAreAnswered ==
  ~careless => \A i \in DOMAIN effects :
                 Times(effects, effects[i]) <= Times(granted, effects[i])

\* Recovery logs an account in no more often than its attempts, and once more
\* for each question and each answer: a relogin is made again when the node is.
LoginsAreBounded ==
  ~careless => \A r \in 1..MaxRuns : logins[r] <= MaxAttempts + asks[r] + answers[r]

\* When the last run of a conversation has ended, the reason it reports (stop)
\* goes with what it saw and did and with what the operator said, as far as the
\* graph promises: see RecoveryAddsUp, RiskAddsUp and ContentAddsUp, each of
\* which also says what its report does not tell.
EndedRunAddsUp ==
  ~careless /\ saved.next = "end" =>
    LET v == saved.vals
        acted == Effects(v.run) # {} IN
    /\ v.stop # "none"
    /\ graph = "recovery" => RecoveryAddsUp(v, acted \/ logins[v.run] > 0)
    /\ graph = "risk" => RiskAddsUp(v)
    /\ graph = "content" => ContentAddsUp(v, acted)

\* Every POST comes to an end or to a question, however often an attempt fails
\* or a caption is refused.
StreamsEnd == \A s \in Streams : (stream[s] # Idle) ~> (stream[s] = Idle)
=============================================================================
