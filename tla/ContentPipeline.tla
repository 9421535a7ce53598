--------------------------- MODULE ContentPipeline ---------------------------
(* The content pipeline copilot: write a caption from a brief until it passes *)
(* validation, let the operator approve, edit or reject it, and make a draft  *)
(* of a scheduled post (ai_copilot/application/content_pipeline/nodes.py).    *)
EXTENDS GraphRuns

CONSTANTS MaxRevisions,  \* bound: the largest max_revisions of a request
          Edits          \* captions the operator may write

ASSUME ContentAssumption ==
  /\ MaxRevisions \in Nat
  /\ "nothing" \notin Edits

\* The caption of the nth revision, or one of the operator.
Caption(text, n) == [text |-> text, n |-> n]
NoCaption == Caption("nothing", 0)

\* make_initial_state
ContentState(r, brief, targets, max) ==
  [run |-> r, brief |-> brief, targets |-> targets, max |-> max, revisions |-> 0,
   caption |-> NoCaption, passed |-> FALSE, approval |-> "none", stop |-> "none"]

ContentAnswers ==
  [decision : {"approved", "rejected"}, with : {"nothing"}]
    \union [decision : {"edited"}, with : {"nothing"} \union Edits]

RunContent(s) ==
  \E brief, targets \in BOOLEAN, max \in 0..MaxRevisions :
    StartRun(s, "content", "ingest_campaign_brief",
             ContentState(runs + 1, brief, targets, max))

ContentNodeEnds(s, node, v) ==
  /\ Advance(s, IF v.stop = "none" THEN node ELSE "finish", v)
  /\ UNCHANGED <<bounds, asks, effects, logins>>

IngestCampaignBrief(s) ==
  LET v == stream[s].vals IN
  /\ At(s, "content", "ingest_campaign_brief")
  /\ ContentNodeEnds(s, "generate_caption",
                     [v EXCEPT !.stop = IF v.brief THEN @ ELSE "invalid_input"])
  /\ UNCHANGED granted

\* Faulty variant: the check of the limit is off by one.
NoMoreRevisionsLate(v) == v.revisions > v.max

NoMoreRevisions(v) == v.revisions >= v.max

\* Faulty variant: revisions are not counted.
RevisedUncounted(v) ==
  [v EXCEPT !.caption = Caption("generated", v.revisions + 1), !.passed = FALSE]

Revised(v) ==
  [v EXCEPT !.revisions = @ + 1, !.caption = Caption("generated", v.revisions + 1),
            !.passed = FALSE]

GenerateCaption(s) ==
  LET v == stream[s].vals IN
  /\ At(s, "content", "generate_caption")
  /\ IF NoMoreRevisions(v)
     THEN ContentNodeEnds(s, "finish", [v EXCEPT !.stop = "validation_failed"])
     ELSE \/ ContentNodeEnds(s, "validate_caption", Revised(v))
          \/ ContentNodeEnds(s, "finish", [v EXCEPT !.stop = "error"])
  /\ UNCHANGED granted

RouteAfterValidate(v) == IF v.passed THEN "select_target_accounts" ELSE "generate_caption"

ValidateCaption(s) ==
  /\ At(s, "content", "validate_caption")
  /\ \E passed \in BOOLEAN :
       LET v == [stream[s].vals EXCEPT !.passed = passed]
           last == ~passed /\ v.revisions >= v.max
           w == [v EXCEPT !.stop = IF last THEN "validation_failed" ELSE @]
       IN ContentNodeEnds(s, RouteAfterValidate(w), w)
  /\ UNCHANGED granted

\* No username is ever resolved: the names stand for themselves, if any.
SelectTargetAccounts(s) ==
  LET v == stream[s].vals IN
  /\ At(s, "content", "select_target_accounts")
  /\ ContentNodeEnds(s, "operator_approval",
                     [v EXCEPT !.stop = IF v.targets THEN @ ELSE "no_targets"])
  /\ UNCHANGED granted

AskForApproval(s) ==
  /\ At(s, "content", "operator_approval")
  /\ Interrupt(s)
  /\ UNCHANGED <<bounds, granted, effects, logins>>

\* Faulty variant: what the operator wrote is not taken over.
ApprovedAsGenerated(v, answer) ==
  [v EXCEPT !.approval = IF answer.with = "nothing" THEN "approved" ELSE "edited"]

\* An edit without a caption is an approval.
Approved(v, answer) ==
  IF answer.with = "nothing" THEN [v EXCEPT !.approval = "approved"]
  ELSE [v EXCEPT !.approval = "edited", !.caption = Caption(answer.with, 0)]

LetPass(v, answer) ==
  [run |-> v.run, kind |-> "draft",
   what |-> IF answer.with = "nothing" THEN v.caption ELSE Caption(answer.with, 0)]

OperatorApproval(s) ==
  LET v == stream[s].vals
      answer == stream[s].answer IN
  /\ At(s, "content", "operator_approval")
  /\ answer # NoAnswer
  /\ IF answer.decision = "rejected"
     THEN /\ ContentNodeEnds(s, "finish", [v EXCEPT !.approval = "rejected", !.stop = "rejected"])
          /\ UNCHANGED granted
     ELSE /\ ContentNodeEnds(s, "schedule_draft", Approved(v, answer))
          /\ granted' = Append(granted, LetPass(v, answer))

\* The draft is stored, unless the names are of no account.
ScheduleDraft(s) ==
  LET v == stream[s].vals IN
  /\ At(s, "content", "schedule_draft")
  /\ stream[s].did = "nothing"
  /\ \/ Did(s, "draft") /\ effects' = Append(effects, [run |-> v.run, kind |-> "draft", what |-> v.caption])
     \/ Did(s, "no_account") /\ UNCHANGED effects
  /\ UNCHANGED <<bounds, asks, granted, logins>>

\* A draft has the status "needs_media", which the node does not accept: the
\* run says "error" whether there is a draft or not.
ScheduleDone(s) ==
  /\ At(s, "content", "schedule_draft")
  /\ stream[s].did # "nothing"
  /\ ContentNodeEnds(s, "finish", [stream[s].vals EXCEPT !.stop = "error"])
  /\ UNCHANGED granted

FinishContent(s) == At(s, "content", "finish") /\ EndRun(s, stream[s].vals)

ContentNode(s) ==
  \/ IngestCampaignBrief(s) \/ GenerateCaption(s) \/ ValidateCaption(s)
  \/ SelectTargetAccounts(s) \/ AskForApproval(s) \/ OperatorApproval(s)
  \/ ScheduleDraft(s) \/ ScheduleDone(s) \/ FinishContent(s)

-----------------------------------------------------------------------------
Captions == [text : {"nothing", "generated"} \union Edits, n : 0..MaxRevisions]

ContentValues ==
  {v \in [run : 1..MaxRuns, brief : BOOLEAN, targets : BOOLEAN, max : 0..MaxRevisions,
          revisions : 0..MaxRevisions, caption : Captions, passed : BOOLEAN,
          approval : {"none", "approved", "edited", "rejected"},
          stop : {"none", "invalid_input", "validation_failed", "error", "no_targets",
                  "rejected"}] : v.revisions <= v.max}

\* A caption that came to the operator had passed validation, a run reports
\* "rejected" exactly if the operator rejected it, and only a run the operator
\* let pass made a draft. Whether it made one the report does not tell: every
\* run the operator let pass says "error".
ContentAddsUp(v, drafted) ==
  /\ v.approval # "none" => v.passed
  /\ v.stop = "rejected" <=> v.approval = "rejected"
  /\ v.approval \in {"approved", "edited"} => v.stop = "error"
  /\ drafted => v.approval \in {"approved", "edited"}
=============================================================================
