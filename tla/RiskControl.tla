----------------------------- MODULE RiskControl -----------------------------
(* The risk control copilot: judge an account by its status and its recent    *)
(* events, ask the operator about one that is not logged in, and report what  *)
(* became of it                                                               *)
(* (ai_copilot/application/risk_control/nodes.py and its adapters).           *)
(*                                                                            *)
(* An account's cooldown is always None, so that no rule chooses another      *)
(* proxy: rotate_proxy_action is never reached.                               *)
EXTENDS GraphRuns

CONSTANT Policies  \* policies the operator may name

ASSUME RiskAssumption == Policies \cap {"none", "nothing"} = {}

\* make_initial_state
RiskState(r) ==
  [run |-> r, level |-> "none", decision |-> "none", policy |-> "none",
   answer |-> NoAnswer, final |-> "none", recheck |-> "none", stop |-> "none"]

RiskAnswers ==
  [decision : {"approve_policy", "abort"}, with : {"nothing"}]
    \union [decision : {"override_policy"}, with : {"nothing"} \union Policies]

RunRisk(s) == StartRun(s, "risk", "load_account_signal", RiskState(runs + 1))

RiskNodeEnds(s, node, v) ==
  /\ Advance(s, node, v)
  /\ UNCHANGED <<bounds, asks, granted, effects, logins>>

LoadAccountSignal(s) ==
  LET v == stream[s].vals IN
  /\ At(s, "risk", "load_account_signal")
  /\ \/ RiskNodeEnds(s, "finish", [v EXCEPT !.stop = "account_not_found"])
     \/ RiskNodeEnds(s, "evaluate_risk", v)

\* An account that is not active is taken for logged out; rate limits in the
\* activity log raise the risk of one that is.
EvaluateRisk(s) ==
  /\ At(s, "risk", "evaluate_risk")
  /\ \E level \in {"low", "raised", "critical"} :
       RiskNodeEnds(s, IF level = "low" THEN "recheck_signal" ELSE "choose_policy",
                    [stream[s].vals EXCEPT !.level = level])

\* The rules leave a critical account to the operator.
ChoosePolicy(s) ==
  LET v == stream[s].vals
      policy == IF v.level = "critical" THEN "escalate" ELSE "cooldown" IN
  /\ At(s, "risk", "choose_policy")
  /\ RiskNodeEnds(s, IF policy = "escalate" THEN "escalate_to_operator" ELSE "cooldown_action",
                  [v EXCEPT !.policy = policy])

\* The cooldown is reported; no use case keeps it.
CooldownAction(s) ==
  /\ At(s, "risk", "cooldown_action")
  /\ RiskNodeEnds(s, "recheck_signal", [stream[s].vals EXCEPT !.final = "cooldown"])

AskAboutRisk(s) ==
  /\ At(s, "risk", "escalate_to_operator")
  /\ Interrupt(s)
  /\ UNCHANGED <<bounds, granted, effects, logins>>

\* Faulty variant: an abort is applied like an approval.
RouteAfterEscalationAlways(v) == "apply_operator_override"

RouteAfterEscalation(v) ==
  IF v.stop = "aborted" THEN "finish" ELSE "apply_operator_override"

EscalateToOperator(s) ==
  LET answer == stream[s].answer
      v == [stream[s].vals EXCEPT !.answer = answer, !.decision = answer.decision,
                                  !.stop = IF answer.decision = "abort" THEN "aborted" ELSE @] IN
  /\ At(s, "risk", "escalate_to_operator")
  /\ answer # NoAnswer
  /\ RiskNodeEnds(s, RouteAfterEscalation(v), v)

\* The answer names a policy, or the one of the rules stands. Whatever it is,
\* nothing is done to the account: a cooldown is not kept and no proxy comes
\* with the answer.
ApplyOperatorOverride(s) ==
  LET v == stream[s].vals
      named == v.decision = "override_policy" /\ v.answer.with # "nothing" IN
  /\ At(s, "risk", "apply_operator_override")
  /\ RiskNodeEnds(s, "recheck_signal",
                  [v EXCEPT !.final = IF named THEN v.answer.with ELSE v.policy])

RecheckSignal(s) ==
  /\ At(s, "risk", "recheck_signal")
  /\ \E risk \in {"low", "high"} :
       RiskNodeEnds(s, "finish", [stream[s].vals EXCEPT !.recheck = risk])

FinishRisk(s) ==
  /\ At(s, "risk", "finish")
  /\ EndRun(s, [stream[s].vals EXCEPT !.stop = IF @ = "none" THEN "completed" ELSE @])

RiskNode(s) ==
  \/ LoadAccountSignal(s) \/ EvaluateRisk(s) \/ ChoosePolicy(s) \/ CooldownAction(s)
  \/ AskAboutRisk(s) \/ EscalateToOperator(s) \/ ApplyOperatorOverride(s) \/ RecheckSignal(s) \/ FinishRisk(s)

-----------------------------------------------------------------------------
RiskValues ==
  [run : 1..MaxRuns, level : {"none", "low", "raised", "critical"},
   decision : {"none", "approve_policy", "override_policy", "abort"},
   policy : {"none", "cooldown", "escalate"}, answer : RiskAnswers \union {NoAnswer},
   final : {"none", "cooldown", "escalate"} \union Policies, recheck : {"none", "low", "high"},
   stop : {"none", "account_not_found", "aborted", "completed"}]

\* A run reports a policy for a critical account exactly if the operator let one
\* be applied, the one the operator named if any; for another one at most the
\* cooldown of the rules, without a question. It reports "aborted" exactly if
\* the operator said so, "completed" exactly if it looked at the account again,
\* and judged no account it did not find. The policy it reports is no more than
\* a word: no cooldown is kept and no proxy rotated, by any run.
RiskAddsUp(v) ==
  /\ v.level = "critical" =>
       (v.final # "none" <=> v.decision \in {"approve_policy", "override_policy"})
  /\ v.level # "critical" => v.decision = "none" /\ v.final \in {"none", "cooldown"}
  /\ v.decision = "override_policy" /\ v.answer.with # "nothing" => v.final = v.answer.with
  /\ v.stop = "aborted" <=> v.decision = "abort"
  /\ v.stop = "completed" <=> v.recheck # "none"
  /\ v.stop = "account_not_found" => v.level = "none"
=============================================================================
