--------------------------- MODULE AccountRecovery ---------------------------
(* The account recovery copilot: find out what is wrong with an account, then *)
(* log it in again or, with the consent of the operator, give it another      *)
(* proxy, until it is healthy or the attempts are used up                     *)
(* (ai_copilot/application/account_recovery/nodes.py and its adapters).       *)
EXTENDS GraphRuns

CONSTANTS Proxies,     \* proxies the operator may name
          MaxAttempts  \* max_recovery_attempts

ASSUME RecoveryAssumption ==
  /\ "nothing" \notin Proxies /\ "code" \notin Proxies
  /\ MaxAttempts \in Nat

\* make_initial_state
RecoveryState(r) ==
  [run |-> r, error |-> "none", path |-> "none", attempts |-> 0, op |-> "none",
   with |-> "nothing", healthy |-> FALSE, result |-> "none", stop |-> "none"]

RecoveryAnswers ==
  [decision : {"provide_2fa"}, with : {"nothing", "code"}]
    \union [decision : {"approve_proxy_swap"}, with : {"nothing"} \union Proxies]
    \union [decision : {"abort"}, with : {"nothing"}]

RunRecovery(s) == StartRun(s, "recovery", "detect_issue", RecoveryState(runs + 1))

\* The adapter tells an active account from any other one; it raises nothing.
DetectIssue(s) ==
  LET v == stream[s].vals IN
  /\ At(s, "recovery", "detect_issue")
  /\ \/ Advance(s, "verify_account_health", [v EXCEPT !.stop = "no_issue"])
     \/ Advance(s, "classify_issue", v)
  /\ UNCHANGED <<bounds, asks, granted, effects, logins>>

\* A challenge, or something a login may help with. (No status is classified
\* as "blocked".)
ClassifyIssue(s) ==
  /\ At(s, "recovery", "classify_issue")
  /\ \E error \in {"challenge", "session"} :
       Advance(s, "choose_recovery_path", [stream[s].vals EXCEPT !.error = error])
  /\ UNCHANGED <<bounds, asks, granted, effects, logins>>

PathFor(v) == IF v.error = "challenge" /\ v.attempts = 0 THEN "swap_proxy" ELSE "relogin"

ChooseRecoveryPath(s) ==
  LET v == stream[s].vals IN
  /\ At(s, "recovery", "choose_recovery_path")
  /\ IF v.attempts >= MaxAttempts
     THEN Advance(s, "finish", [v EXCEPT !.path = "none", !.stop = "max_attempts_reached"])
     ELSE Advance(s, IF v.stop = "none" THEN "attempt_recovery" ELSE "finish",
                  [v EXCEPT !.path = PathFor(v)])
  /\ UNCHANGED <<bounds, asks, granted, effects, logins>>

RouteAfterAttempt(v) ==
  CASE v.stop # "none" -> "finish"
    [] v.stop = "none" /\ v.op \in {"provide_2fa", "approve_proxy_swap"} -> "attempt_recovery"
    [] OTHER -> "verify_account_health"
AttemptEnds(s, v) == Advance(s, RouteAfterAttempt(v), v)

\* The proxy path asks before it does anything; there is no proxy but the one
\* the operator names.
MayAsk(s) ==
  LET v == stream[s].vals IN
  IF v.path = "swap_proxy" THEN v.op # "approve_proxy_swap"
  ELSE stream[s].did = "requires_2fa" /\ ~(v.op = "provide_2fa" /\ v.with = "code")

AskOperator(s) ==
  /\ At(s, "recovery", "attempt_recovery") /\ MayAsk(s)
  /\ Interrupt(s)
  /\ UNCHANGED <<bounds, granted, effects, logins>>

TakeAnswer(s) ==
  LET v == stream[s].vals
      answer == stream[s].answer IN
  /\ At(s, "recovery", "attempt_recovery") /\ MayAsk(s)
  /\ answer # NoAnswer
  /\ AttemptEnds(s, [v EXCEPT !.op = answer.decision, !.with = answer.with,
                              !.stop = IF answer.decision = "abort" THEN "aborted" ELSE @])
  /\ granted' = IF answer.decision = "approve_proxy_swap"
                THEN Append(granted, [run |-> v.run, kind |-> "swap", what |-> answer.with])
                ELSE granted
  /\ UNCHANGED <<bounds, asks, effects, logins>>

\* Without a proxy the approval is kept and the node runs again to log in.
SwapProxy(s) ==
  LET v == stream[s].vals IN
  /\ At(s, "recovery", "attempt_recovery") /\ stream[s].did = "nothing"
  /\ v.path = "swap_proxy" /\ v.op = "approve_proxy_swap"
  /\ \/ /\ v.with \notin Proxies
        /\ AttemptEnds(s, [v EXCEPT !.path = "relogin"])
        /\ UNCHANGED effects
     \/ /\ v.with \in Proxies
        /\ Did(s, "swap")
        /\ effects' = Append(effects, [run |-> v.run, kind |-> "swap", what |-> v.with])
  /\ UNCHANGED <<bounds, asks, granted, logins>>

\* The relogin comes before the question for a code, so that it is made again
\* when the answer comes; the code itself never gets to it.
Relogin(s) ==
  LET v == stream[s].vals IN
  /\ At(s, "recovery", "attempt_recovery") /\ stream[s].did = "nothing"
  /\ v.path = "relogin"
  /\ \E outcome \in {"relogin", "requires_2fa"} : Did(s, outcome)
  /\ logins' = Counted(logins, v.run)
  /\ UNCHANGED <<bounds, asks, granted, effects>>

\* Faulty variant: an attempt is not counted.
AttemptedUncounted(v) == [v EXCEPT !.op = "none"]

Attempted(v) == [v EXCEPT !.attempts = @ + 1, !.op = "none"]

AttemptDone(s) ==
  /\ At(s, "recovery", "attempt_recovery")
  /\ stream[s].did # "nothing" /\ ~MayAsk(s)
  /\ AttemptEnds(s, Attempted(stream[s].vals))
  /\ UNCHANGED <<bounds, asks, granted, effects, logins>>

RouteAfterHealth(v) ==
  IF v.stop \in {"recovered", "max_attempts_reached"} THEN "finish" ELSE "choose_recovery_path"

VerifyAccountHealth(s) ==
  LET v == stream[s].vals IN
  /\ At(s, "recovery", "verify_account_health")
  /\ \E healthy \in BOOLEAN :
       LET w == [v EXCEPT !.healthy = healthy,
                          !.result = IF healthy THEN "recovered"
                                     ELSE IF v.attempts >= MaxAttempts THEN "failed" ELSE @,
                          !.stop = IF healthy THEN "recovered"
                                   ELSE IF v.attempts >= MaxAttempts THEN "max_attempts_reached"
                                   ELSE @]
       IN Advance(s, RouteAfterHealth(w), w)
  /\ UNCHANGED <<bounds, asks, granted, effects, logins>>

FinishRecovery(s) ==
  LET v == stream[s].vals IN
  /\ At(s, "recovery", "finish")
  /\ EndRun(s, [v EXCEPT !.result = IF @ = "none" THEN v.stop ELSE @])

RecoveryNode(s) ==
  \/ DetectIssue(s) \/ ClassifyIssue(s) \/ ChooseRecoveryPath(s) \/ AskOperator(s)
  \/ TakeAnswer(s) \/ SwapProxy(s) \/ Relogin(s) \/ AttemptDone(s)
  \/ VerifyAccountHealth(s) \/ FinishRecovery(s)

-----------------------------------------------------------------------------
RecoveryStops == {"none", "no_issue", "aborted", "recovered", "max_attempts_reached"}
RecoveryValues ==
  [run : 1..MaxRuns, error : {"none", "challenge", "session"},
   path : {"none", "swap_proxy", "relogin"}, attempts : 0..MaxAttempts,
   op : {"none", "provide_2fa", "approve_proxy_swap", "abort"},
   with : {"nothing", "code"} \union Proxies, healthy : BOOLEAN,
   result : RecoveryStops \union {"failed"}, stop : RecoveryStops]

\* A run says "recovered" exactly if its last look at the account found it
\* healthy; it says that there was no issue only if it neither tried a login nor
\* swapped a proxy, that it was aborted only if the operator said so, and that
\* the attempts are used up only if they are. (Of an account that was healthy
\* all along it says "recovered" too.)
RecoveryAddsUp(v, acted) ==
  /\ v.stop = "recovered" <=> v.healthy
  /\ v.result = "recovered" <=> v.healthy
  /\ v.stop = "no_issue" => ~acted
  /\ v.stop = "aborted" => v.op = "abort"
  /\ v.stop = "max_attempts_reached" => v.attempts >= MaxAttempts
=============================================================================
