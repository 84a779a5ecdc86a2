--------------------------- MODULE CostGateProofs ---------------------------
(***************************************************************************)
(* Proofs about the spending guard, for any number of callers, any prices  *)
(* and any rules of the other actions.                                     *)
(***************************************************************************)
EXTENDS CostGate, FiniteSetTheorems, TLAPS

\* The cheapest estimate and the dearest call.
LEMMA Prices ==
  /\ Min(Estimates) \in Nat /\ \A e \in Estimates : Min(Estimates) <= e
  /\ Max(Actuals) \in Nat /\ \A a \in Actuals : a <= Max(Actuals)
<1>1. PICK e \in Estimates : \A f \in Estimates : e <= f
  BY CostAssumption
<1>2. Min(Estimates) \in Estimates /\ \A f \in Estimates : Min(Estimates) <= f
  BY <1>1 DEF Min
<1>3. PICK a \in Actuals : \A b \in Actuals : a >= b
  BY CostAssumption
<1>4. Max(Actuals) \in Actuals /\ \A b \in Actuals : Max(Actuals) >= b
  BY <1>3 DEF Max
<1> QED
  BY <1>2, <1>4, CostAssumption

LEMMA EvaluateType ==
  ASSUME NEW policy, policy.default \in Decisions, NEW kind, NEW target
  PROVE  Evaluate(policy, kind, target) \in Decisions
<1> DEFINE Matched(d) == \E i \in DOMAIN policy.rules :
             RuleMatches(policy.rules[i], kind, target) /\ policy.rules[i].decision = d
<1>1. Evaluate(policy, kind, target) =
        IF Matched("deny") THEN "deny"
        ELSE IF Matched("require_signoff") THEN "require_signoff"
        ELSE IF Matched("allow") THEN "allow" ELSE policy.default
  BY DEF Evaluate
<1> HIDE DEF Matched
<1> QED
  BY <1>1 DEF Decisions

\* The verdicts on a model call.
LEMMA EvaluateModel ==
  ASSUME NEW model
  PROVE  /\ Evaluate(Lets, "llm_call", model) = "allow"
         /\ Evaluate(Bars(model), "llm_call", model) = "deny"
<1>1. Lets.rules = <<>> /\ Lets.default = "allow" /\ DOMAIN <<>> = {}
  BY DEF Lets
<1>2. Evaluate(Lets, "llm_call", model) = "allow"
  BY <1>1 DEF Evaluate
<1>3. Bars(model).rules = <<Denial(model)>>
  BY DEF Bars
<1>4. <<Denial(model)>>[1] = Denial(model) /\ 1 \in DOMAIN <<Denial(model)>>
  OBVIOUS
<1>5. RuleMatches(Denial(model), "llm_call", model) /\ Denial(model).decision = "deny"
  BY DEF RuleMatches, Denial
<1>6. \E i \in DOMAIN Bars(model).rules :
        RuleMatches(Bars(model).rules[i], "llm_call", model) /\ Bars(model).rules[i].decision = "deny"
  BY <1>3, <1>4, <1>5
<1>7. Evaluate(Bars(model), "llm_call", model) = "deny"
  BY <1>6 DEF Evaluate
<1> QED
  BY <1>2, <1>7

\* A policy that is being applied has a default.
LEMMA PolicyDefault ==
  ASSUME NEW policy \in InForce
  PROVE  policy.default \in Decisions
BY CostAssumption DEF InForce, Lets, Bars, Decisions

\* A caller between two calls.
LEMMA FreeType == calls \in Nat => Free \in Caller
<1>1. Lets \in InForce
  BY DEF InForce
<1> QED
  BY <1>1 DEF Free, Caller, Decisions

\* What each action does to the callers, and to nothing else of theirs.
LEMMA BeginType ==
  ASSUME GateTypeOK, NEW c \in Callers, NEW kind \in {"llm_call", "publish"},
         NEW target \in Models \cup {"catalog"},
         NEW policy \in InForce,
         BeginCall(c, kind, target, policy)
  PROVE  GateTypeOK'
<1>1. calls \in Nat /\ calls' = calls + 1 /\ calls' \in Nat
  BY DEF BeginCall, GateTypeOK
<1>2. 1..calls \subseteq 1..calls' /\ 0..calls \subseteq 0..calls' /\ calls' \in 0..calls'
  BY <1>1
<1>3. [Free EXCEPT !.pc = "gate", !.call = calls + 1,
                   !.kind = kind, !.target = target, !.policy = policy] \in Caller'
  BY <1>1, <1>2 DEF Free, Caller, Decisions
<1>4. \A d \in Callers : caller[d] \in Caller'
  <2> TAKE d \in Callers
  <2>1. caller[d] \in Caller
    BY DEF GateTypeOK
  <2> QED
    BY <2>1, <1>2 DEF Caller
<1>5. caller' \in [Callers -> Caller']
  BY <1>3, <1>4 DEF BeginCall, GateTypeOK
<1>6. spent' \in Nat /\ ran' \subseteq 1..calls'
  BY <1>2 DEF BeginCall, GateTypeOK
<1>7. log' \subseteq [call : 1..calls', outcome : Answers]
  BY <1>2 DEF BeginCall, GateTypeOK
<1> QED
  BY <1>1, <1>5, <1>6, <1>7 DEF GateTypeOK

LEMMA TypeNext ==
  ASSUME GateTypeOK, ModelCalls, OwnCalls, [GateNext]_gateVars
  PROVE  GateTypeOK'
<1> USE CostAssumption
<1>1. ASSUME NEW c \in Callers, AskModel(c)
      PROVE  GateTypeOK'
  <2>1. PICK model \in Models, est \in Estimates :
          BeginCall(c, "llm_call", model, CostPolicy(model, spent, est))
    BY <1>1 DEF AskModel
  <2>2. CostPolicy(model, spent, est) \in InForce
    BY DEF CostPolicy, InForce
  <2> QED
    BY <2>1, <2>2, BeginType
<1>2. ASSUME NEW c \in Callers, AskAction(c)
      PROVE  GateTypeOK'
  BY <1>2, BeginType DEF AskAction, InForce
<1>3. ASSUME NEW c \in Callers, Gate(c)
      PROVE  GateTypeOK'
  <2> DEFINE d == Evaluate(caller[c].policy, caller[c].kind, caller[c].target)
  <2>1. d \in Decisions
    <3>1. caller[c].policy \in InForce
      BY DEF GateTypeOK, Caller
    <3> QED BY <3>1, PolicyDefault, EvaluateType
  <2>2. caller[c] \in Caller /\ Free \in Caller /\ Caller' = Caller
    BY <1>3, FreeType DEF GateTypeOK, Gate, Caller
  <2>3. [caller[c] EXCEPT !.decision = d, !.pc = IF d = "allow" THEN "run" ELSE "signoff"] \in Caller
    <3> HIDE DEF d
    <3> QED
      BY <2>1, <2>2 DEF Caller
  <2>4. caller' \in [Callers -> Caller]
    <3>1. \/ Leave(c)
          \/ caller' = [caller EXCEPT ![c] = [caller[c] EXCEPT !.decision = d,
                                        !.pc = IF d = "allow" THEN "run" ELSE "signoff"]]
      <4>1. caller \in [Callers -> Caller]
        BY DEF GateTypeOK
      <4> QED
        BY <1>3, <4>1 DEF Gate
    <3> HIDE DEF d
    <3> QED
      BY <3>1, <2>2, <2>3 DEF Leave, GateTypeOK
  <2>5. caller[c].call \in 1..calls
    BY <1>3 DEF Gate, OwnCalls
  <2>6. log' \subseteq [call : 1..calls, outcome : Answers]
    BY <1>3, <2>5 DEF Gate, Logged, GateTypeOK, Answers
  <2> QED
    BY <1>3, <2>2, <2>4, <2>6 DEF Gate, GateTypeOK
<1>4. ASSUME NEW c \in Callers, SignOff(c)
      PROVE  GateTypeOK'
  <2>1. PICK answer \in {"approved", "rejected", "approver_error"} :
          /\ Logged(c, answer)
          /\ IF Proceeds(answer) THEN caller' = [caller EXCEPT ![c].pc = "run"] ELSE Leave(c)
    BY <1>4 DEF SignOff
  <2>2. caller[c] \in Caller /\ Free \in Caller /\ Caller' = Caller
    BY <1>4, FreeType DEF GateTypeOK, SignOff, Caller
  <2>3. [caller[c] EXCEPT !.pc = "run"] \in Caller
    BY <2>2 DEF Caller
  <2>4. caller' \in [Callers -> Caller]
    BY <2>1, <2>2, <2>3 DEF Leave, GateTypeOK
  <2>5. caller[c].call \in 1..calls
    BY <1>4 DEF SignOff, OwnCalls
  <2>6. log' \subseteq [call : 1..calls, outcome : Answers]
    BY <2>1, <2>5 DEF Logged, GateTypeOK, Answers
  <2> QED
    BY <1>4, <2>2, <2>4, <2>6 DEF SignOff, GateTypeOK
<1>5. ASSUME NEW c \in Callers, Run(c)
      PROVE  GateTypeOK'
  <2>1. caller[c] \in Caller /\ Free \in Caller /\ Caller' = Caller
    BY <1>5, FreeType DEF GateTypeOK, Run, Caller
  <2>2. \A cost \in Actuals : [caller[c] EXCEPT !.pc = "ledger", !.cost = cost] \in Caller
    BY <2>1 DEF Caller
  <2>3. caller' \in [Callers -> Caller]
    BY <1>5, <2>1, <2>2 DEF Run, Leave, GateTypeOK
  <2>4. caller[c].call \in 1..calls
    BY <1>5 DEF Run, OwnCalls
  <2> QED
    BY <1>5, <2>1, <2>3, <2>4 DEF Run, GateTypeOK
<1>6. ASSUME NEW c \in Callers, Ledger(c)
      PROVE  GateTypeOK'
  <2>1. caller[c] \in Caller /\ Free \in Caller /\ Caller' = Caller
    BY <1>6, FreeType DEF GateTypeOK, Ledger, Caller
  <2>2. caller[c].cost \in Nat
    BY <2>1 DEF Caller
  <2> QED
    BY <1>6, <2>1, <2>2 DEF Ledger, Leave, GateTypeOK
<1>7. ASSUME NEW c \in Callers, Drop(c)
      PROVE  GateTypeOK'
  <2>1. Free \in Caller /\ Caller' = Caller
    BY <1>7, FreeType DEF GateTypeOK, Drop, Caller
  <2> QED
    BY <1>7, <2>1 DEF Drop, Leave, GateTypeOK
<1>8. CASE UNCHANGED gateVars
  BY <1>8 DEF gateVars, GateTypeOK, Caller
<1> QED
  BY <1>1, <1>2, <1>3, <1>4, <1>5, <1>6, <1>7, <1>8 DEF GateNext

-----------------------------------------------------------------------------
(* What a step does to the caller that takes it.  The others stay.         *)

\* c's call is not of the rest of its state.
LEMMA Own ==
  ASSUME GateTypeOK, NEW c \in Callers,
         AskModel(c) \/ AskAction(c) \/ Gate(c) \/ SignOff(c) \/ Run(c) \/ Ledger(c) \/ Drop(c)
  PROVE  \A d \in Callers : d # c => caller'[d] = caller[d]
<1>1. caller \in [Callers -> Caller]
  BY DEF GateTypeOK
<1>2. ASSUME NEW kind, NEW target, NEW policy, BeginCall(c, kind, target, policy)
      PROVE  \A d \in Callers : d # c => caller'[d] = caller[d]
  BY <1>1, <1>2 DEF BeginCall
<1>3. ASSUME Leave(c)
      PROVE  \A d \in Callers : d # c => caller'[d] = caller[d]
  BY <1>1, <1>3 DEF Leave
<1>4. CASE AskModel(c) \/ AskAction(c)
  BY <1>2, <1>4 DEF AskModel, AskAction
<1>5. CASE Gate(c)
  BY <1>1, <1>3, <1>5 DEF Gate
<1>6. CASE SignOff(c)
  BY <1>1, <1>3, <1>6 DEF SignOff
<1>7. CASE Run(c)
  BY <1>1, <1>3, <1>7 DEF Run
<1>8. CASE Ledger(c) \/ Drop(c)
  BY <1>3, <1>8 DEF Ledger, Drop
<1> QED
  BY <1>4, <1>5, <1>6, <1>7, <1>8

\* c begins a call.
LEMMA BeginsCall ==
  ASSUME GateTypeOK, NEW c \in Callers, NEW kind, NEW target, NEW policy,
         BeginCall(c, kind, target, policy)
  PROVE  /\ caller[c].pc = "free"
         /\ caller'[c].pc = "gate" /\ caller'[c].call = calls + 1 /\ caller'[c].kind = kind
         /\ caller'[c].target = target /\ caller'[c].policy = policy
         /\ calls' = calls + 1 /\ UNCHANGED <<spent, log, ran>>
BY DEF BeginCall, Free, GateTypeOK

\* c leaves.
LEMMA Leaves ==
  ASSUME GateTypeOK, NEW c \in Callers, Leave(c)
  PROVE  caller'[c] = Free
BY DEF Leave, GateTypeOK

\* The gate refuses c or lets it go on; a model call is never sent to an
\* approver.
LEMMA GateDecides ==
  ASSUME GateTypeOK, ModelCalls, NEW c \in Callers, Gate(c)
  PROVE  /\ caller[c].pc = "gate" /\ UNCHANGED <<spent, ran, calls>>
         /\ \/ /\ caller'[c] = Free
               /\ Logged(c, "denied")
               /\ caller[c].kind = "llm_call" => caller[c].policy # Lets
            \/ /\ UNCHANGED log
               /\ caller'[c].call = caller[c].call /\ caller'[c].kind = caller[c].kind
               /\ \/ caller'[c].pc = "run" /\ caller'[c].decision = "allow"
                  \/ /\ caller'[c].pc = "signoff" /\ caller'[c].decision = "require_signoff"
                     /\ caller[c].kind # "llm_call"
               /\ caller[c].kind = "llm_call" => caller[c].policy = Lets
<1> DEFINE d == Evaluate(caller[c].policy, caller[c].kind, caller[c].target)
<1>1. d \in {"allow", "deny", "require_signoff"}
  <2>1. caller[c].policy \in InForce
    BY DEF GateTypeOK, Caller
  <2>2. d \in Decisions
    BY <2>1, PolicyDefault, EvaluateType
  <2> QED BY <2>2 DEF Decisions
<1>2. caller[c].kind = "llm_call" =>
        \/ caller[c].policy = Lets /\ d = "allow"
        \/ caller[c].policy = Bars(caller[c].target) /\ d = "deny"
  BY EvaluateModel DEF Gate, ModelCalls
<1>3. Bars(caller[c].target) # Lets
  BY DEF Bars, Lets
<1>4. /\ caller[c].pc = "gate" /\ UNCHANGED <<spent, ran, calls>>
      /\ \/ d = "deny" /\ Leave(c) /\ Logged(c, "denied")
         \/ /\ d # "deny"
            /\ caller' = [caller EXCEPT ![c] = [caller[c] EXCEPT !.decision = d,
                                        !.pc = IF d = "allow" THEN "run" ELSE "signoff"]]
            /\ UNCHANGED log
  <2>1. caller \in [Callers -> Caller]
    BY DEF GateTypeOK
  <2> QED
    BY <2>1 DEF Gate
<1> HIDE DEF d
<1>5. CASE d = "deny"
  BY <1>2, <1>3, <1>4, <1>5, Leaves
<1>6. CASE d # "deny"
  <2>1. caller'[c] = [caller[c] EXCEPT !.decision = d,
                                       !.pc = IF d = "allow" THEN "run" ELSE "signoff"]
    BY <1>4, <1>6 DEF GateTypeOK
  <2>2. caller[c] \in Caller
    BY DEF GateTypeOK
  <2> QED
    BY <1>1, <1>2, <1>4, <1>6, <2>1, <2>2 DEF Caller
<1> QED
  BY <1>5, <1>6

LEMMA SignsOff ==
  ASSUME GateTypeOK, NEW c \in Callers, SignOff(c)
  PROVE  /\ caller[c].pc = "signoff" /\ UNCHANGED <<spent, ran, calls>>
         /\ \/ /\ Logged(c, "approved")
               /\ caller'[c].pc = "run" /\ caller'[c].call = caller[c].call
               /\ caller'[c].kind = caller[c].kind
            \/ caller'[c] = Free /\ \E answer \in Answers : Logged(c, answer)
<1>1. caller[c] \in Caller /\ caller \in [Callers -> Caller]
  BY DEF GateTypeOK
<1> QED
  BY <1>1, Leaves DEF SignOff, Proceeds, Caller, Answers

LEMMA Runs ==
  ASSUME GateTypeOK, NEW c \in Callers, Run(c)
  PROVE  /\ caller[c].pc = "run" /\ UNCHANGED <<spent, log, calls>>
         /\ ran' = ran \cup {caller[c].call}
         /\ \/ /\ caller[c].kind = "llm_call" /\ caller'[c].kind = "llm_call"
               /\ caller'[c].pc = "ledger" /\ caller'[c].cost \in Actuals
               /\ caller'[c].call = caller[c].call
            \/ caller[c].kind # "llm_call" /\ caller'[c] = Free
<1>1. caller[c] \in Caller /\ caller \in [Callers -> Caller]
  BY DEF GateTypeOK
<1>2. CASE caller[c].kind = "llm_call"
  <2>1. PICK cost \in Actuals :
          caller' = [caller EXCEPT ![c] = [caller[c] EXCEPT !.pc = "ledger", !.cost = cost]]
    BY <1>1, <1>2 DEF Run
  <2>2. caller'[c] = [caller[c] EXCEPT !.pc = "ledger", !.cost = cost]
    BY <1>1, <2>1
  <2> QED
    BY <1>1, <1>2, <2>2 DEF Run, Caller
<1>3. CASE caller[c].kind # "llm_call"
  BY <1>3, Leaves DEF Run
<1> QED
  BY <1>2, <1>3

-----------------------------------------------------------------------------
(* The parts of the invariant.                                             *)

LEMMA ModelCallsNext ==
  ASSUME GateTypeOK, ModelCalls, NEW c \in Callers,
         AskModel(c) \/ AskAction(c) \/ Gate(c) \/ SignOff(c) \/ Run(c) \/ Ledger(c) \/ Drop(c)
  PROVE  ModelCalls'
<1> SUFFICES /\ caller'[c].kind = "llm_call" /\ caller'[c].pc = "gate" =>
                  caller'[c].policy \in {Lets, Bars(caller'[c].target)}
             /\ caller'[c].kind = "llm_call" => caller'[c].pc # "signoff"
             /\ caller'[c].pc = "ledger" =>
                  caller'[c].kind = "llm_call" /\ caller'[c].cost \in Actuals
  BY Own DEF ModelCalls
<1>1. CASE AskModel(c)
  <2>1. PICK model \in Models, est \in Estimates :
          BeginCall(c, "llm_call", model, CostPolicy(model, spent, est))
    BY <1>1 DEF AskModel
  <2>2. CostPolicy(model, spent, est) \in {Lets, Bars(model)}
    BY DEF CostPolicy
  <2> QED
    BY <2>1, <2>2, BeginsCall
<1>2. CASE AskAction(c)
  <2>1. PICK policy \in Policies : BeginCall(c, "publish", "catalog", policy)
    BY <1>2 DEF AskAction
  <2> QED
    BY <2>1, BeginsCall
<1>3. CASE Gate(c)
  BY <1>3, GateDecides DEF Free
<1>4. CASE SignOff(c)
  BY <1>4, SignsOff DEF Free
<1>5. CASE Run(c)
  BY <1>5, Runs DEF Free
<1>6. CASE Ledger(c) \/ Drop(c)
  BY <1>6, Leaves DEF Ledger, Drop, Free
<1> QED
  BY <1>1, <1>2, <1>3, <1>4, <1>5, <1>6

LEMMA OwnCallsNext ==
  ASSUME GateTypeOK, ModelCalls, OwnCalls, BlockedNeverRuns, NEW c \in Callers,
         AskModel(c) \/ AskAction(c) \/ Gate(c) \/ SignOff(c) \/ Run(c) \/ Ledger(c) \/ Drop(c)
  PROVE  OwnCalls' /\ BlockedNeverRuns'
<1>1. \A d \in Callers : d # c => caller'[d] = caller[d]
  BY Own
<1>2. /\ calls \in Nat /\ ran \subseteq 1..calls
      /\ log \subseteq [call : 1..calls, outcome : Answers]
  BY DEF GateTypeOK
<1>3. ASSUME AskModel(c) \/ AskAction(c)
      PROVE  OwnCalls' /\ BlockedNeverRuns'
  <2>1. /\ caller[c].pc = "free"
        /\ caller'[c].pc = "gate" /\ caller'[c].call = calls + 1
        /\ calls' = calls + 1 /\ UNCHANGED <<spent, log, ran>>
    BY <1>3, BeginsCall DEF AskModel, AskAction
  <2>2. calls + 1 \notin ran /\ \A l \in log : l.call # calls + 1
    BY <1>2
  <2>3. calls + 1 \in 1..calls' /\ 1..calls \subseteq 1..calls' /\ calls + 1 \notin 1..calls
    BY <1>2, <2>1
  <2>4. OwnCalls'
    BY <1>1, <2>1, <2>2, <2>3 DEF OwnCalls
  <2>5. BlockedNeverRuns'
    BY <1>1, <2>1 DEF BlockedNeverRuns
  <2> QED
    BY <2>4, <2>5
<1>4. ASSUME Gate(c)
      PROVE  OwnCalls' /\ BlockedNeverRuns'
  <2>1. /\ caller[c].pc = "gate" /\ UNCHANGED <<spent, ran, calls>>
        /\ caller[c].call \in 1..calls
        /\ caller[c].call \notin ran /\ \A l \in log : l.call # caller[c].call
        /\ \A d \in Callers : d # c /\ caller[d].pc # "free" => caller[d].call # caller[c].call
    BY <1>4, GateDecides DEF OwnCalls
  <2>2. CASE caller'[c] = Free /\ Logged(c, "denied")
    <3>1. caller'[c].pc = "free" /\ caller'[c].decision = "allow"
      BY <2>2 DEF Free
    <3>2. \A l \in log' : l \in log \/ (l.call = caller[c].call /\ l.outcome = "denied")
      BY <2>2 DEF Logged
    <3>3. OwnCalls'
      BY <1>1, <2>1, <3>1, <3>2 DEF OwnCalls
    <3>4. BlockedNeverRuns'
      BY <1>1, <2>1, <2>2, <3>1, <3>2 DEF BlockedNeverRuns, Logged
    <3> QED
      BY <3>3, <3>4
  <2>3. CASE /\ UNCHANGED log /\ caller'[c].call = caller[c].call
             /\ \/ caller'[c].pc = "run" /\ caller'[c].decision = "allow"
                \/ caller'[c].pc = "signoff" /\ caller'[c].decision = "require_signoff"
    <3>1. OwnCalls'
      BY <1>1, <2>1, <2>3 DEF OwnCalls
    <3>2. BlockedNeverRuns'
      BY <1>1, <2>1, <2>3 DEF BlockedNeverRuns
    <3> QED
      BY <3>1, <3>2
  <2> QED
    BY <1>4, <2>2, <2>3, GateDecides
<1>5. ASSUME SignOff(c)
      PROVE  OwnCalls' /\ BlockedNeverRuns'
  <2>1. /\ caller[c].pc = "signoff" /\ UNCHANGED <<spent, ran, calls>>
        /\ caller[c].call \in 1..calls
        /\ caller[c].call \notin ran /\ \A l \in log : l.call # caller[c].call
        /\ \A d \in Callers : d # c /\ caller[d].pc # "free" => caller[d].call # caller[c].call
    BY <1>5, SignsOff DEF OwnCalls
  <2>2. PICK answer : Logged(c, answer) /\ (caller'[c] = Free \/
          (answer = "approved" /\ caller'[c].pc = "run" /\ caller'[c].call = caller[c].call))
    BY <1>5, SignsOff
  <2>3. /\ \A l \in log' : l \in log \/ (l.call = caller[c].call /\ l.outcome = answer)
        /\ log \subseteq log' /\ [call |-> caller[c].call, outcome |-> answer] \in log'
    BY <2>2 DEF Logged
  <2>4. CASE caller'[c] = Free
    <3>1. caller'[c].pc = "free" /\ caller'[c].decision = "allow"
      BY <2>4 DEF Free
    <3>2. OwnCalls'
      BY <1>1, <2>1, <2>3, <3>1 DEF OwnCalls
    <3>3. BlockedNeverRuns'
      BY <1>1, <2>1, <2>3, <3>1 DEF BlockedNeverRuns
    <3> QED
      BY <3>2, <3>3
  <2>5. CASE answer = "approved" /\ caller'[c].pc = "run" /\ caller'[c].call = caller[c].call
    <3>1. OwnCalls'
      BY <1>1, <2>1, <2>3, <2>5 DEF OwnCalls
    <3>2. BlockedNeverRuns'
      BY <1>1, <2>1, <2>3, <2>5 DEF BlockedNeverRuns
    <3> QED
      BY <3>1, <3>2
  <2> QED
    BY <2>2, <2>4, <2>5
<1>6. ASSUME Run(c)
      PROVE  OwnCalls' /\ BlockedNeverRuns'
  <2>1. /\ caller[c].pc = "run" /\ UNCHANGED <<spent, log, calls>>
        /\ ran' = ran \cup {caller[c].call}
        /\ caller'[c].pc \in {"ledger", "free"}
        /\ caller'[c].pc = "ledger" => caller'[c].call = caller[c].call
    BY <1>6, Runs DEF Free
  <2>2. /\ caller[c].call \in 1..calls
        /\ \A l \in log : l.call = caller[c].call => l.outcome = "approved"
        /\ \A d \in Callers : d # c /\ caller[d].pc # "free" => caller[d].call # caller[c].call
    BY <2>1 DEF OwnCalls
  <2>3. OwnCalls'
    BY <1>1, <2>1, <2>2 DEF OwnCalls
  <2>4. BlockedNeverRuns'
    BY <1>1, <2>1, <2>2 DEF BlockedNeverRuns
  <2> QED
    BY <2>3, <2>4
<1>7. ASSUME Ledger(c) \/ Drop(c)
      PROVE  OwnCalls' /\ BlockedNeverRuns'
  <2>1. caller'[c].pc = "free" /\ caller'[c].decision = "allow" /\ UNCHANGED <<log, ran, calls>>
    BY <1>7, Leaves DEF Ledger, Drop, Free
  <2> QED
    BY <1>1, <2>1 DEF OwnCalls, BlockedNeverRuns
<1> QED
  BY <1>3, <1>4, <1>5, <1>6, <1>7

\* One more, or one fewer, call in flight.
LEMMA Times ==
  ASSUME NEW m \in Nat, NEW p \in Nat, NEW n \in Nat, p <= n
  PROVE  (p + 1) * m = p * m + m /\ p * m <= n * m
OBVIOUS

LEMMA PayingType ==
  /\ IsFiniteSet(Paying) /\ Cardinality(Paying) \in Nat
  /\ Cardinality(Paying) <= Cardinality(Callers) /\ Cardinality(Callers) \in Nat
<1>1. Paying \in SUBSET Callers /\ IsFiniteSet(Callers)
  BY CostAssumption DEF Paying
<1> QED
  BY <1>1, FS_Subset, FS_CardinalityType

LEMMA RoomNext ==
  ASSUME GateTypeOK, ModelCalls, Room, NEW c \in Callers,
         AskModel(c) \/ AskAction(c) \/ Gate(c) \/ SignOff(c) \/ Run(c) \/ Ledger(c) \/ Drop(c)
  PROVE  Room'
<1> DEFINE N == Cardinality(Callers)
           M == Max(Actuals)
           m == Min(Estimates)
<1>1. /\ N \in Nat /\ M \in Nat /\ m \in Nat /\ Cap \in Nat /\ spent \in Nat
      /\ Cardinality(Paying) \in Nat /\ Cardinality(Paying) <= N
  BY Prices, PayingType, CostAssumption DEF GateTypeOK
<1>2. \A d \in Callers : d # c => caller'[d] = caller[d]
  BY Own
<1>3. ASSUME Paying' = Paying, spent' = spent
      PROVE  Room'
  BY <1>3 DEF Room
<1>4. CASE AskModel(c)
  <2>1. PICK model \in Models, est \in Estimates :
          BeginCall(c, "llm_call", model, CostPolicy(model, spent, est))
    BY <1>4 DEF AskModel
  <2>2. /\ caller[c].pc = "free" /\ caller'[c].pc = "gate" /\ caller'[c].kind = "llm_call"
        /\ caller'[c].policy = CostPolicy(model, spent, est) /\ spent' = spent
    BY <2>1, BeginsCall
  <2>3. CASE CostPolicy(model, spent, est) # Lets
    <3>1. Paying' = Paying
      BY <1>2, <2>2, <2>3 DEF Paying
    <3> QED
      BY <1>3, <2>2, <3>1
  <2>4. CASE CostPolicy(model, spent, est) = Lets
    <3>1. spent + est <= Cap /\ m <= est /\ est \in Nat
      <4>1. Bars(model) # Lets
        BY DEF Bars, Lets
      <4>2. est \in Nat
        BY CostAssumption
      <4> QED
        BY <1>1, <2>4, <4>1, <4>2, Prices DEF CostPolicy
    <3>2. Paying' = Paying \cup {c} /\ c \notin Paying
      BY <1>2, <2>2, <2>4 DEF Paying
    <3>3. Cardinality(Paying \cup {c}) = Cardinality(Paying) + 1
      BY <3>2, PayingType, FS_AddElement
    <3>4. Cardinality(Paying \cup {c}) <= N /\ Paying \cup {c} \in SUBSET Callers
      <4>1. Paying \cup {c} \in SUBSET Callers
        BY DEF Paying
      <4> QED
        BY <4>1, FS_Subset, CostAssumption
    <3>5. Cardinality(Paying \cup {c}) * M <= N * M
      <4> HIDE DEF M, N
      <4> QED
        BY <1>1, <3>3, <3>4, Times
    <3>6. Cardinality(Paying)' = Cardinality(Paying \cup {c})
      BY <3>2
    <3>7. Cardinality(Paying \cup {c}) * M \in Nat /\ N * M \in Nat
      BY <1>1, <3>3
    <3>8. spent + Cardinality(Paying \cup {c}) * M + m <= Cap + N * M
      <4> HIDE DEF M, N, m
      <4> QED
        BY <1>1, <3>1, <3>5, <3>7
    <3> QED
      BY <2>2, <3>2, <3>8 DEF Room
  <2> QED
    BY <2>3, <2>4
<1>5. CASE AskAction(c)
  <2>1. /\ caller[c].pc = "free" /\ caller'[c].kind = "publish" /\ spent' = spent
    BY <1>5, BeginsCall DEF AskAction
  <2>2. Paying' = Paying
    BY <1>2, <2>1 DEF Paying
  <2> QED
    BY <1>3, <2>1, <2>2
<1>6. CASE Gate(c)
  <2>1. Paying' = Paying /\ spent' = spent
    BY <1>2, <1>6, GateDecides DEF Paying, Free
  <2> QED
    BY <1>3, <2>1
<1>7. CASE SignOff(c)
  <2>1. Paying' = Paying /\ spent' = spent
    BY <1>2, <1>7, SignsOff DEF Paying, Free, ModelCalls
  <2> QED
    BY <1>3, <2>1
<1>8. CASE Run(c)
  <2>1. Paying' = Paying /\ spent' = spent
    BY <1>2, <1>8, Runs DEF Paying, Free
  <2> QED
    BY <1>3, <2>1
<1>9. CASE Ledger(c)
  <2>1. c \in Paying /\ caller[c].cost \in Actuals /\ spent' = spent + caller[c].cost
    BY <1>9 DEF Ledger, ModelCalls, Paying
  <2>2. Paying' = Paying \ {c}
    BY <1>2, <1>9, Leaves DEF Ledger, Paying, Free
  <2>3. Cardinality(Paying \ {c}) = Cardinality(Paying) - 1
    BY <2>1, PayingType, FS_RemoveElement
  <2>4. Cardinality(Paying \ {c}) \in Nat
    <3>1. IsFiniteSet(Paying \ {c})
      BY PayingType, FS_RemoveElement
    <3> QED
      BY <3>1, FS_CardinalityType
  <2>5. Cardinality(Paying) * M = Cardinality(Paying \ {c}) * M + M
    <3> HIDE DEF M
    <3> QED
      BY <1>1, <2>3, <2>4, Times
  <2>6. caller[c].cost <= M /\ caller[c].cost \in Nat
    BY <2>1, Prices, CostAssumption
  <2>7. spent + Cardinality(Paying) * M + m <= Cap + N * M
    BY <2>1 DEF Room
  <2>8. Cardinality(Paying \ {c}) * M \in Nat /\ N * M \in Nat
    BY <1>1, <2>4
  <2>9. spent + caller[c].cost + Cardinality(Paying \ {c}) * M + m <= Cap + N * M
    <3> HIDE DEF M, N, m
    <3> QED
      BY <1>1, <2>5, <2>6, <2>7, <2>8
  <2> QED
    BY <2>1, <2>2, <2>9 DEF Room
<1>10. CASE Drop(c)
  <2>1. Paying' \in SUBSET Paying /\ spent' = spent
    BY <1>2, <1>10, Leaves DEF Drop, Paying, Free
  <2>2. CASE spent = 0 /\ Paying = {}
    BY <2>1, <2>2 DEF Room
  <2>3. CASE spent + Cardinality(Paying) * M + m <= Cap + N * M
    <3> SUFFICES ASSUME NEW P \in SUBSET Paying, P = Paying'
                 PROVE  spent + Cardinality(P) * M + m <= Cap + N * M
      BY <2>1 DEF Room
    <3>1. Cardinality(P) \in Nat /\ Cardinality(P) <= Cardinality(Paying)
      BY PayingType, FS_Subset, FS_CardinalityType
    <3>2. Cardinality(P) * M <= Cardinality(Paying) * M
      <4> HIDE DEF M
      <4> QED
        BY <1>1, <3>1, Times
    <3>3. Cardinality(P) * M \in Nat /\ Cardinality(Paying) * M \in Nat /\ N * M \in Nat
      BY <1>1, <3>1
    <3> HIDE DEF M, N, m
    <3> QED
      BY <1>1, <2>3, <3>2, <3>3
  <2> QED
    BY <2>2, <2>3 DEF Room
<1> QED
  BY <1>4, <1>5, <1>6, <1>7, <1>8, <1>9, <1>10

\* Of any number p of calls in flight.
LEMMA CapFromRoom ==
  ASSUME NEW sum \in Nat, NEW p \in Nat,
         \/ sum = 0
         \/ sum + p * Max(Actuals) + Min(Estimates) <= Cap + Cardinality(Callers) * Max(Actuals)
  PROVE  sum > 0 => sum + Min(Estimates) <= Cap + Cardinality(Callers) * Max(Actuals)
<1>1. /\ Cardinality(Callers) \in Nat /\ Max(Actuals) \in Nat /\ Min(Estimates) \in Nat
      /\ Cap \in Nat
  BY Prices, PayingType, CostAssumption
<1>2. p * Max(Actuals) \in Nat /\ Cardinality(Callers) * Max(Actuals) \in Nat
  BY <1>1
<1> QED
  BY <1>1, <1>2

-----------------------------------------------------------------------------
(* The ledger never exceeds the cap by more than what is in flight, and    *)
(* what the gate blocked never runs (guard_llm_call, guarded_run), however *)
(* many callers there are and whatever fails between their steps.          *)
THEOREM GateCorrect == GateSpec => []GateSound
<1>1. GateInit => GateSound
  <2> SUFFICES ASSUME GateInit PROVE GateSound
    OBVIOUS
  <2>1. Free \in Caller
    BY FreeType DEF GateInit
  <2>2. GateTypeOK
    BY <2>1 DEF GateInit, GateTypeOK
  <2>3. Paying = {}
    BY DEF GateInit, Free, Paying
  <2>4. ModelCalls /\ OwnCalls /\ BlockedNeverRuns
    BY DEF GateInit, Free, ModelCalls, OwnCalls, BlockedNeverRuns
  <2>5. Room
    BY <2>3 DEF GateInit, Room
  <2> QED
    BY <2>2, <2>4, <2>5 DEF GateInit, GateSound, CapHolds
<1>2. GateSound /\ [GateNext]_gateVars => GateSound'
  <2> SUFFICES ASSUME GateSound, [GateNext]_gateVars PROVE GateSound'
    OBVIOUS
  <2> USE DEF GateSound
  <2>1. GateTypeOK'
    BY TypeNext
  <2>2. ASSUME NEW c \in Callers,
               AskModel(c) \/ AskAction(c) \/ Gate(c) \/ SignOff(c) \/ Run(c) \/ Ledger(c) \/ Drop(c)
        PROVE  Room' /\ ModelCalls' /\ OwnCalls' /\ BlockedNeverRuns'
    BY <2>2, RoomNext, ModelCallsNext, OwnCallsNext
  <2>3. ASSUME UNCHANGED gateVars
        PROVE  Room' /\ ModelCalls' /\ OwnCalls' /\ BlockedNeverRuns'
    BY <2>3 DEF gateVars, Room, Paying, ModelCalls, OwnCalls, BlockedNeverRuns
  <2>4. Room' /\ ModelCalls' /\ OwnCalls' /\ BlockedNeverRuns'
    BY <2>2, <2>3 DEF GateNext
  <2>5. CapHolds'
    <3>1. PICK p \in Nat : p = Cardinality(Paying')
      <4>1. Paying' \in SUBSET Callers
        BY DEF Paying
      <4> QED
        BY <4>1, FS_Subset, FS_CardinalityType, CostAssumption
    <3>2. PICK sum \in Nat : sum = spent'
      BY <2>1 DEF GateTypeOK
    <3>3. \/ sum = 0
          \/ sum + p * Max(Actuals) + Min(Estimates)
               <= Cap + Cardinality(Callers) * Max(Actuals)
      BY <2>4, <3>1, <3>2 DEF Room
    <3> QED
      BY <3>2, <3>3, CapFromRoom DEF CapHolds
  <2> QED
    BY <2>1, <2>4, <2>5
<1> QED
  BY <1>1, <1>2, PTL DEF GateSpec
=============================================================================
