------------------------------ MODULE CostGate ------------------------------
(***************************************************************************)
(* The actuator gate (governance/gate.py) and the spending guard on top of *)
(* it (governance/cost.py).  A caller sums the ledger, has the call judged *)
(* by the gate, makes the call and ledgers what it cost, in steps between  *)
(* which other callers act; the approver, the call and every append may    *)
(* fail, and a caller may die.                                             *)
(***************************************************************************)
EXTENDS Naturals, Sequences, FiniteSets, FiniteSetsExt

CONSTANTS
  Callers,
  Models,     \* models a caller may ask for
  Allowed,    \* ALLOWED_MODELS
  Cap,        \* the spending cap
  Estimates,  \* what a call may be expected to cost
  Actuals,    \* what a call may turn out to cost
  Policies,   \* what actions that are not model calls are judged by: rules and a default
  MaxCalls    \* calls ever begun

Decisions == {"allow", "deny", "require_signoff"}

ASSUME CostAssumption ==
  /\ IsFiniteSet(Callers)
  /\ Cap \in Nat /\ MaxCalls \in Nat
  /\ Estimates \subseteq Nat /\ \E e \in Estimates : \A f \in Estimates : e <= f
  /\ Actuals \subseteq Nat /\ \E a \in Actuals : \A b \in Actuals : a >= b
  /\ \A policy \in Policies : policy.default \in Decisions

VARIABLES
  spent,   \* the sum of the ledger's entries
  log,     \* gate decisions recorded: the call and the outcome
  ran,     \* calls whose action was invoked
  calls,   \* calls begun
  caller   \* the local state of each caller

gateVars == <<spent, log, ran, calls, caller>>

\* A policy of one rule, or of none; what no rule matches is allowed.
Lets == [rules |-> <<>>, default |-> "allow"]

Denial(model) == [kind |-> "llm_call", decision |-> "deny", target |-> model]

Bars(model) == [rules |-> <<Denial(model)>>, default |-> "allow"]

Free == [pc |-> "free", call |-> 0, kind |-> "none", target |-> "none",
         policy |-> Lets, decision |-> "allow", cost |-> 0]

GateInit ==
  /\ spent = 0 /\ log = {} /\ ran = {} /\ calls = 0
  /\ caller = [c \in Callers |-> Free]

BeginCall(c, kind, target, policy) ==
  /\ caller[c].pc = "free" /\ calls < MaxCalls
  /\ caller' = [caller EXCEPT ![c] = [Free EXCEPT !.pc = "gate", !.call = calls + 1,
                                        !.kind = kind, !.target = target, !.policy = policy]]
  /\ calls' = calls + 1
  /\ UNCHANGED <<spent, log, ran>>

\* A call that returns, or raises.
Leave(c) == caller' = [caller EXCEPT ![c] = Free]

-----------------------------------------------------------------------------
(* The gate.                                                               *)

\* A rule without a target matches every target.
RuleMatches(rule, kind, target) == rule.kind = kind /\ rule.target \in {"any", target}

\* The most restrictive rule that matches decides; if none does, the default.
Evaluate(policy, kind, target) ==
  LET Matched(d) == \E i \in DOMAIN policy.rules :
                      RuleMatches(policy.rules[i], kind, target) /\ policy.rules[i].decision = d
  IN IF Matched("deny") THEN "deny"
     ELSE IF Matched("require_signoff") THEN "require_signoff"
     ELSE IF Matched("allow") THEN "allow" ELSE policy.default

\* Mutant: the call itself does not count.
SpentOnly(model, sum, est) ==
  IF model \notin Allowed \/ sum > Cap THEN Bars(model) ELSE Lets

CostPolicy(model, sum, est) ==
  IF model \notin Allowed \/ sum + est > Cap THEN Bars(model) ELSE Lets

\* guard_llm_call: the ledger is summed and the policy written from the sum.
AskModel(c) ==
  \E model \in Models, est \in Estimates :
    BeginCall(c, "llm_call", model, CostPolicy(model, spent, est))

\* guarded_run of any other action.
AskAction(c) == \E policy \in Policies : BeginCall(c, "publish", "catalog", policy)

Logged(c, outcome) == log' = log \cup {[call |-> caller[c].call, outcome |-> outcome]}

\* The decision; a denial is logged and raised.
Gate(c) ==
  /\ caller[c].pc = "gate"
  /\ LET d == Evaluate(caller[c].policy, caller[c].kind, caller[c].target)
     IN \/ d = "deny" /\ Leave(c) /\ Logged(c, "denied")
        \/ /\ d # "deny"
           /\ caller' = [caller EXCEPT ![c].decision = d,
                                       ![c].pc = IF d = "allow" THEN "run" ELSE "signoff"]
           /\ UNCHANGED log
  /\ UNCHANGED <<spent, ran, calls>>

\* Mutant: an approver that raises does not stop the action.
ProceedsUnlessRejected(answer) == answer # "rejected"

Proceeds(answer) == answer = "approved"

\* The approver answers, or raises, or there is none: logged before anything
\* runs.
SignOff(c) ==
  /\ caller[c].pc = "signoff"
  /\ \E answer \in {"approved", "rejected", "approver_error"} :
       /\ Logged(c, answer)
       /\ IF Proceeds(answer) THEN caller' = [caller EXCEPT ![c].pc = "run"] ELSE Leave(c)
  /\ UNCHANGED <<spent, ran, calls>>

\* The action is invoked; a model call is then to be ledgered.
Run(c) ==
  /\ caller[c].pc = "run"
  /\ ran' = ran \cup {caller[c].call}
  /\ IF caller[c].kind = "llm_call"
     THEN \E cost \in Actuals :
            caller' = [caller EXCEPT ![c].pc = "ledger", ![c].cost = cost]
     ELSE Leave(c)
  /\ UNCHANGED <<spent, log, calls>>

Ledger(c) ==
  /\ caller[c].pc = "ledger"
  /\ spent' = spent + caller[c].cost
  /\ Leave(c)
  /\ UNCHANGED <<log, ran, calls>>

\* An append fails, the action raises, or the caller dies: what was paid is
\* not ledgered.
Drop(c) ==
  /\ caller[c].pc # "free"
  /\ Leave(c)
  /\ UNCHANGED <<spent, log, ran, calls>>

GateNext ==
  \E c \in Callers :
    AskModel(c) \/ AskAction(c) \/ Gate(c) \/ SignOff(c) \/ Run(c) \/ Ledger(c) \/ Drop(c)

GateSpec == GateInit /\ [][GateNext]_gateVars

-----------------------------------------------------------------------------
(* Properties.                                                             *)

Answers == {"denied", "approved", "rejected", "approver_error"}

\* What a call may be judged by.
InForce == Policies \cup {Lets} \cup {Bars(model) : model \in Models}

Caller ==
  [pc : {"free", "gate", "signoff", "run", "ledger"}, call : 0..calls,
   kind : {"none", "llm_call", "publish"}, target : Models \cup {"none", "catalog"},
   policy : InForce, decision : Decisions, cost : Nat]

\* The local state of every caller is well formed.
GateTypeOK ==
  /\ calls \in Nat /\ spent \in Nat
  /\ ran \subseteq 1..calls
  /\ log \subseteq [call : 1..calls, outcome : Answers]
  /\ caller \in [Callers -> Caller]

\* The ledger may exceed the cap, since it is summed before a call and written
\* after it, but by no more than the calls that can be in flight together:
\* each of them saw room for its estimate.
CapHolds ==
  spent > 0 => spent + Min(Estimates) <= Cap + Cardinality(Callers) * Max(Actuals)

\* An action that needed a sign-off and ran was approved in the log, and a
\* call the log says was denied, rejected or failed to be judged never ran.
BlockedNeverRuns ==
  /\ \A l \in log : l.outcome # "approved" => l.call \notin ran
  /\ \A c \in Callers : caller[c].pc = "run" /\ caller[c].decision = "require_signoff" =>
       [call |-> caller[c].call, outcome |-> "approved"] \in log

(* Why these hold.                                                         *)

\* Calls in flight that saw room under the cap.
Paying ==
  {c \in Callers :
     /\ caller[c].kind = "llm_call"
     /\ caller[c].pc \in {"run", "ledger"} \/ (caller[c].pc = "gate" /\ caller[c].policy = Lets)}

\* Each of them may still add the dearest call to the ledger.
Room ==
  \/ spent = 0 /\ Paying = {}
  \/ spent + Cardinality(Paying) * Max(Actuals) + Min(Estimates)
       <= Cap + Cardinality(Callers) * Max(Actuals)

\* A model call is judged by its cost policy alone, and no approver is asked.
ModelCalls ==
  \A c \in Callers :
    /\ caller[c].kind = "llm_call" /\ caller[c].pc = "gate" =>
         caller[c].policy \in {Lets, Bars(caller[c].target)}
    /\ caller[c].kind = "llm_call" => caller[c].pc # "signoff"
    /\ caller[c].pc = "ledger" => caller[c].kind = "llm_call" /\ caller[c].cost \in Actuals

\* No two callers are in one call, and what is not decided is not logged.
OwnCalls ==
  /\ \A c \in Callers : caller[c].pc # "free" => caller[c].call \in 1..calls
  /\ \A c, d \in Callers : c # d /\ caller[c].pc # "free" /\ caller[d].pc # "free" =>
       caller[c].call # caller[d].call
  /\ \A c \in Callers : caller[c].pc \in {"gate", "signoff"} =>
       caller[c].call \notin ran /\ \A l \in log : l.call # caller[c].call
  /\ \A c \in Callers : caller[c].pc = "signoff" => caller[c].decision = "require_signoff"
  /\ \A c \in Callers : caller[c].pc = "run" =>
       \A l \in log : l.call = caller[c].call => l.outcome = "approved"

\* The cap is exceeded by what is in flight at most, and what was blocked
\* did not run; with what makes both inductive.
GateSound ==
  GateTypeOK /\ Room /\ ModelCalls /\ OwnCalls /\ CapHolds /\ BlockedNeverRuns
=============================================================================
