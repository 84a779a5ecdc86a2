-------------------------- MODULE VerdictRegister --------------------------
(* What the full-suite producer promises its readers: one register that    *)
(* holds the verdict of the newest run. A run opens it, which withdraws    *)
(* the verdict before, and settles it. A run that was interrupted settles  *)
(* as a failure; a verdict of an older run never comes back.               *)
EXTENDS Naturals

CONSTANT Runs

VARIABLES open, settled, passed

\* open = 0 when no run is open; settled = 0 before the first verdict;
\* passed is the set of runs whose suite was seen to pass.
RegisterInit == open = 0 /\ settled = [run |-> 0, verdict |-> "none"] /\ passed = {}

Pass(n) == passed' = passed \cup {n} /\ UNCHANGED <<open, settled>>

Open(n) ==
  /\ open = 0
  /\ n > settled.run
  /\ open' = n
  /\ settled' = [run |-> 0, verdict |-> "none"]
  /\ UNCHANGED passed

Settle(v) ==
  /\ open # 0
  /\ v = "pass" => open \in passed
  /\ settled' = [run |-> open, verdict |-> v]
  /\ open' = 0
  /\ UNCHANGED passed

RegisterNext ==
  \/ \E n \in Runs : Open(n) \/ Pass(n)
  \/ \E v \in {"pass", "fail"} : Settle(v)

RegisterSpec == RegisterInit /\ [][RegisterNext]_<<open, settled, passed>>
=============================================================================
