---------------------------- MODULE SuiteVerdict ----------------------------
(* From the reports pytest makes of each test to the verdict of a run: the *)
(* reporter plugin, the process that runs it, and the rule for a pass.     *)
EXTENDS Naturals, Sequences, FiniteSets, FiniteSetsExt

CONSTANT Tests

ASSUME TestsAssumption == IsFiniteSet(Tests)

Report(when, outcome, xfail) == [when |-> when, outcome |-> outcome, xfail |-> xfail]

\* What pytest reports of the phases of one test: it may fail or be skipped in its setup,
\* and fail in its teardown after whatever came before.
Setups == {Report("setup", "failed", FALSE), Report("setup", "skipped", FALSE), Report("setup", "skipped", TRUE)}
Calls == {Report("call", o, FALSE) : o \in {"passed", "failed", "skipped"}}
         \cup {Report("call", o, TRUE) : o \in {"passed", "skipped"}}
Teardowns == {Report("teardown", o, FALSE) : o \in {"passed", "failed"}}

SetUp == Report("setup", "passed", FALSE)

\* A test that was torn down, and one whose next phase ended the session: nothing is
\* reported of a phase in which the session is stopped.
Whole ==
  {<<s, t>> : s \in Setups, t \in Teardowns} \cup {<<SetUp, c, t>> : c \in Calls, t \in Teardowns}

Cut == {<<SetUp>>} \cup {<<s>> : s \in Setups} \cup {<<SetUp, c>> : c \in Calls}

Behaviours == {<<>>} \cup Cut \cup Whole

\* How the process ended. It may hang or overflow its log before or after the plugin
\* wrote, or end without the report.
Endings == {"normal", "stopped", "no_report", "launch_failed", "timeout", "hung_after_report", "limit"}

\* The tests run one after the other. An error in collection stops the session before the
\* first, and a session that ends by itself has run every test to its end.
Suites ==
  {s \in [tests : [Tests -> Behaviours], deselected : BOOLEAN, collectionError : BOOLEAN, ending : Endings] :
     /\ s.collectionError => \A t \in Tests : s.tests[t] = <<>>
     /\ s.ending = "normal" /\ ~s.collectionError => \A t \in Tests : s.tests[t] \in Whole
     /\ \A t, u \in Tests : {s.tests[t], s.tests[u]} \subseteq Cut => t = u}

Failed(s) == s.collectionError \/ \E t \in Tests : \E i \in DOMAIN s.tests[t] : s.tests[t][i].outcome = "failed"

\* The exit status of pytest, normalised, or the code the producer puts in its place;
\* a session that is told to stop chooses its own status.
PytestExit(s) == IF Failed(s) THEN 1 ELSE 0

ExecutePytest(s) ==
  CASE s.ending = "launch_failed" -> [exit |-> 255, reason |-> "runner_launch_failed"]
    [] s.ending \in {"timeout", "hung_after_report"} -> [exit |-> 124, reason |-> "runner_timeout"]
    [] s.ending = "limit" -> [exit |-> 125, reason |-> "test_output_limit_exceeded"]
    [] s.ending \in {"stopped", "no_report"} -> [exit |-> 0, reason |-> "none"]
    [] OTHER -> [exit |-> PytestExit(s), reason |-> "none"]

-----------------------------------------------------------------------------
(* The reporter plugin.                                                    *)

\* Mutant: the teardown is not looked at.
LogReportToCall(r) ==
  CASE r.when = "setup" /\ r.outcome = "failed" -> "errors"
    [] r.when \in {"setup", "call"} /\ r.outcome = "skipped" -> IF r.xfail THEN "xfailed" ELSE "skipped"
    [] r.when = "call" /\ r.outcome = "passed" -> IF r.xfail THEN "xpassed" ELSE "passed"
    [] r.when = "call" /\ r.outcome = "failed" -> "failed"
    [] OTHER -> "not_run"

\* The state a report gives its test; "not_run" for one that leaves the state alone.
LogReport(r) ==
  CASE r.when \in {"setup", "teardown"} /\ r.outcome = "failed" -> "errors"
    [] r.when \in {"setup", "call"} /\ r.outcome = "skipped" -> IF r.xfail THEN "xfailed" ELSE "skipped"
    [] r.when = "call" /\ r.outcome = "passed" -> IF r.xfail THEN "xpassed" ELSE "passed"
    [] r.when = "call" /\ r.outcome = "failed" -> "failed"
    [] OTHER -> "not_run"

\* The last report that gives a state decides.
TestState(reports) ==
  LET telling == {i \in DOMAIN reports : LogReport(reports[i]) # "not_run"}
  IN  IF telling = {} THEN "not_run"
      ELSE LogReport(reports[CHOOSE i \in telling : \A j \in telling : j <= i])

Count(s, state) == Cardinality({t \in Tests : TestState(s.tests[t]) = state})

States == {"passed", "failed", "errors", "skipped", "xfailed", "xpassed", "not_run"}

\* The document written at the end of the session, with the status pytest ends with.
SessionFinish(s) ==
  [exit |-> IF s.ending = "stopped" THEN 0 ELSE PytestExit(s),
   collected |-> Cardinality(Tests),
   counts |-> [state \in States |-> Count(s, state)],
   deselected |-> s.deselected, collectionError |-> s.collectionError]

-----------------------------------------------------------------------------
(* The verdict.                                                            *)

\* A report counts when it is there, names the exit status of the process, and its counts
\* add up to the tests that were collected.
ReportComplete(s) ==
  LET d == SessionFinish(s)
  IN  /\ s.ending \in {"normal", "stopped", "hung_after_report", "limit"}
      /\ d.exit = ExecutePytest(s).exit
      /\ d.collected = FoldSet(LAMBDA state, n : n + d.counts[state], 0, States)

ShouldPass(s) ==
  LET d == SessionFinish(s)
      r == ExecutePytest(s)
  IN  /\ ReportComplete(s) /\ r.reason = "none" /\ r.exit = 0
      /\ d.collected > 0
      /\ \A state \in {"failed", "errors", "not_run"} : d.counts[state] = 0
      /\ ~d.collectionError /\ ~d.deselected

Verdict(s) == IF ShouldPass(s) THEN "pass" ELSE "fail"

HasOutcome(b) == \E i \in DOMAIN b : b[i].when = "call" \/ (b[i].when = "setup" /\ b[i].outcome = "skipped")

\* What a pass stands for: every test was collected and came to its call or was skipped
\* before it, no phase of any test failed, and the process ended by itself. All tests were
\* torn down as well, but for the last one when the session was stopped in its teardown
\* with a status of success: the reporter cannot tell that one.
SuitePassed(s) ==
  /\ s.ending \in {"normal", "stopped"} /\ Tests # {} /\ ~s.deselected /\ ~Failed(s)
  /\ \A t \in Tests : HasOutcome(s.tests[t])
  /\ \A t, u \in Tests :
       s.tests[t] \notin Whole /\ s.tests[u] \notin Whole => t = u /\ s.ending = "stopped"

\* The verdicts a run may end with, and whether its suite passed.
Results == {[verdict |-> Verdict(s), passes |-> SuitePassed(s)] : s \in Suites}
=============================================================================
