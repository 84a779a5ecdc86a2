------------------------------ MODULE Scanners ------------------------------
(***************************************************************************)
(* What a scan of one payload says, and when it may be believed: the five  *)
(* scanners, the chain of custody around the two that run outside the      *)
(* process (the stage-2 container and the stage-5 judge), the aggregate of *)
(* run_pipeline and the security projection that gives it credit.  Scores  *)
(* and severities are in hundredths.                                       *)
(***************************************************************************)
EXTENDS Integers, Sequences, FiniteSets, FiniteSetsExt, SequencesExt

CONSTANTS
  Contents,    \* payloads, by their bytes
  CodesOf,     \* what the rules of stages 1, 3 and 4 find in a payload: a bag of codes
  FilesOf,     \* the paths of a payload's files
  Normal,      \* the normalised path of a path, or "refused"
  ConfigNames  \* paths that would configure the stage-2 engine

Stages == 1..5

\* How often each code is found.
IsFindings(found) == \A c \in DOMAIN found : found[c] \in Nat \ {0}

ASSUME ScannersAssumption == \A b \in Contents : IsFindings(CodesOf[b])

-----------------------------------------------------------------------------
(* Findings.                                                               *)

StaticSeverity ==
  [dangerous_tool |-> 95, unlisted_tool |-> 40, binary_executable |-> 95,
   binary_blob |-> 60, shell_script |-> 60, dynamic_exec |-> 85,
   obfuscated_blob |-> 60, network_call |-> 30, oversized |-> 20]

SecretSeverity ==
  [private_key |-> 95, aws_access_key |-> 95, github_token |-> 95, slack_token |-> 95,
   credential_assignment |-> 90, jwt |-> 70, internal_url |-> 50, private_ip |-> 40,
   ssn |-> 85, credit_card |-> 60]

ProbeSeverity ==
  [injection |-> 95, exfiltration |-> 95, scope_violation |-> 95, tool_abuse |-> 95]

AuditSeverity == [critical |-> 95, high |-> 90, medium |-> 50, low |-> 20, info |-> 5]

\* A scan result that measured something: a code counts as often as it is found.
ResultFrom(stage, found, severity) ==
  LET codes == DOMAIN found \cap DOMAIN severity
      weight == [c \in codes |-> found[c] * severity[c]]
      penalty == MapThenSumSet(LAMBDA c : weight[c], codes)
  IN [stage |-> stage, score |-> IF penalty > 100 THEN 0 ELSE 100 - penalty,
      hard |-> \E c \in codes : severity[c] >= 90, skipped |-> FALSE]

\* A stage that did not happen: a finding of severity 0 and a full score.
Skipped(stage) == [stage |-> stage, score |-> 100, hard |-> FALSE, skipped |-> TRUE]

Static(b) == ResultFrom(1, CodesOf[b], StaticSeverity)

Probe(b) == ResultFrom(3, CodesOf[b], ProbeSeverity)

Secrets(b) == ResultFrom(4, CodesOf[b], SecretSeverity)

-----------------------------------------------------------------------------
(* Stage 2.  A host h has a policy, a staging tree and an engine:          *)
(*   configured, approved, digest, pack: the supply chain                  *)
(*   engine: "error", "timeout" or "runs"                                  *)
(*   unseen: the files the engine does not analyse                         *)
(*   silent: it does not report them as skipped                            *)
(*   found:  its findings, a bag of severities                             *)

\* Mutant: the chain need not be approved.
PreflightUnapproved(h) == h.digest /\ h.pack

Preflight(h) == h.approved /\ h.digest /\ h.pack

\* The files staged for the engine; configuration is withheld.
Planned(b) == {"SKILL.md"} \cup ({Normal[p] : p \in FilesOf[b]} \ ConfigNames)

StagingRefused(b) ==
  \/ \E p \in FilesOf[b] : Normal[p] \in {"refused", "SKILL.md"}
  \/ \E p, q \in FilesOf[b] : p # q /\ Normal[p] = Normal[q]

\* What the engine reports, in the shape the adapter expects.
EngineReport(b, h) ==
  [analyzed |-> IF h.engine = "timeout" THEN {} ELSE Planned(b) \ h.unseen,
   skipped  |-> IF h.engine = "timeout" \/ h.silent THEN {} ELSE Planned(b) \cap h.unseen,
   timedOut |-> h.engine = "timeout",
   found    |-> IF h.engine = "timeout" THEN <<>> ELSE h.found]

\* Mutant: what was analysed is not compared with what was staged.
ReportHoldsUncovered(report, expected) ==
  ~report.timedOut /\ report.skipped = {} /\ DOMAIN report.found \subseteq DOMAIN AuditSeverity

ReportHolds(report, expected) ==
  /\ ~report.timedOut
  /\ report.skipped = {}
  /\ report.analyzed = expected
  /\ DOMAIN report.found \subseteq DOMAIN AuditSeverity

Audit(b, h) ==
  IF /\ h.configured /\ Preflight(h)
     /\ ~StagingRefused(b)
     /\ h.engine # "error"
     /\ ReportHolds(EngineReport(b, h), Planned(b))
  THEN ResultFrom(2, EngineReport(b, h).found, AuditSeverity)
  ELSE Skipped(2)

\* What happened on the host, whatever the adapter made of it: the approved
\* engine ran to its end and saw the body and every file, each under a path
\* of its own, but for the configuration that is withheld from it.
Looked(b, h) ==
  /\ h.configured /\ h.approved /\ h.digest /\ h.pack
  /\ h.engine = "runs"
  /\ "SKILL.md" \notin h.unseen
  /\ \A p \in FilesOf[b] : Normal[p] \notin ConfigNames =>
       /\ Normal[p] \notin {"refused", "SKILL.md"} \cup h.unseen
       /\ \A q \in FilesOf[b] : Normal[q] = Normal[p] => q = p

-----------------------------------------------------------------------------
(* Stage 5.  A judge j has a history of kappas, and a policy, a daemon and *)
(* a reply, which is 101 when it is no score at all.                       *)

\* The latest kappa is under the floor, or well under the best of the three
\* before it.
Drifted(kappas) ==
  LET latest == Last(kappas)
      before == {kappas[i] : i \in {k \in DOMAIN kappas : k < Len(kappas) /\ k + 3 >= Len(kappas)}}
  IN latest < 60 \/ (before # {} /\ Max(before) >= latest + 10)

Uncalibrated(j) == j.kappas = <<>> \/ Drifted(j.kappas)

\* Mutant: the model's digest is not compared with the policy's.
OllamaUnpinned(j) == ~j.approved \/ ~j.loopback \/ j.reply > 100

OllamaRefuses(j) == ~j.approved \/ ~j.loopback \/ ~j.pinned \/ j.reply > 100

Judge(j) ==
  IF Uncalibrated(j) \/ j.sameFamily \/ OllamaRefuses(j) THEN Skipped(5)
  ELSE [stage |-> 5, score |-> j.reply, hard |-> FALSE, skipped |-> FALSE]

\* What happened: another family's approved, local and pinned model gave a
\* score, and it had last been found to agree with people, as well as before.
Heard(j) ==
  /\ j.approved /\ j.loopback /\ j.pinned /\ j.reply \in 0..100
  /\ ~j.sameFamily
  /\ j.kappas # <<>> /\ Last(j.kappas) >= 60
  /\ \A i \in DOMAIN j.kappas : i + 3 >= Len(j.kappas) => j.kappas[i] < Last(j.kappas) + 10

-----------------------------------------------------------------------------
(* The aggregate.                                                          *)

\* Mutant: a stage that was skipped has not failed.
StatusOfScore(r) == IF r.hard THEN "failed" ELSE "passed"

Status(r) ==
  CASE r.skipped /\ r.stage = 2 -> "not_run"
    [] r.skipped /\ r.stage = 5 -> "not_sampled"
    [] OTHER -> IF r.hard THEN "failed" ELSE "passed"

Sampled(status) == status \in {"passed", "failed"}

\* The lowest score that was measured.
Aggregate(records) ==
  LET measured == {s.score : s \in {r \in records : Sampled(r.status)}}
  IN IF measured = {} THEN 100 ELSE Min(measured)

\* Mutant: one good stage makes up for a bad one.
BestVerdict(records) == IF \E r \in records : r.score >= 80 THEN "approve" ELSE "reject"

Verdict(records) ==
  LET hard == \E r \in records : r.hard
  IN CASE hard \/ Aggregate(records) < 50    -> "reject"
       [] ~hard /\ Aggregate(records) >= 80  -> "approve"
       [] OTHER                              -> "request-changes"

\* The security projection of an aggregate over these scans: status "passed".
Credited(verdict, judged, required, records) ==
  /\ {r.stage : r \in records} = Stages
  /\ \A r \in records : r.stage # 5 => r.status = "passed"
  /\ \A r \in records : ~r.hard
  /\ judged = required
  /\ \A r \in records : r.stage = 5 =>
       r.status \in (IF required THEN {"passed"} ELSE {"passed", "not_sampled"})
  /\ verdict = "approve"
  /\ Aggregate(records) >= 80
=============================================================================
