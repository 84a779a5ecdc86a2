-------------------------- MODULE FullSuiteProofs --------------------------
(***************************************************************************)
(* Proofs about the full-suite evidence: whatever producers, readers,      *)
(* kills and file errors there are, readers see one register of verdicts   *)
(* and the next producer can repair what was left.                         *)
(***************************************************************************)
EXTENDS FullSuite, FiniteSetTheorems, TLAPS

-----------------------------------------------------------------------------
(* The inductive invariant.                                                *)

\* One producer at most is at work, on the newest run.
Exclusive ==
  \A p \in Producers :
    /\ pc[p] # "idle" <=> lock = p
    /\ lock = p => run[p] = started /\ started # 0
    /\ lock # p => verdict[p] = "none"

\* The files, whoever is at work on them or died there.
FilesInv ==
  /\ Documented \subseteq logs
  /\ \A n \in Strays \cap orphans : n = marker \/ <<"orphan", n>> \in linked
  /\ latest # 0 => docs[latest] # "none"
  /\ marker = 0 /\ latest = 0 => Documented = {}
  /\ \A n \in Runs : docs[n] = "pass" => n \in passed
  /\ \A n \in logs \cup orphans \cup Documented \cup {marker, latest} : n <= started

\* The newest run has left nothing yet.
Unused(n) == n \notin logs /\ n \notin orphans /\ docs[n] = "none" /\ n # marker /\ n # latest

\* What a run in progress has marked.
Marked(n) == marker = n /\ docs[n] = "none"

Moving == {"temp", "link", "unlink"}

\* The six files a producer writes or moves, and what it knows then.
RecoversLog(p) ==
  /\ job[p].file = "log" /\ job[p].id = marker /\ job[p].next = "interrupted"
  /\ marker # 0 /\ docs[marker] = "none" /\ (pc[p] = "unlink" => marker \in logs)

RecoversDoc(p) ==
  /\ job[p].file = "doc" /\ job[p].id = marker /\ job[p].next = "orphans"
  /\ marker # 0 /\ marker \in logs /\ verdict[p] = "fail"
  /\ pc[p] = "unlink" => docs[marker] # "none"

RecoversStray(p) ==
  /\ job[p].file = "orphan" /\ job[p].next = "orphans" /\ pc[p] # "temp"
  /\ job[p].id \in Runs /\ job[p].id < run[p] /\ docs[job[p].id] = "none"
  /\ marker # 0 => docs[marker] # "none"

WritesLog(p) ==
  /\ job[p].file = "log" /\ job[p].id = run[p] /\ job[p].next = "document" /\ pc[p] # "temp"
  /\ Marked(run[p]) /\ run[p] \notin orphans /\ verdict[p] # "none"
  /\ pc[p] = "unlink" => run[p] \in logs

WritesDoc(p) ==
  /\ job[p].file = "doc" /\ job[p].id = run[p] /\ job[p].next = "publish"
  /\ marker = run[p] /\ run[p] \in logs /\ verdict[p] # "none"
  /\ pc[p] = "unlink" => docs[run[p]] # "none"

AbandonsLog(p) ==
  /\ job[p].file = "orphan" /\ job[p].id = run[p] /\ job[p].next = "release" /\ pc[p] # "temp"
  /\ docs[run[p]] = "none"

\* What the producer at work knows of the files.
Stage(p) ==
  /\ verdict[p] = "pass" => run[p] \in passed
  /\ pc[p] \in Moving =>
       \/ RecoversLog(p) \/ RecoversDoc(p) \/ RecoversStray(p)
       \/ WritesLog(p) \/ WritesDoc(p) \/ AbandonsLog(p)
  /\ \/ pc[p] \in {"clean", "scan", "interrupted", "orphans", "point", "unmark", "probe", "lease", "mark"}
     \/ pc[p] \in Moving /\ job[p].next \in {"interrupted", "orphans"}
     => Unused(run[p])
  /\ pc[p] = "interrupted" => marker # 0 /\ docs[marker] = "none" /\ marker \in logs
  /\ pc[p] \in {"orphans", "point"} => (marker # 0 => docs[marker] # "none")
  /\ pc[p] = "unmark" => marker # 0 /\ latest = marker /\ docs[marker] # "none"
  /\ pc[p] \in {"probe", "lease", "mark"} => marker = 0
  /\ pc[p] \in {"launch", "suite"} => Marked(run[p]) /\ run[p] \notin orphans
  /\ pc[p] = "document" => Marked(run[p]) /\ run[p] \in logs /\ verdict[p] # "none"
  /\ pc[p] = "publish" => marker = run[p] /\ docs[run[p]] # "none"
  /\ pc[p] = "completed" => marker = run[p] /\ latest = run[p] /\ docs[run[p]] # "none"

Stages == \A p \in Producers : pc[p] # "idle" => Stage(p)

\* The newest verdict was authoritative while the reader read, or is not yet.
ReadersInv ==
  \A r \in Readers :
    /\ answer[r] # 0 => reading[r] = "idle" /\ answer[r] \in seen[r]
    /\ reading[r] # "idle" => latest \in seen[r] \/ (latest = marker /\ marker # 0)
    /\ reading[r] \in {"chain", "again", "marker"} => got[r] \in seen[r] \/ got[r] = latest

SuiteInv == TypeOK /\ Exclusive /\ FilesInv /\ Stages /\ ReadersInv

-----------------------------------------------------------------------------
(* The verdict.                                                            *)

\* The state of a test is what its last telling report says.
LEMMA LastTells ==
  ASSUME NEW b, DOMAIN b \subseteq Nat, NEW k \in DOMAIN b, LogReport(b[k]) # "not_run",
         \A j \in DOMAIN b : j > k => LogReport(b[j]) = "not_run"
  PROVE  TestState(b) = LogReport(b[k])
<1> DEFINE telling == {i \in DOMAIN b : LogReport(b[i]) # "not_run"}
           last == CHOOSE i \in telling : \A j \in telling : j <= i
<1>1. k \in telling /\ \A j \in telling : j <= k
  OBVIOUS
<1>2. last \in telling /\ \A j \in telling : j <= last
  BY <1>1
<1>3. last = k
  BY <1>1, <1>2
<1>4. TestState(b) = LogReport(b[last])
  BY <1>1 DEF TestState
<1> QED
  BY <1>3, <1>4

LEMMA NoneTells ==
  ASSUME NEW b, \A j \in DOMAIN b : LogReport(b[j]) = "not_run"
  PROVE  TestState(b) = "not_run"
BY DEF TestState

LEMMA PhasesAre ==
  /\ \A s \in Setups : s.when = "setup" /\ s.outcome \in {"failed", "skipped"}
  /\ \A c \in Calls : c.when = "call" /\ c.outcome \in {"passed", "failed", "skipped"}
  /\ \A t \in Teardowns : t.when = "teardown" /\ t.outcome \in {"passed", "failed"}
  /\ SetUp.when = "setup" /\ SetUp.outcome = "passed"
BY DEF Setups, Calls, Teardowns, SetUp, Report

\* What a report tells of its test.
LEMMA Tells ==
  /\ LogReport(SetUp) = "not_run"
  /\ \A s \in Setups : LogReport(s) # "not_run" /\ (s.outcome = "failed" => LogReport(s) = "errors")
  /\ \A c \in Calls : LogReport(c) # "not_run" /\ (c.outcome = "failed" => LogReport(c) = "failed")
  /\ \A t \in Teardowns :
       /\ t.outcome = "failed" => LogReport(t) = "errors"
       /\ t.outcome # "failed" => LogReport(t) = "not_run"
BY PhasesAre DEF LogReport

\* A test that counts neither as failed nor as left came to its outcome, and no report of
\* it says otherwise.
LEMMA StateIsEarned ==
  ASSUME NEW b \in Behaviours, TestState(b) \notin {"failed", "errors", "not_run"}
  PROVE  /\ \A i \in DOMAIN b : b[i].outcome # "failed"
         /\ HasOutcome(b) /\ b # <<>>
<1>1. CASE b \in {<<>>, <<SetUp>>}
  <2>1. \A j \in DOMAIN b : LogReport(b[j]) = "not_run"
    BY <1>1, Tells
  <2> QED
    BY <2>1, NoneTells
<1>2. CASE \E s \in Setups : b = <<s>>
  <2>1. PICK s \in Setups : b = <<s>>
    BY <1>2
  <2>2. DOMAIN b = {1} /\ b[1] = s
    BY <2>1
  <2>3. \A j \in DOMAIN b : ~ j > 1
    BY <2>2
  <2>4. s.when = "setup" /\ s.outcome = "skipped"
    BY <2>2, <2>3, LastTells, Tells, PhasesAre
  <2> QED
    BY <2>1, <2>2, <2>4 DEF HasOutcome
<1>3. CASE \E s \in Setups, t \in Teardowns : b = <<s, t>>
  <2>1. PICK s \in Setups, t \in Teardowns : b = <<s, t>>
    BY <1>3
  <2>2. DOMAIN b = {1, 2} /\ b[1] = s /\ b[2] = t
    BY <2>1
  <2>3. \A j \in DOMAIN b : ~ j > 2
    BY <2>2
  <2>4. t.outcome # "failed" /\ LogReport(t) = "not_run"
    BY <2>2, <2>3, LastTells, Tells
  <2>5. \A j \in DOMAIN b : j > 1 => LogReport(b[j]) = "not_run"
    BY <2>2, <2>4
  <2>6. s.when = "setup" /\ s.outcome = "skipped"
    BY <2>2, <2>5, LastTells, Tells, PhasesAre
  <2> QED
    BY <2>1, <2>2, <2>4, <2>6 DEF HasOutcome
<1>4. CASE \E c \in Calls : b = <<SetUp, c>>
  <2>1. PICK c \in Calls : b = <<SetUp, c>>
    BY <1>4
  <2>2. DOMAIN b = {1, 2} /\ b[1] = SetUp /\ b[2] = c
    BY <2>1
  <2>3. \A j \in DOMAIN b : ~ j > 2
    BY <2>2
  <2>4. c.when = "call" /\ c.outcome # "failed"
    BY <2>2, <2>3, LastTells, Tells, PhasesAre
  <2> QED
    BY <2>1, <2>2, <2>4, PhasesAre DEF HasOutcome
<1>5. CASE \E c \in Calls, t \in Teardowns : b = <<SetUp, c, t>>
  <2>1. PICK c \in Calls, t \in Teardowns : b = <<SetUp, c, t>>
    BY <1>5
  <2>2. DOMAIN b = {1, 2, 3} /\ b[1] = SetUp /\ b[2] = c /\ b[3] = t
    BY <2>1
  <2>3. \A j \in DOMAIN b : ~ j > 3
    BY <2>2
  <2>4. t.outcome # "failed" /\ LogReport(t) = "not_run"
    BY <2>2, <2>3, LastTells, Tells
  <2>5. \A j \in DOMAIN b : j > 2 => LogReport(b[j]) = "not_run"
    BY <2>2, <2>4
  <2>6. c.when = "call" /\ c.outcome # "failed"
    BY <2>2, <2>5, LastTells, Tells, PhasesAre
  <2> QED
    BY <2>1, <2>2, <2>4, <2>6, PhasesAre DEF HasOutcome
<1> QED
  BY <1>1, <1>2, <1>3, <1>4, <1>5 DEF Behaviours, Cut, Whole

\* A verdict is a pass only for a suite that passed.
LEMMA PassIsEarned ==
  ASSUME NEW result \in Results
  PROVE  /\ result.verdict \in {"pass", "fail"}
         /\ result.verdict = "pass" => result.passes
<1>1. PICK s \in Suites : result = [verdict |-> Verdict(s), passes |-> SuitePassed(s)]
  BY DEF Results
<1>2. Verdict(s) \in {"pass", "fail"} /\ (Verdict(s) = "pass" => ShouldPass(s))
  BY DEF Verdict
<1>3. ASSUME ShouldPass(s)
      PROVE  SuitePassed(s)
  <2>1. /\ ExecutePytest(s).reason = "none" /\ ExecutePytest(s).exit = 0
        /\ Cardinality(Tests) > 0 /\ ~ s.deselected /\ ~ s.collectionError
        /\ \A state \in {"failed", "errors", "not_run"} : Count(s, state) = 0
    BY <1>3 DEF ShouldPass, SessionFinish, States
  <2>2. s.ending \in {"normal", "stopped"}
    BY <1>3, <2>1 DEF ExecutePytest, ShouldPass, ReportComplete
  <2>3. Tests # {}
    BY <2>1, FS_EmptySet
  <2>4. ASSUME NEW t \in Tests
        PROVE  TestState(s.tests[t]) \notin {"failed", "errors", "not_run"}
    <3>1. ASSUME NEW state \in {"failed", "errors", "not_run"}, TestState(s.tests[t]) = state
          PROVE  FALSE
      <4>1. IsFiniteSet({u \in Tests : TestState(s.tests[u]) = state})
        BY TestsAssumption, FS_Subset
      <4>2. {u \in Tests : TestState(s.tests[u]) = state} = {}
        BY <2>1, <4>1, FS_EmptySet DEF Count
      <4> QED
        BY <3>1, <4>2
    <3> QED
      BY <3>1
  <2>5. /\ \A t \in Tests : s.tests[t] \in Behaviours
        /\ s.ending = "normal" => \A t \in Tests : s.tests[t] \in Whole
        /\ \A t, u \in Tests : s.tests[t] \in Cut /\ s.tests[u] \in Cut => t = u
    BY <2>1 DEF Suites
  <2>6. ~ Failed(s)
    BY <2>1, <2>4, <2>5, StateIsEarned DEF Failed
  <2>7. \A t \in Tests : HasOutcome(s.tests[t]) /\ s.tests[t] \in Cut \cup Whole
    BY <2>4, <2>5, StateIsEarned DEF Behaviours
  <2> QED
    BY <2>1, <2>2, <2>3, <2>5, <2>6, <2>7 DEF SuitePassed
<1> QED
  BY <1>1, <1>2, <1>3

-----------------------------------------------------------------------------
(* Types.                                                                  *)

FileTypes ==
  /\ logs \subseteq Runs /\ orphans \subseteq Runs /\ docs \in [Runs -> {"none", "pass", "fail"}]
  /\ latest \in Runs \cup {0} /\ marker \in Runs \cup {0}
  /\ temps \subseteq Files \X Runs /\ linked \subseteq Files \X Runs

SharedTypes ==
  /\ suites \subseteq Runs /\ passed \subseteq Runs /\ started \in Runs \cup {0}
  /\ lock \in Producers \cup {"none"} /\ lease \in Producers \cup {"none", "other"}

Jobs == [Producers -> [file : Files \cup {"none"}, id : Runs \cup {0}, next : Labels]]

LocalTypes ==
  /\ pc \in [Producers -> Labels] /\ run \in [Producers -> Runs \cup {0}] /\ job \in Jobs
  /\ verdict \in [Producers -> {"none", "pass", "fail"}]

ReaderTypes ==
  /\ reading \in [Readers -> {"idle", "latest", "chain", "again", "marker"}]
  /\ got \in [Readers -> Runs \cup {0}] /\ answer \in [Readers -> Runs \cup {0}]
  /\ seen \in [Readers -> SUBSET (Runs \cup {0})]

LEMMA TypeParts ==
  TypeOK <=> FileTypes /\ SharedTypes /\ LocalTypes /\ ReaderTypes
BY DEF TypeOK, FileTypes, SharedTypes, LocalTypes, ReaderTypes, Jobs

LEMMA TypesTogether ==
  ASSUME FileTypes', SharedTypes', LocalTypes', ReaderTypes'
  PROVE  TypeOK'
BY DEF TypeOK, FileTypes, SharedTypes, LocalTypes, ReaderTypes, Jobs

\* What every step of a producer keeps.
ProducerInv == FileTypes /\ SharedTypes /\ LocalTypes /\ Exclusive /\ FilesInv /\ Stages

LEMMA RunsAre ==
  /\ Runs \subseteq Nat /\ 0 \notin Runs
  /\ \A n \in Runs \cup {0} : n < MaxRuns => n + 1 \in Runs
  /\ \A p \in Producers : p # "none"
BY ConstantsAssumption DEF Runs

\* The producer at work is alone.
AtWork(p, label) ==
  /\ pc[p] # "idle" /\ pc' = [pc EXCEPT ![p] = label] /\ label \in Labels \ {"idle"}
  /\ UNCHANGED <<run, lock, started>>

LEMMA Alone ==
  ASSUME ProducerInv, NEW p \in Producers, pc[p] # "idle"
  PROVE  /\ Stage(p) /\ lock = p /\ run[p] = started /\ started \in Runs
         /\ \A q \in Producers : pc[q] # "idle" => q = p
BY DEF ProducerInv, Exclusive, Stages, SharedTypes

LEMMA AtWorkKeeps ==
  ASSUME ProducerInv, NEW p \in Producers, NEW label, AtWork(p, label), Stage(p)',
         \A q \in Producers : q # p => verdict'[q] = verdict[q]
  PROVE  /\ Exclusive' /\ Stages' /\ pc' \in [Producers -> Labels]
         /\ run' \in [Producers -> Runs \cup {0}]
<1>1. /\ lock = p /\ run[p] = started /\ started \in Runs
      /\ \A q \in Producers : pc[q] # "idle" => q = p
  BY Alone DEF AtWork
<1>2. pc \in [Producers -> Labels] /\ run \in [Producers -> Runs \cup {0}]
  BY DEF ProducerInv, LocalTypes
<1>3. pc' \in [Producers -> Labels] /\ pc'[p] = label /\ \A q \in Producers : q # p => pc'[q] = pc[q]
  BY <1>2 DEF AtWork
<1>4. \A q \in Producers : pc'[q] # "idle" <=> q = p
  BY <1>1, <1>3 DEF AtWork
<1>5. Exclusive'
  BY <1>1, <1>4 DEF Exclusive, AtWork, ProducerInv
<1>6. Stages'
  BY <1>4 DEF Stages
<1> QED
  BY <1>2, <1>3, <1>5, <1>6 DEF AtWork

LEMMA SameFiles ==
  ASSUME ProducerInv, UNCHANGED <<files, passed>>, started' \in Nat, started <= started'
  PROVE  FileTypes' /\ FilesInv'
<1>1. FileTypes'
  BY DEF ProducerInv, FileTypes, files
<1>2. \A n \in logs \cup orphans \cup Documented \cup {marker, latest} : n \in Nat
  BY RunsAre DEF ProducerInv, FileTypes, Documented
<1>3. Documented' = Documented /\ Strays' = Strays
  BY DEF files, Documented, Strays
<1>4. started \in Nat
  BY RunsAre DEF ProducerInv, SharedTypes
<1>5. \A n \in logs \cup orphans \cup Documented \cup {marker, latest} : n <= started'
  BY <1>2, <1>4 DEF ProducerInv, FilesInv
<1> QED
  BY <1>1, <1>3, <1>5 DEF ProducerInv, FilesInv, files

\* The latest run and the marker change in four ways.
Moves ==
  \/ latest' = latest /\ (marker' = marker \/ marker' = 0 \/ marker = 0)
  \/ latest' = marker /\ marker' = marker /\ marker # 0

\* The evidence stays.
Immutable == \A n \in Documented : docs'[n] = docs[n] /\ (n \in logs => n \in logs')

Kept == ProducerInv' /\ Moves /\ Immutable

\* A step that leaves the files alone.
LEMMA QuietStep ==
  ASSUME ProducerInv, UNCHANGED <<files, passed, started, lock, run>>,
         NEW p \in Producers, NEW label, AtWork(p, label), Stage(p)',
         suites' \subseteq Runs, lease' \in Producers \cup {"none", "other"},
         job' \in Jobs, verdict' \in [Producers -> {"none", "pass", "fail"}],
         \A q \in Producers : q # p => verdict'[q] = verdict[q]
  PROVE  Kept
<1>1. started' \in Nat /\ started <= started'
  BY RunsAre DEF ProducerInv, SharedTypes
<1>2. FileTypes' /\ FilesInv'
  BY <1>1, SameFiles
<1>3. SharedTypes'
  BY DEF ProducerInv, SharedTypes
<1>4. LocalTypes' /\ Exclusive' /\ Stages'
  BY AtWorkKeeps DEF LocalTypes
<1>5. Moves /\ Immutable
  BY DEF Moves, Immutable, files
<1> QED
  BY <1>2, <1>3, <1>4, <1>5 DEF Kept, ProducerInv

\* A step on the files by the producer at work.
LEMMA FileStep ==
  ASSUME ProducerInv, NEW p \in Producers, NEW label, AtWork(p, label), Stage(p)',
         UNCHANGED <<job, verdict, lease, suites, passed>>, FileTypes', FilesInv'
  PROVE  ProducerInv'
<1>1. SharedTypes'
  BY DEF ProducerInv, SharedTypes, AtWork
<1>2. LocalTypes' /\ Exclusive' /\ Stages'
  BY AtWorkKeeps DEF ProducerInv, LocalTypes
<1> QED
  BY <1>1, <1>2 DEF ProducerInv

\* Any other step of the producer at work.
LEMMA WorkStep ==
  ASSUME ProducerInv, NEW p \in Producers, NEW label, AtWork(p, label), Stage(p)',
         FileTypes', FilesInv', SharedTypes',
         job' \in Jobs, verdict' \in [Producers -> {"none", "pass", "fail"}],
         \A q \in Producers : q # p => verdict'[q] = verdict[q]
  PROVE  ProducerInv'
<1>1. LocalTypes' /\ Exclusive' /\ Stages'
  BY AtWorkKeeps DEF LocalTypes
<1> QED
  BY <1>1 DEF ProducerInv

\* A step that gives up.
LEMMA GivesUp ==
  ASSUME ProducerInv, NEW p \in Producers, pc[p] # "idle", Goto(p, "finally"),
         UNCHANGED <<files, shared, run, job, verdict>>
  PROVE  Kept
<1>1. AtWork(p, "finally") /\ pc'[p] = "finally"
  BY DEF Goto, AtWork, Labels, ProducerInv, LocalTypes, shared
<1>2. Stage(p)
  BY Alone
<1>3. UNCHANGED <<passed, started, lock, suites, lease>>
  BY DEF shared
<1>4. Stage(p)'
  BY <1>1, <1>2, <1>3 DEF Stage, Moving
<1>5. /\ job' \in Jobs /\ verdict' \in [Producers -> {"none", "pass", "fail"}]
      /\ suites' \subseteq Runs /\ lease' \in Producers \cup {"none", "other"}
  BY <1>3 DEF ProducerInv, LocalTypes, SharedTypes
<1> QED
  BY <1>1, <1>3, <1>4, <1>5, QuietStep

\* A producer that begins to write or move a file.
LEMMA DoJobIs ==
  ASSUME ProducerInv, NEW p \in Producers, NEW stage, NEW file \in Files, NEW id \in Runs,
         NEW next \in Labels, DoJob(p, stage, file, id, next)
  PROVE  /\ job' \in Jobs /\ pc' = [pc EXCEPT ![p] = stage] /\ pc'[p] = stage
         /\ job'[p].file = file /\ job'[p].id = id /\ job'[p].next = next
<1>1. job \in Jobs /\ pc \in [Producers -> Labels]
  BY DEF ProducerInv, LocalTypes
<1>2. PICK j : j = [file |-> file, id |-> id, next |-> next]
  OBVIOUS
<1>3. j \in [file : Files \cup {"none"}, id : Runs \cup {0}, next : Labels]
  BY <1>2
<1>4. job' = [job EXCEPT ![p] = j] /\ pc' = [pc EXCEPT ![p] = stage]
  BY <1>2 DEF DoJob, Goto
<1>5. job' \in Jobs /\ job'[p] = j /\ pc'[p] = stage
  BY <1>1, <1>3, <1>4 DEF Jobs
<1> QED
  BY <1>2, <1>4, <1>5

-----------------------------------------------------------------------------
(* Files are written and moved.                                            *)

LEMMA JobIs ==
  ASSUME ProducerInv, NEW p \in Producers, pc[p] \in Moving
  PROVE  /\ job[p].file \in Files /\ job[p].id \in Runs /\ Job(p) \in Files \X Runs
         /\ job[p].next \in Labels \ {"idle"}
         /\ run[p] \in Runs /\ pc[p] # "idle"
<1>1. pc[p] # "idle" /\ Stage(p) /\ run[p] \in Runs
  BY Alone DEF Moving
<1>2. marker \in Runs \cup {0}
  BY DEF ProducerInv, FileTypes
<1>3. \/ RecoversLog(p) \/ RecoversDoc(p) \/ RecoversStray(p)
      \/ WritesLog(p) \/ WritesDoc(p) \/ AbandonsLog(p)
  BY <1>1 DEF Stage
<1>4. job[p].file \in Files /\ job[p].id \in Runs
  BY <1>1, <1>2, <1>3 DEF RecoversLog, RecoversDoc, RecoversStray, WritesLog, WritesDoc, AbandonsLog, Files
<1>5. job[p].next \in Labels \ {"idle"}
  BY <1>3 DEF RecoversLog, RecoversDoc, RecoversStray, WritesLog, WritesDoc, AbandonsLog, Labels
<1> QED
  BY <1>1, <1>4, <1>5 DEF Job

LEMMA WriteTempKept ==
  ASSUME ProducerInv, NEW p \in Producers, WriteTemp(p)
  PROVE  Kept
<1>1. AtWork(p, "link") /\ pc[p] = "temp" /\ pc'[p] = "link"
  BY DEF WriteTemp, Goto, AtWork, Labels, ProducerInv, LocalTypes, shared
<1>2. Job(p) \in Files \X Runs /\ Stage(p)
  BY <1>1, JobIs, Alone DEF Moving, AtWork
<1>3. /\ UNCHANGED <<logs, docs, orphans, latest, marker, linked>>
      /\ UNCHANGED <<job, verdict, run, lease, suites, passed, started>>
      /\ temps' = temps \cup {Job(p)}
  BY DEF WriteTemp, shared
<1>4. Stage(p)'
  BY <1>1, <1>2, <1>3 DEF Stage, Moving, RecoversLog, RecoversDoc, RecoversStray, WritesLog,
     WritesDoc, AbandonsLog, Unused, Marked
<1>5. FileTypes'
  BY <1>2, <1>3 DEF ProducerInv, FileTypes
<1>6. FilesInv'
  BY <1>3 DEF ProducerInv, FilesInv, Documented, Strays
<1>7. Moves /\ Immutable
  BY <1>3 DEF Moves, Immutable
<1> QED
  BY <1>1, <1>3, <1>4, <1>5, <1>6, <1>7, FileStep DEF Kept

LEMMA LinkKept ==
  ASSUME ProducerInv, NEW p \in Producers, Link(p)
  PROVE  Kept
<1>1. AtWork(p, "unlink") /\ pc[p] = "link" /\ pc'[p] = "unlink"
  BY DEF Link, Goto, AtWork, Labels, ProducerInv, LocalTypes, shared
<1>2. PICK id \in Runs : id = job[p].id
  BY <1>1, JobIs DEF Moving
<1>3. /\ Job(p) \in Files \X Runs /\ Job(p) = <<job[p].file, id>> /\ Stage(p)
      /\ run[p] = started /\ started \in Runs /\ run[p] \in Nat
  BY <1>1, <1>2, JobIs, Alone, RunsAre DEF Moving, AtWork, Job
<1>4. /\ UNCHANGED <<latest, marker, temps, job, verdict, run, lease, suites, passed, started>>
      /\ linked' = linked \cup {Job(p)} /\ ~ TargetExists(p)
      /\ logs' = IF job[p].file = "log" THEN logs \cup {id} ELSE logs
      /\ docs' = IF job[p].file = "doc" THEN [docs EXCEPT ![id] = verdict[p]] ELSE docs
      /\ orphans' = IF job[p].file = "orphan" THEN orphans \cup {id} ELSE orphans
  BY <1>2 DEF Link, shared
<1>5. FileTypes /\ FilesInv /\ verdict[p] \in {"none", "pass", "fail"} /\ marker \in Runs \cup {0}
  BY DEF ProducerInv, LocalTypes, FileTypes
<1>6. ASSUME NEW n \in Runs, n <= started, docs' = docs,
             \/ logs' = logs \cup {n} /\ orphans' = orphans /\ (n \in orphans => n = marker)
             \/ logs' = logs /\ orphans' = orphans \cup {n} /\ <<"orphan", n>> \in linked'
      PROVE  FileTypes' /\ FilesInv' /\ Moves /\ Immutable
  <2>1. FileTypes'
    BY <1>3, <1>4, <1>5, <1>6 DEF FileTypes
  <2>2. Documented' = Documented
    BY <1>6 DEF Documented
  <2>3. FilesInv'
    BY <1>4, <1>5, <1>6, <2>2 DEF FilesInv, Strays
  <2>4. Moves /\ Immutable
    BY <1>4, <1>6 DEF Moves, Immutable
  <2> QED
    BY <2>1, <2>3, <2>4
<1>7. ASSUME NEW n \in Runs, n \in logs, docs[n] = "none", verdict[p] # "none",
             verdict[p] = "pass" => n \in passed,
             logs' = logs, orphans' = orphans, docs' = [docs EXCEPT ![n] = verdict[p]], marker # 0
      PROVE  FileTypes' /\ FilesInv' /\ Moves /\ Immutable
  <2>1. FileTypes'
    BY <1>3, <1>4, <1>5, <1>7 DEF FileTypes
  <2>2. /\ docs'[n] = verdict[p] /\ \A m \in Runs : m # n => docs'[m] = docs[m]
        /\ Documented' = Documented \cup {n}
    BY <1>5, <1>7 DEF FileTypes, Documented
  <2>3. latest # 0 => docs'[latest] # "none"
    BY <1>5, <1>7, <2>2 DEF FilesInv, FileTypes
  <2>4. \A m \in Runs : docs'[m] = "pass" => m \in passed
    BY <1>5, <1>7, <2>2 DEF FilesInv
  <2>5. FilesInv'
    BY <1>4, <1>5, <1>7, <2>2, <2>3, <2>4 DEF FilesInv, Strays
  <2>6. Moves /\ Immutable
    BY <1>4, <1>7, <2>2 DEF Moves, Immutable, Documented
  <2> QED
    BY <2>1, <2>5, <2>6
<1>8. CASE RecoversLog(p)
  <2>1. logs' = logs \cup {marker} /\ docs' = docs /\ orphans' = orphans /\ id = marker
    BY <1>2, <1>4, <1>8 DEF RecoversLog
  <2>2. FileTypes' /\ FilesInv' /\ Moves /\ Immutable
    BY <1>5, <1>6, <2>1 DEF FilesInv
  <2>3. Stage(p)'
    BY <1>1, <1>3, <1>4, <1>8, <2>1 DEF Stage, Moving, RecoversLog, Unused
  <2> QED
    BY <1>1, <1>4, <2>2, <2>3, FileStep DEF Kept
<1>9. CASE RecoversDoc(p)
  <2>1. docs' = [docs EXCEPT ![marker] = "fail"] /\ logs' = logs /\ orphans' = orphans /\ id = marker
    BY <1>2, <1>4, <1>9 DEF RecoversDoc
  <2>2. docs[marker] = "none"
    BY <1>2, <1>4, <1>9 DEF RecoversDoc, TargetExists
  <2>3. FileTypes' /\ FilesInv' /\ Moves /\ Immutable
    BY <1>7, <1>9, <2>1, <2>2 DEF RecoversDoc
  <2>4. docs'[marker] = "fail" /\ \A m \in Runs : m # marker => docs'[m] = docs[m]
    BY <1>5, <2>1 DEF FileTypes
  <2>5. Stage(p)'
    BY <1>1, <1>3, <1>4, <1>9, <2>1, <2>4 DEF Stage, Moving, RecoversDoc, Unused
  <2> QED
    BY <1>1, <1>4, <2>3, <2>5, FileStep DEF Kept
<1>10. CASE RecoversStray(p)
  <2>1. docs' = docs /\ logs' = logs /\ orphans' = orphans \cup {id}
    BY <1>4, <1>10 DEF RecoversStray
  <2>2. id < run[p] /\ <<"orphan", id>> \in linked' /\ id <= started
    <3>1. id < run[p] /\ Job(p) = <<"orphan", id>>
      BY <1>2, <1>3, <1>10 DEF RecoversStray
    <3>2. id <= started
      BY <1>3, <3>1, RunsAre
    <3>3. Job(p) \in linked'
      BY <1>4
    <3> QED
      BY <3>1, <3>2, <3>3
  <2>3. FileTypes' /\ FilesInv' /\ Moves /\ Immutable
    BY <1>6, <2>1, <2>2
  <2>4. Stage(p)'
    BY <1>1, <1>2, <1>3, <1>4, <1>10, <2>1, <2>2 DEF Stage, Moving, RecoversStray, Unused
  <2> QED
    BY <1>1, <1>4, <2>3, <2>4, FileStep DEF Kept
<1>11. CASE WritesLog(p)
  <2>1. docs' = docs /\ logs' = logs \cup {run[p]} /\ orphans' = orphans /\ id = run[p]
    BY <1>2, <1>4, <1>11 DEF WritesLog
  <2>2. FileTypes' /\ FilesInv' /\ Moves /\ Immutable
    <3>1. id <= started /\ id \notin orphans
      BY <1>3, <1>11, <2>1 DEF WritesLog
    <3>2. logs' = logs \cup {id}
      BY <2>1
    <3> QED
      BY <1>6, <2>1, <3>1, <3>2
  <2>3. Stage(p)'
    BY <1>1, <1>3, <1>4, <1>11, <2>1 DEF Stage, Moving, WritesLog, Marked
  <2> QED
    BY <1>1, <1>4, <2>2, <2>3, FileStep DEF Kept
<1>12. CASE WritesDoc(p)
  <2>1. docs' = [docs EXCEPT ![id] = verdict[p]] /\ logs' = logs /\ orphans' = orphans /\ id = run[p]
    BY <1>2, <1>4, <1>12 DEF WritesDoc
  <2>2. docs[id] = "none"
    BY <1>2, <1>4, <1>12 DEF WritesDoc, TargetExists
  <2>3. marker # 0 /\ id \in logs /\ verdict[p] # "none" /\ (verdict[p] = "pass" => id \in passed)
    BY <1>2, <1>3, <1>12, <2>1, RunsAre DEF WritesDoc, Stage
  <2>4. FileTypes' /\ FilesInv' /\ Moves /\ Immutable
    BY <1>7, <2>1, <2>2, <2>3
  <2>5. docs'[run[p]] = verdict[p]
    BY <1>5, <2>1 DEF FileTypes
  <2>6. Stage(p)'
    BY <1>1, <1>3, <1>4, <1>12, <2>1, <2>5 DEF Stage, Moving, WritesDoc
  <2> QED
    BY <1>1, <1>4, <2>4, <2>6, FileStep DEF Kept
<1>13. CASE AbandonsLog(p)
  <2>1. docs' = docs /\ logs' = logs /\ orphans' = orphans \cup {id} /\ id = run[p]
    BY <1>2, <1>4, <1>13 DEF AbandonsLog
  <2>2. <<"orphan", id>> \in linked' /\ id <= started
    BY <1>2, <1>3, <1>4, <1>13, <2>1 DEF AbandonsLog
  <2>3. FileTypes' /\ FilesInv' /\ Moves /\ Immutable
    BY <1>6, <2>1, <2>2
  <2>4. Stage(p)'
    BY <1>1, <1>3, <1>4, <1>13, <2>1 DEF Stage, Moving, AbandonsLog
  <2> QED
    BY <1>1, <1>4, <2>3, <2>4, FileStep DEF Kept
<1> QED
  BY <1>1, <1>3, <1>8, <1>9, <1>10, <1>11, <1>12, <1>13 DEF Stage, Moving

LEMMA UnlinkKept ==
  ASSUME ProducerInv, NEW p \in Producers, Unlink(p)
  PROVE  Kept
<1>1. PICK next \in Labels \ {"idle"} : next = job[p].next
  BY JobIs DEF Unlink, Moving
<1>2. AtWork(p, next) /\ pc[p] = "unlink" /\ pc'[p] = next
  BY <1>1 DEF Unlink, Goto, AtWork, ProducerInv, LocalTypes, shared
<1>3. PICK id \in Runs : id = job[p].id
  BY <1>2, JobIs DEF Moving
<1>4. /\ Job(p) = <<job[p].file, id>> /\ Stage(p) /\ run[p] \in Runs
  BY <1>2, <1>3, JobIs, Alone DEF Moving, AtWork, Job
<1>5. /\ UNCHANGED <<latest, marker, docs, orphans, job, verdict, run, lease, suites, passed, started>>
      /\ linked' = linked \ {Job(p)} /\ temps' = temps \ {Job(p)}
      /\ logs' = IF job[p].file = "orphan" THEN logs \ {id} ELSE logs
  BY <1>3 DEF Unlink, shared
<1>6. FileTypes /\ FilesInv
  BY DEF ProducerInv
<1>7. FileTypes'
  BY <1>5, <1>6 DEF FileTypes
<1>8. Documented' = Documented /\ Moves
  BY <1>5 DEF Documented, Moves
<1>9. ASSUME job[p].file = "orphan" => docs[id] = "none"
      PROVE  FilesInv' /\ Immutable
  <2>1. CASE job[p].file = "orphan"
    <3>1. logs' = logs \ {id} /\ linked' = linked \ {<<"orphan", id>>} /\ id \notin Documented
      BY <1>4, <1>5, <1>9, <2>1 DEF Documented
    <3>2. \A n \in Strays' \cap orphans' : n = marker' \/ <<"orphan", n>> \in linked'
      BY <1>5, <1>6, <1>8, <3>1 DEF FilesInv, Strays
    <3> QED
      BY <1>5, <1>6, <1>8, <3>1, <3>2 DEF FilesInv, Immutable
  <2>2. CASE job[p].file # "orphan"
    <3>1. logs' = logs /\ \A n : <<"orphan", n>> \in linked => <<"orphan", n>> \in linked'
      BY <1>4, <1>5, <2>2
    <3> QED
      BY <1>5, <1>6, <1>8, <3>1 DEF FilesInv, Strays, Immutable
  <2> QED
    BY <2>1, <2>2
<1>10. FilesInv' /\ Immutable
  BY <1>2, <1>3, <1>4, <1>9 DEF Stage, Moving, RecoversLog, RecoversDoc, RecoversStray, WritesLog, WritesDoc,
     AbandonsLog
<1>11. Stage(p)'
  <2>1. CASE RecoversLog(p)
    BY <1>1, <1>2, <1>4, <1>5, <2>1 DEF Stage, Moving, RecoversLog, Unused
  <2>2. CASE RecoversDoc(p)
    BY <1>1, <1>2, <1>4, <1>5, <2>2 DEF Stage, Moving, RecoversDoc, Unused
  <2>3. CASE RecoversStray(p)
    BY <1>1, <1>2, <1>4, <1>5, <2>3 DEF Stage, Moving, RecoversStray, Unused
  <2>4. CASE WritesLog(p)
    BY <1>1, <1>2, <1>4, <1>5, <2>4 DEF Stage, Moving, WritesLog, Marked
  <2>5. CASE WritesDoc(p)
    BY <1>1, <1>2, <1>4, <1>5, <2>5 DEF Stage, Moving, WritesDoc
  <2>6. CASE AbandonsLog(p)
    BY <1>1, <1>2, <1>4, <1>5, <2>6 DEF Stage, Moving, AbandonsLog
  <2> QED
    BY <1>2, <1>4, <2>1, <2>2, <2>3, <2>4, <2>5, <2>6 DEF Stage, Moving
<1> QED
  BY <1>2, <1>5, <1>7, <1>8, <1>10, <1>11, FileStep DEF Kept

\* A step that only forgets names of files that nothing depends on.
LEMMA Forget ==
  ASSUME ProducerInv, UNCHANGED <<logs, docs, orphans, latest, marker, passed, started>>,
         temps' \subseteq Files \X Runs, linked' \subseteq linked,
         \A n \in Runs : <<"orphan", n>> \in linked => <<"orphan", n>> \in linked'
  PROVE  FileTypes' /\ FilesInv' /\ Moves /\ Immutable
<1>1. FileTypes'
  BY DEF ProducerInv, FileTypes
<1>2. Documented' = Documented /\ Strays' = Strays
  BY DEF Documented, Strays
<1>3. \A n \in Strays' \cap orphans' : n = marker' \/ <<"orphan", n>> \in linked'
  BY <1>2 DEF ProducerInv, FilesInv, FileTypes
<1>4. FilesInv'
  BY <1>2, <1>3 DEF ProducerInv, FilesInv
<1> QED
  BY <1>1, <1>4 DEF Moves, Immutable

LEMMA FileErrorKept ==
  ASSUME ProducerInv, NEW p \in Producers, FileError(p)
  PROVE  Kept
<1>1. PICK label \in {"release", "finally"} : AtWork(p, label) /\ pc'[p] = label
  BY DEF FileError, Goto, AtWork, Labels, ProducerInv, LocalTypes, shared
<1>2. UNCHANGED <<logs, docs, orphans, latest, marker, job, verdict, run, lease, suites, passed, started>>
  BY DEF FileError, shared
<1>3. PICK left : temps' = temps \ left /\ linked' = linked \ {j \in left : j[1] # "orphan"}
  BY DEF FileError
<1>4. temps' \subseteq Files \X Runs
  BY <1>3 DEF ProducerInv, FileTypes
<1>5. linked' \subseteq linked /\ \A n \in Runs : <<"orphan", n>> \in linked => <<"orphan", n>> \in linked'
  BY <1>3
<1>6. Stage(p)'
  BY <1>1, <1>2, Alone DEF AtWork, Stage, Moving
<1>7. FileTypes' /\ FilesInv' /\ Moves /\ Immutable
  BY <1>2, <1>4, <1>5, Forget
<1> QED
  BY <1>1, <1>2, <1>6, <1>7, FileStep DEF Kept

-----------------------------------------------------------------------------
(* The lock, and recovery of what earlier producers left.                  *)

LEMMA BeginKept ==
  ASSUME ProducerInv, NEW p \in Producers, Begin(p)
  PROVE  Kept
<1>1. /\ lock = "none" /\ lock' = p /\ pc[p] = "idle" /\ started < MaxRuns /\ started' = started + 1
      /\ run' = [run EXCEPT ![p] = started + 1] /\ pc' = [pc EXCEPT ![p] = "clean"]
      /\ UNCHANGED <<files, lease, suites, passed, job, verdict>>
  BY DEF Begin, Goto
<1>2. started' \in Runs /\ started \in Nat /\ started < started' /\ started' # 0
  BY <1>1, RunsAre DEF ProducerInv, SharedTypes
<1>3. FileTypes' /\ FilesInv'
  BY <1>1, <1>2, RunsAre, SameFiles
<1>4. SharedTypes'
  BY <1>1, <1>2 DEF ProducerInv, SharedTypes
<1>5. LocalTypes'
  BY <1>1, <1>2 DEF ProducerInv, LocalTypes, Labels
<1>6. /\ pc'[p] = "clean" /\ run'[p] = started'
      /\ \A q \in Producers : pc'[q] # "idle" <=> q = p
  BY <1>1, RunsAre DEF ProducerInv, LocalTypes, Exclusive
<1>7. Exclusive'
  BY <1>1, <1>2, <1>6, RunsAre DEF Exclusive, ProducerInv
<1>8. Unused(started')
  <2>1. \A n \in logs \cup orphans \cup Documented \cup {marker, latest} : n # started'
    BY <1>2, RunsAre DEF ProducerInv, FilesInv, FileTypes, Documented
  <2>2. docs[started'] = "none"
    BY <1>2, <2>1 DEF Documented
  <2> QED
    BY <2>1, <2>2 DEF Unused
<1>9. Unused(run[p])'
  BY <1>1, <1>6, <1>8 DEF Unused, files
<1>10. verdict'[p] = "pass" => run'[p] \in passed'
  BY <1>1, RunsAre DEF ProducerInv, Exclusive
<1>11. Stage(p)'
  BY <1>6, <1>9, <1>10 DEF Stage, Moving
<1>12. Stages'
  BY <1>6, <1>11 DEF Stages
<1>13. Moves /\ Immutable
  BY <1>1 DEF Moves, Immutable, files
<1> QED
  BY <1>3, <1>4, <1>5, <1>7, <1>12, <1>13 DEF Kept, ProducerInv

LEMMA CleanTempsKept ==
  ASSUME ProducerInv, NEW p \in Producers, CleanTemps(p)
  PROVE  Kept
<1>1. AtWork(p, "scan") /\ pc[p] = "clean" /\ pc'[p] = "scan"
  BY DEF CleanTemps, Goto, AtWork, Labels, ProducerInv, LocalTypes, shared
<1>2. UNCHANGED <<logs, docs, orphans, latest, marker, job, verdict, run, lease, suites, passed, started>>
  BY DEF CleanTemps, shared
<1>3. Stage(p)
  BY <1>1, Alone
<1>4. Stage(p)'
  BY <1>1, <1>2, <1>3 DEF Stage, Moving, Unused
<1>5. temps' = {} /\ linked' = {j \in linked : j[1] = "orphan"}
  BY DEF CleanTemps
<1>6. FileTypes' /\ FilesInv' /\ Moves /\ Immutable
  BY <1>2, <1>5, Forget
<1> QED
  BY <1>1, <1>2, <1>4, <1>6, FileStep DEF Kept

LEMMA ScanFilesKept ==
  ASSUME ProducerInv, NEW p \in Producers, ScanFiles(p)
  PROVE  Kept
<1>1. pc[p] = "scan" /\ UNCHANGED <<files, shared, run, verdict>>
  BY DEF ScanFiles
<1>2. Stage(p) /\ Unused(run[p])
  BY <1>1, Alone DEF Stage
<1>3. UNCHANGED <<passed, started, lock, suites, lease>>
  BY <1>1 DEF shared
<1>4. /\ job \in Jobs /\ verdict' \in [Producers -> {"none", "pass", "fail"}] /\ pc \in [Producers -> Labels]
      /\ suites' \subseteq Runs /\ lease' \in Producers \cup {"none", "other"}
  BY <1>1, <1>3 DEF ProducerInv, LocalTypes, SharedTypes
<1>5. CASE Goto(p, "finally") /\ UNCHANGED job
  BY <1>1, <1>5, GivesUp
<1>6. CASE Goto(p, "interrupted") /\ UNCHANGED job /\ marker # 0 /\ docs[marker] = "none" /\ marker \in logs
  <2>1. AtWork(p, "interrupted") /\ pc'[p] = "interrupted"
    BY <1>1, <1>3, <1>4, <1>6 DEF Goto, AtWork, Labels
  <2>2. Stage(p)'
    BY <1>1, <1>2, <1>3, <1>6, <2>1 DEF Stage, Moving, Unused, files
  <2> QED
    BY <1>1, <1>3, <1>4, <1>6, <2>1, <2>2, QuietStep
<1>7. CASE DoJob(p, "temp", "log", marker, "interrupted") /\ marker # 0 /\ docs[marker] = "none"
  <2>1. marker \in Runs
    BY <1>7 DEF ProducerInv, FileTypes
  <2>2. /\ job' \in Jobs /\ pc' = [pc EXCEPT ![p] = "temp"] /\ pc'[p] = "temp"
        /\ job'[p].file = "log" /\ job'[p].id = marker /\ job'[p].next = "interrupted"
    BY <1>7, <2>1, DoJobIs DEF Files, Labels
  <2>3. AtWork(p, "temp")
    BY <1>1, <1>3, <2>2 DEF AtWork, Labels
  <2>4. RecoversLog(p)' /\ Unused(run[p])'
    BY <1>1, <1>2, <1>7, <2>2 DEF RecoversLog, Unused, files
  <2>5. Stage(p)'
    BY <1>1, <1>2, <1>3, <2>2, <2>4 DEF Stage, Moving
  <2> QED
    BY <1>1, <1>3, <1>4, <2>2, <2>3, <2>5, QuietStep
<1>8. CASE Goto(p, "orphans") /\ UNCHANGED job /\ (marker # 0 => docs[marker] # "none")
  <2>1. AtWork(p, "orphans") /\ pc'[p] = "orphans"
    BY <1>1, <1>3, <1>4, <1>8 DEF Goto, AtWork, Labels
  <2>2. Stage(p)'
    BY <1>1, <1>2, <1>3, <1>8, <2>1 DEF Stage, Moving, Unused, files
  <2> QED
    BY <1>1, <1>3, <1>4, <1>8, <2>1, <2>2, QuietStep
<1> QED
  BY <1>5, <1>6, <1>7, <1>8 DEF ScanFiles

LEMMA RecordInterruptedKept ==
  ASSUME ProducerInv, NEW p \in Producers, RecordInterrupted(p)
  PROVE  Kept
<1>1. /\ pc[p] = "interrupted" /\ verdict' = [verdict EXCEPT ![p] = "fail"]
      /\ DoJob(p, "temp", "doc", marker, "orphans") /\ UNCHANGED <<files, shared, run>>
  BY DEF RecordInterrupted
<1>2. Stage(p) /\ Unused(run[p]) /\ marker # 0 /\ docs[marker] = "none" /\ marker \in logs
  BY <1>1, Alone DEF Stage
<1>3. UNCHANGED <<passed, started, lock, suites, lease>>
  BY <1>1 DEF shared
<1>4. /\ verdict \in [Producers -> {"none", "pass", "fail"}]
      /\ suites' \subseteq Runs /\ lease' \in Producers \cup {"none", "other"} /\ marker \in Runs
  BY <1>2, <1>3 DEF ProducerInv, LocalTypes, SharedTypes, FileTypes
<1>5. /\ job' \in Jobs /\ pc' = [pc EXCEPT ![p] = "temp"] /\ pc'[p] = "temp"
      /\ job'[p].file = "doc" /\ job'[p].id = marker /\ job'[p].next = "orphans"
  BY <1>1, <1>4, DoJobIs DEF Files, Labels
<1>6. AtWork(p, "temp")
  BY <1>1, <1>3, <1>5 DEF AtWork, Labels
<1>7. /\ verdict' \in [Producers -> {"none", "pass", "fail"}] /\ verdict'[p] = "fail"
      /\ \A q \in Producers : q # p => verdict'[q] = verdict[q]
  BY <1>1, <1>4
<1>8. RecoversDoc(p)' /\ Unused(run[p])'
  BY <1>1, <1>2, <1>5, <1>7 DEF RecoversDoc, Unused, files
<1>9. Stage(p)'
  BY <1>5, <1>7, <1>8 DEF Stage, Moving
<1> QED
  BY <1>1, <1>3, <1>4, <1>5, <1>6, <1>7, <1>9, QuietStep

LEMMA QuarantineStrayKept ==
  ASSUME ProducerInv, NEW p \in Producers, QuarantineStray(p)
  PROVE  Kept
<1>1. pc[p] = "orphans" /\ UNCHANGED <<files, shared, run, verdict>>
  BY DEF QuarantineStray
<1>2. Stage(p) /\ Unused(run[p]) /\ (marker # 0 => docs[marker] # "none") /\ run[p] = started
  BY <1>1, Alone DEF Stage
<1>3. UNCHANGED <<passed, started, lock, suites, lease>>
  BY <1>1 DEF shared
<1>4. /\ job \in Jobs /\ verdict' \in [Producers -> {"none", "pass", "fail"}] /\ pc \in [Producers -> Labels]
      /\ suites' \subseteq Runs /\ lease' \in Producers \cup {"none", "other"}
  BY <1>1, <1>3 DEF ProducerInv, LocalTypes, SharedTypes
<1>5. CASE Goto(p, "finally") /\ UNCHANGED job
  BY <1>1, <1>5, GivesUp
<1>6. CASE Goto(p, "point") /\ UNCHANGED job
  <2>1. AtWork(p, "point") /\ pc'[p] = "point"
    BY <1>1, <1>3, <1>4, <1>6 DEF Goto, AtWork, Labels
  <2>2. Stage(p)'
    BY <1>1, <1>2, <1>3, <1>6, <2>1 DEF Stage, Moving, Unused, files
  <2> QED
    BY <1>1, <1>3, <1>4, <1>6, <2>1, <2>2, QuietStep
<1>7. ASSUME NEW n \in Strays, DoJob(p, "link", "orphan", n, "orphans")
      PROVE  Kept
  <2>1. n \in Runs /\ docs[n] = "none" /\ n \in logs
    BY DEF Strays, Documented, ProducerInv, FileTypes
  <2>2. n < run[p]
    <3>1. n <= started /\ n # run[p] /\ n \in Nat
      BY <1>2, <2>1, RunsAre DEF ProducerInv, FilesInv, Unused
    <3>2. started \in Nat
      BY RunsAre DEF ProducerInv, SharedTypes
    <3> QED
      BY <1>2, <3>1, <3>2
  <2>3. /\ job' \in Jobs /\ pc' = [pc EXCEPT ![p] = "link"] /\ pc'[p] = "link"
        /\ job'[p].file = "orphan" /\ job'[p].id = n /\ job'[p].next = "orphans"
    BY <1>7, <2>1, DoJobIs DEF Files, Labels
  <2>4. AtWork(p, "link")
    BY <1>1, <1>3, <2>3 DEF AtWork, Labels
  <2>5. RecoversStray(p)' /\ Unused(run[p])'
    BY <1>1, <1>2, <2>1, <2>2, <2>3 DEF RecoversStray, Unused, files
  <2>6. Stage(p)'
    BY <1>1, <1>2, <1>3, <2>3, <2>5 DEF Stage, Moving
  <2> QED
    BY <1>1, <1>3, <1>4, <2>3, <2>4, <2>6, QuietStep
<1> QED
  BY <1>5, <1>6, <1>7 DEF QuarantineStray

LEMMA RepairLatestKept ==
  ASSUME ProducerInv, NEW p \in Producers, RepairLatest(p)
  PROVE  Kept
<1>1. pc[p] = "point" /\ UNCHANGED <<logs, docs, orphans, marker, temps, linked, shared, run, job, verdict>>
  BY DEF RepairLatest
<1>2. Stage(p) /\ Unused(run[p]) /\ (marker # 0 => docs[marker] # "none")
  BY <1>1, Alone DEF Stage
<1>3. UNCHANGED <<passed, started, lock, suites, lease>>
  BY <1>1 DEF shared
<1>4. /\ job' \in Jobs /\ verdict' \in [Producers -> {"none", "pass", "fail"}] /\ pc \in [Producers -> Labels]
      /\ suites' \subseteq Runs /\ lease' \in Producers \cup {"none", "other"} /\ marker \in Runs \cup {0}
      /\ FileTypes /\ FilesInv
  BY <1>1, <1>3 DEF ProducerInv, LocalTypes, SharedTypes, FileTypes
<1>5. marker # 0 => marker \in Documented
  BY <1>2, <1>4 DEF Documented
<1>6. CASE Goto(p, "finally") /\ UNCHANGED latest
  BY <1>1, <1>6, GivesUp DEF files
<1>7. CASE Goto(p, "probe") /\ UNCHANGED latest /\ marker = 0
  <2>1. AtWork(p, "probe") /\ pc'[p] = "probe" /\ UNCHANGED files
    BY <1>1, <1>3, <1>4, <1>7 DEF Goto, AtWork, Labels, files
  <2>2. Stage(p)'
    BY <1>1, <1>2, <1>3, <1>7, <2>1 DEF Stage, Moving, Unused
  <2> QED
    BY <1>1, <1>3, <1>4, <1>7, <2>1, <2>2, QuietStep
<1>8. CASE Goto(p, "unmark") /\ latest' = marker /\ marker # 0
  <2>1. AtWork(p, "unmark") /\ pc'[p] = "unmark"
    BY <1>1, <1>3, <1>4, <1>8 DEF Goto, AtWork, Labels
  <2>2. Stage(p)'
    BY <1>1, <1>2, <1>3, <1>8, <2>1 DEF Stage, Moving, Unused
  <2>3. FileTypes'
    BY <1>1, <1>4, <1>8 DEF FileTypes
  <2>4. Documented' = Documented /\ Strays' = Strays
    BY <1>1 DEF Documented, Strays
  <2>5. FilesInv'
    BY <1>1, <1>2, <1>3, <1>4, <1>8, <2>4 DEF FilesInv
  <2>6. Moves /\ Immutable
    BY <1>1, <1>8 DEF Moves, Immutable
  <2> QED
    BY <1>1, <1>3, <2>1, <2>2, <2>3, <2>5, <2>6, FileStep DEF Kept
<1> QED
  BY <1>5, <1>6, <1>7, <1>8 DEF RepairLatest

LEMMA RemoveOldMarkerKept ==
  ASSUME ProducerInv, NEW p \in Producers, RemoveOldMarker(p)
  PROVE  Kept
<1>1. /\ pc[p] = "unmark" /\ Goto(p, "probe") /\ marker' = 0
      /\ UNCHANGED <<logs, docs, orphans, latest, temps, linked, shared, run, job, verdict>>
  BY DEF RemoveOldMarker
<1>2. Stage(p) /\ Unused(run[p]) /\ marker # 0 /\ latest = marker /\ docs[marker] # "none"
  BY <1>1, Alone DEF Stage
<1>3. UNCHANGED <<passed, started, lock, suites, lease>>
  BY <1>1 DEF shared
<1>4. FileTypes /\ FilesInv /\ pc \in [Producers -> Labels] /\ run[p] # 0
  BY <1>1, RunsAre, Alone DEF ProducerInv, LocalTypes
<1>5. AtWork(p, "probe") /\ pc'[p] = "probe"
  BY <1>1, <1>3, <1>4 DEF Goto, AtWork, Labels
<1>6. Stage(p)'
  BY <1>1, <1>2, <1>3, <1>4, <1>5 DEF Stage, Moving, Unused
<1>7. FileTypes'
  BY <1>1, <1>4 DEF FileTypes
<1>8. Documented' = Documented /\ Strays' = Strays /\ marker \notin Strays
  BY <1>1, <1>2, <1>4 DEF Documented, Strays, FileTypes
<1>9. \A n \in {marker'} : n <= started
  BY <1>1, <1>3, RunsAre DEF ProducerInv, SharedTypes
<1>10. FilesInv'
  BY <1>1, <1>2, <1>3, <1>4, <1>8, <1>9 DEF FilesInv
<1>11. Moves /\ Immutable
  BY <1>1 DEF Moves, Immutable
<1> QED
  BY <1>1, <1>3, <1>5, <1>6, <1>7, <1>10, <1>11, FileStep DEF Kept

-----------------------------------------------------------------------------
(* The run itself.                                                         *)

LEMMA ProbeRepositoryKept ==
  ASSUME ProducerInv, NEW p \in Producers, ProbeRepository(p)
  PROVE  Kept
<1>1. pc[p] = "probe" /\ UNCHANGED <<files, shared, run, job, verdict>>
  BY DEF ProbeRepository
<1>2. Stage(p) /\ Unused(run[p]) /\ marker = 0
  BY <1>1, Alone DEF Stage
<1>3. UNCHANGED <<passed, started, lock, suites, lease>>
  BY <1>1 DEF shared
<1>4. /\ job' \in Jobs /\ verdict' \in [Producers -> {"none", "pass", "fail"}] /\ pc \in [Producers -> Labels]
      /\ suites' \subseteq Runs /\ lease' \in Producers \cup {"none", "other"}
  BY <1>1, <1>3 DEF ProducerInv, LocalTypes, SharedTypes
<1>5. CASE Goto(p, "finally")
  BY <1>1, <1>5, GivesUp
<1>6. CASE Goto(p, "lease")
  <2>1. AtWork(p, "lease") /\ pc'[p] = "lease"
    BY <1>1, <1>3, <1>4, <1>6 DEF Goto, AtWork, Labels
  <2>2. Stage(p)'
    BY <1>1, <1>2, <1>3, <2>1 DEF Stage, Moving, Unused, files
  <2> QED
    BY <1>1, <1>3, <1>4, <2>1, <2>2, QuietStep
<1> QED
  BY <1>5, <1>6 DEF ProbeRepository

LEMMA LeaseDatabaseKept ==
  ASSUME ProducerInv, NEW p \in Producers, LeaseDatabase(p)
  PROVE  Kept
<1>1. pc[p] = "lease" /\ UNCHANGED <<files, lock, started, suites, passed, run, job, verdict>>
  BY DEF LeaseDatabase
<1>2. Stage(p) /\ Unused(run[p]) /\ marker = 0
  BY <1>1, Alone DEF Stage
<1>3. /\ job' \in Jobs /\ verdict' \in [Producers -> {"none", "pass", "fail"}] /\ pc \in [Producers -> Labels]
      /\ suites' \subseteq Runs /\ lease \in Producers \cup {"none", "other"}
  BY <1>1 DEF ProducerInv, LocalTypes, SharedTypes
<1>4. CASE Goto(p, "finally") /\ UNCHANGED lease
  BY <1>1, <1>4, GivesUp DEF shared
<1>5. CASE Goto(p, "mark") /\ lease' = p
  <2>1. AtWork(p, "mark") /\ pc'[p] = "mark" /\ lease' \in Producers \cup {"none", "other"}
    BY <1>1, <1>3, <1>5 DEF Goto, AtWork, Labels
  <2>2. Stage(p)'
    BY <1>1, <1>2, <2>1 DEF Stage, Moving, Unused, files
  <2> QED
    BY <1>1, <1>3, <2>1, <2>2, QuietStep
<1> QED
  BY <1>4, <1>5 DEF LeaseDatabase

LEMMA WriteMarkerKept ==
  ASSUME ProducerInv, NEW p \in Producers, WriteMarker(p)
  PROVE  Kept
<1>1. /\ pc[p] = "mark" /\ Goto(p, "launch") /\ marker' = run[p]
      /\ UNCHANGED <<logs, docs, orphans, latest, temps, linked, shared, run, job, verdict>>
  BY DEF WriteMarker
<1>2. Stage(p) /\ Unused(run[p]) /\ marker = 0 /\ run[p] = started /\ run[p] \in Runs /\ run[p] # 0
  BY <1>1, RunsAre, Alone DEF Stage
<1>3. UNCHANGED <<passed, started, lock, suites, lease>>
  BY <1>1 DEF shared
<1>4. FileTypes /\ FilesInv /\ pc \in [Producers -> Labels]
  BY DEF ProducerInv, LocalTypes
<1>5. AtWork(p, "launch") /\ pc'[p] = "launch"
  BY <1>1, <1>3, <1>4 DEF Goto, AtWork, Labels
<1>6. Marked(run[p])' /\ run'[p] \notin orphans'
  BY <1>1, <1>2 DEF Marked, Unused
<1>7. Stage(p)'
  BY <1>1, <1>2, <1>3, <1>5, <1>6 DEF Stage, Moving
<1>8. FileTypes'
  BY <1>1, <1>2, <1>4 DEF FileTypes
<1>9. Documented' = Documented /\ Strays' = Strays /\ 0 \notin Strays
  BY <1>1, <1>4, RunsAre DEF Documented, Strays, FileTypes
<1>10. \A n \in {marker'} : n <= started'
  <2>1. marker' = started /\ started' = started /\ started \in Nat
    BY <1>1, <1>2, <1>3, RunsAre
  <2> QED
    BY <2>1
<1>11. FilesInv'
  BY <1>1, <1>2, <1>3, <1>4, <1>9, <1>10 DEF FilesInv
<1>12. Moves /\ Immutable
  BY <1>1, <1>2 DEF Moves, Immutable
<1> QED
  BY <1>1, <1>3, <1>5, <1>7, <1>8, <1>11, <1>12, FileStep DEF Kept

LEMMA LaunchSuiteKept ==
  ASSUME ProducerInv, NEW p \in Producers, LaunchSuite(p)
  PROVE  Kept
<1>1. /\ pc[p] = "launch" /\ Goto(p, "suite") /\ temps' = temps \cup {<<"log", run[p]>>}
      /\ suites' = suites \cup {run[p]}
      /\ UNCHANGED <<logs, docs, orphans, latest, marker, linked, lock, lease, started, passed, run, job, verdict>>
  BY DEF LaunchSuite
<1>2. Stage(p) /\ Marked(run[p]) /\ run[p] \notin orphans /\ run[p] \in Runs
  BY <1>1, Alone DEF Stage
<1>3. /\ job' \in Jobs /\ verdict' \in [Producers -> {"none", "pass", "fail"}] /\ pc \in [Producers -> Labels]
      /\ SharedTypes /\ FileTypes /\ FilesInv
  BY <1>1 DEF ProducerInv, LocalTypes
<1>4. AtWork(p, "suite") /\ pc'[p] = "suite"
  BY <1>1, <1>3 DEF Goto, AtWork, Labels
<1>5. Stage(p)'
  BY <1>1, <1>2, <1>4 DEF Stage, Moving, Marked
<1>6. FileTypes'
  BY <1>1, <1>2, <1>3 DEF FileTypes, Files
<1>7. SharedTypes'
  BY <1>1, <1>2, <1>3 DEF SharedTypes
<1>8. FilesInv'
  BY <1>1, <1>3 DEF FilesInv, Documented, Strays
<1>9. Moves /\ Immutable
  BY <1>1 DEF Moves, Immutable
<1> QED
  BY <1>1, <1>3, <1>4, <1>5, <1>6, <1>7, <1>8, <1>9, WorkStep DEF Kept

LEMMA SuiteEndsKept ==
  ASSUME ProducerInv, NEW p \in Producers, SuiteEnds(p)
  PROVE  Kept
<1>1. /\ pc[p] = "suite" /\ suites' = suites \ {run[p]} /\ lease' = "none"
      /\ UNCHANGED <<files, lock, started, run>>
  BY DEF SuiteEnds
<1>2. PICK result \in Results :
        /\ verdict' = [verdict EXCEPT ![p] = result.verdict]
        /\ passed' = IF result.passes THEN passed \cup {run[p]} ELSE passed
        /\ \/ DoJob(p, "link", "log", run[p], "document")
           \/ Goto(p, "finally") /\ UNCHANGED job
  BY DEF SuiteEnds
<1>3. result.verdict \in {"pass", "fail"} /\ (result.verdict = "pass" => result.passes)
  BY PassIsEarned
<1>4. /\ Stage(p) /\ Marked(run[p]) /\ run[p] \notin orphans /\ run[p] \in Runs /\ lock = p
      /\ \A q \in Producers : pc[q] # "idle" => q = p
  BY <1>1, Alone DEF Stage
<1>5. /\ SharedTypes /\ FileTypes /\ FilesInv /\ pc \in [Producers -> Labels] /\ job \in Jobs
      /\ verdict \in [Producers -> {"none", "pass", "fail"}]
  BY DEF ProducerInv, LocalTypes
<1>6. /\ verdict' \in [Producers -> {"none", "pass", "fail"}]
      /\ verdict'[p] # "none" /\ (verdict'[p] = "pass" => run'[p] \in passed')
      /\ \A q \in Producers : q # p => verdict'[q] = verdict[q]
  BY <1>1, <1>2, <1>3, <1>5
<1>7. SharedTypes'
  BY <1>1, <1>2, <1>4, <1>5 DEF SharedTypes
<1>8. passed \subseteq passed'
  BY <1>2
<1>9. FileTypes'
  BY <1>1, <1>5 DEF FileTypes, files
<1>10. FilesInv'
  BY <1>1, <1>5, <1>8 DEF FilesInv, Documented, Strays, files
<1>11. Moves /\ Immutable
  BY <1>1 DEF Moves, Immutable, files
<1>12. CASE DoJob(p, "link", "log", run[p], "document")
  <2>1. /\ job' \in Jobs /\ pc' = [pc EXCEPT ![p] = "link"] /\ pc'[p] = "link"
        /\ job'[p].file = "log" /\ job'[p].id = run[p] /\ job'[p].next = "document"
    BY <1>4, <1>12, DoJobIs DEF Files, Labels
  <2>2. AtWork(p, "link")
    BY <1>1, <2>1 DEF AtWork, Labels
  <2>3. WritesLog(p)'
    BY <1>1, <1>4, <1>6, <2>1 DEF WritesLog, Marked, files
  <2>4. Stage(p)'
    BY <1>6, <2>1, <2>3 DEF Stage, Moving
  <2> QED
    BY <1>6, <1>7, <1>9, <1>10, <1>11, <2>1, <2>2, <2>4, WorkStep DEF Kept
<1>13. CASE Goto(p, "finally") /\ UNCHANGED job
  <2>1. AtWork(p, "finally") /\ pc'[p] = "finally"
    BY <1>1, <1>5, <1>13 DEF Goto, AtWork, Labels
  <2>2. Stage(p)'
    BY <1>6, <2>1 DEF Stage, Moving
  <2> QED
    BY <1>5, <1>6, <1>7, <1>9, <1>10, <1>11, <1>13, <2>1, <2>2, WorkStep DEF Kept
<1> QED
  BY <1>2, <1>12, <1>13

LEMMA WriteDocumentKept ==
  ASSUME ProducerInv, NEW p \in Producers, WriteDocument(p)
  PROVE  Kept
<1>1. /\ pc[p] = "document" /\ DoJob(p, "temp", "doc", run[p], "publish")
      /\ UNCHANGED <<files, shared, run, verdict>>
  BY DEF WriteDocument
<1>2. /\ Stage(p) /\ Marked(run[p]) /\ run[p] \in logs /\ verdict[p] # "none"
      /\ run[p] \in Runs
  BY <1>1, Alone DEF Stage
<1>3. UNCHANGED <<passed, started, lock, suites, lease>>
  BY <1>1 DEF shared
<1>4. /\ verdict' \in [Producers -> {"none", "pass", "fail"}]
      /\ suites' \subseteq Runs /\ lease' \in Producers \cup {"none", "other"}
  BY <1>1, <1>3 DEF ProducerInv, LocalTypes, SharedTypes
<1>5. /\ job' \in Jobs /\ pc' = [pc EXCEPT ![p] = "temp"] /\ pc'[p] = "temp"
      /\ job'[p].file = "doc" /\ job'[p].id = run[p] /\ job'[p].next = "publish"
  BY <1>1, <1>2, DoJobIs DEF Files, Labels
<1>6. AtWork(p, "temp")
  BY <1>1, <1>3, <1>5 DEF AtWork, Labels
<1>7. WritesDoc(p)'
  BY <1>1, <1>2, <1>5 DEF WritesDoc, Marked, files
<1>8. Stage(p)'
  BY <1>1, <1>2, <1>3, <1>5, <1>7 DEF Stage, Moving
<1> QED
  BY <1>1, <1>3, <1>4, <1>5, <1>6, <1>8, QuietStep

LEMMA WriteLatestKept ==
  ASSUME ProducerInv, NEW p \in Producers, WriteLatest(p)
  PROVE  Kept
<1>1. /\ pc[p] = "publish" /\ latest' = run[p] /\ Goto(p, "completed")
      /\ UNCHANGED <<logs, docs, orphans, marker, temps, linked, shared, run, job, verdict>>
  BY DEF WriteLatest
<1>2. Stage(p) /\ marker = run[p] /\ docs[run[p]] # "none" /\ run[p] \in Runs /\ run[p] # 0
  BY <1>1, RunsAre, Alone DEF Stage
<1>3. UNCHANGED <<passed, started, lock, suites, lease>>
  BY <1>1 DEF shared
<1>4. FileTypes /\ FilesInv /\ pc \in [Producers -> Labels]
  BY DEF ProducerInv, LocalTypes
<1>5. AtWork(p, "completed") /\ pc'[p] = "completed"
  BY <1>1, <1>3, <1>4 DEF Goto, AtWork, Labels
<1>6. Stage(p)'
  BY <1>1, <1>2, <1>3, <1>5 DEF Stage, Moving
<1>7. FileTypes'
  BY <1>1, <1>2, <1>4 DEF FileTypes
<1>8. Documented' = Documented /\ Strays' = Strays
  BY <1>1 DEF Documented, Strays
<1>9. FilesInv'
  BY <1>1, <1>2, <1>3, <1>4, <1>8 DEF FilesInv
<1>10. Moves /\ Immutable
  BY <1>1, <1>2 DEF Moves, Immutable
<1> QED
  BY <1>1, <1>3, <1>5, <1>6, <1>7, <1>9, <1>10, FileStep DEF Kept

LEMMA RemoveMarkerKept ==
  ASSUME ProducerInv, NEW p \in Producers, RemoveMarker(p)
  PROVE  Kept
<1>1. /\ pc[p] = "completed" /\ marker' \in {0, marker} /\ Goto(p, "release")
      /\ UNCHANGED <<logs, docs, orphans, latest, temps, linked, shared, run, job, verdict>>
  BY DEF RemoveMarker
<1>2. /\ Stage(p) /\ marker = run[p] /\ latest = run[p] /\ docs[run[p]] # "none"
      /\ run[p] \in Runs /\ run[p] # 0
  BY <1>1, RunsAre, Alone DEF Stage
<1>3. UNCHANGED <<passed, started, lock, suites, lease>>
  BY <1>1 DEF shared
<1>4. FileTypes /\ FilesInv /\ pc \in [Producers -> Labels]
  BY DEF ProducerInv, LocalTypes
<1>5. AtWork(p, "release") /\ pc'[p] = "release"
  BY <1>1, <1>3, <1>4 DEF Goto, AtWork, Labels
<1>6. Stage(p)'
  BY <1>1, <1>2, <1>3, <1>5 DEF Stage, Moving
<1>7. FileTypes'
  BY <1>1, <1>4 DEF FileTypes
<1>8. Documented' = Documented /\ Strays' = Strays /\ marker \notin Strays
  BY <1>1, <1>2, <1>4 DEF Documented, Strays, FileTypes
<1>9. \A n \in {marker'} : n <= started
  BY <1>1, <1>3, <1>4, RunsAre DEF ProducerInv, SharedTypes, FilesInv
<1>10. FilesInv'
  BY <1>1, <1>2, <1>3, <1>4, <1>8, <1>9 DEF FilesInv
<1>11. Moves /\ Immutable
  BY <1>1 DEF Moves, Immutable
<1> QED
  BY <1>1, <1>3, <1>5, <1>6, <1>7, <1>10, <1>11, FileStep DEF Kept

LEMMA AbandonKept ==
  ASSUME ProducerInv, NEW p \in Producers, Abandon(p)
  PROVE  Kept
<1>1. /\ pc[p] = "finally" /\ lease' \in {lease, "none"}
      /\ UNCHANGED <<logs, docs, orphans, latest, marker, lock, started, suites, passed, run, verdict>>
  BY DEF Abandon
<1>2. Stage(p) /\ run[p] \in Runs
  BY <1>1, Alone
<1>3. /\ SharedTypes /\ FileTypes /\ pc \in [Producers -> Labels] /\ job \in Jobs
      /\ verdict' \in [Producers -> {"none", "pass", "fail"}]
  BY <1>1 DEF ProducerInv, LocalTypes
<1>4. /\ temps' \subseteq Files \X Runs /\ linked' \subseteq linked
      /\ \A n \in Runs : <<"orphan", n>> \in linked => <<"orphan", n>> \in linked'
  <2>1. temps' = temps \ {<<"log", run[p]>>} /\ linked' = linked \ {<<"log", run[p]>>}
    BY DEF Abandon
  <2> QED
    BY <1>3, <2>1 DEF FileTypes
<1>5. FileTypes' /\ FilesInv' /\ Moves /\ Immutable
  BY <1>1, <1>4, Forget
<1>6. SharedTypes'
  BY <1>1, <1>3 DEF SharedTypes
<1>7. CASE run[p] \in Strays /\ DoJob(p, "link", "orphan", run[p], "release")
  <2>1. /\ job' \in Jobs /\ pc' = [pc EXCEPT ![p] = "link"] /\ pc'[p] = "link"
        /\ job'[p].file = "orphan" /\ job'[p].id = run[p] /\ job'[p].next = "release"
    BY <1>2, <1>7, DoJobIs DEF Files, Labels
  <2>2. AtWork(p, "link")
    BY <1>1, <2>1 DEF AtWork, Labels
  <2>3. AbandonsLog(p)'
    BY <1>1, <1>2, <1>7, <2>1 DEF AbandonsLog, Strays, Documented
  <2>4. Stage(p)'
    BY <1>1, <1>2, <2>1, <2>3 DEF Stage, Moving
  <2> QED
    BY <1>1, <1>3, <1>5, <1>6, <2>1, <2>2, <2>4, WorkStep DEF Kept
<1>8. CASE (Goto(p, "release") \/ Goto(p, "raised")) /\ UNCHANGED job
  <2>1. PICK label \in {"release", "raised"} : AtWork(p, label) /\ pc'[p] = label
    BY <1>1, <1>3, <1>8 DEF Goto, AtWork, Labels
  <2>2. Stage(p)'
    BY <1>1, <1>2, <2>1 DEF Stage, Moving
  <2> QED
    BY <1>1, <1>3, <1>5, <1>6, <1>8, <2>1, <2>2, WorkStep DEF Kept
<1> QED
  BY <1>7, <1>8 DEF Abandon

-----------------------------------------------------------------------------
(* A call ends, or is killed; what goes on beside it.                      *)

LEMMA EndsKept ==
  ASSUME ProducerInv, NEW p \in Producers, pc[p] # "idle", lock' = "none", Return(p),
         UNCHANGED <<files, started, suites, passed>>, lease' \in {lease, "none"}
  PROVE  Kept
<1>1. /\ pc' = [pc EXCEPT ![p] = "idle"] /\ run' = [run EXCEPT ![p] = 0]
      /\ job' = [job EXCEPT ![p] = NoJob] /\ verdict' = [verdict EXCEPT ![p] = "none"]
  BY DEF Return, Goto
<1>2. lock = p /\ \A q \in Producers : pc[q] # "idle" => q = p
  BY Alone
<1>3. /\ pc \in [Producers -> Labels] /\ job \in Jobs /\ SharedTypes
      /\ run \in [Producers -> Runs \cup {0}] /\ verdict \in [Producers -> {"none", "pass", "fail"}]
  BY DEF ProducerInv, LocalTypes
<1>4. started' \in Nat /\ started <= started'
  BY <1>3, RunsAre DEF SharedTypes
<1>5. FileTypes' /\ FilesInv'
  BY <1>4, SameFiles
<1>6. SharedTypes'
  BY <1>3 DEF SharedTypes
<1>7. NoJob \in [file : Files \cup {"none"}, id : Runs \cup {0}, next : Labels] /\ "idle" \in Labels
  BY DEF NoJob, Labels
<1>8. job' \in Jobs
  BY <1>1, <1>3, <1>7 DEF Jobs
<1>9. LocalTypes'
  BY <1>1, <1>3, <1>7, <1>8 DEF LocalTypes
<1>10. \A q \in Producers : pc'[q] = "idle" /\ verdict'[q] = "none"
  BY <1>1, <1>2, <1>3 DEF ProducerInv, Exclusive
<1>11. Exclusive' /\ Stages'
  BY <1>10, RunsAre DEF Exclusive, Stages
<1>12. Moves /\ Immutable
  BY DEF Moves, Immutable, files
<1> QED
  BY <1>5, <1>6, <1>9, <1>11, <1>12 DEF Kept, ProducerInv

LEMMA AsideKept ==
  ASSUME ProducerInv, UNCHANGED <<files, local, lock, started, passed>>,
         suites' \subseteq suites, lease' \in {lease, "none", "other"}
  PROVE  Kept
<1>1. UNCHANGED <<logs, docs, orphans, latest, marker, temps, linked, pc, run, job, verdict>>
  BY DEF files, local
<1>2. FileTypes' /\ SharedTypes' /\ LocalTypes' /\ Exclusive'
  BY <1>1 DEF ProducerInv, FileTypes, SharedTypes, LocalTypes, Exclusive
<1>3. FilesInv'
  BY <1>1 DEF ProducerInv, FilesInv, Documented, Strays
<1>4. ASSUME NEW q \in Producers
      PROVE  Stage(q)' <=> Stage(q)
  BY <1>1 DEF Stage, Moving, RecoversLog, RecoversDoc, RecoversStray, WritesLog, WritesDoc, AbandonsLog,
     Unused, Marked
<1>5. Stages'
  BY <1>1, <1>4 DEF ProducerInv, Stages
<1>6. Moves /\ Immutable
  BY <1>1 DEF Moves, Immutable
<1> QED
  BY <1>2, <1>3, <1>5, <1>6 DEF Kept, ProducerInv

-----------------------------------------------------------------------------
(* The invariant.                                                          *)

\* A step beside the readers.
ProducerStep ==
  \/ \E p \in Producers : Begin(p) \/ Step(p) \/ Kill(p)
  \/ \E n \in Runs : SuiteExits(n)
  \/ OtherCheckout

LEMMA ProducerStepKept ==
  ASSUME ProducerInv, ProducerStep
  PROVE  Kept
<1>1. ASSUME NEW p \in Producers, Step(p)
      PROVE  Kept
  <2>1. CASE WriteTemp(p) \/ Link(p) \/ Unlink(p) \/ FileError(p)
    BY <2>1, WriteTempKept, LinkKept, UnlinkKept, FileErrorKept
  <2>2. CASE CleanTemps(p) \/ ScanFiles(p) \/ RecordInterrupted(p) \/ QuarantineStray(p)
    BY <2>2, CleanTempsKept, ScanFilesKept, RecordInterruptedKept, QuarantineStrayKept
  <2>3. CASE RepairLatest(p) \/ RemoveOldMarker(p) \/ ProbeRepository(p) \/ LeaseDatabase(p)
    BY <2>3, RepairLatestKept, RemoveOldMarkerKept, ProbeRepositoryKept, LeaseDatabaseKept
  <2>4. CASE WriteMarker(p) \/ LaunchSuite(p) \/ SuiteEnds(p) \/ WriteDocument(p)
    BY <2>4, WriteMarkerKept, LaunchSuiteKept, SuiteEndsKept, WriteDocumentKept
  <2>5. CASE WriteLatest(p) \/ RemoveMarker(p) \/ Abandon(p)
    BY <2>5, WriteLatestKept, RemoveMarkerKept, AbandonKept
  <2>6. CASE Release(p) \/ Unwind(p)
    BY <2>6, EndsKept DEF Release, Unwind
  <2>7. CASE StepError(p)
    BY <2>7, GivesUp DEF StepError
  <2> QED
    BY <1>1, <2>1, <2>2, <2>3, <2>4, <2>5, <2>6, <2>7 DEF Step
<1>2. ASSUME NEW p \in Producers, Begin(p) \/ Kill(p)
      PROVE  Kept
  BY <1>2, BeginKept, EndsKept DEF Kill
<1>3. ASSUME NEW n \in Runs, SuiteExits(n)
      PROVE  Kept
  BY <1>3, AsideKept DEF SuiteExits
<1>4. CASE OtherCheckout
  BY <1>4, AsideKept DEF OtherCheckout
<1> QED
  BY <1>1, <1>2, <1>3, <1>4 DEF ProducerStep

\* What a reader's history records of a step.
LEMMA WatchIs ==
  ASSUME Watch, NEW r \in Readers
  PROVE  /\ reading[r] = "idle" /\ reading'[r] = "idle" => seen'[r] = seen[r]
         /\ ~(reading[r] = "idle" /\ reading'[r] = "idle") =>
              Authoritative \in seen'[r] /\ Authoritative' \in seen'[r]
         /\ reading[r] # "idle" => seen[r] \subseteq seen'[r]
BY DEF Watch

LEMMA SeenTyped ==
  ASSUME FileTypes, FileTypes', ReaderTypes, Watch
  PROVE  seen' \in [Readers -> SUBSET (Runs \cup {0})]
<1>1. Authoritative \in Runs \cup {0} /\ Authoritative' \in Runs \cup {0}
  BY DEF Authoritative, FileTypes
<1>2. \A r \in Readers : seen[r] \subseteq Runs \cup {0}
  BY DEF ReaderTypes
<1>3. ASSUME NEW r \in Readers
      PROVE  (IF reading[r] = "idle" /\ reading'[r] = "idle" THEN seen[r]
              ELSE (IF reading[r] = "idle" THEN {} ELSE seen[r]) \cup {Authoritative, Authoritative'})
             \in SUBSET (Runs \cup {0})
  BY <1>1, <1>2
<1> QED
  BY <1>3 DEF Watch

LEMMA ReadersWait ==
  ASSUME ReadersInv, Moves, Watch, UNCHANGED reader
  PROVE  ReadersInv'
<1>1. UNCHANGED <<reading, got, answer>>
  BY DEF reader
<1> SUFFICES ASSUME NEW r \in Readers
             PROVE  /\ answer'[r] # 0 => reading'[r] = "idle" /\ answer'[r] \in seen'[r]
                    /\ reading'[r] # "idle" => latest' \in seen'[r] \/ (latest' = marker' /\ marker' # 0)
                    /\ reading'[r] \in {"chain", "again", "marker"} => got'[r] \in seen'[r] \/ got'[r] = latest'
  BY DEF ReadersInv
<1>2. /\ answer[r] # 0 => reading[r] = "idle" /\ answer[r] \in seen[r]
      /\ reading[r] # "idle" => latest \in seen[r] \/ (latest = marker /\ marker # 0)
      /\ reading[r] \in {"chain", "again", "marker"} => got[r] \in seen[r] \/ got[r] = latest
  BY DEF ReadersInv
<1>3. CASE reading[r] = "idle"
  BY <1>1, <1>2, <1>3, WatchIs
<1>4. CASE reading[r] # "idle"
  <2>1. seen[r] \subseteq seen'[r] /\ Authoritative \in seen'[r] /\ Authoritative' \in seen'[r]
    BY <1>1, <1>4, WatchIs
  <2>2. latest' \in seen'[r] \/ (latest' = marker' /\ marker' # 0)
    BY <1>2, <1>4, <2>1 DEF Moves, Authoritative
  <2>3. reading[r] \in {"chain", "again", "marker"} => got[r] \in seen'[r] \/ got[r] = latest'
    BY <1>2, <1>4, <2>1 DEF Moves
  <2> QED
    BY <1>1, <1>2, <1>4, <2>2, <2>3
<1> QED
  BY <1>3, <1>4

LEMMA ReadersRead ==
  ASSUME FileTypes, ReaderTypes, ReadersInv, NEW r \in Readers, Read(r), Watch
  PROVE  ReaderTypes' /\ ReadersInv'
<1>1. UNCHANGED <<latest, marker>> /\ FileTypes'
  BY DEF Read, files, FileTypes
<1>2. Authoritative' = Authoritative
  BY <1>1 DEF Authoritative
<1>3. /\ reading \in [Readers -> {"idle", "latest", "chain", "again", "marker"}]
      /\ got \in [Readers -> Runs \cup {0}] /\ answer \in [Readers -> Runs \cup {0}]
      /\ latest \in Runs \cup {0}
  BY DEF ReaderTypes, FileTypes
<1>4. seen' \in [Readers -> SUBSET (Runs \cup {0})]
  BY <1>1, SeenTyped
<1>5. PICK label \in {"idle", "latest", "chain", "again", "marker"}, n \in Runs \cup {0}, m \in Runs \cup {0} :
        /\ reading' = [reading EXCEPT ![r] = label]
        /\ got' = [got EXCEPT ![r] = n] /\ answer' = [answer EXCEPT ![r] = m]
        /\ m # 0 => label = "idle" /\ ((m = answer[r] /\ reading[r] = "idle") \/ (m = n /\ reading[r] = "marker" /\ marker = 0))
        /\ label # "idle" /\ reading[r] = "idle" => marker = 0
        /\ label \in {"chain", "again", "marker"} => n = latest \/ (n = got[r] /\ reading[r] \in {"chain", "again"})
        /\ reading[r] = "marker" => n = got[r]
        /\ reading[r] = "idle" => label = "latest"
  <2>1. got = [got EXCEPT ![r] = got[r]] /\ answer = [answer EXCEPT ![r] = answer[r]]
    BY <1>3
  <2>2. /\ got[r] \in Runs \cup {0} /\ answer[r] \in Runs \cup {0}
        /\ reading[r] # "idle" => answer[r] = 0
    BY <1>3 DEF ReadersInv
  <2>3. CASE CheckMarker(r)
    <3>1. /\ reading' = [reading EXCEPT ![r] = "latest"] /\ got' = [got EXCEPT ![r] = got[r]]
          /\ answer' = [answer EXCEPT ![r] = 0] /\ reading[r] = "idle" /\ marker = 0
      BY <2>1, <2>3 DEF CheckMarker, ReadGoto
    <3> QED
      BY <2>2, <3>1
  <2>4. CASE ReadLatest(r)
    <3>1. PICK label \in {"idle", "chain"} : reading' = [reading EXCEPT ![r] = label]
      BY <2>4 DEF ReadLatest, ReadGoto
    <3>2. /\ got' = [got EXCEPT ![r] = latest] /\ answer' = [answer EXCEPT ![r] = answer[r]]
          /\ reading[r] = "latest"
      BY <2>1, <2>4 DEF ReadLatest
    <3> QED
      BY <1>3, <2>2, <3>1, <3>2
  <2>5. CASE ReadChain(r)
    <3>1. PICK label \in {"idle", "again"} : reading' = [reading EXCEPT ![r] = label]
      BY <2>5 DEF ReadChain, ReadGoto
    <3>2. /\ got' = [got EXCEPT ![r] = got[r]] /\ answer' = [answer EXCEPT ![r] = answer[r]]
          /\ reading[r] = "chain"
      BY <2>1, <2>5 DEF ReadChain
    <3> QED
      BY <2>2, <3>1, <3>2
  <2>6. CASE ReadAgain(r)
    <3>1. PICK label \in {"idle", "marker"} : reading' = [reading EXCEPT ![r] = label]
      BY <2>6 DEF ReadAgain, ReadGoto
    <3>2. /\ got' = [got EXCEPT ![r] = got[r]] /\ answer' = [answer EXCEPT ![r] = answer[r]]
          /\ reading[r] = "again"
      BY <2>1, <2>6 DEF ReadAgain
    <3> QED
      BY <2>2, <3>1, <3>2
  <2>7. CASE RecheckMarker(r)
    <3>1. PICK m \in {0, got[r]} : answer' = [answer EXCEPT ![r] = m] /\ (m # 0 => marker = 0)
      BY <2>7 DEF RecheckMarker
    <3>2. /\ reading' = [reading EXCEPT ![r] = "idle"] /\ got' = [got EXCEPT ![r] = got[r]]
          /\ reading[r] = "marker"
      BY <2>1, <2>7 DEF RecheckMarker, ReadGoto
    <3> QED
      BY <2>2, <3>1, <3>2
  <2> QED
    BY <2>3, <2>4, <2>5, <2>6, <2>7 DEF Read
<1>6. ReaderTypes'
  BY <1>3, <1>4, <1>5 DEF ReaderTypes
<1>7. ASSUME NEW q \in Readers
      PROVE  /\ answer'[q] # 0 => reading'[q] = "idle" /\ answer'[q] \in seen'[q]
             /\ reading'[q] # "idle" => latest' \in seen'[q] \/ (latest' = marker' /\ marker' # 0)
             /\ reading'[q] \in {"chain", "again", "marker"} => got'[q] \in seen'[q] \/ got'[q] = latest'
  <2>1. /\ answer[q] # 0 => reading[q] = "idle" /\ answer[q] \in seen[q]
        /\ reading[q] # "idle" => latest \in seen[q] \/ (latest = marker /\ marker # 0)
        /\ reading[q] \in {"chain", "again", "marker"} => got[q] \in seen[q] \/ got[q] = latest
    BY DEF ReadersInv
  <2>2. CASE q # r
    <3>1. reading'[q] = reading[q] /\ got'[q] = got[q] /\ answer'[q] = answer[q]
      BY <1>3, <1>5, <2>2
    <3>2. seen[q] \subseteq seen'[q]
      BY <3>1, WatchIs
    <3> QED
      BY <1>1, <2>1, <3>1, <3>2
  <2>3. CASE q = r
    <3>1. reading'[r] = label /\ got'[r] = n /\ answer'[r] = m
      BY <1>3, <1>5
    <3>2. reading[r] = "idle" => label = "latest" /\ m = 0 /\ marker = 0
      BY <1>5
    <3>3. Authoritative \in seen'[r] /\ (reading[r] # "idle" => seen[r] \subseteq seen'[r])
      BY <3>1, <3>2, WatchIs
    <3>4. m # 0 => reading'[r] = "idle" /\ m \in seen'[r]
      <4>1. m # 0 => label = "idle" /\ m = got[r] /\ reading[r] = "marker" /\ marker = 0
        BY <1>5, <3>2
      <4>2. m # 0 => got[r] \in seen'[r] \/ got[r] = latest
        BY <2>1, <2>3, <3>3, <4>1
      <4> QED
        BY <3>1, <3>3, <4>1, <4>2 DEF Authoritative
    <3>5. latest \in seen'[r] \/ (latest = marker /\ marker # 0)
      BY <2>1, <2>3, <3>2, <3>3 DEF Authoritative
    <3>6. label \in {"chain", "again", "marker"} => n \in seen'[r] \/ n = latest
      BY <1>5, <2>1, <2>3, <3>3
    <3> QED
      BY <1>1, <2>3, <3>1, <3>4, <3>5, <3>6
  <2> QED
    BY <2>2, <2>3
<1>8. ReadersInv'
  BY <1>7 DEF ReadersInv
<1> QED
  BY <1>6, <1>8

LEMMA InvParts == SuiteInv <=> ProducerInv /\ ReaderTypes /\ ReadersInv
BY TypeParts DEF SuiteInv, ProducerInv

LEMMA InvTogether ==
  ASSUME ProducerInv', ReaderTypes', ReadersInv'
  PROVE  SuiteInv'
BY TypesTogether DEF SuiteInv, ProducerInv

LEMMA SuiteInit ==
  ASSUME Init
  PROVE  SuiteInv
<1>1. FileTypes /\ SharedTypes
  BY DEF Init, FileTypes, SharedTypes
<1>2. NoJob \in [file : Files \cup {"none"}, id : Runs \cup {0}, next : Labels] /\ "idle" \in Labels
  BY DEF NoJob, Labels
<1>3. LocalTypes
  BY <1>2 DEF Init, LocalTypes, Jobs
<1>4. ReaderTypes /\ ReadersInv
  BY DEF Init, ReaderTypes, ReadersInv
<1>5. Exclusive /\ Stages
  BY RunsAre DEF Init, Exclusive, Stages
<1>6. Documented = {}
  BY DEF Init, Documented
<1>7. FilesInv
  BY <1>6 DEF Init, FilesInv, Strays
<1> QED
  BY <1>1, <1>3, <1>4, <1>5, <1>7, InvParts DEF ProducerInv

LEMMA StutterKept ==
  ASSUME ProducerInv, UNCHANGED <<files, shared, local>>
  PROVE  Kept
BY AsideKept DEF shared, ProducerInv, SharedTypes

LEMMA SuiteSteps ==
  ASSUME SuiteInv, [Next]_vars
  PROVE  SuiteInv' /\ Immutable
<1>1. ProducerInv /\ ReaderTypes /\ ReadersInv
  BY InvParts
<1>2. CASE ProducerStep /\ UNCHANGED reader /\ Watch
  <2>1. Kept
    BY <1>1, <1>2, ProducerStepKept
  <2>2. ReadersInv'
    BY <1>1, <1>2, <2>1, ReadersWait DEF Kept
  <2>3. ReaderTypes'
    <3>1. FileTypes /\ FileTypes'
      BY <1>1, <2>1 DEF Kept, ProducerInv
    <3>2. seen' \in [Readers -> SUBSET (Runs \cup {0})]
      BY <1>1, <1>2, <3>1, SeenTyped
    <3> QED
      BY <1>1, <1>2, <3>2 DEF ReaderTypes, reader
  <2> QED
    BY <2>1, <2>2, <2>3, InvTogether DEF Kept
<1>3. ASSUME NEW r \in Readers, Read(r), Watch
      PROVE  SuiteInv' /\ Immutable
  <2>1. Kept
    BY <1>1, <1>3, StutterKept DEF Read
  <2>2. ReaderTypes' /\ ReadersInv'
    BY <1>1, <1>3, ReadersRead DEF ProducerInv
  <2> QED
    BY <2>1, <2>2, InvTogether DEF Kept
<1>4. CASE UNCHANGED vars
  <2>1. UNCHANGED <<files, shared, local, reader, seen>>
    BY <1>4 DEF vars
  <2>2. Kept
    BY <1>1, <2>1, StutterKept
  <2>3. ReaderTypes' /\ ReadersInv'
    BY <1>1, <2>1 DEF ReaderTypes, ReadersInv, reader, files
  <2> QED
    BY <2>2, <2>3, InvTogether DEF Kept
<1> QED
  BY <1>2, <1>3, <1>4 DEF Next, ProducerStep

\* The files, the producers and the readers keep SuiteInv, for any number of them.
THEOREM SuiteCorrect == Spec => []SuiteInv
<1>1. Init => SuiteInv
  BY SuiteInit
<1>2. SuiteInv /\ [Next]_vars => SuiteInv'
  BY SuiteSteps
<1> QED
  BY <1>1, <1>2, PTL DEF Spec

-----------------------------------------------------------------------------
(* What readers and the next producer may rely on.                         *)

\* A reader answers with a run that was authoritative at a moment of its reading, and
\* killed or failing producers leave files the next one can repair (read_latest_run,
\* recover_evidence).
THEOREM FilesAreTrusted == Spec => []FilesTrusted
<1>1. ASSUME SuiteInv
      PROVE  FilesTrusted
  <2>1. TypeOK /\ FilesInv /\ ReadersInv
    BY <1>1 DEF SuiteInv
  <2>2. ReadsAuthoritative
    BY <2>1 DEF ReadersInv, ReadsAuthoritative
  <2>3. ASSUME \A j \in linked : j[1] # "orphan"
        PROVE  (Strays \ {marker}) \cap orphans = {}
    <3>1. \A n : <<"orphan", n>> \notin linked
      BY <2>3
    <3> QED
      BY <2>1, <3>1 DEF FilesInv
  <2>4. Documented \subseteq logs /\ (marker # 0 \/ LatestAttached \/ (Documented = {} /\ latest = 0))
    BY <2>1 DEF FilesInv, LatestAttached
  <2>5. Recoverable
    BY <2>3, <2>4 DEF Recoverable
  <2> QED
    BY <2>1, <2>2, <2>5 DEF FilesTrusted
<1> QED
  BY <1>1, SuiteCorrect, PTL

\* No step of any producer changes a run document or takes its log away.
THEOREM EvidenceStays == Spec => EvidenceImmutable
<1>1. SuiteInv /\ [Next]_vars => [\A n \in Documented : docs'[n] = docs[n] /\ (n \in logs => n \in logs')]_vars
  BY SuiteSteps DEF Immutable
<1> QED
  BY <1>1, SuiteCorrect, PTL DEF Spec, EvidenceImmutable

-----------------------------------------------------------------------------
(* Refinement: what readers see is one register of verdicts.               *)

\* What the register holds.
Shown == IF Authoritative = 0 THEN [run |-> 0, verdict |-> "none"]
         ELSE [run |-> latest, verdict |-> docs[latest]]

\* The register stands still while the pointer and the marker do.
LEMMA ShownStays ==
  ASSUME SuiteInv, Immutable, UNCHANGED <<latest, marker>>
  PROVE  Shown' = Shown
<1>1. latest # 0 => latest \in Runs /\ docs[latest] # "none"
  BY DEF SuiteInv, TypeOK, FilesInv
<1>2. latest # 0 => docs'[latest] = docs[latest]
  BY <1>1 DEF Immutable, Documented
<1> QED
  BY <1>2 DEF Shown, Authoritative

LEMMA WriteMarkerOpens ==
  ASSUME SuiteInv, NEW p \in Producers, WriteMarker(p)
  PROVE  Register!Open(run[p]) /\ run[p] \in Runs
<1>1. pc[p] = "mark" /\ marker' = run[p] /\ UNCHANGED passed
  BY DEF WriteMarker, shared
<1>2. Stage(p) /\ Unused(run[p]) /\ marker = 0 /\ run[p] = started /\ run[p] \in Runs /\ run[p] # 0
  BY <1>1, RunsAre, InvParts, Alone DEF Stage
<1>3. latest \in Nat /\ latest <= started /\ latest # started /\ started \in Nat
  <2>1. latest \in Runs \cup {0} /\ started \in Runs
    BY <1>2 DEF SuiteInv, TypeOK
  <2>2. latest <= started
    BY DEF SuiteInv, FilesInv
  <2>3. latest # started
    BY <1>2 DEF Unused
  <2> QED
    BY <2>1, <2>2, <2>3, RunsAre
<1>4. Shown.run = latest
  BY <1>2 DEF Shown, Authoritative
<1>5. run[p] > Shown.run
  BY <1>2, <1>3, <1>4
<1>6. Shown' = [run |-> 0, verdict |-> "none"]
  BY <1>1, <1>2 DEF Shown, Authoritative
<1> QED
  BY <1>1, <1>2, <1>5, <1>6 DEF Register!Open, Shown

LEMMA MarkerSettles ==
  ASSUME SuiteInv, marker # 0, latest = marker, marker' = 0, UNCHANGED <<latest, docs, passed>>
  PROVE  \E v \in {"pass", "fail"} : Register!Settle(v)
<1>1. latest \in Runs /\ docs[latest] \in {"pass", "fail"} /\ (docs[latest] = "pass" => latest \in passed)
  BY DEF SuiteInv, TypeOK, FilesInv
<1>2. Shown' = [run |-> marker, verdict |-> docs[latest]]
  BY DEF Shown, Authoritative
<1>3. Register!Settle(docs[latest])
  BY <1>1, <1>2 DEF Register!Settle, Shown
<1> QED
  BY <1>1, <1>3

\* A step changes nothing of the register, or is one of its steps.
LEMMA RegisterSteps ==
  ASSUME SuiteInv, [Next]_vars
  PROVE  Register!RegisterNext \/ UNCHANGED <<marker, Shown, passed>>
<1>1. Immutable /\ ProducerInv
  BY SuiteSteps, InvParts
<1>2. CASE UNCHANGED <<latest, marker, passed>>
  BY <1>1, <1>2, ShownStays
<1>3. ASSUME NEW p \in Producers, Step(p)
      PROVE  Register!RegisterNext \/ UNCHANGED <<marker, Shown, passed>>
  <2>1. CASE WriteTemp(p) \/ Link(p) \/ Unlink(p) \/ FileError(p) \/ CleanTemps(p)
    BY <1>2, <2>1 DEF WriteTemp, Link, Unlink, FileError, CleanTemps, shared
  <2>2. CASE ScanFiles(p) \/ RecordInterrupted(p) \/ QuarantineStray(p)
    BY <1>2, <2>2 DEF ScanFiles, RecordInterrupted, QuarantineStray, shared, files
  <2>3. CASE ProbeRepository(p) \/ LeaseDatabase(p) \/ WriteDocument(p) \/ StepError(p) \/ Release(p) \/ Unwind(p)
    BY <1>2, <2>3 DEF ProbeRepository, LeaseDatabase, WriteDocument, StepError, Release, Unwind, shared, files
  <2>4. CASE LaunchSuite(p) \/ Abandon(p)
    BY <1>2, <2>4 DEF LaunchSuite, Abandon
  <2>5. CASE WriteMarker(p)
    BY <2>5, WriteMarkerOpens DEF Register!RegisterNext
  <2>6. CASE SuiteEnds(p)
    <3>1. run[p] \in Runs /\ UNCHANGED <<latest, marker>>
      BY <1>1, <2>6, Alone DEF SuiteEnds, files
    <3>2. Shown' = Shown
      BY <1>1, <3>1, ShownStays
    <3>3. passed' = passed \/ passed' = passed \cup {run[p]}
      BY <2>6 DEF SuiteEnds
    <3>4. passed' = passed \cup {run[p]} => Register!Pass(run[p])
      BY <3>1, <3>2 DEF Register!Pass, Shown
    <3> QED
      BY <3>1, <3>2, <3>3, <3>4 DEF Register!RegisterNext
  <2>7. CASE RepairLatest(p)
    <3>1. marker' = marker /\ passed' = passed /\ (latest' = latest \/ marker # 0)
      BY <2>7 DEF RepairLatest, shared
    <3>2. marker # 0 => Shown' = Shown
      BY <3>1 DEF Shown, Authoritative
    <3> QED
      BY <1>2, <3>1, <3>2
  <2>8. CASE WriteLatest(p)
    <3>1. marker' = marker /\ passed' = passed /\ pc[p] = "publish"
      BY <2>8 DEF WriteLatest, shared
    <3>2. marker # 0
      BY <1>1, <3>1, Alone, RunsAre DEF Stage
    <3> QED
      BY <3>1, <3>2 DEF Shown, Authoritative
  <2>9. CASE RemoveOldMarker(p)
    <3>1. marker' = 0 /\ UNCHANGED <<latest, docs, passed>> /\ pc[p] = "unmark"
      BY <2>9 DEF RemoveOldMarker, shared
    <3>2. marker # 0 /\ latest = marker
      BY <1>1, <3>1, Alone DEF Stage
    <3> QED
      BY <3>1, <3>2, MarkerSettles DEF Register!RegisterNext
  <2>10. CASE RemoveMarker(p)
    <3>1. marker' \in {0, marker} /\ UNCHANGED <<latest, docs, passed>> /\ pc[p] = "completed"
      BY <2>10 DEF RemoveMarker, shared
    <3>2. marker # 0 /\ latest = marker
      BY <1>1, <3>1, Alone, RunsAre DEF Stage
    <3> QED
      BY <1>2, <3>1, <3>2, MarkerSettles DEF Register!RegisterNext
  <2> QED
    BY <1>3, <2>1, <2>2, <2>3, <2>4, <2>5, <2>6, <2>7, <2>8, <2>9, <2>10 DEF Step
<1>4. ASSUME NEW p \in Producers, Begin(p) \/ Kill(p)
      PROVE  UNCHANGED <<latest, marker, passed>>
  BY <1>4 DEF Begin, Kill, files
<1>5. ASSUME (\E n \in Runs : SuiteExits(n)) \/ OtherCheckout \/ (\E r \in Readers : Read(r)) \/ UNCHANGED vars
      PROVE  UNCHANGED <<latest, marker, passed>>
  BY <1>5 DEF SuiteExits, OtherCheckout, Read, vars, files, shared
<1> QED
  BY <1>2, <1>3, <1>4, <1>5 DEF Next

\* Readers see a register that each run opens and that is settled once, by a failure if
\* the run was interrupted: an older verdict never comes back, and only a suite that
\* passed settles it as a pass (run_full_suite, recover_evidence, read_latest_run).
THEOREM RegisterImplemented == Spec => ImplementsRegister
<1>1. Init => Register!RegisterInit
  BY DEF Init, Register!RegisterInit, Authoritative
<1>2. SuiteInv /\ [Next]_vars => [Register!RegisterNext]_<<marker,
        IF Authoritative = 0 THEN [run |-> 0, verdict |-> "none"]
        ELSE [run |-> latest, verdict |-> docs[latest]], passed>>
  BY RegisterSteps DEF Shown
<1> QED
  BY <1>1, <1>2, SuiteCorrect, PTL DEF Spec, ImplementsRegister, Register!RegisterSpec
=============================================================================
