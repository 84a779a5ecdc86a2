----------------------------- MODULE FullSuite -----------------------------
(* The producer and the readers of full-suite evidence, over the files     *)
(* they share: the logs, the immutable run documents, the pointer          *)
(* latest.json, the marker in-progress.json, the producer lock, and the    *)
(* lease of the test database. A process may be killed before any file     *)
(* operation, and any file operation may fail.                             *)
EXTENDS SuiteVerdict

CONSTANTS Producers, Readers, MaxRuns

ASSUME ConstantsAssumption == MaxRuns \in Nat /\ Producers \cap {"none", "other"} = {}

\* Run ids are random; here they are numbered as they are drawn.
Runs == 1..MaxRuns

VARIABLES
  logs,     \* outputs/<id>.log
  docs,     \* runs/<id>.json: the verdict, or "none" without a document
  orphans,  \* orphans/<id>.log
  latest,   \* the run latest.json names, 0 without the file
  marker,   \* the run in-progress.json names, 0 without the file
  temps,    \* temporary files: pairs of what they will become and a run
  linked,   \* moves between link and unlink: the file has two names
  lock, lease, started, suites, passed,
  pc, run, job, verdict,
  reading, got, seen, answer

files == <<logs, docs, orphans, latest, marker, temps, linked>>
shared == <<lock, lease, started, suites, passed>>
local == <<pc, run, job, verdict>>
reader == <<reading, got, answer>>
vars == <<files, shared, local, reader, seen>>

NoJob == [file |-> "none", id |-> 0, next |-> "idle"]

Documented == {n \in Runs : docs[n] # "none"}
Strays == logs \ Documented

\* The run a reader may answer with: 0 while a run is in progress.
Authoritative == IF marker = 0 THEN latest ELSE 0

Init ==
  /\ logs = {} /\ docs = [n \in Runs |-> "none"] /\ orphans = {}
  /\ latest = 0 /\ marker = 0 /\ temps = {} /\ linked = {}
  /\ lock = "none" /\ lease = "none" /\ started = 0 /\ suites = {} /\ passed = {}
  /\ pc = [p \in Producers |-> "idle"] /\ run = [p \in Producers |-> 0]
  /\ job = [p \in Producers |-> NoJob] /\ verdict = [p \in Producers |-> "none"]
  /\ reading = [r \in Readers |-> "idle"] /\ got = [r \in Readers |-> 0]
  /\ answer = [r \in Readers |-> 0] /\ seen = [r \in Readers |-> {}]

Goto(p, label) == pc' = [pc EXCEPT ![p] = label]

\* The call ends, and what it knew is gone.
Return(p) ==
  /\ Goto(p, "idle")
  /\ run' = [run EXCEPT ![p] = 0]
  /\ job' = [job EXCEPT ![p] = NoJob]
  /\ verdict' = [verdict EXCEPT ![p] = "none"]

-----------------------------------------------------------------------------
(* A file is written or moved without replacing: a temporary is written,   *)
(* linked to its name, and unlinked.                                       *)

DoJob(p, stage, file, id, next) ==
  /\ job' = [job EXCEPT ![p] = [file |-> file, id |-> id, next |-> next]]
  /\ Goto(p, stage)

Job(p) == <<job[p].file, job[p].id>>

WriteTemp(p) ==
  /\ pc[p] = "temp"
  /\ temps' = temps \cup {Job(p)}
  /\ Goto(p, "link")
  /\ UNCHANGED <<logs, docs, orphans, latest, marker, linked, shared, run, job, verdict>>

TargetExists(p) ==
  LET id == job[p].id
  IN  CASE job[p].file = "log" -> id \in logs
        [] job[p].file = "doc" -> docs[id] # "none"
        [] OTHER -> id \in orphans

Link(p) ==
  LET id == job[p].id
  IN  /\ pc[p] = "link"
      /\ ~TargetExists(p)
      /\ linked' = linked \cup {Job(p)}
      /\ logs' = IF job[p].file = "log" THEN logs \cup {id} ELSE logs
      /\ docs' = IF job[p].file = "doc" THEN [docs EXCEPT ![id] = verdict[p]] ELSE docs
      /\ orphans' = IF job[p].file = "orphan" THEN orphans \cup {id} ELSE orphans
      /\ Goto(p, "unlink")
      /\ UNCHANGED <<latest, marker, temps, shared, run, job, verdict>>

Unlink(p) ==
  /\ pc[p] = "unlink"
  /\ linked' = linked \ {Job(p)}
  /\ temps' = temps \ {Job(p)}
  /\ logs' = IF job[p].file = "orphan" THEN logs \ {job[p].id} ELSE logs
  /\ Goto(p, job[p].next)
  /\ UNCHANGED <<docs, orphans, latest, marker, shared, run, job, verdict>>

\* Any file operation may raise OSError. A half-written temporary is removed by
\* the writer; a log of the suite stays for the handler at the end of the call.
FileError(p) ==
  /\ pc[p] \in {"temp", "link", "unlink"}
  /\ LET left == IF job[p].file = "log" /\ job[p].id = run[p] THEN {} ELSE {Job(p)}
     IN  /\ temps' = temps \ left
         /\ linked' = linked \ {j \in left : j[1] # "orphan"}
  /\ Goto(p, IF job[p].next = "release" THEN "release" ELSE "finally")
  /\ UNCHANGED <<logs, docs, orphans, latest, marker, shared, run, job, verdict>>

-----------------------------------------------------------------------------
(* run_full_suite: the lock, then recovery of what earlier producers left. *)

Begin(p) ==
  /\ pc[p] = "idle"
  /\ lock = "none"
  /\ started < MaxRuns
  /\ lock' = p
  /\ started' = started + 1
  /\ run' = [run EXCEPT ![p] = started + 1]
  /\ Goto(p, "clean")
  /\ UNCHANGED <<files, lease, suites, passed, job, verdict>>

CleanTemps(p) ==
  /\ pc[p] = "clean"
  /\ temps' = {}
  /\ linked' = {j \in linked : j[1] = "orphan"}
  /\ Goto(p, "scan")
  /\ UNCHANGED <<logs, docs, orphans, latest, marker, shared, run, job, verdict>>

\* A log with two names is not immutable evidence.
OutputsPlain == \A j \in linked : j[2] \notin logs

ScanFiles(p) ==
  /\ pc[p] = "scan"
  /\ CASE ~OutputsPlain -> Goto(p, "finally") /\ UNCHANGED job
       [] OutputsPlain /\ marker # 0 /\ docs[marker] = "none" ->
            IF marker \in logs
            THEN Goto(p, "interrupted") /\ UNCHANGED job
            ELSE DoJob(p, "temp", "log", marker, "interrupted")
       [] OTHER -> Goto(p, "orphans") /\ UNCHANGED job
  /\ UNCHANGED <<files, shared, run, verdict>>

\* The run of a marker without a document is recorded as a failure.
RecordInterrupted(p) ==
  /\ pc[p] = "interrupted"
  /\ verdict' = [verdict EXCEPT ![p] = "fail"]
  /\ DoJob(p, "temp", "doc", marker, "orphans")
  /\ UNCHANGED <<files, shared, run>>

QuarantineStray(p) ==
  /\ pc[p] = "orphans"
  /\ IF Strays = {}
     THEN Goto(p, IF Documented \subseteq logs THEN "point" ELSE "finally") /\ UNCHANGED job
     ELSE \E n \in Strays :
            IF n \in orphans
            THEN Goto(p, "finally") /\ UNCHANGED job
            ELSE DoJob(p, "link", "orphan", n, "orphans")
  /\ UNCHANGED <<files, shared, run, verdict>>

LatestAttached == latest # 0 /\ docs[latest] # "none"

\* Mutant: recovery never moves the pointer to the run of the marker.
RepairLatestByFile(p) ==
  /\ pc[p] = "point"
  /\ Goto(p, IF Documented = {} \/ LatestAttached THEN (IF marker = 0 THEN "probe" ELSE "unmark") ELSE "finally")
  /\ UNCHANGED <<files, shared, run, job, verdict>>

RepairLatest(p) ==
  /\ pc[p] = "point"
  /\ CASE Documented = {} ->
            Goto(p, IF latest = 0 THEN "probe" ELSE "finally") /\ UNCHANGED latest
       [] Documented # {} /\ marker # 0 ->
            Goto(p, "unmark") /\ latest' = marker
       [] OTHER ->
            Goto(p, IF LatestAttached THEN "probe" ELSE "finally") /\ UNCHANGED latest
  /\ UNCHANGED <<logs, docs, orphans, marker, temps, linked, shared, run, job, verdict>>

RemoveOldMarker(p) ==
  /\ pc[p] = "unmark"
  /\ marker' = 0
  /\ Goto(p, "probe")
  /\ UNCHANGED <<logs, docs, orphans, latest, temps, linked, shared, run, job, verdict>>

-----------------------------------------------------------------------------
(* The run itself.                                                         *)

ProbeRepository(p) ==
  /\ pc[p] = "probe"
  /\ \E clean \in BOOLEAN : Goto(p, IF clean THEN "lease" ELSE "finally")
  /\ UNCHANGED <<files, shared, run, job, verdict>>

\* Mutant: the call waits for a database that another producer uses.
LeaseDatabaseWaiting(p) ==
  /\ pc[p] = "lease"
  /\ lease = "none"
  /\ lease' = p /\ Goto(p, "mark")
  /\ UNCHANGED <<files, lock, started, suites, passed, run, job, verdict>>

\* One attempt at the lease: a database in use refuses the call.
LeaseDatabase(p) ==
  /\ pc[p] = "lease"
  /\ IF lease = "none"
     THEN lease' = p /\ Goto(p, "mark")
     ELSE UNCHANGED lease /\ Goto(p, "finally")
  /\ UNCHANGED <<files, lock, started, suites, passed, run, job, verdict>>

\* Mutant: the run is not marked.
SkipMarker(p) ==
  /\ pc[p] = "mark"
  /\ Goto(p, "launch")
  /\ UNCHANGED <<files, shared, run, job, verdict>>

WriteMarker(p) ==
  /\ pc[p] = "mark"
  /\ marker' = run[p]
  /\ Goto(p, "launch")
  /\ UNCHANGED <<logs, docs, orphans, latest, temps, linked, shared, run, job, verdict>>

\* The log of the suite is written under a temporary name in the root directory.
LaunchSuite(p) ==
  /\ pc[p] = "launch"
  /\ temps' = temps \cup {<<"log", run[p]>>}
  /\ suites' = suites \cup {run[p]}
  /\ Goto(p, "suite")
  /\ UNCHANGED <<logs, docs, orphans, latest, marker, linked, lock, lease, started, passed, run, job, verdict>>

\* Mutant: a refused run has a verdict of its own.
SuiteEndsInError(p) ==
  /\ pc[p] = "suite"
  /\ verdict' = [verdict EXCEPT ![p] = "error"]
  /\ suites' = suites \ {run[p]}
  /\ lease' = "none"
  /\ Goto(p, "finally")
  /\ UNCHANGED <<files, lock, started, passed, run, job>>

\* The suite ended or was killed after an hour; the lease ends with it. The call is
\* refused when the database or the repository is not what it was before.
SuiteEnds(p) ==
  /\ pc[p] = "suite"
  /\ \E result \in Results, unchanged \in BOOLEAN :
       /\ verdict' = [verdict EXCEPT ![p] = result.verdict]
       /\ passed' = IF result.passes THEN passed \cup {run[p]} ELSE passed
       /\ IF unchanged
          THEN DoJob(p, "link", "log", run[p], "document")
          ELSE Goto(p, "finally") /\ UNCHANGED job
  /\ suites' = suites \ {run[p]}
  /\ lease' = "none"
  /\ UNCHANGED <<files, lock, started, run>>

WriteDocument(p) ==
  /\ pc[p] = "document"
  /\ DoJob(p, "temp", "doc", run[p], "publish")
  /\ UNCHANGED <<files, shared, run, verdict>>

WriteLatest(p) ==
  /\ pc[p] = "publish"
  /\ latest' = run[p]
  /\ Goto(p, "completed")
  /\ UNCHANGED <<logs, docs, orphans, marker, temps, linked, shared, run, job, verdict>>

\* The marker goes last, and an error in removing it is ignored.
RemoveMarker(p) ==
  /\ pc[p] = "completed"
  /\ marker' \in {0, marker}
  /\ Goto(p, "release")
  /\ UNCHANGED <<logs, docs, orphans, latest, temps, linked, shared, run, job, verdict>>

\* Mutant: the log goes to the orphans whether or not its document exists.
AbandonAnyLog(p) ==
  /\ pc[p] = "finally"
  /\ temps' = temps \ {<<"log", run[p]>>}
  /\ linked' = linked \ {<<"log", run[p]>>}
  /\ IF run[p] \in logs
     THEN DoJob(p, "link", "orphan", run[p], "release")
     ELSE Goto(p, "release") /\ UNCHANGED job
  /\ lease' = IF lease = p THEN "none" ELSE lease
  /\ UNCHANGED <<logs, docs, orphans, latest, marker, lock, started, suites, passed, run, verdict>>

\* The handler of a call that did not complete: the temporary log is removed, and a log
\* without a document goes to the orphans. The marker stays. A refusal of the orphans,
\* whose directory may be unusable or hold a namesake, leaves the handler before it comes
\* to the lock. (A temporary that cannot be removed stays as a kill leaves it.)
Abandon(p) ==
  /\ pc[p] = "finally"
  /\ temps' = temps \ {<<"log", run[p]>>}
  /\ linked' = linked \ {<<"log", run[p]>>}
  /\ \/ run[p] \notin Strays /\ Goto(p, "release") /\ UNCHANGED job
     \/ run[p] \in Strays \ orphans /\ DoJob(p, "link", "orphan", run[p], "release")
     \/ run[p] \in Strays /\ Goto(p, "raised") /\ UNCHANGED job
  /\ lease' = IF lease = p THEN "none" ELSE lease
  /\ UNCHANGED <<logs, docs, orphans, latest, marker, lock, started, suites, passed, run, verdict>>

Release(p) ==
  /\ pc[p] = "release"
  /\ lock' = "none"
  /\ Return(p)
  /\ UNCHANGED <<files, lease, started, suites, passed>>

\* The command reports the refusal and ends; the lock goes with the file that held it.
Unwind(p) ==
  /\ pc[p] = "raised"
  /\ lock' = "none"
  /\ Return(p)
  /\ UNCHANGED <<files, lease, started, suites, passed>>

\* A step of the file protocol outside the helpers may raise OSError as well.
StepError(p) ==
  /\ pc[p] \in {"clean", "scan", "point", "unmark", "mark", "launch", "publish"}
  /\ Goto(p, "finally")
  /\ UNCHANGED <<files, shared, run, job, verdict>>

\* A killed producer leaves its files and its suite behind; the system drops its locks.
Kill(p) ==
  /\ pc[p] # "idle"
  /\ lock' = "none"
  /\ lease' = IF lease = p THEN "none" ELSE lease
  /\ Return(p)
  /\ UNCHANGED <<files, started, suites, passed>>

\* A suite whose producer is gone ends by itself.
SuiteExits(n) ==
  /\ n \in suites
  /\ ~\E p \in Producers : pc[p] = "suite" /\ run[p] = n
  /\ suites' = suites \ {n}
  /\ UNCHANGED <<files, lock, lease, started, passed, local>>

\* A producer of another checkout uses the same test database.
OtherCheckout ==
  /\ lease \in {"none", "other"}
  /\ lease' = IF lease = "none" THEN "other" ELSE "none"
  /\ UNCHANGED <<files, lock, started, suites, passed, local>>

Step(p) ==
  \/ WriteTemp(p) \/ Link(p) \/ Unlink(p) \/ FileError(p)
  \/ CleanTemps(p) \/ ScanFiles(p) \/ RecordInterrupted(p) \/ QuarantineStray(p)
  \/ RepairLatest(p) \/ RemoveOldMarker(p)
  \/ ProbeRepository(p) \/ LeaseDatabase(p) \/ WriteMarker(p) \/ LaunchSuite(p)
  \/ SuiteEnds(p) \/ WriteDocument(p) \/ WriteLatest(p) \/ RemoveMarker(p)
  \/ Abandon(p) \/ Release(p) \/ Unwind(p) \/ StepError(p)

-----------------------------------------------------------------------------
(* read_latest_run: every file is read again, the marker first and last.   *)

ReadGoto(r, label) == reading' = [reading EXCEPT ![r] = label]

CheckMarker(r) ==
  /\ reading[r] = "idle"
  /\ marker = 0
  /\ ReadGoto(r, "latest")
  /\ answer' = [answer EXCEPT ![r] = 0]
  /\ UNCHANGED got

ReadLatest(r) ==
  /\ reading[r] = "latest"
  /\ got' = [got EXCEPT ![r] = latest]
  /\ ReadGoto(r, IF latest = 0 THEN "idle" ELSE "chain")
  /\ UNCHANGED answer

\* The document and its log must be there, each with one name.
ChainWhole(n) ==
  /\ docs[n] # "none"
  /\ n \in logs
  /\ \A j \in linked : j[2] # n

ReadChain(r) ==
  /\ reading[r] = "chain"
  /\ ReadGoto(r, IF ChainWhole(got[r]) THEN "again" ELSE "idle")
  /\ UNCHANGED <<got, answer>>

ReadAgain(r) ==
  /\ reading[r] = "again"
  /\ ReadGoto(r, IF latest = got[r] /\ ChainWhole(got[r]) THEN "marker" ELSE "idle")
  /\ UNCHANGED <<got, answer>>

\* Mutant: the marker is looked at only once.
SkipRecheck(r) ==
  /\ reading[r] = "marker"
  /\ ReadGoto(r, "idle")
  /\ answer' = [answer EXCEPT ![r] = got[r]]
  /\ UNCHANGED got

RecheckMarker(r) ==
  /\ reading[r] = "marker"
  /\ ReadGoto(r, "idle")
  /\ answer' = [answer EXCEPT ![r] = IF marker = 0 THEN got[r] ELSE 0]
  /\ UNCHANGED got

Read(r) ==
  /\ CheckMarker(r) \/ ReadLatest(r) \/ ReadChain(r) \/ ReadAgain(r) \/ RecheckMarker(r)
  /\ UNCHANGED <<files, shared, local>>

\* History: what was authoritative at some moment since the reader began.
Watch ==
  seen' = [r \in Readers |->
    IF reading[r] = "idle" /\ reading'[r] = "idle" THEN seen[r]
    ELSE (IF reading[r] = "idle" THEN {} ELSE seen[r]) \cup {Authoritative, Authoritative'}]

Next ==
  /\ \/ /\ \/ \E p \in Producers : Begin(p) \/ Step(p) \/ Kill(p)
           \/ \E n \in Runs : SuiteExits(n)
           \/ OtherCheckout
        /\ UNCHANGED reader
     \/ \E r \in Readers : Read(r)
  /\ Watch

\* A producer that is not killed goes on: each of its calls is bounded by a timeout.
Fairness == \A p \in Producers : WF_vars(Step(p) /\ UNCHANGED reader /\ Watch)

Spec == Init /\ [][Next]_vars /\ Fairness

-----------------------------------------------------------------------------
Files == {"log", "doc", "orphan"}

Labels == {"idle", "temp", "link", "unlink", "clean", "scan", "interrupted", "orphans", "point",
           "unmark", "probe", "lease", "mark", "launch", "suite", "document", "publish",
           "completed", "finally", "release", "raised"}

\* Every variable has its type.
TypeOK ==
  /\ logs \subseteq Runs /\ orphans \subseteq Runs /\ suites \subseteq Runs /\ passed \subseteq Runs
  /\ docs \in [Runs -> {"none", "pass", "fail"}]
  /\ latest \in Runs \cup {0} /\ marker \in Runs \cup {0} /\ started \in Runs \cup {0}
  /\ temps \subseteq Files \X Runs /\ linked \subseteq Files \X Runs
  /\ lock \in Producers \cup {"none"} /\ lease \in Producers \cup {"none", "other"}
  /\ pc \in [Producers -> Labels] /\ run \in [Producers -> Runs \cup {0}]
  /\ job \in [Producers -> [file : Files \cup {"none"}, id : Runs \cup {0}, next : Labels]]
  /\ verdict \in [Producers -> {"none", "pass", "fail"}]
  /\ reading \in [Readers -> {"idle", "latest", "chain", "again", "marker"}]
  /\ got \in [Readers -> Runs \cup {0}] /\ answer \in [Readers -> Runs \cup {0}]
  /\ seen \in [Readers -> SUBSET (Runs \cup {0})]

\* A reader answers with a run that was the last one, with nothing in progress, at some
\* moment of its reading, although it reads five files one after the other while producers
\* run, recover and die (read_latest_run).
ReadsAuthoritative == \A r \in Readers : answer[r] # 0 => answer[r] \in seen[r]

\* Killed or failing producers never leave files that the next producer refuses, except
\* where a quarantine stopped between its link and its unlink (recover_evidence).
Recoverable ==
  lock = "none" /\ (\A j \in linked : j[1] # "orphan") =>
    /\ (Strays \ {marker}) \cap orphans = {}
    /\ Documented \subseteq logs
    /\ marker # 0 \/ LatestAttached \/ (Documented = {} /\ latest = 0)

\* What the files are worth after any crash: a reader of them is told nothing
\* that was not so, and the next producer can repair them.
FilesTrusted == TypeOK /\ ReadsAuthoritative /\ Recoverable

\* A run document never changes and its log stays where it is, whoever recovers what.
EvidenceImmutable ==
  [][\A n \in Documented : docs'[n] = docs[n] /\ (n \in logs => n \in logs')]_vars

\* Through the marker, the pointer and the documents readers see a register that is
\* opened by each run and settled once, by a failure if the run was interrupted: an older
\* verdict never comes back, and only a suite that passed settles it as a pass.
Register == INSTANCE VerdictRegister WITH
  open <- marker,
  settled <- IF Authoritative = 0 THEN [run |-> 0, verdict |-> "none"]
             ELSE [run |-> latest, verdict |-> docs[latest]]

ImplementsRegister == Register!RegisterSpec

\* A producer that is not killed lets go of the lock, on every way out of its call: the
\* handler, the error of a move, and the refusal that the handler itself raises.
LockIsFreed == \A p \in Producers : lock = p ~> lock # p
=============================================================================
