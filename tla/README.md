# Semiskill in TLA+

Semiskill is a governed store of agent skills. A skill version is captured, scanned for security, reviewed
in rounds by independent contexts, and approved by a person. What passes becomes visible in a catalog.
Nothing is ever updated: scans, reviews, leases and decisions are rows of one append-only table,
`artifacts`, and what a reader sees is derived from them. Around this core stand the tools that produce and
guard its evidence: a test suite whose verdict is a set of files, a scoreboard that freezes a reading of
everything, a queue of requests from the dashboard, and the migrations of the schema. The hard part is the
same everywhere: something is *read* in several steps and *acted on* later, while other processes do
the same, and any of them may stop between two steps.

This directory specifies those parts, checks them with TLC and proves what matters most with TLAPS.

| module | what it is |
|---|---|
| `Publication` | human decisions, their transactions, the projection the catalog is read from |
| `Catalog` | what `Publication` promises its readers (abstract) |
| `Lifecycle` | the state of a version as `derive_state` computes it, beside the projection |
| `ReviewLedger` | leases, collection and readiness of content review |
| `RoundLog` | what `ReviewLedger` promises to publication (abstract) |
| `Intake` | the capture of a wave's payloads from the working tree |
| `Scanners` | what a scan of one payload says and when it may be believed (operators) |
| `ScanWave` | the wave driver and the pipeline it runs; uses `Scanners` |
| `CostGate` | the actuator gate and the spending guard on top of it |
| `Scoreboard` | the scoreboard document as a function of what a build read, its checks and gate (operators) |
| `SnapshotReaders` | who builds a scoreboard and who acts on one; uses `Scoreboard` |
| `SuiteVerdict` | from pytest's reports to the verdict of a run (operators) |
| `FullSuite` | the producer and the readers of full-suite evidence; uses `SuiteVerdict` |
| `VerdictRegister` | what `FullSuite` promises its readers (abstract) |
| `Migrations` | adoption, forward migration and bootstrap of a database |
| `ActionQueue` | the dashboard's request queue |
| `PublicationProofs` | proofs about `Publication` |
| `ReviewLedgerProofs` | proofs about `ReviewLedger` |
| `FullSuiteProofs` | proofs about `FullSuite` and `SuiteVerdict` |
| `MigrationsProofs`, `ActionQueueProofs`, `CostGateProofs` | proofs about `Migrations`, `ActionQueue`, `CostGate` |
| `WaveProofs` | proofs about `ScanWave` with its `Scanners`, and about `Intake` |
| `SnapshotReadersProofs` | proofs about `SnapshotReaders` and `Scoreboard` |
| `MC*` | model values, start states, symmetry sets for TLC; `MCAutomation` composes `Intake`, `ScanWave` and `CostGate` |

Definitions commented *Mutant:* are faulty variants of the one that follows them. Nothing uses them; they
say which mistake in the code each property would notice.

## 1. Inventory

Paths are relative to `src/semiskill/` unless they begin with another directory. The migrations are in
`artifacts/migrations/`, cited by number.

**Publication decisions and projection** (`governance/publish.py`, `rollback.py`, `reconciliation.py`,
`artifacts/store.py`, 0009, 0011). *State*: approval artifacts, the table `verified_publication_events`, the
row of the trust policy, an advisory lock for each slug. *Operations*: approve, reject, unpublish,
activation of a row already in the log, raw append, change of the policy. *Hard*: evidence and head are read
up to three snapshots before the append; a lost reply leads to a second submission; timestamps come from
callers' clocks; a row appended raw may be activated by anyone later; the policy changes during a
transaction. *Correct when*: a slug has one head; what was pulled or superseded is not shown again; a
decision takes effect only on the head its caller saw; a head is corrected once; equal decisions leave one
row; the policy in force at commit is the one the projection froze; every call returns.

**Content-review ledger** (`authoring/review_collection.py`, `gate.py`, `issue_batch.py`, 0016, 0018–0020,
0022). *State*: leases, content reviews, transactions in flight. *Operations*: issue a lease, collect a
batch, append, read the readiness of a version or of one review, in Python and in SQL. *Hard*: leases do not
exclude each other; a batch is validated against a snapshot and inserted row by row; two batches may insert
their skills in opposite orders; readiness is written twice, in two languages. *Correct when*: a skill has
one gap-free lineage; no context reviews twice or reviews what it fixed; a blocker stays open until a later
reviewer resolves it; both languages agree; what a badge shows does not change; a lost lease blocks nobody.

**Lifecycle derivation** (`spine/lifecycle.py`, `states.py`). No state: `derive_state` recomputes the state of a
version from the artifacts that name it. *Correct when* it says published only of what is projected and not
withdrawn.

**Wave driver and capture** (`wave.py`, `capture/`). *State*: the working tree, captured versions, a
journal file. *Operations*: open, enumerate and read a directory; capture or reuse a version; reuse or run
the scans; queue it for a person. *Hard*: files and whole directories are replaced while they are read; the look-up
of a version and its append are apart and two waves may run; a wave is interrupted and run again.
*Correct when* a payload is one directory and one bundle, whole; a rerun reuses what exists; what was turned
down is not queued later.

**Scan pipeline** (`spine/pipeline.py`, `scanners/`, `sensor/judge.py`). *State*: scan artifacts and
security aggregates, appended one by one. *Hard*: a crash between two appends; two stages outside the
process that fail, time out or see less than they were given. *Correct when* an aggregate rests on one run's scans,
and what did not look is never a pass.

**Cost gate and actuator gate** (`governance/cost.py`, `gate.py`). *State*: the spend ledger, the log of
decisions. *Hard*: the cap is compared with a sum read before the call; the spend is written after it.
*Correct when* the overrun is bounded by what was in flight, and what was denied or not judged does not run.

**Full-suite evidence** (`verification/`). *State*: logs, run documents, `latest.json`,
`in-progress.json`, a lock file, a lease in the test database. *Hard*: the producer may die between any two
of its file operations; the next one recovers; readers open five files one after the other. *Correct when*
readers see the verdict of the newest run or none, evidence is immutable, and no crash blocks the next run.

**Schema migrations** (`artifacts/migrate.py`). *State*: applied versions and checksums, audits, an
advisory lock, the working tree. *Hard*: files are hashed for the plan and read again to be run; two operators plan against the
same state; the reply of a commit is lost. *Correct when* the tracker names what ran, a complete database has one
audit, and a lost reply is recognised.

**Scoreboard snapshot and its readers** (`authoring/snapshot.py`, `issue_batch.py`, `export_scope.py`,
`export_files.py`, `pack.py`, `site.py`, `dashboard/server.py`). *State*: the snapshot file, the export tree
and the directories beside it. *Operations*: build, validate and show, issue review contracts, export. *Hard*: registry, files, commit and
database are read one after the other without a lock; an export is a swap by two renames. *Correct when* what readers act on
was true at one moment, the release gate says what it means, and a failed export leaves the old one.

**Dashboard request queue** (`dashboard/action_queue.py`). *State*: a journal, archives, receipts.
*Hard*: each answer follows several file operations that may fail or be undone by a power failure. *Correct
when* what a client was told is durable, a request has one answer, and the files always open again.

**Left out**: controller and stability controls (`intelligence/`, `sensor/`), the catalog API and
retrieval (`api.py`, `context/`), identity, authoring lint, consistency and facets, the command line and
seeding, the red-team harness, the other views of the dashboard. Section 9 says why.

### How they interact

    working tree -> Intake -> ScanWave -> scans, aggregates -+
                                 |                            +-> Publication -> catalog, API
    CostGate: model calls        +-> leases -> ReviewLedger --+        |
                                       ^                               v
    FullSuite: verdict of the code     +---- Scoreboard: issue, show, export

Everything on the governed path communicates through rows of the artifact table: the concurrency is that
of processes which read, decide and append, and PostgreSQL serialises some of it by advisory locks, unique
indexes and triggers. The tools around it communicate through files, and what makes these safe is the order
of writes, links, renames and syncs.

The modules meet at interfaces. `Publication` takes of content review exactly what `RoundLog` promises, and
`ReviewLedger` implements `RoundLog`. `Lifecycle` reads the ledger of `Publication`. `ScanWave` uses
`Scanners`, `FullSuite` the verdicts of `SuiteVerdict`, `SnapshotReaders` the document of `Scoreboard`; what a
contract issued there admits is `ReviewLedger`.

## 2. Plan

Done: publication, lifecycle, the review ledger, capture, waves and scans, the cost gate, the full-suite evidence,
migrations, the scoreboard with its readers, the request queue, and the theorems of section 7.

Left, in order of what it would add: the controller and the stability controls as operators against
reference definitions; the rest of `Scanners` that is now given per payload.

## 3. Publication

### Correspondence

| state | code |
|---|---|
| `approvals` | approval artifacts; the index is the id, so that the order is commit order |
| `events` | `verified_publication_events` |
| `lineage[s]` | content-review rounds of a slug, each with its version and whether its own chain makes it ready |
| `aggregate[s][v]` | best security aggregate of a version |
| `threshold` | `approve_threshold` of the enabled row of `publication_trust_policy` |
| `lock[s]` | `pg_advisory_xact_lock` of the slug |
| `pc`, `call`, `now` | where a caller is, what it will write, the database clock |

`approve` is two steps in Python and one transaction: `ApproveCheck` (evidence), `ApproveReconcile`
(bundle, existing decision, head), then `AppendBegin` at the moment the lock is granted and `Commit`.
Reads that follow each other with no write between are merged. `AppendBegin` is atomic because everything
it reads of a slug changes only under the lock of that slug; it reads after the lock is granted, and in READ
COMMITTED a volatile PL/pgSQL function takes a fresh snapshot for each statement. `activate_verified_publication`,
when it is called directly, reads the policy row FOR SHARE *before* it waits for the slug
(`ActivateShare`, then `ActivateBegin`), and `ConfigurePolicy` waits for the readers (`Sharing`).
`Import` is a raw append: only triggers and indexes are between it and the table.

Abstractions: identities, tokens, registry facets, permission labels and content hashes are taken as well
formed (a row that is not bound is refused before it reaches the modelled checks). A version has one
`skill_version` artifact. Timestamps of the evidence are not modelled, those of decisions are. Scores are 1
(reject), 2 (`MIN_APPROVAL_SAFETY`) and 3 (above a raised threshold). `via` is a history variable. The
checks of single links stand for the reconciler's walk along the chain. Approvals of equal `activated_at` count as in order.

### Runs

| run | instance | shows |
|---|---|---|
| `race` | 1 slug, 2 versions, 2 callers, one with a fast clock, 3 approvals, 3 rounds, fairness; 287 000 states | `LedgerInv` (types, one head, newest head, one correction, and why), no correction before what it corrects, one row for a repeated decision, effect only on the head read, the refinement of `Catalog`, `derive_state` never says published of what was withdrawn, every call returns |
| `policy` | 2 slugs, 1 version, 1 caller, thresholds 2 and 3, 1 raw row; 894 000 states | with right clocks, Python consumers and SQL readers show the same whatever was appended raw and activated; frozen evidence meets the frozen policy, which is the one at commit |
| `pull`, `consumers` | | violations, see section 8 |

Bounds: three approvals are the least that let one version be published, replaced or pulled, and a
third decision race both; two versions show order, and three rounds let one be added after each was used. A second
slug matters only to raw rows that name a row of another skill (`policy`). `CHECK_DEADLOCK FALSE`
is set where every bound can be used up with all callers idle: that is the end
of the instance and not of the program.

Fairness: weak on the steps a caller takes by itself, strong on being granted the lock, since PostgreSQL
serves an advisory lock in the order of the requests. Nothing is assumed of starting, crashing or the environment.

`Lifecycle` reads the ledger as `derive_state` does. `SCANNED` is merged with `SUBMITTED`, since scans are
below this level.

## 4. ReviewLedger

### Correspondence

| state | code |
|---|---|
| `leases` | lease artifacts with `verified_review_contracts` and `..._cells`; the index is the id |
| `reviews` | committed content reviews, each a lease and findings |
| `rows[c]`, `done[c]` | the list given to `append_many`, and how many rows its transaction has inserted |

A review must equal its lease (`review_contract_matches_v1`), so that a review is modelled as a
lease id and its findings. `Issue` is `issue_review_batch_contract` with the deferred trigger that validates the
cell. A first lease needs a skill without a committed review. Nothing looks for a child of the prior review of a later lease, nor for another
lease that is still out; 0018 dropped the two constraints that made a lease exclusive, and says why. `Collect` is all of `collect_review_contract_batch` up to `append_many`, on one
reading of the history. After it come the inserts: `InsertRow` is an insert with its AFTER trigger (the row holds
its index keys while the trigger runs, so that nothing the trigger asks about can commit between them). A unique
index makes an insert wait for an uncommitted row with its key: `Blocks`. A cycle of waits ends by
`DeadlockVictim`, a refused row by `Refused`; both roll the batch back. `AppendRaw` is `store.append` by a
process with the pipeline role, without the collector: the invariants therefore rest on the database alone.

`Chain`, `FindingsKept`, `OpenBlockers`, `ReadyReview` and `ReadyVersion` follow `gate.py`, and
`ContentReviewReady` the SQL function. They are relations over sets of reviews, not loops: the newest mention of
a finding is the one with the highest attempt.

Abstractions: a disputed finding counts as an open one, as everywhere in the code. Category, evidence, location and
required change are one value; severity is kept apart, as SQL readiness compares it (with the category) and
nothing else. The four checks have one outcome. Run ids are unique with the lease. The grouping
into batch ids is free, which allows more batches than the code. Facets, labels, timestamps and the
authentication of issuers are not modelled. Imported legacy reviews never become canonical rounds and are left out.

### Runs

| run | instance | shows |
|---|---|---|
| `rounds` | 2 versions, 3 leases, 2 lineage ids, 3 contexts that review and fix, 2 writers, 3 attempts; 94 000 states | `LineageInv` (types, one lineage, and why), independent reviewers, a lost lease can be replaced, the refinement of `RoundLog` |
| `findings` | 3 rounds, 1 finding with 2 wordings, each severity and disposition; 33 000 states | no blocker is lost on the way to ready; `GatesAgree`: Python and SQL agree on readiness (`ReadinessAgrees`) and on admission (`AdmissionAgrees`); readiness is frozen |
| `batches` | 2 skills, batches of 2, 2 writers, fairness; 137 000 states | every call ends, deadlocks included |

Bounds: three rounds are needed for a finding that is raised, left out and looked at again, and for a
context that comes back after another one. Three leases let two of them be stale. Two writers are enough for
each race, as a row conflicts with one other row. Findings are independent of each other in every check, so one is
enough. `MaxAttempts` is 3 in `rounds`, so that the limit is met. Symmetry is used for interchangeable ids in
the runs without liveness. All three check for deadlock.

Fairness: a running transaction goes on (weak on `Commit`), and PostgreSQL looks for deadlocks after
`deadlock_timeout` (weak). An insert that waits is woken when the transaction it waits for
ends; that later ones do not overtake it for ever is strong fairness of `InsertRow \/ Refused`.

`AdmissionAgrees` excludes one case: a lineage id that another skill already uses. The unique index sees it;
the collector, which reads the history of the skill, does not. The append is then refused and nothing is lost.

## 5. Capture, waves, scans and the cost gate

One run, `automation` (965 000 states), checks three machines that share nothing but the rows they append:
`MCAutomation` lets each behaviour run one of them (`part`).

### Intake

`root` says which directory object a path names, `node` what lies in the objects, `loader` is the local
state of `load_wave`. The loader opens the shared bundle and then each skill directory, holds the object, lists it, and reads one
file after the other, with the checks of `capture/intake.py` on every node; meanwhile files change, links
are planted, and directories are renamed over each other. `CaptureSound`: each payload's own texts come from one
directory object (`OneDirectory`), all payloads carry the same bundle (`OneBundle`), and a payload that is taken is complete and
within the limits after the bundle was merged in (`PayloadsAreWhole`). `QuietIsExact`: what nobody touched
is captured as it lies there. The instance has 2 skills, a spare directory, 4 names, 2 changes, POSIX and Windows.

The files of one skill may be captured at different moments, since each is read on its own: only a quiet
capture is exact. The byte, depth and entry budgets stand as one (`MaxFiles`). Parsing of SKILL.md is left
out. `cmd_wave` lints the tree first and loads it again: what was linted need not be what is captured.

### Scanners and ScanWave

`versions`, `scans` and `reviews` are the captured versions, scan artifacts and security aggregates in the store, `journal` the
lines written about items, `wave[w]` the local state of a wave. A wave looks up a version, captures it,
looks for an aggregate, scans stage by stage, aggregates and journals, each append a step of its own; it may fail or die
between any two, and be started again beside another.
`saw` and `met` are history variables: what the look-up before a capture or an aggregate found. A scan is known by its version,
run, stage and `turn`, the place in the run at which it was made (an artifact has an identity of its own in the code: a selection that
names a version twice, scanned twice, must not lead to the same scan).

`EvidenceSound`: an aggregate rests on one scan of each stage, all of one version and of the run that wrote
it; credit is given only where the payload was in fact looked at, whatever the scan says of itself; a version or a verdict exists twice only where two waves raced.
`QueueSound`: the journal tells exactly how far a run came; what it queues is approved, with every measured stage at 0.8 or better
and no hard finding; what was turned down once is not queued by a later run unless two runs raced.

What the patterns find in a payload is given with it, as a bag of codes, since a code found twice lowers the score twice; what follows is computed.
The host of stage 2 and the judge of stage 5 are drawn from small sets: an engine that is unapproved, times out,
or misses a file without saying so, a judge that has drifted or whose model is another than the pinned one.
What happened there (`Looked`, `Heard`) is said apart from what the adapters make of it (`Audit`, `Judge`), and recorded with the scan in `real`;
the mutants of `EvidenceSound` drop one check of an adapter each, and the scan then says `passed` of what nobody saw. The answer of the content ledger is abstracted, timestamps are in the order
of the appends, and status "awaiting" stands for every outcome that leads to a human gate. The retired npx
runner, the calibration of judges (filtered by rubric version alone) and the reading the drift sensor appends are left out. Waves that do not require a
judge are not run. Two waves, three payloads, 1 fault and 2 runs are the least in which a capture races, a run is
repeated after a failure, and a payload that was turned down comes again.

What the model shows of the code, besides: nothing makes slug and version unique, so two concurrent waves may capture one number
twice, even with different bytes; a rerun reports a version that was hard-failed as CHANGES_REQUESTED and not as BLOCKED
(wave.py:187 passes no `blocked_at`); the pipeline runs all stages and writes an aggregate after a hard failure, where
docs/SECURITY.md:33-36 speaks of a short circuit; the command line demands a judge and none is wired to it, so
`cmd_wave` always refuses today (cli.py:363), and the runs are those of callers of `run_wave`.

### CostGate

`guard_llm_call` sums the ledger, has the call judged by the gate, makes it, and ledgers what it cost; `guarded_run` is
the gate for any action. Each is a step, other callers act between them, and the approver, the action and every append may fail.
`GateSound`: the ledger exceeds the cap by at most what can be in flight together, and an action that was denied, rejected
or not judged never runs; with the invariants that make both inductive. The run has 2 callers, 2 prices, 4 policies
(rules with each of the three defaults) and 3 calls; the theorem of section 7 has no bounds. The functions are a library: only tests and the spending report call them.

## 6. Evidence files, migrations, scoreboard and queue

### FullSuite

Files are sets of run numbers (`logs`, `docs`, `orphans`, `latest`, `marker`), `temps` are temporary files and `linked` moves
that are between link and unlink. A producer takes the lock, recovers what it finds, writes the marker, runs
the suite, writes log, document and pointer, and removes the marker: one step for each file operation. Each
may fail, and a producer may be killed before any. A reader opens pointer, document, log, pointer and marker.
`SuiteVerdict` computes the verdict of a run from what pytest reports of each test and from how the process ended. Nothing is reported of a
phase in which the session is stopped, so that the last test may lack any of its phases (`Cut`).

Three places end a call. The handler of a failed call (`Abandon`) moves the log without a document to the orphans; when that directory is unusable or
holds a namesake, it raises a refusal of its own, which `suppress(OSError)` at full_suite.py:769 lets through, and `_release_lock` at 776 is
skipped: then only the end of the process frees the lock (`Unwind`; the one caller, cli.py:580-586, reports the refusal and returns).

Run `fullsuite` (2 producers, 1 reader, 2 tests, 3 runs; 433 000 states). `FilesTrusted` is `TypeOK`,
`ReadsAuthoritative` (an answer was the last verdict, with nothing in progress, at some moment of the reading) and
`Recoverable` (no crash leaves files the next producer refuses). `EvidenceImmutable`: documents never change and
their logs stay. `ImplementsRegister`: readers see the register of `VerdictRegister`, which each run opens and settles once, and which says pass
only of a suite that ran without a failure (`SuitePassed`): every test came to its call or was skipped before it, and no phase of any failed. All tests were
torn down, too, but for one case that the reporter cannot tell apart: `pytest.exit(returncode=0)` in the teardown of the last test leaves it "passed"
(pytest_reporter.py:53-62), and the run counts as a pass (full_suite.py:724-729). `LockIsFreed` under weak fairness of a producer's own
steps, each of which the code bounds by a timeout. Three runs are needed for one that
crashes, one that recovers it, and one whose pointer is read meanwhile.

`Recoverable` excludes one state, which a person must clear: a producer that dies between link and
unlink of a quarantine (full_suite.py:268) leaves a log with two names, and every later recovery refuses it.
Not modelled: the suite of a killed producer may go on writing to the test database (full_suite.py:528).

### Migrations

`tracker` has the checksums, `applied` the scripts that really ran (a history variable), `audits` the adoption and forward artifacts,
`head` and `disk` the working tree, `condition` the worst thing the attestations would find. Operators plan
(`plans` are the documents for review), take the advisory lock, check, apply script after script, and commit; they are killed, lose replies and
submit again. `Edit` changes files and checks out commits at any moment, `Wear` is what sessions that do not take
the lock do to the schema. The attestations, long lists of comparisons with the catalog, are abstracted to their outcome.

Run `migrations` (2 operators, 2 commits, one file for each of the three stretches of the history, one plan; 252 000 states). `TrackerTruthful`
(with `TypeOK`): every row of the tracker names the script that ran. `AuditTrail`: a complete database has one audit that names the
commit whose files ran (`AuditedOnce`), an operator who is told "done" finds it (`DoneIsAudited`), and one who asks again is
referred to it (`RetryRecognised`). `ReviewedState`: between checks and commit the reviewed history stands still. `LockIsFree`
under weak fairness of the operator who holds the lock. `LegacyAssumption` is the trusted manifest of 0001 to 0010 (migrate.py:429-446) and no more:
the two commits of the run differ in the file of the second stretch (0011 to 0015) and in that of the third, so that a tracker written from one commit is met with
the files of the other, and the comparison at migrate.py:1761 refuses.

Adoption recognises no retry (migrate.py:1514): it is refused, and nothing is lost. Between attestation and
commit unlocked sessions may still change the schema (migrate.py:2590).

### Scoreboard and SnapshotReaders

`Scoreboard` is the document as a function of a reading `r`, which records what each part of a build saw: cells,
counts, anomalies, the release gate and the validation that recomputes them. `SnapshotReaders` has the world (`tree`, `registry`, `commits`, `db`), one
running job and its next step (`job`, `at`), and the files (`document`, `destination`, `beside`). A build reads registry, lint, consistency,
database, sources, commit, status and hashes in this order, skill by skill where the code does; validation,
issuing and export are sequences of such readings and checks, and the export stages, sets aside, places and cleans up, where each file
operation may fail and the process may die. `held` is a history variable: the claim of the job was true at some moment of it.

Run `snapshot` (2 skills, 2 contents, 2 moves of the world, 3 start worlds; 921 000 states). `VerifiedIsAtomic`: what the dashboard shows as verified is
what one reading at a single moment would have said. `IssuedIsHeld`: at one moment of the issuing the registry,
the tree hash and HEAD were those of the snapshot, and every contract names a version that was scanned.
`ExportSound` is `ExportIsBound` (the heads of one moment, the sources of the commit it names) and `ReportsAreTrue`.
`ScoreboardSound` is `TypeOK`, `GateIsTruthful` (the gate passes exactly when a direct definition of launchable holds) and `Conserved` (what
the producer counts over the registry's rows, the validator finds again over the cells alone: two pieces of code, modelled apart as `Counts`, `Conservation`, `Release`
and as `Recount`, `ExpectedConservation`, `ReleaseExpected`).
`OutputSurvives`: once an export is complete, it or a later one is at the destination or set aside next to it.

Contents are numbered and only grow: no edit and no checkout restores an earlier one. Jobs share only the snapshot file, so one job at
a time is enough. Left out: permission labels, invalid lineages, malformed payloads, missing scan stages (they only add kinds of
anomalies), age limits, the progress file, the database identity and the migration witness. One exporter
uses a destination; the verification of an existing tree and what is rendered into it are abstracted. A
version is decided once; the verdict of a scan may change until it is reviewed, as two scans may race.

Two things to know about this code. A build hashes the whole tree after it has read the sources, and nothing compares the two; issuing checks
the hash of the tree only. From such a torn build a contract may be issued for a content that the tree no longer holds. docs/UNBLOCK_SPECS.md:173-175 asks
that the lease name what was scanned: `IssuedIsHeld` shows that it does, for a torn build as well. What it does not show, because it is not so, is that the
content is on disk. The dashboard's rebuild refuses a torn document. And an export does not check the registry's hash: a build that read the registry before a commit which declines a skill, and
HEAD after it, gives a snapshot from which that skill is still exported; the rebuild catches this, too.

### ActionQueue

`fs` is the journal with its archives, receipts and temporary files, `survivors` the states a power failure may leave of them, `pinned` the model
the process checked at its start, `uncertain` and `lost` its two kinds of doubt. Every request and every archive is a sequence of file
operations (write a temporary, replace, sync the directory), each of which may fail; the process is killed, power fails, the model is edited. `told` is a
history variable: what was ever shown or receipted.

Run `queue` (2 ids, 2 models, 2 file errors, 2 stops or edits; 340 000 states). `ToldIsDurable`: what a client was told survives every failure.
`OneAnswer`: a request id has one answer over retries, restarts and archives. `Repairable` is `TypeOK`, `AlwaysOpens` (the next start
can open what any failure left) and `CertainIsClean`. `Answered`: while the server runs, a client that repeats its request
is answered, under weak fairness of the server's work and strong fairness of the client's repetition. Two faults let the rollback of a receipt fail as well; two events are a stop and an edit, or
two stops. The HTTP envelope is left out.

## 7. Proofs

All theorems are about the specification of the module (`Spec`, `GateSpec`, `WaveSpec`, `IntakeSpec`) for every value of its constants. They assume only the named assumptions of
the modules (bounds are natural numbers, check results are Booleans, a cheapest estimate and a dearest
actual cost exist, and so on), which TLC evaluates in every run.

**PublicationProofs.** `TypeCorrect`, `LedgerCorrect`, `SingleHead`, `NewestHead`, `SingleCorrection`,
`TakesEffect`, `Refinement`, `InOrder`, `EvidenceFrozen`,
`PolicyHeld`, `OneRowPerDecision`, `ClocksAgree`, `DerivedTruly`. `OneHead` is not inductive: it needs to know that a transaction which found the
head it wanted will still find it when it commits. `LedgerInv` says this (`Pending`): the transaction holds
the lock of its slug, and the head, the versions and the corrections it saw are those of now. `Faithful`,
`CorrectedOnce` and `Linked` tie projection rows to artifacts, and `Targeted` covers the activation of a row
already in the log. There is one lemma for each action. Only `Commit` changes `events`, and what it does to the heads
of a slug (`CommitHeads`, `CommitReject`) gives the invariant, the action property `TakesEffectOnHeadRead` and the refinement of `Catalog`.

`InOrder`, `EvidenceFrozen` and `PolicyHeld` rest on `EvidenceInv`: a
transaction that shares the policy row carries the threshold of now, because `ConfigurePolicy` waits for it; the evidence it saw only grows;
and its projection time is not before that of the row it corrects, because both are raised to the database's clock. `OneRowPerDecision` rests on
`OnceInv`: the slug lock excludes a second appender of the same decision between the search for a twin and the commit (`AppendsOnce`), and a row
the actuator appended is projected (`ActuatorProjected`), so that the search finds it.

Two theorems have a hypothesis, because the property fails without it. `ClocksAgree` (`ConsumersAgree`) is for clocks that agree with the
database's (`Synchronised`; the run `consumers` shows what a fast one does): then what commits next on a skill is dated after all that was projected
there (`ClockInv`), so that the order of times is the order of versions. `DerivedTruly` (`PublishedIsNotWithdrawn`) is for a log without raw rows
(`MaxImports = 0`), as in the run `race`: a raw approval that was never activated is derived as published. Both use `OrderInv`: a correction publishes a
newer version of the same skill or withdraws the same one.

**ReviewLedgerProofs.** `TypeCorrect`, `LineageCorrect`, `SingleLineage`, `ReviewersIndependent`,
`FrozenReadiness`, `ImplementsLog`. `LineageInv` speaks of the rows in flight as well as of the committed ones. `Keyed`: no two of
them share a unique key. `Joined`: each row in flight fits the committed reviews of its skill. `Dense`: below
a review there is one for each earlier attempt. `Leased`: every lease continues a committed review. The
heart is the lemma `Exclusive`: there is never a second row of the same skill in flight, as the prior of the later
row is committed already, so that by `Dense` the place of the earlier one is taken. Hence what the trigger
could not see (another transaction's row) does not matter, and `Commit` keeps the invariant. The proofs make no
use of the collector's validation.
`FrozenReadiness`: a commit cannot add an ancestor of a committed review (`ParentsKnown`), so the chain of
a review (`ChainKept`), and all that readiness reads, stays the same.

`ImplementsLog`: the ledger implements `RoundLog`. The attempts of a skill are 1 to the number of its reviews (`Counted`), so
that the rounds are a sequence; `SlugStep` shows that a step adds at most one review to a skill, and as the next round.

Its last part has `NoBlockerLost`, `OneGate`, `NobodyBlocked`. Readiness walks a chain, publication counts a skill, the trigger looks at a
history: `GateInv` says that they are one thing. The walk from a review meets exactly the rounds up to it (`ChainsWhole` and the lemma `Walk`); two
mentions of a finding agree in the order of the rounds (`FindingsSettled`), because what the trigger compared with the newest mention is still
admissible when it commits (`StillAdmitted`). From it follow what readiness comes down to in each language (`ReadyReviewMeans`, `SQLReadyMeans`,
`VersionReadyMeans`), what both kinds of admission let through (`PreparedFits`, `AdmittedFits`, `CandidateChain`), and with these the three theorems.

**CostGateProofs.** `GateCorrect`. Every call in flight saw room for its estimate, so that `spent` and the dearest cost of each such call
(`Paying`) stay within the cap and what all callers together may add (`Room`); what is not decided is not logged, and calls are not shared (`OwnCalls`).

**WaveProofs.** `WaveEvidence`, `WaveQueue`, `CaptureCorrect`, `CaptureIsExact`, about `WaveSpec` and `IntakeSpec`, the parts of `MCAutomation`'s `Spec`.
The properties of the driver hold because of what four things say of one another, and `WaveInv` says it part by part. `Journaled`: no two waves at
work have the same run (`OwnRuns`), and the lines of a run followed by what its wave has left to do are the selection (`Progress`); a wave that dies
leaves a journal that is exact as far as it goes. `Told`: the verdict that a wave or a line carries is that of an aggregate of the
version it names (`Backed`), which never ceases to be so since the store only grows (`Grows`). `Races`: what a lookup did not find was written
after it (`LookedUp`), so that two versions of a number or two aggregates of a version prove a race. `Evidence`: what a run has written is
of the items it is past, but for the scans of the item it is at, and these are as many as the stages done (`Apart`, `Gathering`); so the scan or
the aggregate that a step adds is the first of its identity, and those an older aggregate rests on are no others than before (`Rests`). `Approval` draws the conclusion: if the
minimum over the measured stages is 0.8, each of them is. That a credited scan is one of a payload that was looked at does not follow from the status it has: it is
the lemmas `AuditLooked` (an audit whose report holds saw what was staged, and what was staged is all there is), `JudgeHeard` and `NotDrifted`.

Two facts about data are needed. A score is a percentage whatever was found and however often (`OutcomeType`), which is an induction over the set of codes: the fold
`MapThenSumSet` has a solution (`SumsExist`) and its value is a number (`PenaltyType`), shown by a least counterexample, which exists because the order of the
numbers is well founded (`Least`). And counting the lines of a run is done with cardinalities, not with a filter over the journal.

In the capture, files that were read are of the directory that is held (`Listing`), whatever was renamed over its path since; the bundle is fixed before
the first skill is read (`InOrder`), so that every payload has the same one (`Settled`, `Taken`); and while nobody touches the directory, what was read and
what is left to read are together what lies there (`Untouched`).

**MigrationsProofs.** `MigrationCorrect`, `TrackerIsTruthful`, `HistoryStandsStill`, `MigrationsAudited`. `MigrationInv` has a part about the
database (`History`: the tracker names what ran, the legacy files are kept, reviewed plans name the files of their commit, an audit
tells of a stretch of the history that stands, and a complete database has one) and one about calls (`Calls`: who holds the lock, what document each
call has in hand, and that a call which applies scripts has checked a history that is still the one there is, `Matches`). Only `Commit` changes the
database, and only the call with the lock gets there; `OthersStep` shows what a step leaves of the other calls. `MigrationsAudited` needs more than the invariant: who submits
a finished plan again is referred to the audit that names it (`DoneIsRecognised`), as no other plan can have led to the same tracker.

**ActionQueueProofs.** `QueueCorrect`, `AnswersAreDurable`, `AnswersAreUnique`, `QueueIsRepairable`. What a failure leaves is not one state but a set of them
(`survivors`), and `DiskInv` says of each that it is sound (identities are in one place, one archive at most is half moved and holds the journal's rows)
and holds all that was told. `Serving`, `Steady` and `Drafted` say what the steps before have left in the files, and `CertainIsClean` that a server without a
doubt has nothing to repair. The lemmas about the files alone (`MoveGood`, `ResumedGood`, `RowGood`, `ReceiptGood`) carry the proof; a file error or a kill adds no
case, since all it can leave is among the survivors already. `QueueIsRepairable` is thereby the statement that every survivor opens.

**FullSuiteProofs.** `SuiteCorrect`, `FilesAreTrusted`, `EvidenceStays`, `RegisterImplemented`. `SuiteInv`: one producer at most is at work, on the newest run
(`Exclusive`); the files can be placed whoever died over them (`FilesInv`); the one at work knows which file it moves and what its run has left so far (`Stage`);
and a reader's newest verdict was authoritative while it read, unless its last look at the marker will tell it otherwise (`ReadersInv`).
`RegisterImplemented` maps the files to `VerdictRegister`: writing the marker opens a run, removing the marker settles it, and nothing else
shows. That a settled pass is of a suite that passed is the lemma `PassIsEarned` about `SuiteVerdict`: the last report that tells decides on a test, and a test
without its teardown is the last one of a session that was stopped.

**SnapshotReadersProofs.** `SnapshotCorrect`, `ShownIsAtomic`, `IssuedWasHeld`, `ExportsAreSound`, `ScoreboardIsSound`, `OutputIsNeverLost`. A reader reads in many steps while others edit,
commit, register and decide. What saves it is what these can do: a skill's content only rises (a hash does not come back), a registry row is listed
and then declined, a commit stays. So a hash that is equal at the end was equal all along, and the invariant is that a partial reading either agrees with the
one moment at which the database was read (`Faithful`), or differs in something that a later check compares and that cannot return (`Gone`). For a
contract the same is said of the hashes alone (`IssueInv`), and for an export of the commit it names (`ExportInv`, `Bound`). The assumption `N # 0` leaves
out the catalog without a single skill, in which no step reads a file.

`IssuedWasHeld` has two parts. The second, that a contract names a scanned version, holds of torn builds, too: a stage never falls back below a scan
(`Onward`), and only cells with a passed scan at the moment of the bundle are leased.

`ScoreboardIsSound` is about the document, for a catalog of any size, any roles and any expected scope. That it conserves its cells is a fact about
every reading, torn or not (`AnyReadingConserves`): the states, and the roles, part the active rows into classes, and the sizes of the classes of a finite
set add up to it (`TotalOfClasses`, a bijection put together from one per class). That the gate says what it means (`GateOfNow`) goes by `GateMeans`:
a count of some cells equals the count of all only if they are all of them, so the gate's comparisons of numbers come to a statement about every cell
(`AllReady`), and that is `Launchable` because a published head was approved and can since only have been reopened (`Headed`, the part of `ShapeInv`
that `Decide` could break), which is what the anomaly of a later review catches. `StartsAssumption` says of the database of a start what every
projection that passed its reconciliation has: an approved version at each head.

Only model-checked: liveness (`CallsReturn`, `EveryCallEnds`, `LockIsFreed`, `LockIsFree`, `Answered`), because fairness is outside the
prover. Every invariant and every action property that a passing run checks is stated by a theorem.

## 8. Findings

Each is a run that TLC ends with a counterexample.

* `pull` (`PublishedCanBePulled`): docs/ADOPTION.md:34-35 tells how to pull a published skill. The actuator asks
  of the unpublication, too, that the cited review be the last round of the slug: once any later round is collected, the published version
  cannot be pulled.
* `consumers` (`ConsumersAgree`): with a fast clock at one caller, the order of `activated_at` contradicts the
  order of versions. The Python consumers then quarantine the slug and stop all approvals, and the SQL readers
  go on showing it.

Seen while modelling, without a run: a correction that was appended raw and never activated occupies the only correction slot of the head it names
(0009:4); `derive_state` still says PUBLISHED of a version that a newer one replaced (lifecycle.py:44-47); a pool is looked up outside its
lock while `close()` replaces the table of pools (store.py:303); legacy review files are archived one by one after their rows are committed
(review_collection.py:718). Sections 5 and 6 name others where they belong.

## 9. Not modelled

* Controller and stability controls: pure functions of a history, to be checked against reference definitions.
* Lint, consistency rules, facets and Markdown: sequential pattern matching over text. Their outcome is a quality of a content.
* Identity: checks of a signature or an account, without state. Its outcome is taken as good, since a bad one is refused first.
* The catalog API, the site and the other views of the dashboard: readers without state. What they show is `Heads` of `Publication` and the
  document of `Scoreboard`.
* The command line, the seeding and the red-team harness: arguments and fixed cases around the operations above.
* PostgreSQL, the file system and pytest are modelled by what their documentation says of locks, transactions, renames, syncs and reports.
