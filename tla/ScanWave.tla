------------------------------ MODULE ScanWave ------------------------------
(***************************************************************************)
(* The wave driver (wave.py) and the pipeline it runs (spine/pipeline.py): *)
(* a wave captures each selected skill that is not yet in the store, has   *)
(* it scanned unless an aggregate of scans exists, and queues it for a     *)
(* human decision.  Every artifact is appended in a transaction of its     *)
(* own, waves run concurrently, and a wave may fail or die between any two *)
(* appends and be started again.                                           *)
(***************************************************************************)
EXTENDS Scanners

CONSTANTS
  Waves,        \* operators who run waves
  Selections,   \* sequences of items a wave is started with
  Setups,       \* whether a wave has a judge, and whether policy requires one
  Hosts,        \* what stage 2 may find itself on
  Judges,       \* what stage 5 may find itself on
  MaxBatch,     \* skills in one wave
  MaxRuns,      \* waves ever started
  MaxFaults     \* errors and deaths

Items == UNION {Range(sel) : sel \in Selections}

ASSUME WaveAssumption ==
  /\ \A sel \in Selections : sel \in Seq(Range(sel))
  /\ \A item \in Items : item.content \in Contents
  /\ Setups \subseteq [judge : BOOLEAN, required : BOOLEAN]
  /\ \A h \in Hosts : h.engine \in {"error", "timeout", "runs"} /\ IsFindings(h.found)
  /\ \A j \in Judges : j.reply \in Nat /\ j.kappas \in Seq(-100..100)

VARIABLES
  versions,  \* captured versions; saw: how many there were at the lookup
  scans,     \* scan artifacts, each the one of its run, turn, version and stage;
             \* real: whether the payload was in fact looked at
  reviews,   \* security aggregates; met: how many there were at the lookup
  runs,      \* waves started: their selection and how they ended
  journal,   \* the lines written about items
  wave,      \* the local state of each wave
  faults     \* errors and deaths so far

waveVars == <<versions, scans, reviews, runs, journal, wave, faults>>

Idle == [pc |-> "idle", run |-> 0, todo |-> <<>>, judge |-> FALSE, required |-> FALSE,
         ver |-> 0, saw |-> 0, met |-> 0, own |-> {}, verdict |-> "none", status |-> "none"]

WaveInit ==
  /\ versions = <<>> /\ scans = {} /\ reviews = <<>>
  /\ runs = <<>> /\ journal = <<>> /\ faults = 0
  /\ wave = [w \in Waves |-> Idle]

Item(w) == Head(wave[w].todo)

\* The place of an item in its run, counted from the end.
Turn(w) == Len(wave[w].todo)

Id(s) == [ver |-> s.ver, run |-> s.run, turn |-> s.turn, stage |-> s.stage]

Records(refs) == {s \in scans : Id(s) \in refs}

-----------------------------------------------------------------------------
(* One wave.                                                               *)

\* A wave that requires a judge and has none is refused before it writes.
Begin(w) ==
  /\ wave[w].pc = "idle" /\ Len(runs) < MaxRuns
  /\ \E sel \in Selections, setup \in Setups :
       /\ Len(sel) \in 1..MaxBatch
       /\ setup.required => setup.judge
       /\ runs' = Append(runs, [sel |-> sel, ended |-> "no"])
       /\ wave' = [wave EXCEPT ![w] = [Idle EXCEPT
            !.pc = "lookup", !.run = Len(runs) + 1, !.todo = sel,
            !.judge = setup.judge, !.required = setup.required]]
  /\ UNCHANGED <<versions, scans, reviews, journal, faults>>

Exact(w) == {i \in DOMAIN versions : versions[i].item = Item(w)}

\* Mutant: the version number is not looked up.
NoCollision(w) == {i \in DOMAIN versions : FALSE}

Collisions(w) == {i \in DOMAIN versions :
  versions[i].item.slug = Item(w).slug /\ versions[i].item.number = Item(w).number}

\* One query for all captured versions.
Lookup(w) ==
  /\ wave[w].pc = "lookup"
  /\ \/ /\ Exact(w) # {}
        /\ wave' = [wave EXCEPT ![w].pc = "security", ![w].ver = Max(Exact(w))]
     \/ /\ Exact(w) = {} /\ Collisions(w) # {}
        /\ wave' = [wave EXCEPT ![w].pc = "journal", ![w].status = "error"]
     \/ /\ Exact(w) = {} /\ Collisions(w) = {}
        /\ wave' = [wave EXCEPT ![w].pc = "capture", ![w].saw = Len(versions)]
  /\ UNCHANGED <<versions, scans, reviews, runs, journal, faults>>

Capture(w) ==
  /\ wave[w].pc = "capture"
  /\ versions' = Append(versions, [item |-> Item(w), saw |-> wave[w].saw])
  /\ wave' = [wave EXCEPT ![w].pc = "security", ![w].ver = Len(versions) + 1]
  /\ UNCHANGED <<scans, reviews, runs, journal, faults>>

\* Mutant: only an aggregate that approved is reused.
ReviewsApproving(w) ==
  {i \in DOMAIN reviews : reviews[i].ver = wave[w].ver /\ reviews[i].verdict = "approve"}

ReviewsOf(w) == {i \in DOMAIN reviews : reviews[i].ver = wave[w].ver}

\* Mutant: a reused aggregate counts as a pass.
ReusedApproves(i) == "approve"

Reused(i) == reviews[i].verdict

\* An approved item is handed to the human gates; whether they wait for a
\* content review, refuse it or wait for the decision is not this module's.
Conclude(w, verdict) ==
  wave' = [wave EXCEPT ![w].pc = "concluded", ![w].verdict = verdict,
             ![w].status = IF verdict = "approve" THEN "awaiting" ELSE "changes-requested"]

\* An aggregate that exists is reused, and never reported as blocked.
Security(w) ==
  /\ wave[w].pc = "security"
  /\ IF ReviewsOf(w) = {}
     THEN wave' = [wave EXCEPT ![w].pc = "scan", ![w].own = {}, ![w].met = Len(reviews)]
     ELSE Conclude(w, Reused(Max(ReviewsOf(w))))
  /\ UNCHANGED <<versions, scans, reviews, runs, journal, faults>>

\* What the stages may say about payload b, and whether they did look at it;
\* only stages 2 and 5 depend on more than its bytes.
Outcome(result, real) == [result |-> result, real |-> real]

Outcomes(w, stage, b) ==
  CASE stage = 1 -> {Outcome(Static(b), TRUE)}
    [] stage = 2 -> {Outcome(Audit(b, h), Looked(b, h)) : h \in Hosts}
    [] stage = 3 -> {Outcome(Probe(b), TRUE)}
    [] stage = 4 -> {Outcome(Secrets(b), TRUE)}
    [] stage = 5 -> IF wave[w].judge THEN {Outcome(Judge(j), Heard(j)) : j \in Judges}
                                     ELSE {Outcome(Skipped(5), FALSE)}

\* Every stage runs, whatever those before it found.
Scan(w) ==
  /\ wave[w].pc = "scan"
  /\ \E o \in Outcomes(w, Cardinality(wave[w].own) + 1, Item(w).content) :
       LET r == o.result
           s == [ver |-> wave[w].ver, run |-> wave[w].run, turn |-> Turn(w), stage |-> r.stage,
                 score |-> r.score, hard |-> r.hard, status |-> Status(r), real |-> o.real]
       IN /\ scans' = scans \cup {s}
          /\ wave' = [wave EXCEPT ![w].pc = IF r.stage = 5 THEN "review" ELSE "scan",
                                  ![w].own = @ \cup {Id(s)}]
  /\ UNCHANGED <<versions, reviews, runs, journal, faults>>

\* Mutant: the aggregate refers to the oldest scan of each stage in the store.
OldestScans(w) ==
  {Id(s) : s \in {s \in scans : /\ s.ver = wave[w].ver
                                /\ \A o \in scans : o.ver = s.ver /\ o.stage = s.stage
                                                    => s.run <= o.run}}

ScanRefs(w) == wave[w].own

Review(w) ==
  /\ wave[w].pc = "review"
  /\ LET records == Records(ScanRefs(w))
     IN /\ reviews' = Append(reviews,
             [ver |-> wave[w].ver, run |-> wave[w].run, turn |-> Turn(w), refs |-> ScanRefs(w),
              verdict |-> Verdict(records), aggregate |-> Aggregate(records),
              judged |-> wave[w].required, met |-> wave[w].met])
        /\ IF \E r \in records : r.hard
           THEN wave' = [wave EXCEPT ![w].pc = "journal", ![w].verdict = Verdict(records),
                                     ![w].status = "blocked"]
           ELSE Conclude(w, Verdict(records))
  /\ UNCHANGED <<versions, scans, runs, journal, faults>>

\* Mutant: an item that failed leaves no line.
LineIfOk(w) ==
  IF wave[w].status = "error" THEN journal
  ELSE Append(journal, [run |-> wave[w].run, item |-> Item(w), status |-> wave[w].status,
                        ver |-> wave[w].ver, verdict |-> wave[w].verdict])

WithLine(w) ==
  Append(journal, [run |-> wave[w].run, item |-> Item(w), status |-> wave[w].status,
                   ver |-> wave[w].ver, verdict |-> wave[w].verdict])

\* A finished item is journaled before the next one begins.
Journal(w) ==
  /\ wave[w].pc \in {"concluded", "journal"}
  /\ journal' = WithLine(w)
  /\ IF Len(wave[w].todo) = 1
     THEN /\ runs' = [runs EXCEPT ![wave[w].run].ended = "done"]
          /\ wave' = [wave EXCEPT ![w] = Idle]
     ELSE /\ wave' = [wave EXCEPT ![w].pc = "lookup", ![w].todo = Tail(@), ![w].ver = 0,
                                    ![w].verdict = "none", ![w].status = "none"]
          /\ UNCHANGED runs
  /\ UNCHANGED <<versions, scans, reviews, faults>>

\* An error that is the item's own ends the item, not the wave.
ItemFails(w) ==
  /\ faults < MaxFaults /\ faults' = faults + 1
  /\ wave[w].pc \notin {"idle", "journal"}
  /\ wave' = [wave EXCEPT ![w].pc = "journal", ![w].verdict = "none", ![w].status = "error"]
  /\ UNCHANGED <<versions, scans, reviews, runs, journal>>

\* An error of the infrastructure ends the wave, and so does its death.
Stop(w) ==
  /\ faults < MaxFaults /\ faults' = faults + 1
  /\ wave[w].pc # "idle"
  /\ runs' = [runs EXCEPT ![wave[w].run].ended = "stopped"]
  /\ wave' = [wave EXCEPT ![w] = Idle]
  /\ UNCHANGED <<versions, scans, reviews, journal>>

WaveNext ==
  \E w \in Waves :
    \/ Begin(w) \/ Lookup(w) \/ Capture(w) \/ Security(w) \/ Scan(w) \/ Review(w)
    \/ Journal(w) \/ ItemFails(w) \/ Stop(w)

WaveSpec == WaveInit /\ [][WaveNext]_waveVars

-----------------------------------------------------------------------------
(* Properties.                                                             *)

\* The artifacts and the local state of every wave are well formed.
WaveTypeOK ==
  /\ \A i \in DOMAIN versions : versions[i].item \in Items /\ versions[i].saw \in 0..(i - 1)
  /\ \A s \in scans : s.ver \in DOMAIN versions /\ s.stage \in Stages /\ s.score \in 0..100
  /\ \A i \in DOMAIN reviews : reviews[i].met \in 0..(i - 1)
  /\ \A w \in Waves : wave[w].pc \in
       {"idle", "lookup", "capture", "security", "scan", "review", "concluded", "journal"}
  /\ \A w \in Waves : wave[w].pc # "idle" => wave[w].todo # <<>> /\ wave[w].run \in DOMAIN runs

\* However runs were interrupted, failed or raced, an aggregate
\* (_write_review) rests on one scan of each stage, all of the version it
\* names and all made by the run that made the aggregate; no scan serves two.
EvidenceIsOneRuns ==
  /\ \A i \in DOMAIN reviews :
       /\ reviews[i].refs =
            [ver : {reviews[i].ver}, run : {reviews[i].run}, turn : {reviews[i].turn},
             stage : Stages]
       /\ Cardinality(Records(reviews[i].refs)) = Cardinality(Stages)
  /\ \A i, j \in DOMAIN reviews : i # j => reviews[i].refs \cap reviews[j].refs = {}

\* A line that queues a version (run_wave's journal) is backed by the store:
\* the version is the item's, and some aggregate approves it with every
\* measured stage at 0.8 or better and no must-block finding.
QueuedIsProven ==
  \A l \in Range(journal) : l.status = "awaiting" =>
    /\ versions[l.ver].item = l.item
    /\ \E i \in DOMAIN reviews :
         /\ reviews[i].ver = l.ver /\ reviews[i].verdict = "approve"
         /\ \A s \in Records(reviews[i].refs) : ~s.hard /\ (Sampled(s.status) => s.score >= 80)

\* The security projection gives credit only when the payload was in fact looked
\* at by stages 1 to 4, and by the judge where policy demands one: on the host that
\* was met, the approved engine had run to its end and seen every staged file, and
\* the judge was calibrated, approved, local and pinned, whatever the scan says.
AbsentIsNotPass ==
  \A i \in DOMAIN reviews, required \in BOOLEAN :
    Credited(reviews[i].verdict, reviews[i].judged, required, Records(reviews[i].refs)) =>
      \A s \in Records(reviews[i].refs) : s.stage # 5 \/ required => s.real

\* Nothing in the database keeps a slug and version number unique; only waves
\* that looked before the other had captured can give it twice.
SameNumberIsRaced ==
  \A i, j \in DOMAIN versions :
    i < j /\ versions[i].item.slug = versions[j].item.slug
          /\ versions[i].item.number = versions[j].item.number
    => versions[j].saw < i

\* A version is scanned again only by a run that looked before the first
\* aggregate was written: no rerun rolls a verdict a second time.
SecondVerdictIsRaced ==
  \A i, j \in DOMAIN reviews :
    i < j /\ reviews[i].ver = reviews[j].ver => reviews[j].met < i

\* A payload that was once turned down is never queued by a later run, unless
\* two runs raced to capture or to scan it.
RejectionSticks ==
  \A i, j \in DOMAIN journal :
    /\ i < j /\ journal[i].item = journal[j].item
    /\ journal[i].verdict \in {"reject", "request-changes"} /\ journal[j].status = "awaiting"
    => \/ Cardinality({v \in DOMAIN versions : versions[v].item = journal[i].item}) > 1
       \/ Cardinality({r \in DOMAIN reviews : reviews[r].ver = journal[j].ver}) > 1

Lines(n) == {k \in DOMAIN journal : journal[k].run = n}

\* The journal tells how far each run came: its lines are the items of its
\* selection in order, all of them when it ended normally.
JournalIsExact ==
  \A n \in DOMAIN runs :
    /\ \A k \in Lines(n) : LET place == Cardinality({i \in Lines(n) : i <= k})
                           IN place <= Len(runs[n].sel) /\ journal[k].item = runs[n].sel[place]
    /\ runs[n].ended = "done" => Cardinality(Lines(n)) = Len(runs[n].sel)

\* Evidence is one run's, absent evidence is no credit, and a version or a
\* verdict exists twice only where two waves raced.
EvidenceSound ==
  /\ WaveTypeOK
  /\ EvidenceIsOneRuns
  /\ AbsentIsNotPass
  /\ SameNumberIsRaced
  /\ SecondVerdictIsRaced

\* The journal is exact, and what it queues was proven and never turned down.
QueueSound == JournalIsExact /\ QueuedIsProven /\ RejectionSticks
=============================================================================
