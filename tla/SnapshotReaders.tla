-------------------------- MODULE SnapshotReaders --------------------------
(* Who makes a scoreboard and who acts on one.  The producer, the          *)
(* dashboard's validation, the issuing of review contracts and the export  *)
(* read the working copy, the repository and the database in many steps    *)
(* and hold no lock on them, while editors, committers and the database's  *)
(* own clients go on.  Jobs share only the snapshot file, which a producer *)
(* replaces whole and a reader reads once, so one job at a time runs here. *)
EXTENDS Scoreboard

CONSTANTS
  Starts,     \* working copies and databases to start from
  MaxMoves    \* bound: what happens to them in a behaviour

NoTree == [commit |-> 0, payload |-> <<>>]

VARIABLES
  tree, registry,   \* the working copy: a content per skill, a status per row
  commits,          \* the commits; the last is HEAD
  db,               \* the database: stages, published heads, quarantined skills
  moves,
  job, at,          \* the running job and its next step
  r,                \* what the build or the check has read so far
  document,         \* the snapshot file: the reading it was made from
  held,             \* the job's claim held at some moment of the job
  leases,           \* contracts this job has issued: a skill and its content
  destination, beside,  \* the export, and the trees left next to it
  before, report        \* the export found by this job, and what it reports

copy == <<tree, registry, commits, db, moves>>
files == <<document, destination, beside>>
result == <<held, leases, before, report>>
vars == <<copy, job, at, r, files, result>>

Statuses == {"unlisted", "active", "declined"}

ASSUME StartsAssumption ==
  /\ MaxMoves \in Nat
  /\ \A start \in Starts :
       /\ start.tree \in [Slugs -> 0..MaxContent] /\ start.registry \in [Slugs -> Statuses]
       /\ start.db \in [stage : [Slugs -> [Contents -> Stages]],
                       head : [Slugs -> 0..MaxContent], broken : SUBSET Slugs]
       /\ \A s \in Slugs : start.db.head[s] # Absent =>
            start.db.stage[s][start.db.head[s]] \in {"approved", "reopened"}

Working == [tree |-> tree, registry |-> registry]
Dirty == commits[Len(commits)] # Working

Blank == [rows |-> <<>>, lint |-> <<>>, consistency |-> <<>>, db |-> <<>>, sources |-> <<>>,
          commit |-> 0, dirty |-> FALSE, registry |-> <<>>, full |-> <<>>]
NoDocument == Blank

\* What the linter and the check of the pack say of each skill now.
Lints == [s \in Slugs |-> LintOf(tree[s])]
Consistencies == [s \in Slugs |-> tree[s] = Absent \/ Is(tree[s], "consistent")]

\* The reading of this moment, as if it were taken at once.
Now == [rows |-> registry, lint |-> Lints, consistency |-> Consistencies, db |-> db,
        sources |-> tree, commit |-> Len(commits), dirty |-> Dirty, registry |-> registry,
        full |-> tree]

-----------------------------------------------------------------------------
(* The jobs, step by step *)

\* The validation begins and ends like an export, with a build in between.
Plan ==
  [produce  |-> <<"rows", "lint", "consistency", "bundle", "sources", "commit", "status",
                  "registry", "full", "write">>,
   validate |-> <<"same commit", "clean", "same registry", "same sources", "same tree",
                  "rows", "lint", "consistency", "bundle", "sources", "commit", "status",
                  "registry", "full", "compare", "same commit", "clean", "shown">>,
   issue    |-> <<"same registry", "same tree", "same commit", "lease", "issued">>,
   export   |-> <<"same commit", "clean", "same sources", "scope", "heads", "stage",
                  "build", "set aside", "place", "clean up", "reported">>]

At(step) == job \in DOMAIN Plan /\ Plan[job][at] = step
Stay == UNCHANGED <<job, at, result>>
Advance == at' = at + 1 /\ UNCHANGED <<job, result>>

\* The job ends here: a refusal, an error, or its last step.
Return ==
  /\ job' = "none" /\ at' = 0 /\ r' = Blank
  /\ held' = FALSE /\ leases' = {} /\ before' = NoTree /\ report' = "none"

Outside == UNCHANGED <<copy, files>>

\* What a document is taken to say when it is acted on.
Published(d) == {s \in Rows(d, "active") : Current(d, s)}
Exported(d) ==
  [commit |-> d.commit,
   payload |-> [s \in Slugs |-> IF s \in Published(d) THEN Hash(d, s) ELSE Absent]]

\* What job j claims of the document, judged by a reading at one moment
\* (the hash of the tree, which is part of the body, is compared first).
Claim(j, now) ==
  \/ j = "validate" /\ now.full = document.full /\ Body(now) = Body(document)
  \/ /\ j = "issue" /\ now.full = document.full
     /\ now.registry = document.registry /\ now.commit = document.commit
  \/ j = "export" /\ now.db.head = Exported(document).payload

Init ==
  /\ \E start \in Starts :
       /\ tree = start.tree /\ registry = start.registry /\ db = start.db
       /\ commits = <<[tree |-> start.tree, registry |-> start.registry]>>
  /\ moves = 0
  /\ job = "none" /\ at = 0 /\ r = Blank
  /\ document = NoDocument /\ held = FALSE /\ leases = {}
  /\ destination = NoTree /\ beside = {} /\ before = NoTree /\ report = "none"

Start(j) ==
  /\ job = "none" /\ job' = j /\ at' = 1
  /\ held' = Claim(j, Now)
  /\ UNCHANGED <<copy, r, files, leases, before, report>>

Produce == Start("produce")

\* Loading validates the document; a dirty one is good for leases only.
Validate == document # NoDocument /\ ~document.dirty /\ Start("validate")
Issue == document # NoDocument /\ Start("issue")
Export == document # NoDocument /\ ~document.dirty /\ Start("export")

-----------------------------------------------------------------------------
(* Reading *)

Read(step, field, value) ==
  /\ At(step) /\ r' = [r EXCEPT ![field] = value] /\ Advance /\ Outside

\* One skill after the other.
Pass(step, field, values) ==
  LET read == Append(r[field], values[Len(r[field]) + 1])
  IN  /\ At(step) /\ r' = [r EXCEPT ![field] = read]
      /\ IF Len(read) = N THEN Advance ELSE Stay
      /\ Outside

\* The skills are hashed one after the other and the whole is compared.
Hashed(field) == Append(r[field], tree[Len(r[field]) + 1])

HashPass(step, field, agrees) ==
  /\ At(step) /\ Outside
  /\ \/ Len(Hashed(field)) < N /\ r' = [r EXCEPT ![field] = Hashed(field)] /\ Stay
     \/ Len(Hashed(field)) = N /\ agrees /\ r' = [r EXCEPT ![field] = Hashed(field)] /\ Advance
     \/ Len(Hashed(field)) = N /\ ~agrees /\ Return

Check(step, holds) ==
  /\ At(step) /\ Outside
  /\ \/ holds /\ Advance /\ UNCHANGED r
     \/ ~holds /\ Return

ReadRows == At("rows") /\ r' = [Blank EXCEPT !.rows = registry] /\ Advance /\ Outside
Lint == Pass("lint", "lint", Lints)
CheckPack == Pass("consistency", "consistency", Consistencies)
ReadBundle == Read("bundle", "db", db)
LoadSources == Pass("sources", "sources", tree)
ReadCommit == Read("commit", "commit", Len(commits))
ReadStatus == Read("status", "dirty", Dirty)
HashRegistry == Read("registry", "registry", registry)
HashTree == Pass("full", "full", tree)

\* Finalizing validates the document; the file is replaced whole.
Write ==
  /\ At("write") /\ Return /\ UNCHANGED <<copy, destination, beside>>
  /\ document' = IF Accepts(Body(r)) THEN r ELSE document

SameCommit == Check("same commit", Len(commits) = document.commit)
Clean == Check("clean", ~Dirty)
SameRegistry == Check("same registry", registry = document.registry)
SameSources ==
  HashPass("same sources", "sources",
           \A s \in Slugs : /\ Hashed("sources")[s] = document.sources[s]
                            /\ document.sources[s] # Absent => Is(document.sources[s], "loads"))
\* Mutant: the tree is not hashed again.
SameTreeAssumed == Check("same tree", TRUE)

SameTree == HashPass("same tree", "full", Hashed("full") = document.full)

\* Mutant: the rebuilt document is compared by its source hashes only.
CompareSources ==
  Check("compare", /\ r.registry = document.registry /\ r.full = document.full
                   /\ Body(r).sources = Body(document).sources)

Compare == Check("compare", Body(r) = Body(document))

Show == At("shown") /\ Return /\ Outside

-----------------------------------------------------------------------------
(* Issuing review contracts *)

Eligible(phase, s) ==
  LET cell == Cell(document, s)
  IN  /\ document.rows[s] = "active"
      /\ \/ phase = "review" /\ cell.content = "unreviewed" /\ cell.blockers = {}
         \/ /\ phase = "recheck" /\ cell.content = "reviewed"
            /\ \A b \in cell.blockers : b[1] = "review"

\* Mutant: the scans' verdict is not asked for.
LeasableUnscanned(s) ==
  /\ "strict_lint_pass" \in Cell(document, s).flags
  /\ document.consistency[s] /\ Stage(document, s) # "none"

Leasable(s) ==
  /\ {"strict_lint_pass", "security_pass"} \subseteq Cell(document, s).flags
  /\ document.consistency[s] /\ Stage(document, s) # "none"

\* The database may refuse any of the contracts.
Lease ==
  /\ At("lease") /\ at' = at + 1 /\ UNCHANGED <<r, job, held, before, report>> /\ Outside
  /\ \E phase \in {"review", "recheck"} :
       \E accepted \in SUBSET {s \in Slugs : Eligible(phase, s) /\ Leasable(s)} :
         leases' = {<<s, Hash(document, s)>> : s \in accepted}

Issued == At("issued") /\ Return /\ Outside

-----------------------------------------------------------------------------
(* Exporting *)

Scope ==
  Check("scope", /\ Anomalies(document) = {}
                 /\ \A s \in Published(document) :
                      State(document, s) = "published" /\ Blockers(document, s) = {})

\* Mutant: the payloads' heads are those the snapshot named, whatever they are.
SameHeadsAssumed == Check("heads", TRUE)

\* The heads of the one bundle the payloads come from.
SameHeads == Check("heads", db.head = Exported(document).payload)

Staged == [kind |-> "staging", tree |-> Exported(document)]
Partial == [kind |-> "partial", tree |-> NoTree]
Backup == [kind |-> "backup", tree |-> before]

Swap(dest, side) == destination' = dest /\ beside' = side /\ UNCHANGED <<copy, document, r>>
Proceed == at' = at + 1 /\ UNCHANGED <<job, held, leases, before, report>>
Report(said) ==
  /\ report' = said /\ at' = Len(Plan.export)
  /\ UNCHANGED <<job, held, leases, before>>

\* An error drops the staging tree; what was there before is where it was.
Fails ==
  /\ Swap(destination, beside \ {Staged, Partial})
  /\ Report(IF before # NoTree THEN "preserved" ELSE "nothing published")

MakeStaging ==
  /\ At("stage") /\ before' = destination
  /\ Swap(destination, beside \cup {Partial})
  /\ at' = at + 1 /\ UNCHANGED <<job, held, leases, report>>

\* The files are written, hashed into a manifest and verified against it.
BuildTree ==
  /\ At("build")
  /\ \/ Swap(destination, (beside \ {Partial}) \cup {Staged}) /\ Proceed
     \/ Fails

\* Mutant: the old output is removed, not renamed.
SetAsideRemoving ==
  /\ At("set aside")
  /\ \/ Swap(NoTree, beside) /\ Proceed
     \/ Fails

SetAside ==
  /\ At("set aside")
  /\ \/ destination = NoTree /\ Swap(destination, beside) /\ Proceed
     \/ destination # NoTree /\ Swap(NoTree, beside \cup {Backup}) /\ Proceed
     \/ Fails

\* Mutant: what was set aside is not put back.
PlaceOrLose ==
  /\ At("place")
  /\ \/ Swap(Exported(document), beside \ {Staged}) /\ Proceed
     \/ before = NoTree /\ Fails
     \/ Swap(NoTree, beside \ {Staged}) /\ Report("preserved")

Place ==
  /\ At("place")
  /\ \/ Swap(Exported(document), beside \ {Staged}) /\ Proceed
     \/ before = NoTree /\ Fails
     \/ /\ before # NoTree /\ Swap(before, beside \ {Staged, Backup})
        /\ Report("preserved")
     \/ /\ before # NoTree /\ Swap(NoTree, beside \ {Staged})
        /\ Report("not restored")

CleanUp ==
  /\ At("clean up")
  /\ \/ Swap(destination, beside \ {Backup}) /\ Report("done")
     \/ before # NoTree /\ Swap(destination, beside) /\ Report("committed")

Reported == At("reported") /\ Return /\ Outside

\* A refusal on other grounds, an error, or the death of the process.
Abort == job # "none" /\ ~At("reported") /\ ~At("issued") /\ ~At("shown") /\ Return /\ Outside

-----------------------------------------------------------------------------
(* Everyone else *)

Move ==
  /\ moves < MaxMoves /\ moves' = moves + 1
  /\ UNCHANGED <<job, at, r, files, leases, before, report>>
  /\ \E now \in {Now'} : held' = (held \/ Claim(job, now))

\* No edit and no checkout restores an earlier content.
Edit(s) ==
  /\ tree[s] < MaxContent /\ tree' = [tree EXCEPT ![s] = @ + 1]
  /\ UNCHANGED <<registry, commits, db>> /\ Move

Register(s) ==
  /\ \/ registry[s] = "unlisted" /\ registry' = [registry EXCEPT ![s] = "active"]
     \/ registry[s] = "active" /\ registry' = [registry EXCEPT ![s] = "declined"]
  /\ UNCHANGED <<tree, commits, db>> /\ Move

Commit ==
  /\ Dirty /\ commits' = Append(commits, Working)
  /\ UNCHANGED <<tree, registry, db>> /\ Move

\* One version's progress through capture, scans, reviews and decisions; scans
\* that raced may leave a second verdict, and the latest counts.
Onward ==
  [none |-> {"captured"}, captured |-> {"passed", "blocked"}, blocked |-> {"passed"},
   passed |-> {"blocked", "reviewed", "ready"}, reviewed |-> {"ready"},
   ready |-> {"rejected", "approved"}, rejected |-> {}, approved |-> {"reopened"},
   reopened |-> {"approved"}]

\* Mutant: a decision moves the head, whichever it is.
DecideAny(s, k, from, to) ==
  /\ from = "none" => k = tree[s] /\ Is(k, "loads")
  /\ from = "ready" => k > db.head[s] /\ s \notin db.broken
  /\ db' = [db EXCEPT !.stage[s][k] = to, !.head[s] = IF from = "ready" THEN k ELSE @]
  /\ UNCHANGED <<tree, registry, commits>> /\ Move

Decide(s, k, from, to) ==
  /\ from = "none" => k = tree[s] /\ Is(k, "loads")
  /\ from = "ready" /\ to = "approved" => k > db.head[s] /\ s \notin db.broken
  /\ db' = [db EXCEPT !.stage[s][k] = to,
                      !.head[s] = IF <<from, to>> = <<"ready", "approved">> THEN k ELSE @]
  /\ UNCHANGED <<tree, registry, commits>> /\ Move

Unpublish(s) ==
  /\ db.head[s] # Absent /\ s \notin db.broken /\ db' = [db EXCEPT !.head[s] = Absent]
  /\ UNCHANGED <<tree, registry, commits>> /\ Move

\* A projection issue quarantines a published skill.
Quarantine(s) ==
  /\ db.head[s] # Absent /\ s \notin db.broken /\ db' = [db EXCEPT !.broken = @ \cup {s}]
  /\ UNCHANGED <<tree, registry, commits>> /\ Move

\* Bound: the skills that something may still happen to.
Movable == {s \in Slugs : moves < MaxMoves}

Others ==
  \/ \E s \in Movable : Edit(s) \/ Register(s) \/ Unpublish(s) \/ Quarantine(s)
  \/ \E s \in Movable, k \in Contents :
       \E to \in Onward[db.stage[s][k]] : Decide(s, k, db.stage[s][k], to)
  \/ Commit

Building ==
  \/ ReadRows \/ Lint \/ CheckPack \/ ReadBundle \/ LoadSources \/ ReadCommit \/ ReadStatus
  \/ HashRegistry \/ HashTree \/ Write
Checking ==
  \/ SameCommit \/ Clean \/ SameRegistry \/ SameSources \/ SameTree \/ Compare \/ Show
  \/ Lease \/ Issued \/ Scope \/ SameHeads
Exporting == MakeStaging \/ BuildTree \/ SetAside \/ Place \/ CleanUp \/ Reported

Next ==
  \/ Produce \/ Validate \/ Issue \/ Export
  \/ Building \/ Checking \/ Exporting \/ Abort
  \/ Others

Spec == Init /\ [][Next]_vars

-----------------------------------------------------------------------------
(* Properties *)

\* The world, the jobs and the files keep their shape.
TypeOK ==
  /\ tree \in [Slugs -> 0..MaxContent] /\ registry \in [Slugs -> Statuses]
  /\ \A i \in DOMAIN commits : commits[i].tree \in [Slugs -> 0..MaxContent]
  /\ db.stage \in [Slugs -> [Contents -> Stages]]
  /\ db.head \in [Slugs -> 0..MaxContent] /\ db.broken \subseteq Slugs
  /\ \A s \in Slugs : db.head[s] # Absent => db.stage[s][db.head[s]] \in {"approved", "reopened"}
  /\ job \in DOMAIN Plan \cup {"none"} /\ (job = "none" \/ at \in DOMAIN Plan[job])
  /\ held \in BOOLEAN /\ moves \in 0..MaxMoves
  /\ leases \subseteq Slugs \X Contents
  /\ job = "none" => r = Blank

\* A scoreboard the dashboard shows as verified is, with every cell, count and
\* check in it, what one reading at a single moment of the validation would
\* have said, though it was built and checked in many.
VerifiedIsAtomic == At("shown") => held

\* When contracts are issued, the working copy, its registry and HEAD were at one
\* moment of the issuing what the snapshot's three hashes say, and every contract
\* names a version that was scanned, never merely what is on disk, though the
\* document read the database and the sources at different moments.
Scanned == Stages \ {"none", "captured"}
IssuedIsHeld ==
  At("issued") =>
    /\ held
    /\ \A lease \in leases : db.stage[lease[1]][lease[2]] \in Scanned

\* An export holds the published heads of one moment of the export, and the
\* commit it names holds the very sources of every skill in it.
ExportIsBound ==
  /\ At("clean up") => held
  /\ destination # NoTree =>
       \A s \in Slugs : destination.payload[s] # Absent =>
         destination.payload[s] = commits[destination.commit].tree[s]

\* The release gate passes exactly when every expected skill is authored,
\* clean, in its place and published as it is, and nothing else is there.
Launchable ==
  LET active == {s \in Slugs : registry[s] = "active"}
      In(role) == {s \in active : RoleOf[s] = role}
  IN  /\ Cardinality(active) = Expected.active
      /\ Cardinality({s \in Slugs : registry[s] = "declined"}) = Expected.declined
      /\ Cardinality(Roles(active)) = Expected.roles
      /\ \A s \in active :
           /\ tree[s] # Absent /\ Quality[tree[s]] = Qualities
           /\ db.head[s] = tree[s] /\ db.stage[s][tree[s]] = "approved"
      /\ \A s \in Slugs \ active : tree[s] = Absent /\ db.head[s] = Absent
      /\ db.broken = {}
      /\ \A role \in Roles(active) : Cardinality(In(role)) >= Expected.target
GateIsTruthful == job = "none" => (Passed(Body(Now).release) <=> Launchable)

\* However torn its readings are, a finished build passes the validation that
\* every reader repeats, and conserves its cells.
Conserved == At("write") => Accepts(Body(r)) /\ Body(r).conserved

\* Once an export is complete, it or a later one is at the destination, or set
\* aside next to it, whatever fails and wherever the exporter dies.
Complete == destination # NoTree \/ \E x \in beside : x.kind = "backup"
OutputSurvives == [][Complete => Complete']_vars

\* What the producer writes can be trusted: it decides release as the rows and
\* the files do, and its cells add up however its readings are torn.
ScoreboardSound == TypeOK /\ GateIsTruthful /\ Conserved

\* What an exporter reports of the output is how the output is.
ReportsAreTrue ==
  At("reported") =>
    /\ report \in {"done", "committed"} => destination = Exported(document)
    /\ report = "preserved" => destination = before
    /\ report = "nothing published" => destination = NoTree
    /\ report = "not restored" => Backup \in beside

\* An export holds what was published and is reported as what it is.
ExportSound == ExportIsBound /\ ReportsAreTrue
=============================================================================
