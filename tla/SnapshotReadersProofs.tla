------------------------ MODULE SnapshotReadersProofs ------------------------
(***************************************************************************)
(* Proofs about the readers of a scoreboard: what they act on held at one  *)
(* moment and what they write is bound to a commit, though they read the   *)
(* working copy, the repository and the database in many steps while       *)
(* others change them.  The argument rests on what others can do: a        *)
(* skill's content only rises, a row is only listed and then declined, a   *)
(* commit stays.  A hash that agrees at the end has agreed all along.      *)
(* Then what the scoreboard itself says: its counts are those of its       *)
(* cells, so they add up whatever was read when, and its release gate      *)
(* compares sums that agree only when every cell does.                     *)
(***************************************************************************)
EXTENDS SnapshotReaders, FiniteSetTheorems, TLAPS

-----------------------------------------------------------------------------
(* The inductive invariant.                                                *)

\* The order in which a skill is registered and declined.
Upto(a, b) == a = b \/ a = "unlisted" \/ b = "declined"

Grown(old, new) ==
  \A s \in Slugs : old.tree[s] <= new.tree[s] /\ Upto(old.registry[s], new.registry[s])

Copies == [tree : [Slugs -> 0..MaxContent], registry : [Slugs -> Statuses]]

\* The working copy is later than every commit.
CopyInv ==
  /\ tree \in [Slugs -> 0..MaxContent] /\ registry \in [Slugs -> Statuses]
  /\ commits \in Seq(Copies) /\ commits # <<>>
  /\ \A i \in 1..Len(commits) : Grown(commits[i], Working)

JobTypes ==
  /\ job \in DOMAIN Plan \cup {"none"} /\ (job = "none" \/ at \in DOMAIN Plan[job])
  /\ held \in BOOLEAN
  /\ job = "none" => r = Blank
  /\ job \in {"validate", "issue", "export"} => document # NoDocument
  /\ job = "export" => ~document.dirty

\* The step of the build that a producer or a validation is at.
Step == IF job = "produce" THEN at ELSE IF job = "validate" THEN at - 5 ELSE 0
Due(n) == 1 < Step /\ Step <= n
Done(n) == n < Step

\* One skill after the other is read in the n-th step of the build.
Reading(seq, values, n) ==
  /\ seq \in Seq(values) /\ Len(seq) <= N
  /\ Due(n) => Len(seq) < N
  /\ Done(n) => Len(seq) = N

IsReading(x) ==
  x = [rows |-> x.rows, lint |-> x.lint, consistency |-> x.consistency, db |-> x.db,
       sources |-> x.sources, commit |-> x.commit, dirty |-> x.dirty,
       registry |-> x.registry, full |-> x.full]

\* No hash is of a later content than the one that is there now.
Within(seq) == \A s \in 1..Len(seq) : seq[s] <= tree[s]

Listed(x) ==
  /\ x.registry \in [Slugs -> Statuses]
  /\ \A s \in Slugs : Upto(x.registry[s], registry[s])

\* A clean reading is of the commit it names, or that commit is not HEAD.
Committed(x) ==
  ~x.dirty => Len(commits) # x.commit \/ \A s \in Slugs : x.sources[s] <= commits[x.commit].tree[s]

LintResults == {"missing", "passed", "failed"}
PackResults == BOOLEAN
Hashes == 0..MaxContent

ReadInv ==
  /\ IsReading(r)
  /\ Reading(r.lint, LintResults, 2)
  /\ Reading(r.consistency, PackResults, 3)
  /\ Reading(r.sources, Hashes, 5) /\ Within(r.sources)
  /\ Reading(r.full, Hashes, 9) /\ Within(r.full)
  /\ Due(8) => r.full = <<>>
  /\ Done(6) => r.commit \in 1..Len(commits)
  /\ Done(7) => r.dirty \in BOOLEAN /\ Committed(r)
  /\ Done(8) => Listed(r)

DocInv ==
  document # NoDocument =>
    /\ document.sources \in Seq(Hashes) /\ Len(document.sources) = N /\ Within(document.sources)
    /\ document.full \in Seq(Hashes) /\ Len(document.full) = N /\ Within(document.full)
    /\ document.commit \in 1..Len(commits) /\ document.dirty \in BOOLEAN
    /\ Committed(document) /\ Listed(document)

ClaimInv == Claim(job, Now) => held

\* A skill is not, or is no longer, what the document hashed.
Strayed ==
  \E s \in Slugs : IF s <= Len(r.full) THEN r.full[s] # document.full[s]
                                       ELSE tree[s] # document.full[s]

\* The validation will fail.
Gone ==
  \/ Len(commits) # document.commit
  \/ IF Step <= 8 THEN registry # document.registry ELSE r.registry # document.registry
  \/ Strayed

\* The reading of the moment at which the database was read, had all else
\* been as the document says.
Moment(d) ==
  [rows |-> document.registry, lint |-> [s \in Slugs |-> LintOf(document.full[s])],
   consistency |-> [s \in Slugs |-> document.full[s] = Absent
                                    \/ Is(document.full[s], "consistent")],
   db |-> d, sources |-> document.full, commit |-> document.commit,
   dirty |-> commits[document.commit] # [tree |-> document.full,
                                         registry |-> document.registry],
   registry |-> document.registry, full |-> document.full]

Faithful ==
  /\ r.rows = document.registry
  /\ \A s \in 1..Len(r.lint) : r.lint[s] = LintOf(document.full[s])
  /\ \A s \in 1..Len(r.consistency) :
       r.consistency[s] = (document.full[s] = Absent \/ Is(document.full[s], "consistent"))
  /\ Done(4) => (Body(Moment(r.db)) = Body(document) => held)
  /\ \A s \in 1..Len(r.sources) : r.sources[s] = document.full[s]
  /\ Done(6) => r.commit = document.commit
  /\ Done(7) => r.dirty = Moment(r.db).dirty

ValidInv ==
  job = "validate" =>
    /\ Due(10) => Gone \/ Faithful
    /\ at = 16 => Len(commits) # document.commit \/ held
    /\ at > 16 => held

\* The repository is no longer at the document's commit.
HeadMoved == Len(commits) # document.commit

\* Each hash that agrees leaves one way less in which the snapshot is stale.
IssueInv ==
  job = "issue" =>
    /\ at = 1 => Strayed \/ HeadMoved \/ registry # document.registry \/ held
    /\ at = 2 => Strayed \/ HeadMoved \/ held
    /\ at = 3 => HeadMoved \/ held
    /\ at > 3 => held

\* What an export holds is what the commit it names holds.
Bound(x) ==
  x # NoTree =>
    /\ x.commit \in 1..Len(commits)
    /\ \A s \in Slugs : x.payload[s] # Absent => x.payload[s] = commits[x.commit].tree[s]

ExportInv ==
  job = "export" =>
    /\ at >= 2 => \A s \in Slugs : document.sources[s] <= commits[document.commit].tree[s]
    /\ \A s \in 1..Len(r.sources) : commits[document.commit].tree[s] <= r.sources[s]
    /\ at >= 4 => \A s \in Slugs : document.sources[s] = commits[document.commit].tree[s]
    /\ at >= 6 => held
    /\ at >= 7 => Bound(before)
    /\ at \in 7..8 => destination = before
    /\ at = 9 => destination = NoTree /\ (before # NoTree => Backup \in beside)
    /\ at = 10 => destination = Exported(document)
    /\ at = 11 => ReportsAreTrue

SnapshotInv ==
  /\ CopyInv /\ JobTypes /\ ReadInv /\ DocInv /\ ClaimInv
  /\ ValidInv /\ IssueInv /\ ExportInv /\ Bound(destination)

-----------------------------------------------------------------------------
(* The plans of the jobs, and where each step is in them.                  *)

LEMMA Jobs ==
  /\ DOMAIN Plan = {"produce", "validate", "issue", "export"}
  /\ DOMAIN Plan["produce"] = 1..10 /\ DOMAIN Plan["validate"] = 1..18
  /\ DOMAIN Plan["issue"] = 1..5 /\ DOMAIN Plan["export"] = 1..11
  /\ Len(Plan.export) = 11
BY DEF Plan

LEMMA ProducePlan ==
  /\ Plan["produce"][1] = "rows" /\ Plan["produce"][2] = "lint"
  /\ Plan["produce"][3] = "consistency" /\ Plan["produce"][4] = "bundle"
  /\ Plan["produce"][5] = "sources" /\ Plan["produce"][6] = "commit"
  /\ Plan["produce"][7] = "status" /\ Plan["produce"][8] = "registry" /\ Plan["produce"][9] = "full"
  /\ Plan["produce"][10] = "write"
BY DEF Plan

LEMMA ProduceSteps ==
  ASSUME job = "produce", at \in DOMAIN Plan["produce"]
  PROVE  /\ (At("rows") => at = 1)
         /\ (At("lint") => at = 2)
         /\ (At("consistency") => at = 3)
         /\ (At("bundle") => at = 4)
         /\ (At("sources") => at = 5)
         /\ (At("commit") => at = 6)
         /\ (At("status") => at = 7)
         /\ (At("registry") => at = 8)
         /\ (At("full") => at = 9)
         /\ (At("write") => at = 10)
         /\ ~At("same commit") /\ ~At("clean") /\ ~At("same registry") /\ ~At("same sources")
         /\ ~At("same tree") /\ ~At("compare") /\ ~At("shown") /\ ~At("lease") /\ ~At("issued")
         /\ ~At("scope") /\ ~At("heads") /\ ~At("stage") /\ ~At("build") /\ ~At("set aside")
         /\ ~At("place") /\ ~At("clean up") /\ ~At("reported")
<1>1. at \in {1, 2, 3, 4, 5, 6, 7, 8, 9, 10}
  BY Jobs
<1>2. Plan[job] = Plan["produce"]
  OBVIOUS
<1> QED
  BY <1>1, <1>2, ProducePlan DEF At

LEMMA ValidatePlan ==
  /\ Plan["validate"][1] = "same commit" /\ Plan["validate"][2] = "clean"
  /\ Plan["validate"][3] = "same registry" /\ Plan["validate"][4] = "same sources"
  /\ Plan["validate"][5] = "same tree" /\ Plan["validate"][6] = "rows"
  /\ Plan["validate"][7] = "lint" /\ Plan["validate"][8] = "consistency"
  /\ Plan["validate"][9] = "bundle" /\ Plan["validate"][10] = "sources"
  /\ Plan["validate"][11] = "commit" /\ Plan["validate"][12] = "status"
  /\ Plan["validate"][13] = "registry" /\ Plan["validate"][14] = "full"
  /\ Plan["validate"][15] = "compare" /\ Plan["validate"][16] = "same commit"
  /\ Plan["validate"][17] = "clean" /\ Plan["validate"][18] = "shown"
BY DEF Plan

LEMMA ValidateSteps ==
  ASSUME job = "validate", at \in DOMAIN Plan["validate"]
  PROVE  /\ (At("rows") => at = 6)
         /\ (At("lint") => at = 7)
         /\ (At("consistency") => at = 8)
         /\ (At("bundle") => at = 9)
         /\ (At("sources") => at = 10)
         /\ (At("commit") => at = 11)
         /\ (At("status") => at = 12)
         /\ (At("registry") => at = 13)
         /\ (At("full") => at = 14)
         /\ (At("same commit") => at \in {1, 16})
         /\ (At("clean") => at \in {2, 17})
         /\ (At("same registry") => at = 3)
         /\ (At("same sources") => at = 4)
         /\ (At("same tree") => at = 5)
         /\ (At("compare") => at = 15)
         /\ (At("shown") => at = 18)
         /\ ~At("write") /\ ~At("lease") /\ ~At("issued") /\ ~At("scope") /\ ~At("heads")
         /\ ~At("stage") /\ ~At("build") /\ ~At("set aside") /\ ~At("place") /\ ~At("clean up")
         /\ ~At("reported")
<1>1. at \in {1, 2, 3, 4, 5, 6, 7, 8, 9, 10, 11, 12, 13, 14, 15, 16, 17, 18}
  BY Jobs
<1>2. Plan[job] = Plan["validate"]
  OBVIOUS
<1> QED
  BY <1>1, <1>2, ValidatePlan DEF At

LEMMA IssuePlan ==
  /\ Plan["issue"][1] = "same registry" /\ Plan["issue"][2] = "same tree"
  /\ Plan["issue"][3] = "same commit" /\ Plan["issue"][4] = "lease" /\ Plan["issue"][5] = "issued"
BY DEF Plan

LEMMA IssueSteps ==
  ASSUME job = "issue", at \in DOMAIN Plan["issue"]
  PROVE  /\ (At("same commit") => at = 3)
         /\ (At("same registry") => at = 1)
         /\ (At("same tree") => at = 2)
         /\ (At("lease") => at = 4)
         /\ (At("issued") => at = 5)
         /\ ~At("rows") /\ ~At("lint") /\ ~At("consistency") /\ ~At("bundle") /\ ~At("sources")
         /\ ~At("commit") /\ ~At("status") /\ ~At("registry") /\ ~At("full") /\ ~At("write")
         /\ ~At("clean") /\ ~At("same sources") /\ ~At("compare") /\ ~At("shown") /\ ~At("scope")
         /\ ~At("heads") /\ ~At("stage") /\ ~At("build") /\ ~At("set aside") /\ ~At("place")
         /\ ~At("clean up") /\ ~At("reported")
<1>1. at \in {1, 2, 3, 4, 5}
  BY Jobs
<1>2. Plan[job] = Plan["issue"]
  OBVIOUS
<1> QED
  BY <1>1, <1>2, IssuePlan DEF At

LEMMA ExportPlan ==
  /\ Plan["export"][1] = "same commit" /\ Plan["export"][2] = "clean"
  /\ Plan["export"][3] = "same sources" /\ Plan["export"][4] = "scope"
  /\ Plan["export"][5] = "heads" /\ Plan["export"][6] = "stage" /\ Plan["export"][7] = "build"
  /\ Plan["export"][8] = "set aside" /\ Plan["export"][9] = "place"
  /\ Plan["export"][10] = "clean up" /\ Plan["export"][11] = "reported"
BY DEF Plan

LEMMA ExportSteps ==
  ASSUME job = "export", at \in DOMAIN Plan["export"]
  PROVE  /\ (At("same commit") => at = 1)
         /\ (At("clean") => at = 2)
         /\ (At("same sources") => at = 3)
         /\ (At("scope") => at = 4)
         /\ (At("heads") => at = 5)
         /\ (At("stage") => at = 6)
         /\ (At("build") => at = 7)
         /\ (At("set aside") => at = 8)
         /\ (At("place") => at = 9)
         /\ (At("clean up") => at = 10)
         /\ (At("reported") => at = 11)
         /\ ~At("rows") /\ ~At("lint") /\ ~At("consistency") /\ ~At("bundle") /\ ~At("sources")
         /\ ~At("commit") /\ ~At("status") /\ ~At("registry") /\ ~At("full") /\ ~At("write")
         /\ ~At("same registry") /\ ~At("same tree") /\ ~At("compare") /\ ~At("shown")
         /\ ~At("lease") /\ ~At("issued")
<1>1. at \in {1, 2, 3, 4, 5, 6, 7, 8, 9, 10, 11}
  BY Jobs
<1>2. Plan[job] = Plan["export"]
  OBVIOUS
<1> QED
  BY <1>1, <1>2, ExportPlan DEF At

\* A build is at its n-th step, as a job of its own or within a validation.
Build(n) ==
  /\ Step = n
  /\ \/ job = "produce" /\ at = n
     \/ job = "validate" /\ at = n + 5

LEMMA BuildSteps ==
  ASSUME JobTypes
  PROVE  /\ (At("rows") => Build(1)) /\ (At("lint") => Build(2))
         /\ (At("consistency") => Build(3)) /\ (At("bundle") => Build(4))
         /\ (At("sources") => Build(5)) /\ (At("commit") => Build(6))
         /\ (At("status") => Build(7)) /\ (At("registry") => Build(8))
         /\ (At("full") => Build(9)) /\ (At("write") => job = "produce" /\ Build(10))
<1>1. CASE job = "produce"
  <2>1. at \in DOMAIN Plan["produce"]
    BY <1>1 DEF JobTypes
  <2> QED
    BY <1>1, <2>1, ProduceSteps DEF Build, Step
<1>2. CASE job = "validate"
  <2>1. at \in DOMAIN Plan["validate"]
    BY <1>2 DEF JobTypes
  <2>2. at \in 1..18
    BY <2>1, Jobs
  <2>3. Step = at - 5
    BY <1>2 DEF Step
  <2>4. \A n \in 1..10 : at = n + 5 => Build(n)
    BY <1>2, <2>2, <2>3 DEF Build
  <2>5. /\ (at = 6 => Build(1)) /\ (at = 7 => Build(2)) /\ (at = 8 => Build(3))
        /\ (at = 9 => Build(4)) /\ (at = 10 => Build(5)) /\ (at = 11 => Build(6))
        /\ (at = 12 => Build(7)) /\ (at = 13 => Build(8)) /\ (at = 14 => Build(9))
    BY <2>4
  <2> QED
    <3>1. /\ (At("rows") => at = 6) /\ (At("lint") => at = 7) /\ (At("consistency") => at = 8)
          /\ (At("bundle") => at = 9) /\ (At("sources") => at = 10) /\ (At("commit") => at = 11)
          /\ (At("status") => at = 12) /\ (At("registry") => at = 13) /\ (At("full") => at = 14)
          /\ ~At("write")
      BY <1>2, <2>1, ValidateSteps, ZenonT(30)
    <3> QED
      BY <2>5, <3>1
<1>3. CASE job = "issue"
  <2>1. at \in DOMAIN Plan["issue"]
    BY <1>3 DEF JobTypes
  <2> QED
    BY <1>3, <2>1, IssueSteps
<1>4. CASE job = "export"
  <2>1. at \in DOMAIN Plan["export"]
    BY <1>4 DEF JobTypes
  <2> QED
    BY <1>4, <2>1, ExportSteps
<1>5. CASE job = "none"
  BY <1>5, Jobs DEF At
<1> QED
  BY <1>1, <1>2, <1>3, <1>4, <1>5, Jobs DEF JobTypes

\* Job j is at its n-th step.
Doing(j, n) == job = j /\ at = n

LEMMA CheckSteps ==
  ASSUME JobTypes
  PROVE  /\ (At("same commit") => \/ Doing("validate", 1) \/ Doing("validate", 16)
                                   \/ Doing("issue", 3) \/ Doing("export", 1))
         /\ (At("clean") => \/ Doing("validate", 2) \/ Doing("validate", 17)
                             \/ Doing("export", 2))
         /\ (At("same registry") => Doing("validate", 3) \/ Doing("issue", 1))
         /\ (At("same sources") => Doing("validate", 4) \/ Doing("export", 3))
         /\ (At("same tree") => Doing("validate", 5) \/ Doing("issue", 2))
         /\ (At("compare") => Doing("validate", 15)) /\ (At("shown") => Doing("validate", 18))
         /\ (At("lease") => Doing("issue", 4)) /\ (At("issued") => Doing("issue", 5))
         /\ (At("scope") => Doing("export", 4)) /\ (At("heads") => Doing("export", 5))
         /\ (At("stage") => Doing("export", 6)) /\ (At("build") => Doing("export", 7))
         /\ (At("set aside") => Doing("export", 8)) /\ (At("place") => Doing("export", 9))
         /\ (At("clean up") => Doing("export", 10)) /\ (At("reported") => Doing("export", 11))
<1>1. CASE job = "produce"
  <2>1. at \in DOMAIN Plan["produce"]
    BY <1>1 DEF JobTypes
  <2> QED
    BY <1>1, <2>1, ProduceSteps
<1>2. CASE job = "validate"
  <2>1. at \in DOMAIN Plan["validate"]
    BY <1>2 DEF JobTypes
  <2> QED
    BY <1>2, <2>1, ValidateSteps DEF Doing
<1>3. CASE job = "issue"
  <2>1. at \in DOMAIN Plan["issue"]
    BY <1>3 DEF JobTypes
  <2> QED
    BY <1>3, <2>1, IssueSteps DEF Doing
<1>4. CASE job = "export"
  <2>1. at \in DOMAIN Plan["export"]
    BY <1>4 DEF JobTypes
  <2> QED
    <3>1. /\ (At("same commit") => at = 1) /\ (At("clean") => at = 2)
          /\ (At("same sources") => at = 3) /\ (At("scope") => at = 4) /\ (At("heads") => at = 5)
          /\ (At("stage") => at = 6) /\ (At("build") => at = 7) /\ (At("set aside") => at = 8)
          /\ (At("place") => at = 9) /\ (At("clean up") => at = 10) /\ (At("reported") => at = 11)
      BY <1>4, <2>1, ExportSteps, ZenonT(30)
    <3>2. /\ ~At("same registry") /\ ~At("same tree") /\ ~At("compare") /\ ~At("shown")
          /\ ~At("lease") /\ ~At("issued")
      BY <1>4, <2>1, ExportSteps, ZenonT(30)
    <3>3. \A n : at = n => Doing("export", n)
      BY <1>4 DEF Doing
    <3> QED
      BY <3>1, <3>2, <3>3, ZenonT(30)
<1>5. CASE job = "none"
  BY <1>5, Jobs DEF At
<1> QED
  BY <1>1, <1>2, <1>3, <1>4, <1>5, Jobs DEF JobTypes

-----------------------------------------------------------------------------
(* Facts about the operators.                                              *)

LEMMA AtType ==
  ASSUME JobTypes, job # "none"
  PROVE  /\ at \in 1..18 /\ Step \in Int
         /\ job = "export" => at \in 1..11
         /\ job = "issue" => at \in 1..5
         /\ job = "produce" => at \in 1..10
BY Jobs DEF JobTypes, Step

LEMMA Constants ==
  /\ N \in Nat /\ 0 < N /\ MaxContent \in Nat /\ Slugs = 1..N
  /\ 0 \in Hashes /\ Hashes = 0..MaxContent
BY ScoreboardAssumption DEF Slugs, Hashes

LEMMA BlankFields ==
  /\ Blank.rows = <<>> /\ Blank.lint = <<>> /\ Blank.consistency = <<>> /\ Blank.db = <<>>
  /\ Blank.sources = <<>> /\ Blank.commit = 0 /\ Blank.dirty = FALSE /\ Blank.registry = <<>>
  /\ Blank.full = <<>> /\ IsReading(Blank)
BY DEF Blank, IsReading

LEMMA UptoChains ==
  ASSUME NEW a, NEW b, NEW c, Upto(a, b), Upto(b, c)
  PROVE  /\ Upto(a, c)
         /\ a = c => a = b
BY DEF Upto

\* What is read of one skill after the other grows by one at a time.
LEMMA AppendFacts ==
  ASSUME NEW S, NEW seq \in Seq(S), NEW x \in S
  PROVE  /\ Append(seq, x) \in Seq(S) /\ Len(Append(seq, x)) = Len(seq) + 1
         /\ Len(seq) \in Nat
         /\ \A i \in 1..Len(seq) : Append(seq, x)[i] = seq[i]
         /\ Append(seq, x)[Len(seq) + 1] = x
OBVIOUS

-----------------------------------------------------------------------------
(* Steps that end a job.                                                   *)

LEMMA ReturnKeeps ==
  ASSUME SnapshotInv, Return, UNCHANGED copy, DocInv', Bound(destination)'
  PROVE  SnapshotInv'
<1>1. CopyInv'
  BY DEF SnapshotInv, CopyInv, copy, Working
<1>2. job' = "none" /\ at' = 0 /\ r' = Blank /\ held' = FALSE
  BY DEF Return
<1>3. JobTypes'
  BY <1>2, Jobs DEF JobTypes
<1>4. Step' = 0
  BY <1>2 DEF Step
<1>5. ReadInv'
  <2>1. /\ ~(Due(2)') /\ ~(Due(3)') /\ ~(Due(5)') /\ ~(Due(8)') /\ ~(Due(9)')
        /\ ~(Done(2)') /\ ~(Done(3)') /\ ~(Done(5)') /\ ~(Done(9)')
        /\ ~(Done(6)') /\ ~(Done(7)') /\ ~(Done(8)')
    BY <1>4 DEF Due, Done
  <2>2. r.rows' = <<>> /\ r.lint' = <<>> /\ r.consistency' = <<>> /\ r.sources' = <<>> /\ r.full' = <<>>
    BY <1>2, BlankFields
  <2>3. /\ Reading(r.lint, LintResults, 2)' /\ Reading(r.consistency, PackResults, 3)'
        /\ Reading(r.sources, Hashes, 5)' /\ Reading(r.full, Hashes, 9)'
    <3>1. \A values : <<>> \in Seq(values) /\ Len(<<>>) = 0
      OBVIOUS
    <3> QED
      BY <2>1, <2>2, <3>1, Constants DEF Reading
  <2>4. Within(r.sources)' /\ Within(r.full)'
    BY <2>2 DEF Within
  <2>5. IsReading(r)'
    BY <1>2, BlankFields DEF IsReading
  <2> QED
    BY <2>1, <2>3, <2>4, <2>5 DEF ReadInv
<1>6. ClaimInv'
  BY <1>2 DEF ClaimInv, Claim
<1>7. ValidInv' /\ IssueInv' /\ ExportInv'
  BY <1>2 DEF ValidInv, IssueInv, ExportInv
<1> QED
  BY <1>1, <1>3, <1>5, <1>6, <1>7 DEF SnapshotInv

\* A job that ends touches no file, or has just replaced the document.
LEMMA Leaving ==
  ASSUME SnapshotInv, Return, Outside
  PROVE  SnapshotInv'
<1>1. UNCHANGED copy /\ UNCHANGED files
  BY DEF Outside
<1>2. DocInv'
  BY <1>1 DEF SnapshotInv, DocInv, Within, Committed, Listed, copy, files
<1>3. Bound(destination)'
  BY <1>1 DEF SnapshotInv, Bound, copy, files
<1> QED
  BY <1>1, <1>2, <1>3, ReturnKeeps

-----------------------------------------------------------------------------
(* Steps within a job.                                                     *)

LEMMA StepKeeps ==
  ASSUME SnapshotInv, job # "none", Outside, UNCHANGED <<job, held>>,
         at' \in DOMAIN Plan[job], ReadInv', ValidInv', IssueInv', ExportInv'
  PROVE  SnapshotInv'
<1>1. UNCHANGED copy /\ UNCHANGED files
  BY DEF Outside
<1>2. DocInv'
  BY <1>1 DEF SnapshotInv, DocInv, Within, Committed, Listed, copy, files
<1>3. Bound(destination)'
  BY <1>1 DEF SnapshotInv, Bound, copy, files
<1>4. CopyInv'
  BY <1>1 DEF SnapshotInv, CopyInv, copy, Working
<1>5. JobTypes'
  BY <1>1 DEF SnapshotInv, JobTypes, files
<1>6. ClaimInv'
  BY <1>1 DEF SnapshotInv, ClaimInv, Claim, Now, Dirty, Working, Lints, Consistencies, copy, files
<1> QED
  BY <1>2, <1>3, <1>4, <1>5, <1>6 DEF SnapshotInv

\* A step that reads nothing leaves what was read as it should be.
LEMMA ReadStays ==
  ASSUME SnapshotInv, job # "none", UNCHANGED copy, UNCHANGED <<job, r>>, JobTypes',
         Step' = Step \/ (Step <= 1 /\ Step' <= 1) \/ (10 <= Step /\ 10 <= Step')
  PROVE  ReadInv'
<1>1. UNCHANGED copy
  OBVIOUS
<1>2. Step \in Int /\ Step' \in Int
  <2>1. Step \in Int
    BY AtType DEF SnapshotInv
  <2>2. at' \in 1..18
    BY Jobs DEF JobTypes
  <2> QED
    BY <2>1, <2>2 DEF Step
<1>3. \A n \in 1..9 : ((1 < Step' /\ Step' <= n) => (1 < Step /\ Step <= n)) /\ (n < Step' => n < Step)
  BY <1>2
<1>5. /\ (Due(2)' => Due(2)) /\ (Due(3)' => Due(3)) /\ (Due(5)' => Due(5)) /\ (Due(9)' => Due(9))
      /\ (Due(8)' => Due(8))
      /\ (Done(2)' => Done(2)) /\ (Done(3)' => Done(3)) /\ (Done(5)' => Done(5))
      /\ (Done(6)' => Done(6)) /\ (Done(7)' => Done(7)) /\ (Done(8)' => Done(8)) /\ (Done(9)' => Done(9))
  BY <1>3 DEF Due, Done
<1>6. ReadInv
  BY DEF SnapshotInv
<1>7. /\ Reading(r.lint, LintResults, 2)' /\ Reading(r.consistency, PackResults, 3)'
      /\ Reading(r.sources, Hashes, 5)' /\ Reading(r.full, Hashes, 9)'
  BY <1>5, <1>6 DEF ReadInv, Reading
<1>8. IsReading(r)' /\ Within(r.sources)' /\ Within(r.full)'
  BY <1>1, <1>6 DEF ReadInv, IsReading, Within, copy
<1>9. (Listed(r) => Listed(r)') /\ (Committed(r) => Committed(r)')
  BY <1>1 DEF Listed, Committed, copy
<1> QED
  BY <1>1, <1>5, <1>6, <1>7, <1>8, <1>9 DEF ReadInv, copy

-----------------------------------------------------------------------------
(* Checks.                                                                 *)

LEMMA QuietKeeps ==
  ASSUME SnapshotInv, job # "none", Outside, UNCHANGED <<job, r, held>>, at' = at + 1,
         at' \in DOMAIN Plan[job], job \in {"issue", "export"} \/ Step < 1 \/ 10 <= Step,
         job = "validate" => /\ at' # 6
                             /\ at' = 16 => Len(commits) # document.commit \/ held
                             /\ at' > 16 => held,
         job = "issue" => /\ at # 2
                          /\ at = 1 => registry = document.registry
                          /\ at = 3 => Len(commits) = document.commit,
         ExportInv'
  PROVE  SnapshotInv'
<1>1. UNCHANGED copy /\ UNCHANGED files
  BY DEF Outside
<1>2. at \in 1..18 /\ Step \in Int
  BY AtType DEF SnapshotInv
<1>3. Step' = Step \/ (Step <= 1 /\ Step' <= 1) \/ (10 <= Step /\ 10 <= Step')
  BY <1>2 DEF Step
<1>4. JobTypes'
  BY <1>1 DEF SnapshotInv, JobTypes, files
<1>5. ReadInv'
  BY <1>1, <1>3, <1>4, ReadStays
<1>6. ValidInv'
  <2>1. SUFFICES ASSUME job = "validate"
                 PROVE  ValidInv'
    BY DEF ValidInv
  <2>2. Step = at - 5 /\ Step' = at - 4
    BY <1>2, <2>1 DEF Step
  <2>3. ~(Due(10)')
    BY <1>2, <2>1, <2>2 DEF Due
  <2> QED
    BY <1>1, <2>1, <2>3 DEF ValidInv, copy, files
<1>7. IssueInv'
  <2>1. (Strayed => Strayed') /\ (HeadMoved => HeadMoved')
    BY <1>1 DEF Strayed, HeadMoved, copy, files
  <2>2. SUFFICES ASSUME job = "issue"
                 PROVE  IssueInv'
    BY DEF IssueInv
  <2>3. CASE at = 1
    <3>1. Strayed \/ HeadMoved \/ held
      BY <2>2, <2>3 DEF SnapshotInv, IssueInv
    <3> QED BY <1>2, <2>1, <2>3, <3>1 DEF IssueInv
  <2>4. CASE at = 3
    <3>1. held
      BY <2>2, <2>4 DEF SnapshotInv, IssueInv, HeadMoved
    <3> QED BY <1>2, <2>4, <3>1 DEF IssueInv
  <2>5. CASE at > 3
    <3>1. held
      BY <2>2, <2>5 DEF SnapshotInv, IssueInv
    <3> QED BY <1>2, <2>5, <3>1 DEF IssueInv
  <2> QED
    BY <1>2, <2>2, <2>3, <2>4, <2>5
<1> QED
  BY <1>4, <1>5, <1>6, <1>7, StepKeeps DEF JobTypes

\* A job at a step that is not its last goes on within its plan.
LEMMA GoesOn ==
  ASSUME JobTypes
  PROVE  /\ \A n \in 1..17 : Doing("validate", n) => at + 1 \in DOMAIN Plan[job]
         /\ \A n \in 1..4 : Doing("issue", n) => at + 1 \in DOMAIN Plan[job]
         /\ \A n \in 1..10 : Doing("export", n) => at + 1 \in DOMAIN Plan[job]
         /\ \A n \in 1..9 : Doing("produce", n) => at + 1 \in DOMAIN Plan[job]
BY Jobs DEF Doing

\* A check of an export that leaves everything as it is.
LEMMA ExportGoesOn ==
  ASSUME SnapshotInv, job = "export", at \in {1, 2, 4, 5}, Outside,
         UNCHANGED <<job, r, held, before, report>>, at' = at + 1,
         at = 1 => \A s \in Slugs : document.sources[s] <= commits[document.commit].tree[s],
         at = 5 => held
  PROVE  SnapshotInv'
<1>1. UNCHANGED copy /\ UNCHANGED files
  BY DEF Outside
<1>2. ExportInv'
  BY <1>1 DEF SnapshotInv, ExportInv, copy, files
<1>3. at + 1 \in DOMAIN Plan[job]
  BY Jobs
<1> QED
  BY <1>2, <1>3, QuietKeeps

LEMMA SameCommitKeeps ==
  ASSUME SnapshotInv, SameCommit
  PROVE  SnapshotInv'
<1>1. CASE Return
  BY <1>1, Leaving DEF SameCommit, Check
<1>2. CASE Len(commits) = document.commit /\ Advance /\ UNCHANGED r
  <2>1. Outside /\ UNCHANGED <<job, r, held, before, report>> /\ at' = at + 1
    BY <1>2 DEF SameCommit, Check, Advance, result
  <2>2. CASE Doing("validate", 1) \/ Doing("validate", 16)
    <3>1. at' \in DOMAIN Plan[job] /\ ExportInv'
      BY <2>1, <2>2, GoesOn DEF SnapshotInv, ExportInv, Doing
    <3>2. at = 16 => held
      BY <1>2, <2>2 DEF SnapshotInv, ValidInv, Doing
    <3>3. Step < 1 \/ 10 <= Step
      BY <2>2 DEF Step, Doing
    <3> QED
      BY <2>1, <2>2, <3>1, <3>2, <3>3, QuietKeeps DEF Doing
  <2>3. CASE Doing("issue", 3)
    <3>1. at' \in DOMAIN Plan[job] /\ ExportInv'
      BY <2>1, <2>3, GoesOn DEF SnapshotInv, ExportInv, Doing
    <3> QED
      BY <1>2, <2>1, <2>3, <3>1, QuietKeeps DEF Doing
  <2>4. CASE Doing("export", 1)
    <3>1. \A s \in Slugs : document.sources[s] <= commits[document.commit].tree[s]
      BY <1>2, <2>4 DEF SnapshotInv, JobTypes, DocInv, Committed, Doing
    <3> QED
      BY <2>1, <2>4, <3>1, ExportGoesOn DEF Doing
  <2> QED
    BY <2>2, <2>3, <2>4, CheckSteps DEF SameCommit, Check, SnapshotInv
<1> QED
  BY <1>1, <1>2 DEF SameCommit, Check

LEMMA CleanKeeps ==
  ASSUME SnapshotInv, Clean
  PROVE  SnapshotInv'
<1>1. CASE Return
  BY <1>1, Leaving DEF Clean, Check
<1>2. CASE Advance /\ UNCHANGED r
  <2>1. Outside /\ UNCHANGED <<job, r, held, before, report>> /\ at' = at + 1
    BY <1>2 DEF Clean, Check, Advance, result
  <2>2. CASE Doing("validate", 2) \/ Doing("validate", 17)
    <3>1. at' \in DOMAIN Plan[job] /\ ExportInv'
      BY <2>1, <2>2, GoesOn DEF SnapshotInv, ExportInv, Doing
    <3>2. at = 17 => held
      BY <2>2 DEF SnapshotInv, ValidInv, Doing
    <3>3. Step < 1 \/ 10 <= Step
      BY <2>2 DEF Step, Doing
    <3> QED
      BY <2>1, <2>2, <3>1, <3>2, <3>3, QuietKeeps DEF Doing
  <2>3. CASE Doing("export", 2)
    BY <2>1, <2>3, ExportGoesOn DEF Doing
  <2> QED
    BY <2>2, <2>3, CheckSteps DEF Clean, Check, SnapshotInv
<1> QED
  BY <1>1, <1>2 DEF Clean, Check

LEMMA SameRegistryKeeps ==
  ASSUME SnapshotInv, SameRegistry
  PROVE  SnapshotInv'
<1>1. CASE Return
  BY <1>1, Leaving DEF SameRegistry, Check
<1>2. CASE registry = document.registry /\ Advance /\ UNCHANGED r
  <2>1. Outside /\ UNCHANGED <<job, r, held, before, report>> /\ at' = at + 1
    BY <1>2 DEF SameRegistry, Check, Advance, result
  <2>2. Doing("validate", 3) \/ Doing("issue", 1)
    BY CheckSteps DEF SameRegistry, Check, SnapshotInv
  <2>3. at' \in DOMAIN Plan[job] /\ ExportInv'
    BY <2>1, <2>2, GoesOn DEF SnapshotInv, ExportInv, Doing
  <2>4. job = "issue" \/ Step < 1
    BY <2>2 DEF Step, Doing
  <2> QED
    BY <1>2, <2>1, <2>2, <2>3, <2>4, QuietKeeps DEF Doing
<1> QED
  BY <1>1, <1>2 DEF SameRegistry, Check

LEMMA LeaseKeeps ==
  ASSUME SnapshotInv, Lease
  PROVE  SnapshotInv'
<1>1. Outside /\ UNCHANGED <<job, r, held, before, report>> /\ at' = at + 1
  BY DEF Lease
<1>2. Doing("issue", 4)
  BY CheckSteps DEF Lease, SnapshotInv
<1>3. at' \in DOMAIN Plan[job] /\ ExportInv'
  BY <1>1, <1>2, GoesOn DEF SnapshotInv, ExportInv, Doing
<1> QED
  BY <1>1, <1>2, <1>3, QuietKeeps DEF Doing

LEMMA ScopeKeeps ==
  ASSUME SnapshotInv, Scope
  PROVE  SnapshotInv'
<1>1. CASE Return
  BY <1>1, Leaving DEF Scope, Check
<1>2. CASE Advance /\ UNCHANGED r
  <2>1. Outside /\ UNCHANGED <<job, r, held, before, report>> /\ at' = at + 1
    BY <1>2 DEF Scope, Check, Advance, result
  <2>2. Doing("export", 4)
    BY CheckSteps DEF Scope, Check, SnapshotInv
  <2> QED
    BY <2>1, <2>2, ExportGoesOn DEF Doing
<1> QED
  BY <1>1, <1>2 DEF Scope, Check

\* The heads are those of one moment, and that moment is now.
LEMMA SameHeadsKeeps ==
  ASSUME SnapshotInv, SameHeads
  PROVE  SnapshotInv'
<1>1. CASE Return
  BY <1>1, Leaving DEF SameHeads, Check
<1>2. CASE db.head = Exported(document).payload /\ Advance /\ UNCHANGED r
  <2>1. Outside /\ UNCHANGED <<job, r, held, before, report>> /\ at' = at + 1
    BY <1>2 DEF SameHeads, Check, Advance, result
  <2>2. Doing("export", 5)
    BY CheckSteps DEF SameHeads, Check, SnapshotInv
  <2>3. Now.db = db
    BY DEF Now
  <2>4. held
    BY <1>2, <2>2, <2>3 DEF SnapshotInv, ClaimInv, Claim, Doing
  <2> QED
    BY <2>1, <2>2, <2>4, ExportGoesOn DEF Doing
<1> QED
  BY <1>1, <1>2 DEF SameHeads, Check

-----------------------------------------------------------------------------
(* Readings.                                                               *)

\* The n-th step of the build goes on until it is complete; a job that hashes
\* what a document names is not building yet.
Goes(n, complete) ==
  \/ Step <= 1 /\ Step' <= 1
  \/ Step = n /\ Step' = IF complete THEN n + 1 ELSE n

LEMMA Progress ==
  ASSUME JobTypes, JobTypes', job # "none", UNCHANGED job,
         NEW n \in 2..9, NEW complete \in BOOLEAN, Goes(n, complete)
  PROVE  /\ \A m \in (1..9) \ {n} : (Due(m)' => Due(m)) /\ (Done(m)' => Done(m))
         /\ Due(n)' => Due(n) /\ ~complete
         /\ Done(n)' => complete
         /\ \A m \in n..9 : Due(m)' => Due(m)
         /\ \A m \in (n + 1)..9 : ~(Done(m)')
         /\ \A m \in 1..(n - 1) : ~(Due(m)')
<1>1. Step \in Int
  BY AtType
<1>2. at' \in 1..18
  BY Jobs DEF JobTypes
<1>3. Step' \in Int
  BY <1>2 DEF Step
<1> QED
  BY <1>1, <1>3 DEF Goes, Due, Done

LEMMA LintRead ==
  ASSUME SnapshotInv, job # "none", Outside, UNCHANGED job, JobTypes', Len(r.lint) < N,
         r' = [r EXCEPT !["lint"] = Append(r.lint, LintOf(tree[Len(r.lint) + 1]))], Goes(2, Len(r.lint) + 1 = N)
  PROVE  /\ ReadInv' /\ Len(r.lint') = Len(r.lint) + 1
         /\ \A i \in 1..Len(r.lint) : r.lint'[i] = r.lint[i]
         /\ r.lint'[Len(r.lint) + 1] = LintOf(tree[Len(r.lint) + 1])
         /\ r.rows' = r.rows /\ r.consistency' = r.consistency /\ r.db' = r.db /\ r.sources' = r.sources /\ r.commit' = r.commit /\ r.dirty' = r.dirty /\ r.registry' = r.registry /\ r.full' = r.full
<1> DEFINE value == LintOf(tree[Len(r.lint) + 1])
<1>1. UNCHANGED copy /\ ReadInv /\ CopyInv /\ JobTypes
  BY DEF Outside, SnapshotInv
<1>2. Reading(r.lint, LintResults, 2) /\ IsReading(r)
  BY <1>1 DEF ReadInv
<1>3. Len(r.lint) \in Nat /\ Len(r.lint) + 1 \in Slugs
  BY <1>2, Constants DEF Reading
<1>4. value \in LintResults
  BY DEF LintOf, LintResults
<1> HIDE DEF value
<1>5. r.lint' = Append(r.lint, value) /\ IsReading(r)'
      /\ r.rows' = r.rows /\ r.consistency' = r.consistency /\ r.db' = r.db /\ r.sources' = r.sources /\ r.commit' = r.commit /\ r.dirty' = r.dirty /\ r.registry' = r.registry /\ r.full' = r.full
  BY <1>2 DEF IsReading, value
<1>6. /\ r.lint' \in Seq(LintResults) /\ Len(r.lint') = Len(r.lint) + 1
      /\ \A i \in 1..Len(r.lint) : r.lint'[i] = r.lint[i]
      /\ r.lint'[Len(r.lint) + 1] = value
  BY <1>2, <1>4, <1>5, AppendFacts DEF Reading
<1>7. PICK complete \in BOOLEAN : complete <=> Len(r.lint) + 1 = N
  OBVIOUS
<1>8. Goes(2, complete)
  BY <1>7 DEF Goes
<1>9. /\ \A m \in (1..9) \ {2} : (Due(m)' => Due(m)) /\ (Done(m)' => Done(m))
      /\ (Due(2)' => Due(2) /\ ~complete) /\ (Done(2)' => complete)
      /\ \A m \in 2..9 : Due(m)' => Due(m)
      /\ \A m \in (2 + 1)..9 : ~(Done(m)')
      /\ \A m \in 1..(2 - 1) : ~(Due(m)')
  BY <1>1, <1>8, Progress
<1>10. Reading(r.lint, LintResults, 2)'
  BY <1>2, <1>3, <1>6, <1>7, <1>9, Constants DEF Reading
<1>11. Reading(r.consistency, PackResults, 3)' /\ Reading(r.sources, Hashes, 5)' /\ Reading(r.full, Hashes, 9)'
  <2>1. (Due(3)' => Due(3)) /\ (Done(3)' => Done(3))
    BY <1>9
  <2>2. (Due(5)' => Due(5)) /\ (Done(5)' => Done(5))
    BY <1>9
  <2>3. (Due(9)' => Due(9)) /\ (Done(9)' => Done(9))
    BY <1>9
  <2> QED
    BY <1>1, <1>5, <2>1, <2>2, <2>3 DEF ReadInv, Reading
<1>12. Within(r.sources)'
  BY <1>1, <1>5 DEF ReadInv, Within, copy
<1>13. Within(r.full)'
  BY <1>1, <1>5 DEF ReadInv, Within, copy
<1>14. Due(8)' => r.full' = <<>>
  BY <1>1, <1>5, <1>9 DEF ReadInv
<1>15. ~(Done(6)') /\ ~(Done(7)') /\ ~(Done(8)')
  BY <1>9
<1> QED
  BY <1>5, <1>6, <1>10, <1>11, <1>12, <1>13, <1>14, <1>15 DEF ReadInv, value

LEMMA ConsistencyRead ==
  ASSUME SnapshotInv, job # "none", Outside, UNCHANGED job, JobTypes', Len(r.consistency) < N,
         r' = [r EXCEPT !["consistency"] = Append(r.consistency, Consistencies[Len(r.consistency) + 1])], Goes(3, Len(r.consistency) + 1 = N)
  PROVE  /\ ReadInv' /\ Len(r.consistency') = Len(r.consistency) + 1
         /\ \A i \in 1..Len(r.consistency) : r.consistency'[i] = r.consistency[i]
         /\ r.consistency'[Len(r.consistency) + 1] = Consistencies[Len(r.consistency) + 1]
         /\ r.rows' = r.rows /\ r.lint' = r.lint /\ r.db' = r.db /\ r.sources' = r.sources /\ r.commit' = r.commit /\ r.dirty' = r.dirty /\ r.registry' = r.registry /\ r.full' = r.full
<1> DEFINE value == Consistencies[Len(r.consistency) + 1]
<1>1. UNCHANGED copy /\ ReadInv /\ CopyInv /\ JobTypes
  BY DEF Outside, SnapshotInv
<1>2. Reading(r.consistency, PackResults, 3) /\ IsReading(r)
  BY <1>1 DEF ReadInv
<1>3. Len(r.consistency) \in Nat /\ Len(r.consistency) + 1 \in Slugs
  BY <1>2, Constants DEF Reading
<1>4. value \in PackResults
  BY <1>3 DEF Consistencies, PackResults
<1> HIDE DEF value
<1>5. r.consistency' = Append(r.consistency, value) /\ IsReading(r)'
      /\ r.rows' = r.rows /\ r.lint' = r.lint /\ r.db' = r.db /\ r.sources' = r.sources /\ r.commit' = r.commit /\ r.dirty' = r.dirty /\ r.registry' = r.registry /\ r.full' = r.full
  BY <1>2 DEF IsReading, value
<1>6. /\ r.consistency' \in Seq(PackResults) /\ Len(r.consistency') = Len(r.consistency) + 1
      /\ \A i \in 1..Len(r.consistency) : r.consistency'[i] = r.consistency[i]
      /\ r.consistency'[Len(r.consistency) + 1] = value
  BY <1>2, <1>4, <1>5, AppendFacts DEF Reading
<1>7. PICK complete \in BOOLEAN : complete <=> Len(r.consistency) + 1 = N
  OBVIOUS
<1>8. Goes(3, complete)
  BY <1>7 DEF Goes
<1>9. /\ \A m \in (1..9) \ {3} : (Due(m)' => Due(m)) /\ (Done(m)' => Done(m))
      /\ (Due(3)' => Due(3) /\ ~complete) /\ (Done(3)' => complete)
      /\ \A m \in 3..9 : Due(m)' => Due(m)
      /\ \A m \in (3 + 1)..9 : ~(Done(m)')
      /\ \A m \in 1..(3 - 1) : ~(Due(m)')
  BY <1>1, <1>8, Progress
<1>10. Reading(r.consistency, PackResults, 3)'
  BY <1>2, <1>3, <1>6, <1>7, <1>9, Constants DEF Reading
<1>11. Reading(r.lint, LintResults, 2)' /\ Reading(r.sources, Hashes, 5)' /\ Reading(r.full, Hashes, 9)'
  <2>1. (Due(2)' => Due(2)) /\ (Done(2)' => Done(2))
    BY <1>9
  <2>2. (Due(5)' => Due(5)) /\ (Done(5)' => Done(5))
    BY <1>9
  <2>3. (Due(9)' => Due(9)) /\ (Done(9)' => Done(9))
    BY <1>9
  <2> QED
    BY <1>1, <1>5, <2>1, <2>2, <2>3 DEF ReadInv, Reading
<1>12. Within(r.sources)'
  BY <1>1, <1>5 DEF ReadInv, Within, copy
<1>13. Within(r.full)'
  BY <1>1, <1>5 DEF ReadInv, Within, copy
<1>14. Due(8)' => r.full' = <<>>
  BY <1>1, <1>5, <1>9 DEF ReadInv
<1>15. ~(Done(6)') /\ ~(Done(7)') /\ ~(Done(8)')
  BY <1>9
<1> QED
  BY <1>5, <1>6, <1>10, <1>11, <1>12, <1>13, <1>14, <1>15 DEF ReadInv, value

LEMMA SourcesRead ==
  ASSUME SnapshotInv, job # "none", Outside, UNCHANGED job, JobTypes', Len(r.sources) < N,
         r' = [r EXCEPT !["sources"] = Append(r.sources, tree[Len(r.sources) + 1])], Goes(5, Len(r.sources) + 1 = N)
  PROVE  /\ ReadInv' /\ Len(r.sources') = Len(r.sources) + 1
         /\ \A i \in 1..Len(r.sources) : r.sources'[i] = r.sources[i]
         /\ r.sources'[Len(r.sources) + 1] = tree[Len(r.sources) + 1]
         /\ r.rows' = r.rows /\ r.lint' = r.lint /\ r.consistency' = r.consistency /\ r.db' = r.db /\ r.commit' = r.commit /\ r.dirty' = r.dirty /\ r.registry' = r.registry /\ r.full' = r.full
<1> DEFINE value == tree[Len(r.sources) + 1]
<1>1. UNCHANGED copy /\ ReadInv /\ CopyInv /\ JobTypes
  BY DEF Outside, SnapshotInv
<1>2. Reading(r.sources, Hashes, 5) /\ IsReading(r)
  BY <1>1 DEF ReadInv
<1>3. Len(r.sources) \in Nat /\ Len(r.sources) + 1 \in Slugs
  BY <1>2, Constants DEF Reading
<1>4. value \in Hashes
  BY <1>1, <1>3 DEF CopyInv, Hashes
<1> HIDE DEF value
<1>5. r.sources' = Append(r.sources, value) /\ IsReading(r)'
      /\ r.rows' = r.rows /\ r.lint' = r.lint /\ r.consistency' = r.consistency /\ r.db' = r.db /\ r.commit' = r.commit /\ r.dirty' = r.dirty /\ r.registry' = r.registry /\ r.full' = r.full
  BY <1>2 DEF IsReading, value
<1>6. /\ r.sources' \in Seq(Hashes) /\ Len(r.sources') = Len(r.sources) + 1
      /\ \A i \in 1..Len(r.sources) : r.sources'[i] = r.sources[i]
      /\ r.sources'[Len(r.sources) + 1] = value
  BY <1>2, <1>4, <1>5, AppendFacts DEF Reading
<1>7. PICK complete \in BOOLEAN : complete <=> Len(r.sources) + 1 = N
  OBVIOUS
<1>8. Goes(5, complete)
  BY <1>7 DEF Goes
<1>9. /\ \A m \in (1..9) \ {5} : (Due(m)' => Due(m)) /\ (Done(m)' => Done(m))
      /\ (Due(5)' => Due(5) /\ ~complete) /\ (Done(5)' => complete)
      /\ \A m \in 5..9 : Due(m)' => Due(m)
      /\ \A m \in (5 + 1)..9 : ~(Done(m)')
      /\ \A m \in 1..(5 - 1) : ~(Due(m)')
  BY <1>1, <1>8, Progress
<1>10. Reading(r.sources, Hashes, 5)'
  BY <1>2, <1>3, <1>6, <1>7, <1>9, Constants DEF Reading
<1>11. Reading(r.lint, LintResults, 2)' /\ Reading(r.consistency, PackResults, 3)' /\ Reading(r.full, Hashes, 9)'
  <2>1. (Due(2)' => Due(2)) /\ (Done(2)' => Done(2))
    BY <1>9
  <2>2. (Due(3)' => Due(3)) /\ (Done(3)' => Done(3))
    BY <1>9
  <2>3. (Due(9)' => Due(9)) /\ (Done(9)' => Done(9))
    BY <1>9
  <2> QED
    BY <1>1, <1>5, <2>1, <2>2, <2>3 DEF ReadInv, Reading
<1>12. Within(r.sources)'
  <2>1. \A i \in 1..(Len(r.sources) + 1) : i \in 1..Len(r.sources) \/ i = Len(r.sources) + 1
    BY <1>3
  <2>2. value <= tree[Len(r.sources) + 1]
    BY <1>1, <1>3, Constants DEF CopyInv, value
  <2> QED
    BY <1>1, <1>6, <2>1, <2>2 DEF ReadInv, Within, copy
<1>13. Within(r.full)'
  BY <1>1, <1>5 DEF ReadInv, Within, copy
<1>14. Due(8)' => r.full' = <<>>
  BY <1>1, <1>5, <1>9 DEF ReadInv
<1>15. ~(Done(6)') /\ ~(Done(7)') /\ ~(Done(8)')
  BY <1>9
<1> QED
  BY <1>5, <1>6, <1>10, <1>11, <1>12, <1>13, <1>14, <1>15 DEF ReadInv, value

LEMMA FullRead ==
  ASSUME SnapshotInv, job # "none", Outside, UNCHANGED job, JobTypes', Len(r.full) < N,
         r' = [r EXCEPT !["full"] = Append(r.full, tree[Len(r.full) + 1])], Goes(9, Len(r.full) + 1 = N)
  PROVE  /\ ReadInv' /\ Len(r.full') = Len(r.full) + 1
         /\ \A i \in 1..Len(r.full) : r.full'[i] = r.full[i]
         /\ r.full'[Len(r.full) + 1] = tree[Len(r.full) + 1]
         /\ r.rows' = r.rows /\ r.lint' = r.lint /\ r.consistency' = r.consistency /\ r.db' = r.db /\ r.sources' = r.sources /\ r.commit' = r.commit /\ r.dirty' = r.dirty /\ r.registry' = r.registry
<1> DEFINE value == tree[Len(r.full) + 1]
<1>1. UNCHANGED copy /\ ReadInv /\ CopyInv /\ JobTypes
  BY DEF Outside, SnapshotInv
<1>2. Reading(r.full, Hashes, 9) /\ IsReading(r)
  BY <1>1 DEF ReadInv
<1>3. Len(r.full) \in Nat /\ Len(r.full) + 1 \in Slugs
  BY <1>2, Constants DEF Reading
<1>4. value \in Hashes
  BY <1>1, <1>3 DEF CopyInv, Hashes
<1> HIDE DEF value
<1>5. r.full' = Append(r.full, value) /\ IsReading(r)'
      /\ r.rows' = r.rows /\ r.lint' = r.lint /\ r.consistency' = r.consistency /\ r.db' = r.db /\ r.sources' = r.sources /\ r.commit' = r.commit /\ r.dirty' = r.dirty /\ r.registry' = r.registry
  BY <1>2 DEF IsReading, value
<1>6. /\ r.full' \in Seq(Hashes) /\ Len(r.full') = Len(r.full) + 1
      /\ \A i \in 1..Len(r.full) : r.full'[i] = r.full[i]
      /\ r.full'[Len(r.full) + 1] = value
  BY <1>2, <1>4, <1>5, AppendFacts DEF Reading
<1>7. PICK complete \in BOOLEAN : complete <=> Len(r.full) + 1 = N
  OBVIOUS
<1>8. Goes(9, complete)
  BY <1>7 DEF Goes
<1>9. /\ \A m \in (1..9) \ {9} : (Due(m)' => Due(m)) /\ (Done(m)' => Done(m))
      /\ (Due(9)' => Due(9) /\ ~complete) /\ (Done(9)' => complete)
      /\ \A m \in 9..9 : Due(m)' => Due(m)
      /\ \A m \in (9 + 1)..9 : ~(Done(m)')
      /\ \A m \in 1..(9 - 1) : ~(Due(m)')
  BY <1>1, <1>8, Progress
<1>10. Reading(r.full, Hashes, 9)'
  BY <1>2, <1>3, <1>6, <1>7, <1>9, Constants DEF Reading
<1>11. Reading(r.lint, LintResults, 2)' /\ Reading(r.consistency, PackResults, 3)' /\ Reading(r.sources, Hashes, 5)'
  <2>1. (Due(2)' => Due(2)) /\ (Done(2)' => Done(2))
    BY <1>9
  <2>2. (Due(3)' => Due(3)) /\ (Done(3)' => Done(3))
    BY <1>9
  <2>3. (Due(5)' => Due(5)) /\ (Done(5)' => Done(5))
    BY <1>9
  <2> QED
    BY <1>1, <1>5, <2>1, <2>2, <2>3 DEF ReadInv, Reading
<1>12. Within(r.full)'
  <2>1. \A i \in 1..(Len(r.full) + 1) : i \in 1..Len(r.full) \/ i = Len(r.full) + 1
    BY <1>3
  <2>2. value <= tree[Len(r.full) + 1]
    BY <1>1, <1>3, Constants DEF CopyInv, value
  <2> QED
    BY <1>1, <1>6, <2>1, <2>2 DEF ReadInv, Within, copy
<1>13. Within(r.sources)'
  BY <1>1, <1>5 DEF ReadInv, Within, copy
<1>14. ~(Due(8)')
  BY <1>9
<1>15. /\ Done(6)' => r.commit' \in (1..Len(commits))'
       /\ Done(7)' => (r.dirty \in BOOLEAN)' /\ Committed(r)'
       /\ Done(8)' => Listed(r)'
  BY <1>1, <1>5, <1>9 DEF ReadInv, Committed, Listed, copy
<1> QED
  BY <1>5, <1>6, <1>10, <1>11, <1>12, <1>13, <1>14, <1>15 DEF ReadInv, value

-----------------------------------------------------------------------------
(* The working copy is hashed again and compared with a document.          *)

\* A pass over the tree takes each hash as the tree has it.
LEMMA StrayedStays ==
  ASSUME SnapshotInv, Outside, Len(r.full) < N, Len(r.full)' = Len(r.full) + 1,
         \A i \in 1..Len(r.full) : r.full'[i] = r.full[i],
         r.full'[Len(r.full) + 1] = tree[Len(r.full) + 1]
  PROVE  Strayed => Strayed'
<1>1. Len(r.full) \in Nat /\ UNCHANGED copy /\ UNCHANGED files
  BY DEF SnapshotInv, ReadInv, Reading, Outside
<1>2. SUFFICES ASSUME NEW s \in Slugs,
                      IF s <= Len(r.full) THEN r.full[s] # document.full[s]
                                          ELSE tree[s] # document.full[s]
               PROVE  IF s <= Len(r.full)' THEN r.full'[s] # document'.full[s]
                                           ELSE tree'[s] # document'.full[s]
  BY DEF Strayed
<1>3. s \in Nat /\ 1 <= s
  BY Constants
<1>4. document' = document /\ tree' = tree
  BY <1>1 DEF copy, files
<1>5. CASE s <= Len(r.full)
  <2>1. s \in 1..Len(r.full)
    BY <1>1, <1>3, <1>5
  <2> QED
    BY <1>1, <1>2, <1>3, <1>4, <1>5, <2>1
<1>6. CASE s = Len(r.full) + 1
  BY <1>1, <1>2, <1>3, <1>4, <1>6
<1>7. CASE Len(r.full) + 1 < s
  BY <1>1, <1>2, <1>3, <1>4, <1>7
<1> QED
  BY <1>1, <1>3, <1>5, <1>6, <1>7

LEMMA SameSourcesKeeps ==
  ASSUME SnapshotInv, SameSources
  PROVE  SnapshotInv'
<1> DEFINE hash == tree[Len(r.sources) + 1]
           agrees == \A s \in Slugs : Hashed("sources")[s] = document.sources[s]
<1>1. Outside /\ Hashed("sources") = Append(r.sources, hash)
  BY DEF SameSources, HashPass, Hashed
<1>2. CASE Return
  BY <1>1, <1>2, Leaving
<1>3. CASE /\ r' = [r EXCEPT !["sources"] = Hashed("sources")]
           /\ \/ Len(Hashed("sources")) < N /\ Stay
              \/ Len(Hashed("sources")) = N /\ agrees /\ Advance
  <2>1. Doing("validate", 4) \/ Doing("export", 3)
    BY CheckSteps DEF SameSources, HashPass, SnapshotInv
  <2>2. /\ ReadInv /\ JobTypes /\ CopyInv /\ job # "none" /\ at \in Int
        /\ UNCHANGED copy /\ UNCHANGED files
        /\ UNCHANGED <<job, held, before, report>>
    BY <1>1, <1>3, <2>1 DEF SnapshotInv, Outside, Stay, Advance, result, Doing
  <2>3. r.sources \in Seq(Hashes) /\ Len(r.sources) \in Nat
    BY <2>2 DEF ReadInv, Reading
  <2>4. Len(Hashed("sources")) = Len(r.sources) + 1
    BY <1>1, <2>3
  <2>5. Len(r.sources) < N
    BY <1>3, <2>3, <2>4, Constants
  <2>6. at' \in DOMAIN Plan[job] /\ at' \in {at, at + 1}
    BY <1>3, <2>1, <2>2, GoesOn DEF Stay, Advance, Doing, JobTypes
  <2>7. JobTypes'
    BY <2>2, <2>6 DEF JobTypes, files
  <2>8. Step <= 1 /\ Step' <= 1 /\ Step' \in Int
    <3>1. at \in 1..5 /\ at' \in 1..6 /\ job # "produce"
      BY <2>1, <2>2, <2>6 DEF Doing
    <3>2. CASE job = "validate"
      <4>1. PICK m \in 1..5, n \in 1..6 : at = m /\ at' = n
        BY <3>1
      <4>2. Step = m - 5 /\ Step' = n - 5
        BY <2>2, <3>2, <4>1 DEF Step
      <4> QED
        BY <4>2
    <3>3. CASE job # "validate"
      BY <2>2, <3>1, <3>3 DEF Step
    <3> QED
      BY <3>2, <3>3
  <2>9. /\ ReadInv' /\ Len(r.sources') = Len(r.sources) + 1
        /\ \A i \in 1..Len(r.sources) : r.sources'[i] = r.sources[i]
        /\ r.sources'[Len(r.sources) + 1] = hash
    BY <1>1, <1>3, <2>2, <2>5, <2>7, <2>8, SourcesRead DEF Goes
  <2>10. ValidInv' /\ IssueInv'
    <3>1. ~(Due(10)')
      BY <2>8 DEF Due
    <3>2. job = "validate" => at' \in {4, 5}
      BY <2>1, <2>6 DEF Doing
    <3> QED
      BY <2>1, <2>2, <3>1, <3>2 DEF ValidInv, IssueInv, Doing
  <2>11. ExportInv'
    <3>1. SUFFICES ASSUME job = "export"
                   PROVE  ExportInv'
      BY <2>2 DEF ExportInv
    <3>2. at = 3 /\ at' \in {3, 4} /\ document # NoDocument
      BY <2>1, <2>2, <2>6, <3>1 DEF Doing, JobTypes
    <3>3. document.commit \in 1..Len(commits) /\ document' = document /\ commits' = commits
      BY <2>2, <3>2 DEF SnapshotInv, DocInv, copy, files
    <3>4. \A s \in Slugs : commits[document.commit].tree[s] <= tree[s]
      BY <2>2, <3>3 DEF CopyInv, Grown, Working
    <3>5. \A s \in 1..Len(r.sources') : commits[document.commit].tree[s] <= r.sources'[s]
      <4>1. TAKE s \in 1..Len(r.sources')
      <4>2. s \in 1..Len(r.sources) \/ s = Len(r.sources) + 1
        BY <2>3, <2>9
      <4>3. CASE s \in 1..Len(r.sources)
        BY <2>9, <3>1, <4>3 DEF SnapshotInv, ExportInv
      <4>4. CASE s = Len(r.sources) + 1
        <5>1. s \in Slugs
          BY <2>3, <2>5, <4>4, Constants
        <5> QED
          BY <2>9, <3>4, <4>4, <5>1
      <4> QED
        BY <4>2, <4>3, <4>4
    <3>6. \A s \in Slugs : document.sources[s] <= commits[document.commit].tree[s]
      BY <3>1, <3>2 DEF SnapshotInv, ExportInv
    <3>7. at' = 4 => \A s \in Slugs : document.sources[s] = commits[document.commit].tree[s]
      <4>1. SUFFICES ASSUME at' = 4, NEW s \in Slugs
                     PROVE  document.sources[s] = commits[document.commit].tree[s]
        OBVIOUS
      <4>2. Len(Hashed("sources")) = N /\ agrees
        BY <1>3, <3>2, <4>1 DEF Stay
      <4>3. r.sources' = Hashed("sources")
        BY <1>3, <2>2 DEF ReadInv, IsReading
      <4>4. s \in 1..Len(r.sources') /\ r.sources'[s] = document.sources[s]
        BY <4>2, <4>3, Constants
      <4>5. commits[document.commit].tree[s] <= document.sources[s]
        BY <3>5, <4>4
      <4>6. commits[document.commit].tree[s] \in Hashes /\ document.sources[s] \in Hashes
        <5>1. commits[document.commit].tree \in [Slugs -> Hashes]
          <6>1. commits[document.commit] \in Copies
            BY <2>2, <3>3 DEF CopyInv
          <6> QED
            BY <6>1 DEF Copies, Hashes
        <5>2. document.sources \in Seq(Hashes) /\ Len(document.sources) = N
          BY <3>2 DEF SnapshotInv, DocInv
        <5> QED
          BY <5>1, <5>2, Constants
      <4> QED
        BY <3>6, <4>5, <4>6, Constants
    <3> QED
      BY <2>2, <3>1, <3>2, <3>3, <3>5, <3>6, <3>7 DEF ExportInv
  <2> QED
    BY <1>1, <2>2, <2>6, <2>9, <2>10, <2>11, StepKeeps
<1> QED
  BY <1>2, <1>3 DEF SameSources, HashPass, Stay, Advance

LEMMA SameTreeKeeps ==
  ASSUME SnapshotInv, SameTree
  PROVE  SnapshotInv'
<1> DEFINE hash == tree[Len(r.full) + 1]
<1>1. Outside /\ Hashed("full") = Append(r.full, hash)
  BY DEF SameTree, HashPass, Hashed
<1>2. CASE Return
  BY <1>1, <1>2, Leaving
<1>3. CASE /\ r' = [r EXCEPT !["full"] = Hashed("full")]
           /\ \/ Len(Hashed("full")) < N /\ Stay
              \/ Len(Hashed("full")) = N /\ Hashed("full") = document.full /\ Advance
  <2>1. Doing("validate", 5) \/ Doing("issue", 2)
    BY CheckSteps DEF SameTree, HashPass, SnapshotInv
  <2>2. /\ ReadInv /\ JobTypes /\ CopyInv /\ job # "none" /\ at \in Int
        /\ UNCHANGED copy /\ UNCHANGED files
        /\ UNCHANGED <<job, held, before, report>>
    BY <1>1, <1>3, <2>1 DEF SnapshotInv, Outside, Stay, Advance, result, Doing
  <2>3. r.full \in Seq(Hashes) /\ Len(r.full) \in Nat
    BY <2>2 DEF ReadInv, Reading
  <2>4. Len(Hashed("full")) = Len(r.full) + 1
    BY <1>1, <2>3
  <2>5. Len(r.full) < N
    BY <1>3, <2>3, <2>4, Constants
  <2>6. at' \in DOMAIN Plan[job] /\ at' \in {at, at + 1}
    BY <1>3, <2>1, <2>2, GoesOn DEF Stay, Advance, Doing, JobTypes
  <2>7. JobTypes'
    BY <2>2, <2>6 DEF JobTypes, files
  <2>8. Step <= 1 /\ Step' <= 1 /\ Step' \in Int
    <3>1. at \in 1..5 /\ at' \in 1..6 /\ job # "produce"
      BY <2>1, <2>2, <2>6 DEF Doing
    <3>2. CASE job = "validate"
      <4>1. PICK m \in 1..5, n \in 1..6 : at = m /\ at' = n
        BY <3>1
      <4>2. Step = m - 5 /\ Step' = n - 5
        BY <2>2, <3>2, <4>1 DEF Step
      <4> QED
        BY <4>2
    <3>3. CASE job # "validate"
      BY <2>2, <3>1, <3>3 DEF Step
    <3> QED
      BY <3>2, <3>3
  <2>9. /\ ReadInv' /\ Len(r.full') = Len(r.full) + 1
        /\ \A i \in 1..Len(r.full) : r.full'[i] = r.full[i]
        /\ r.full'[Len(r.full) + 1] = hash
    BY <1>1, <1>3, <2>2, <2>5, <2>7, <2>8, FullRead DEF Goes
  <2>10. ValidInv' /\ ExportInv'
    <3>1. ~(Due(10)')
      BY <2>8 DEF Due
    <3>2. job = "validate" => at' \in {5, 6}
      BY <2>1, <2>6 DEF Doing
    <3> QED
      BY <2>1, <2>2, <3>1, <3>2 DEF ValidInv, ExportInv, Doing
  <2>11. IssueInv'
    <3>1. SUFFICES ASSUME job = "issue"
                   PROVE  IssueInv'
      BY <2>2 DEF IssueInv
    <3>2. at = 2 /\ at' \in {2, 3}
      BY <2>1, <2>6, <3>1 DEF Doing
    <3>3. Strayed' \/ HeadMoved' \/ held
      <4>1. Strayed \/ HeadMoved \/ held
        BY <3>1, <3>2 DEF SnapshotInv, IssueInv
      <4>2. HeadMoved => HeadMoved'
        BY <2>2 DEF HeadMoved, copy, files
      <4> QED
        BY <1>1, <2>5, <2>9, <4>1, <4>2, StrayedStays
    <3>4. at' = 3 => ~(Strayed')
      <4>1. SUFFICES ASSUME at' = 3, NEW s \in Slugs
                     PROVE  s <= Len(r.full') /\ r.full'[s] = document.full'[s]
        BY DEF Strayed
      <4>2. Len(Hashed("full")) = N /\ Hashed("full") = document.full
        BY <1>3, <3>2, <4>1 DEF Stay
      <4>3. r.full' = Hashed("full")
        BY <1>3, <2>2 DEF ReadInv, IsReading
      <4> QED
        BY <2>2, <4>2, <4>3, Constants DEF files
    <3> QED
      BY <2>2, <3>1, <3>2, <3>3, <3>4 DEF IssueInv, files
  <2> QED
    BY <1>1, <2>2, <2>6, <2>9, <2>10, <2>11, StepKeeps
<1> QED
  BY <1>2, <1>3 DEF SameTree, HashPass, Stay, Advance

LEMMA BodyTells ==
  ASSUME NEW x, NEW y, Body(x) = Body(y)
  PROVE  x.registry = y.registry /\ x.full = y.full
<1>1. \A z : Body(z).registry = z.registry /\ Body(z).full = z.full
  BY DEF Body
<1> QED
  BY <1>1

LEMMA SameValues ==
  ASSUME NEW f, NEW g, f = [s \in Slugs |-> f[s]], g = [s \in Slugs |-> g[s]],
         \A s \in Slugs : f[s] = g[s]
  PROVE  f = g
<1>1. [s \in Slugs |-> f[s]] = [s \in Slugs |-> g[s]]
  OBVIOUS
<1> QED
  BY <1>1

\* A complete reading is a function of the skills.
LEMMA CompleteReading ==
  ASSUME NEW S, NEW seq \in Seq(S), Len(seq) = N
  PROVE  seq = [s \in Slugs |-> seq[s]]
BY Constants

\* What was rebuilt is, unless a hash differs, the reading of one moment.
LEMMA CompareKeeps ==
  ASSUME SnapshotInv, Compare
  PROVE  SnapshotInv'
<1>1. CASE Return
  BY <1>1, Leaving DEF Compare, Check
<1>2. CASE Body(r) = Body(document) /\ Advance /\ UNCHANGED r
  <2>1. Outside /\ UNCHANGED <<job, r, held, before, report>> /\ at' = at + 1
    BY <1>2 DEF Compare, Check, Advance, result
  <2>2. Doing("validate", 15)
    BY CheckSteps DEF Compare, Check, SnapshotInv
  <2>3. Step = 10 /\ job = "validate" /\ at = 15
    BY <2>2 DEF Step, Doing
  <2>4. at' \in DOMAIN Plan[job] /\ ExportInv'
    BY <2>1, <2>2, GoesOn DEF SnapshotInv, ExportInv, Doing
  <2>5. r.registry = document.registry /\ r.full = document.full
    BY <1>2, BodyTells
  <2>6. /\ Due(10) /\ Done(2) /\ Done(3) /\ Done(4) /\ Done(5) /\ Done(6) /\ Done(7) /\ Done(9)
    BY <2>3 DEF Due, Done
  <2>7. Gone \/ Faithful
    BY <2>3, <2>6 DEF SnapshotInv, ValidInv
  <2>8. /\ r.lint \in Seq(LintResults) /\ Len(r.lint) = N
        /\ r.consistency \in Seq(PackResults) /\ Len(r.consistency) = N
        /\ r.sources \in Seq(Hashes) /\ Len(r.sources) = N /\ Len(r.full) = N /\ IsReading(r)
    BY <2>6 DEF SnapshotInv, ReadInv, Reading
  <2>9. CASE Gone
    <3>1. ~Strayed
      BY <2>5, <2>8, Constants DEF Strayed
    <3>2. Len(commits) # document.commit
      BY <2>3, <2>5, <2>9, <3>1 DEF Gone
    <3> QED
      BY <2>1, <2>3, <2>4, <3>2, QuietKeeps
  <2>10. CASE Faithful
    <3>1. r.lint = Moment(r.db).lint
      <4>1. PICK f : f = [s \in Slugs |-> LintOf(document.full[s])]
        OBVIOUS
      <4>2. r.lint = [s \in Slugs |-> r.lint[s]]
        BY <2>8, CompleteReading
      <4>3. \A s \in Slugs : r.lint[s] = f[s]
        BY <2>8, <2>10, <4>1, Constants DEF Faithful
      <4>4. f = [s \in Slugs |-> f[s]]
        BY <4>1
      <4>5. r.lint = f
        BY <4>2, <4>3, <4>4, SameValues
      <4> QED
        BY <4>1, <4>5 DEF Moment
    <3>2. r.consistency = Moment(r.db).consistency
      <4>1. PICK f : f = [s \in Slugs |-> document.full[s] = Absent
                                         \/ Is(document.full[s], "consistent")]
        OBVIOUS
      <4>2. r.consistency = [s \in Slugs |-> r.consistency[s]]
        BY <2>8, CompleteReading
      <4>3. \A s \in Slugs : r.consistency[s] = f[s]
        BY <2>8, <2>10, <4>1, Constants DEF Faithful
      <4>4. f = [s \in Slugs |-> f[s]]
        BY <4>1
      <4>5. r.consistency = f
        BY <4>2, <4>3, <4>4, SameValues
      <4> QED
        BY <4>1, <4>5 DEF Moment
    <3>3. r.sources = document.full
      <4>1. document.full \in Seq(Hashes) /\ Len(document.full) = N
        BY <2>3 DEF SnapshotInv, JobTypes, DocInv
      <4>2. /\ document.full = [s \in Slugs |-> document.full[s]]
            /\ r.sources = [s \in Slugs |-> r.sources[s]]
        BY <2>8, <4>1, CompleteReading
      <4>3. \A s \in Slugs : r.sources[s] = document.full[s]
        BY <2>8, <2>10, Constants DEF Faithful
      <4> QED
        BY <4>2, <4>3, SameValues
    <3>4. r.dirty = Moment(r.db).dirty /\ r.commit = document.commit /\ r.rows = document.registry
      BY <2>6, <2>10 DEF Faithful
    <3>5. r = Moment(r.db)
      <4>1. r = [rows |-> r.rows, lint |-> r.lint, consistency |-> r.consistency, db |-> r.db,
                 sources |-> r.sources, commit |-> r.commit, dirty |-> r.dirty,
                 registry |-> r.registry, full |-> r.full]
        BY <2>8 DEF IsReading
      <4>2. PICK m : m = Moment(r.db)
        OBVIOUS
      <4>3. m = [rows |-> document.registry, lint |-> m.lint, consistency |-> m.consistency,
                 db |-> r.db, sources |-> document.full, commit |-> document.commit,
                 dirty |-> m.dirty, registry |-> document.registry, full |-> document.full]
        BY <4>2 DEF Moment
      <4> QED
        BY <2>5, <3>1, <3>2, <3>3, <3>4, <4>1, <4>2, <4>3
    <3>6. held
      BY <1>2, <2>6, <2>10, <3>5 DEF Faithful
    <3> QED
      BY <2>1, <2>3, <2>4, <3>6, QuietKeeps
  <2> QED
    BY <2>7, <2>9, <2>10
<1> QED
  BY <1>1, <1>2 DEF Compare, Check

\* The build starts with an empty reading.
LEMMA RowsRead ==
  ASSUME SnapshotInv, Outside, JobTypes', r' = [Blank EXCEPT !.rows = registry], Step' = 2
  PROVE  /\ ReadInv' /\ r.rows' = registry /\ r.lint' = <<>> /\ r.consistency' = <<>>
         /\ r.sources' = <<>> /\ r.full' = <<>>
<1>1. /\ r.rows' = registry /\ r.lint' = <<>> /\ r.consistency' = <<>> /\ r.sources' = <<>>
      /\ r.full' = <<>> /\ IsReading(r)'
  BY DEF Blank, IsReading
<1>2. /\ ~(Done(2)') /\ ~(Done(3)') /\ ~(Done(5)') /\ ~(Done(9)')
      /\ ~(Done(6)') /\ ~(Done(7)') /\ ~(Done(8)')
  BY DEF Done
<1>3. /\ Reading(r.lint, LintResults, 2)' /\ Reading(r.consistency, PackResults, 3)'
      /\ Reading(r.sources, Hashes, 5)' /\ Reading(r.full, Hashes, 9)'
  <2>1. \A seq, values : seq = <<>> => seq \in Seq(values) /\ Len(seq) <= N /\ Len(seq) < N
    BY Constants
  <2>2. /\ r.lint' \in Seq(LintResults) /\ Len(r.lint') <= N /\ Len(r.lint') < N
        /\ r.consistency' \in Seq(PackResults) /\ Len(r.consistency') <= N
        /\ Len(r.consistency') < N
        /\ r.sources' \in Seq(Hashes) /\ Len(r.sources') <= N /\ Len(r.sources') < N
        /\ r.full' \in Seq(Hashes) /\ Len(r.full') <= N /\ Len(r.full') < N
    BY <1>1, <2>1
  <2> QED
    BY <1>2, <2>2 DEF Reading
<1>4. Within(r.sources)' /\ Within(r.full)'
  BY <1>1 DEF Within
<1> QED
  BY <1>1, <1>2, <1>3, <1>4 DEF ReadInv

LEMMA BundleRead ==
  ASSUME SnapshotInv, job # "none", Outside, UNCHANGED job, JobTypes',
         r' = [r EXCEPT !["db"] = db], Step = 4, Step' = 5
  PROVE  /\ ReadInv' /\ r.db' = db
         /\ r.rows' = r.rows /\ r.lint' = r.lint /\ r.consistency' = r.consistency /\ r.sources' = r.sources /\ r.commit' = r.commit /\ r.dirty' = r.dirty /\ r.registry' = r.registry /\ r.full' = r.full
<1>1. UNCHANGED copy /\ ReadInv /\ CopyInv /\ JobTypes
  BY DEF Outside, SnapshotInv
<1>2. /\ r.db' = db /\ IsReading(r)'
      /\ r.rows' = r.rows /\ r.lint' = r.lint /\ r.consistency' = r.consistency /\ r.sources' = r.sources /\ r.commit' = r.commit /\ r.dirty' = r.dirty /\ r.registry' = r.registry /\ r.full' = r.full
  BY <1>1 DEF ReadInv, IsReading
<1>3. /\ \A m \in (1..9) \ {4} : (Due(m)' => Due(m)) /\ (Done(m)' => Done(m))
      /\ \A m \in (4 + 1)..9 : ~(Done(m)')
      /\ \A m \in 1..(4 - 1) : Done(m)
  BY DEF Due, Done
<1>4. /\ Reading(r.lint, LintResults, 2)' /\ Reading(r.consistency, PackResults, 3)'
      /\ Reading(r.sources, Hashes, 5)' /\ Reading(r.full, Hashes, 9)'
  <2>1. (Due(2)' => Due(2)) /\ (Done(2)' => Done(2)) /\ (Due(3)' => Due(3)) /\ (Done(3)' => Done(3))
    BY <1>3
  <2>2. (Due(5)' => Due(5)) /\ (Done(5)' => Done(5)) /\ (Due(9)' => Due(9)) /\ (Done(9)' => Done(9))
    BY <1>3
  <2> QED
    BY <1>1, <1>2, <2>1, <2>2 DEF ReadInv, Reading
<1>5. Within(r.sources)' /\ Within(r.full)'
  BY <1>1, <1>2 DEF ReadInv, Within, copy
<1>6. Due(8)' => r.full' = <<>>
  BY <1>1, <1>2, <1>3 DEF ReadInv
<1>7. ~(Done(6)') /\ ~(Done(7)') /\ ~(Done(8)')
  BY <1>3
<1> QED
  BY <1>1, <1>2, <1>4, <1>5, <1>6, <1>7 DEF ReadInv, copy

LEMMA CommitRead ==
  ASSUME SnapshotInv, job # "none", Outside, UNCHANGED job, JobTypes',
         r' = [r EXCEPT !["commit"] = Len(commits)], Step = 6, Step' = 7
  PROVE  /\ ReadInv' /\ r.commit' = Len(commits)
         /\ r.rows' = r.rows /\ r.lint' = r.lint /\ r.consistency' = r.consistency /\ r.db' = r.db /\ r.sources' = r.sources /\ r.dirty' = r.dirty /\ r.registry' = r.registry /\ r.full' = r.full
<1>1. UNCHANGED copy /\ ReadInv /\ CopyInv /\ JobTypes
  BY DEF Outside, SnapshotInv
<1>2. /\ r.commit' = Len(commits) /\ IsReading(r)'
      /\ r.rows' = r.rows /\ r.lint' = r.lint /\ r.consistency' = r.consistency /\ r.db' = r.db /\ r.sources' = r.sources /\ r.dirty' = r.dirty /\ r.registry' = r.registry /\ r.full' = r.full
  BY <1>1 DEF ReadInv, IsReading
<1>3. /\ \A m \in (1..9) \ {6} : (Due(m)' => Due(m)) /\ (Done(m)' => Done(m))
      /\ \A m \in (6 + 1)..9 : ~(Done(m)')
      /\ \A m \in 1..(6 - 1) : Done(m)
  BY DEF Due, Done
<1>4. /\ Reading(r.lint, LintResults, 2)' /\ Reading(r.consistency, PackResults, 3)'
      /\ Reading(r.sources, Hashes, 5)' /\ Reading(r.full, Hashes, 9)'
  <2>1. (Due(2)' => Due(2)) /\ (Done(2)' => Done(2)) /\ (Due(3)' => Due(3)) /\ (Done(3)' => Done(3))
    BY <1>3
  <2>2. (Due(5)' => Due(5)) /\ (Done(5)' => Done(5)) /\ (Due(9)' => Due(9)) /\ (Done(9)' => Done(9))
    BY <1>3
  <2> QED
    BY <1>1, <1>2, <2>1, <2>2 DEF ReadInv, Reading
<1>5. Within(r.sources)' /\ Within(r.full)'
  BY <1>1, <1>2 DEF ReadInv, Within, copy
<1>6. Due(8)' => r.full' = <<>>
  BY <1>1, <1>2, <1>3 DEF ReadInv
<1>7. ~(Done(7)') /\ ~(Done(8)') /\ r.commit' \in (1..Len(commits))'
  <2>1. Len(commits) \in Nat /\ Len(commits) # 0
    BY <1>1 DEF CopyInv
  <2> QED
    BY <1>1, <1>2, <1>3, <2>1 DEF copy
<1> QED
  BY <1>1, <1>2, <1>4, <1>5, <1>6, <1>7 DEF ReadInv, copy

LEMMA StatusRead ==
  ASSUME SnapshotInv, job # "none", Outside, UNCHANGED job, JobTypes',
         r' = [r EXCEPT !["dirty"] = Dirty], Step = 7, Step' = 8
  PROVE  /\ ReadInv' /\ r.dirty' = Dirty
         /\ r.rows' = r.rows /\ r.lint' = r.lint /\ r.consistency' = r.consistency /\ r.db' = r.db /\ r.sources' = r.sources /\ r.commit' = r.commit /\ r.registry' = r.registry /\ r.full' = r.full
<1>1. UNCHANGED copy /\ ReadInv /\ CopyInv /\ JobTypes
  BY DEF Outside, SnapshotInv
<1>2. /\ r.dirty' = Dirty /\ IsReading(r)'
      /\ r.rows' = r.rows /\ r.lint' = r.lint /\ r.consistency' = r.consistency /\ r.db' = r.db /\ r.sources' = r.sources /\ r.commit' = r.commit /\ r.registry' = r.registry /\ r.full' = r.full
  BY <1>1 DEF ReadInv, IsReading
<1>3. /\ \A m \in (1..9) \ {7} : (Due(m)' => Due(m)) /\ (Done(m)' => Done(m))
      /\ \A m \in (7 + 1)..9 : ~(Done(m)')
      /\ \A m \in 1..(7 - 1) : Done(m)
  BY DEF Due, Done
<1>4. /\ Reading(r.lint, LintResults, 2)' /\ Reading(r.consistency, PackResults, 3)'
      /\ Reading(r.sources, Hashes, 5)' /\ Reading(r.full, Hashes, 9)'
  <2>1. (Due(2)' => Due(2)) /\ (Done(2)' => Done(2)) /\ (Due(3)' => Due(3)) /\ (Done(3)' => Done(3))
    BY <1>3
  <2>2. (Due(5)' => Due(5)) /\ (Done(5)' => Done(5)) /\ (Due(9)' => Due(9)) /\ (Done(9)' => Done(9))
    BY <1>3
  <2> QED
    BY <1>1, <1>2, <2>1, <2>2 DEF ReadInv, Reading
<1>5. Within(r.sources)' /\ Within(r.full)'
  BY <1>1, <1>2 DEF ReadInv, Within, copy
<1>6. Due(8)' => r.full' = <<>>
  BY <1>1, <1>2, <1>3 DEF ReadInv
<1>7. /\ r.commit' \in (1..Len(commits))' /\ (r.dirty \in BOOLEAN)'
      /\ Committed(r)' /\ ~(Done(8)')
  <2>1. r.commit \in 1..Len(commits) /\ Done(5)
    BY <1>1, <1>3 DEF ReadInv
  <2>2. r.sources \in Seq(Hashes) /\ Len(r.sources) = N /\ \A s \in 1..N : r.sources[s] <= tree[s]
    BY <1>1, <2>1 DEF ReadInv, Reading, Within
  <2>3. ~Dirty => commits[Len(commits)].tree = tree
    BY DEF Dirty, Working
  <2>4. Committed(r)'
    BY <1>1, <1>2, <2>2, <2>3, Constants DEF Committed, copy
  <2>5. (r.dirty \in BOOLEAN)'
    BY <1>2 DEF Dirty
  <2> QED
    BY <1>1, <1>2, <1>3, <2>1, <2>4, <2>5 DEF copy
<1> QED
  BY <1>1, <1>2, <1>4, <1>5, <1>6, <1>7 DEF ReadInv, copy

LEMMA RegistryRead ==
  ASSUME SnapshotInv, job # "none", Outside, UNCHANGED job, JobTypes',
         r' = [r EXCEPT !["registry"] = registry], Step = 8, Step' = 9
  PROVE  /\ ReadInv' /\ r.registry' = registry
         /\ r.rows' = r.rows /\ r.lint' = r.lint /\ r.consistency' = r.consistency /\ r.db' = r.db /\ r.sources' = r.sources /\ r.commit' = r.commit /\ r.dirty' = r.dirty /\ r.full' = r.full
<1>1. UNCHANGED copy /\ ReadInv /\ CopyInv /\ JobTypes
  BY DEF Outside, SnapshotInv
<1>2. /\ r.registry' = registry /\ IsReading(r)'
      /\ r.rows' = r.rows /\ r.lint' = r.lint /\ r.consistency' = r.consistency /\ r.db' = r.db /\ r.sources' = r.sources /\ r.commit' = r.commit /\ r.dirty' = r.dirty /\ r.full' = r.full
  BY <1>1 DEF ReadInv, IsReading
<1>3. /\ \A m \in (1..9) \ {8} : (Due(m)' => Due(m)) /\ (Done(m)' => Done(m))
      /\ \A m \in (8 + 1)..9 : ~(Done(m)')
      /\ \A m \in 1..(8 - 1) : Done(m)
  BY DEF Due, Done
<1>4. /\ Reading(r.lint, LintResults, 2)' /\ Reading(r.consistency, PackResults, 3)'
      /\ Reading(r.sources, Hashes, 5)' /\ Reading(r.full, Hashes, 9)'
  <2>1. (Due(2)' => Due(2)) /\ (Done(2)' => Done(2)) /\ (Due(3)' => Due(3)) /\ (Done(3)' => Done(3))
    BY <1>3
  <2>2. (Due(5)' => Due(5)) /\ (Done(5)' => Done(5)) /\ (Due(9)' => Due(9)) /\ (Done(9)' => Done(9))
    BY <1>3
  <2> QED
    BY <1>1, <1>2, <2>1, <2>2 DEF ReadInv, Reading
<1>5. Within(r.sources)' /\ Within(r.full)'
  BY <1>1, <1>2 DEF ReadInv, Within, copy
<1>6. Due(8)' => r.full' = <<>>
  BY Constants DEF Due
<1>7. /\ r.commit' \in (1..Len(commits))' /\ (r.dirty \in BOOLEAN)'
      /\ Committed(r)' /\ Listed(r)'
  <2>1. Done(6) /\ Done(7)
    BY <1>3
  <2>2. r.commit \in 1..Len(commits) /\ r.dirty \in BOOLEAN /\ Committed(r)
    BY <1>1, <2>1 DEF ReadInv
  <2>3. Committed(r)'
    BY <1>1, <1>2, <2>2 DEF Committed, copy
  <2>4. Listed(r)'
    BY <1>1, <1>2 DEF Listed, CopyInv, Upto, copy
  <2> QED
    BY <1>1, <1>2, <2>2, <2>3, <2>4 DEF copy
<1> QED
  BY <1>1, <1>2, <1>4, <1>5, <1>6, <1>7 DEF ReadInv, copy

-----------------------------------------------------------------------------
(* The build, as a job of its own and within a validation.                 *)

LEMMA BuildGoesOn ==
  ASSUME SnapshotInv, NEW n \in 1..9, Build(n), Outside, UNCHANGED job,
         at' \in {at, at + 1}
  PROVE  /\ at' \in DOMAIN Plan[job] /\ job # "none"
         /\ Step' = IF at' = at THEN n ELSE n + 1
<1>1. PICK m : m = at'
  OBVIOUS
<1>2. CASE job = "produce"
  <2>1. at = n /\ m \in {n, n + 1} /\ Step' = m
    BY <1>1, <1>2 DEF Build, Step
  <2>2. m \in 1..10
    BY <2>1
  <2> QED
    BY <1>1, <1>2, <2>1, <2>2, Jobs
<1>3. CASE job = "validate"
  <2>1. at = n + 5 /\ m \in {n + 5, n + 6} /\ Step' = m - 5
    BY <1>1, <1>3 DEF Build, Step
  <2>2. m \in 1..18
    BY <2>1
  <2>3. m = n + 5 => Step' = n
    BY <2>1
  <2>4. m = n + 6 => Step' = n + 1
    BY <2>1
  <2> QED
    BY <1>1, <1>3, <2>1, <2>2, <2>3, <2>4, Jobs
<1> QED
  BY <1>2, <1>3 DEF Build

LEMMA BuildTypes ==
  ASSUME SnapshotInv, NEW n \in 1..9, Build(n), Outside, UNCHANGED <<job, held>>,
         at' \in {at, at + 1}
  PROVE  JobTypes'
<1>1. at' \in DOMAIN Plan[job] /\ job # "none"
  BY BuildGoesOn
<1> QED
  BY <1>1 DEF SnapshotInv, JobTypes, Outside, files

LEMMA BuildKeeps ==
  ASSUME SnapshotInv, NEW n \in 1..9, Build(n), Outside, UNCHANGED <<job, held>>,
         at' \in {at, at + 1}, ReadInv', job = "validate" => Gone' \/ Faithful'
  PROVE  SnapshotInv'
<1>1. at' \in DOMAIN Plan[job] /\ job # "none"
  BY BuildGoesOn
<1>2. ValidInv'
  <2>1. job = "validate" => at' \in 6..15
    BY DEF Build
  <2> QED
    BY <2>1 DEF ValidInv
<1>3. IssueInv' /\ ExportInv'
  BY DEF Build, IssueInv, ExportInv
<1> QED
  BY <1>1, <1>2, <1>3, StepKeeps

\* While nothing has gone, what a document hashed is what is there.
LEMMA NothingGone ==
  ASSUME r.full = <<>>, Step <= 8, ~Gone
  PROVE  /\ Len(commits) = document.commit /\ registry = document.registry
         /\ \A s \in Slugs : tree[s] = document.full[s]
<1>1. Len(r.full) = 0
  OBVIOUS
<1>2. \A s \in Slugs : ~(s <= Len(r.full))
  BY <1>1, Constants
<1> QED
  BY <1>2 DEF Gone, Strayed

\* The same of a step that reads no skill's source for its hash.
LEMMA GoneStays ==
  ASSUME SnapshotInv, NEW n \in 2..7, Build(n), job = "validate", Outside, UNCHANGED job,
         at' \in {at, at + 1}, r.full' = r.full
  PROVE  /\ Gone => Gone'
         /\ ~Gone' => /\ Len(commits) = document.commit /\ registry = document.registry
                      /\ \A s \in Slugs : tree[s] = document.full[s]
                      /\ Faithful
<1>1. Step = n /\ Step' \in {n, n + 1}
  BY BuildGoesOn DEF Build
<1>2. Step <= 8 /\ Step' <= 8 /\ Due(8) /\ Due(10)
  BY <1>1 DEF Due
<1>3. r.full = <<>> /\ (Gone \/ Faithful)
  BY <1>2 DEF SnapshotInv, ReadInv, ValidInv
<1>4. Gone => Gone'
  BY <1>2 DEF Gone, Strayed, Outside, copy, files
<1> QED
  BY <1>2, <1>3, <1>4, NothingGone

LEMMA ReadRowsKeeps ==
  ASSUME SnapshotInv, ReadRows
  PROVE  SnapshotInv'
<1>1. /\ Build(1) /\ Outside /\ r' = [Blank EXCEPT !.rows = registry] /\ at' = at + 1
      /\ UNCHANGED <<job, held>>
  BY BuildSteps DEF ReadRows, Advance, result, SnapshotInv
<1>2. JobTypes' /\ at # at'
  BY <1>1, BuildTypes DEF Build
<1>3. Step' = 2
  BY <1>1, <1>2, BuildGoesOn
<1>4. /\ ReadInv' /\ r.rows' = registry /\ r.lint' = <<>> /\ r.consistency' = <<>>
      /\ r.sources' = <<>> /\ r.full' = <<>>
  BY <1>1, <1>2, <1>3, RowsRead
<1>5. Gone' \/ Faithful'
  <2>1. SUFFICES ASSUME ~Gone'
                 PROVE  Faithful'
    OBVIOUS
  <2>2. registry' = document.registry' /\ registry' = registry
    BY <1>1, <1>3, <2>1 DEF Gone, Outside, copy
  <2>3. Len(r.lint') = 0 /\ Len(r.consistency') = 0 /\ Len(r.sources') = 0
    BY <1>4
  <2>4. ~(Done(4)') /\ ~(Done(6)') /\ ~(Done(7)')
    BY <1>3 DEF Done
  <2> QED
    BY <1>4, <2>2, <2>3, <2>4 DEF Faithful
<1> QED
  BY <1>1, <1>4, <1>5, BuildKeeps

LEMMA LintKeeps ==
  ASSUME SnapshotInv, Lint
  PROVE  SnapshotInv'
<1>1. /\ Build(2) /\ Outside /\ UNCHANGED <<job, held>> /\ at' \in {at, at + 1}
      /\ r' = [r EXCEPT !["lint"] = Append(r.lint, Lints[Len(r.lint) + 1])]
      /\ IF Len(Append(r.lint, Lints[Len(r.lint) + 1])) = N THEN at' = at + 1 ELSE at' = at
  BY BuildSteps DEF Lint, Pass, Advance, Stay, result, SnapshotInv
<1>2. /\ r.lint \in Seq(LintResults) /\ Len(r.lint) \in Nat /\ Len(r.lint) < N
      /\ Len(r.lint) + 1 \in Slugs
  <2>1. Due(2)
    BY <1>1 DEF Build, Due
  <2>2. r.lint \in Seq(LintResults) /\ Len(r.lint) < N
    BY <2>1 DEF SnapshotInv, ReadInv, Reading
  <2> QED
    BY <2>2, Constants
<1>3. Lints[Len(r.lint) + 1] = LintOf(tree[Len(r.lint) + 1])
  BY <1>2 DEF Lints
<1>4. Len(Append(r.lint, LintOf(tree[Len(r.lint) + 1]))) = Len(r.lint) + 1
  BY <1>2
<1>5. JobTypes' /\ job # "none" /\ at # at + 1
  BY <1>1, BuildTypes DEF Build
<1>6. Goes(2, Len(r.lint) + 1 = N)
  <2>1. Step = 2 /\ Step' = IF at' = at THEN 2 ELSE 2 + 1
    BY <1>1, BuildGoesOn DEF Build
  <2> QED
    BY <1>1, <1>3, <1>4, <1>5, <2>1 DEF Goes
<1>7. /\ ReadInv' /\ Len(r.lint') = Len(r.lint) + 1
      /\ \A i \in 1..Len(r.lint) : r.lint'[i] = r.lint[i]
      /\ r.lint'[Len(r.lint) + 1] = LintOf(tree[Len(r.lint) + 1])
      /\ r.full' = r.full /\ r.rows' = r.rows /\ r.db' = r.db /\ r.commit' = r.commit
      /\ r.dirty' = r.dirty
      /\ r.consistency' = r.consistency /\ r.sources' = r.sources
  BY <1>1, <1>2, <1>3, <1>5, <1>6, LintRead
<1>8. ASSUME job = "validate"
      PROVE  Gone' \/ Faithful'
  <2>1. SUFFICES ASSUME ~Gone'
                 PROVE  Faithful'
    OBVIOUS
  <2>2. (\A s \in Slugs : tree[s] = document.full[s]) /\ Faithful
    BY <1>1, <1>7, <1>8, <2>1, GoneStays
  <2>3. UNCHANGED copy /\ UNCHANGED files
    BY <1>1 DEF Outside
  <2>4. \A s \in 1..Len(r.lint') : r.lint'[s] = LintOf(document'.full[s])
    <3>1. TAKE s \in 1..Len(r.lint')
    <3>2. s \in 1..Len(r.lint) \/ s = Len(r.lint) + 1
      BY <1>2, <1>7
    <3>3. CASE s \in 1..Len(r.lint)
      BY <1>7, <2>2, <2>3, <3>3 DEF Faithful, files
    <3>4. CASE s = Len(r.lint) + 1
      BY <1>2, <1>7, <2>2, <2>3, <3>4 DEF files
    <3> QED
      BY <3>2, <3>3, <3>4
  <2>5. ~(Done(4)') /\ ~(Done(6)') /\ ~(Done(7)')
    BY <1>1, BuildGoesOn DEF Done
  <2> QED
    BY <1>1, <1>7, <2>2, <2>3, <2>4, <2>5 DEF Faithful, files
<1> QED
  BY <1>1, <1>7, <1>8, BuildKeeps

LEMMA CheckPackKeeps ==
  ASSUME SnapshotInv, CheckPack
  PROVE  SnapshotInv'
<1>1. /\ Build(3) /\ Outside /\ UNCHANGED <<job, held>> /\ at' \in {at, at + 1}
      /\ r' = [r EXCEPT !["consistency"] = Append(r.consistency, Consistencies[Len(r.consistency) + 1])]
      /\ IF Len(Append(r.consistency, Consistencies[Len(r.consistency) + 1])) = N THEN at' = at + 1 ELSE at' = at
  BY BuildSteps DEF CheckPack, Pass, Advance, Stay, result, SnapshotInv
<1>2. /\ r.consistency \in Seq(PackResults) /\ Len(r.consistency) \in Nat /\ Len(r.consistency) < N
      /\ Len(r.consistency) + 1 \in Slugs
  <2>1. Due(3)
    BY <1>1 DEF Build, Due
  <2>2. r.consistency \in Seq(PackResults) /\ Len(r.consistency) < N
    BY <2>1 DEF SnapshotInv, ReadInv, Reading
  <2> QED
    BY <2>2, Constants
<1>3. Consistencies[Len(r.consistency) + 1] = Consistencies[Len(r.consistency) + 1]
  OBVIOUS
<1>4. Len(Append(r.consistency, Consistencies[Len(r.consistency) + 1])) = Len(r.consistency) + 1
  BY <1>2
<1>5. JobTypes' /\ job # "none" /\ at # at + 1
  BY <1>1, BuildTypes DEF Build
<1>6. Goes(3, Len(r.consistency) + 1 = N)
  <2>1. Step = 3 /\ Step' = IF at' = at THEN 3 ELSE 3 + 1
    BY <1>1, BuildGoesOn DEF Build
  <2> QED
    BY <1>1, <1>3, <1>4, <1>5, <2>1 DEF Goes
<1>7. /\ ReadInv' /\ Len(r.consistency') = Len(r.consistency) + 1
      /\ \A i \in 1..Len(r.consistency) : r.consistency'[i] = r.consistency[i]
      /\ r.consistency'[Len(r.consistency) + 1] = Consistencies[Len(r.consistency) + 1]
      /\ r.full' = r.full /\ r.rows' = r.rows /\ r.db' = r.db /\ r.commit' = r.commit
      /\ r.dirty' = r.dirty
      /\ r.lint' = r.lint /\ r.sources' = r.sources
  BY <1>1, <1>2, <1>3, <1>5, <1>6, ConsistencyRead
<1>8. ASSUME job = "validate"
      PROVE  Gone' \/ Faithful'
  <2>1. SUFFICES ASSUME ~Gone'
                 PROVE  Faithful'
    OBVIOUS
  <2>2. (\A s \in Slugs : tree[s] = document.full[s]) /\ Faithful
    BY <1>1, <1>7, <1>8, <2>1, GoneStays
  <2>3. UNCHANGED copy /\ UNCHANGED files
    BY <1>1 DEF Outside
  <2>4. \A s \in 1..Len(r.consistency') : r.consistency'[s] = (document'.full[s] = Absent \/ Is(document'.full[s], "consistent"))
    <3>1. TAKE s \in 1..Len(r.consistency')
    <3>2. s \in 1..Len(r.consistency) \/ s = Len(r.consistency) + 1
      BY <1>2, <1>7
    <3>3. CASE s \in 1..Len(r.consistency)
      BY <1>7, <2>2, <2>3, <3>3 DEF Faithful, files
    <3>4. CASE s = Len(r.consistency) + 1
      BY <1>2, <1>7, <2>2, <2>3, <3>4 DEF files, Consistencies
    <3> QED
      BY <3>2, <3>3, <3>4
  <2>5. ~(Done(4)') /\ ~(Done(6)') /\ ~(Done(7)')
    BY <1>1, BuildGoesOn DEF Done
  <2> QED
    BY <1>1, <1>7, <2>2, <2>3, <2>4, <2>5 DEF Faithful, files
<1> QED
  BY <1>1, <1>7, <1>8, BuildKeeps

LEMMA LoadSourcesKeeps ==
  ASSUME SnapshotInv, LoadSources
  PROVE  SnapshotInv'
<1>1. /\ Build(5) /\ Outside /\ UNCHANGED <<job, held>> /\ at' \in {at, at + 1}
      /\ r' = [r EXCEPT !["sources"] = Append(r.sources, tree[Len(r.sources) + 1])]
      /\ IF Len(Append(r.sources, tree[Len(r.sources) + 1])) = N THEN at' = at + 1 ELSE at' = at
  BY BuildSteps DEF LoadSources, Pass, Advance, Stay, result, SnapshotInv
<1>2. /\ r.sources \in Seq(Hashes) /\ Len(r.sources) \in Nat /\ Len(r.sources) < N
      /\ Len(r.sources) + 1 \in Slugs
  <2>1. Due(5)
    BY <1>1 DEF Build, Due
  <2>2. r.sources \in Seq(Hashes) /\ Len(r.sources) < N
    BY <2>1 DEF SnapshotInv, ReadInv, Reading
  <2> QED
    BY <2>2, Constants
<1>3. tree[Len(r.sources) + 1] = tree[Len(r.sources) + 1]
  OBVIOUS
<1>4. Len(Append(r.sources, tree[Len(r.sources) + 1])) = Len(r.sources) + 1
  BY <1>2
<1>5. JobTypes' /\ job # "none" /\ at # at + 1
  BY <1>1, BuildTypes DEF Build
<1>6. Goes(5, Len(r.sources) + 1 = N)
  <2>1. Step = 5 /\ Step' = IF at' = at THEN 5 ELSE 5 + 1
    BY <1>1, BuildGoesOn DEF Build
  <2> QED
    BY <1>1, <1>3, <1>4, <1>5, <2>1 DEF Goes
<1>7. /\ ReadInv' /\ Len(r.sources') = Len(r.sources) + 1
      /\ \A i \in 1..Len(r.sources) : r.sources'[i] = r.sources[i]
      /\ r.sources'[Len(r.sources) + 1] = tree[Len(r.sources) + 1]
      /\ r.full' = r.full /\ r.rows' = r.rows /\ r.db' = r.db /\ r.commit' = r.commit
      /\ r.dirty' = r.dirty
      /\ r.lint' = r.lint /\ r.consistency' = r.consistency
  BY <1>1, <1>2, <1>3, <1>5, <1>6, SourcesRead
<1>8. ASSUME job = "validate"
      PROVE  Gone' \/ Faithful'
  <2>1. SUFFICES ASSUME ~Gone'
                 PROVE  Faithful'
    OBVIOUS
  <2>2. (\A s \in Slugs : tree[s] = document.full[s]) /\ Faithful
    BY <1>1, <1>7, <1>8, <2>1, GoneStays
  <2>3. UNCHANGED copy /\ UNCHANGED files
    BY <1>1 DEF Outside
  <2>4. \A s \in 1..Len(r.sources') : r.sources'[s] = document'.full[s]
    <3>1. TAKE s \in 1..Len(r.sources')
    <3>2. s \in 1..Len(r.sources) \/ s = Len(r.sources) + 1
      BY <1>2, <1>7
    <3>3. CASE s \in 1..Len(r.sources)
      BY <1>7, <2>2, <2>3, <3>3 DEF Faithful, files
    <3>4. CASE s = Len(r.sources) + 1
      BY <1>2, <1>7, <2>2, <2>3, <3>4 DEF files
    <3> QED
      BY <3>2, <3>3, <3>4
  <2>5. ~(Done(6)') /\ ~(Done(7)') /\ Done(4)
    BY <1>1, BuildGoesOn DEF Done, Build
  <2>6. Body(Moment(r.db))' = Body(document)' => held'
    BY <1>1, <1>7, <2>2, <2>3, <2>5 DEF Faithful, Moment, copy, files
  <2> QED
    BY <1>1, <1>7, <2>2, <2>3, <2>4, <2>5, <2>6 DEF Faithful, files
<1> QED
  BY <1>1, <1>7, <1>8, BuildKeeps

\* With nothing gone, this moment is the one of which the document is judged.
LEMMA MomentIsNow ==
  ASSUME SnapshotInv, document # NoDocument, Len(commits) = document.commit,
         registry = document.registry, \A s \in Slugs : tree[s] = document.full[s]
  PROVE  Moment(db) = Now /\ tree = document.full
<1>1. /\ tree = [s \in Slugs |-> tree[s]]
      /\ document.full = [s \in Slugs |-> document.full[s]]
  <2>1. tree \in [Slugs -> Hashes] /\ document.full \in Seq(Hashes) /\ Len(document.full) = N
    BY DEF SnapshotInv, CopyInv, DocInv, Hashes
  <2> QED
    BY <2>1, CompleteReading
<1>2. tree = document.full
  BY <1>1, SameValues
<1> QED
  BY <1>2 DEF Moment, Now, Lints, Consistencies, Dirty, Working

LEMMA ReadBundleKeeps ==
  ASSUME SnapshotInv, ReadBundle
  PROVE  SnapshotInv'
<1>1. /\ Build(4) /\ Outside /\ r' = [r EXCEPT !["db"] = db] /\ at' = at + 1
      /\ UNCHANGED <<job, held>>
  BY BuildSteps DEF ReadBundle, Read, Advance, result, SnapshotInv
<1>2. JobTypes' /\ job # "none" /\ Step = 4
  BY <1>1, BuildTypes DEF Build
<1>3. Step' = 5
  <2>1. at # at'
    BY <1>1 DEF Build
  <2> QED
    BY <1>1, <2>1, BuildGoesOn
<1>4. /\ ReadInv' /\ r.db' = db /\ r.rows' = r.rows /\ r.lint' = r.lint
      /\ r.consistency' = r.consistency /\ r.sources' = r.sources /\ r.full' = r.full
  BY <1>1, <1>2, <1>3, BundleRead
<1>5. ASSUME job = "validate"
      PROVE  Gone' \/ Faithful'
  <2>1. SUFFICES ASSUME ~Gone'
                 PROVE  Faithful'
    OBVIOUS
  <2>2. /\ Len(commits) = document.commit /\ registry = document.registry
        /\ (\A s \in Slugs : tree[s] = document.full[s]) /\ Faithful
    BY <1>1, <1>4, <1>5, <2>1, GoneStays
  <2>3. document # NoDocument
    BY <1>5 DEF SnapshotInv, JobTypes
  <2>4. Moment(db) = Now /\ tree = document.full
    BY <2>2, <2>3, MomentIsNow
  <2>5. Body(Moment(db)) = Body(document) => held
    <3>1. Now.full = tree
      BY DEF Now
    <3>2. Body(Now) = Body(document) => held
      BY <1>5, <2>4, <3>1 DEF SnapshotInv, ClaimInv, Claim
    <3> QED
      BY <2>4, <3>2
  <2>6. UNCHANGED copy /\ UNCHANGED files
    BY <1>1 DEF Outside
  <2>7. Body(Moment(r.db))' = Body(document)' => held'
    BY <1>1, <1>4, <2>5, <2>6 DEF Moment, copy, files
  <2>8. ~(Done(6)') /\ ~(Done(7)')
    BY <1>3 DEF Done
  <2> QED
    BY <1>4, <2>2, <2>6, <2>7, <2>8 DEF Faithful, files
<1> QED
  BY <1>1, <1>4, <1>5, BuildKeeps

LEMMA ReadCommitKeeps ==
  ASSUME SnapshotInv, ReadCommit
  PROVE  SnapshotInv'
<1>1. /\ Build(6) /\ Outside /\ r' = [r EXCEPT !["commit"] = Len(commits)] /\ at' = at + 1
      /\ UNCHANGED <<job, held>>
  BY BuildSteps DEF ReadCommit, Read, Advance, result, SnapshotInv
<1>2. JobTypes' /\ job # "none" /\ Step = 6
  BY <1>1, BuildTypes DEF Build
<1>3. Step' = 7
  <2>1. at # at'
    BY <1>1 DEF Build
  <2> QED
    BY <1>1, <2>1, BuildGoesOn
<1>4. /\ ReadInv' /\ r.commit' = Len(commits) /\ r.rows' = r.rows /\ r.lint' = r.lint
      /\ r.consistency' = r.consistency /\ r.db' = r.db /\ r.sources' = r.sources
      /\ r.full' = r.full
  BY <1>1, <1>2, <1>3, CommitRead
<1>5. ASSUME job = "validate"
      PROVE  Gone' \/ Faithful'
  <2>1. SUFFICES ASSUME ~Gone'
                 PROVE  Faithful'
    OBVIOUS
  <2>2. Len(commits) = document.commit /\ Faithful
    BY <1>1, <1>4, <1>5, <2>1, GoneStays
  <2>3. UNCHANGED copy /\ UNCHANGED files
    BY <1>1 DEF Outside
  <2>4. Done(4) /\ ~(Done(7)')
    BY <1>2, <1>3 DEF Done
  <2>5. Body(Moment(r.db))' = Body(document)' => held'
    BY <1>1, <1>4, <2>2, <2>3, <2>4 DEF Faithful, Moment, copy, files
  <2> QED
    BY <1>4, <2>2, <2>3, <2>4, <2>5 DEF Faithful, files
<1> QED
  BY <1>1, <1>4, <1>5, BuildKeeps

LEMMA ReadStatusKeeps ==
  ASSUME SnapshotInv, ReadStatus
  PROVE  SnapshotInv'
<1>1. /\ Build(7) /\ Outside /\ r' = [r EXCEPT !["dirty"] = Dirty] /\ at' = at + 1
      /\ UNCHANGED <<job, held>>
  BY BuildSteps DEF ReadStatus, Read, Advance, result, SnapshotInv
<1>2. JobTypes' /\ job # "none" /\ Step = 7
  BY <1>1, BuildTypes DEF Build
<1>3. Step' = 8
  <2>1. at # at'
    BY <1>1 DEF Build
  <2> QED
    BY <1>1, <2>1, BuildGoesOn
<1>4. /\ ReadInv' /\ r.dirty' = Dirty /\ r.rows' = r.rows /\ r.lint' = r.lint
      /\ r.consistency' = r.consistency /\ r.db' = r.db /\ r.sources' = r.sources
      /\ r.commit' = r.commit /\ r.full' = r.full
  BY <1>1, <1>2, <1>3, StatusRead
<1>5. ASSUME job = "validate"
      PROVE  Gone' \/ Faithful'
  <2>1. SUFFICES ASSUME ~Gone'
                 PROVE  Faithful'
    OBVIOUS
  <2>2. /\ Len(commits) = document.commit /\ registry = document.registry
        /\ (\A s \in Slugs : tree[s] = document.full[s]) /\ Faithful
    BY <1>1, <1>4, <1>5, <2>1, GoneStays
  <2>3. UNCHANGED copy /\ UNCHANGED files
    BY <1>1 DEF Outside
  <2>4. Done(4) /\ Done(6)
    BY <1>2 DEF Done
  <2>5. Body(Moment(r.db))' = Body(document)' => held'
    BY <1>1, <1>4, <2>2, <2>3, <2>4 DEF Faithful, Moment, copy, files
  <2>6. document # NoDocument
    BY <1>5 DEF SnapshotInv, JobTypes
  <2>7. Dirty = (commits[document.commit] # [tree |-> document.full,
                                             registry |-> document.registry])
    BY <2>2, <2>6, MomentIsNow DEF Dirty, Working
  <2>8. r.dirty' = Moment(r.db).dirty'
    BY <1>4, <2>3, <2>7 DEF Moment, copy, files
  <2> QED
    BY <1>4, <2>2, <2>3, <2>4, <2>5, <2>8 DEF Faithful, files
<1> QED
  BY <1>1, <1>4, <1>5, BuildKeeps

LEMMA HashRegistryKeeps ==
  ASSUME SnapshotInv, HashRegistry
  PROVE  SnapshotInv'
<1>1. /\ Build(8) /\ Outside /\ r' = [r EXCEPT !["registry"] = registry] /\ at' = at + 1
      /\ UNCHANGED <<job, held>>
  BY BuildSteps DEF HashRegistry, Read, Advance, result, SnapshotInv
<1>2. JobTypes' /\ job # "none" /\ Step = 8
  BY <1>1, BuildTypes DEF Build
<1>3. Step' = 9
  <2>1. at # at'
    BY <1>1 DEF Build
  <2> QED
    BY <1>1, <2>1, BuildGoesOn
<1>4. /\ ReadInv' /\ r.registry' = registry /\ r.rows' = r.rows /\ r.lint' = r.lint
      /\ r.consistency' = r.consistency /\ r.db' = r.db /\ r.sources' = r.sources
      /\ r.commit' = r.commit /\ r.dirty' = r.dirty /\ r.full' = r.full
  BY <1>1, <1>2, <1>3, RegistryRead
<1>5. ASSUME job = "validate"
      PROVE  Gone' \/ Faithful'
  <2>1. UNCHANGED copy /\ UNCHANGED files
    BY <1>1 DEF Outside
  <2>2. Gone => Gone'
    BY <1>2, <1>3, <1>4, <2>1 DEF Gone, Strayed, copy, files
  <2>3. Gone \/ Faithful
    BY <1>2, <1>5 DEF SnapshotInv, ValidInv, Due
  <2>4. Faithful => Faithful'
    <3>1. Done(4) /\ Done(6) /\ Done(7)
      BY <1>2 DEF Done
    <3>2. Moment(r.db)' = Moment(r.db)
      BY <1>4, <2>1 DEF Moment, copy, files
    <3> QED
      BY <1>1, <1>4, <2>1, <3>1, <3>2 DEF Faithful, files
  <2> QED
    BY <2>2, <2>3, <2>4
<1> QED
  BY <1>1, <1>4, <1>5, BuildKeeps

LEMMA HashTreeKeeps ==
  ASSUME SnapshotInv, HashTree
  PROVE  SnapshotInv'
<1>1. /\ Build(9) /\ Outside /\ UNCHANGED <<job, held>> /\ at' \in {at, at + 1}
      /\ r' = [r EXCEPT !["full"] = Append(r.full, tree[Len(r.full) + 1])]
      /\ IF Len(Append(r.full, tree[Len(r.full) + 1])) = N THEN at' = at + 1 ELSE at' = at
  BY BuildSteps DEF HashTree, Pass, Advance, Stay, result, SnapshotInv
<1>2. /\ r.full \in Seq(Hashes) /\ Len(r.full) \in Nat /\ Len(r.full) < N
  <2>1. Due(9)
    BY <1>1 DEF Build, Due
  <2> QED
    BY <2>1 DEF SnapshotInv, ReadInv, Reading
<1>3. Len(Append(r.full, tree[Len(r.full) + 1])) = Len(r.full) + 1
  BY <1>2
<1>4. JobTypes' /\ job # "none" /\ at # at + 1
  BY <1>1, BuildTypes DEF Build
<1>5. Step = 9 /\ Step' = IF at' = at THEN 9 ELSE 10
  BY <1>1, BuildGoesOn DEF Build
<1>6. Goes(9, Len(r.full) + 1 = N)
  BY <1>1, <1>3, <1>4, <1>5 DEF Goes
<1>7. /\ ReadInv' /\ Len(r.full') = Len(r.full) + 1
      /\ \A i \in 1..Len(r.full) : r.full'[i] = r.full[i]
      /\ r.full'[Len(r.full) + 1] = tree[Len(r.full) + 1]
      /\ r.rows' = r.rows /\ r.lint' = r.lint /\ r.consistency' = r.consistency
      /\ r.db' = r.db /\ r.sources' = r.sources /\ r.commit' = r.commit
      /\ r.dirty' = r.dirty /\ r.registry' = r.registry
  BY <1>1, <1>2, <1>4, <1>6, FullRead
<1>8. ASSUME job = "validate"
      PROVE  Gone' \/ Faithful'
  <2>1. UNCHANGED copy /\ UNCHANGED files
    BY <1>1 DEF Outside
  <2>2. Gone => Gone'
    <3>1. Strayed => Strayed'
      BY <1>1, <1>2, <1>7, StrayedStays
    <3> QED
      BY <1>5, <1>7, <2>1, <3>1 DEF Gone, copy, files
  <2>3. Gone \/ Faithful
    BY <1>5, <1>8 DEF SnapshotInv, ValidInv, Due
  <2>4. Faithful => Faithful'
    <3>1. Done(4) /\ Done(6) /\ Done(7)
      BY <1>5 DEF Done
    <3>2. Moment(r.db)' = Moment(r.db)
      BY <1>7, <2>1 DEF Moment, copy, files
    <3> QED
      BY <1>1, <1>7, <2>1, <3>1, <3>2 DEF Faithful, files
  <2> QED
    BY <2>2, <2>3, <2>4
<1> QED
  BY <1>1, <1>7, <1>8, BuildKeeps

\* A document is a complete reading.
LEMMA WriteKeeps ==
  ASSUME SnapshotInv, Write
  PROVE  SnapshotInv'
<1>1. Return /\ UNCHANGED <<copy, destination, beside>> /\ document' \in {r, document} /\ Step = 10
  BY BuildSteps DEF Write, SnapshotInv, Build
<1>2. /\ Done(5) /\ Done(6) /\ Done(7) /\ Done(8) /\ Done(9)
  BY <1>1 DEF Done
<1>3. DocInv'
  <2>1. CASE document' = document
    BY <1>1, <2>1 DEF SnapshotInv, DocInv, Within, Committed, Listed, copy
  <2>2. CASE document' = r
    <3>1. /\ r.sources \in Seq(Hashes) /\ Len(r.sources) = N /\ Within(r.sources)
          /\ r.full \in Seq(Hashes) /\ Len(r.full) = N /\ Within(r.full)
          /\ r.commit \in 1..Len(commits) /\ r.dirty \in BOOLEAN /\ Committed(r) /\ Listed(r)
      BY <1>2 DEF SnapshotInv, ReadInv, Reading
    <3> QED
      BY <1>1, <2>2, <3>1 DEF DocInv, Within, Committed, Listed, copy
  <2> QED
    BY <1>1, <2>1, <2>2
<1>4. Bound(destination)' /\ UNCHANGED copy
  BY <1>1 DEF SnapshotInv, Bound, copy
<1> QED
  BY <1>1, <1>3, <1>4, ReturnKeeps

-----------------------------------------------------------------------------
(* An export writes its files.                                             *)

LEMMA FilesKeep ==
  ASSUME SnapshotInv, job = "export", at \in 6..10, NEW n \in 7..11, at' = n,
         UNCHANGED <<copy, document, r, job, held>>, Bound(destination)', Bound(before)',
         n \in 7..8 => destination' = before',
         n = 9 => destination' = NoTree /\ (before' # NoTree => Backup' \in beside'),
         n = 10 => destination' = Exported(document),
         n = 11 => ReportsAreTrue'
  PROVE  SnapshotInv'
<1>1. JobTypes'
  BY Jobs DEF SnapshotInv, JobTypes
<1>2. Step' = Step
  BY DEF Step
<1>3. ReadInv'
  BY <1>1, <1>2, ReadStays
<1>4. CopyInv' /\ DocInv'
  BY DEF SnapshotInv, CopyInv, DocInv, Within, Committed, Listed, Working, copy
<1>5. ClaimInv'
  BY DEF SnapshotInv, ClaimInv, Claim, Now, Dirty, Working, Lints, Consistencies, copy
<1>6. ValidInv' /\ IssueInv'
  BY DEF ValidInv, IssueInv
<1>7. ExportInv'
  <2>1. held /\ \A s \in Slugs : document.sources[s] = commits[document.commit].tree[s]
    BY DEF SnapshotInv, ExportInv
  <2>2. \A s \in Slugs : document.sources[s] <= commits[document.commit].tree[s]
    BY DEF SnapshotInv, ExportInv
  <2>3. \A s \in 1..Len(r.sources) : commits[document.commit].tree[s] <= r.sources[s]
    BY DEF SnapshotInv, ExportInv
  <2>4. /\ document' = document /\ commits' = commits /\ r' = r /\ held' = held
    BY DEF copy
  <2>5. Exported(document)' = Exported(document)
    BY <2>4 DEF Exported, Published
  <2> QED
    BY <2>1, <2>2, <2>3, <2>4, <2>5 DEF ExportInv
<1> QED
  BY <1>1, <1>3, <1>4, <1>5, <1>6, <1>7 DEF SnapshotInv

LEMMA BoundStays ==
  ASSUME UNCHANGED copy
  PROVE  /\ Bound(NoTree)'
         /\ destination' = destination /\ Bound(destination) => Bound(destination)'
         /\ destination' = NoTree => Bound(destination)'
         /\ destination' = before /\ Bound(before) => Bound(destination)'
         /\ before' = before /\ Bound(before) => Bound(before)'
         /\ before' = destination /\ Bound(destination) => Bound(before)'
BY DEF Bound, copy

\* What is exported of a document that was checked is what its commit holds.
LEMMA ExportIsOfCommit ==
  ASSUME SnapshotInv, job = "export", at >= 4
  PROVE  Bound(Exported(document)) /\ Exported(document) # NoTree
<1>1. /\ document # NoDocument
      /\ \A s \in Slugs : document.sources[s] = commits[document.commit].tree[s]
  BY DEF SnapshotInv, JobTypes, ExportInv
<1>2. document.commit \in 1..Len(commits)
  BY <1>1 DEF SnapshotInv, DocInv
<1>3. Exported(document).commit = document.commit
  BY DEF Exported
<1>4. \A s \in Slugs : /\ Exported(document).payload[s] # Absent
                       => Exported(document).payload[s] = document.sources[s]
  BY DEF Exported, Hash
<1>5. Exported(document) # NoTree
  <2>1. NoTree.commit = 0
    BY DEF NoTree
  <2>2. document.commit # 0
    BY <1>2
  <2> QED
    BY <1>3, <2>1, <2>2
<1> QED
  BY <1>1, <1>2, <1>3, <1>4, <1>5 DEF Bound

LEMMA Kinds ==
  /\ Backup # Staged /\ Backup # Partial
  /\ Backup.kind = "backup" /\ Staged.kind = "staging" /\ Partial.kind = "partial"
BY DEF Backup, Staged, Partial

LEMMA MakeStagingKeeps ==
  ASSUME SnapshotInv, MakeStaging
  PROVE  SnapshotInv'
<1>1. Doing("export", 6)
  BY CheckSteps DEF MakeStaging, SnapshotInv
<1>2. /\ at' = 7 /\ before' = destination /\ destination' = destination
      /\ UNCHANGED <<copy, document, r, job, held>>
  BY <1>1 DEF MakeStaging, Swap, Doing
<1>3. Bound(destination)' /\ Bound(before)'
  BY <1>2, BoundStays DEF SnapshotInv
<1> QED
  BY <1>1, <1>2, <1>3, FilesKeep DEF Doing

\* An error leaves what was there before.
LEMMA FailsKeeps ==
  ASSUME SnapshotInv, Doing("export", 7) \/ Doing("export", 8) \/ Doing("export", 9), Fails,
         destination = before \/ (destination = NoTree /\ before = NoTree)
  PROVE  SnapshotInv'
<1>1. /\ at' = 11 /\ destination' = destination /\ UNCHANGED <<copy, document, r, job, held>>
      /\ before' = before /\ report' = IF before # NoTree THEN "preserved" ELSE "nothing published"
  BY Jobs DEF Fails, Swap, Report
<1>2. Bound(before)
  BY DEF SnapshotInv, ExportInv, Doing
<1>3. Bound(destination)' /\ Bound(before)'
  BY <1>1, <1>2, BoundStays DEF SnapshotInv
<1>4. ReportsAreTrue'
  <2>1. CASE before # NoTree
    BY <1>1, <2>1 DEF ReportsAreTrue
  <2>2. CASE before = NoTree
    BY <1>1, <2>2 DEF ReportsAreTrue
  <2> QED
    BY <2>1, <2>2
<1>5. job = "export" /\ at \in 6..10
  BY DEF Doing
<1>6. at' = 11 /\ UNCHANGED <<copy, document, r, job, held>>
  BY <1>1
<1> QED
  BY <1>3, <1>4, <1>5, <1>6, FilesKeep

LEMMA BuildTreeKeeps ==
  ASSUME SnapshotInv, BuildTree
  PROVE  SnapshotInv'
<1>1. Doing("export", 7)
  BY CheckSteps DEF BuildTree, SnapshotInv
<1>2. destination = before /\ Bound(before)
  BY <1>1 DEF SnapshotInv, ExportInv, Doing
<1>3. CASE Fails
  BY <1>1, <1>2, <1>3, FailsKeeps
<1>4. CASE Swap(destination, (beside \ {Partial}) \cup {Staged}) /\ Proceed
  <2>1. /\ at' = 8 /\ destination' = destination /\ before' = before
        /\ UNCHANGED <<copy, document, r, job, held>>
    BY <1>1, <1>4 DEF Swap, Proceed, Doing
  <2>2. Bound(destination)' /\ Bound(before)'
    BY <1>2, <2>1, BoundStays DEF SnapshotInv
  <2> QED
    BY <1>1, <1>2, <2>1, <2>2, FilesKeep DEF Doing
<1> QED
  BY <1>3, <1>4 DEF BuildTree

LEMMA SetAsideKeeps ==
  ASSUME SnapshotInv, SetAside
  PROVE  SnapshotInv'
<1>1. Doing("export", 8)
  BY CheckSteps DEF SetAside, SnapshotInv
<1>2. destination = before /\ Bound(before)
  BY <1>1 DEF SnapshotInv, ExportInv, Doing
<1>3. CASE Fails
  BY <1>1, <1>2, <1>3, FailsKeeps
<1>4. CASE /\ Proceed
           /\ \/ destination = NoTree /\ Swap(destination, beside)
              \/ destination # NoTree /\ Swap(NoTree, beside \cup {Backup})
  <2>1. /\ at' = 9 /\ destination' = NoTree /\ before' = before
        /\ UNCHANGED <<copy, document, r, job, held>>
    BY <1>1, <1>4 DEF Swap, Proceed, Doing
  <2>2. Bound(destination)' /\ Bound(before)'
    BY <1>2, <2>1, BoundStays
  <2>3. before' # NoTree => Backup' \in beside'
    BY <1>2, <1>4, <2>1 DEF Swap, Backup
  <2> QED
    BY <1>1, <2>1, <2>2, <2>3, FilesKeep DEF Doing
<1> QED
  BY <1>3, <1>4 DEF SetAside

LEMMA PlaceKeeps ==
  ASSUME SnapshotInv, Place
  PROVE  SnapshotInv'
<1>1. Doing("export", 9)
  BY CheckSteps DEF Place, SnapshotInv
<1>2. /\ destination = NoTree /\ Bound(before) /\ (before # NoTree => Backup \in beside)
  BY <1>1 DEF SnapshotInv, ExportInv, Doing
<1>3. CASE Swap(Exported(document), beside \ {Staged}) /\ Proceed
  <2>1. /\ at' = 10 /\ destination' = Exported(document) /\ before' = before
        /\ UNCHANGED <<copy, document, r, job, held>>
    BY <1>1, <1>3 DEF Swap, Proceed, Doing
  <2>2. Bound(Exported(document))
    BY <1>1, ExportIsOfCommit DEF Doing
  <2>3. Bound(destination)' /\ Bound(before)'
    <3>1. Bound(before)'
      BY <1>2, <2>1, BoundStays
    <3> QED
      BY <2>1, <2>2, <3>1 DEF Bound, copy
  <2> QED
    BY <1>1, <2>1, <2>3, FilesKeep DEF Doing
<1>4. CASE before = NoTree /\ Fails
  BY <1>1, <1>2, <1>4, FailsKeeps
<1>5. CASE before # NoTree /\ Swap(before, beside \ {Staged, Backup}) /\ Report("preserved")
  <2>1. /\ at' = 11 /\ destination' = before /\ before' = before /\ report' = "preserved"
        /\ UNCHANGED <<copy, document, r, job, held>>
    BY <1>5, Jobs DEF Swap, Report
  <2>2. Bound(destination)' /\ Bound(before)'
    BY <1>2, <2>1, BoundStays
  <2>3. ReportsAreTrue'
    BY <2>1 DEF ReportsAreTrue
  <2> QED
    BY <1>1, <2>1, <2>2, <2>3, FilesKeep DEF Doing
<1>6. CASE before # NoTree /\ Swap(NoTree, beside \ {Staged}) /\ Report("not restored")
  <2>1. /\ at' = 11 /\ destination' = NoTree /\ before' = before /\ report' = "not restored"
        /\ beside' = beside \ {Staged} /\ UNCHANGED <<copy, document, r, job, held>>
    BY <1>6, Jobs DEF Swap, Report
  <2>2. Bound(destination)' /\ Bound(before)'
    BY <1>2, <2>1, BoundStays
  <2>3. Backup' \in beside'
    <3>1. Backup' = Backup
      BY <2>1 DEF Backup
    <3> QED
      BY <1>2, <1>6, <2>1, <3>1, Kinds
  <2>4. ReportsAreTrue'
    <3>1. /\ ~(report \in {"done", "committed"})' /\ (report # "preserved")'
          /\ (report # "nothing published")'
      BY <2>1
    <3> QED
      BY <2>3, <3>1 DEF ReportsAreTrue
  <2>5. job = "export" /\ at \in 6..10
    BY <1>1 DEF Doing
  <2>6. at' = 11 /\ UNCHANGED <<copy, document, r, job, held>>
    BY <2>1
  <2> QED
    BY <2>2, <2>4, <2>5, <2>6, FilesKeep
<1> QED
  BY <1>3, <1>4, <1>5, <1>6 DEF Place

LEMMA CleanUpKeeps ==
  ASSUME SnapshotInv, CleanUp
  PROVE  SnapshotInv'
<1>1. Doing("export", 10)
  BY CheckSteps DEF CleanUp, SnapshotInv
<1>2. destination = Exported(document) /\ Bound(before)
  BY <1>1 DEF SnapshotInv, ExportInv, Doing
<1>3. /\ at' = 11 /\ destination' = destination /\ before' = before
      /\ report' \in {"done", "committed"} /\ UNCHANGED <<copy, document, r, job, held>>
  BY Jobs DEF CleanUp, Swap, Report
<1>4. Bound(destination)' /\ Bound(before)'
  BY <1>2, <1>3, BoundStays DEF SnapshotInv
<1>5. ReportsAreTrue'
  <2>1. Exported(document)' = Exported(document)
    BY <1>3 DEF Exported, Published
  <2> QED
    BY <1>2, <1>3, <2>1 DEF ReportsAreTrue
<1> QED
  BY <1>1, <1>3, <1>4, <1>5, FilesKeep DEF Doing

-----------------------------------------------------------------------------
(* Everyone else.                                                          *)

\* What others do to the working copy and the repository.
Grows ==
  /\ tree' \in [Slugs -> 0..MaxContent] /\ registry' \in [Slugs -> Statuses]
  /\ \A s \in Slugs : tree[s] <= tree'[s] /\ Upto(registry[s], registry'[s])
  /\ commits' \in Seq(Copies) /\ Len(commits) <= Len(commits')
  /\ \A i \in 1..Len(commits) : commits'[i] = commits[i]
  /\ \A i \in 1..Len(commits') :
       i \in 1..Len(commits) \/ commits'[i] = [tree |-> tree, registry |-> registry]

Elsewhere == UNCHANGED <<job, at, r, files, leases, before, report>>

LEMMA Trees ==
  ASSUME CopyInv, Grows
  PROVE  \A s \in Slugs : tree[s] \in Hashes /\ tree'[s] \in Hashes /\ tree[s] <= tree'[s]
<1>1. tree \in [Slugs -> Hashes]
  BY DEF CopyInv, Hashes
<1>2. tree' \in [Slugs -> Hashes]
  BY DEF Grows, Hashes
<1>3. \A s \in Slugs : tree[s] <= tree'[s]
  BY DEF Grows
<1> QED
  BY <1>1, <1>2, <1>3

LEMMA LaterCopy ==
  ASSUME CopyInv, Grows
  PROVE  CopyInv'
<1>1. commits' # <<>>
  BY DEF CopyInv, Grows
<1>2. ASSUME NEW i \in 1..Len(commits')
      PROVE  Grown(commits'[i], Working')
  <2>1. ASSUME NEW s \in Slugs
        PROVE  commits'[i].tree[s] <= tree'[s] /\ Upto(commits'[i].registry[s], registry'[s])
    <3>1. tree[s] <= tree'[s] /\ Upto(registry[s], registry'[s])
      BY DEF Grows
    <3>2. CASE i \in 1..Len(commits)
      <4>1. commits'[i] = commits[i] /\ commits[i] \in Copies
        BY <3>2 DEF Grows, CopyInv
      <4>2. commits[i].tree[s] <= tree[s] /\ Upto(commits[i].registry[s], registry[s])
        BY <3>2 DEF CopyInv, Grown, Working
      <4>3. commits[i].tree[s] \in Hashes /\ tree[s] \in Hashes /\ tree'[s] \in Hashes
        <5>1. commits[i].tree \in [Slugs -> Hashes]
          BY <4>1 DEF Copies, Hashes
        <5> QED
          BY <5>1, Trees
      <4>4. commits[i].tree[s] <= tree'[s]
        BY <3>1, <4>2, <4>3, Constants
      <4> QED
        BY <3>1, <4>1, <4>2, <4>4, UptoChains
    <3>3. CASE commits'[i] = [tree |-> tree, registry |-> registry]
      BY <3>1, <3>3
    <3> QED
      BY <3>2, <3>3 DEF Grows
  <2> QED
    BY <2>1 DEF Grown, Working
<1> QED
  BY <1>1, <1>2 DEF CopyInv, Grows

\* What is not later than the working copy stays so.
LEMMA WithinStays ==
  ASSUME CopyInv, Grows, NEW seq \in Seq(Hashes), Len(seq) <= N, Within(seq)
  PROVE  \A s \in 1..Len(seq) : seq[s] <= tree'[s]
<1>1. TAKE s \in 1..Len(seq)
<1>2. s \in Slugs /\ seq[s] <= tree[s] /\ tree[s] <= tree'[s]
  BY Constants DEF Within, Grows
<1>3. seq[s] \in Hashes /\ tree[s] \in Hashes /\ tree'[s] \in Hashes
  BY <1>2, Trees
<1> QED
  BY <1>2, <1>3, Constants

LEMMA ListedStays ==
  ASSUME Grows, NEW x, Listed(x)
  PROVE  \A s \in Slugs : Upto(x.registry[s], registry'[s])
<1>1. TAKE s \in Slugs
<1>2. Upto(x.registry[s], registry[s]) /\ Upto(registry[s], registry'[s])
  BY DEF Listed, Grows
<1> QED
  BY <1>2, UptoChains

\* A commit that is HEAD no more stays so, and what it holds stays.
LEMMA CommittedStays ==
  ASSUME CopyInv, Grows, NEW x, Committed(x), x.commit \in 1..Len(commits)
  PROVE  /\ x.commit \in 1..Len(commits') /\ commits'[x.commit] = commits[x.commit]
         /\ Len(commits) # x.commit => Len(commits') # x.commit
         /\ ~x.dirty => \/ Len(commits') # x.commit
                        \/ \A s \in Slugs : x.sources[s] <= commits'[x.commit].tree[s]
<1>1. Len(commits) \in Nat /\ Len(commits') \in Nat /\ Len(commits) <= Len(commits')
  BY DEF CopyInv, Grows
<1>2. x.commit \in 1..Len(commits') /\ (Len(commits) # x.commit => Len(commits') # x.commit)
  BY <1>1
<1>3. commits'[x.commit] = commits[x.commit]
  BY DEF Grows
<1> QED
  BY <1>2, <1>3 DEF Committed

LEMMA MoveKeepsReading ==
  ASSUME CopyInv, JobTypes, ReadInv, Grows, Elsewhere
  PROVE  ReadInv'
<1>1. r' = r /\ job' = job /\ at' = at
  BY DEF Elsewhere
<1>2. Step' = Step
  BY <1>1 DEF Step
<1>3. /\ Reading(r.lint, LintResults, 2)' /\ Reading(r.consistency, PackResults, 3)'
      /\ Reading(r.sources, Hashes, 5)' /\ Reading(r.full, Hashes, 9)'
      /\ IsReading(r)' /\ (Due(8)' => r.full' = <<>>)
  BY <1>1, <1>2 DEF ReadInv, Reading, IsReading, Due, Done
<1>4. Within(r.sources)' /\ Within(r.full)'
  BY <1>1, WithinStays DEF ReadInv, Reading, Within
<1>5. Done(6) => r.commit \in 1..Len(commits')
  <2>1. Len(commits) \in Nat /\ Len(commits') \in Nat /\ Len(commits) <= Len(commits')
    BY DEF CopyInv, Grows
  <2> QED
    BY <2>1 DEF ReadInv
<1>6. Done(7) => (r.dirty \in BOOLEAN)' /\ Committed(r)'
  <2>1. Done(7) => Done(6)
    <3>1. CASE job = "none"
      BY <3>1 DEF Done, Step
    <3>2. CASE job # "none"
      BY <3>2, AtType DEF Done
    <3> QED
      BY <3>1, <3>2
  <2>2. Done(7) => /\ r.dirty \in BOOLEAN /\ r.commit \in 1..Len(commits) /\ Committed(r)
    BY <2>1 DEF ReadInv
  <2> QED
    BY <1>1, <2>2, CommittedStays DEF Committed
<1>7. Done(8) => Listed(r)'
  BY <1>1, ListedStays DEF ReadInv, Listed
<1>8. (Done(6)' <=> Done(6)) /\ (Done(7)' <=> Done(7)) /\ (Done(8)' <=> Done(8))
  BY <1>2 DEF Done
<1> QED
  BY <1>1, <1>3, <1>4, <1>5, <1>6, <1>7, <1>8 DEF ReadInv

LEMMA MoveKeepsDocument ==
  ASSUME CopyInv, DocInv, Grows, Elsewhere
  PROVE  DocInv'
<1>1. document' = document
  BY DEF Elsewhere, files
<1>2. SUFFICES ASSUME document # NoDocument
               PROVE  DocInv'
  BY <1>1 DEF DocInv, NoDocument
<1>3. /\ document.sources \in Seq(Hashes) /\ Len(document.sources) = N /\ Within(document.sources)
      /\ document.full \in Seq(Hashes) /\ Len(document.full) = N /\ Within(document.full)
      /\ document.commit \in 1..Len(commits) /\ document.dirty \in BOOLEAN
      /\ Committed(document) /\ Listed(document)
  BY <1>2 DEF DocInv
<1>4. Within(document.sources)' /\ Within(document.full)'
  <2>1. Len(document.sources) <= N /\ Len(document.full) <= N
    BY <1>3, Constants
  <2>2. \A s \in 1..Len(document.sources) : document.sources[s] <= tree'[s]
    BY <1>3, <2>1, WithinStays
  <2>3. \A s \in 1..Len(document.full) : document.full[s] <= tree'[s]
    BY <1>3, <2>1, WithinStays
  <2> QED
    BY <1>1, <2>2, <2>3 DEF Within
<1>5. Committed(document)' /\ document.commit \in 1..Len(commits')
  BY <1>1, <1>3, CommittedStays DEF Committed
<1>6. Listed(document)'
  BY <1>1, <1>3, ListedStays DEF Listed
<1> QED
  BY <1>1, <1>3, <1>4, <1>5, <1>6 DEF DocInv

\* What has gone does not come back.
LEMMA GoneForGood ==
  ASSUME CopyInv, JobTypes, DocInv, Grows, Elsewhere, document # NoDocument
  PROVE  (Strayed => Strayed') /\ (Gone => Gone')
<1>1. r' = r /\ Step' = Step /\ document' = document
  BY DEF Elsewhere, files, Step
<1>2. /\ document.full \in Seq(Hashes) /\ Len(document.full) = N /\ Within(document.full)
      /\ document.commit \in 1..Len(commits) /\ Committed(document) /\ Listed(document)
  BY DEF DocInv
<1>3. ASSUME NEW s \in Slugs, tree[s] # document.full[s]
      PROVE  tree'[s] # document.full[s]
  <2>1. s \in 1..Len(document.full)
    BY <1>2, Constants
  <2>2. document.full[s] <= tree[s] /\ tree[s] <= tree'[s]
    BY <1>2, <2>1 DEF Within, Grows
  <2>3. document.full[s] \in Int /\ tree[s] \in Int /\ tree'[s] \in Int
    BY <1>2, <2>1, Trees, Constants
  <2> QED
    BY <1>3, <2>2, <2>3
<1>4. Strayed => Strayed'
  BY <1>1, <1>3 DEF Strayed
<1>5. registry # document.registry => registry' # document.registry
  <2>1. SUFFICES ASSUME registry' = document.registry
                 PROVE  registry = document.registry
    OBVIOUS
  <2>2. ASSUME NEW s \in Slugs
        PROVE  registry[s] = document.registry[s]
    <3>1. Upto(document.registry[s], registry[s]) /\ Upto(registry[s], registry'[s])
      BY <1>2 DEF Listed, Grows
    <3> QED
      BY <2>1, <3>1, UptoChains
  <2>3. registry \in [Slugs -> Statuses] /\ document.registry \in [Slugs -> Statuses]
    BY <1>2 DEF CopyInv, Listed
  <2> QED
    BY <2>2, <2>3
<1>6. Len(commits) # document.commit => Len(commits') # document.commit
  BY <1>2, CommittedStays
<1> QED
  BY <1>1, <1>4, <1>5, <1>6 DEF Gone

LEMMA CommitsStay ==
  ASSUME CopyInv, Grows, NEW x, Bound(x)
  PROVE  x # NoTree =>
           /\ x.commit \in 1..Len(commits')
           /\ \A s \in Slugs : x.payload[s] # Absent => x.payload[s] = commits'[x.commit].tree[s]
<1>1. Len(commits) \in Nat /\ Len(commits') \in Nat /\ Len(commits) <= Len(commits')
  BY DEF CopyInv, Grows
<1> QED
  BY <1>1 DEF Bound, Grows

LEMMA MoveKeeps ==
  ASSUME SnapshotInv, Move, Grows
  PROVE  SnapshotInv'
<1>1. /\ Elsewhere /\ job' = job /\ at' = at /\ r' = r /\ before' = before /\ report' = report
      /\ document' = document /\ destination' = destination /\ beside' = beside
      /\ CopyInv /\ JobTypes /\ ReadInv /\ DocInv
  BY DEF Move, Elsewhere, files, SnapshotInv
<1>2. PICK now : now = Now' /\ held' = (held \/ Claim(job, now))
  BY DEF Move
<1>3. held => held'
  BY <1>2
<1>4. CopyInv' /\ ReadInv' /\ DocInv'
  BY <1>1, LaterCopy, MoveKeepsReading, MoveKeepsDocument
<1>5. JobTypes'
  <2>1. held' \in BOOLEAN
    BY <1>2
  <2> QED
    BY <1>1, <2>1 DEF JobTypes
<1>6. ClaimInv'
  BY <1>1, <1>2 DEF ClaimInv, Claim
<1>7. Step' = Step
  BY <1>1 DEF Step
<1>8. document # NoDocument => /\ document.commit \in 1..Len(commits')
                               /\ commits'[document.commit] = commits[document.commit]
                               /\ (Len(commits) # document.commit =>
                                     Len(commits') # document.commit)
  <2>1. SUFFICES ASSUME document # NoDocument
                 PROVE  /\ document.commit \in 1..Len(commits')
                        /\ commits'[document.commit] = commits[document.commit]
                        /\ (Len(commits) # document.commit => Len(commits') # document.commit)
    OBVIOUS
  <2>2. Committed(document) /\ document.commit \in 1..Len(commits)
    BY <1>1, <2>1 DEF DocInv
  <2> QED
    BY <1>1, <2>2, CommittedStays
<1>9. ValidInv'
  <2>1. SUFFICES ASSUME job = "validate"
                 PROVE  ValidInv'
    BY <1>1 DEF ValidInv
  <2>2. document # NoDocument
    BY <1>1, <2>1 DEF JobTypes
  <2>3. Gone => Gone'
    BY <1>1, <2>2, GoneForGood
  <2>4. Faithful => Faithful'
    <3>1. Moment(r.db)' = Moment(r.db)
      BY <1>1, <1>8, <2>2 DEF Moment
    <3>2. (Done(4)' <=> Done(4)) /\ (Done(6)' <=> Done(6)) /\ (Done(7)' <=> Done(7))
      BY <1>7 DEF Done
    <3>3. (Body(Moment(r.db)) = Body(document))' <=> (Body(Moment(r.db)) = Body(document))
      BY <1>1, <3>1
    <3> QED
      BY <1>1, <1>3, <3>1, <3>2, <3>3 DEF Faithful
  <2>5. Due(10)' <=> Due(10)
    BY <1>7 DEF Due
  <2> QED
    BY <1>1, <1>3, <1>8, <2>1, <2>2, <2>3, <2>4, <2>5 DEF SnapshotInv, ValidInv
<1>10. IssueInv'
  <2>1. SUFFICES ASSUME job = "issue"
                 PROVE  IssueInv'
    BY <1>1 DEF IssueInv
  <2>2. document # NoDocument
    BY <1>1, <2>1 DEF JobTypes
  <2>3. (Strayed => Strayed') /\ (Gone => Gone')
    BY <1>1, <2>2, GoneForGood
  <2>4. Gone <=> Strayed \/ HeadMoved \/ registry # document.registry
    BY <2>1 DEF Gone, HeadMoved, Step
  <2>5. Gone' <=> Strayed' \/ HeadMoved' \/ registry' # document.registry
    BY <1>1, <2>1 DEF Gone, HeadMoved, Step
  <2>6. HeadMoved => HeadMoved'
    BY <1>1, <1>8, <2>2 DEF HeadMoved
  <2> QED
    BY <1>1, <1>3, <2>1, <2>3, <2>4, <2>5, <2>6 DEF SnapshotInv, IssueInv
<1>11. Bound(destination)' /\ (Bound(before) => Bound(before)')
  BY <1>1, CommitsStay DEF SnapshotInv, Bound
<1>12. ExportInv'
  <2>1. SUFFICES ASSUME job = "export"
                 PROVE  ExportInv'
    BY <1>1 DEF ExportInv
  <2>2. commits'[document.commit] = commits[document.commit]
    BY <1>1, <1>8, <2>1 DEF JobTypes
  <2>3. Exported(document)' = Exported(document)
    BY <1>1 DEF Exported, Published
  <2>4. Backup' = Backup
    BY <1>1 DEF Backup
  <2>5. ReportsAreTrue => ReportsAreTrue'
    BY <1>1, <2>3, <2>4 DEF ReportsAreTrue, At
  <2> QED
    BY <1>1, <1>3, <1>11, <2>1, <2>2, <2>3, <2>4, <2>5 DEF SnapshotInv, ExportInv
<1> QED
  BY <1>4, <1>5, <1>6, <1>9, <1>10, <1>11, <1>12 DEF SnapshotInv

\* Nothing that others do takes anything back.
LEMMA OthersKeep ==
  ASSUME SnapshotInv, Others
  PROVE  SnapshotInv'
<1>1. /\ tree \in [Slugs -> 0..MaxContent] /\ registry \in [Slugs -> Statuses]
      /\ commits \in Seq(Copies) /\ Len(commits) \in Nat
      /\ \A s \in Slugs : tree[s] \in Int /\ tree[s] <= tree[s]
      /\ \A s \in Slugs : Upto(registry[s], registry[s])
  BY Constants DEF SnapshotInv, CopyInv, Upto
<1>2. ASSUME NEW s \in Slugs, Edit(s)
      PROVE  Grows /\ Move
  <2>1. tree' \in [Slugs -> 0..MaxContent] /\ \A q \in Slugs : tree[q] <= tree'[q]
    BY <1>1, <1>2, Constants DEF Edit
  <2> QED
    BY <1>1, <1>2, <2>1 DEF Edit, Grows
<1>3. ASSUME NEW s \in Slugs, Register(s)
      PROVE  Grows /\ Move
  <2>1. PICK to \in Statuses : registry' = [registry EXCEPT ![s] = to] /\ Upto(registry[s], to)
    BY <1>3 DEF Register, Statuses, Upto
  <2>2. /\ registry' \in [Slugs -> Statuses]
        /\ \A q \in Slugs : Upto(registry[q], registry'[q])
    BY <1>1, <2>1
  <2> QED
    BY <1>1, <1>3, <2>2 DEF Register, Grows
<1>4. ASSUME Commit
      PROVE  Grows /\ Move
  <2>1. PICK new : new = [tree |-> tree, registry |-> registry]
    OBVIOUS
  <2>2. new \in Copies /\ commits' = Append(commits, new)
    BY <1>1, <1>4, <2>1 DEF Commit, Copies, Working
  <2>3. /\ commits' \in Seq(Copies) /\ Len(commits') = Len(commits) + 1
        /\ \A i \in 1..Len(commits) : commits'[i] = commits[i]
        /\ commits'[Len(commits) + 1] = new
    BY <1>1, <2>2, AppendFacts
  <2>4. \A i \in 1..Len(commits') : i \in 1..Len(commits) \/ commits'[i] = new
    BY <1>1, <2>3
  <2> QED
    BY <1>1, <1>4, <2>1, <2>3, <2>4 DEF Commit, Grows
<1>5. UNCHANGED <<tree, registry, commits>> => Grows
  BY <1>1 DEF Grows
<1>6. ASSUME NEW s, NEW k, NEW to, Decide(s, k, db.stage[s][k], to)
      PROVE  Grows /\ Move
  BY <1>5, <1>6 DEF Decide
<1>7. ASSUME NEW s, Unpublish(s) \/ Quarantine(s)
      PROVE  Grows /\ Move
  BY <1>5, <1>7 DEF Unpublish, Quarantine
<1>8. Grows /\ Move
  BY <1>2, <1>3, <1>4, <1>6, <1>7 DEF Others, Movable
<1> QED
  BY <1>8, MoveKeeps

-----------------------------------------------------------------------------
(* Every step.                                                             *)

LEMMA StartKeeps ==
  ASSUME SnapshotInv, NEW j \in DOMAIN Plan, Start(j), j # "produce" => document # NoDocument,
         j = "export" => ~document.dirty
  PROVE  SnapshotInv'
<1>1. /\ job = "none" /\ job' = j /\ at' = 1 /\ r = Blank /\ r' = r /\ UNCHANGED copy /\ UNCHANGED files
      /\ held' = Claim(j, Now)
  BY DEF Start, SnapshotInv, JobTypes
<1>2. CopyInv' /\ DocInv' /\ Bound(destination)'
  BY <1>1 DEF SnapshotInv, CopyInv, DocInv, Within, Committed, Listed, Bound, Working, copy, files
<1>3. JobTypes'
  <2>1. 1 \in DOMAIN Plan[j] /\ j # "none"
    BY Jobs
  <2>2. held' \in BOOLEAN
    BY <1>1 DEF Claim
  <2> QED
    BY <1>1, <2>1, <2>2 DEF JobTypes, files
<1>4. Step' = 1 \/ Step' = -4 \/ Step' = 0
  BY <1>1 DEF Step
<1>5. Step = 0
  BY <1>1 DEF Step
<1>6. ReadInv'
  <2>1. /\ ~(Due(2)') /\ ~(Due(3)') /\ ~(Due(5)') /\ ~(Due(8)') /\ ~(Due(9)')
        /\ ~(Done(2)') /\ ~(Done(3)') /\ ~(Done(5)') /\ ~(Done(9)')
        /\ ~(Done(6)') /\ ~(Done(7)') /\ ~(Done(8)')
    BY <1>4 DEF Due, Done
  <2>2. /\ Reading(r.lint, LintResults, 2)' /\ Reading(r.consistency, PackResults, 3)'
        /\ Reading(r.sources, Hashes, 5)' /\ Reading(r.full, Hashes, 9)'
        /\ Within(r.sources)' /\ Within(r.full)' /\ IsReading(r)'
    BY <1>1, <2>1 DEF SnapshotInv, ReadInv, Reading, Within, IsReading, copy
  <2> QED
    BY <2>1, <2>2 DEF ReadInv
<1>7. ClaimInv'
  BY <1>1 DEF ClaimInv, Claim, Now, Dirty, Working, Lints, Consistencies, copy, files
<1>8. ValidInv'
  <2>1. ~(Due(10)')
    BY <1>4 DEF Due
  <2> QED
    BY <1>1, <2>1 DEF ValidInv
<1>9. IssueInv'
  <2>1. SUFFICES ASSUME j = "issue", ~Strayed', ~HeadMoved', registry' = document'.registry
                 PROVE  held'
    BY <1>1 DEF IssueInv
  <2>2. Len(r.full) = 0
    BY <1>1, BlankFields
  <2>3. \A s \in Slugs : tree[s] = document.full[s]
    BY <1>1, <2>1, <2>2, Constants DEF Strayed, copy, files
  <2>4. tree = document.full
    <3>1. tree \in [Slugs -> Hashes] /\ document.full \in Seq(Hashes) /\ Len(document.full) = N
      BY <2>1 DEF SnapshotInv, CopyInv, DocInv, Hashes
    <3>2. /\ tree = [s \in Slugs |-> tree[s]]
          /\ document.full = [s \in Slugs |-> document.full[s]]
      BY <3>1, CompleteReading
    <3> QED
      BY <2>3, <3>2, SameValues
  <2>5. registry = document.registry /\ Len(commits) = document.commit
    BY <1>1, <2>1 DEF HeadMoved, copy, files
  <2> QED
    BY <1>1, <2>1, <2>4, <2>5 DEF Claim, Now
<1>10. ExportInv'
  <2>1. Len(r.sources') = 0
    BY <1>1, BlankFields
  <2> QED
    BY <1>1, <2>1 DEF ExportInv
<1> QED
  BY <1>2, <1>3, <1>6, <1>7, <1>8, <1>9, <1>10 DEF SnapshotInv

LEMMA InitHolds ==
  ASSUME Init
  PROVE  SnapshotInv
<1>1. PICK start \in Starts : /\ tree = start.tree /\ registry = start.registry
                              /\ commits = <<[tree |-> tree, registry |-> registry]>>
  BY DEF Init
<1>2. /\ job = "none" /\ at = 0 /\ r = Blank /\ document = NoDocument /\ held = FALSE
      /\ destination = NoTree
  BY DEF Init
<1>3. tree \in [Slugs -> 0..MaxContent] /\ registry \in [Slugs -> Statuses]
  BY <1>1, StartsAssumption
<1>4. CopyInv
  <2>1. [tree |-> tree, registry |-> registry] \in Copies
    BY <1>3 DEF Copies
  <2>2. commits \in Seq(Copies) /\ commits # <<>> /\ Len(commits) = 1
        /\ commits[1] = [tree |-> tree, registry |-> registry]
    BY <1>1, <2>1
  <2>3. \A s \in Slugs : tree[s] <= tree[s] /\ Upto(registry[s], registry[s])
    BY <1>3, Constants DEF Upto
  <2>4. Grown(commits[1], Working)
    BY <2>2, <2>3 DEF Grown, Working
  <2> QED
    BY <1>3, <2>2, <2>4 DEF CopyInv
<1>5. JobTypes
  BY <1>2 DEF JobTypes
<1>6. ReadInv
  <2>1. Step = 0
    BY <1>2 DEF Step
  <2>2. /\ ~Due(2) /\ ~Due(3) /\ ~Due(5) /\ ~Due(8) /\ ~Due(9) /\ ~Done(2) /\ ~Done(3)
        /\ ~Done(5) /\ ~Done(9) /\ ~Done(6) /\ ~Done(7) /\ ~Done(8)
    BY <2>1 DEF Due, Done
  <2>3. \A seq, values : seq = <<>> => seq \in Seq(values) /\ Len(seq) <= N /\ Len(seq) = 0
    BY Constants
  <2>4. /\ Reading(r.lint, LintResults, 2) /\ Reading(r.consistency, PackResults, 3)
        /\ Reading(r.sources, Hashes, 5) /\ Reading(r.full, Hashes, 9)
    BY <1>2, <2>2, <2>3, BlankFields DEF Reading
  <2>5. Within(r.sources) /\ Within(r.full)
    BY <1>2, BlankFields DEF Within
  <2> QED
    BY <1>2, <2>2, <2>4, <2>5, BlankFields DEF ReadInv
<1>7. DocInv /\ ClaimInv /\ ValidInv /\ IssueInv /\ ExportInv /\ Bound(destination)
  BY <1>2 DEF DocInv, ClaimInv, Claim, ValidInv, IssueInv, ExportInv, Bound
<1> QED
  BY <1>4, <1>5, <1>6, <1>7 DEF SnapshotInv

LEMMA StutterKeeps ==
  ASSUME SnapshotInv, UNCHANGED vars
  PROVE  SnapshotInv'
<1>1. /\ UNCHANGED copy /\ UNCHANGED files /\ UNCHANGED result
      /\ job' = job /\ at' = at /\ r' = r /\ held' = held /\ before' = before
      /\ report' = report /\ document' = document /\ destination' = destination
      /\ beside' = beside /\ commits' = commits /\ tree' = tree /\ registry' = registry
  BY DEF vars, copy, files, result
<1>2. Step' = Step
  BY <1>1 DEF Step
<1>3. CopyInv' /\ DocInv' /\ Bound(destination)' /\ JobTypes'
  <2>1. CopyInv'
    BY <1>1 DEF SnapshotInv, CopyInv, Working
  <2>2. DocInv'
    BY <1>1 DEF SnapshotInv, DocInv, Within, Committed, Listed
  <2>3. Bound(destination)'
    BY <1>1 DEF SnapshotInv, Bound
  <2>4. JobTypes'
    BY <1>1 DEF SnapshotInv, JobTypes
  <2> QED
    BY <2>1, <2>2, <2>3, <2>4
<1>4. ClaimInv'
  BY <1>1 DEF SnapshotInv, ClaimInv, Claim, Now, Dirty, Working, Lints, Consistencies, copy
<1>5. /\ \A n \in 2..10 : (Due(n)' <=> Due(n))
      /\ \A n \in 2..10 : (Done(n)' <=> Done(n))
  BY <1>2 DEF Due, Done
<1>6. ReadInv'
  <2>1. /\ Reading(r.lint, LintResults, 2)' /\ Reading(r.consistency, PackResults, 3)'
        /\ Reading(r.sources, Hashes, 5)' /\ Reading(r.full, Hashes, 9)'
    BY <1>1, <1>5 DEF SnapshotInv, ReadInv, Reading
  <2>2. /\ Within(r.sources)' /\ Within(r.full)' /\ IsReading(r)'
        /\ (Committed(r) => Committed(r)') /\ (Listed(r) => Listed(r)')
    BY <1>1 DEF SnapshotInv, ReadInv, Within, IsReading, Committed, Listed
  <2> QED
    BY <1>1, <1>5, <2>1, <2>2 DEF SnapshotInv, ReadInv
<1>7. Strayed' <=> Strayed
  BY <1>1 DEF Strayed
<1>8. ValidInv'
  <2>1. Moment(r.db)' = Moment(r.db)
    BY <1>1 DEF Moment
  <2>2. (Body(Moment(r.db)) = Body(document))' <=> (Body(Moment(r.db)) = Body(document))
    BY <1>1, <2>1
  <2>3. Faithful => Faithful'
    BY <1>1, <1>5, <2>1, <2>2 DEF Faithful
  <2>4. Gone => Gone'
    BY <1>1, <1>2, <1>7 DEF Gone
  <2> QED
    BY <1>1, <1>5, <2>3, <2>4 DEF SnapshotInv, ValidInv
<1>9. IssueInv'
  BY <1>1, <1>7 DEF SnapshotInv, IssueInv, HeadMoved
<1>10. ExportInv'
  <2>1. Exported(document)' = Exported(document)
    BY <1>1 DEF Exported, Published
  <2>2. Backup' = Backup /\ (Bound(before) => Bound(before)')
    BY <1>1 DEF Backup, Bound
  <2>3. ReportsAreTrue => ReportsAreTrue'
    BY <1>1, <2>1, <2>2 DEF ReportsAreTrue, At
  <2> QED
    BY <1>1, <2>1, <2>2, <2>3 DEF SnapshotInv, ExportInv
<1> QED
  BY <1>3, <1>4, <1>6, <1>8, <1>9, <1>10 DEF SnapshotInv

LEMMA NextKeeps ==
  ASSUME SnapshotInv, [Next]_vars
  PROVE  SnapshotInv'
<1>1. CASE Produce \/ Validate \/ Issue \/ Export
  BY <1>1, StartKeeps, Jobs DEF Produce, Validate, Issue, Export
<1>2. CASE Building
  BY <1>2, ReadRowsKeeps, LintKeeps, CheckPackKeeps, ReadBundleKeeps, LoadSourcesKeeps,
     ReadCommitKeeps, ReadStatusKeeps, HashRegistryKeeps, HashTreeKeeps, WriteKeeps DEF Building
<1>3. CASE Checking
  BY <1>3, SameCommitKeeps, CleanKeeps, SameRegistryKeeps, SameSourcesKeeps, SameTreeKeeps,
     CompareKeeps, LeaseKeeps, ScopeKeeps, SameHeadsKeeps, Leaving DEF Checking, Show, Issued
<1>4. CASE Exporting
  BY <1>4, MakeStagingKeeps, BuildTreeKeeps, SetAsideKeeps, PlaceKeeps, CleanUpKeeps, Leaving
  DEF Exporting, Reported
<1>5. CASE Abort
  BY <1>5, Leaving DEF Abort
<1>6. CASE Others
  BY <1>6, OthersKeep
<1>7. CASE UNCHANGED vars
  BY <1>7, StutterKeeps
<1> QED
  BY <1>1, <1>2, <1>3, <1>4, <1>5, <1>6, <1>7 DEF Next

\* The world others change, the readings of the jobs, the documents and the
\* exports are as the inductive invariant says, whatever the interleaving.
THEOREM SnapshotCorrect == Spec => []SnapshotInv
<1>1. Init => SnapshotInv
  BY InitHolds
<1>2. SnapshotInv /\ [Next]_vars => SnapshotInv'
  BY NextKeeps
<1> QED
  BY <1>1, <1>2, PTL DEF Spec

\* What the dashboard shows as verified is, with every cell, count and check in
\* it, what one reading at a single moment of the validation would have said.
THEOREM ShownIsAtomic == Spec => []VerifiedIsAtomic
<1>1. ASSUME SnapshotInv, At("shown")
      PROVE  held
  <2>1. Doing("validate", 18)
    BY <1>1, CheckSteps DEF SnapshotInv
  <2>2. job = "validate" /\ at > 16
    BY <2>1 DEF Doing
  <2> QED
    BY <1>1, <2>2 DEF SnapshotInv, ValidInv
<1> QED
  BY <1>1, SnapshotCorrect, PTL DEF VerifiedIsAtomic

\* An export holds the published heads of one moment, bound to the commit it
\* names, and is reported as what it is.
THEOREM ExportsAreSound == Spec => []ExportSound
<1>1. ASSUME SnapshotInv
      PROVE  ExportSound
  <2>1. ASSUME At("clean up")
        PROVE  held
    <3>1. Doing("export", 10)
      BY <1>1, <2>1, CheckSteps DEF SnapshotInv
    <3>2. job = "export" /\ at >= 6
      BY <3>1 DEF Doing
    <3> QED
      BY <1>1, <3>2 DEF SnapshotInv, ExportInv
  <2>2. Bound(destination)
    BY <1>1 DEF SnapshotInv
  <2>3. ASSUME At("reported")
        PROVE  ReportsAreTrue
    <3>1. Doing("export", 11)
      BY <1>1, <2>3, CheckSteps DEF SnapshotInv
    <3>2. job = "export" /\ at = 11
      BY <3>1 DEF Doing
    <3> QED
      BY <1>1, <3>2 DEF SnapshotInv, ExportInv
  <2>4. ReportsAreTrue
    BY <2>3 DEF ReportsAreTrue
  <2> QED
    BY <2>1, <2>2, <2>4 DEF ExportSound, ExportIsBound, Bound
<1> QED
  BY <1>1, SnapshotCorrect, PTL

-----------------------------------------------------------------------------
(* No step of an export loses the last complete output.                    *)

\* What is removed is a tree that was never complete.
LEMMA FailsLeaves ==
  ASSUME Fails, Complete
  PROVE  Complete'
<1>1. destination' = destination /\ beside' = beside \ {Staged, Partial}
  BY DEF Fails, Swap
<1>2. ASSUME NEW x \in beside, x.kind = "backup"
      PROVE  x \in beside'
  BY <1>1, <1>2, Kinds
<1> QED
  BY <1>1, <1>2 DEF Complete

LEMMA FilesLeave ==
  ASSUME SnapshotInv, MakeStaging \/ BuildTree \/ SetAside \/ Place \/ CleanUp, Complete
  PROVE  Complete'
<1>1. CASE Fails
  BY <1>1, FailsLeaves
<1>2. CASE MakeStaging
  BY <1>2 DEF MakeStaging, Swap, Complete
<1>3. CASE BuildTree /\ ~Fails
  <2>1. destination' = destination /\ beside' = (beside \ {Partial}) \cup {Staged}
    BY <1>3 DEF BuildTree, Swap
  <2>2. ASSUME NEW x \in beside, x.kind = "backup"
        PROVE  x \in beside'
    BY <2>1, <2>2, Kinds
  <2> QED
    BY <2>1, <2>2 DEF Complete
<1>4. CASE SetAside /\ ~Fails
  <2>1. CASE destination = NoTree /\ Swap(destination, beside)
    BY <2>1 DEF Swap, Complete
  <2>2. CASE destination # NoTree /\ Swap(NoTree, beside \cup {Backup})
    <3>1. Backup \in beside'
      BY <2>2 DEF Swap
    <3> QED
      BY <3>1, Kinds DEF Complete
  <2> QED
    BY <1>4, <2>1, <2>2 DEF SetAside
<1>5. CASE Place /\ ~Fails
  <2>1. Doing("export", 9)
    BY <1>5, CheckSteps DEF Place, SnapshotInv
  <2>2. before # NoTree => Backup \in beside
    BY <2>1 DEF SnapshotInv, ExportInv, Doing
  <2>3. CASE Swap(Exported(document), beside \ {Staged})
    <3>1. Exported(document) # NoTree
      BY <2>1, ExportIsOfCommit DEF Doing
    <3> QED
      BY <2>3, <3>1 DEF Swap, Complete, NoTree
  <2>4. CASE before # NoTree /\ Swap(before, beside \ {Staged, Backup})
    BY <2>4 DEF Swap, Complete, NoTree
  <2>5. CASE before # NoTree /\ Swap(NoTree, beside \ {Staged})
    <3>1. Backup \in beside'
      BY <2>2, <2>5, Kinds DEF Swap
    <3> QED
      BY <3>1, Kinds DEF Complete
  <2> QED
    BY <1>5, <2>3, <2>4, <2>5 DEF Place
<1>6. CASE CleanUp
  <2>1. Doing("export", 10)
    BY <1>6, CheckSteps DEF CleanUp, SnapshotInv
  <2>2. destination = Exported(document) /\ Exported(document) # NoTree
    BY <2>1, ExportIsOfCommit DEF SnapshotInv, ExportInv, Doing
  <2>3. destination' = destination
    BY <1>6 DEF CleanUp, Swap
  <2> QED
    BY <2>2, <2>3 DEF Complete, NoTree
<1> QED
  BY <1>1, <1>2, <1>3, <1>4, <1>5, <1>6

\* Only an export's steps touch its trees.
LEMMA OthersLeave ==
  ASSUME [Next]_vars, ~(MakeStaging \/ BuildTree \/ SetAside \/ Place \/ CleanUp)
  PROVE  UNCHANGED <<destination, beside>>
<1>1. CASE Produce \/ Validate \/ Issue \/ Export
  BY <1>1 DEF Produce, Validate, Issue, Export, Start, files
<1>2. CASE Building
  BY <1>2 DEF Building, ReadRows, Lint, CheckPack, ReadBundle, LoadSources, ReadCommit, ReadStatus,
     HashRegistry, HashTree, Write, Read, Pass, Outside, files
<1>3. CASE Checking
  BY <1>3 DEF Checking, SameCommit, Clean, SameRegistry, SameSources, SameTree, Compare, Show,
     Lease, Issued, Scope, SameHeads, Check, HashPass, Outside, files
<1>4. CASE Exporting \/ Abort
  BY <1>4 DEF Exporting, Reported, Abort, Outside, files
<1>5. CASE Others
  BY <1>5 DEF Others, Edit, Register, Unpublish, Quarantine, Decide, Commit, Move, files
<1>6. CASE UNCHANGED vars
  BY <1>6 DEF vars, files
<1> QED
  BY <1>1, <1>2, <1>3, <1>4, <1>5, <1>6 DEF Next

\* Once an export is complete, it or a later one is at the destination or set
\* aside next to it, whatever fails and wherever the exporter dies.
THEOREM OutputIsNeverLost == Spec => OutputSurvives
<1>1. SnapshotInv /\ [Next]_vars => (Complete => Complete')
  <2>1. SUFFICES ASSUME SnapshotInv, [Next]_vars, Complete
                 PROVE  Complete'
    OBVIOUS
  <2>2. CASE UNCHANGED <<destination, beside>>
    BY <2>1, <2>2 DEF Complete, NoTree
  <2> QED
    BY <2>1, <2>2, FilesLeave, OthersLeave
<1> QED
  BY <1>1, SnapshotCorrect, PTL DEF Spec, OutputSurvives

-----------------------------------------------------------------------------
(* Counting the skills.                                                    *)

\* There are finitely many skills, and so of every set of them.
LEMMA SlugsFinite ==
  /\ N \in Nat /\ Slugs = 1..N /\ IsFiniteSet(Slugs) /\ Cardinality(Slugs) = N
<1>1. N \in Nat /\ N # 0
  BY ScoreboardAssumption
<1>2. IsFiniteSet(1..N) /\ Cardinality(1..N) = N
  BY <1>1, FS_Interval
<1> QED
  BY <1>1, <1>2 DEF Slugs

LEMMA SubsetCount ==
  ASSUME NEW A \in SUBSET Slugs
  PROVE  IsFiniteSet(A) /\ Cardinality(A) \in 0..N
<1>1. IsFiniteSet(A) /\ Cardinality(A) <= N
  BY SlugsFinite, FS_Subset
<1>2. Cardinality(A) \in Nat
  BY <1>1, FS_CardinalityType
<1> QED
  BY <1>1, <1>2, SlugsFinite

\* A part is the whole when it has as many members, and empty when it has none.
LEMMA WholeCount ==
  ASSUME NEW A \in SUBSET Slugs, NEW B \in SUBSET A
  PROVE  /\ Cardinality(B) \in 0..Cardinality(A)
         /\ Cardinality(B) = Cardinality(A) <=> B = A
         /\ Cardinality(B) = 0 <=> B = {}
<1>1. IsFiniteSet(A) /\ IsFiniteSet(B) /\ Cardinality(A) \in Nat /\ Cardinality(B) \in Nat
  BY SubsetCount
<1>2. Cardinality(B) <= Cardinality(A) /\ (Cardinality(A) = Cardinality(B) => A = B)
  BY <1>1, FS_Subset
<1>3. Cardinality(B) = 0 <=> B = {}
  BY <1>1, FS_EmptySet
<1> QED
  BY <1>1, <1>2, <1>3

\* The classes of a partition add up to the whole.
LEMMA TotalOfClasses ==
  ASSUME NEW A \in SUBSET Slugs, NEW Q, NEW class, \A s \in A : class[s] \in Q,
         NEW tally, tally = [q \in Q |-> Cardinality({s \in A : class[s] = q})]
  PROVE  Total(tally) = Cardinality(A)
<1> DEFINE Part(q) == {s \in A : class[s] = q}
           Size(q) == Cardinality(Part(q))
           P == {x \in Q \X (1..N) : x[2] <= Size(x[1])}
           e == [q \in Q |-> CHOOSE f : f \in Bijection(1..Size(q), Part(q))]
           h == [x \in P |-> e[x[1]][x[2]]]
<1>1. ASSUME NEW q \in Q
      PROVE  Size(q) \in 0..N /\ e[q] \in Bijection(1..Size(q), Part(q))
  <2>1. Part(q) \in SUBSET Slugs
    OBVIOUS
  <2>2. IsFiniteSet(Part(q)) /\ Size(q) \in 0..N
    BY <2>1, SubsetCount
  <2>3. ExistsBijection(1..Size(q), Part(q))
    BY <2>2, FS_CardinalityType
  <2>4. \E f : f \in Bijection(1..Size(q), Part(q))
    BY <2>3 DEF ExistsBijection
  <2> QED BY <2>2, <2>4
<1>2. Total(tally) = Cardinality(P)
  <2>1. DOMAIN tally = Q /\ \A q \in Q : tally[q] = Size(q)
    OBVIOUS
  <2>2. {x \in (DOMAIN tally) \X (1..N) : x[2] <= tally[x[1]]} = P
    BY <2>1
  <2> QED BY <2>2 DEF Total
<1> HIDE DEF e, Size, Part
<1>3. ASSUME NEW q \in Q
      PROVE  /\ e[q] \in [1..Size(q) -> Part(q)]
             /\ \A i, j \in 1..Size(q) : e[q][i] = e[q][j] => i = j
             /\ \A s \in Part(q) : \E i \in 1..Size(q) : e[q][i] = s
  BY <1>1 DEF Bijection, Injection, Surjection, IsInjective
<1>4. ASSUME NEW x \in P
      PROVE  /\ x[1] \in Q /\ x[2] \in 1..Size(x[1]) /\ x = <<x[1], x[2]>>
             /\ h[x] = e[x[1]][x[2]] /\ h[x] \in A /\ class[h[x]] = x[1]
  <2>1. x[1] \in Q /\ x[2] \in 1..N /\ x[2] <= Size(x[1]) /\ x = <<x[1], x[2]>>
    OBVIOUS
  <2>2. Size(x[1]) \in 0..N
    BY <2>1, <1>1
  <2>3. x[2] \in 1..Size(x[1])
    BY <2>1, <2>2, SlugsFinite
  <2>4. e[x[1]][x[2]] \in Part(x[1])
    BY <2>1, <2>3, <1>3
  <2> QED BY <2>1, <2>3, <2>4 DEF Part
<1>5. ASSUME NEW x \in P, NEW y \in P, h[x] = h[y] PROVE x = y
  <2>1. x[1] = y[1]
    BY <1>4, <1>5
  <2>2. x[2] = y[2]
    BY <2>1, <1>3, <1>4, <1>5
  <2> QED BY <2>1, <2>2, <1>4
<1>6. ASSUME NEW s \in A PROVE \E x \in P : h[x] = s
  <2>1. PICK q \in Q : q = class[s]
    OBVIOUS
  <2>2. s \in Part(q)
    BY <2>1 DEF Part
  <2>3. PICK i \in 1..Size(q) : e[q][i] = s
    BY <2>2, <1>3
  <2>4. <<q, i>> \in P
    BY <1>1, SlugsFinite
  <2> QED BY <2>3, <2>4
<1>7. h \in [P -> A]
  BY <1>4
<1> HIDE DEF h, P
<1>8. h \in Injection(P, A)
  BY <1>5, <1>7 DEF Injection, IsInjective
<1>9. h \in Surjection(P, A)
  BY <1>6, <1>7 DEF Surjection
<1>10. Cardinality(P) = Cardinality(A)
  BY <1>8, <1>9, SubsetCount, FS_Injection
<1> QED
  BY <1>2, <1>10

-----------------------------------------------------------------------------
(* What the cells are counted into.                                        *)

\* What a document's counts are of its cells, its rows and their roles.
Tells(t, cells, active, declined, published) ==
  /\ t.total = Cardinality(active \cup declined) /\ t.active = Cardinality(active)
  /\ t.declined = Cardinality(declined) /\ t.role_count = Cardinality(Roles(active))
  /\ t.funnel = [f \in FlagNames |-> Cardinality({s \in active : f \in cells[s].flags})]
  /\ t.blocked = Cardinality({s \in active : cells[s].blockers # {}})
  /\ t.states = [q \in StateNames |-> Cardinality({s \in active : cells[s].state = q})]
  /\ t.roles = [role \in Roles(active) |->
       [active |-> Cardinality({s \in active : RoleOf[s] = role}),
        declined |-> Cardinality({s \in declined : RoleOf[s] = role}),
        published |-> Cardinality({s \in published : RoleOf[s] = role}),
        meets |-> Cardinality({s \in published : RoleOf[s] = role}) >= Expected.target]]

\* Rows that are counted by their cells add up.
LEMMA TallyConserves ==
  ASSUME NEW cells, NEW active \in SUBSET Slugs, NEW declined \in SUBSET Slugs,
         active \cap declined = {},
         NEW published, published = {s \in active : "published" \in cells[s].flags},
         \A s \in active :
           /\ cells[s].state \in StateNames
           /\ "recheck_ready" \in cells[s].flags => "reviewed" \in cells[s].flags
           /\ "approved" \in cells[s].flags <=> "published" \in cells[s].flags,
         NEW t, Tells(t, cells, active, declined, published)
  PROVE  Conservation(t)
<1>0. /\ t.total = Cardinality(active \cup declined) /\ t.active = Cardinality(active)
      /\ t.declined = Cardinality(declined)
      /\ t.funnel = [f \in FlagNames |-> Cardinality({s \in active : f \in cells[s].flags})]
      /\ t.states = [q \in StateNames |-> Cardinality({s \in active : cells[s].state = q})]
      /\ t.roles = [role \in Roles(active) |->
           [active |-> Cardinality({s \in active : RoleOf[s] = role}),
            declined |-> Cardinality({s \in declined : RoleOf[s] = role}),
            published |-> Cardinality({s \in published : RoleOf[s] = role}),
            meets |-> Cardinality({s \in published : RoleOf[s] = role}) >= Expected.target]]
  BY DEF Tells
<1> DEFINE Flagged(f) == {s \in active : f \in cells[s].flags}
<1>2. ASSUME NEW f \in FlagNames
      PROVE  t.funnel[f] = Cardinality(Flagged(f)) /\ t.funnel[f] \in 0..t.active
  <2>1. t.funnel = [g \in FlagNames |-> Cardinality({s \in active : g \in cells[s].flags})]
    BY <1>0
  <2>2. t.funnel[f] = Cardinality(Flagged(f))
    BY <2>1
  <2>3. Flagged(f) \in SUBSET active
    OBVIOUS
  <2>4. Cardinality(Flagged(f)) \in 0..Cardinality(active)
    BY <2>3, WholeCount
  <2>5. t.active = Cardinality(active)
    BY <1>0
  <2> QED BY <2>2, <2>4, <2>5
<1>3. t.total = t.active + t.declined
  <2>1. IsFiniteSet(active) /\ IsFiniteSet(declined)
        /\ Cardinality(active) \in Nat /\ Cardinality(declined) \in Nat
    BY SubsetCount
  <2>2. Cardinality(active \cap declined) = 0
    BY FS_EmptySet
  <2>3. Cardinality(active \cup declined)
          = Cardinality(active) + Cardinality(declined) - Cardinality(active \cap declined)
    BY <2>1, FS_Union, Zenon
  <2> QED BY <2>1, <2>2, <2>3, <1>0
<1>4. Total(t.states) = t.active
  <2>1. PICK class : class = [s \in active |-> cells[s].state]
    OBVIOUS
  <2>2. PICK tally : tally = t.states
    OBVIOUS
  <2>3. tally = [q \in StateNames |-> Cardinality({s \in active : cells[s].state = q})]
    BY <1>0, <2>2
  <2>4. ASSUME NEW q PROVE {s \in active : cells[s].state = q} = {s \in active : class[s] = q}
    BY <2>1
  <2>5. tally = [q \in StateNames |-> Cardinality({s \in active : class[s] = q})]
    BY <2>3, <2>4
  <2>6. \A s \in active : class[s] \in StateNames
    BY <2>1
  <2>7. Total(tally) = Cardinality(active)
    BY <2>5, <2>6, TotalOfClasses
  <2> QED BY <2>2, <2>7, <1>0
<1>6. \A s \in active : RoleOf[s] \in Roles(active)
  BY DEF Roles
<1>7. Total([role \in DOMAIN t.roles |-> t.roles[role].active]) = t.active
  <2>1. PICK tally : tally = [role \in DOMAIN t.roles |-> t.roles[role].active]
    OBVIOUS
  <2>2. PICK Q : Q = Roles(active)
    OBVIOUS
  <2>3. tally = [q \in Q |-> Cardinality({s \in active : RoleOf[s] = q})]
    BY <2>1, <2>2, <1>0
  <2>4. \A s \in active : RoleOf[s] \in Q
    BY <2>2, <1>6
  <2>5. Total(tally) = Cardinality(active)
    BY <2>3, <2>4, TotalOfClasses
  <2> QED BY <2>1, <2>5, <1>0
<1>8. Total([role \in DOMAIN t.roles |-> t.roles[role].published]) = t.funnel["published"]
  <2>1. PICK tally : tally = [role \in DOMAIN t.roles |-> t.roles[role].published]
    OBVIOUS
  <2>2. PICK Q : Q = Roles(active)
    OBVIOUS
  <2>3. PICK P \in SUBSET active : P = published
    OBVIOUS
  <2>4. tally = [q \in Q |-> Cardinality({s \in P : RoleOf[s] = q})]
    BY <2>1, <2>2, <2>3, <1>0
  <2>5. P \in SUBSET Slugs /\ \A s \in P : RoleOf[s] \in Q
    BY <2>2, <1>6
  <2>8. PICK class : class = RoleOf
    OBVIOUS
  <2>9. tally = [q \in Q |-> Cardinality({s \in P : class[s] = q})]
        /\ \A s \in P : class[s] \in Q
    BY <2>4, <2>5, <2>8
  <2>7. Total(tally) = Cardinality(P)
    BY <2>5, <2>9, TotalOfClasses
  <2>6. t.funnel["published"] = Cardinality(Flagged("published"))
    BY <1>2 DEF FlagNames
  <2> QED BY <2>1, <2>3, <2>6, <2>7
<1>9. t.funnel["reviewed"] >= t.funnel["recheck_ready"]
  <2>1. Flagged("reviewed") \in SUBSET Slugs /\ Flagged("recheck_ready") \in SUBSET Flagged("reviewed")
    OBVIOUS
  <2>2. Cardinality(Flagged("recheck_ready")) \in 0..Cardinality(Flagged("reviewed"))
    BY <2>1, WholeCount
  <2>3. Cardinality(Flagged("reviewed")) \in 0..N
    BY <2>1, SubsetCount
  <2>4. /\ t.funnel["reviewed"] = Cardinality(Flagged("reviewed"))
        /\ t.funnel["recheck_ready"] = Cardinality(Flagged("recheck_ready"))
    BY <1>2 DEF FlagNames
  <2> HIDE DEF Flagged
  <2> QED BY <2>2, <2>3, <2>4
<1>10. t.funnel["approved"] = t.funnel["published"]
  <2>1. Flagged("approved") = Flagged("published")
    OBVIOUS
  <2>2. /\ t.funnel["approved"] = Cardinality(Flagged("approved"))
        /\ t.funnel["published"] = Cardinality(Flagged("published"))
    BY <1>2 DEF FlagNames
  <2> QED BY <2>1, <2>2
<1> QED
  BY <1>2, <1>3, <1>4, <1>7, <1>8, <1>9, <1>10 DEF Conservation

-----------------------------------------------------------------------------
(* One cell.                                                               *)

\* A flag is set when what it stands for holds.
LEMMA FlagsAre ==
  ASSUME NEW x, NEW s
  PROVE  /\ "authored" \in Flags(x, s) <=> x.sources[s] # Absent
         /\ "strict_lint_pass" \in Flags(x, s) <=> x.lint[s] = "passed"
         /\ "security_pass" \in Flags(x, s) <=> Security(x, s) = "passed"
         /\ "reviewed" \in Flags(x, s) <=> Reviewed(x, s)
         /\ "recheck_ready" \in Flags(x, s) <=> ContentStatus(x, s) = "ready"
         /\ "approved" \in Flags(x, s) <=> Current(x, s)
         /\ "published" \in Flags(x, s) <=> Current(x, s)
BY DEF Flags, FlagNames

LEMMA ConcatType ==
  ASSUME NEW S, NEW a \in Seq(S), NEW b \in Seq(S)
  PROVE  /\ a \o b \in Seq(S)
         /\ b # <<>> => Head(a \o b) \in S
OBVIOUS

\* Some state's condition holds, the last one's if no other's.
LEMMA StateIs == ASSUME NEW x, NEW s PROVE State(x, s) \in StateNames
<1> DEFINE If(holds, state) == IF holds THEN <<state>> ELSE <<>>
<1>1. ASSUME NEW holds, NEW state \in StateNames PROVE If(holds, state) \in Seq(StateNames)
  OBVIOUS
<1> DEFINE prefix == If(Stale(x, s), "published_stale") \o If(Current(x, s), "published")
           \o If(s \in x.db.broken, "invalid") \o If(x.sources[s] = Absent, "missing")
           \o If(Hash(x, s) = Absent, "invalid") \o If(x.lint[s] # "passed", "lint_blocked")
           \o If(~x.consistency[s], "consistency_blocked")
           \o If(Rejected(x, s), "approval_rejected")
           \o If(Security(x, s) = "unscanned", "security_pending")
           \o If(Security(x, s) = "blocked", "security_blocked")
           \o If(~Reviewed(x, s), "review_pending")
           \o If(ContentStatus(x, s) # "ready", "review_blocked")
<1>2. State(x, s) = Head(prefix \o <<"recheck_ready">>)
  BY DEF State
<1>3. {"published_stale", "published", "invalid", "missing", "lint_blocked", "consistency_blocked",
       "approval_rejected", "security_pending", "security_blocked", "review_pending",
       "review_blocked", "recheck_ready"} \subseteq StateNames
  BY DEF StateNames
<1> HIDE DEF If
<1>4. prefix \in Seq(StateNames)
  BY <1>1, <1>3, ConcatType
<1>5. <<"recheck_ready">> \in Seq(StateNames) /\ <<"recheck_ready">> # <<>>
  BY <1>3
<1> HIDE DEF prefix
<1> QED
  BY <1>2, <1>4, <1>5, ConcatType

LEMMA CellIs ==
  ASSUME NEW x, NEW s
  PROVE  /\ x.rows[s] = "declined" => /\ Cell(x, s).status = "declined" /\ Cell(x, s).flags = {}
                                      /\ Cell(x, s).state = "declined"
         /\ x.rows[s] # "declined" =>
              /\ Cell(x, s).status = "active" /\ Cell(x, s).state = State(x, s)
              /\ Cell(x, s).flags = Flags(x, s) /\ Cell(x, s).blockers = Blockers(x, s)
              /\ Cell(x, s).content = ContentStatus(x, s)
         /\ Cell(x, s).role = RoleOf[s]
BY DEF Cell

\* Readiness presupposes a review: no cell is ready and not reviewed.
LEMMA ReadyIsReviewed ==
  ASSUME NEW x, NEW s, ContentStatus(x, s) = "ready"
  PROVE  Reviewed(x, s)
BY DEF ContentStatus, Reviewed, Settled, Judged, Secured, Stages

-----------------------------------------------------------------------------
(* The document.                                                           *)

CellsOf(x) == [s \in Rows(x, "active") \cup Rows(x, "declined") |-> Cell(x, s)]

ErrorsOf(x) == Cardinality({s \in Slugs : ~x.consistency[s]})

LEMMA BodyIs ==
  ASSUME NEW x
  PROVE  /\ Body(x).cells = CellsOf(x) /\ Body(x).counts = Counts(x, CellsOf(x))
         /\ Body(x).anomalies = Anomalies(x) /\ Body(x).errors = ErrorsOf(x)
         /\ Body(x).conserved = Conservation(Counts(x, CellsOf(x)))
         /\ Body(x).release = Release(Counts(x, CellsOf(x)), Anomalies(x), ErrorsOf(x))
         /\ Body(x).passed = Passed(Release(Counts(x, CellsOf(x)), Anomalies(x), ErrorsOf(x)))
BY DEF Body, CellsOf, ErrorsOf

LEMMA ActiveCells ==
  ASSUME NEW x, NEW s \in Rows(x, "active")
  PROVE  /\ s \in Slugs /\ CellsOf(x)[s] = Cell(x, s) /\ CellsOf(x)[s].status = "active"
         /\ CellsOf(x)[s].state = State(x, s) /\ CellsOf(x)[s].flags = Flags(x, s)
         /\ CellsOf(x)[s].blockers = Blockers(x, s)
<1>1. s \in Slugs /\ x.rows[s] # "declined"
  BY DEF Rows
<1>2. CellsOf(x)[s] = Cell(x, s)
  BY DEF CellsOf
<1> QED
  BY <1>1, <1>2, CellIs

\* The role a cell names is its row's.
LEMMA RolesOfCells ==
  ASSUME NEW x
  PROVE  \A s \in Rows(x, "active") \cup Rows(x, "declined") : CellsOf(x)[s].role = RoleOf[s]
BY CellIs DEF CellsOf

\* The validator takes the rows of the registry for what they are.
LEMMA RowsOfCells ==
  ASSUME NEW x
  PROVE  /\ DOMAIN CellsOf(x) = Rows(x, "active") \cup Rows(x, "declined")
         /\ ActiveOf(CellsOf(x)) = Rows(x, "active")
         /\ DeclinedOf(CellsOf(x)) = Rows(x, "declined")
         /\ CellsValid(CellsOf(x))
<1>1. PICK cells : cells = CellsOf(x)
  OBVIOUS
<1>2. DOMAIN cells = Rows(x, "active") \cup Rows(x, "declined")
  BY <1>1 DEF CellsOf
<1>3. ASSUME NEW s \in Rows(x, "declined")
      PROVE  cells[s].status = "declined" /\ cells[s].state = "declined" /\ cells[s].flags = {}
  <2>1. cells[s] = Cell(x, s)
    BY <1>1 DEF CellsOf
  <2>2. x.rows[s] = "declined"
    BY DEF Rows
  <2> QED BY <2>1, <2>2, CellIs
<1>4. ASSUME NEW s \in Rows(x, "active")
      PROVE  cells[s].status = "active" /\ cells[s].state \in StateNames
  BY <1>1, ActiveCells, StateIs
<1>5. ActiveOf(cells) = Rows(x, "active")
  BY <1>2, <1>3, <1>4 DEF ActiveOf
<1>6. DeclinedOf(cells) = Rows(x, "declined")
  BY <1>2, <1>3, <1>4 DEF DeclinedOf
<1>7. CellsValid(cells)
  BY <1>2, <1>3, <1>4 DEF CellsValid
<1> QED
  BY <1>1, <1>2, <1>5, <1>6, <1>7

\* Producer and validator count a role alike.
LEMMA RoleCounts ==
  ASSUME NEW x, NEW role
  PROVE  RecountRole(CellsOf(x), role) = RoleRow(x, CellsOf(x), role)
<1>1. PICK cells : cells = CellsOf(x)
  OBVIOUS
<1>2. /\ ActiveOf(cells) = Rows(x, "active") /\ DeclinedOf(cells) = Rows(x, "declined")
  BY <1>1, RowsOfCells
<1>3. {s \in Rows(x, "declined") : cells[s].role = role}
        = {s \in Rows(x, "declined") : RoleOf[s] = role}
  <2>1. \A s \in Rows(x, "declined") : cells[s].role = RoleOf[s]
    BY <1>1, RolesOfCells
  <2> QED BY <2>1
<1>4. PICK declined : declined = Rows(x, "declined")
  OBVIOUS
<1>5. PICK active : active = Rows(x, "active")
  OBVIOUS
<1>6. PICK credit : credit = Cardinality({s \in {s \in active : cells[s].role = role} :
                                            "published" \in cells[s].flags})
  OBVIOUS
<1>7. RecountRole(cells, role) =
        [active |-> Cardinality({s \in active : cells[s].role = role}),
         declined |-> Cardinality({s \in declined : cells[s].role = role}),
         published |-> credit, meets |-> credit >= Expected.target]
  BY <1>2, <1>4, <1>5, <1>6, Zenon DEF RecountRole
<1>8. RoleRow(x, cells, role) =
        [active |-> Cardinality({s \in active : cells[s].role = role}),
         declined |-> Cardinality({s \in declined : RoleOf[s] = role}),
         published |-> credit, meets |-> credit >= Expected.target]
  BY <1>4, <1>5, <1>6, Zenon DEF RoleRow
<1> QED
  BY <1>1, <1>3, <1>4, <1>7, <1>8, Zenon

\* The validator finds what the producer counted.
LEMMA CountsAgree ==
  ASSUME NEW x
  PROVE  Recount(CellsOf(x)) = Counts(x, CellsOf(x))
<1>1. PICK cells : cells = CellsOf(x)
  OBVIOUS
<1>2. PICK active : active = Rows(x, "active")
  OBVIOUS
<1>3. PICK declined : declined = Rows(x, "declined")
  OBVIOUS
<1>4. DOMAIN cells = active \cup declined /\ ActiveOf(cells) = active /\ DeclinedOf(cells) = declined
  BY <1>1, <1>2, <1>3, RowsOfCells
<1>5. {cells[s].role : s \in active} = Roles(active)
  <2>1. \A s \in active : cells[s].role = RoleOf[s]
    BY <1>1, <1>2, RolesOfCells
  <2> QED BY <2>1 DEF Roles
<1>6. [role \in Roles(active) |-> RecountRole(cells, role)]
        = [role \in Roles(active) |-> RoleRow(x, cells, role)]
  <2>1. \A role : RecountRole(cells, role) = RoleRow(x, cells, role)
    BY <1>1, RoleCounts
  <2> QED BY <2>1
<1>7. PICK funnel, blocked, sources, states :
        /\ funnel = [f \in FlagNames |-> Cardinality({s \in active : f \in cells[s].flags})]
        /\ blocked = Cardinality({s \in active : cells[s].blockers # {}})
        /\ sources = [q \in BlockerSources |->
                        Cardinality({s \in active : \E b \in cells[s].blockers : b[1] = q})]
        /\ states = [q \in StateNames |-> Cardinality({s \in active : cells[s].state = q})]
  OBVIOUS
<1>8. PICK roles : roles = Roles(active)
  OBVIOUS
<1>9. Recount(cells) =
        [total |-> Cardinality(active \cup declined), active |-> Cardinality(active),
         declined |-> Cardinality(declined), role_count |-> Cardinality(roles),
         funnel |-> funnel, blocked |-> blocked, by_source |-> sources, states |-> states,
         roles |-> [role \in roles |-> RecountRole(cells, role)]]
  BY <1>4, <1>5, <1>7, <1>8, Zenon DEF Recount
<1>10. Counts(x, cells) =
        [total |-> Cardinality(active \cup declined), active |-> Cardinality(active),
         declined |-> Cardinality(declined), role_count |-> Cardinality(roles),
         funnel |-> funnel, blocked |-> blocked, by_source |-> sources, states |-> states,
         roles |-> [role \in roles |-> RoleRow(x, cells, role)]]
  BY <1>2, <1>3, <1>7, <1>8, Zenon DEF Counts
<1> QED
  BY <1>1, <1>6, <1>8, <1>9, <1>10, Zenon

\* The producer's counts, in terms of the rows.
LEMMA CountsAre ==
  ASSUME NEW x, NEW cells, cells = CellsOf(x), NEW active, active = Rows(x, "active"),
         NEW declined, declined = Rows(x, "declined"),
         NEW published, published = {s \in active : "published" \in cells[s].flags},
         NEW c, c = Counts(x, cells)
  PROVE  Tells(c, cells, active, declined, published)
<1>1. ASSUME NEW role
      PROVE  RoleRow(x, cells, role) =
               [active |-> Cardinality({s \in active : RoleOf[s] = role}),
                declined |-> Cardinality({s \in declined : RoleOf[s] = role}),
                published |-> Cardinality({s \in published : RoleOf[s] = role}),
                meets |-> Cardinality({s \in published : RoleOf[s] = role}) >= Expected.target]
  <2>1. PICK mine : mine = {s \in active : cells[s].role = role}
    OBVIOUS
  <2>2. mine = {s \in active : RoleOf[s] = role}
    <3>1. \A s \in active : cells[s].role = RoleOf[s]
      BY RolesOfCells
    <3> QED BY <2>1, <3>1
  <2>3. {s \in mine : "published" \in cells[s].flags} = {s \in published : RoleOf[s] = role}
    BY <2>2
  <2>4. PICK credit : credit = Cardinality({s \in mine : "published" \in cells[s].flags})
    OBVIOUS
  <2>5. RoleRow(x, cells, role) =
          [active |-> Cardinality(mine),
           declined |-> Cardinality({s \in declined : RoleOf[s] = role}),
           published |-> credit, meets |-> credit >= Expected.target]
    BY <2>1, <2>4, Zenon DEF RoleRow
  <2>6. credit = Cardinality({s \in published : RoleOf[s] = role})
    BY <2>3, <2>4, Zenon
  <2> QED BY <2>2, <2>5, <2>6, Zenon
<1>2. PICK rows : rows = [role \in Roles(active) |-> RoleRow(x, cells, role)]
  OBVIOUS
<1>3. rows = [role \in Roles(active) |->
         [active |-> Cardinality({s \in active : RoleOf[s] = role}),
          declined |-> Cardinality({s \in declined : RoleOf[s] = role}),
          published |-> Cardinality({s \in published : RoleOf[s] = role}),
          meets |-> Cardinality({s \in published : RoleOf[s] = role}) >= Expected.target]]
  BY <1>1, <1>2, Zenon
<1>4. /\ c.total = Cardinality(active \cup declined) /\ c.active = Cardinality(active)
      /\ c.declined = Cardinality(declined) /\ c.role_count = Cardinality(Roles(active))
      /\ c.funnel = [f \in FlagNames |-> Cardinality({s \in active : f \in cells[s].flags})]
      /\ c.blocked = Cardinality({s \in active : cells[s].blockers # {}})
      /\ c.states = [q \in StateNames |-> Cardinality({s \in active : cells[s].state = q})]
      /\ c.roles = rows
  BY <1>2 DEF Counts
<1> QED
  BY <1>3, <1>4, Zenon DEF Tells

\* The producer's counts add up, whatever the cells were read from.
LEMMA CountsConserve ==
  ASSUME NEW x
  PROVE  Conservation(Counts(x, CellsOf(x)))
<1>1. PICK cells : cells = CellsOf(x)
  OBVIOUS
<1>2. PICK active \in SUBSET Slugs : active = Rows(x, "active")
  BY DEF Rows
<1>3. PICK declined \in SUBSET Slugs : declined = Rows(x, "declined")
  BY DEF Rows
<1>4. active \cap declined = {}
  BY <1>2, <1>3 DEF Rows
<1>5. PICK published : published = {s \in active : "published" \in cells[s].flags}
  OBVIOUS
<1>6. ASSUME NEW s \in active
      PROVE  /\ cells[s].state \in StateNames
             /\ "recheck_ready" \in cells[s].flags => "reviewed" \in cells[s].flags
             /\ "approved" \in cells[s].flags <=> "published" \in cells[s].flags
  <2>1. cells[s].state = State(x, s) /\ cells[s].flags = Flags(x, s)
    BY <1>1, <1>2, ActiveCells
  <2> QED BY <2>1, StateIs, FlagsAre, ReadyIsReviewed
<1>7. PICK c : c = Counts(x, cells)
  OBVIOUS
<1>8. Tells(c, cells, active, declined, published)
  BY <1>1, <1>2, <1>3, <1>5, <1>7, CountsAre
<1>9. Conservation(c)
  BY <1>4, <1>5, <1>6, <1>8, TallyConserves
<1> QED
  BY <1>1, <1>7, <1>9

\* The validator asks the same sums of the document that the producer took.
LEMMA SumsAgree ==
  ASSUME NEW d, Conservation(d.counts)
  PROVE  ExpectedConservation(d, d.counts.states)
<1>1. PICK c : c = d.counts
  OBVIOUS
<1>2. /\ c.total = c.active + c.declined
      /\ Total(c.states) = c.active
      /\ Total([role \in DOMAIN c.roles |-> c.roles[role].active]) = c.active
      /\ Total([role \in DOMAIN c.roles |-> c.roles[role].published]) = c.funnel["published"]
      /\ c.funnel["reviewed"] >= c.funnel["recheck_ready"]
      /\ c.funnel["approved"] = c.funnel["published"]
      /\ \A f \in FlagNames : c.funnel[f] \in 0..c.active
  BY <1>1 DEF Conservation
<1>3. c.funnel["recheck_ready"] <= c.funnel["reviewed"]
  <2>1. {"reviewed", "recheck_ready"} \subseteq FlagNames
    BY DEF FlagNames
  <2> QED BY <1>2, <2>1
<1>4. \A f \in FlagNames : 0 <= c.funnel[f] /\ c.funnel[f] <= c.active
  BY <1>2
<1> QED
  BY <1>1, <1>2, <1>3, <1>4 DEF ExpectedConservation

\* The release that the validator works out is the one the producer wrote.
LEMMA ReleasesAgree ==
  ASSUME NEW d, d.conserved, Conservation(d.counts)
  PROVE  ReleaseExpected(d) = Release(d.counts, d.anomalies, d.errors)
<1> DEFINE WholeFunnel ==
        {<<"ALL_AUTHORED", "authored">>, <<"ALL_STRICT_LINT", "strict_lint_pass">>,
         <<"ALL_REVIEWED", "reviewed">>, <<"ALL_RECHECK_READY", "recheck_ready">>,
         <<"ALL_APPROVED", "approved">>, <<"ALL_PUBLISHED", "published">>}
    Six(funnel, active) ==
        {<<"ALL_AUTHORED", funnel["authored"], active>>,
         <<"ALL_STRICT_LINT", funnel["strict_lint_pass"], active>>,
         <<"ALL_REVIEWED", funnel["reviewed"], active>>,
         <<"ALL_RECHECK_READY", funnel["recheck_ready"], active>>,
         <<"ALL_APPROVED", funnel["approved"], active>>,
         <<"ALL_PUBLISHED", funnel["published"], active>>}
    Eight(c, anomalies, errors, whole) ==
        {<<"REGISTRY_ACTIVE", c.active, Expected.active>>,
         <<"REGISTRY_DECLINED", c.declined, Expected.declined>>,
         <<"REGISTRY_ROLES", c.role_count, Expected.roles>>,
         <<"ALL_ROLES_TARGET", Cardinality({role \in DOMAIN c.roles : c.roles[role].meets}),
           c.role_count>>,
         <<"CONSISTENCY_ERRORS", errors, 0>>, <<"BLOCKERS", c.blocked, 0>>,
         <<"ANOMALIES", Cardinality(anomalies), 0>>,
         <<"CONSERVATION", IF whole THEN 1 ELSE 0, 1>>}
<1>1. ASSUME NEW funnel, NEW active
      PROVE  {<<w[1], funnel[w[2]], active>> : w \in WholeFunnel} = Six(funnel, active)
  OBVIOUS
<1>2. ReleaseExpected(d) =
        {<<w[1], d.counts.funnel[w[2]], d.counts.active>> : w \in WholeFunnel} \cup
        Eight(d.counts, d.anomalies, d.errors, d.conserved)
  BY Zenon DEF ReleaseExpected
<1>3. PICK funnel, active : funnel = d.counts.funnel /\ active = d.counts.active
  OBVIOUS
<1>4. {<<w[1], d.counts.funnel[w[2]], d.counts.active>> : w \in WholeFunnel}
        = Six(d.counts.funnel, d.counts.active)
  <2> HIDE DEF WholeFunnel, Six
  <2>1. \A f, n : {<<w[1], f[w[2]], n>> : w \in WholeFunnel} = Six(f, n)
    BY <1>1
  <2> QED BY <2>1, Zenon
<1>5. Eight(d.counts, d.anomalies, d.errors, d.conserved)
        = Eight(d.counts, d.anomalies, d.errors, Conservation(d.counts))
  <2>1. (IF d.conserved THEN 1 ELSE 0) = (IF Conservation(d.counts) THEN 1 ELSE 0)
    OBVIOUS
  <2> QED BY <2>1, Zenon
<1>6. Release(d.counts, d.anomalies, d.errors)
        = Six(d.counts.funnel, d.counts.active) \cup
          Eight(d.counts, d.anomalies, d.errors, Conservation(d.counts))
  <2>1. \A a, b, e, f, g, h, i, j, k, l, m, n, o, p :
          {a, b, e, f, g, h} \cup {i, j, k, l, m, n, o, p}
            = {i, j, k, a, b, e, f, g, h, l, m, n, o, p}
    OBVIOUS
  <2> QED BY <2>1, Zenon DEF Release
<1> HIDE DEF WholeFunnel, Six, Eight
<1> QED
  BY <1>2, <1>4, <1>5, <1>6, Zenon

\* Whatever was read when, the document is accepted and adds up.
LEMMA AnyReadingConserves ==
  ASSUME NEW x
  PROVE  Accepts(Body(x)) /\ Body(x).conserved
<1>1. PICK d : d = Body(x)
  OBVIOUS
<1>2. PICK counts : counts = Counts(x, CellsOf(x))
  OBVIOUS
<1>3. /\ d.cells = CellsOf(x) /\ d.counts = counts /\ d.anomalies = Anomalies(x)
      /\ d.errors = ErrorsOf(x) /\ d.conserved = Conservation(counts)
      /\ d.release = Release(counts, d.anomalies, d.errors)
      /\ d.passed = Passed(d.release)
  BY <1>1, <1>2, BodyIs
<1>4. Conservation(counts)
  BY <1>2, CountsConserve
<1>5. d.conserved = TRUE /\ d.conserved
  BY <1>3, <1>4
<1>6. Recount(d.cells) = counts /\ CellsValid(d.cells)
  BY <1>2, <1>3, CountsAgree, RowsOfCells
<1>7. ExpectedConservation(d, counts.states)
  BY <1>3, <1>4, SumsAgree
<1>8. d.conserved = ExpectedConservation(d, counts.states)
  BY <1>5, <1>7
<1>9. d.release = ReleaseExpected(d)
  <2>1. Release(d.counts, d.anomalies, d.errors) = d.release
    BY <1>3
  <2> QED BY <1>3, <1>4, <1>5, <2>1, ReleasesAgree
<1>10. d.passed = (\A check \in ReleaseExpected(d) : check[2] = check[3])
  BY <1>3, <1>9, Zenon DEF Passed
<1>11. Accepts(d)
  BY <1>3, <1>6, <1>8, <1>9, <1>10, Zenon DEF Accepts
<1> QED
  BY <1>1, <1>5, <1>11

-----------------------------------------------------------------------------
(* The release gate.                                                       *)

\* There are finitely many kinds of anomalies and skills to have them.
LEMMA AnomalyCount ==
  ASSUME NEW x, x.db.broken \subseteq Slugs
  PROVE  Cardinality(Anomalies(x)) = 0 <=> Anomalies(x) = {}
<1> DEFINE Sorts == {"facet_drift", "unregistered_authored", "unregistered_publications",
                     "declined_publications", "stale_source_hashes", "stale_approval_hashes",
                     "stale_review_hashes", "post_approval_blockers", "projection_drift"}
<1>1. IsFiniteSet(Sorts)
  <2>1. \A a, b, c, d, e, f, g, h, i : IsFiniteSet({a, b, c, d, e, f, g, h, i})
    <3>1. TAKE a, b, c, d, e, f, g, h, i
    <3>2. IsFiniteSet({a})
      BY FS_Singleton
    <3>3. IsFiniteSet({a} \cup {b} \cup {c} \cup {d} \cup {e})
      BY <3>2, FS_AddElement
    <3>4. IsFiniteSet({a} \cup {b} \cup {c} \cup {d} \cup {e} \cup {f} \cup {g} \cup {h} \cup {i})
      BY <3>3, FS_AddElement
    <3>5. {a} \cup {b} \cup {c} \cup {d} \cup {e} \cup {f} \cup {g} \cup {h} \cup {i}
            = {a, b, c, d, e, f, g, h, i}
      OBVIOUS
    <3> QED BY <3>4, <3>5
  <2> QED BY <2>1
<1>2. Anomalies(x) \subseteq Sorts \X Slugs
  BY DEF Anomalies, Rows
<1> HIDE DEF Sorts
<1>3. IsFiniteSet(Sorts \X Slugs)
  BY <1>1, SlugsFinite, FS_Product
<1>4. IsFiniteSet(Anomalies(x))
  BY <1>2, <1>3, FS_Subset
<1> QED
  BY <1>4, FS_EmptySet

\* The checks of a gate, one by one.
LEMMA PassedMeans ==
  ASSUME NEW c, NEW anomalies, NEW errors
  PROVE  Passed(Release(c, anomalies, errors)) <=>
           /\ c.active = Expected.active /\ c.declined = Expected.declined
           /\ c.role_count = Expected.roles
           /\ c.funnel["authored"] = c.active /\ c.funnel["strict_lint_pass"] = c.active
           /\ c.funnel["reviewed"] = c.active /\ c.funnel["recheck_ready"] = c.active
           /\ c.funnel["approved"] = c.active /\ c.funnel["published"] = c.active
           /\ Cardinality({role \in DOMAIN c.roles : c.roles[role].meets})
                = c.role_count
           /\ errors = 0 /\ c.blocked = 0 /\ Cardinality(anomalies) = 0
           /\ Conservation(c)
BY DEF Passed, Release

LEMMA RolesFinite ==
  ASSUME NEW A \in SUBSET Slugs
  PROVE  IsFiniteSet(Roles(A))
<1>1. PICK f : f = [s \in A |-> RoleOf[s]]
  OBVIOUS
<1>2. f \in Surjection(A, Roles(A))
  BY <1>1 DEF Surjection, Roles
<1> QED
  BY <1>2, SubsetCount, FS_Surjection

\* Every role reaches its target when as many do as there are.
LEMMA RolesMeet ==
  ASSUME NEW Q, IsFiniteSet(Q), NEW M \in SUBSET Q
  PROVE  Cardinality(M) = Cardinality(Q) <=> M = Q
BY FS_Subset

\* What the gate's checks of numbers come to for the cells themselves.
AllReady(x) ==
  LET active == Rows(x, "active")
  IN  /\ Cardinality(active) = Expected.active
      /\ Cardinality(Rows(x, "declined")) = Expected.declined
      /\ Cardinality(Roles(active)) = Expected.roles
      /\ \A s \in active : /\ x.sources[s] # Absent /\ x.lint[s] = "passed"
                           /\ ContentStatus(x, s) = "ready"
                           /\ Current(x, s) /\ Blockers(x, s) = {}
      /\ \A role \in Roles(active) :
           Cardinality({s \in active : RoleOf[s] = role}) >= Expected.target
      /\ \A s \in Slugs : x.consistency[s]
      /\ Anomalies(x) = {}

\* Sums that agree mean that every cell agrees.
LEMMA GateMeans ==
  ASSUME NEW x, x.db.broken \subseteq Slugs
  PROVE  Passed(Body(x).release) <=> AllReady(x)
<1>1. PICK cells : cells = CellsOf(x)
  OBVIOUS
<1>2. PICK active \in SUBSET Slugs : active = Rows(x, "active")
  BY DEF Rows
<1>3. PICK declined \in SUBSET Slugs : declined = Rows(x, "declined")
  BY DEF Rows
<1>4. PICK published \in SUBSET active : published = {s \in active : "published" \in cells[s].flags}
  OBVIOUS
<1>5. PICK c : c = Counts(x, CellsOf(x))
  OBVIOUS
<1>6. Tells(c, cells, active, declined, published)
  BY <1>1, <1>2, <1>3, <1>4, <1>5, CountsAre
<1>7. /\ c.active = Cardinality(active) /\ c.declined = Cardinality(declined)
      /\ c.role_count = Cardinality(Roles(active))
      /\ c.funnel = [f \in FlagNames |-> Cardinality({s \in active : f \in cells[s].flags})]
      /\ c.blocked = Cardinality({s \in active : cells[s].blockers # {}})
      /\ c.roles = [role \in Roles(active) |->
           [active |-> Cardinality({s \in active : RoleOf[s] = role}),
            declined |-> Cardinality({s \in declined : RoleOf[s] = role}),
            published |-> Cardinality({s \in published : RoleOf[s] = role}),
            meets |-> Cardinality({s \in published : RoleOf[s] = role}) >= Expected.target]]
  BY <1>6 DEF Tells
<1>8. ASSUME NEW f \in FlagNames
      PROVE  c.funnel[f] = c.active <=> \A s \in active : f \in Flags(x, s)
  <2>1. PICK F \in SUBSET active : F = {s \in active : f \in cells[s].flags}
    OBVIOUS
  <2>2. c.funnel[f] = Cardinality(F)
    BY <1>7, <2>1
  <2>3. Cardinality(F) = Cardinality(active) <=> F = active
    BY WholeCount
  <2>4. \A s \in active : cells[s].flags = Flags(x, s)
    BY <1>1, <1>2, ActiveCells
  <2> QED BY <1>7, <2>1, <2>2, <2>3, <2>4
<1>9. c.blocked = 0 <=> \A s \in active : Blockers(x, s) = {}
  <2>1. PICK B \in SUBSET active : B = {s \in active : cells[s].blockers # {}}
    OBVIOUS
  <2>2. Cardinality(B) = 0 <=> B = {}
    BY WholeCount
  <2>3. \A s \in active : cells[s].blockers = Blockers(x, s)
    BY <1>1, <1>2, ActiveCells
  <2> QED BY <1>7, <2>1, <2>2, <2>3
<1>10. ErrorsOf(x) = 0 <=> \A s \in Slugs : x.consistency[s]
  <2>1. PICK E \in SUBSET Slugs : E = {s \in Slugs : ~x.consistency[s]}
    OBVIOUS
  <2>2. Cardinality(E) = 0 <=> E = {}
    BY WholeCount
  <2> QED BY <2>1, <2>2 DEF ErrorsOf
<1>11. DOMAIN c.roles = Roles(active)
  BY <1>7
<1>12. Cardinality({role \in DOMAIN c.roles : c.roles[role].meets}) = c.role_count
         <=> \A role \in Roles(active) :
               Cardinality({s \in published : RoleOf[s] = role}) >= Expected.target
  <2>1. PICK Q : Q = Roles(active)
    OBVIOUS
  <2>2. PICK M \in SUBSET Q : M = {role \in Q : c.roles[role].meets}
    OBVIOUS
  <2>3. Cardinality(M) = Cardinality(Q) <=> M = Q
    BY <2>1, RolesFinite, RolesMeet
  <2>4. \A role \in Q : c.roles[role].meets
                         <=> Cardinality({s \in published : RoleOf[s] = role}) >= Expected.target
    <3>1. SUFFICES ASSUME NEW role \in Q
                   PROVE  c.roles[role].meets
                            <=> Cardinality({s \in published : RoleOf[s] = role}) >= Expected.target
      OBVIOUS
    <3>2. c.roles[role] =
            [active |-> Cardinality({s \in active : RoleOf[s] = role}),
             declined |-> Cardinality({s \in declined : RoleOf[s] = role}),
             published |-> Cardinality({s \in published : RoleOf[s] = role}),
             meets |-> Cardinality({s \in published : RoleOf[s] = role}) >= Expected.target]
      BY <1>7, <2>1
    <3>3. PICK a, b, p :
            /\ a = Cardinality({s \in active : RoleOf[s] = role})
            /\ b = Cardinality({s \in declined : RoleOf[s] = role})
            /\ p = (Cardinality({s \in published : RoleOf[s] = role}) >= Expected.target)
      OBVIOUS
    <3>4. PICK credit : credit = c.roles[role]
      OBVIOUS
    <3>5. credit = [active |-> a, declined |-> b,
                    published |-> Cardinality({s \in published : RoleOf[s] = role}), meets |-> p]
      BY <3>2, <3>3, <3>4, Zenon
    <3>6. credit.meets = p
      BY <3>5, Zenon
    <3>7. p <=> Cardinality({s \in published : RoleOf[s] = role}) >= Expected.target
      BY <3>3, Zenon
    <3> QED BY <3>4, <3>6, <3>7, Zenon
  <2>5. c.role_count = Cardinality(Q)
    BY <1>7, <2>1
  <2>6. {role \in DOMAIN c.roles : c.roles[role].meets} = M
    BY <1>11, <2>1, <2>2
  <2>7. M = Q <=> \A role \in Q : c.roles[role].meets
    BY <2>2, Zenon
  <2>8. Cardinality({role \in DOMAIN c.roles : c.roles[role].meets}) = c.role_count <=> M = Q
    BY <2>3, <2>5, <2>6, Zenon
  <2>9. M = Q <=> \A role \in Q :
                    Cardinality({s \in published : RoleOf[s] = role}) >= Expected.target
    BY <2>4, <2>7, Zenon
  <2> QED BY <2>1, <2>8, <2>9, Zenon
<1>13. Conservation(c)
  BY <1>5, CountsConserve
<1>14. Passed(Body(x).release) <=>
         /\ c.active = Expected.active /\ c.declined = Expected.declined
         /\ c.role_count = Expected.roles
         /\ c.funnel["authored"] = c.active /\ c.funnel["strict_lint_pass"] = c.active
         /\ c.funnel["reviewed"] = c.active /\ c.funnel["recheck_ready"] = c.active
         /\ c.funnel["approved"] = c.active /\ c.funnel["published"] = c.active
         /\ Cardinality({role \in DOMAIN c.roles : c.roles[role].meets})
              = c.role_count
         /\ ErrorsOf(x) = 0 /\ c.blocked = 0 /\ Cardinality(Anomalies(x)) = 0
  <2>1. PICK anomalies : anomalies = Anomalies(x)
    OBVIOUS
  <2>2. PICK errors : errors = ErrorsOf(x)
    OBVIOUS
  <2>3. Body(x).release = Release(c, anomalies, errors)
    BY <1>5, <2>1, <2>2, BodyIs
  <2>4. Passed(Release(c, anomalies, errors)) <=>
           /\ c.active = Expected.active /\ c.declined = Expected.declined
           /\ c.role_count = Expected.roles
           /\ c.funnel["authored"] = c.active /\ c.funnel["strict_lint_pass"] = c.active
           /\ c.funnel["reviewed"] = c.active /\ c.funnel["recheck_ready"] = c.active
           /\ c.funnel["approved"] = c.active /\ c.funnel["published"] = c.active
           /\ Cardinality({role \in DOMAIN c.roles : c.roles[role].meets})
                = c.role_count
           /\ errors = 0 /\ c.blocked = 0 /\ Cardinality(anomalies) = 0
           /\ Conservation(c)
    BY PassedMeans, Zenon
  <2> QED BY <1>13, <2>1, <2>2, <2>3, <2>4, Zenon
<1>15. /\ c.funnel["authored"] = c.active <=> \A s \in active : x.sources[s] # Absent
       /\ c.funnel["strict_lint_pass"] = c.active <=> \A s \in active : x.lint[s] = "passed"
       /\ c.funnel["reviewed"] = c.active <=> \A s \in active : Reviewed(x, s)
       /\ c.funnel["recheck_ready"] = c.active <=> \A s \in active : ContentStatus(x, s) = "ready"
       /\ c.funnel["approved"] = c.active <=> \A s \in active : Current(x, s)
       /\ c.funnel["published"] = c.active <=> \A s \in active : Current(x, s)
  <2>1. {"authored", "strict_lint_pass", "reviewed", "recheck_ready", "approved", "published"}
          \subseteq FlagNames
    BY DEF FlagNames
  <2> QED BY <1>8, <2>1, FlagsAre
<1>16. (\A s \in active : Current(x, s)) => published = active
  BY <1>1, <1>2, <1>4, ActiveCells, FlagsAre
<1>17. AllReady(x) <=>
         /\ Cardinality(active) = Expected.active /\ Cardinality(declined) = Expected.declined
         /\ Cardinality(Roles(active)) = Expected.roles
         /\ \A s \in active : /\ x.sources[s] # Absent /\ x.lint[s] = "passed"
                              /\ ContentStatus(x, s) = "ready"
                              /\ Current(x, s) /\ Blockers(x, s) = {}
         /\ \A role \in Roles(active) :
              Cardinality({s \in active : RoleOf[s] = role}) >= Expected.target
         /\ \A s \in Slugs : x.consistency[s]
         /\ Anomalies(x) = {}
  BY <1>2, <1>3 DEF AllReady
<1>18. ASSUME Passed(Body(x).release) PROVE AllReady(x)
  <2>1. /\ Cardinality(active) = Expected.active /\ Cardinality(declined) = Expected.declined
        /\ Cardinality(Roles(active)) = Expected.roles
    BY <1>7, <1>11, <1>14, <1>18
  <2>2. \A s \in active : /\ x.sources[s] # Absent /\ x.lint[s] = "passed"
                          /\ ContentStatus(x, s) = "ready"
                          /\ Current(x, s) /\ Blockers(x, s) = {}
    BY <1>9, <1>14, <1>15, <1>18
  <2>3. published = active
    BY <2>2, <1>16
  <2>4. \A role \in Roles(active) :
          Cardinality({s \in active : RoleOf[s] = role}) >= Expected.target
    BY <1>12, <1>14, <1>18, <2>3
  <2>5. (\A s \in Slugs : x.consistency[s]) /\ Anomalies(x) = {}
    BY <1>10, <1>14, <1>18, AnomalyCount
  <2> QED BY <1>17, <2>1, <2>2, <2>4, <2>5
<1>19. ASSUME AllReady(x) PROVE Passed(Body(x).release)
  <2>1. published = active
    BY <1>16, <1>17, <1>19
  <2>2. /\ c.active = Expected.active /\ c.declined = Expected.declined
        /\ c.role_count = Expected.roles
    BY <1>7, <1>11, <1>17, <1>19
  <2>3. \A s \in active : Reviewed(x, s)
    BY <1>17, <1>19, ReadyIsReviewed
  <2>4. /\ c.funnel["authored"] = c.active /\ c.funnel["strict_lint_pass"] = c.active
        /\ c.funnel["reviewed"] = c.active /\ c.funnel["recheck_ready"] = c.active
        /\ c.funnel["approved"] = c.active /\ c.funnel["published"] = c.active
    BY <1>15, <1>17, <1>19, <2>3
  <2>5. Cardinality({role \in DOMAIN c.roles : c.roles[role].meets}) = c.role_count
    BY <1>12, <1>17, <1>19, <2>1
  <2>6. ErrorsOf(x) = 0 /\ c.blocked = 0 /\ Cardinality(Anomalies(x)) = 0
    BY <1>9, <1>10, <1>17, <1>19, AnomalyCount
  <2> QED BY <1>14, <2>2, <2>4, <2>5, <2>6
<1> QED
  BY <1>18, <1>19

-----------------------------------------------------------------------------
(* The shape of the world while the jobs run.                              *)

Databases ==
  [stage : [Slugs -> [Contents -> Stages]], head : [Slugs -> 0..MaxContent],
   broken : SUBSET Slugs]

\* A published head was approved.
Headed(d) ==
  \A s \in Slugs : d.head[s] # Absent => d.stage[s][d.head[s]] \in {"approved", "reopened"}

ShapeInv ==
  /\ db \in Databases /\ Headed(db)
  /\ moves \in 0..MaxMoves
  /\ leases \subseteq Slugs \X Contents

LEMMA ShapeInit == Init => ShapeInv
<1> SUFFICES ASSUME Init PROVE ShapeInv
  OBVIOUS
<1>1. PICK start \in Starts : db = start.db
  BY DEF Init
<1>2. db \in Databases /\ Headed(db)
  BY <1>1, StartsAssumption DEF Databases, Headed
<1>3. moves = 0 /\ leases = {} /\ MaxMoves \in Nat
  BY StartsAssumption DEF Init
<1> QED
  BY <1>2, <1>3 DEF ShapeInv

\* A job does not touch what it reads, and hands out contracts in one step.
LEMMA JobsTouchNothing ==
  ASSUME [Next]_vars
  PROVE  Others \/ (UNCHANGED <<db, moves>> /\ (leases' = leases \/ leases' = {} \/ Lease))
<1>1. CASE Produce \/ Validate \/ Issue \/ Export
  BY <1>1 DEF Produce, Validate, Issue, Export, Start, copy
<1>2. CASE Building
  BY <1>2 DEF Building, ReadRows, Lint, CheckPack, ReadBundle, LoadSources, ReadCommit, ReadStatus,
     HashRegistry, HashTree, Write, Read, Pass, Outside, Advance, Stay, Return, copy, result
<1>3. CASE Checking
  BY <1>3 DEF Checking, SameCommit, Clean, SameRegistry, SameSources, SameTree, Compare, Show,
     Lease, Issued, Scope, SameHeads, Check, HashPass, Outside, Advance, Stay, Return, copy, result
<1>4. CASE Exporting
  BY <1>4 DEF Exporting, MakeStaging, BuildTree, SetAside, Place, CleanUp, Reported, Fails, Swap,
     Proceed, Report, Return, Outside, copy
<1>5. CASE Abort
  BY <1>5 DEF Abort, Return, Outside, copy
<1>6. CASE UNCHANGED vars
  BY <1>6 DEF vars, copy, result
<1> QED
  BY <1>1, <1>2, <1>3, <1>4, <1>5, <1>6 DEF Next

\* A contract is for a content that the document could hash.
LEMMA LeasesAreOfContents ==
  ASSUME SnapshotInv, Lease
  PROVE  leases' \subseteq Slugs \X Contents
<1>1. document # NoDocument
  BY CheckSteps DEF SnapshotInv, JobTypes, Lease, Doing
<1>2. document.sources \in Seq(Hashes) /\ Len(document.sources) = N
  BY <1>1 DEF SnapshotInv, DocInv
<1>3. PICK phase \in {"review", "recheck"} :
        \E accepted \in SUBSET {s \in Slugs : Eligible(phase, s) /\ Leasable(s)} :
          leases' = {<<s, Hash(document, s)>> : s \in accepted}
  BY DEF Lease
<1>4. PICK accepted \in SUBSET {s \in Slugs : Eligible(phase, s) /\ Leasable(s)} :
        leases' = {<<s, Hash(document, s)>> : s \in accepted}
  BY <1>3
<1>5. ASSUME NEW s \in accepted PROVE s \in Slugs /\ Hash(document, s) \in Contents
  <2>1. s \in Slugs /\ Leasable(s)
    BY <1>4
  <2>2. Hash(document, s) # Absent
    BY <2>1 DEF Leasable, Stage
  <2>3. Hash(document, s) = document.sources[s]
    BY <2>2 DEF Hash
  <2>4. document.sources[s] \in Hashes
    BY <1>2, <2>1, Constants
  <2> QED BY <2>1, <2>2, <2>3, <2>4, Constants DEF Contents, Absent
<1> QED
  BY <1>4, <1>5

\* A head is moved to an approved version, which can only be reopened later.
LEMMA DecideKeepsShape ==
  ASSUME db \in Databases, Headed(db), NEW s \in Slugs, NEW k \in Contents,
         NEW to \in Onward[db.stage[s][k]], Decide(s, k, db.stage[s][k], to)
  PROVE  db' \in Databases /\ Headed(db')
<1>1. PICK from \in Stages : from = db.stage[s][k]
  BY DEF Databases
<1>2. /\ to \in Stages
      /\ from \in {"approved", "reopened"} => to \in {"approved", "reopened"}
  BY <1>1 DEF Stages, Onward
<1>3. k \in 0..MaxContent /\ k # Absent
  BY Constants DEF Contents, Absent
<1>4. PICK head : head = IF <<from, to>> = <<"ready", "approved">> THEN k ELSE db.head[s]
  OBVIOUS
<1>5. head \in 0..MaxContent
  BY <1>3, <1>4 DEF Databases
<1>6. db' = [db EXCEPT !.stage[s][k] = to, !.head[s] = head]
  BY <1>1, <1>4 DEF Decide
<1>7. db' \in Databases
  BY <1>2, <1>5, <1>6 DEF Databases
<1>8. ASSUME NEW t \in Slugs
      PROVE  /\ db'.head[t] = IF t = s THEN head ELSE db.head[t]
             /\ \A j \in Contents :
                  db'.stage[t][j] = IF t = s /\ j = k THEN to ELSE db.stage[t][j]
  BY <1>6 DEF Databases
<1>9. ASSUME NEW t \in Slugs, db'.head[t] # Absent
      PROVE  db'.stage[t][db'.head[t]] \in {"approved", "reopened"}
  <2>1. PICK j \in Contents : j = db'.head[t]
    BY <1>7, <1>9, Constants DEF Databases, Contents, Absent
  <2>2. CASE t = s /\ j = k
    <3>1. db'.stage[t][j] = to
      BY <1>8, <2>2
    <3>2. CASE <<from, to>> = <<"ready", "approved">>
      BY <2>1, <3>1, <3>2
    <3>3. CASE <<from, to>> # <<"ready", "approved">>
      <4>1. db.head[s] = k
        BY <1>4, <1>8, <2>1, <2>2, <3>3
      <4>2. from \in {"approved", "reopened"}
        BY <1>1, <1>3, <4>1 DEF Headed
      <4> QED BY <1>2, <2>1, <3>1, <4>2
    <3> QED BY <3>2, <3>3
  <2>3. CASE ~(t = s /\ j = k)
    <3>1. db'.stage[t][j] = db.stage[t][j]
      BY <1>8, <2>3
    <3>2. db.head[t] = j
      BY <1>4, <1>8, <2>1, <2>3
    <3>3. j # Absent
      BY Constants DEF Contents, Absent
    <3> QED BY <2>1, <3>1, <3>2, <3>3 DEF Headed
  <2> QED BY <2>2, <2>3
<1> QED
  BY <1>7, <1>9 DEF Headed

LEMMA ShapeNext ==
  ASSUME SnapshotInv, ShapeInv, [Next]_vars
  PROVE  ShapeInv'
<1>1. db \in Databases /\ Headed(db) /\ MaxMoves \in Nat
  BY StartsAssumption DEF ShapeInv
<1>2. CASE Others
  <2>1. moves' \in 0..MaxMoves /\ leases' = leases
    <3>1. Move
      BY <1>2 DEF Others, Edit, Register, Unpublish, Quarantine, Decide, Commit
    <3> QED BY <1>1, <3>1 DEF Move, ShapeInv
  <2>2. ASSUME UNCHANGED db PROVE db' \in Databases /\ Headed(db')
    BY <1>1, <2>2
  <2>3. ASSUME Commit PROVE UNCHANGED db
    BY <2>3 DEF Commit
  <2>4. ASSUME NEW s \in Slugs, Edit(s) \/ Register(s) PROVE UNCHANGED db
    BY <2>4 DEF Edit, Register
  <2>5. ASSUME NEW s \in Slugs, Unpublish(s) PROVE db' \in Databases /\ Headed(db')
    <3>1. db' = [db EXCEPT !.head[s] = Absent]
      BY <2>5 DEF Unpublish
    <3>2. db' \in Databases
      BY <1>1, <3>1, Constants DEF Databases, Absent
    <3>3. \A t \in Slugs : /\ db'.head[t] = IF t = s THEN Absent ELSE db.head[t]
                           /\ db'.stage[t] = db.stage[t]
      BY <1>1, <3>1 DEF Databases
    <3> QED BY <1>1, <3>2, <3>3 DEF Headed
  <2>6. ASSUME NEW s \in Slugs, Quarantine(s) PROVE db' \in Databases /\ Headed(db')
    <3>1. db' = [db EXCEPT !.broken = @ \cup {s}]
      BY <2>6 DEF Quarantine
    <3>2. db' \in Databases /\ db'.head = db.head /\ db'.stage = db.stage
      BY <1>1, <3>1 DEF Databases
    <3> QED BY <1>1, <3>2 DEF Headed
  <2>7. ASSUME NEW s \in Movable, NEW k \in Contents, NEW to \in Onward[db.stage[s][k]],
               Decide(s, k, db.stage[s][k], to)
        PROVE  db' \in Databases /\ Headed(db')
    <3>1. s \in Slugs
      BY DEF Movable
    <3> QED BY <1>1, <2>7, <3>1, DecideKeepsShape
  <2>8. \A s \in Movable : s \in Slugs
    BY DEF Movable
  <2>9. db' \in Databases /\ Headed(db')
    <3>1. CASE \E s \in Movable : Edit(s) \/ Register(s) \/ Unpublish(s) \/ Quarantine(s)
      BY <2>2, <2>4, <2>5, <2>6, <2>8, <3>1
    <3>2. CASE \E s \in Movable, k \in Contents :
                 \E to \in Onward[db.stage[s][k]] : Decide(s, k, db.stage[s][k], to)
      BY <2>7, <3>2
    <3>3. CASE Commit
      BY <2>2, <2>3, <3>3
    <3> QED BY <1>2, <3>1, <3>2, <3>3 DEF Others
  <2> QED BY <1>1, <2>1, <2>9 DEF ShapeInv, Headed
<1>3. CASE UNCHANGED <<db, moves>> /\ (leases' = leases \/ leases' = {} \/ Lease)
  <2>1. leases' \subseteq Slugs \X Contents
    BY <1>3, LeasesAreOfContents DEF ShapeInv
  <2> QED BY <1>1, <1>3, <2>1 DEF ShapeInv, Headed
<1> QED
  BY <1>2, <1>3, JobsTouchNothing

-----------------------------------------------------------------------------
(* What the contracts name was scanned: the bundle of every build is of an *)
(* earlier moment of the database, and no scan is ever forgotten.          *)

Behind(d) ==
  /\ d \in Databases /\ Headed(d)
  /\ \A s \in Slugs, k \in Contents : d.stage[s][k] \in Scanned => db.stage[s][k] \in Scanned

EvidenceInv ==
  /\ document # NoDocument => Behind(document.db)
  /\ Done(4) => Behind(r.db)
  /\ \A lease \in leases : db.stage[lease[1]][lease[2]] \in Scanned

\* The snapshot comes from a build that has read its bundle, in one step.
LEMMA BundleStays ==
  ASSUME SnapshotInv, [Next]_vars
  PROVE  /\ document' = document \/ (document' = r /\ Done(4))
         /\ Done(4)' => r'.db = db \/ (Done(4) /\ r'.db = r.db)
<1>1. JobTypes /\ IsReading(r) /\ (job # "none" => at \in 1..18 /\ Step \in Int)
  BY AtType DEF SnapshotInv, ReadInv
<1>2. \A v : /\ [r EXCEPT !.lint = v].db = r.db /\ [r EXCEPT !.consistency = v].db = r.db
             /\ [r EXCEPT !.sources = v].db = r.db /\ [r EXCEPT !.commit = v].db = r.db
             /\ [r EXCEPT !.dirty = v].db = r.db /\ [r EXCEPT !.registry = v].db = r.db
             /\ [r EXCEPT !.full = v].db = r.db
  BY <1>1 DEF IsReading
<1>3. ASSUME Return PROVE Step' = 0 /\ ~(Done(4)')
  BY <1>3 DEF Return, Step, Done
<1>3a. ASSUME NEW n \in {1, 2, 3, 4, 5, 15, 16, 17}, Doing("validate", n)
       PROVE  Step # 4
  BY <1>3a DEF Doing, Step
<1>3b. ASSUME NEW n, Doing("issue", n) \/ Doing("export", n)
       PROVE  Step # 4
  BY <1>3b DEF Doing, Step
<1>3c. ASSUME NEW here \in {"same commit", "clean", "same registry", "compare", "scope", "heads",
                           "same sources", "same tree"}, At(here)
       PROVE  job # "none" /\ Step # 4
  <2>1. job # "none"
    BY <1>3c, Jobs DEF At
  <2>2. \E n \in {1, 2, 3, 4, 5, 15, 16, 17} :
          Doing("validate", n) \/ Doing("issue", n) \/ Doing("export", n)
    <3>1. CASE here \in {"same commit", "clean"}
      BY <1>1, <1>3c, <3>1, CheckSteps
    <3>2. CASE here \in {"same registry", "same sources", "same tree", "compare"}
      BY <1>1, <1>3c, <3>2, CheckSteps
    <3>3. CASE here \in {"scope", "heads"}
      BY <1>1, <1>3c, <3>3, CheckSteps
    <3> QED BY <3>1, <3>2, <3>3
  <2> QED BY <1>3a, <1>3b, <2>1, <2>2, Zenon
<1>4. ASSUME job # "none", UNCHANGED job, at' = at \/ at' = at + 1, Step # 4, Done(4)'
      PROVE  Done(4)
  BY <1>1, <1>4 DEF Step, Done
<1>5. CASE Produce \/ Validate \/ Issue \/ Export
  <2>1. PICK j \in DOMAIN Plan : Start(j)
    BY <1>5, Jobs DEF Produce, Validate, Issue, Export
  <2>2. document' = document /\ at' = 1
    BY <2>1 DEF Start, files
  <2>3. ~(Done(4)')
    BY <2>2 DEF Step, Done
  <2> QED BY <2>2, <2>3
<1>6. CASE Building
  <2>1. CASE Write
    <3>1. Step = 10
      BY <1>1, <2>1, BuildSteps DEF Write, Build
    <3> QED BY <1>3, <2>1, <3>1 DEF Write, Done
  <2>2. CASE ReadBundle
    <3>1. r'.db = db
      BY <1>1, <2>2 DEF ReadBundle, Read, IsReading
    <3> QED BY <2>2, <3>1 DEF ReadBundle, Read, Outside, files
  <2>3. CASE ReadRows
    <3>1. Step = 1 /\ job # "none"
      BY <1>1, <2>3, BuildSteps DEF ReadRows, Build
    <3>2. ~(Done(4)')
      BY <1>1, <2>3, <3>1 DEF ReadRows, Advance, Step, Done
    <3> QED BY <2>3, <3>2 DEF ReadRows, Outside, files
  <2>4. CASE Lint \/ CheckPack \/ LoadSources \/ HashTree
    <3>1. Step # 4 /\ job # "none"
      BY <1>1, <2>4, BuildSteps DEF Lint, CheckPack, LoadSources, HashTree, Pass, Build
    <3>2. r'.db = r.db
      <4>1. Lint \/ CheckPack => r'.db = r.db
        BY <1>1 DEF Lint, CheckPack, Pass, IsReading
      <4>2. LoadSources \/ HashTree => r'.db = r.db
        BY <1>1 DEF LoadSources, HashTree, Pass, IsReading
      <4> QED BY <2>4, <4>1, <4>2
    <3>3. UNCHANGED <<job, document>> /\ (at' = at \/ at' = at + 1)
      BY <2>4 DEF Lint, CheckPack, LoadSources, HashTree, Pass, Advance, Stay, Outside, files
    <3> QED BY <1>4, <3>1, <3>2, <3>3
  <2>5. CASE ReadCommit \/ ReadStatus \/ HashRegistry
    <3>1. Step # 4 /\ job # "none"
      BY <1>1, <2>5, BuildSteps DEF ReadCommit, ReadStatus, HashRegistry, Read, Build
    <3>2. r'.db = r.db
      <4>1. ReadCommit => r'.db = r.db
        BY <1>2 DEF ReadCommit, Read
      <4>2. ReadStatus => r'.db = r.db
        BY <1>2 DEF ReadStatus, Read
      <4>3. HashRegistry => r'.db = r.db
        BY <1>2 DEF HashRegistry, Read
      <4> QED BY <2>5, <4>1, <4>2, <4>3
    <3>3. UNCHANGED <<job, document>> /\ at' = at + 1
      BY <2>5 DEF ReadCommit, ReadStatus, HashRegistry, Read, Advance, Outside, files
    <3> QED BY <1>4, <3>1, <3>2, <3>3
  <2> QED BY <1>6, <2>1, <2>2, <2>3, <2>4, <2>5 DEF Building
<1>7. CASE Checking
  <2>1. CASE Show \/ Issued
    BY <1>3, <2>1 DEF Show, Issued, Outside, files, Done
  <2>2. CASE Lease
    <3>1. job = "issue"
      BY <1>1, <2>2, CheckSteps DEF Lease, Doing
    <3>2. Step' = 0
      BY <2>2, <3>1 DEF Lease, Step
    <3> QED BY <2>2, <3>2 DEF Lease, Outside, files, Done
  <2>3. CASE SameCommit \/ Clean \/ SameRegistry \/ Compare \/ Scope \/ SameHeads
    <3>1. PICK here \in {"same commit", "clean", "same registry", "compare", "scope", "heads"} :
            \E holds \in BOOLEAN : Check(here, holds)
      BY <2>3, Zenon DEF SameCommit, Clean, SameRegistry, Compare, Scope, SameHeads, Check
    <3>2. At(here)
      BY <3>1 DEF Check
    <3>3. job # "none" /\ Step # 4
      BY <1>3c, <3>1, <3>2
    <3>4. document' = document
      BY <3>1 DEF Check, Outside, files
    <3>5. Return \/ (UNCHANGED <<r, job>> /\ at' = at + 1)
      BY <3>1 DEF Check, Advance
    <3>6. Done(4)' => Done(4) /\ r'.db = r.db
      BY <1>3, <1>4, <3>3, <3>5
    <3> QED BY <3>4, <3>6
  <2>4. CASE SameSources \/ SameTree
    <3>1. PICK here \in {"same sources", "same tree"}, field \in {"sources", "full"} :
            \E agrees \in BOOLEAN : HashPass(here, field, agrees)
      BY <2>4, Zenon DEF SameSources, SameTree, HashPass
    <3>2. At(here) /\ document' = document
      BY <3>1 DEF HashPass, Outside, files
    <3>3. job # "none" /\ Step # 4
      BY <1>3c, <3>1, <3>2
    <3>4. \/ Return
          \/ /\ r' = [r EXCEPT ![field] = Hashed(field)]
             /\ UNCHANGED job /\ (at' = at \/ at' = at + 1)
      BY <3>1 DEF HashPass, Advance, Stay
    <3>5. \A v : [r EXCEPT ![field] = v].db = r.db
      <4>1. CASE field = "sources"
        BY <1>2, <4>1
      <4>2. CASE field = "full"
        BY <1>2, <4>2
      <4> QED BY <3>1, <4>1, <4>2
    <3>6. Done(4)' => Done(4) /\ r'.db = r.db
      BY <1>3, <1>4, <3>3, <3>4, <3>5
    <3> QED BY <3>2, <3>6
  <2> QED BY <1>7, <2>1, <2>2, <2>3, <2>4 DEF Checking
<1>8. CASE Exporting
  <2>1. job = "export"
    BY <1>1, <1>8, CheckSteps
       DEF Exporting, MakeStaging, BuildTree, SetAside, Place, CleanUp, Reported, Doing
  <2>2. document' = document /\ (Return \/ UNCHANGED job)
    BY <1>8 DEF Exporting, MakeStaging, BuildTree, SetAside, Place, CleanUp, Reported, Fails, Swap,
       Proceed, Report, Outside, files
  <2>3. Step' = 0
    BY <1>3, <2>1, <2>2 DEF Step
  <2> QED BY <2>2, <2>3 DEF Done
<1>9. CASE Abort
  BY <1>3, <1>9 DEF Abort, Outside, files, Done
<1>10. CASE Others
  <2>1. UNCHANGED <<job, at, r, files>>
    BY <1>10 DEF Others, Edit, Register, Unpublish, Quarantine, Decide, Commit, Move
  <2> QED BY <2>1 DEF Done, Step, files
<1>11. CASE UNCHANGED vars
  BY <1>11 DEF vars, files, Done, Step
<1> QED
  BY <1>5, <1>6, <1>7, <1>8, <1>9, <1>10, <1>11 DEF Next

\* What was scanned stays so, whatever the jobs' environment does.
LEMMA ScannedStays ==
  ASSUME SnapshotInv, ShapeInv, [Next]_vars
  PROVE  \A s \in Slugs, k \in Contents :
           db.stage[s][k] \in Scanned => db'.stage[s][k] \in Scanned
<1>1. db \in Databases
  BY DEF ShapeInv
<1>2. CASE Others
  <2>1. CASE UNCHANGED db.stage
    BY <2>1
  <2>2. CASE \E s \in Movable, k \in Contents :
               \E to \in Onward[db.stage[s][k]] : Decide(s, k, db.stage[s][k], to)
    <3>1. PICK s \in Movable, k \in Contents :
            \E to \in Onward[db.stage[s][k]] : Decide(s, k, db.stage[s][k], to)
      BY <2>2
    <3>2. PICK to \in Onward[db.stage[s][k]] : Decide(s, k, db.stage[s][k], to)
      BY <3>1
    <3>3. PICK from \in Stages : from = db.stage[s][k]
      BY <1>1 DEF Databases, Movable
    <3>4. from \in Scanned => to \in Scanned
      BY <3>2, <3>3 DEF Stages, Scanned, Onward
    <3>5. PICK head : db' = [db EXCEPT !.stage[s][k] = to, !.head[s] = head]
      BY <3>2 DEF Decide
    <3>6. \A t \in Slugs, j \in Contents :
            db'.stage[t][j] = IF t = s /\ j = k THEN to ELSE db.stage[t][j]
      BY <1>1, <3>5 DEF Databases, Movable
    <3> QED BY <3>3, <3>4, <3>6
  <2>3. UNCHANGED db => UNCHANGED db.stage
    OBVIOUS
  <2>4. ASSUME NEW s \in Slugs, Edit(s) \/ Register(s) \/ Unpublish(s) \/ Quarantine(s)
        PROVE  UNCHANGED db.stage
    BY <1>1, <2>4 DEF Edit, Register, Unpublish, Quarantine, Databases
  <2>5. Commit => UNCHANGED db.stage
    BY DEF Commit
  <2> QED BY <1>2, <2>1, <2>2, <2>4, <2>5 DEF Others, Movable
<1>3. CASE UNCHANGED <<db, moves>>
  BY <1>3
<1> QED
  BY <1>2, <1>3, JobsTouchNothing

\* A cell with a scan's verdict, or a published one, is of a scanned version.
LEMMA LeasesAreOfScanned ==
  ASSUME SnapshotInv, EvidenceInv, Lease
  PROVE  \A lease \in leases' : db.stage[lease[1]][lease[2]] \in Scanned
<1>1. document # NoDocument
  BY CheckSteps DEF SnapshotInv, JobTypes, Lease, Doing
<1>2. Behind(document.db) /\ document.sources \in Seq(Hashes) /\ Len(document.sources) = N
  BY <1>1 DEF SnapshotInv, DocInv, EvidenceInv
<1>3. PICK phase \in {"review", "recheck"} :
        \E accepted \in SUBSET {s \in Slugs : Eligible(phase, s) /\ Leasable(s)} :
          leases' = {<<s, Hash(document, s)>> : s \in accepted}
  BY DEF Lease
<1>4. PICK accepted \in SUBSET {s \in Slugs : Eligible(phase, s) /\ Leasable(s)} :
        leases' = {<<s, Hash(document, s)>> : s \in accepted}
  BY <1>3
<1>5. ASSUME NEW s \in accepted
      PROVE  db.stage[s][Hash(document, s)] \in Scanned
  <2>1. s \in Slugs /\ Eligible(phase, s) /\ Leasable(s)
    BY <1>4
  <2>2. Hash(document, s) # Absent /\ document.rows[s] = "active"
    BY <2>1 DEF Leasable, Stage, Eligible
  <2>3. PICK k \in Contents : k = Hash(document, s)
    <3>1. Hash(document, s) = document.sources[s]
      BY <2>2 DEF Hash
    <3>2. document.sources[s] \in Hashes
      BY <1>2, <2>1, Constants
    <3> QED BY <2>2, <3>1, <3>2, Constants DEF Contents, Absent
  <2>4. Stage(document, s) = document.db.stage[s][k]
    BY <2>2, <2>3 DEF Stage
  <2>5. Security(document, s) = "passed"
    <3>1. "security_pass" \in Cell(document, s).flags
      BY <2>1 DEF Leasable
    <3>2. Cell(document, s).flags = Flags(document, s)
      BY <2>2, CellIs
    <3> QED BY <3>1, <3>2, FlagsAre
  <2>6. CASE Current(document, s)
    <3>1. document.db.head[s] = k /\ k # Absent
      BY <2>2, <2>3, <2>6 DEF Current, Publication
    <3>2. document.db.stage[s][k] \in {"approved", "reopened"}
      BY <1>2, <2>1, <3>1 DEF Behind, Headed
    <3>3. document.db.stage[s][k] \in Scanned
      BY <3>2 DEF Scanned, Stages
    <3> QED BY <1>2, <2>1, <2>3, <3>3 DEF Behind
  <2>7. CASE Stage(document, s) \in Secured
    <3>1. document.db.stage[s][k] \in Scanned
      BY <2>4, <2>7 DEF Secured, Scanned
    <3> QED BY <1>2, <2>1, <2>3, <3>1 DEF Behind
  <2> QED BY <2>5, <2>6, <2>7 DEF Security
<1> QED
  BY <1>4, <1>5

LEMMA EvidenceNext ==
  ASSUME SnapshotInv, ShapeInv, EvidenceInv, [Next]_vars
  PROVE  EvidenceInv'
<1>1. \A s \in Slugs, k \in Contents : db.stage[s][k] \in Scanned => db'.stage[s][k] \in Scanned
  BY ScannedStays
<1>2. ASSUME NEW d, Behind(d)
      PROVE  /\ d \in Databases /\ Headed(d)
             /\ \A s \in Slugs, k \in Contents :
                  d.stage[s][k] \in Scanned => db'.stage[s][k] \in Scanned
  BY <1>1, <1>2 DEF Behind
<1>3. Behind(db)
  BY DEF ShapeInv, Behind
<1>4. \A d : Behind(d) =>
        /\ d \in Databases /\ Headed(d)
        /\ \A s \in Slugs, k \in Contents :
             d.stage[s][k] \in Scanned => db'.stage[s][k] \in Scanned
  BY <1>2
<1>5. ASSUME document' # NoDocument PROVE Behind(document.db)'
  <2>1. PICK d : d = document'.db
    OBVIOUS
  <2>2. Behind(d)
    BY <1>5, <2>1, BundleStays DEF EvidenceInv
  <2>3. PICK old \in Databases : old = d
    BY <1>4, <2>2
  <2> QED BY <1>4, <2>1, <2>2 DEF Behind, Headed
<1>6. ASSUME Done(4)' PROVE Behind(r.db)'
  <2>1. PICK d : d = r'.db
    OBVIOUS
  <2>2. Behind(d)
    BY <1>3, <1>6, <2>1, BundleStays DEF EvidenceInv
  <2> QED BY <1>4, <2>1, <2>2 DEF Behind, Headed
<1>7. ASSUME NEW lease \in leases' PROVE db'.stage[lease[1]][lease[2]] \in Scanned
  <2>1. CASE lease \in leases
    <3>1. lease[1] \in Slugs /\ lease[2] \in Contents
      BY <2>1 DEF ShapeInv
    <3> QED BY <1>1, <2>1, <3>1 DEF EvidenceInv
  <2>2. CASE Lease
    <3>1. db.stage[lease[1]][lease[2]] \in Scanned
      BY <1>7, <2>2, LeasesAreOfScanned
    <3>2. lease[1] \in Slugs /\ lease[2] \in Contents
      BY <1>7, <2>2, LeasesAreOfContents
    <3> QED BY <1>1, <3>1, <3>2
  <2>3. CASE Others
    BY <1>7, <2>1, <2>3
       DEF Others, Edit, Register, Unpublish, Quarantine, Decide, Commit, Move
  <2> QED BY <1>7, <2>1, <2>2, <2>3, JobsTouchNothing
<1> QED
  BY <1>5, <1>6, <1>7 DEF EvidenceInv

\* When contracts are issued, the working copy, the registry and HEAD were what the
\* snapshot's three hashes say at one moment of the issuing, and every contract names
\* a version that the scans have passed judgement on, whatever moved during the build.
THEOREM IssuedWasHeld == Spec => []IssuedIsHeld
<1>1. Init => ShapeInv
  BY ShapeInit
<1>2. Init => EvidenceInv
  <2>1. ASSUME Init
        PROVE  document = NoDocument /\ ~Done(4) /\ leases = {}
    BY <2>1 DEF Init, Done, Step
  <2> QED BY <2>1 DEF EvidenceInv
<1>3. SnapshotInv /\ ShapeInv /\ [Next]_vars => ShapeInv'
  BY ShapeNext
<1>4. SnapshotInv /\ ShapeInv /\ EvidenceInv /\ [Next]_vars => EvidenceInv'
  BY EvidenceNext
<1>5. ASSUME SnapshotInv, EvidenceInv, At("issued")
      PROVE  held /\ \A lease \in leases : db.stage[lease[1]][lease[2]] \in Scanned
  <2>1. Doing("issue", 5)
    BY <1>5, CheckSteps DEF SnapshotInv
  <2>2. job = "issue" /\ at > 3
    BY <2>1 DEF Doing
  <2> QED
    BY <1>5, <2>2 DEF SnapshotInv, IssueInv, EvidenceInv
<1>6. SnapshotInv /\ EvidenceInv => IssuedIsHeld
  BY <1>5 DEF IssuedIsHeld
<1> QED
  BY <1>1, <1>2, <1>3, <1>4, <1>6, SnapshotCorrect, PTL DEF Spec

-----------------------------------------------------------------------------
(* When there is nothing to report.                                        *)

\* There is no anomaly when no row, publication or quarantine is one.
LEMMA AnomalyFree ==
  ASSUME NEW x
  PROVE  Anomalies(x) = {} <=>
           /\ \A s \in Rows(x, "active") :
                ~Misplaced(x, s) /\ ~Stale(x, s) /\ ContentStatus(x, s) # "stale" /\ ~Reopened(x, s)
           /\ \A s \in Slugs \ Rows(x, "active") :
                x.sources[s] = Absent /\ Publication(x, s) = Absent
           /\ x.db.broken = {}
<1> DEFINE active == Rows(x, "active")
           published == {s \in Slugs : Publication(x, s) # Absent}
           All(kind, S) == {<<kind, s>> : s \in S}
<1>1. ASSUME NEW kind, NEW S PROVE All(kind, S) = {} <=> S = {}
  OBVIOUS
<1>2. Anomalies(x) =
        UNION {All("facet_drift", {s \in active : Misplaced(x, s)}),
               All("unregistered_authored", {s \in Slugs \ active : x.sources[s] # Absent}),
               All("unregistered_publications", published \ active),
               All("declined_publications", published \cap Rows(x, "declined")),
               All("stale_source_hashes", {s \in active : Stale(x, s)}),
               All("stale_approval_hashes", {s \in active : Stale(x, s)}),
               All("stale_review_hashes", {s \in active : ContentStatus(x, s) = "stale"}),
               All("post_approval_blockers", {s \in active : Reopened(x, s)}),
               All("projection_drift", x.db.broken)}
  BY DEF Anomalies
<1> HIDE DEF All
<1>3. Anomalies(x) = {} <=>
        /\ {s \in active : Misplaced(x, s)} = {}
        /\ {s \in Slugs \ active : x.sources[s] # Absent} = {}
        /\ published \ active = {}
        /\ published \cap Rows(x, "declined") = {}
        /\ {s \in active : Stale(x, s)} = {}
        /\ {s \in active : Stale(x, s)} = {}
        /\ {s \in active : ContentStatus(x, s) = "stale"} = {}
        /\ {s \in active : Reopened(x, s)} = {}
        /\ x.db.broken = {}
  <2> DEFINE a == All("facet_drift", {s \in active : Misplaced(x, s)})
             b == All("unregistered_authored", {s \in Slugs \ active : x.sources[s] # Absent})
             c == All("unregistered_publications", published \ active)
             d == All("declined_publications", published \cap Rows(x, "declined"))
             e == All("stale_source_hashes", {s \in active : Stale(x, s)})
             f == All("stale_approval_hashes", {s \in active : Stale(x, s)})
             g == All("stale_review_hashes", {s \in active : ContentStatus(x, s) = "stale"})
             h == All("post_approval_blockers", {s \in active : Reopened(x, s)})
             i == All("projection_drift", x.db.broken)
  <2>1. Anomalies(x) = UNION {a, b, c, d, e, f, g, h, i}
    BY <1>2, Zenon
  <2>2. /\ a = {} <=> {s \in active : Misplaced(x, s)} = {}
        /\ b = {} <=> {s \in Slugs \ active : x.sources[s] # Absent} = {}
        /\ c = {} <=> published \ active = {}
        /\ d = {} <=> published \cap Rows(x, "declined") = {}
        /\ e = {} <=> {s \in active : Stale(x, s)} = {}
        /\ f = {} <=> {s \in active : Stale(x, s)} = {}
        /\ g = {} <=> {s \in active : ContentStatus(x, s) = "stale"} = {}
        /\ h = {} <=> {s \in active : Reopened(x, s)} = {}
        /\ i = {} <=> x.db.broken = {}
    BY <1>1, Zenon
  <2> HIDE DEF a, b, c, d, e, f, g, h, i, active, published
  <2>3. UNION {a, b, c, d, e, f, g, h, i} = {} <=>
           /\ a = {} /\ b = {} /\ c = {} /\ d = {} /\ e = {} /\ f = {} /\ g = {} /\ h = {}
           /\ i = {}
    OBVIOUS
  <2> QED BY <2>1, <2>2, <2>3
<1>4. /\ published \ active = {} <=> \A s \in Slugs \ active : Publication(x, s) = Absent
      /\ published \ active = {} => published \cap Rows(x, "declined") = {}
  <2>1. active \cap Rows(x, "declined") = {}
    BY DEF Rows
  <2> QED BY <2>1
<1>5. /\ {s \in active : Misplaced(x, s)} = {} <=> \A s \in active : ~Misplaced(x, s)
      /\ {s \in Slugs \ active : x.sources[s] # Absent} = {}
           <=> \A s \in Slugs \ active : x.sources[s] = Absent
      /\ {s \in active : Stale(x, s)} = {} <=> \A s \in active : ~Stale(x, s)
      /\ {s \in active : ContentStatus(x, s) = "stale"} = {}
           <=> \A s \in active : ContentStatus(x, s) # "stale"
      /\ {s \in active : Reopened(x, s)} = {} <=> \A s \in active : ~Reopened(x, s)
  OBVIOUS
<1> HIDE DEF active, published
<1>6. Anomalies(x) = {} <=>
        /\ \A s \in active :
             ~Misplaced(x, s) /\ ~Stale(x, s) /\ ContentStatus(x, s) # "stale" /\ ~Reopened(x, s)
        /\ \A s \in Slugs \ active : x.sources[s] = Absent /\ Publication(x, s) = Absent
        /\ x.db.broken = {}
  BY <1>3, <1>4, <1>5
<1> QED
  BY <1>6 DEF active

\* A cell has no blocker when no condition of one holds.
LEMMA BlockerFree ==
  ASSUME NEW x, NEW s, x.sources[s] # Absent, Hash(x, s) # Absent, x.lint[s] = "passed",
         x.consistency[s], Security(x, s) # "blocked", ContentStatus(x, s) = "ready",
         ~Stale(x, s), ~Misplaced(x, s), s \notin x.db.broken, ~Rejected(x, s)
  PROVE  Blockers(x, s) = {}
<1>1. \A source, code, holds : ~holds => Blocker(source, code, holds) = {}
  BY DEF Blocker
<1> DEFINE authored == x.sources[s] # Absent
<1>2. /\ Blocker("filesystem", "SOURCE_MISSING", ~authored) = {}
      /\ Blocker("filesystem", "SOURCE_INVALID", authored /\ Hash(x, s) = Absent) = {}
      /\ Blocker("lint", "STRICT_LINT_BLOCKED", authored /\ x.lint[s] # "passed") = {}
      /\ Blocker("consistency", "CONSISTENCY_BLOCKED", ~x.consistency[s]) = {}
      /\ Blocker("scan", "SECURITY_BLOCKED", Security(x, s) = "blocked") = {}
      /\ Blocker("review", "CONTENT_REVIEW_BLOCKED",
                 Reviewed(x, s) /\ ContentStatus(x, s) # "ready") = {}
      /\ Blocker("approval", "APPROVAL_STALE", Stale(x, s)) = {}
      /\ Blocker("registry", "FACET_DRIFT", Misplaced(x, s)) = {}
      /\ Blocker("approval", "PROJECTION_DRIFT", s \in x.db.broken) = {}
      /\ Blocker("approval", "APPROVAL_REJECTED", Rejected(x, s)) = {}
  BY Zenon DEF Blocker
<1>3. Blockers(x, s) =
        UNION {Blocker("filesystem", "SOURCE_MISSING", ~authored),
               Blocker("filesystem", "SOURCE_INVALID", authored /\ Hash(x, s) = Absent),
               Blocker("lint", "STRICT_LINT_BLOCKED", authored /\ x.lint[s] # "passed"),
               Blocker("consistency", "CONSISTENCY_BLOCKED", ~x.consistency[s]),
               Blocker("scan", "SECURITY_BLOCKED", Security(x, s) = "blocked"),
               Blocker("review", "CONTENT_REVIEW_BLOCKED",
                       Reviewed(x, s) /\ ContentStatus(x, s) # "ready"),
               Blocker("approval", "APPROVAL_STALE", Stale(x, s)),
               Blocker("registry", "FACET_DRIFT", Misplaced(x, s)),
               Blocker("approval", "PROJECTION_DRIFT", s \in x.db.broken),
               Blocker("approval", "APPROVAL_REJECTED", Rejected(x, s))}
  BY Zenon DEF Blockers
<1>4. Blockers(x, s) = UNION {{}, {}, {}, {}, {}, {}, {}, {}, {}, {}}
  BY <1>2, <1>3, Zenon
<1> QED
  BY <1>4

-----------------------------------------------------------------------------
(* The reading of this moment.                                             *)

\* What makes an active skill part of a release.
Released(s) ==
  /\ tree[s] # Absent /\ Quality[tree[s]] = Qualities
  /\ db.head[s] = tree[s] /\ db.stage[s][tree[s]] = "approved"

LEMMA NowFields ==
  ASSUME NEW x, x = Now
  PROVE  /\ x.rows = registry /\ x.lint = Lints /\ x.consistency = Consistencies /\ x.db = db
         /\ x.sources = tree
BY DEF Now

\* A content has every quality when it has each.
LEMMA AllQualities ==
  ASSUME NEW k \in Contents
  PROVE  Quality[k] = Qualities <=>
           Is(k, "loads") /\ Is(k, "strict") /\ Is(k, "consistent") /\ Is(k, "placed")
<1>1. Quality[k] \subseteq Qualities
  BY ScoreboardAssumption
<1>2. k # Absent
  BY Constants DEF Contents, Absent
<1> QED
  BY <1>1, <1>2 DEF Is, Qualities

LEMMA LintSays ==
  ASSUME NEW k
  PROVE  LintOf(k) = "passed" <=> Is(k, "strict")
BY DEF LintOf, Is

\* The cell of a released skill is ready and has no blocker.
LEMMA ReleasedCell ==
  ASSUME CopyInv, ShapeInv, NEW x, x = Now, NEW s \in Slugs, Released(s), db.broken = {}
  PROVE  /\ x.sources[s] # Absent /\ x.lint[s] = "passed" /\ x.consistency[s]
         /\ ContentStatus(x, s) = "ready"
         /\ Current(x, s) /\ Blockers(x, s) = {}
         /\ ~Misplaced(x, s) /\ ~Stale(x, s) /\ ~Reopened(x, s)
<1>1. PICK k \in Contents : k = tree[s]
  BY Constants DEF CopyInv, Contents, Absent, Released
<1>2. Is(k, "loads") /\ Is(k, "strict") /\ Is(k, "consistent") /\ Is(k, "placed") /\ k # Absent
  BY <1>1, AllQualities DEF Released
<1>3. x.sources[s] = k /\ x.lint[s] = LintOf(k) /\ x.db = db
      /\ (x.consistency[s] <=> (k = Absent \/ Is(k, "consistent")))
  <2>1. x.sources = tree /\ x.lint = Lints /\ x.consistency = Consistencies /\ x.db = db
    BY NowFields
  <2>2. x.lint[s] = LintOf(k)
    BY <1>1, <2>1 DEF Lints
  <2>3. x.consistency[s] <=> (k = Absent \/ Is(k, "consistent"))
    BY <1>1, <2>1 DEF Consistencies
  <2> QED BY <1>1, <2>1, <2>2, <2>3
<1>4. x.lint[s] = "passed" /\ x.consistency[s]
  BY <1>2, <1>3, LintSays
<1>5. Hash(x, s) = k /\ Publication(x, s) = k
  BY <1>1, <1>2, <1>3 DEF Hash, Publication, Released
<1>6. Current(x, s) /\ ~Stale(x, s) /\ ~Misplaced(x, s)
  BY <1>2, <1>5 DEF Current, Stale, Misplaced
<1>7. Stage(x, s) = "approved"
  BY <1>1, <1>2, <1>3, <1>5 DEF Stage, Released
<1>8. ContentStatus(x, s) = "ready"
  BY <1>6, <1>7 DEF ContentStatus, Settled
<1>9. Security(x, s) # "blocked"
  BY <1>6, <1>7 DEF Security
<1>10. ~Rejected(x, s) /\ ~Reopened(x, s)
  BY <1>7 DEF Rejected, Reopened
<1>11. Blockers(x, s) = {}
  BY <1>2, <1>3, <1>4, <1>5, <1>6, <1>8, <1>9, <1>10, BlockerFree
<1> QED
  BY <1>2, <1>3, <1>4, <1>6, <1>8, <1>10, <1>11

\* A published cell with nothing against it is of a released skill.
LEMMA ReadyCell ==
  ASSUME CopyInv, ShapeInv, NEW x, x = Now, NEW s \in Slugs, x.lint[s] = "passed",
         x.consistency[s], Current(x, s), ~Misplaced(x, s), ~Reopened(x, s)
  PROVE  Released(s)
<1>1. x.sources = tree /\ x.lint = Lints /\ x.consistency = Consistencies /\ x.db = db
  BY NowFields
<1>2. /\ Publication(x, s) # Absent /\ Hash(x, s) = Publication(x, s)
      /\ Hash(x, s) = tree[s] /\ tree[s] # Absent
      /\ Is(tree[s], "loads") /\ db.head[s] = tree[s]
  BY <1>1 DEF Current, Publication, Hash
<1>3. PICK k \in Contents : k = tree[s]
  BY <1>2, Constants DEF CopyInv, Contents, Absent
<1>4. Is(k, "strict")
  <2>1. x.lint[s] = LintOf(k)
    BY <1>1, <1>3 DEF Lints
  <2> QED BY <2>1, LintSays
<1>5. Is(k, "consistent")
  <2>1. x.consistency[s] <=> (k = Absent \/ Is(k, "consistent"))
    BY <1>1, <1>3 DEF Consistencies
  <2> QED BY <1>2, <1>3, <2>1
<1>6. Is(k, "placed")
  BY <1>2, <1>3 DEF Misplaced
<1>7. Quality[k] = Qualities
  BY <1>2, <1>3, <1>4, <1>5, <1>6, AllQualities
<1>8. db.stage[s][k] # "reopened"
  <2>1. Stage(x, s) = db.stage[s][k]
    BY <1>1, <1>2, <1>3 DEF Stage
  <2> QED BY <2>1 DEF Reopened
<1>9. db.stage[s][k] \in {"approved", "reopened"}
  BY <1>2, <1>3 DEF ShapeInv, Headed
<1> QED
  BY <1>2, <1>3, <1>7, <1>8, <1>9 DEF Released

\* The gate's numbers agree exactly when everything expected is released.
LEMMA GateOfNow ==
  ASSUME CopyInv, ShapeInv
  PROVE  Passed(Body(Now).release) <=> Launchable
<1>1. PICK x : x = Now
  OBVIOUS
<1>2. x.rows = registry /\ x.lint = Lints /\ x.consistency = Consistencies /\ x.db = db
      /\ x.sources = tree
  BY <1>1, NowFields
<1>3. x.db.broken \subseteq Slugs
  BY <1>2 DEF ShapeInv, Databases
<1>4. Passed(Body(x).release) <=> AllReady(x)
  BY <1>3, GateMeans
<1>5. PICK active \in SUBSET Slugs : active = Rows(x, "active")
  BY DEF Rows
<1>6. /\ active = {s \in Slugs : registry[s] = "active"}
      /\ Rows(x, "declined") = {s \in Slugs : registry[s] = "declined"}
  BY <1>2, <1>5 DEF Rows
<1>7. Launchable <=>
        /\ Cardinality(active) = Expected.active
        /\ Cardinality(Rows(x, "declined")) = Expected.declined
        /\ Cardinality(Roles(active)) = Expected.roles
        /\ \A s \in active : Released(s)
        /\ \A s \in Slugs \ active : tree[s] = Absent /\ db.head[s] = Absent
        /\ db.broken = {}
        /\ \A role \in Roles(active) :
             Cardinality({s \in active : RoleOf[s] = role}) >= Expected.target
  BY <1>6 DEF Launchable, Released
<1>8. AllReady(x) <=>
        /\ Cardinality(active) = Expected.active
        /\ Cardinality(Rows(x, "declined")) = Expected.declined
        /\ Cardinality(Roles(active)) = Expected.roles
        /\ \A s \in active : /\ x.sources[s] # Absent /\ x.lint[s] = "passed"
                             /\ ContentStatus(x, s) = "ready"
                             /\ Current(x, s) /\ Blockers(x, s) = {}
        /\ \A role \in Roles(active) :
             Cardinality({s \in active : RoleOf[s] = role}) >= Expected.target
        /\ \A s \in Slugs : x.consistency[s]
        /\ Anomalies(x) = {}
  BY <1>5 DEF AllReady
<1>9. Anomalies(x) = {} <=>
        /\ \A s \in active :
             ~Misplaced(x, s) /\ ~Stale(x, s) /\ ContentStatus(x, s) # "stale" /\ ~Reopened(x, s)
        /\ \A s \in Slugs \ active : x.sources[s] = Absent /\ Publication(x, s) = Absent
        /\ x.db.broken = {}
  BY <1>5, AnomalyFree
<1>10. ASSUME AllReady(x) PROVE Launchable
  <2>1. \A s \in active : Released(s)
    BY <1>1, <1>8, <1>9, <1>10, ReadyCell
  <2>2. \A s \in Slugs \ active : tree[s] = Absent /\ db.head[s] = Absent
    BY <1>2, <1>8, <1>9, <1>10 DEF Publication
  <2> QED BY <1>2, <1>7, <1>8, <1>9, <1>10, <2>1, <2>2
<1>11. ASSUME Launchable PROVE AllReady(x)
  <2>1. ASSUME NEW s \in active
        PROVE  /\ x.sources[s] # Absent /\ x.lint[s] = "passed" /\ x.consistency[s]
               /\ ContentStatus(x, s) = "ready"
               /\ Current(x, s) /\ Blockers(x, s) = {}
               /\ ~Misplaced(x, s) /\ ~Stale(x, s) /\ ~Reopened(x, s)
    BY <1>1, <1>7, <1>11, ReleasedCell
  <2>2. ASSUME NEW s \in Slugs \ active
        PROVE  x.sources[s] = Absent /\ Publication(x, s) = Absent /\ x.consistency[s]
    BY <1>2, <1>7, <1>11 DEF Publication, Consistencies
  <2>3. Anomalies(x) = {}
    BY <1>2, <1>7, <1>9, <1>11, <2>1, <2>2
  <2>4. \A s \in Slugs : x.consistency[s]
    BY <2>1, <2>2
  <2> QED BY <1>7, <1>8, <1>11, <2>1, <2>3, <2>4
<1> QED
  BY <1>1, <1>4, <1>10, <1>11

LEMMA TypesOf ==
  ASSUME SnapshotInv, ShapeInv
  PROVE  TypeOK
<1>1. /\ tree \in [Slugs -> 0..MaxContent] /\ registry \in [Slugs -> Statuses]
      /\ \A i \in DOMAIN commits : commits[i].tree \in [Slugs -> 0..MaxContent]
  <2>1. CopyInv
    BY DEF SnapshotInv
  <2>2. \A i \in DOMAIN commits : commits[i] \in Copies
    BY <2>1 DEF CopyInv
  <2> QED BY <2>1, <2>2 DEF CopyInv, Copies
<1>2. /\ db.stage \in [Slugs -> [Contents -> Stages]]
      /\ db.head \in [Slugs -> 0..MaxContent] /\ db.broken \subseteq Slugs
  BY DEF ShapeInv, Databases
<1>3. \A s \in Slugs : db.head[s] # Absent => db.stage[s][db.head[s]] \in {"approved", "reopened"}
  BY DEF ShapeInv, Headed
<1>4. /\ job \in DOMAIN Plan \cup {"none"} /\ (job = "none" \/ at \in DOMAIN Plan[job])
      /\ held \in BOOLEAN /\ (job = "none" => r = Blank)
  BY DEF SnapshotInv, JobTypes
<1> QED
  BY <1>1, <1>2, <1>3, <1>4 DEF TypeOK, ShapeInv

\* The release gate of a reading of one moment passes exactly when the scope is
\* authored, clean, in place and published, and a torn reading's document still
\* passes the validation every reader repeats and conserves its cells.
THEOREM ScoreboardIsSound == Spec => []ScoreboardSound
<1>1. Init => ShapeInv
  BY ShapeInit
<1>2. SnapshotInv /\ ShapeInv /\ [Next]_vars => ShapeInv'
  BY ShapeNext
<1>3. ASSUME SnapshotInv, ShapeInv PROVE ScoreboardSound
  <2>1. TypeOK
    BY <1>3, TypesOf
  <2>2. Passed(Body(Now).release) <=> Launchable
    BY <1>3, GateOfNow DEF SnapshotInv
  <2>3. Accepts(Body(r)) /\ Body(r).conserved
    BY AnyReadingConserves
  <2> QED BY <2>1, <2>2, <2>3 DEF ScoreboardSound, GateIsTruthful, Conserved
<1>4. SnapshotInv /\ ShapeInv => ScoreboardSound
  BY <1>3
<1> QED
  BY <1>1, <1>2, <1>4, SnapshotCorrect, PTL DEF Spec
=============================================================================
