---------------------------- MODULE ReviewLedger ----------------------------
(***************************************************************************)
(* The content-review ledger.  A coordinator issues leases; each lease     *)
(* names the one review it allows: skill version, lineage, attempt, prior  *)
(* review, reviewer, fixer and check results.  Collectors turn results     *)
(* into reviews: they validate a batch against a snapshot of the review    *)
(* history in Python and append it later, row by row, in one transaction.  *)
(* Leases do not exclude each other, so that several collectors may race   *)
(* for one attempt; unique indexes and the insert trigger of the database  *)
(* decide which review becomes part of the lineage.                        *)
(*                                                                         *)
(* Transactions are READ COMMITTED.  A review names its lease and copies   *)
(* it (review_contract_matches_v1), so that a review here is a lease and   *)
(* the findings; a lease has one review, so that the lease names it too.   *)
(***************************************************************************)
EXTENDS Naturals, Sequences, FiniteSets

CONSTANTS
  Slugs,         \* skills
  MaxVersion,    \* versions are 1 .. MaxVersion in semver order
  Lineages,      \* lineage ids
  Reviewers,     \* reviewer contexts
  Fixers,        \* fixer contexts; may overlap the reviewers
  CheckResults,  \* outcomes of the four deterministic checks together
  Findings,      \* finding ids
  Changes,       \* what a finding demands: evidence, location, required change
  Collectors,    \* concurrent callers of the collector
  MaxAttempts,   \* MAX_REVIEW_ATTEMPTS
  MaxBatch,      \* MAX_BATCH_SIZE
  MaxLeases      \* bound: leases

ASSUME ConstantsAssumption ==
  /\ MaxVersion \in Nat
  /\ MaxAttempts \in Nat
  /\ MaxBatch \in Nat
  /\ MaxLeases \in Nat
  /\ CheckResults \subseteq BOOLEAN

VARIABLES
  leases,   \* issued leases; the index is the id
  reviews,  \* committed content reviews
  rows,     \* rows[c]: what collector c is appending, <<>> when it is idle
  done      \* done[c]: how many of them its transaction has inserted

vars == <<leases, reviews, rows, done>>

Versions == 1 .. MaxVersion
Phases == {"review", "recheck"}

\* prior is the lease of the prior review, 0 for NULL.
Lease == [slug : Slugs, ver : Versions, lineage : Lineages, attempt : Nat, prior : Nat,
          phase : Phases, reviewer : Reviewers, fixer : Fixers, passed : BOOLEAN]

\* A disputed finding counts everywhere as an open one.
Mention == [severity : {"blocking", "non_blocking"}, change : Changes,
            disposition : {"open", "resolved"}]

FindingLists == UNION {[F -> Mention] : F \in SUBSET Findings}

Review == [lease : Nat, findings : FindingLists]

TypeOK ==
  /\ leases \in Seq(Lease)
  /\ reviews \subseteq Review
  /\ \A r \in reviews : r.lease \in DOMAIN leases
  /\ rows \in [Collectors -> Seq(Review)]
  /\ \A c \in Collectors : \A k \in DOMAIN rows[c] : rows[c][k].lease \in DOMAIN leases
  /\ done \in [Collectors -> Nat]
  /\ \A c \in Collectors : done[c] <= Len(rows[c])

Init ==
  /\ leases = <<>>
  /\ reviews = {}
  /\ rows = [c \in Collectors |-> <<>>]
  /\ done = [c \in Collectors |-> 0]

-----------------------------------------------------------------------------
(* Leases.                                                                 *)

LeaseOf(r) == leases[r.lease]

OfSlug(s, R) == {r \in R : LeaseOf(r).slug = s}

\* Mutant: the version is not compared with the prior review's.
ContinuesAnyVersion(l, r) ==
  LET p == LeaseOf(r) IN
  /\ l.prior = r.lease
  /\ l.slug = p.slug
  /\ l.lineage = p.lineage
  /\ l.attempt = p.attempt + 1

\* l names r as its prior review, and continues it.
Continues(l, r) ==
  LET p == LeaseOf(r) IN
  /\ l.prior = r.lease
  /\ l.slug = p.slug
  /\ l.lineage = p.lineage
  /\ l.attempt = p.attempt + 1
  /\ p.ver <= l.ver

\* Mutant: 0016, where a lease takes its attempt of the lineage.
LeasableOnce(l) ==
  /\ l.attempt \in 1 .. MaxAttempts
  /\ l.attempt = 1 => l.phase = "review" /\ l.prior = 0 /\ OfSlug(l.slug, reviews) = {}
  /\ l.attempt > 1 => \E r \in reviews : Continues(l, r)
  /\ l.reviewer # l.fixer
  /\ \A i \in DOMAIN leases :
       ~ (leases[i].lineage = l.lineage /\ leases[i].attempt = l.attempt)

\* A first lease is for a skill without a committed review.  Nothing keeps the
\* prior review of another from having a child, or a skill from having two first
\* leases: a lease may be stale when it is used.
Leasable(l) ==
  /\ l.attempt \in 1 .. MaxAttempts
  /\ l.attempt = 1 => l.phase = "review" /\ l.prior = 0 /\ OfSlug(l.slug, reviews) = {}
  /\ l.attempt > 1 => \E r \in reviews : Continues(l, r)
  /\ l.reviewer # l.fixer

Issue(l) ==
  /\ Len(leases) < MaxLeases
  /\ Leasable(l)
  /\ leases' = Append(leases, l)
  /\ UNCHANGED <<reviews, rows, done>>

IssueFirst ==
  \E s \in Slugs, v \in Versions, lineage \in Lineages,
     reviewer \in Reviewers, fixer \in Fixers, passed \in CheckResults :
    Issue([slug |-> s, ver |-> v, lineage |-> lineage, attempt |-> 1, prior |-> 0,
           phase |-> "review", reviewer |-> reviewer, fixer |-> fixer, passed |-> passed])

IssueNext ==
  \E r \in reviews, v \in Versions, phase \in Phases,
     reviewer \in Reviewers, fixer \in Fixers, passed \in CheckResults :
    Issue([slug |-> LeaseOf(r).slug, ver |-> v, lineage |-> LeaseOf(r).lineage,
           attempt |-> LeaseOf(r).attempt + 1, prior |-> r.lease,
           phase |-> phase, reviewer |-> reviewer, fixer |-> fixer, passed |-> passed])

-----------------------------------------------------------------------------
(* A lineage, as the readers walk it: from a review along its prior        *)
(* references.                                                             *)

Closed(C) == \A q \in C, p \in reviews : p.lease = LeaseOf(q).prior => p \in C

Chain(r) ==
  {q \in reviews \cup {r} :
     \A C \in SUBSET (reviews \cup {r}) : r \in C /\ Closed(C) => q \in C}

Mentions(f, R) == {r \in R : f \in DOMAIN r.findings}

\* r is the newest review of R that mentions f.
Newest(r, f, R) ==
  /\ r \in Mentions(f, R)
  /\ \A q \in Mentions(f, R) : LeaseOf(q).attempt <= LeaseOf(r).attempt

Mentioned(R) == {f \in Findings : Mentions(f, R) # {}}

\* m may follow o in a later review.
Consistent(o, m) ==
  /\ m.severity = o.severity
  /\ m.change = o.change
  /\ o.disposition = "resolved" => m.disposition = "resolved"

\* Every review of the chain continues the one before it.
Linked(C) ==
  \A q \in C : LeaseOf(q).attempt > 1 => \E p \in C : Continues(LeaseOf(q), p)

\* No context reviews twice, and none reviews what it fixed at any attempt.
Independent(C) ==
  /\ \A q, p \in C : q # p => LeaseOf(q).reviewer # LeaseOf(p).reviewer
  /\ \A q, p \in C : LeaseOf(q).reviewer # LeaseOf(p).fixer

\* _effective_findings: earlier mentions agree with the newest one.
FindingsKept(C) ==
  \A f \in Mentioned(C) : \A r \in Mentions(f, C), top \in C :
    Newest(top, f, C) => Consistent(r.findings[f], top.findings[f])

\* Mutant: the findings of the last review, omitted ones forgotten.
OpenBlockersOfTop(C) ==
  {f \in Mentioned(C) : \E top \in C : /\ \A q \in C : LeaseOf(q).attempt <= LeaseOf(top).attempt
                                       /\ f \in DOMAIN top.findings
                                       /\ top.findings[f].severity = "blocking"
                                       /\ top.findings[f].disposition = "open"}

\* Open by the newest mention, in whichever round that is.
OpenBlockers(C) ==
  {f \in Mentioned(C) : \E top \in C : /\ Newest(top, f, C)
                                       /\ top.findings[f].severity = "blocking"
                                       /\ top.findings[f].disposition = "open"}

-----------------------------------------------------------------------------
(* Readiness, in Python and in SQL.                                        *)

\* Mutant: the readiness of a review follows the rounds after it.
ReadyReviewToday(r) ==
  LET C == OfSlug(LeaseOf(r).slug, reviews) IN
  /\ Linked(C)
  /\ Independent(C)
  /\ FindingsKept(C)
  /\ LeaseOf(r).phase = "recheck"
  /\ LeaseOf(r).passed
  /\ OpenBlockers(C) = {}

\* readiness_for_review: READY by the review and its ancestors alone.
ReadyReview(r) ==
  LET C == Chain(r) IN
  /\ Linked(C)
  /\ Independent(C)
  /\ FindingsKept(C)
  /\ LeaseOf(r).phase = "recheck"
  /\ LeaseOf(r).passed
  /\ OpenBlockers(C) = {}

\* readiness_for_version is READY and cites r: the latest review of its exact
\* version, in a skill with one complete lineage.
ReadyVersion(r) ==
  LET S == OfSlug(LeaseOf(r).slug, reviews) IN
  /\ \A q \in S : LeaseOf(q).ver = LeaseOf(r).ver => LeaseOf(q).attempt <= LeaseOf(r).attempt
  /\ \A q \in S : LeaseOf(q).lineage = LeaseOf(r).lineage
  /\ \A q, p \in S : LeaseOf(q).attempt = LeaseOf(p).attempt => q = p
  /\ \A q \in S : \A n \in 1 .. LeaseOf(q).attempt : \E p \in S : LeaseOf(p).attempt = n
  /\ Linked(S)
  /\ ReadyReview(r)

\* content_review_ready_v1: like Python's walk, but the review must be the last
\* of its lineage, and a finding is told by category and severity only.
ContentReviewReady(r) ==
  LET C == Chain(r) IN
  /\ Cardinality({q \in OfSlug(LeaseOf(r).slug, reviews) :
                    LeaseOf(q).lineage = LeaseOf(r).lineage}) = LeaseOf(r).attempt
  /\ Linked(C)
  /\ Independent(C)
  /\ \A f \in Mentioned(C) : \A q \in Mentions(f, C), top \in C :
       Newest(top, f, C) =>
         /\ top.findings[f].severity = q.findings[f].severity
         /\ q.findings[f].disposition = "resolved" => top.findings[f].disposition = "resolved"
  /\ LeaseOf(r).phase = "recheck"
  /\ LeaseOf(r).passed
  /\ OpenBlockers(C) = {}

-----------------------------------------------------------------------------
(* Collectors: validation in Python.                                       *)

\* _prepare_review_batch and validate_content_review, on the history read.
Prepared(r) ==
  LET l == LeaseOf(r)
      S == OfSlug(l.slug, reviews)
      attempts == {LeaseOf(q).attempt : q \in S}
      C == Chain(r)
  IN /\ \A q \in S : LeaseOf(q).lineage = l.lineage
     /\ l.attempt \notin attempts
     /\ l.attempt = 1 => S = {}
     /\ l.attempt > 1 =>
          /\ \E p \in S : /\ Continues(l, p)
                          /\ {q \in S : LeaseOf(q).attempt = l.attempt - 1} = {p}
          /\ attempts = 1 .. l.attempt - 1
          /\ Cardinality(S) = l.attempt - 1
     /\ Linked(C)
     /\ Independent(C)
     /\ FindingsKept(C)

\* One orchestrator batch: one phase and attempt; skills, reviewers, lineages
\* and leases pairwise different.
OneBatch(batch) ==
  \A j, k \in DOMAIN batch :
    LET l == LeaseOf(batch[j])
        m == LeaseOf(batch[k])
    IN /\ l.phase = m.phase
       /\ l.attempt = m.attempt
       /\ j # k => /\ l.slug # m.slug
                   /\ l.reviewer # m.reviewer
                   /\ l.lineage # m.lineage

Candidates == [lease : DOMAIN leases, findings : FindingLists]

Begin(c, batch) ==
  /\ rows[c] = <<>>
  /\ rows' = [rows EXCEPT ![c] = batch]
  /\ UNCHANGED <<leases, reviews, done>>

\* collect_review_contract_batch, up to its append_many.
Collect(c) ==
  \E n \in 1 .. MaxBatch : \E batch \in [1 .. n -> Candidates] :
    /\ OneBatch(batch)
    /\ \A k \in 1 .. n : Prepared(batch[k])
    /\ Begin(c, batch)

\* A process with the pipeline role appends a review without the collector.
AppendRaw(c) == \E r \in Candidates : Begin(c, <<r>>)

-----------------------------------------------------------------------------
(* Collectors: the transaction of append_many.                             *)

Inserted(c) == {rows[c][k] : k \in 1 .. done[c]}

\* Mutant: without one_root_per_slug of 0022.
SameKeyWithoutRoot(l, m) ==
  \/ l.lineage = m.lineage /\ l.attempt = m.attempt
  \/ l.prior # 0 /\ l.prior = m.prior

\* Two reviews one unique index does not allow together: lineage_attempt_unique,
\* one_child, one_root_per_slug.  (contract_slug_unique follows from the first.)
SameKey(l, m) ==
  \/ l.lineage = m.lineage /\ l.attempt = m.attempt
  \/ l.prior # 0 /\ l.prior = m.prior
  \/ l.slug = m.slug /\ l.attempt = 1 /\ m.attempt = 1

\* Mutant: a finding is told by its severity only.
FindingsAdmittedBySeverity(findings, H) ==
  \A f \in DOMAIN findings, q \in H : Newest(q, f, H) =>
    /\ findings[f].severity = q.findings[f].severity
    /\ q.findings[f].disposition = "resolved" => findings[f].disposition = "resolved"

\* Mutant: a finding is compared with the latest review only.
FindingsAdmittedByLatest(findings, H) ==
  \A q \in H : (\A p \in H : LeaseOf(p).attempt <= LeaseOf(q).attempt) =>
    \A f \in DOMAIN findings \cap DOMAIN q.findings : Consistent(q.findings[f], findings[f])

\* No finding changes its identity, and none is reopened.
FindingsAdmitted(findings, H) ==
  \A f \in DOMAIN findings, q \in H :
    Newest(q, f, H) => Consistent(q.findings[f], findings[f])

\* Mutant: contexts are compared with the prior review only.
FreshAfterPrior(l, H) ==
  \A q \in H : l.prior = q.lease => /\ LeaseOf(q).reviewer \notin {l.reviewer, l.fixer}
                                    /\ LeaseOf(q).fixer # l.reviewer

FreshContexts(l, H) ==
  \A q \in H : /\ LeaseOf(q).reviewer \notin {l.reviewer, l.fixer}
               /\ LeaseOf(q).fixer # l.reviewer

\* validate_content_review_v2_insert, after the row, on the rows visible to it.
Trigger(l, findings, V) ==
  LET S == OfSlug(l.slug, V)
      H == {q \in S : LeaseOf(q).lineage = l.lineage}
  IN /\ FindingsAdmitted(findings, H)
     /\ S = H
     /\ l.attempt = 1 => S = {}
     /\ l.attempt > 1 => (\E p \in V : Continues(l, p)) /\ FreshContexts(l, H)

Admitted(l, findings, V) ==
  /\ \A q \in V : ~ SameKey(l, LeaseOf(q))
  /\ Trigger(l, findings, V)

NextRow(c) == rows[c][done[c] + 1]

\* d's transaction holds a key that c's next row needs.
Blocks(d, c) ==
  /\ d # c
  /\ done[c] < Len(rows[c])
  /\ \E q \in Inserted(d) : SameKey(LeaseOf(NextRow(c)), LeaseOf(q))

\* Mutant: the rows are dropped, the count of inserted ones stays.
RollbackRows(c) ==
  /\ rows' = [rows EXCEPT ![c] = <<>>]
  /\ UNCHANGED <<leases, reviews, done>>

\* Mutant: the transaction is repeated until it succeeds.
RepeatTransaction(c) ==
  /\ done' = [done EXCEPT ![c] = 0]
  /\ UNCHANGED <<leases, reviews, rows>>

\* The connection context rolls everything back.
Rollback(c) ==
  /\ rows' = [rows EXCEPT ![c] = <<>>]
  /\ done' = [done EXCEPT ![c] = 0]
  /\ UNCHANGED <<leases, reviews>>

InsertRow(c) ==
  /\ done[c] < Len(rows[c])
  /\ \A d \in Collectors : ~ Blocks(d, c)
  /\ Admitted(LeaseOf(NextRow(c)), NextRow(c).findings, reviews \cup Inserted(c))
  /\ done' = [done EXCEPT ![c] = @ + 1]
  /\ UNCHANGED <<leases, reviews, rows>>

\* A unique violation or an exception of the trigger ends the transaction.
Refused(c) ==
  /\ done[c] < Len(rows[c])
  /\ \A d \in Collectors : ~ Blocks(d, c)
  /\ ~ Admitted(LeaseOf(NextRow(c)), NextRow(c).findings, reviews \cup Inserted(c))
  /\ Rollback(c)

\* Transactions in a cycle of waits: the database ends one of them.
DeadlockVictim(c) ==
  /\ \E C \in SUBSET Collectors :
       /\ c \in C
       /\ \A d \in C : (\E e \in C : Blocks(d, e)) /\ (\E e \in C : Blocks(e, d))
  /\ Rollback(c)

\* The process or its connection dies before the commit.
Crash(c) ==
  /\ rows[c] # <<>>
  /\ Rollback(c)

Commit(c) ==
  /\ rows[c] # <<>>
  /\ done[c] = Len(rows[c])
  /\ reviews' = reviews \cup Inserted(c)
  /\ rows' = [rows EXCEPT ![c] = <<>>]
  /\ done' = [done EXCEPT ![c] = 0]
  /\ UNCHANGED leases

-----------------------------------------------------------------------------
Next ==
  \/ IssueFirst
  \/ IssueNext
  \/ \E c \in Collectors : \/ Collect(c)
                           \/ AppendRaw(c)
                           \/ InsertRow(c)
                           \/ Refused(c)
                           \/ DeadlockVictim(c)
                           \/ Crash(c)
                           \/ Commit(c)

Spec == Init /\ [][Next]_vars

\* A running call keeps running, and the database searches for deadlocks after
\* deadlock_timeout.  An insert that waits is woken when the transaction it
\* waits for ends; transactions that begin later do not overtake it for ever.
Fairness ==
  \A c \in Collectors : /\ SF_vars(InsertRow(c) \/ Refused(c))
                        /\ WF_vars(DeadlockVictim(c))
                        /\ WF_vars(Commit(c))

FairSpec == Spec /\ Fairness

-----------------------------------------------------------------------------
(* Properties.                                                             *)

\* However many collectors and raw writers race, the reviews of a skill form
\* one gap-free lineage: one lineage id, one review per attempt, each later
\* attempt continuing the one before it without going back in version.  A root
\* or a child that slips in beside another resets the skill's review history.
OneLineage ==
  /\ \A q, p \in reviews :
       LeaseOf(q).slug = LeaseOf(p).slug =>
         /\ LeaseOf(q).lineage = LeaseOf(p).lineage
         /\ LeaseOf(q).attempt = LeaseOf(p).attempt => q = p
  /\ \A q \in reviews :
       LeaseOf(q).attempt > 1 => \E p \in reviews : Continues(LeaseOf(q), p)

\* Over the whole lineage no context reviews twice, and no context reviews a
\* skill that it fixed for an earlier or for a later attempt.
IndependentLineage ==
  \A q, p \in reviews :
    LeaseOf(q).slug = LeaseOf(p).slug =>
      /\ q # p => LeaseOf(q).reviewer # LeaseOf(p).reviewer
      /\ LeaseOf(q).reviewer # LeaseOf(p).fixer

(* Why these two hold: what the indexes and the trigger have established   *)
(* about the rows a transaction has inserted stays true until it commits.  *)

\* Every lease was leasable.
Leased ==
  \A i \in DOMAIN leases :
    /\ leases[i].attempt >= 1
    /\ leases[i].attempt = 1 => leases[i].prior = 0
    /\ leases[i].attempt > 1 => \E r \in reviews : Continues(leases[i], r)
    /\ leases[i].reviewer # leases[i].fixer

\* No two rows, committed or not, share a unique key.
Keyed ==
  /\ \A q, p \in reviews : q # p => ~ SameKey(LeaseOf(q), LeaseOf(p))
  /\ \A c \in Collectors : \A q \in Inserted(c) :
       /\ \A p \in reviews : ~ SameKey(LeaseOf(q), LeaseOf(p))
       /\ \A p \in Inserted(c) : q # p => ~ SameKey(LeaseOf(q), LeaseOf(p))
       /\ \A d \in Collectors \ {c} : \A p \in Inserted(d) :
            ~ SameKey(LeaseOf(q), LeaseOf(p))

\* Below every review there is one for each earlier attempt.
Dense ==
  \A q \in reviews : \A n \in 1 .. LeaseOf(q).attempt :
    \E p \in reviews : /\ LeaseOf(p).slug = LeaseOf(q).slug
                       /\ LeaseOf(p).lineage = LeaseOf(q).lineage
                       /\ LeaseOf(p).attempt = n

\* q may stand in one lineage with the committed review p.
Compatible(q, p) ==
  LeaseOf(q).slug = LeaseOf(p).slug =>
    /\ LeaseOf(q).lineage = LeaseOf(p).lineage
    /\ q # p => /\ LeaseOf(p).reviewer \notin {LeaseOf(q).reviewer, LeaseOf(q).fixer}
                /\ LeaseOf(p).fixer # LeaseOf(q).reviewer

Joined ==
  /\ \A q, p \in reviews : Compatible(q, p)
  /\ \A c \in Collectors : \A q \in Inserted(c) :
       /\ \A p \in reviews : Compatible(q, p)
       /\ LeaseOf(q).attempt = 1 => OfSlug(LeaseOf(q).slug, reviews) = {}

LineageInv == TypeOK /\ Leased /\ Keyed /\ Dense /\ Joined

\* A review the database calls ready leaves no blocker behind: every blocking
\* finding any earlier round held open was resolved in a later round up to this
\* one, still as a blocking finding, by a reviewer who neither raised nor fixed
\* it.  Leaving it out, downgrading it or moving to a new version does not help.
BlockersAnswered ==
  \A r \in reviews : ContentReviewReady(r) =>
    \A q \in OfSlug(LeaseOf(r).slug, reviews) : \A f \in DOMAIN q.findings :
      /\ q.findings[f].severity = "blocking"
      /\ q.findings[f].disposition = "open"
      => \E p \in OfSlug(LeaseOf(r).slug, reviews) :
           /\ LeaseOf(q).attempt < LeaseOf(p).attempt
           /\ LeaseOf(p).attempt <= LeaseOf(r).attempt
           /\ f \in DOMAIN p.findings
           /\ p.findings[f].disposition = "resolved"
           /\ p.findings[f].severity = "blocking"
           /\ LeaseOf(p).reviewer \notin {LeaseOf(q).reviewer, LeaseOf(q).fixer, LeaseOf(p).fixer}

IsLast(r) ==
  \A q \in OfSlug(LeaseOf(r).slug, reviews) : LeaseOf(q).attempt <= LeaseOf(r).attempt

\* The gate of the Python callers and the one of the database agree on every
\* review: SQL calls it ready exactly when Python's readiness of its version is
\* READY by it and no later round of the skill, of whatever version, exists.
\* SQL compares less of a finding than Python does; the insert trigger makes up.
ReadinessAgrees ==
  \A r \in reviews : ContentReviewReady(r) <=> ReadyVersion(r) /\ IsLast(r)

\* Python's validation of a batch and the database's admission of a row agree
\* on every result an idle collector can take up, however stale its lease: what
\* the collector validates is refused only if the history moved after it was
\* read, and a raw append gets nothing past the collector's rules.  (A lineage
\* id that another skill uses is seen by the database only.)
AdmissionAgrees ==
  (\E c \in Collectors : rows[c] = <<>>) =>
    \A r \in Candidates :
      (\A q \in reviews : LeaseOf(q).lineage = LeaseOf(r).lineage
                            => LeaseOf(q).slug = LeaseOf(r).slug)
      => (Prepared(r) <=> Admitted(LeaseOf(r), r.findings, reviews))

\* The rules written twice, in Python and in SQL, decide alike wherever both
\* decide: on what is ready, and on what may be appended.
GatesAgree == ReadinessAgrees /\ AdmissionAgrees

\* A lease nobody will ever use, a crashed collector or a refused batch never
\* blocks a skill (0018:16-17): the next attempt can be leased again to contexts
\* that are fresh to the lineage, and an empty result of that lease would be
\* admitted.
ReplacementPossible ==
  \A s \in Slugs, reviewer \in Reviewers, fixer \in Fixers :
    LET S == OfSlug(s, reviews)
        reviewed == {LeaseOf(q).reviewer : q \in S}
        fixed == {LeaseOf(q).fixer : q \in S}
    IN \A r \in S :
         /\ IsLast(r)
         /\ LeaseOf(r).attempt < MaxAttempts
         /\ reviewer \notin reviewed \cup fixed \cup {fixer}
         /\ fixer \notin reviewed
         => LET l == [slug |-> s, ver |-> LeaseOf(r).ver, lineage |-> LeaseOf(r).lineage,
                      attempt |-> LeaseOf(r).attempt + 1, prior |-> r.lease,
                      phase |-> "recheck", reviewer |-> reviewer, fixer |-> fixer,
                      passed |-> TRUE]
            IN Leasable(l) /\ Admitted(l, <<>>, reviews)

\* Later review work does not rewrite history (gate.py:747-748): the readiness
\* of one review by itself, which a published badge shows, is decided for good
\* when the review is committed.
ReadinessFrozen ==
  [][\A r \in reviews : (ReadyReview(r))' <=> ReadyReview(r)]_vars

\* No call hangs: transactions that insert several rows in different orders may
\* wait for each other, and still each of them commits or is rolled back.
EveryCallEnds == \A c \in Collectors : rows[c] # <<>> ~> rows[c] = <<>>

\* What publication reads of the ledger.
ReviewAt(s, n) == CHOOSE r \in OfSlug(s, reviews) : LeaseOf(r).attempt = n

Rounds ==
  [s \in Slugs |->
     [n \in 1 .. Cardinality(OfSlug(s, reviews)) |->
        [ver |-> LeaseOf(ReviewAt(s, n)).ver, ok |-> ReadyReview(ReviewAt(s, n))]]]

Log == INSTANCE RoundLog WITH rounds <- Rounds

\* The ledger is, for publication, an append-only log of decided rounds: the
\* assumption the module Publication makes of content review.
LogRefinement == Log!RoundLogSpec
=============================================================================
