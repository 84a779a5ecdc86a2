---------------------------- MODULE Publication ----------------------------
(***************************************************************************)
(* The publication ledger: human decisions on skill versions and the       *)
(* projection that makes some of them visible.  Concurrent callers run     *)
(* decide_publication (governance/publish.py) and decide_unpublication     *)
(* (governance/rollback.py); both read evidence in one or more snapshots   *)
(* and append much later, in a transaction of append_verified_approval or  *)
(* activate_verified_publication (migration 0011).  Between the reads and  *)
(* the append other callers decide, reviewers add rounds, administrators   *)
(* change the trust policy, rows are imported and connections die.         *)
(***************************************************************************)
EXTENDS Naturals, Sequences, FiniteSets

CONSTANTS
  Slugs,          \* skills
  MaxVersion,     \* versions are 1 .. MaxVersion in semver order
  Clients,        \* concurrent callers
  Signers,        \* what makes two decisions the same: identity and reason
  Skew,           \* Skew[c]: how far c's clock runs ahead of the database's
  Scores,         \* scores of security aggregates (see SecurityAggregate)
  Thresholds,     \* approve_threshold values an administrator may configure
  MaxApprovals,   \* bound: approval artifacts
  MaxImports,     \* bound: approval artifacts appended raw
  MaxRounds,      \* bound: content-review rounds of one slug
  MaxTime,        \* bound: ticks of the database clock
  NoClient,       \* the holder of a free lock
  NoCall          \* the call of an idle client

\* A security aggregate scores 1 when its verdict is reject; 2 is the fixed
\* MIN_APPROVAL_SAFETY of the Python gate.
MinApprovalSafety == 2

ASSUME ConstantsAssumption ==
  /\ MaxVersion \in Nat
  /\ MaxApprovals \in Nat
  /\ MaxImports \in Nat
  /\ MaxRounds \in Nat
  /\ MaxTime \in Nat
  /\ Skew \in [Clients -> Nat]
  /\ Scores \subseteq Nat \ {0}
  /\ Thresholds \subseteq Nat
  /\ NoClient \notin Clients

VARIABLES
  lineage,    \* lineage[s]: the content-review rounds of s, append-only
  aggregate,  \* aggregate[s][v]: best security aggregate of the version, 0 if none
  threshold,  \* approve_threshold of the enabled trust policy
  approvals,  \* approval artifacts in commit order; the index is the id
  events,     \* verified_publication_events
  lock,       \* lock[s]: holder of the advisory transaction lock of the slug
  pc,         \* pc[c]: where client c is
  call,       \* call[c]: what client c is about to write
  now         \* the database clock

vars == <<lineage, aggregate, threshold, approvals, events, lock, pc, call, now>>

Versions == 1 .. MaxVersion

\* A round reviews one version; ok when content_review_ready_v1 holds of it as
\* far as the round's own chain decides (recheck, checks passed, no blocker).
Round == [ver : Versions, ok : BOOLEAN]

Decisions == {"approve", "reject", "unpublish"}

\* corrects is 0 for NULL; via tells an actuator append from a raw one.
Row == [decision : Decisions, slug : Slugs, ver : Versions, content : Nat,
        by : Signers, corrects : Nat, ts : Nat, via : {"actuator", "raw"}]

Event == [approval : Nat, decision : Decisions, slug : Slugs, ver : Versions,
          corrects : Nat, threshold : Nat, at : Nat]

\* target is the row to activate, 0 when the row is still to be appended.
Call == [row : Row, target : Nat, threshold : Nat, at : Nat]

Phases == {"idle", "checked", "append", "activate", "sharing", "commit"}

TypeOK ==
  /\ lineage \in [Slugs -> Seq(Round)]
  /\ aggregate \in [Slugs -> [Versions -> Nat]]
  /\ threshold \in Nat
  /\ approvals \in Seq(Row)
  /\ events \subseteq Event
  /\ lock \in [Slugs -> Clients \cup {NoClient}]
  /\ pc \in [Clients -> Phases]
  /\ call \in [Clients -> Call \cup {NoCall}]
  /\ \A c \in Clients : pc[c] # "idle" => call[c] \in Call
  /\ now \in Nat

Init ==
  /\ lineage = [s \in Slugs |-> <<>>]
  /\ aggregate = [s \in Slugs |-> [v \in Versions |-> 0]]
  /\ threshold \in Thresholds
  /\ approvals = <<>>
  /\ events = {}
  /\ lock = [s \in Slugs |-> NoClient]
  /\ pc = [c \in Clients |-> "idle"]
  /\ call = [c \in Clients |-> NoCall]
  /\ now = 0

-----------------------------------------------------------------------------
(* Readings of the ledger.                                                 *)

Later(t, u) == IF t > u THEN t ELSE u

Projected(i) == \E e \in events : e.approval = i

Approved(s) == {e \in events : e.slug = s /\ e.decision = "approve"}

\* Uncorrected approve events: what the catalog of SQL readers shows.
Heads(s) == {e \in Approved(s) : \A f \in events : f.corrects # e.approval}

RawCorrections(i) == {j \in DOMAIN approvals : approvals[j].corrects = i}

SameDecision(r, q) ==
  /\ r.decision = q.decision
  /\ r.slug = q.slug
  /\ r.ver = q.ver
  /\ r.content = q.content
  /\ r.by = q.by

\* The round is the last one of its slug's lineage, over all versions.
ContentReviewReady(r) ==
  /\ r.content = Len(lineage[r.slug])
  /\ r.content \in DOMAIN lineage[r.slug]
  /\ lineage[r.slug][r.content] = [ver |-> r.ver, ok |-> TRUE]

\* Mutant: only the version shown now has to be older, not withdrawn ones.
ExceedsHead(r) == \A e \in Heads(r.slug) : e.ver < r.ver

\* Every projected approval of the slug is of an older version.
ExceedsHistory(r) == \A e \in Approved(r.slug) : e.ver < r.ver

\* Mutant: the starting time of the correction is not compared.
CorrectsAnyTime(r) ==
  \E e \in events :
    /\ e.approval = r.corrects
    /\ e.decision = "approve"
    /\ e.slug = r.slug
    /\ r.decision = "approve" => e.ver < r.ver
    /\ r.decision = "unpublish" => /\ e.ver = r.ver
                                   /\ approvals[e.approval].content = r.content

\* Mutant: a correction may name a publication of another skill.
CorrectsAnySkill(r) ==
  \E e \in events :
    /\ e.approval = r.corrects
    /\ e.decision = "approve"
    /\ approvals[e.approval].ts <= r.ts

\* The corrected row is a projected approval of the same skill, and complete
\* by the time the correcting decision started.
CorrectsPublication(r) ==
  \E e \in events :
    /\ e.approval = r.corrects
    /\ e.decision = "approve"
    /\ e.slug = r.slug
    /\ approvals[e.approval].ts <= r.ts
    /\ r.decision = "approve" => e.ver < r.ver
    /\ r.decision = "unpublish" => /\ e.ver = r.ver
                                   /\ approvals[e.approval].content = r.content

\* Mutant: the configured threshold is not compared.
ProjectionValidAnyPolicy(r, limit) ==
  /\ r.decision \in {"approve", "unpublish"}
  /\ ContentReviewReady(r)
  /\ aggregate[r.slug][r.ver] >= MinApprovalSafety
  /\ r.decision = "approve" => ExceedsHistory(r)
  /\ r.decision = "unpublish" => r.corrects # 0
  /\ r.corrects # 0 => CorrectsPublication(r)

\* approval_v1_projection_valid, against the policy row the transaction locked.
ProjectionValid(r, limit) ==
  /\ r.decision \in {"approve", "unpublish"}
  /\ ContentReviewReady(r)
  /\ aggregate[r.slug][r.ver] >= MinApprovalSafety
  /\ aggregate[r.slug][r.ver] >= limit
  /\ r.decision = "approve" => ExceedsHistory(r)
  /\ r.decision = "unpublish" => r.corrects # 0
  /\ r.corrects # 0 => CorrectsPublication(r)

\* Mutant: a decision that corrects nothing is not held to an empty slug.
HeadUnchecked(r) == r.corrects # 0 => \A e \in events : e.corrects # r.corrects

\* The rest of activate_verified_publication: a decision that corrects nothing
\* needs a slug without a head, and the projection takes one child per event.
HeadFree(r) ==
  /\ r.decision = "approve" /\ r.corrects = 0 => Heads(r.slug) = {}
  /\ r.corrects # 0 => \A e \in events : e.corrects # r.corrects

Activable(r, limit) == ProjectionValid(r, limit) /\ HeadFree(r)

-----------------------------------------------------------------------------
(* reconcile_publications: the Python readers' view of one bundle.         *)

\* A correction without its approval, across slugs, back in time or in version.
BrokenLink(e) ==
  /\ e.corrects # 0
  /\ ~ \E p \in events :
         /\ p.approval = e.corrects
         /\ p.decision = "approve"
         /\ p.slug = e.slug
         /\ p.at <= e.at
         /\ e.decision = "approve" => p.ver < e.ver

\* The projection's copy disagrees with its approval or precedes it, or the
\* evidence an approval froze is not publishable evidence.
Drifted(e) ==
  \/ e.approval \notin DOMAIN approvals
  \/ LET a == approvals[e.approval] IN
     \/ <<a.decision, a.slug, a.ver, a.corrects>>
          # <<e.decision, e.slug, e.ver, e.corrects>>
     \/ a.ts > e.at
     \/ /\ e.decision = "approve"
        /\ \/ a.content \notin DOMAIN lineage[a.slug]
           \/ lineage[a.slug][a.content] # [ver |-> a.ver, ok |-> TRUE]
           \/ aggregate[a.slug][a.ver] < MinApprovalSafety

\* Sorted by activated_at, the approvals of a slug must ascend in version.  Ties
\* need two commits on one slug in the same microsecond and count as ascending.
OutOfOrder(s) ==
  \E e, f \in Approved(s) : e.at < f.at /\ f.ver <= e.ver

Branched(s) ==
  \E e, f \in events : e # f /\ e.slug = s /\ e.corrects # 0 /\ e.corrects = f.corrects

\* The slug is quarantined.
Affected(s) ==
  \/ \E e \in events : e.slug = s /\ (BrokenLink(e) \/ Drifted(e))
  \/ OutOfOrder(s)
  \/ Branched(s)
  \/ Cardinality(Heads(s)) > 1

\* Any issue of any slug: decide_publication refuses to approve anything.
Clean == \A s \in Slugs : ~ Affected(s)

ActiveBySlug(s) == IF Affected(s) THEN {} ELSE Heads(s)

-----------------------------------------------------------------------------
(* The pipeline, the reviewers and the administrators, as far as           *)
(* publication sees them.                                                  *)

\* A scan pipeline run ends with an aggregate; a decision cites the best one.
SecurityAggregate(s, v, score) ==
  /\ aggregate[s][v] < score
  /\ aggregate' = [aggregate EXCEPT ![s][v] = score]
  /\ UNCHANGED <<lineage, threshold, approvals, events, lock, pc, call, now>>

\* A content-review round: versions never go back, and a publishable round is a
\* recheck, which has at least one earlier round.
ContentRound(s, v, ok) ==
  /\ Len(lineage[s]) < MaxRounds
  /\ lineage[s] # <<>> => lineage[s][Len(lineage[s])].ver <= v
  /\ ok => lineage[s] # <<>>
  /\ lineage' = [lineage EXCEPT ![s] = Append(@, [ver |-> v, ok |-> ok])]
  /\ UNCHANGED <<aggregate, threshold, approvals, events, lock, pc, call, now>>

\* Mutant: the row lock ends with the statement, not with the transaction.
SharingUntilRead(c) == pc[c] = "sharing"

\* Transactions that hold the policy row FOR SHARE.
Sharing(c) ==
  \/ pc[c] = "sharing"
  \/ pc[c] = "commit" /\ call[c].row.decision # "reject"

\* An administrator's UPDATE of the policy row waits for those transactions.
ConfigurePolicy(limit) ==
  /\ threshold # limit
  /\ \A c \in Clients : ~ Sharing(c)
  /\ threshold' = limit
  /\ UNCHANGED <<lineage, aggregate, approvals, events, lock, pc, call, now>>

Tick ==
  /\ now < MaxTime
  /\ now' = now + 1
  /\ UNCHANGED <<lineage, aggregate, threshold, approvals, events, lock, pc, call>>

-----------------------------------------------------------------------------
(* decide_publication and decide_unpublication, before their append.       *)

Writing == {c \in Clients : pc[c] \in {"checked", "append", "commit"}}

\* Bound: every call in progress can still append its row.
Room == Len(approvals) + Cardinality(Writing) < MaxApprovals

Begin(c, phase, row, target) ==
  /\ pc[c] = "idle"
  /\ pc' = [pc EXCEPT ![c] = phase]
  /\ call' = [call EXCEPT ![c] = [row |-> row, target |-> target,
                                  threshold |-> 0, at |-> 0]]

Return(c) ==
  /\ pc' = [pc EXCEPT ![c] = "idle"]
  /\ call' = [call EXCEPT ![c] = NoCall]

\* approve, first reads: exact evidence, and content review n is ready and the
\* latest round of this version (not of the slug).
ApproveCheck(c, s, v, n, by) ==
  /\ Room
  /\ lineage[s][n] = [ver |-> v, ok |-> TRUE]
  /\ \A m \in DOMAIN lineage[s] : lineage[s][m].ver = v => m <= n
  /\ aggregate[s][v] >= MinApprovalSafety
  /\ Begin(c, "checked",
           [decision |-> "approve", slug |-> s, ver |-> v, content |-> n, by |-> by,
            corrects |-> 0, ts |-> 0, via |-> "actuator"], 0)
  /\ UNCHANGED <<lineage, aggregate, threshold, approvals, events, lock, now>>

\* The same decision, projected and not corrected by any raw approval: the call
\* returns it (activating it again changes nothing).
AlreadyPublished(r) ==
  \E e \in events :
    /\ e.approval \in DOMAIN approvals
    /\ SameDecision(approvals[e.approval], r)
    /\ RawCorrections(e.approval) = {}

\* approve, second reads: one repeatable-read bundle, reconciled.  The row
\* corrects the active head the bundle shows.
ApproveReconcile(c) ==
  /\ pc[c] = "checked"
  /\ LET r == call[c].row
         heads == {e.approval : e \in ActiveBySlug(r.slug)}
     IN IF Clean /\ ~ AlreadyPublished(r) /\ ExceedsHistory(r)
        THEN /\ pc' = [pc EXCEPT ![c] = "append"]
             /\ \E corrects \in IF heads = {} THEN {0} ELSE heads :
                  call' = [call EXCEPT ![c].row = [r EXCEPT !.corrects = corrects,
                                                            !.ts = now + Skew[c]]]
        ELSE Return(c)
  /\ UNCHANGED <<lineage, aggregate, threshold, approvals, events, lock, now>>

\* reject: the evidence must exist, not pass.  A standing equal rejection is
\* returned as it is.
RejectCheck(c, s, v, n, by) ==
  LET r == [decision |-> "reject", slug |-> s, ver |-> v, content |-> n, by |-> by,
            corrects |-> 0, ts |-> now + Skew[c], via |-> "actuator"]
  IN /\ Room
     /\ lineage[s][n].ver = v
     /\ aggregate[s][v] > 0
     /\ \A i \in DOMAIN approvals :
          SameDecision(approvals[i], r) => RawCorrections(i) # {}
     /\ Begin(c, "append", r, 0)
     /\ UNCHANGED <<lineage, aggregate, threshold, approvals, events, lock, now>>

\* unpublish of approval i.  Every raw correction counts: an unpublication that
\* was never activated is activated now, any other correction refuses the call.
UnpublishCheck(c, i, by) ==
  /\ approvals[i].decision = "approve"
  /\ \/ /\ RawCorrections(i) = {}
        /\ Room
        /\ Begin(c, "append", [approvals[i] EXCEPT !.decision = "unpublish", !.by = by,
                                                   !.corrects = i, !.via = "actuator",
                                                   !.ts = now + Skew[c]], 0)
     \/ \E j \in RawCorrections(i) :
          /\ approvals[j].decision = "unpublish"
          /\ Begin(c, "activate", approvals[j], j)
  /\ UNCHANGED <<lineage, aggregate, threshold, approvals, events, lock, now>>

\* store.activate_approval of a row that is already in the artifact log.
ActivateRequest(c, i) ==
  /\ ~ Projected(i)
  /\ Begin(c, "activate", approvals[i], i)
  /\ UNCHANGED <<lineage, aggregate, threshold, approvals, events, lock, now>>

\* store.append of an approval artifact: the trigger checks its shape, the
\* unique index of migration 0009 that nothing else corrects the same row; the
\* insert waits for, and loses to, an uncommitted correction of that row.
Import(r) ==
  /\ Room
  /\ Cardinality({i \in DOMAIN approvals : approvals[i].via = "raw"}) < MaxImports
  /\ r.via = "raw"
  /\ r.ts = now
  /\ r.content \in DOMAIN lineage[r.slug]
  /\ aggregate[r.slug][r.ver] > 0
  /\ r.decision = "reject" => r.corrects = 0
  /\ r.decision = "unpublish" => r.corrects # 0
  /\ r.corrects # 0 =>
       /\ r.corrects \in DOMAIN approvals
       /\ RawCorrections(r.corrects) = {}
       /\ \A c \in Clients : pc[c] = "commit" => call[c].row.corrects # r.corrects
  /\ approvals' = Append(approvals, r)
  /\ UNCHANGED <<lineage, aggregate, threshold, events, lock, pc, call, now>>

-----------------------------------------------------------------------------
(* The database transactions.                                              *)

\* Mutant: only projected decisions are recognised.
ProjectedTwin(r) ==
  \E i \in DOMAIN approvals :
    /\ SameDecision(approvals[i], r)
    /\ approvals[i].corrects = r.corrects
    /\ Projected(i)

\* Semantic twin of a decision: rejections match any such row, publishing
\* decisions only a projected one.
Twin(r) ==
  \E i \in DOMAIN approvals :
    /\ SameDecision(approvals[i], r)
    /\ approvals[i].corrects = r.corrects
    /\ r.decision # "reject" => Projected(i)

\* Mutant: the slug lock is not taken.
AppendUnlocked(c) ==
  /\ pc[c] = "append"
  /\ LET r == call[c].row IN
     IF /\ ~ Twin(r)
        /\ r.corrects # 0 => RawCorrections(r.corrects) = {}
        /\ r.decision # "reject" => Activable(r, threshold)
     THEN /\ pc' = [pc EXCEPT ![c] = "commit"]
          /\ call' = [call EXCEPT ![c].threshold = threshold,
                                  ![c].at = Later(now, r.ts)]
     ELSE Return(c)
  /\ UNCHANGED <<lineage, aggregate, threshold, approvals, events, lock, now>>

\* append_verified_approval up to its commit: under the slug lock, an equal
\* decision is returned; otherwise the row is inserted and, unless it is a
\* rejection, activated, or the whole transaction is rolled back.
AppendBegin(c) ==
  /\ pc[c] = "append"
  /\ LET r == call[c].row IN
     /\ lock[r.slug] = NoClient
     /\ IF /\ ~ Twin(r)
           /\ r.corrects # 0 => RawCorrections(r.corrects) = {}
           /\ r.decision # "reject" => Activable(r, threshold)
        THEN /\ lock' = [lock EXCEPT ![r.slug] = c]
             /\ pc' = [pc EXCEPT ![c] = "commit"]
             /\ call' = [call EXCEPT ![c].threshold = threshold,
                                     ![c].at = Later(now, r.ts)]
        ELSE Return(c) /\ UNCHANGED lock
  /\ UNCHANGED <<lineage, aggregate, threshold, approvals, events, now>>

\* activate_verified_publication called directly: the policy row is locked and
\* read before the slug lock is asked for.
ActivateShare(c) ==
  /\ pc[c] = "activate"
  /\ IF Projected(call[c].target)
     THEN Return(c)
     ELSE /\ pc' = [pc EXCEPT ![c] = "sharing"]
          /\ call' = [call EXCEPT ![c].threshold = threshold]
  /\ UNCHANGED <<lineage, aggregate, threshold, approvals, events, lock, now>>

ActivateBegin(c) ==
  /\ pc[c] = "sharing"
  /\ LET r == call[c].row IN
     /\ lock[r.slug] = NoClient
     /\ IF ~ Projected(call[c].target) /\ Activable(r, call[c].threshold)
        THEN /\ lock' = [lock EXCEPT ![r.slug] = c]
             /\ pc' = [pc EXCEPT ![c] = "commit"]
             /\ call' = [call EXCEPT ![c].at = Later(now, r.ts)]
        ELSE Return(c) /\ UNCHANGED lock
  /\ UNCHANGED <<lineage, aggregate, threshold, approvals, events, now>>

\* The row that the commit of c makes visible.
RowId(c) == IF call[c].target = 0 THEN Len(approvals) + 1 ELSE call[c].target

\* Mutant: the projection does not say what it corrects.
ProjectionUnlinked(c) ==
  LET r == call[c].row IN
  [approval |-> RowId(c), decision |-> r.decision, slug |-> r.slug, ver |-> r.ver,
   corrects |-> 0, threshold |-> call[c].threshold, at |-> call[c].at]

Projection(c) ==
  LET r == call[c].row IN
  [approval |-> RowId(c), decision |-> r.decision, slug |-> r.slug, ver |-> r.ver,
   corrects |-> r.corrects, threshold |-> call[c].threshold, at |-> call[c].at]

Commit(c) ==
  /\ pc[c] = "commit"
  /\ approvals' = IF call[c].target = 0 THEN Append(approvals, call[c].row) ELSE approvals
  /\ events' = IF call[c].row.decision = "reject" THEN events
               ELSE events \cup {Projection(c)}
  /\ lock' = [lock EXCEPT ![call[c].row.slug] = NoClient]
  /\ Return(c)
  /\ UNCHANGED <<lineage, aggregate, threshold, now>>

\* Mutant: the lock outlives the connection.
CrashKeepsLock(c) ==
  /\ pc[c] # "idle"
  /\ Return(c)
  /\ UNCHANGED <<lineage, aggregate, threshold, approvals, events, lock, now>>

\* Mutant: the caller goes on without the call it was making.
CrashKeepsPhase(c) ==
  /\ pc[c] # "idle"
  /\ lock' = [s \in Slugs |-> IF lock[s] = c THEN NoClient ELSE lock[s]]
  /\ call' = [call EXCEPT ![c] = NoCall]
  /\ UNCHANGED <<lineage, aggregate, threshold, approvals, events, pc, now>>

\* The process, or its connection, dies: PostgreSQL rolls back and unlocks.
Crash(c) ==
  /\ pc[c] # "idle"
  /\ lock' = [s \in Slugs |-> IF lock[s] = c THEN NoClient ELSE lock[s]]
  /\ Return(c)
  /\ UNCHANGED <<lineage, aggregate, threshold, approvals, events, now>>

-----------------------------------------------------------------------------
Environment ==
  \/ \E s \in Slugs, v \in Versions :
       \/ \E score \in Scores : SecurityAggregate(s, v, score)
       \/ \E ok \in BOOLEAN : ContentRound(s, v, ok)
  \/ \E limit \in Thresholds : ConfigurePolicy(limit)
  \/ Tick
  \/ \E d \in Decisions, s \in Slugs, v \in Versions, by \in Signers :
       \E n \in DOMAIN lineage[s], corrects \in 0 .. Len(approvals) :
         Import([decision |-> d, slug |-> s, ver |-> v, content |-> n, by |-> by,
                 corrects |-> corrects, ts |-> now, via |-> "raw"])

\* What a caller may start, and the steps of what it started.
Start(c) ==
  \/ \E s \in Slugs, v \in Versions, by \in Signers :
       \E n \in DOMAIN lineage[s] :
         \/ ApproveCheck(c, s, v, n, by)
         \/ RejectCheck(c, s, v, n, by)
  \/ \E i \in DOMAIN approvals :
       \/ \E by \in Signers : UnpublishCheck(c, i, by)
       \/ ActivateRequest(c, i)

Progress(c) ==
  \/ ApproveReconcile(c)
  \/ AppendBegin(c)
  \/ ActivateShare(c)
  \/ ActivateBegin(c)
  \/ Commit(c)

Next == Environment \/ \E c \in Clients : Start(c) \/ Progress(c) \/ Crash(c)

Spec == Init /\ [][Next]_vars

\* A caller that runs keeps running; the lock queue of a slug is first come,
\* first served, so a waiting transaction is not passed over for ever.
Fairness ==
  \A c \in Clients :
    /\ WF_vars(ApproveReconcile(c) \/ ActivateShare(c) \/ Commit(c))
    /\ SF_vars(AppendBegin(c) \/ ActivateBegin(c))

FairSpec == Spec /\ Fairness

-----------------------------------------------------------------------------
(* Properties.                                                             *)

\* Concurrent approvals, corrections and imports leave a slug at most one
\* uncorrected approval: the SQL readers, which show a slug only when its head
\* is unique, never lose one to a race.
OneHead ==
  \A s \in Slugs : \A e, f \in Heads(s) : e = f

\* What a slug shows is newer than everything it showed before: neither a
\* superseded nor a withdrawn version is shown again.
HeadIsNewest ==
  \A s \in Slugs : \A e \in Heads(s), f \in Approved(s) : f # e => f.ver < e.ver

\* Two callers that read the same head cannot both correct it.
OneCorrection ==
  \A e, f \in events : e.corrects # 0 /\ e.corrects = f.corrects => e = f

EffectOnHeadRead ==
  \A s \in Slugs : Heads(s)' # Heads(s) =>
    \E c \in Clients :
      /\ pc[c] = "commit"
      /\ call[c].row.slug = s
      /\ {e.approval : e \in Heads(s)} = {call[c].row.corrects} \ {0}

\* A decision takes effect only on the head its caller read: what a concurrent
\* caller published, superseded or pulled in between refuses it.  Activation of
\* an imported row is held to the head that row names.
TakesEffectOnHeadRead == [][EffectOnHeadRead]_vars

\* However far a caller's clock runs ahead, no correction is recorded as
\* earlier than the approval it corrects.
CorrectionsInOrder ==
  \A e, f \in events : f.corrects = e.approval => e.at <= f.at

\* Everything projected was complete evidence under the policy frozen with it,
\* even when rows are imported and the policy is tightened meanwhile.
FrozenEvidence ==
  \A e \in events : e.decision = "approve" =>
    /\ approvals[e.approval].content \in DOMAIN lineage[e.slug]
    /\ lineage[e.slug][approvals[e.approval].content] = [ver |-> e.ver, ok |-> TRUE]
    /\ aggregate[e.slug][e.ver] >= Later(MinApprovalSafety, e.threshold)

\* Nothing is projected under a policy that is no longer the configured one.
PolicyHeldToCommit ==
  [][\A e \in events' \ events : e.threshold = threshold]_vars

\* A double submission, or a retry after a lost reply, leaves one row: no two
\* rows that came through the actuator are the same decision.
DecidedOnce ==
  \A i, j \in DOMAIN approvals :
    /\ approvals[i].via = "actuator"
    /\ approvals[j].via = "actuator"
    /\ SameDecision(approvals[i], approvals[j])
    /\ approvals[i].corrects = approvals[j].corrects
    => i = j

\* The Python consumers, which reconcile a bundle, show what the SQL readers
\* show, and never find an issue in what the actuator wrote.
ConsumersAgree ==
  Clean /\ \A s \in Slugs : ActiveBySlug(s) = Heads(s)

\* Every call of a caller that does not die returns, whoever else is writing.
CallsReturn == \A c \in Clients : pc[c] # "idle" ~> pc[c] = "idle"

\* decide_unpublication of the head, by a caller whose clock is not behind the
\* approval's, writes or activates an unpublication that the actuator accepts.
Pullable(e) ==
  LET r == [approvals[e.approval] EXCEPT !.decision = "unpublish",
                                         !.corrects = e.approval,
                                         !.ts = Later(now, approvals[e.approval].ts)]
      rows == IF RawCorrections(e.approval) = {} THEN {r}
              ELSE {approvals[j] : j \in RawCorrections(e.approval)}
  IN \E q \in rows : q.decision = "unpublish" /\ Activable(q, threshold)

\* docs/ADOPTION.md: "To pull a published skill, append an authenticated
\* unpublication correction."  Whatever has been reviewed since.
PublishedCanBePulled == \A s \in Slugs : \A e \in Heads(s) : Pullable(e)

-----------------------------------------------------------------------------
(* Why a slug has one head: the inductive invariant.                       *)

\* A projection row is the copy of one approval, and names it once.
Faithful ==
  /\ \A e \in events :
       /\ e.approval \in DOMAIN approvals
       /\ e.decision = approvals[e.approval].decision
       /\ e.slug = approvals[e.approval].slug
       /\ e.ver = approvals[e.approval].ver
       /\ e.corrects = approvals[e.approval].corrects
  /\ \A e, f \in events : e.approval = f.approval => e = f

\* The unique index on the artifact log.
CorrectedOnce ==
  \A i, j \in DOMAIN approvals :
    approvals[i].corrects # 0 /\ approvals[i].corrects = approvals[j].corrects => i = j

\* A correction is of a projected approval of the same slug.
Corrects(k, s, p) == p.approval = k /\ p.decision = "approve" /\ p.slug = s

Linked ==
  \A e \in events : e.corrects # 0 => \E p \in events : Corrects(e.corrects, e.slug, p)

\* A call that activates a row of the log carries a copy of that row; one that
\* still has its row to append corrects nothing with a rejection.
TargetedCall(phase, k) ==
  /\ phase \in {"checked", "append"} =>
       /\ k.target = 0
       /\ k.row.decision = "reject" => k.row.corrects = 0
  /\ phase = "checked" => k.row.decision = "approve"
  /\ phase \in {"activate", "sharing"} => k.target # 0
  /\ phase \in {"activate", "sharing", "commit"} /\ k.target # 0 =>
       /\ k.target \in DOMAIN approvals
       /\ approvals[k.target] = k.row

Targeted == \A c \in Clients : TargetedCall(pc[c], call[c])

\* What a transaction found valid stays so until it commits, because it holds
\* the lock of its slug.
PendingRow(r) ==
  /\ r.decision = "reject" => r.corrects = 0
  /\ r.decision = "unpublish" => r.corrects # 0
  /\ r.decision = "approve" => ExceedsHistory(r)
  /\ r.decision = "approve" /\ r.corrects = 0 => Heads(r.slug) = {}
  /\ r.corrects # 0 => /\ \E p \in events : Corrects(r.corrects, r.slug, p)
                       /\ \A e \in events : e.corrects # r.corrects

PendingCall(k) ==
  /\ PendingRow(k.row)
  /\ k.target = 0 /\ k.row.corrects # 0 => RawCorrections(k.row.corrects) = {}
  /\ k.target # 0 => ~ Projected(k.target) /\ k.row.decision # "reject"

Pending ==
  \A c \in Clients : pc[c] = "commit" =>
    lock[call[c].row.slug] = c /\ PendingCall(call[c])

\* The invariant the proofs use: what the transactions rely on between their
\* checks and their commits, with the heads it protects.
LedgerInv ==
  /\ TypeOK
  /\ Faithful
  /\ CorrectedOnce
  /\ Linked
  /\ Targeted
  /\ Pending
  /\ OneHead
  /\ HeadIsNewest

-----------------------------------------------------------------------------
(* The ledger implements the catalog it promises.                          *)

Live == [s \in Slugs |-> {e.ver : e \in Heads(s)}]
Released == [s \in Slugs |-> {e.ver : e \in Approved(s)}]

C == INSTANCE Catalog WITH live <- Live, released <- Released

ImplementsCatalog == C!CatalogSpec
=============================================================================
