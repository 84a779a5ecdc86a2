------------------------- MODULE ReviewLedgerProofs -------------------------
(***************************************************************************)
(* Proofs about the content-review ledger, for any number of skills,       *)
(* leases, contexts, findings and collectors, any batch size and any       *)
(* limit on attempts.  The last part is about what readiness promises: no  *)
(* blocker is lost on the way to ready, the two languages in which         *)
(* readiness is written agree, and a lost lease blocks nobody.             *)
(***************************************************************************)
EXTENDS ReviewLedger, FiniteSetTheorems, TLAPS

-----------------------------------------------------------------------------
(* Types, and the kinds of steps.                                          *)

\* What any step of the ledger does to the state.
StepKinds ==
  \/ UNCHANGED vars
  \/ \E l \in Lease : Issue(l)
  \/ \E c \in Collectors :
       \/ \E batch \in Seq(Review) : /\ \A k \in DOMAIN batch : batch[k].lease \in DOMAIN leases
                                     /\ Begin(c, batch)
       \/ InsertRow(c)
       \/ Rollback(c)
       \/ Commit(c)

LEMMA Steps == ASSUME TypeOK, [Next]_vars PROVE StepKinds
<1> USE ConstantsAssumption
<1>1. CASE IssueFirst
  <2>1. PICK s \in Slugs, v \in Versions, lineage \in Lineages, reviewer \in Reviewers,
             fixer \in Fixers, passed \in CheckResults :
          Issue([slug |-> s, ver |-> v, lineage |-> lineage, attempt |-> 1, prior |-> 0,
                 phase |-> "review", reviewer |-> reviewer, fixer |-> fixer,
                 passed |-> passed])
    BY <1>1 DEF IssueFirst
  <2>2. [slug |-> s, ver |-> v, lineage |-> lineage, attempt |-> 1, prior |-> 0,
         phase |-> "review", reviewer |-> reviewer, fixer |-> fixer,
         passed |-> passed] \in Lease
    BY DEF Lease, Phases
  <2> QED
    BY <2>1, <2>2 DEF StepKinds
<1>2. CASE IssueNext
  <2>1. PICK r \in reviews, v \in Versions, phase \in Phases, reviewer \in Reviewers,
             fixer \in Fixers, passed \in CheckResults :
          Issue([slug |-> LeaseOf(r).slug, ver |-> v, lineage |-> LeaseOf(r).lineage,
                 attempt |-> LeaseOf(r).attempt + 1, prior |-> r.lease, phase |-> phase,
                 reviewer |-> reviewer, fixer |-> fixer, passed |-> passed])
    BY <1>2 DEF IssueNext
  <2>2. LeaseOf(r) \in Lease /\ r.lease \in Nat
    BY DEF TypeOK, LeaseOf, Review
  <2>3. [slug |-> LeaseOf(r).slug, ver |-> v, lineage |-> LeaseOf(r).lineage,
         attempt |-> LeaseOf(r).attempt + 1, prior |-> r.lease, phase |-> phase,
         reviewer |-> reviewer, fixer |-> fixer, passed |-> passed] \in Lease
    BY <2>2 DEF Lease
  <2> QED
    BY <2>1, <2>3 DEF StepKinds
<1>3. ASSUME NEW c \in Collectors, NEW n \in Nat, NEW batch \in [1 .. n -> Candidates],
             Begin(c, batch)
      PROVE  StepKinds
  <2>1. batch \in Seq(Review) /\ \A k \in DOMAIN batch : batch[k].lease \in DOMAIN leases
    <3>1. Candidates \subseteq Review
      BY DEF TypeOK, Candidates, Review
    <3> QED
      BY <3>1 DEF Candidates
  <2> QED
    BY <1>3, <2>1 DEF StepKinds
<1>4. ASSUME NEW c \in Collectors, Collect(c)
      PROVE  StepKinds
  BY <1>3, <1>4 DEF Collect
<1>5. ASSUME NEW c \in Collectors, AppendRaw(c)
      PROVE  StepKinds
  <2>1. PICK r \in Candidates : Begin(c, <<r>>)
    BY <1>5 DEF AppendRaw
  <2>2. <<r>> \in [1 .. 1 -> Candidates]
    OBVIOUS
  <2> QED
    BY <1>3, <2>1, <2>2
<1>6. ASSUME NEW c \in Collectors, Refused(c) \/ DeadlockVictim(c) \/ Crash(c)
      PROVE  StepKinds
  BY <1>6 DEF Refused, DeadlockVictim, Crash, StepKinds
<1>7. ASSUME NEW c \in Collectors, InsertRow(c) \/ Commit(c)
      PROVE  StepKinds
  BY <1>7 DEF StepKinds
<1> QED
  BY <1>1, <1>2, <1>4, <1>5, <1>6, <1>7 DEF Next, StepKinds

LEMMA TypeInit == Init => TypeOK
<1> SUFFICES ASSUME Init PROVE TypeOK
  OBVIOUS
<1>1. <<>> \in Seq(Lease) /\ <<>> \in Seq(Review)
  OBVIOUS
<1> QED
  BY <1>1 DEF Init, TypeOK

\* What a transaction has inserted are well-typed reviews of issued leases.
LEMMA InsertedType ==
  ASSUME TypeOK, NEW c \in Collectors, NEW q \in Inserted(c)
  PROVE  q \in Review /\ q.lease \in DOMAIN leases
<1>1. PICK k \in 1 .. done[c] : q = rows[c][k]
  BY DEF Inserted
<1>2. rows[c] \in Seq(Review) /\ done[c] \in Nat /\ done[c] <= Len(rows[c])
  BY DEF TypeOK
<1>3. k \in DOMAIN rows[c]
  BY <1>2
<1> QED
  BY <1>1, <1>2, <1>3 DEF TypeOK

LEMMA TypeNext == ASSUME TypeOK, [Next]_vars PROVE TypeOK'
<1>0. StepKinds
  BY Steps
<1>1. CASE UNCHANGED vars
  BY <1>1 DEF TypeOK, vars
<1>2. ASSUME NEW l \in Lease, Issue(l)
      PROVE  TypeOK'
  <2>1. leases' \in Seq(Lease) /\ DOMAIN leases \subseteq DOMAIN leases'
    BY <1>2 DEF TypeOK, Issue
  <2> QED
    BY <1>2, <2>1 DEF TypeOK, Issue
<1>3. ASSUME NEW c \in Collectors, NEW batch \in Seq(Review),
             \A k \in DOMAIN batch : batch[k].lease \in DOMAIN leases,
             Begin(c, batch)
      PROVE  TypeOK'
  <2>1. done[c] = 0
    BY <1>3 DEF Begin, TypeOK
  <2> QED
    BY <1>3, <2>1 DEF Begin, TypeOK
<1>4. ASSUME NEW c \in Collectors, InsertRow(c)
      PROVE  TypeOK'
  <2>1. Len(rows[c]) \in Nat
    BY DEF TypeOK
  <2> QED
    BY <1>4, <2>1 DEF InsertRow, TypeOK
<1>5. ASSUME NEW c \in Collectors, Rollback(c)
      PROVE  TypeOK'
  <2>1. <<>> \in Seq(Review) /\ Len(<<>>) = 0
    OBVIOUS
  <2> QED
    BY <1>5, <2>1 DEF Rollback, TypeOK
<1>6. ASSUME NEW c \in Collectors, Commit(c)
      PROVE  TypeOK'
  <2>1. <<>> \in Seq(Review) /\ Len(<<>>) = 0
    OBVIOUS
  <2>2. \A q \in Inserted(c) : q \in Review /\ q.lease \in DOMAIN leases
    BY InsertedType
  <2> QED
    BY <1>6, <2>1, <2>2 DEF Commit, TypeOK
<1> QED
  BY <1>0, <1>1, <1>2, <1>3, <1>4, <1>5, <1>6 DEF StepKinds

\* Every state is well typed; in particular a review and every row of a running
\* transaction belong to an issued lease.
THEOREM TypeCorrect == Spec => []TypeOK
BY TypeInit, TypeNext, PTL DEF Spec

-----------------------------------------------------------------------------
(* The lineage.                                                            *)

LEMMA SameKeySymmetric ==
  ASSUME NEW l, NEW m, SameKey(l, m)
  PROVE  SameKey(m, l)
BY DEF SameKey

\* The rows of a transaction, after each kind of step.
LEMMA BeginInserts ==
  ASSUME TypeOK, NEW c \in Collectors, NEW batch, Begin(c, batch), NEW d \in Collectors
  PROVE  Inserted(d)' = Inserted(d)
<1>1. CASE d = c
  <2>1. done[c] = 0 /\ done'[c] = 0
    BY DEF Begin, TypeOK
  <2>2. 1 .. 0 = {}
    OBVIOUS
  <2> QED
    BY <1>1, <2>1, <2>2 DEF Inserted
<1>2. CASE d # c
  <2>1. rows'[d] = rows[d] /\ done'[d] = done[d]
    BY <1>2 DEF Begin, TypeOK
  <2> QED
    BY <2>1 DEF Inserted
<1> QED
  BY <1>1, <1>2

LEMMA EndInserts ==
  ASSUME TypeOK, NEW c \in Collectors, NEW d \in Collectors,
         rows' = [rows EXCEPT ![c] = <<>>], done' = [done EXCEPT ![c] = 0]
  PROVE  Inserted(d)' = IF d = c THEN {} ELSE Inserted(d)
<1>1. CASE d = c
  <2>1. done'[c] = 0
    BY DEF TypeOK
  <2>2. 1 .. 0 = {}
    OBVIOUS
  <2> QED
    BY <1>1, <2>1, <2>2 DEF Inserted
<1>2. CASE d # c
  <2>1. rows'[d] = rows[d] /\ done'[d] = done[d]
    BY <1>2 DEF TypeOK
  <2> QED
    BY <1>2, <2>1 DEF Inserted
<1> QED
  BY <1>1, <1>2

LEMMA RowInserts ==
  ASSUME TypeOK, NEW c \in Collectors, InsertRow(c), NEW d \in Collectors
  PROVE  /\ NextRow(c) \in Review
         /\ NextRow(c).lease \in DOMAIN leases
         /\ Inserted(d)' = IF d = c THEN Inserted(c) \cup {NextRow(c)} ELSE Inserted(d)
<1>1. rows[c] \in Seq(Review) /\ done[c] \in Nat /\ done[c] + 1 \in DOMAIN rows[c]
  BY DEF InsertRow, TypeOK
<1>2. NextRow(c) \in Review /\ NextRow(c).lease \in DOMAIN leases
  BY <1>1 DEF NextRow, TypeOK
<1>3. CASE d = c
  <2>1. done'[c] = done[c] + 1 /\ rows' = rows
    BY DEF InsertRow, TypeOK
  <2>2. 1 .. done[c] + 1 = (1 .. done[c]) \cup {done[c] + 1}
    BY <1>1
  <2>3. Inserted(c)' = {rows[c][k] : k \in 1 .. done[c] + 1}
    BY <2>1 DEF Inserted
  <2>4. Inserted(c)' = Inserted(c) \cup {NextRow(c)}
    <3>1. ASSUME NEW x
          PROVE  x \in Inserted(c)' <=> x \in Inserted(c) \/ x = NextRow(c)
      BY <2>2, <2>3 DEF Inserted, NextRow
    <3> QED
      BY <3>1
  <2>5. Inserted(d)' = Inserted(c)'
    BY <1>3 DEF Inserted
  <2> QED
    BY <1>2, <1>3, <2>4, <2>5
<1>4. CASE d # c
  <2>1. done'[d] = done[d] /\ rows' = rows
    BY <1>4 DEF InsertRow, TypeOK
  <2> QED
    BY <1>2, <1>4, <2>1 DEF Inserted
<1> QED
  BY <1>2, <1>3, <1>4

\* A row in flight whose attempt is not the first has its prior committed.
LEMMA PriorCommitted ==
  ASSUME LineageInv, NEW q \in Review, q.lease \in DOMAIN leases, LeaseOf(q).attempt > 1
  PROVE  \E p \in reviews : Continues(LeaseOf(q), p)
BY DEF LineageInv, Leased, LeaseOf

LEMMA AttemptType ==
  ASSUME LineageInv, NEW q \in Review, q.lease \in DOMAIN leases
  PROVE  /\ LeaseOf(q) \in Lease
         /\ LeaseOf(q).attempt \in Nat
         /\ LeaseOf(q).attempt >= 1
         /\ LeaseOf(q).attempt = 1 => LeaseOf(q).prior = 0
<1>1. LeaseOf(q) \in Lease
  BY DEF LineageInv, TypeOK, LeaseOf
<1> QED
  BY <1>1 DEF LineageInv, Leased, LeaseOf, Lease

\* Two transactions never have rows of one skill in flight, and neither has two
\* of them: the prior of the later row would stand where the earlier one goes.
LEMMA Exclusive ==
  ASSUME LineageInv, NEW c \in Collectors, NEW d \in Collectors,
         NEW q \in Inserted(c), NEW p \in Inserted(d),
         LeaseOf(q).slug = LeaseOf(p).slug
  PROVE  c = d /\ q = p
<1>1. /\ q \in Review /\ q.lease \in DOMAIN leases
      /\ p \in Review /\ p.lease \in DOMAIN leases
  BY InsertedType DEF LineageInv
<1>2. /\ LeaseOf(q).attempt \in Nat /\ LeaseOf(q).attempt >= 1
      /\ LeaseOf(p).attempt \in Nat /\ LeaseOf(p).attempt >= 1
  BY <1>1, AttemptType
<1>3. SUFFICES ASSUME ~ SameKey(LeaseOf(q), LeaseOf(p))
               PROVE  FALSE
  BY DEF LineageInv, Keyed
<1>9. /\ LeaseOf(q).attempt = 1 => \A x \in reviews : LeaseOf(x).slug # LeaseOf(q).slug
      /\ LeaseOf(p).attempt = 1 => \A x \in reviews : LeaseOf(x).slug # LeaseOf(p).slug
  BY DEF LineageInv, Joined, OfSlug
<1>4. CASE LeaseOf(q).attempt = 1 /\ LeaseOf(p).attempt = 1
  BY <1>3, <1>4 DEF SameKey
<1>5. CASE LeaseOf(q).attempt = 1 /\ LeaseOf(p).attempt > 1
  <2>1. PICK p0 \in reviews : Continues(LeaseOf(p), p0)
    BY <1>1, <1>5, PriorCommitted
  <2>2. LeaseOf(p0).slug = LeaseOf(q).slug
    BY <2>1 DEF Continues
  <2> QED
    BY <1>5, <1>9, <2>2
<1>6. CASE LeaseOf(q).attempt > 1 /\ LeaseOf(p).attempt = 1
  <2>1. PICK q0 \in reviews : Continues(LeaseOf(q), q0)
    BY <1>1, <1>6, PriorCommitted
  <2>2. LeaseOf(q0).slug = LeaseOf(p).slug
    BY <2>1 DEF Continues
  <2> QED
    BY <1>6, <1>9, <2>2
<1>7. CASE LeaseOf(q).attempt > 1 /\ LeaseOf(p).attempt > 1
  <2>1. PICK q0 \in reviews : Continues(LeaseOf(q), q0)
    BY <1>1, <1>7, PriorCommitted
  <2>2. PICK p0 \in reviews : Continues(LeaseOf(p), p0)
    BY <1>1, <1>7, PriorCommitted
  <2>3. /\ q0 \in Review /\ q0.lease \in DOMAIN leases
        /\ p0 \in Review /\ p0.lease \in DOMAIN leases
    BY DEF LineageInv, TypeOK
  <2>4. /\ LeaseOf(q0).attempt \in Nat /\ LeaseOf(q).attempt = LeaseOf(q0).attempt + 1
        /\ LeaseOf(p0).attempt \in Nat /\ LeaseOf(p).attempt = LeaseOf(p0).attempt + 1
    BY <2>1, <2>2, <2>3, AttemptType DEF Continues
  <2>5. LeaseOf(q0).slug = LeaseOf(p0).slug /\ LeaseOf(q0).slug = LeaseOf(q).slug
    BY <2>1, <2>2 DEF Continues
  <2>6. LeaseOf(q).lineage = LeaseOf(q0).lineage /\ LeaseOf(p).lineage = LeaseOf(p0).lineage
    BY <2>1, <2>2 DEF Continues
  <2>7. LeaseOf(q).lineage = LeaseOf(p).lineage
    BY <2>5, <2>6 DEF LineageInv, Joined, Compatible
  <2>8. CASE LeaseOf(q).attempt = LeaseOf(p).attempt
    BY <1>3, <2>7, <2>8 DEF SameKey
  <2>9. CASE LeaseOf(q).attempt < LeaseOf(p).attempt
    <3>1. LeaseOf(q).attempt \in 1 .. LeaseOf(p0).attempt
      BY <1>2, <2>4, <2>9
    <3>2. PICK x \in reviews : /\ LeaseOf(x).lineage = LeaseOf(p0).lineage
                               /\ LeaseOf(x).attempt = LeaseOf(q).attempt
      BY <3>1 DEF LineageInv, Dense
    <3>3. SameKey(LeaseOf(q), LeaseOf(x))
      BY <2>6, <2>7, <3>2 DEF SameKey
    <3> QED
      BY <3>3 DEF LineageInv, Keyed
  <2>10. CASE LeaseOf(p).attempt < LeaseOf(q).attempt
    <3>1. LeaseOf(p).attempt \in 1 .. LeaseOf(q0).attempt
      BY <1>2, <2>4, <2>10
    <3>2. PICK x \in reviews : /\ LeaseOf(x).lineage = LeaseOf(q0).lineage
                               /\ LeaseOf(x).attempt = LeaseOf(p).attempt
      BY <3>1 DEF LineageInv, Dense
    <3>3. SameKey(LeaseOf(p), LeaseOf(x))
      BY <2>6, <2>7, <3>2 DEF SameKey
    <3> QED
      BY <3>3 DEF LineageInv, Keyed
  <2> QED
    BY <1>2, <2>8, <2>9, <2>10
<1> QED
  BY <1>2, <1>4, <1>5, <1>6, <1>7

\* The invariant asks nothing of rows that are no longer in flight.
LEMMA FewerInserted ==
  ASSUME LineageInv, TypeOK', UNCHANGED <<leases, reviews>>,
         \A d \in Collectors : Inserted(d)' \subseteq Inserted(d)
  PROVE  LineageInv'
<1>1. \A r : LeaseOf(r)' = LeaseOf(r)
  BY DEF LeaseOf
<1>2. Leased'
  BY <1>1 DEF LineageInv, Leased, Continues, LeaseOf
<1>3. Keyed'
  BY <1>1 DEF LineageInv, Keyed
<1>4. Dense'
  BY <1>1 DEF LineageInv, Dense
<1>5. Joined'
  BY <1>1 DEF LineageInv, Joined, Compatible, OfSlug
<1> QED
  BY <1>2, <1>3, <1>4, <1>5 DEF LineageInv

\* Issuing a lease changes no lease that is there.
LEMMA IssueKeeps ==
  ASSUME TypeOK, NEW l \in Lease, Issue(l)
  PROVE  /\ \A i \in DOMAIN leases : i \in DOMAIN leases' /\ leases'[i] = leases[i]
         /\ \A q \in reviews : LeaseOf(q)' = LeaseOf(q)
         /\ \A c \in Collectors : Inserted(c)' = Inserted(c)
         /\ \A c \in Collectors : \A q \in Inserted(c) : LeaseOf(q)' = LeaseOf(q)
<1>1. \A i \in DOMAIN leases : i \in DOMAIN leases' /\ leases'[i] = leases[i]
  BY DEF Issue, TypeOK
<1>2. \A q \in reviews : LeaseOf(q)' = LeaseOf(q)
  BY <1>1 DEF LeaseOf, TypeOK
<1>3. \A c \in Collectors : Inserted(c)' = Inserted(c)
  BY DEF Issue, Inserted
<1>4. \A c \in Collectors : \A q \in Inserted(c) : LeaseOf(q)' = LeaseOf(q)
  BY <1>1, InsertedType DEF LeaseOf
<1> QED
  BY <1>1, <1>2, <1>3, <1>4

LEMMA IssuePreserves ==
  ASSUME LineageInv, TypeOK', NEW l \in Lease, Issue(l)
  PROVE  LineageInv'
<1>1. TypeOK
  BY DEF LineageInv
<1>2. reviews' = reviews
  BY DEF Issue
<1>3. /\ \A i \in DOMAIN leases : i \in DOMAIN leases' /\ leases'[i] = leases[i]
      /\ \A q \in reviews : LeaseOf(q)' = LeaseOf(q)
      /\ \A c \in Collectors : Inserted(c)' = Inserted(c)
      /\ \A c \in Collectors : \A q \in Inserted(c) : LeaseOf(q)' = LeaseOf(q)
  BY <1>1, IssueKeeps
<1>4. Leased'
  <2>1. \A k, r : r \in reviews /\ Continues(k, r) => Continues(k, r)'
    BY <1>3 DEF Continues
  <2> SUFFICES ASSUME NEW i \in DOMAIN leases'
               PROVE  /\ leases'[i].attempt >= 1
                      /\ leases'[i].attempt = 1 => leases'[i].prior = 0
                      /\ leases'[i].attempt > 1 => \E r \in reviews : Continues(leases'[i], r)
                      /\ leases'[i].reviewer # leases'[i].fixer
    BY <1>2, <2>1 DEF Leased
  <2>2. CASE i \in DOMAIN leases
    BY <1>3, <2>2 DEF LineageInv, Leased
  <2>3. CASE i \notin DOMAIN leases
    <3>1. leases'[i] = l
      BY <1>1, <2>3 DEF Issue, TypeOK
    <3>2. l.attempt \in Nat /\ l.attempt >= 1
      BY DEF Issue, Leasable, Lease
    <3> QED
      BY <3>1, <3>2 DEF Issue, Leasable
  <2> QED
    BY <2>2, <2>3
<1>5. Keyed'
  BY <1>2, <1>3 DEF LineageInv, Keyed
<1>6. Dense'
  BY <1>2, <1>3 DEF LineageInv, Dense
<1>7. Joined'
  <2>1. \A q, p \in reviews : Compatible(q, p)'
    BY <1>3 DEF LineageInv, Joined, Compatible
  <2>2. ASSUME NEW c \in Collectors, NEW q \in Inserted(c)
        PROVE  (/\ \A p \in reviews : Compatible(q, p)
                /\ LeaseOf(q).attempt = 1 => OfSlug(LeaseOf(q).slug, reviews) = {})'
    <3>1. \A p \in reviews : Compatible(q, p)'
      BY <1>3 DEF LineageInv, Joined, Compatible
    <3>2. LeaseOf(q)' = LeaseOf(q)
      BY <1>3
    <3>3. LeaseOf(q).attempt = 1 => \A p \in reviews : LeaseOf(p).slug # LeaseOf(q).slug
      BY DEF LineageInv, Joined, OfSlug
    <3>4. (LeaseOf(q).attempt = 1 => OfSlug(LeaseOf(q).slug, reviews) = {})'
      BY <1>2, <1>3, <3>2, <3>3 DEF OfSlug
    <3> QED
      BY <1>2, <3>1, <3>4
  <2> QED
    BY <1>2, <1>3, <2>1, <2>2 DEF Joined
<1> QED
  BY <1>4, <1>5, <1>6, <1>7 DEF LineageInv

\* The row a transaction inserts: free of every key, after its prior, in the
\* skill's only lineage and fresh to it.
LEMMA RowJoins ==
  ASSUME LineageInv, NEW c \in Collectors, InsertRow(c)
  PROVE  LET n == NextRow(c) IN
         /\ \A p \in reviews \cup Inserted(c) : ~ SameKey(LeaseOf(n), LeaseOf(p))
         /\ \A d \in Collectors \ {c} : \A p \in Inserted(d) :
              ~ SameKey(LeaseOf(n), LeaseOf(p))
         /\ \A p \in reviews : Compatible(n, p)
         /\ LeaseOf(n).attempt = 1 => OfSlug(LeaseOf(n).slug, reviews) = {}
<1> DEFINE n == NextRow(c)
           V == reviews \cup Inserted(c)
           H == {q \in OfSlug(LeaseOf(n).slug, V) : LeaseOf(q).lineage = LeaseOf(n).lineage}
<1>1. TypeOK
  BY DEF LineageInv
<1>2. n \in Review /\ n.lease \in DOMAIN leases
  BY <1>1, RowInserts
<1>3. /\ LeaseOf(n).attempt \in Nat /\ LeaseOf(n).attempt >= 1
  BY <1>2, AttemptType
<1>4. \A p \in V : ~ SameKey(LeaseOf(n), LeaseOf(p))
  BY DEF InsertRow, Admitted
<1>5. \A d \in Collectors \ {c} : \A p \in Inserted(d) : ~ SameKey(LeaseOf(n), LeaseOf(p))
  BY DEF InsertRow, Blocks
<1>6. /\ OfSlug(LeaseOf(n).slug, V) = H
      /\ LeaseOf(n).attempt = 1 => OfSlug(LeaseOf(n).slug, V) = {}
      /\ LeaseOf(n).attempt > 1 => FreshContexts(LeaseOf(n), H)
  BY DEF InsertRow, Admitted, Trigger
<1>7. OfSlug(LeaseOf(n).slug, reviews) \subseteq OfSlug(LeaseOf(n).slug, V)
  BY DEF OfSlug
<1>8. ASSUME NEW p \in reviews, LeaseOf(n).slug = LeaseOf(p).slug
      PROVE  /\ LeaseOf(n).lineage = LeaseOf(p).lineage
             /\ LeaseOf(p).reviewer \notin {LeaseOf(n).reviewer, LeaseOf(n).fixer}
             /\ LeaseOf(p).fixer # LeaseOf(n).reviewer
  <2>1. p \in OfSlug(LeaseOf(n).slug, V)
    BY <1>8 DEF OfSlug
  <2>2. p \in H
    BY <1>6, <2>1
  <2>3. LeaseOf(n).attempt # 1
    <3>1. OfSlug(LeaseOf(n).slug, V) # {}
      BY <2>1
    <3> HIDE DEF n, V, H
    <3> QED
      BY <1>6, <3>1
  <2>4. FreshContexts(LeaseOf(n), H)
    <3>1. LeaseOf(n).attempt > 1
      <4> HIDE DEF n, V, H
      <4> QED
        BY <1>3, <2>3
    <3> QED
      BY <1>6, <3>1
  <2>5. LeaseOf(n).lineage = LeaseOf(p).lineage
    BY <2>2
  <2> HIDE DEF n, V, H
  <2> QED
    BY <2>2, <2>4, <2>5 DEF FreshContexts
<1>9. \A p \in reviews : Compatible(n, p)
  BY <1>8 DEF Compatible
<1> QED
  BY <1>4, <1>5, <1>6, <1>7, <1>9

LEMMA InsertPreserves ==
  ASSUME LineageInv, TypeOK', NEW c \in Collectors, InsertRow(c)
  PROVE  LineageInv'
<1>1. TypeOK
  BY DEF LineageInv
<1>2. leases' = leases /\ reviews' = reviews
  BY DEF InsertRow
<1>3. \A r : LeaseOf(r)' = LeaseOf(r)
  BY <1>2 DEF LeaseOf
<1>4. PICK n : n = NextRow(c)
  OBVIOUS
<1>5. \A d \in Collectors : Inserted(d)' = IF d = c THEN Inserted(c) \cup {n} ELSE Inserted(d)
  BY <1>1, <1>4, RowInserts
<1>6. /\ \A p \in reviews \cup Inserted(c) : ~ SameKey(LeaseOf(n), LeaseOf(p))
      /\ \A d \in Collectors \ {c} : \A p \in Inserted(d) : ~ SameKey(LeaseOf(n), LeaseOf(p))
      /\ \A p \in reviews : Compatible(n, p)
      /\ LeaseOf(n).attempt = 1 => OfSlug(LeaseOf(n).slug, reviews) = {}
  BY <1>4, RowJoins
<1>7. Leased'
  BY <1>2, <1>3 DEF LineageInv, Leased, Continues, LeaseOf
<1>8. Keyed'
  <2>1. ASSUME NEW d \in Collectors, NEW q \in Inserted(d)'
        PROVE  /\ \A p \in reviews : ~ SameKey(LeaseOf(q), LeaseOf(p))
               /\ \A p \in Inserted(d)' : q # p => ~ SameKey(LeaseOf(q), LeaseOf(p))
               /\ \A e \in Collectors \ {d} : \A p \in Inserted(e)' :
                    ~ SameKey(LeaseOf(q), LeaseOf(p))
    <3>1. \A p \in reviews : ~ SameKey(LeaseOf(q), LeaseOf(p))
      BY <1>5, <1>6 DEF LineageInv, Keyed
    <3>2. ASSUME NEW p \in Inserted(d)', q # p
          PROVE  ~ SameKey(LeaseOf(q), LeaseOf(p))
      BY <1>5, <1>6, <3>2, SameKeySymmetric DEF LineageInv, Keyed
    <3>3. ASSUME NEW e \in Collectors \ {d}, NEW p \in Inserted(e)'
          PROVE  ~ SameKey(LeaseOf(q), LeaseOf(p))
      BY <1>5, <1>6, SameKeySymmetric DEF LineageInv, Keyed
    <3> QED
      BY <3>1, <3>2, <3>3
  <2> QED
    BY <1>2, <1>3, <2>1 DEF LineageInv, Keyed
<1>9. Dense'
  BY <1>2, <1>3 DEF LineageInv, Dense
<1>10. Joined'
  <2>1. \A q, p : Compatible(q, p)' <=> Compatible(q, p)
    BY <1>3 DEF Compatible
  <2>2. \A s : OfSlug(s, reviews)' = OfSlug(s, reviews)
    BY <1>2, <1>3 DEF OfSlug
  <2>3. ASSUME NEW d \in Collectors, NEW q \in Inserted(d)'
        PROVE  /\ \A p \in reviews : Compatible(q, p)
               /\ LeaseOf(q).attempt = 1 => OfSlug(LeaseOf(q).slug, reviews) = {}
    BY <1>5, <1>6 DEF LineageInv, Joined
  <2> QED
    BY <1>2, <1>3, <2>1, <2>2, <2>3 DEF LineageInv, Joined
<1> QED
  BY <1>7, <1>8, <1>9, <1>10 DEF LineageInv

\* Commit adds the rows of one transaction to the reviews.
LEMMA CommitPreserves ==
  ASSUME LineageInv, TypeOK', NEW c \in Collectors, Commit(c)
  PROVE  LineageInv'
<1>1. TypeOK
  BY DEF LineageInv
<1>2. leases' = leases /\ \A r : LeaseOf(r)' = LeaseOf(r)
  BY DEF Commit, LeaseOf
<1>3. PICK I : I = Inserted(c)
  OBVIOUS
<1>4. reviews' = reviews \cup I
  BY <1>3 DEF Commit
<1>5. \A d \in Collectors : Inserted(d)' = IF d = c THEN {} ELSE Inserted(d)
  BY <1>1, EndInserts DEF Commit
<1>6. \A q \in I : q \in Review /\ q.lease \in DOMAIN leases
  BY <1>1, <1>3, InsertedType
<1>7. \A q, p : Compatible(q, p)' <=> Compatible(q, p)
  BY <1>2 DEF Compatible
<1>8. \A q, p \in I : LeaseOf(q).slug = LeaseOf(p).slug => q = p
  BY <1>3, Exclusive
<1>9. \A d \in Collectors : d # c =>
        \A q \in I, p \in Inserted(d) : LeaseOf(q).slug # LeaseOf(p).slug
  BY <1>3, Exclusive
<1>10. Leased'
  BY <1>2, <1>4 DEF LineageInv, Leased, Continues
<1>11. Keyed'
  <2>1. \A q, p \in reviews \cup I : q # p => ~ SameKey(LeaseOf(q), LeaseOf(p))
    BY <1>3, SameKeySymmetric DEF LineageInv, Keyed
  <2>2. ASSUME NEW d \in Collectors, d # c, NEW q \in Inserted(d)
        PROVE  \A p \in reviews \cup I : ~ SameKey(LeaseOf(q), LeaseOf(p))
    BY <1>3, <2>2 DEF LineageInv, Keyed
  <2>3. ASSUME NEW d \in Collectors, d # c, NEW q \in Inserted(d)
        PROVE  /\ \A p \in Inserted(d) : q # p => ~ SameKey(LeaseOf(q), LeaseOf(p))
               /\ \A e \in Collectors \ {d} : \A p \in Inserted(e) :
                    ~ SameKey(LeaseOf(q), LeaseOf(p))
    BY <2>3 DEF LineageInv, Keyed
  <2> QED
    BY <1>2, <1>4, <1>5, <2>1, <2>2, <2>3 DEF Keyed
<1>12. Dense'
  <2> SUFFICES ASSUME NEW q \in reviews \cup I, NEW n \in 1 .. LeaseOf(q).attempt
               PROVE  \E p \in reviews \cup I : /\ LeaseOf(p).slug = LeaseOf(q).slug
                                                /\ LeaseOf(p).lineage = LeaseOf(q).lineage
                                                /\ LeaseOf(p).attempt = n
    BY <1>2, <1>4 DEF Dense
  <2>1. CASE q \in reviews
    BY <2>1 DEF LineageInv, Dense
  <2>2. CASE q \in I /\ n = LeaseOf(q).attempt
    BY <2>2
  <2>3. CASE q \in I /\ n # LeaseOf(q).attempt
    <3>1. LeaseOf(q).attempt \in Nat /\ LeaseOf(q).attempt > 1
      BY <1>6, <2>3, AttemptType
    <3>2. PICK p \in reviews : Continues(LeaseOf(q), p)
      BY <1>6, <2>3, <3>1, PriorCommitted
    <3>3. LeaseOf(p).attempt \in Nat
      BY <1>1, AttemptType DEF TypeOK
    <3>4. n \in 1 .. LeaseOf(p).attempt
      BY <2>3, <3>1, <3>2, <3>3 DEF Continues
    <3>5. PICK x \in reviews : /\ LeaseOf(x).slug = LeaseOf(p).slug
                               /\ LeaseOf(x).lineage = LeaseOf(p).lineage
                               /\ LeaseOf(x).attempt = n
      BY <3>4 DEF LineageInv, Dense
    <3> QED
      BY <3>2, <3>5 DEF Continues
  <2> QED
    BY <2>1, <2>2, <2>3
<1>13. Joined'
  <2>1. \A q \in I, p \in reviews : Compatible(q, p) /\ Compatible(p, q)
    <3>1. \A q \in I, p \in reviews : Compatible(q, p)
      BY <1>3 DEF LineageInv, Joined
    <3>2. \A q, p : Compatible(q, p) => Compatible(p, q)
      BY DEF Compatible
    <3> QED
      BY <3>1, <3>2
  <2>2. \A q, p \in I : Compatible(q, p)
    BY <1>8 DEF Compatible
  <2>3. \A q, p \in reviews \cup I : Compatible(q, p)
    BY <2>1, <2>2 DEF LineageInv, Joined
  <2>4. ASSUME NEW d \in Collectors, d # c, NEW q \in Inserted(d)
        PROVE  /\ \A p \in reviews \cup I : Compatible(q, p)
               /\ LeaseOf(q).attempt = 1 =>
                    \A p \in reviews \cup I : LeaseOf(p).slug # LeaseOf(q).slug
    <3>1. \A p \in I : LeaseOf(p).slug # LeaseOf(q).slug
      BY <1>9, <2>4
    <3>2. \A p \in I : Compatible(q, p)
      BY <3>1 DEF Compatible
    <3> QED
      BY <3>1, <3>2 DEF LineageInv, Joined, OfSlug
  <2>5. ASSUME NEW d \in Collectors, NEW q \in Inserted(d)'
        PROVE  (/\ \A p \in reviews : Compatible(q, p)
                /\ LeaseOf(q).attempt = 1 => OfSlug(LeaseOf(q).slug, reviews) = {})'
    <3>1. d # c /\ q \in Inserted(d)
      BY <1>5
    <3> QED
      BY <1>2, <1>4, <1>7, <2>4, <3>1 DEF OfSlug
  <2> QED
    BY <1>4, <1>7, <2>3, <2>5 DEF Joined
<1> QED
  BY <1>10, <1>11, <1>12, <1>13 DEF LineageInv

LEMMA LineageInit == Init => LineageInv
<1> SUFFICES ASSUME Init PROVE LineageInv
  OBVIOUS
<1>1. TypeOK
  BY TypeInit
<1>2. DOMAIN leases = {} /\ reviews = {}
  BY DEF Init
<1>3. \A c \in Collectors : Inserted(c) = {}
  <2>1. \A c \in Collectors : done[c] = 0
    BY DEF Init
  <2>2. 1 .. 0 = {}
    OBVIOUS
  <2> QED
    BY <2>1, <2>2 DEF Inserted
<1> QED
  BY <1>1, <1>2, <1>3 DEF LineageInv, Leased, Keyed, Dense, Joined

LEMMA LineageNext == ASSUME LineageInv, [Next]_vars PROVE LineageInv'
<1>1. TypeOK
  BY DEF LineageInv
<1>2. StepKinds
  BY <1>1, Steps
<1>3. TypeOK'
  BY <1>1, TypeNext
<1>4. CASE UNCHANGED vars
  BY <1>3, <1>4, FewerInserted DEF vars, Inserted
<1>5. ASSUME NEW l \in Lease, Issue(l)
      PROVE  LineageInv'
  BY <1>3, <1>5, IssuePreserves
<1>6. ASSUME NEW c \in Collectors, NEW batch, Begin(c, batch)
      PROVE  LineageInv'
  <2>1. \A d \in Collectors : Inserted(d)' = Inserted(d)
    BY <1>1, <1>6, BeginInserts
  <2> QED
    BY <1>3, <1>6, <2>1, FewerInserted DEF Begin
<1>7. ASSUME NEW c \in Collectors, InsertRow(c)
      PROVE  LineageInv'
  BY <1>3, <1>7, InsertPreserves
<1>8. ASSUME NEW c \in Collectors, Rollback(c)
      PROVE  LineageInv'
  <2>1. \A d \in Collectors : Inserted(d)' \subseteq Inserted(d)
    BY <1>1, <1>8, EndInserts DEF Rollback
  <2> QED
    BY <1>3, <1>8, <2>1, FewerInserted DEF Rollback
<1>9. ASSUME NEW c \in Collectors, Commit(c)
      PROVE  LineageInv'
  BY <1>3, <1>9, CommitPreserves
<1> QED
  BY <1>2, <1>4, <1>5, <1>6, <1>7, <1>8, <1>9 DEF StepKinds

\* What the indexes and the trigger find true of a row when it is inserted is
\* still true when its transaction commits, whatever committed in between: rows
\* in flight and committed reviews stay free of each other's keys, and the rows
\* of a skill stay of one lineage, gap-free and fresh to each other.
THEOREM LineageCorrect == Spec => []LineageInv
BY LineageInit, LineageNext, PTL DEF Spec

\* The reviews of a skill are one gap-free lineage of at most one review for an
\* attempt, each later one continuing the one before.
THEOREM SingleLineage == Spec => []OneLineage
<1>1. LineageInv => OneLineage
  <2> SUFFICES ASSUME LineageInv PROVE OneLineage
    OBVIOUS
  <2>1. ASSUME NEW q \in reviews, NEW p \in reviews, LeaseOf(q).slug = LeaseOf(p).slug
        PROVE  /\ LeaseOf(q).lineage = LeaseOf(p).lineage
               /\ LeaseOf(q).attempt = LeaseOf(p).attempt => q = p
    BY <2>1 DEF LineageInv, Joined, Compatible, Keyed, SameKey
  <2>2. ASSUME NEW q \in reviews, LeaseOf(q).attempt > 1
        PROVE  \E p \in reviews : Continues(LeaseOf(q), p)
    BY <2>2, PriorCommitted DEF LineageInv, TypeOK
  <2> QED
    BY <2>1, <2>2 DEF OneLineage
<1> QED
  BY <1>1, LineageCorrect, PTL

\* No context reviews a skill twice, and none reviews a skill it fixed.
THEOREM ReviewersIndependent == Spec => []IndependentLineage
<1>1. LineageInv => IndependentLineage
  <2> SUFFICES ASSUME LineageInv PROVE IndependentLineage
    OBVIOUS
  <2> SUFFICES ASSUME NEW q \in reviews, NEW p \in reviews,
                      LeaseOf(q).slug = LeaseOf(p).slug
               PROVE  /\ q # p => LeaseOf(q).reviewer # LeaseOf(p).reviewer
                      /\ LeaseOf(q).reviewer # LeaseOf(p).fixer
    BY DEF IndependentLineage
  <2>1. CASE q = p
    BY <2>1 DEF LineageInv, TypeOK, Leased, LeaseOf
  <2>2. CASE q # p
    BY <2>2 DEF LineageInv, Joined, Compatible
  <2> QED
    BY <2>1, <2>2
<1> QED
  BY <1>1, LineageCorrect, PTL

-----------------------------------------------------------------------------
(* Later work leaves the readiness of a review alone.                      *)

\* The prior review of a committed review is committed before it.
LEMMA ParentsKnown ==
  ASSUME LineageInv, [Next]_vars
  PROVE  /\ reviews \subseteq reviews'
         /\ \A q \in reviews : LeaseOf(q)' = LeaseOf(q)
         /\ \A q \in reviews, p \in reviews' : p.lease = LeaseOf(q).prior => p \in reviews
<1>1. TypeOK
  BY DEF LineageInv
<1>2. StepKinds
  BY <1>1, Steps
<1>3. CASE UNCHANGED <<leases, reviews>>
  BY <1>3 DEF LeaseOf
<1>4. ASSUME NEW l \in Lease, Issue(l)
      PROVE  reviews' = reviews /\ \A q \in reviews : LeaseOf(q)' = LeaseOf(q)
  BY <1>1, <1>4, IssueKeeps DEF Issue
<1>5. ASSUME NEW c \in Collectors, Commit(c)
      PROVE  /\ reviews \subseteq reviews'
             /\ \A q \in reviews : LeaseOf(q)' = LeaseOf(q)
             /\ \A q \in reviews, p \in reviews' : p.lease = LeaseOf(q).prior => p \in reviews
  <2>1. reviews' = reviews \cup Inserted(c) /\ \A q : LeaseOf(q)' = LeaseOf(q)
    BY <1>5 DEF Commit, LeaseOf
  <2>2. ASSUME NEW q \in reviews, NEW p \in Inserted(c), p.lease = LeaseOf(q).prior
        PROVE  FALSE
    <3>1. q \in Review /\ q.lease \in DOMAIN leases /\ p.lease \in DOMAIN leases
      BY <1>1, InsertedType DEF TypeOK
    <3>2. p.lease # 0
      BY <1>1, <3>1 DEF TypeOK
    <3>3. LeaseOf(q).attempt \in Nat /\ LeaseOf(q).attempt > 1
      BY <2>2, <3>1, <3>2, AttemptType
    <3>4. PICK p0 \in reviews : Continues(LeaseOf(q), p0)
      BY <3>1, <3>3, PriorCommitted
    <3>5. LeaseOf(p) = LeaseOf(p0)
      BY <2>2, <3>4 DEF Continues, LeaseOf
    <3>6. SameKey(LeaseOf(p), LeaseOf(p0))
      BY <3>5 DEF SameKey
    <3> QED
      BY <3>6 DEF LineageInv, Keyed
  <2> QED
    BY <2>1, <2>2
<1> QED
  BY <1>2, <1>3, <1>4, <1>5 DEF StepKinds, vars, Begin, InsertRow, Rollback

LEMMA ChainKept ==
  ASSUME LineageInv, [Next]_vars, NEW r \in reviews
  PROVE  Chain(r) \subseteq reviews /\ Chain(r)' = Chain(r)
<1>1. /\ reviews \subseteq reviews'
      /\ \A q \in reviews : LeaseOf(q)' = LeaseOf(q)
      /\ \A q \in reviews, p \in reviews' : p.lease = LeaseOf(q).prior => p \in reviews
  BY ParentsKnown
<1>2. reviews \cup {r} = reviews /\ (reviews \cup {r})' = reviews'
  BY <1>1
<1>3. PICK R : R = reviews
  OBVIOUS
<1>4. \A C \in SUBSET R : Closed(C) => Closed(C)'
  BY <1>1, <1>3 DEF Closed
<1>5. \A C : Closed(C)' => Closed(C \cap R)
  BY <1>1, <1>3 DEF Closed
<1>6. Closed(R)'
  BY <1>1, <1>3 DEF Closed
<1>7. Chain(r) = {q \in R : \A C \in SUBSET R : r \in C /\ Closed(C) => q \in C}
  BY <1>2, <1>3 DEF Chain
<1>8. Chain(r)' = {q \in reviews' : \A C \in SUBSET reviews' :
                                      r \in C /\ Closed(C)' => q \in C}
  BY <1>2 DEF Chain
<1>9. ASSUME NEW q \in Chain(r)
      PROVE  q \in Chain(r)'
  <2>1. SUFFICES ASSUME NEW C \in SUBSET reviews', r \in C, Closed(C)'
                 PROVE  q \in C
    BY <1>1, <1>3, <1>7, <1>8
  <2>2. C \cap R \in SUBSET R /\ r \in C \cap R /\ Closed(C \cap R)
    BY <1>3, <1>5, <2>1
  <2> QED
    BY <1>7, <2>2
<1>10. ASSUME NEW q \in Chain(r)'
       PROVE  q \in Chain(r)
  <2>1. q \in R
    BY <1>1, <1>3, <1>6, <1>8
  <2>2. SUFFICES ASSUME NEW C \in SUBSET R, r \in C, Closed(C)
                 PROVE  q \in C
    BY <1>7, <2>1
  <2> QED
    BY <1>1, <1>3, <1>4, <1>8, <2>2
<1> QED
  BY <1>3, <1>7, <1>9, <1>10

LEMMA ReadinessKept ==
  ASSUME LineageInv, [Next]_vars, NEW r \in reviews
  PROVE  (ReadyReview(r))' <=> ReadyReview(r)
<1>1. \A q \in reviews : LeaseOf(q)' = LeaseOf(q)
  BY ParentsKnown
<1>2. PICK C : C = Chain(r)
  OBVIOUS
<1>3. C \subseteq reviews /\ C = Chain(r)'
  BY <1>2, ChainKept
<1>4. \A q \in C : LeaseOf(q)' = LeaseOf(q)
  BY <1>1, <1>3
<1>5. Linked(C)' <=> Linked(C)
  BY <1>4 DEF Linked, Continues
<1>6. Independent(C)' <=> Independent(C)
  BY <1>4 DEF Independent
<1>7. \A q, f : Newest(q, f, C)' <=> Newest(q, f, C)
  BY <1>4 DEF Newest, Mentions
<1>8. FindingsKept(C)' <=> FindingsKept(C)
  BY <1>7 DEF FindingsKept, Mentioned, Mentions
<1>9. OpenBlockers(C)' = OpenBlockers(C)
  BY <1>7 DEF OpenBlockers, Mentioned, Mentions
<1> QED
  BY <1>1, <1>2, <1>3, <1>5, <1>6, <1>8, <1>9 DEF ReadyReview

\* Whether a review counts as ready is decided when it is committed: neither a
\* later round, nor a lease, nor a row in flight changes it.
THEOREM FrozenReadiness == Spec => ReadinessFrozen
<1>1. LineageInv /\ [Next]_vars => [\A r \in reviews : (ReadyReview(r))' <=> ReadyReview(r)]_vars
  BY ReadinessKept
<1> QED
  BY <1>1, LineageCorrect, PTL DEF Spec, ReadinessFrozen

-----------------------------------------------------------------------------
(* The ledger implements RoundLog, the append-only log of decided rounds   *)
(* that publication reads.                                                 *)

\* A skill begins with a review, which is never publishable.
FirstIsReview ==
  \A i \in DOMAIN leases : leases[i].attempt = 1 => leases[i].phase = "review"

\* The attempts of a skill are counted by its reviews.
Counted ==
  \A s \in Slugs :
    /\ IsFiniteSet(OfSlug(s, reviews))
    /\ {LeaseOf(q).attempt : q \in OfSlug(s, reviews)} = 1 .. Cardinality(OfSlug(s, reviews))

LogInv == LineageInv /\ FirstIsReview /\ Counted

\* x becomes the round after the last one of s, which it continues.
NextRound(s, x) ==
  LET S == OfSlug(s, reviews)
      l == LeaseOf(x)
  IN /\ x \in Review /\ x.lease \in DOMAIN leases
     /\ x \notin S /\ l.slug = s
     /\ l.attempt = Cardinality(S) + 1
     /\ l.attempt > 1 => \E p \in S : Continues(l, p) /\ LeaseOf(p).attempt = Cardinality(S)

-----------------------------------------------------------------------------
(* One step adds at most one round to a skill, the next one.               *)

\* What a transaction has inserted for a skill is the skill's next round.
LEMMA InsertedIsNext ==
  ASSUME LogInv, NEW c \in Collectors, NEW x \in Inserted(c), NEW s \in Slugs,
         LeaseOf(x).slug = s
  PROVE  NextRound(s, x)
<1> DEFINE S == OfSlug(s, reviews)
           l == LeaseOf(x)
<1>1. TypeOK /\ LineageInv
  BY DEF LogInv, LineageInv
<1>2. x \in Review /\ x.lease \in DOMAIN leases
  BY <1>1, InsertedType
<1>3. l.attempt \in Nat /\ l.attempt >= 1
  BY <1>1, <1>2, AttemptType
<1>4. PICK N \in Nat : /\ N = Cardinality(S)
                       /\ {LeaseOf(q).attempt : q \in S} = 1 .. N
  <2>1. IsFiniteSet(S) /\ {LeaseOf(q).attempt : q \in S} = 1 .. Cardinality(S)
    BY DEF LogInv, Counted
  <2> QED
    BY <2>1, FS_CardinalityType
<1>5. \A q \in S : LeaseOf(q).lineage = l.lineage /\ LeaseOf(q).attempt # l.attempt
  <2> SUFFICES ASSUME NEW q \in S
               PROVE  LeaseOf(q).lineage = l.lineage /\ LeaseOf(q).attempt # l.attempt
    OBVIOUS
  <2>1. q \in reviews /\ LeaseOf(q).slug = s
    BY DEF OfSlug
  <2>2. Compatible(x, q) /\ ~ SameKey(l, LeaseOf(q))
    BY <1>1, <2>1 DEF LineageInv, Joined, Keyed
  <2> QED
    BY <2>1, <2>2 DEF Compatible, SameKey
<1>6. x \notin S
  BY <1>5
<1>7. CASE l.attempt = 1
  <2>1. S = {}
    BY <1>1, <1>7 DEF LineageInv, Joined
  <2>2. N = 0
    BY <1>4, <2>1, FS_EmptySet
  <2> QED
    BY <1>2, <1>4, <1>6, <1>7, <2>2 DEF NextRound
<1>8. CASE l.attempt > 1
  <2>1. PICK p \in reviews : Continues(l, p)
    BY <1>1, <1>2, <1>8, PriorCommitted
  <2>2. p \in S /\ LeaseOf(p).attempt + 1 = l.attempt
    BY <2>1 DEF Continues, OfSlug
  <2>3. LeaseOf(p).attempt \in 1 .. N
    BY <1>4, <2>2
  <2>4. l.attempt \notin 1 .. N
    BY <1>4, <1>5
  <2>5. LeaseOf(p).attempt = N
    BY <1>3, <2>2, <2>3, <2>4
  <2> QED
    BY <1>2, <1>4, <1>6, <2>1, <2>2, <2>5 DEF NextRound
<1> QED
  BY <1>3, <1>7, <1>8

LEMMA SlugStep ==
  ASSUME LogInv, [Next]_vars, NEW s \in Slugs
  PROVE  \/ OfSlug(s, reviews)' = OfSlug(s, reviews)
         \/ \E c \in Collectors : \E x \in Inserted(c) :
                   /\ NextRound(s, x) /\ LeaseOf(x)' = LeaseOf(x)
                   /\ OfSlug(s, reviews)' = OfSlug(s, reviews) \cup {x}
<1>1. TypeOK /\ LineageInv
  BY DEF LogInv, LineageInv
<1>2. /\ reviews \subseteq reviews'
      /\ \A q \in reviews : LeaseOf(q)' = LeaseOf(q)
  BY <1>1, ParentsKnown
<1>3. StepKinds
  BY <1>1, Steps
<1>4. CASE reviews' = reviews
  BY <1>2, <1>4 DEF OfSlug
<1>5. ASSUME NEW c \in Collectors, Commit(c)
      PROVE  \/ OfSlug(s, reviews)' = OfSlug(s, reviews)
             \/ \E x \in Inserted(c) :
                       /\ NextRound(s, x) /\ LeaseOf(x)' = LeaseOf(x)
                       /\ OfSlug(s, reviews)' = OfSlug(s, reviews) \cup {x}
  <2>1. reviews' = reviews \cup Inserted(c) /\ \A q : LeaseOf(q)' = LeaseOf(q)
    BY <1>5 DEF Commit, LeaseOf
  <2>2. OfSlug(s, reviews)' = OfSlug(s, reviews) \cup {q \in Inserted(c) : LeaseOf(q).slug = s}
    BY <2>1 DEF OfSlug
  <2>3. CASE \E x \in Inserted(c) : LeaseOf(x).slug = s
    <3>1. PICK x \in Inserted(c) : LeaseOf(x).slug = s
      BY <2>3
    <3>2. {q \in Inserted(c) : LeaseOf(q).slug = s} = {x}
      BY <1>1, <3>1, Exclusive
    <3> QED
      BY <2>1, <2>2, <3>1, <3>2, InsertedIsNext
  <2>4. CASE ~ \E x \in Inserted(c) : LeaseOf(x).slug = s
    BY <2>2, <2>4
  <2> QED
    BY <2>3, <2>4
<1> QED
  BY <1>3, <1>4, <1>5 DEF StepKinds, vars, Issue, Begin, InsertRow, Rollback

LEMMA LogInit == Init => LogInv
<1> SUFFICES ASSUME Init PROVE LogInv
  OBVIOUS
<1>1. DOMAIN leases = {} /\ \A s \in Slugs : OfSlug(s, reviews) = {}
  BY DEF Init, OfSlug
<1>2. Counted
  <2>1. IsFiniteSet({}) /\ Cardinality({}) = 0 /\ 1 .. 0 = {}
    BY FS_EmptySet
  <2> QED
    BY <1>1, <2>1 DEF Counted
<1> QED
  BY <1>1, <1>2, LineageInit DEF LogInv, FirstIsReview

LEMMA LogNext ==
  ASSUME LogInv, [Next]_vars
  PROVE  LogInv'
<1>1. TypeOK /\ LineageInv
  BY DEF LogInv, LineageInv
<1>2. LineageInv'
  BY <1>1, LineageNext
<1>3. FirstIsReview'
  <2>1. StepKinds
    BY <1>1, Steps
  <2>2. CASE leases' = leases
    BY <2>2 DEF LogInv, FirstIsReview
  <2>3. ASSUME NEW l \in Lease, Issue(l)
        PROVE  FirstIsReview'
    <3>1. leases' = Append(leases, l) /\ (l.attempt = 1 => l.phase = "review")
      BY <2>3 DEF Issue, Leasable
    <3>2. leases \in Seq(Lease)
      BY <1>1 DEF TypeOK
    <3> QED
      BY <3>1, <3>2 DEF LogInv, FirstIsReview
  <2> QED
    BY <2>1, <2>2, <2>3 DEF StepKinds, vars, Begin, InsertRow, Rollback, Commit
<1>4. Counted'
  <2> SUFFICES ASSUME NEW s \in Slugs
               PROVE  (/\ IsFiniteSet(OfSlug(s, reviews))
                       /\ {LeaseOf(q).attempt : q \in OfSlug(s, reviews)}
                            = 1 .. Cardinality(OfSlug(s, reviews)))'
    BY DEF Counted
  <2>1. PICK S : S = OfSlug(s, reviews)
    OBVIOUS
  <2>2. IsFiniteSet(S) /\ {LeaseOf(q).attempt : q \in S} = 1 .. Cardinality(S)
    BY <2>1 DEF LogInv, Counted
  <2>3. Cardinality(S) \in Nat
    BY <2>2, FS_CardinalityType
  <2>4. \A q \in S : LeaseOf(q)' = LeaseOf(q)
    BY <1>1, <2>1, ParentsKnown DEF OfSlug
  <2>5. CASE OfSlug(s, reviews)' = S
    BY <2>2, <2>4, <2>5
  <2>6. ASSUME NEW x, NextRound(s, x), LeaseOf(x)' = LeaseOf(x),
               OfSlug(s, reviews)' = S \cup {x}
        PROVE  (/\ IsFiniteSet(OfSlug(s, reviews))
                /\ {LeaseOf(q).attempt : q \in OfSlug(s, reviews)}
                     = 1 .. Cardinality(OfSlug(s, reviews)))'
    <3>1. x \notin S /\ LeaseOf(x).attempt = Cardinality(S) + 1
      BY <2>1, <2>6 DEF NextRound
    <3>2. IsFiniteSet(S \cup {x}) /\ Cardinality(S \cup {x}) = Cardinality(S) + 1
      BY <2>2, <3>1, FS_AddElement
    <3>3. {LeaseOf(q)'.attempt : q \in S \cup {x}}
            = {LeaseOf(q).attempt : q \in S} \cup {LeaseOf(x).attempt}
      BY <2>4, <2>6
    <3>4. (1 .. Cardinality(S)) \cup {Cardinality(S) + 1} = 1 .. Cardinality(S) + 1
      BY <2>3
    <3> QED
      BY <2>2, <2>6, <3>1, <3>2, <3>3, <3>4
  <2> QED
    BY <2>1, <2>5, <2>6, SlugStep
<1> QED
  BY <1>2, <1>3, <1>4 DEF LogInv

LEMMA LogCorrect == Spec => []LogInv
BY LogInit, LogNext, PTL DEF Spec

-----------------------------------------------------------------------------
(* The log of a skill.                                                     *)

RoundRecord == [ver : 1 .. MaxVersion, ok : BOOLEAN]

RoundOf(q) == [ver |-> LeaseOf(q).ver, ok |-> ReadyReview(q)]

\* The log of a skill lists its reviews by attempt.
RoundsListed ==
  \A s \in Slugs :
    /\ Rounds[s] \in Seq(RoundRecord)
    /\ Len(Rounds[s]) = Cardinality(OfSlug(s, reviews))
    /\ \A q \in OfSlug(s, reviews) : Rounds[s][LeaseOf(q).attempt] = RoundOf(q)

LEMMA RoundsAreListed == LogInv => RoundsListed
<1> SUFFICES ASSUME LogInv, NEW s \in Slugs
             PROVE  /\ Rounds[s] \in Seq(RoundRecord)
                    /\ Len(Rounds[s]) = Cardinality(OfSlug(s, reviews))
                    /\ \A q \in OfSlug(s, reviews) :
                         Rounds[s][LeaseOf(q).attempt] = RoundOf(q)
  BY DEF RoundsListed
<1> DEFINE S == OfSlug(s, reviews)
<1>1. PICK N \in Nat : N = Cardinality(S) /\ {LeaseOf(q).attempt : q \in S} = 1 .. N
  <2>1. IsFiniteSet(S) /\ {LeaseOf(q).attempt : q \in S} = 1 .. Cardinality(S)
    BY DEF LogInv, Counted
  <2> QED
    BY <2>1, FS_CardinalityType
<1>2. \A q, p \in S : LeaseOf(q).attempt = LeaseOf(p).attempt => q = p
  <2> SUFFICES ASSUME NEW q \in S, NEW p \in S, LeaseOf(q).attempt = LeaseOf(p).attempt
               PROVE  q = p
    OBVIOUS
  <2>1. q \in reviews /\ p \in reviews /\ LeaseOf(q).slug = LeaseOf(p).slug
    BY DEF OfSlug
  <2>2. LeaseOf(q).lineage = LeaseOf(p).lineage
    BY <2>1 DEF LogInv, LineageInv, Joined, Compatible
  <2> QED
    BY <2>1, <2>2 DEF LogInv, LineageInv, Keyed, SameKey
<1>3. \A q \in S : ReviewAt(s, LeaseOf(q).attempt) = q
  BY <1>2 DEF ReviewAt
<1>4. Rounds[s] = [n \in 1 .. N |-> RoundOf(ReviewAt(s, n))]
  BY <1>1 DEF Rounds, RoundOf
<1>5. \A n \in 1 .. N : ReviewAt(s, n) \in S
  BY <1>1, <1>3
<1>6. \A q \in S : RoundOf(q) \in RoundRecord
  <2> SUFFICES ASSUME NEW q \in S
               PROVE  RoundOf(q) \in RoundRecord
    OBVIOUS
  <2>1. LeaseOf(q) \in Lease
    BY DEF OfSlug, LeaseOf, LogInv, LineageInv, TypeOK
  <2>2. LeaseOf(q).ver \in 1 .. MaxVersion
    BY <2>1 DEF Lease, Versions
  <2>3. ReadyReview(q) \in BOOLEAN
    BY DEF ReadyReview
  <2> QED
    BY <2>2, <2>3 DEF RoundOf, RoundRecord
<1>7. \A n \in 1 .. N : RoundOf(ReviewAt(s, n)) \in RoundRecord
  BY <1>5, <1>6
<1>8. Rounds[s] \in Seq(RoundRecord) /\ Len(Rounds[s]) = N
  BY <1>4, <1>7
<1>9. \A q \in S : Rounds[s][LeaseOf(q).attempt] = RoundOf(q)
  <2> SUFFICES ASSUME NEW q \in S
               PROVE  Rounds[s][LeaseOf(q).attempt] = RoundOf(q)
    OBVIOUS
  <2>1. LeaseOf(q).attempt \in 1 .. N
    BY <1>1
  <2> QED
    BY <1>3, <1>4, <2>1
<1> QED
  BY <1>1, <1>8, <1>9

\* Two logs of equal length and equal entries are equal.
LEMMA SameLog ==
  ASSUME NEW T, NEW f \in Seq(T), NEW g \in Seq(T), Len(f) = Len(g),
         \A n \in 1 .. Len(f) : f[n] = g[n]
  PROVE  f = g
OBVIOUS

\* A log that agrees with another on all of its entries, and has one more, is
\* the other with that entry appended.
LEMMA LongerLog ==
  ASSUME NEW T, NEW f \in Seq(T), NEW g \in Seq(T), Len(g) = Len(f) + 1,
         \A n \in 1 .. Len(f) : g[n] = f[n]
  PROVE  g = Append(f, g[Len(f) + 1])
<1>1. g[Len(f) + 1] \in T
  OBVIOUS
<1>2. Append(f, g[Len(f) + 1]) \in Seq(T)
  BY <1>1
<1>3. Len(Append(f, g[Len(f) + 1])) = Len(g)
  BY <1>1
<1>4. \A n \in 1 .. Len(g) : g[n] = Append(f, g[Len(f) + 1])[n]
  OBVIOUS
<1> QED
  BY <1>2, <1>3, <1>4, SameLog

\* The log keeps its entries, and a new one is publishable only after another
\* and of no older version.
LEMMA SlugLog ==
  ASSUME LogInv, RoundsListed, LogInv', RoundsListed', [Next]_vars, NEW s \in Slugs,
         NEW old, old = Rounds[s], NEW new, new = Rounds'[s]
  PROVE  /\ new \in Seq(RoundRecord)
         /\ new # old => Len(new) > Len(old) /\ Log!Extends(old, new)
<1> DEFINE S == OfSlug(s, reviews)
<1>1. TypeOK /\ LineageInv
  BY DEF LogInv, LineageInv
<1>2. /\ old \in Seq(RoundRecord) /\ Len(old) = Cardinality(S)
      /\ \A q \in S : old[LeaseOf(q).attempt] = RoundOf(q)
  BY DEF RoundsListed
<1>3. PICK S1 : S1 = OfSlug(s, reviews)'
  OBVIOUS
<1>4. /\ new \in Seq(RoundRecord) /\ Len(new) = Cardinality(S1)
      /\ \A q \in S1 : new[LeaseOf(q)'.attempt] = RoundOf(q)'
  BY <1>3 DEF RoundsListed
<1>5. \A q \in S : LeaseOf(q)' = LeaseOf(q) /\ RoundOf(q)' = RoundOf(q)
  <2> SUFFICES ASSUME NEW q \in S
               PROVE  LeaseOf(q)' = LeaseOf(q) /\ RoundOf(q)' = RoundOf(q)
    OBVIOUS
  <2>1. q \in reviews
    BY DEF OfSlug
  <2>2. LeaseOf(q)' = LeaseOf(q) /\ (ReadyReview(q)' <=> ReadyReview(q))
    BY <1>1, <2>1, ParentsKnown, ReadinessKept
  <2>3. ReadyReview(q) \in BOOLEAN /\ ReadyReview(q)' \in BOOLEAN
    BY DEF ReadyReview
  <2>4. ReadyReview(q)' = ReadyReview(q)
    BY <2>2, <2>3
  <2> QED
    BY <2>2, <2>4 DEF RoundOf
<1>6. PICK N \in Nat : N = Cardinality(S) /\ {LeaseOf(q).attempt : q \in S} = 1 .. N
  <2>1. IsFiniteSet(S) /\ {LeaseOf(q).attempt : q \in S} = 1 .. Cardinality(S)
    BY DEF LogInv, Counted
  <2> QED
    BY <2>1, FS_CardinalityType
<1>7. ASSUME S \subseteq S1, NEW n \in 1 .. N
      PROVE  new[n] = old[n]
  <2>1. PICK q \in S : LeaseOf(q).attempt = n
    BY <1>6
  <2> QED
    BY <1>2, <1>4, <1>5, <1>7, <2>1
<1>8. CASE S1 = S
  <2>1. \A n \in 1 .. Len(new) : new[n] = old[n]
    BY <1>4, <1>6, <1>7, <1>8
  <2>2. new = old
    BY <1>2, <1>4, <1>8, <2>1, SameLog
  <2> QED
    BY <1>4, <2>2
<1>9. ASSUME NEW x, NextRound(s, x), LeaseOf(x)' = LeaseOf(x), S1 = S \cup {x}
      PROVE  Len(new) > Len(old) /\ Log!Extends(old, new)
  <2>1. x \notin S /\ LeaseOf(x).attempt = N + 1
    BY <1>6, <1>9 DEF NextRound
  <2>2. Len(new) = N + 1 /\ Len(old) = N
    <3>1. IsFiniteSet(S)
      BY DEF LogInv, Counted
    <3>2. Cardinality(S \cup {x}) = N + 1
      BY <1>6, <2>1, <3>1, FS_AddElement
    <3> QED
      BY <1>2, <1>4, <1>6, <1>9, <3>2
  <2>3. new = Append(old, new[N + 1])
    <3>1. \A n \in 1 .. N : new[n] = old[n]
      BY <1>7, <1>9
    <3> QED
      BY <1>2, <1>4, <2>2, <3>1, LongerLog
  <2>4. new[N + 1] = RoundOf(x)' /\ RoundOf(x)'.ver = LeaseOf(x).ver
        /\ RoundOf(x)'.ok = ReadyReview(x)'
    BY <1>4, <1>9, <2>1 DEF RoundOf
  <2>5. ASSUME N # 0
        PROVE  old[N].ver <= LeaseOf(x).ver
    <3>1. PICK p \in S : LeaseOf(p).attempt = N /\ LeaseOf(p).ver <= LeaseOf(x).ver
      BY <1>6, <1>9, <2>1, <2>5 DEF NextRound, Continues
    <3>2. old[N] = RoundOf(p)
      BY <1>2, <3>1
    <3>3. RoundOf(p).ver = LeaseOf(p).ver
      BY DEF RoundOf
    <3>4. old[N].ver = LeaseOf(p).ver
      BY <3>2, <3>3
    <3> QED
      BY <3>1, <3>4
  <2>6. N = 0 => ~ ReadyReview(x)'
    <3>1. x.lease \in DOMAIN leases
      BY <1>9 DEF NextRound
    <3>2. N = 0 => LeaseOf(x).phase = "review"
      BY <2>1, <3>1 DEF LogInv, FirstIsReview, LeaseOf
    <3> QED
      BY <1>9, <3>2 DEF ReadyReview
  <2>7. old # <<>> <=> N # 0
    BY <1>2, <2>2
  <2> QED
    BY <2>2, <2>3, <2>4, <2>5, <2>6, <2>7 DEF Log!Extends
<1> QED
  BY <1>3, <1>4, <1>8, <1>9, SlugStep

\* Whatever is leased, collected, raced for, refused and rolled back, the rounds
\* of a skill are for publication an append-only log: decided when written,
\* never publishable first, never going back in version.
THEOREM ImplementsLog == Spec => LogRefinement
<1>1. Init => Log!RoundLogInit
  <2> SUFFICES ASSUME Init, NEW s \in Slugs
               PROVE  Rounds[s] = <<>>
    BY DEF Log!RoundLogInit, Rounds
  <2>1. OfSlug(s, reviews) = {}
    BY DEF Init, OfSlug
  <2>2. LogInv /\ RoundsListed
    BY LogInit, RoundsAreListed
  <2>3. Len(Rounds[s]) = 0 /\ Rounds[s] \in Seq(RoundRecord)
    BY <2>1, <2>2, FS_EmptySet DEF RoundsListed
  <2> QED
    BY <2>3
<1>2. LogInv' => RoundsListed'
  BY RoundsAreListed, PTL
<1>3. LogInv /\ LogInv' /\ [Next]_vars => [Log!RoundLogNext]_Rounds
  <2> SUFFICES ASSUME LogInv, LogInv', [Next]_vars
               PROVE  Log!RoundLogNext
    OBVIOUS
  <2>1. RoundsListed /\ RoundsListed'
    BY <1>2, RoundsAreListed
  <2>2. \A s \in Slugs : /\ Rounds'[s] \in Seq(RoundRecord)
                         /\ Rounds'[s] # Rounds[s] =>
                              /\ Len(Rounds'[s]) > Len(Rounds[s])
                              /\ Log!Extends(Rounds[s], Rounds'[s])
    BY <2>1, SlugLog
  <2>3. Rounds' = [s \in Slugs |-> Rounds'[s]]
    BY DEF Rounds
  <2>4. Rounds' \in [Slugs -> Seq(RoundRecord)]
    BY <2>2, <2>3
  <2> QED
    BY <2>2, <2>4 DEF Log!RoundLogNext, RoundRecord
<1> QED
  BY <1>1, <1>3, LogCorrect, PTL DEF Spec, LogRefinement, Log!RoundLogSpec

-----------------------------------------------------------------------------
(* The invariant behind readiness.                                         *)

\* The reviews of a skill up to one of them.
Upto(r) ==
  {q \in OfSlug(LeaseOf(r).slug, reviews) : LeaseOf(q).attempt <= LeaseOf(r).attempt}

\* The walk from a review meets every earlier one.
ChainsWhole == \A r \in reviews : Upto(r) \subseteq Chain(r)

\* Two mentions of a finding agree in the order of the rounds.
FindingsSettled ==
  \A s \in Slugs : \A q, p \in OfSlug(s, reviews) : LeaseOf(q).attempt < LeaseOf(p).attempt =>
    \A f \in DOMAIN q.findings \cap DOMAIN p.findings : Consistent(q.findings[f], p.findings[f])

\* Among the mentions of a finding up to a review one is the newest.
NewestExists ==
  \A r \in reviews : \A f \in Mentioned(Upto(r)) : \E top \in Upto(r) : Newest(top, f, Upto(r))

\* What the trigger admitted is still admissible when it commits.
StillAdmitted ==
  \A c \in Collectors : \A q \in Inserted(c) :
    FindingsAdmitted(q.findings, OfSlug(LeaseOf(q).slug, reviews))

GateInv == LogInv /\ ChainsWhole /\ FindingsSettled /\ NewestExists /\ StillAdmitted

-----------------------------------------------------------------------------
(* Facts about one state.                                                  *)

ReviewsFit ==
  /\ \A q \in reviews : /\ q \in Review /\ q.lease \in DOMAIN leases
                        /\ LeaseOf(q) \in Lease /\ LeaseOf(q).slug \in Slugs
                        /\ LeaseOf(q).attempt \in Nat /\ LeaseOf(q).attempt >= 1
  /\ \A q, p \in reviews : LeaseOf(q).slug = LeaseOf(p).slug =>
       /\ LeaseOf(q).lineage = LeaseOf(p).lineage
       /\ LeaseOf(q).attempt = LeaseOf(p).attempt => q = p
  /\ \A q, p \in reviews : LeaseOf(q).lineage = LeaseOf(p).lineage =>
       LeaseOf(q).slug = LeaseOf(p).slug
  /\ \A q, p \in reviews : p.lease = LeaseOf(q).prior =>
       /\ LeaseOf(p).slug = LeaseOf(q).slug
       /\ LeaseOf(p).attempt + 1 = LeaseOf(q).attempt

LEMMA ReviewsDoFit == LineageInv => ReviewsFit
<1> SUFFICES ASSUME LineageInv PROVE ReviewsFit
  OBVIOUS
<1>1. \A q \in reviews : q \in Review /\ q.lease \in DOMAIN leases
  BY DEF LineageInv, TypeOK
<1>2. \A q \in reviews : /\ LeaseOf(q) \in Lease /\ LeaseOf(q).slug \in Slugs
                         /\ LeaseOf(q).attempt \in Nat /\ LeaseOf(q).attempt >= 1
                         /\ LeaseOf(q).attempt = 1 => LeaseOf(q).prior = 0
  <2>1. \A q \in reviews : LeaseOf(q) \in Lease
    BY <1>1, AttemptType
  <2>2. \A l \in Lease : l.slug \in Slugs
    BY DEF Lease
  <2> QED
    BY <1>1, <2>1, <2>2, AttemptType
<1>3. \A q, p \in reviews : LeaseOf(q).slug = LeaseOf(p).slug =>
        /\ LeaseOf(q).lineage = LeaseOf(p).lineage
        /\ LeaseOf(q).attempt = LeaseOf(p).attempt => q = p
  BY DEF LineageInv, Joined, Compatible, Keyed, SameKey
<1>4. ASSUME NEW q \in reviews, NEW p \in reviews, LeaseOf(q).lineage = LeaseOf(p).lineage
      PROVE  LeaseOf(q).slug = LeaseOf(p).slug
  <2>1. 1 \in 1 .. LeaseOf(q).attempt /\ 1 \in 1 .. LeaseOf(p).attempt
    BY <1>2
  <2>2. PICK q1 \in reviews : /\ LeaseOf(q1).slug = LeaseOf(q).slug
                              /\ LeaseOf(q1).lineage = LeaseOf(q).lineage
                              /\ LeaseOf(q1).attempt = 1
    BY <2>1 DEF LineageInv, Dense
  <2>3. PICK p1 \in reviews : /\ LeaseOf(p1).slug = LeaseOf(p).slug
                              /\ LeaseOf(p1).lineage = LeaseOf(p).lineage
                              /\ LeaseOf(p1).attempt = 1
    BY <2>1 DEF LineageInv, Dense
  <2>4. q1 = p1
    BY <1>4, <2>2, <2>3 DEF LineageInv, Keyed, SameKey
  <2> QED
    BY <2>2, <2>3, <2>4
<1>5. ASSUME NEW q \in reviews, NEW p \in reviews, p.lease = LeaseOf(q).prior
      PROVE  /\ LeaseOf(p).slug = LeaseOf(q).slug
             /\ LeaseOf(p).attempt + 1 = LeaseOf(q).attempt
  <2>1. p.lease # 0
    BY <1>1 DEF LineageInv, TypeOK
  <2>2. LeaseOf(q).attempt > 1
    BY <1>2, <1>5, <2>1
  <2>3. PICK t \in reviews : Continues(LeaseOf(q), t)
    BY <1>1, <2>2, PriorCommitted
  <2>4. LeaseOf(p) = LeaseOf(t)
    BY <1>5, <2>3 DEF Continues, LeaseOf
  <2> QED
    BY <2>3, <2>4 DEF Continues
<1> QED
  BY <1>1, <1>2, <1>3, <1>4, <1>5 DEF ReviewsFit

\* The walk from a review stays among the earlier ones of its skill.
LEMMA ChainWithin == ReviewsFit => \A r \in reviews : Chain(r) \subseteq Upto(r)
<1> SUFFICES ASSUME ReviewsFit, NEW r \in reviews
             PROVE  Chain(r) \subseteq Upto(r)
  OBVIOUS
<1>1. Upto(r) \in SUBSET (reviews \cup {r}) /\ r \in Upto(r)
  BY DEF Upto, OfSlug, ReviewsFit
<1>2. Closed(Upto(r))
  <2> SUFFICES ASSUME NEW q \in Upto(r), NEW p \in reviews, p.lease = LeaseOf(q).prior
               PROVE  p \in Upto(r)
    BY DEF Closed
  <2>1. /\ q \in reviews /\ LeaseOf(q).slug = LeaseOf(r).slug
        /\ LeaseOf(q).attempt <= LeaseOf(r).attempt
    BY DEF Upto, OfSlug
  <2>2. LeaseOf(p).slug = LeaseOf(q).slug /\ LeaseOf(p).attempt + 1 = LeaseOf(q).attempt
    BY <2>1 DEF ReviewsFit
  <2>3. LeaseOf(p).attempt <= LeaseOf(r).attempt
    BY <2>1, <2>2 DEF ReviewsFit
  <2> QED
    BY <2>1, <2>2, <2>3 DEF Upto, OfSlug
<1> QED
  BY <1>1, <1>2 DEF Chain

\* Up to its last review, and only then, a skill is whole.
LEMMA LastUpto ==
  ASSUME LogInv, NEW s \in Slugs
  PROVE  /\ \A q \in OfSlug(s, reviews) :
              /\ LeaseOf(q).attempt \in Nat
              /\ LeaseOf(q).attempt <= Cardinality(OfSlug(s, reviews))
         /\ \A p \in OfSlug(s, reviews) :
              LeaseOf(p).attempt = Cardinality(OfSlug(s, reviews)) =>
                Upto(p) = OfSlug(s, reviews)
<1>1. Cardinality(OfSlug(s, reviews)) \in Nat
  BY FS_CardinalityType DEF LogInv, Counted
<1>2. \A q \in OfSlug(s, reviews) : LeaseOf(q).attempt \in 1 .. Cardinality(OfSlug(s, reviews))
  BY DEF LogInv, Counted
<1>3. \A q \in OfSlug(s, reviews) :
        /\ LeaseOf(q).attempt \in Nat
        /\ LeaseOf(q).attempt <= Cardinality(OfSlug(s, reviews))
  BY <1>1, <1>2
<1>4. \A p \in OfSlug(s, reviews) : LeaseOf(p).slug = s
  BY DEF OfSlug
<1> QED
  BY <1>3, <1>4 DEF Upto

-----------------------------------------------------------------------------
(* What a step does to the chains.                                         *)

LEMMA UptoKept ==
  ASSUME LogInv, [Next]_vars, NEW r \in reviews
  PROVE  Upto(r)' = Upto(r)
<1>1. LineageInv /\ ReviewsFit
  BY ReviewsDoFit DEF LogInv
<1>2. \A q \in reviews : LeaseOf(q)' = LeaseOf(q)
  BY <1>1, ParentsKnown
<1>3. PICK s \in Slugs : s = LeaseOf(r).slug
  BY <1>1 DEF ReviewsFit
<1>4. PICK S : S = OfSlug(s, reviews)
  OBVIOUS
<1>5. S \subseteq reviews /\ r \in S /\ Upto(r) = {q \in S : LeaseOf(q).attempt <= LeaseOf(r).attempt}
  BY <1>3, <1>4 DEF Upto, OfSlug
<1>6. Upto(r)' = {q \in OfSlug(s, reviews)' : LeaseOf(q)'.attempt <= LeaseOf(r).attempt}
  BY <1>2, <1>3 DEF Upto
<1>7. CASE OfSlug(s, reviews)' = S
  BY <1>2, <1>5, <1>6, <1>7
<1>8. ASSUME NEW x, NextRound(s, x), LeaseOf(x)' = LeaseOf(x),
             OfSlug(s, reviews)' = S \cup {x}
      PROVE  Upto(r)' = Upto(r)
  <2>1. LeaseOf(x).attempt = Cardinality(S) + 1 /\ Cardinality(S) \in Nat
    BY <1>4, <1>8, FS_CardinalityType DEF NextRound, LogInv, Counted
  <2>2. ~ (LeaseOf(x).attempt <= LeaseOf(r).attempt)
    BY <1>4, <1>5, <2>1, LastUpto
  <2> QED
    BY <1>2, <1>5, <1>6, <1>8, <2>2
<1> QED
  BY <1>4, <1>7, <1>8, SlugStep

\* A new review stands after all the earlier ones of its skill.
LEMMA NewReview ==
  ASSUME LogInv, [Next]_vars, NEW r \in reviews', r \notin reviews
  PROVE  \E s \in Slugs, c \in Collectors :
           /\ r \in Inserted(c) /\ NextRound(s, r) /\ LeaseOf(r)' = LeaseOf(r)
           /\ OfSlug(s, reviews)' = OfSlug(s, reviews) \cup {r}
           /\ Upto(r)' = OfSlug(s, reviews) \cup {r}
<1>1. LineageInv /\ LineageInv' /\ ReviewsFit
  BY ReviewsDoFit, LineageNext DEF LogInv
<1>2. ReviewsFit'
  BY <1>1, ReviewsDoFit, PTL
<1>3. PICK s \in Slugs : s = LeaseOf(r)'.slug
  BY <1>2 DEF ReviewsFit
<1>4. r \in OfSlug(s, reviews)' /\ r \notin OfSlug(s, reviews)
  BY <1>3 DEF OfSlug
<1>5. PICK c \in Collectors : \E x \in Inserted(c) :
        /\ NextRound(s, x) /\ LeaseOf(x)' = LeaseOf(x)
        /\ OfSlug(s, reviews)' = OfSlug(s, reviews) \cup {x}
  BY <1>4, SlugStep
<1>6. /\ r \in Inserted(c) /\ NextRound(s, r) /\ LeaseOf(r)' = LeaseOf(r)
      /\ OfSlug(s, reviews)' = OfSlug(s, reviews) \cup {r}
  BY <1>4, <1>5
<1>7. PICK S : S = OfSlug(s, reviews)
  OBVIOUS
<1>8. LeaseOf(r).attempt = Cardinality(S) + 1 /\ Cardinality(S) \in Nat
  BY <1>6, <1>7, FS_CardinalityType DEF NextRound, LogInv, Counted
<1>9. \A q \in S : LeaseOf(q)' = LeaseOf(q)
  BY <1>1, <1>7, ParentsKnown DEF OfSlug
<1>10. \A q \in S \cup {r} : LeaseOf(q)'.attempt <= LeaseOf(r)'.attempt
  BY <1>6, <1>7, <1>8, <1>9, LastUpto
<1>11. Upto(r)' = {q \in OfSlug(s, reviews)' : LeaseOf(q)'.attempt <= LeaseOf(r)'.attempt}
  BY <1>3 DEF Upto
<1>12. Upto(r)' = S \cup {r}
  BY <1>6, <1>7, <1>10, <1>11
<1> QED
  BY <1>6, <1>7, <1>12

LEMMA ChainsNext ==
  ASSUME LogInv, ChainsWhole, [Next]_vars
  PROVE  ChainsWhole'
<1>1. LineageInv
  BY DEF LogInv
<1> SUFFICES ASSUME NEW r \in reviews'
             PROVE  Upto(r)' \subseteq Chain(r)'
  BY DEF ChainsWhole
<1>2. CASE r \in reviews
  BY <1>1, <1>2, UptoKept, ChainKept DEF ChainsWhole
<1>3. CASE r \notin reviews
  <2>1. PICK s \in Slugs, c \in Collectors :
          /\ r \in Inserted(c) /\ NextRound(s, r) /\ LeaseOf(r)' = LeaseOf(r)
          /\ OfSlug(s, reviews)' = OfSlug(s, reviews) \cup {r}
          /\ Upto(r)' = OfSlug(s, reviews) \cup {r}
    BY <1>3, NewReview
  <2>2. PICK S : S = OfSlug(s, reviews)
    OBVIOUS
  <2>3. /\ reviews \subseteq reviews'
        /\ \A q \in reviews : LeaseOf(q)' = LeaseOf(q)
        /\ \A q \in reviews, p \in reviews' : p.lease = LeaseOf(q).prior => p \in reviews
    BY <1>1, ParentsKnown
  <2>4. S \subseteq reviews
    BY <2>2 DEF OfSlug
  <2>5. SUFFICES ASSUME NEW q \in S \cup {r}, NEW C \in SUBSET (reviews' \cup {r}),
                        r \in C, Closed(C)'
                 PROVE  q \in C
    BY <2>1, <2>2, <2>3, <2>4 DEF Chain
  <2>6. CASE q = r
    BY <2>5, <2>6
  <2>7. CASE q \in S
    <3>1. LeaseOf(r).attempt = Cardinality(S) + 1 /\ Cardinality(S) \in Nat /\ Cardinality(S) # 0
      <4>1. IsFiniteSet(S)
        BY <2>2 DEF LogInv, Counted
      <4> QED
        BY <2>1, <2>2, <2>7, <4>1, FS_CardinalityType, FS_EmptySet DEF NextRound
    <3>2. PICK p \in S : Continues(LeaseOf(r), p) /\ LeaseOf(p).attempt = Cardinality(S)
      BY <2>1, <2>2, <3>1 DEF NextRound
    <3>3. p \in C
      BY <2>1, <2>3, <2>4, <2>5, <3>2 DEF Closed, Continues
    <3>4. q \in Chain(p)
      <4>1. q \in Upto(p) /\ p \in reviews
        BY <2>2, <2>4, <2>7, <3>2, LastUpto
      <4> QED
        BY <4>1 DEF ChainsWhole
    <3>5. C \cap reviews \in SUBSET (reviews \cup {p}) /\ p \in C \cap reviews
      BY <2>4, <3>3
    <3>6. PICK R : R = reviews
      OBVIOUS
    <3>7. Closed(C \cap R)
      BY <2>3, <2>5, <3>6 DEF Closed
    <3> QED
      BY <3>4, <3>5, <3>6, <3>7 DEF Chain
  <2> QED
    BY <2>6, <2>7
<1> QED
  BY <1>2, <1>3

-----------------------------------------------------------------------------
(* What a step does to the findings.                                       *)

RowsExclusive ==
  \A c, d \in Collectors : \A q \in Inserted(c), p \in Inserted(d) :
    LeaseOf(q).slug = LeaseOf(p).slug => c = d /\ q = p

LEMMA RowsAreExclusive == LineageInv => RowsExclusive
BY Exclusive DEF RowsExclusive

\* The trigger compares a row with all committed reviews of its skill.
LEMMA RowAdmitted ==
  ASSUME LineageInv, LineageInv', NEW c \in Collectors, InsertRow(c)
  PROVE  FindingsAdmitted(NextRow(c).findings, OfSlug(LeaseOf(NextRow(c)).slug, reviews))
<1> DEFINE n == NextRow(c)
           l == LeaseOf(n)
           V == reviews \cup Inserted(c)
<1>1. RowsExclusive'
  BY RowsAreExclusive, PTL
<1>2. Inserted(c)' = Inserted(c) \cup {n} /\ leases' = leases
  BY RowInserts DEF InsertRow, LineageInv
<1>3. \A p \in Inserted(c) : LeaseOf(p).slug # l.slug
  <2> SUFFICES ASSUME NEW p \in Inserted(c), LeaseOf(p).slug = l.slug
               PROVE  FALSE
    OBVIOUS
  <2>1. p = n
    BY <1>1, <1>2 DEF RowsExclusive, LeaseOf
  <2>2. ~ SameKey(l, LeaseOf(p))
    BY RowJoins
  <2> QED
    BY <2>1, <2>2 DEF SameKey
<1>4. OfSlug(l.slug, V) = OfSlug(l.slug, reviews)
  BY <1>3 DEF OfSlug
<1>5. Trigger(l, n.findings, V)
  BY DEF InsertRow, Admitted
<1>6. PICK S : S = OfSlug(l.slug, V)
  OBVIOUS
<1>7. FindingsAdmitted(n.findings, S)
  BY <1>5, <1>6 DEF Trigger
<1> QED
  BY <1>4, <1>6, <1>7

\* Whether a list of findings is admitted depends on the leases of the history.
LEMMA AdmittedKept ==
  ASSUME NEW findings, NEW H, FindingsAdmitted(findings, H),
         \A q \in H : LeaseOf(q)' = LeaseOf(q)
  PROVE  FindingsAdmitted(findings, H)'
<1>1. \A q, f : Newest(q, f, H)' <=> Newest(q, f, H)
  BY DEF Newest, Mentions
<1> QED
  BY <1>1 DEF FindingsAdmitted

LEMMA AdmittedNext ==
  ASSUME LogInv, StillAdmitted, [Next]_vars
  PROVE  StillAdmitted'
<1>1. TypeOK /\ LineageInv /\ LineageInv'
  BY LineageNext DEF LogInv, LineageInv
<1>2. \A q \in reviews : LeaseOf(q)' = LeaseOf(q)
  BY <1>1, ParentsKnown
<1>3. StepKinds
  BY <1>1, Steps
<1>4. ASSUME reviews' = reviews, NEW d \in Collectors, NEW q \in Inserted(d)',
             LeaseOf(q)' = LeaseOf(q),
             FindingsAdmitted(q.findings, OfSlug(LeaseOf(q).slug, reviews))
      PROVE  FindingsAdmitted(q.findings, OfSlug(LeaseOf(q).slug, reviews))'
  <2>1. PICK H : H = OfSlug(LeaseOf(q).slug, reviews)
    OBVIOUS
  <2>2. OfSlug(LeaseOf(q).slug, reviews)' = H
    BY <1>2, <1>4, <2>1 DEF OfSlug
  <2>3. FindingsAdmitted(q.findings, H)'
    BY <1>2, <1>4, <2>1, AdmittedKept DEF OfSlug
  <2> QED
    BY <2>2, <2>3 DEF FindingsAdmitted
<1>5. ASSUME reviews' = reviews,
             \A d \in Collectors : Inserted(d)' \subseteq Inserted(d),
             \A d \in Collectors : \A q \in Inserted(d) : LeaseOf(q)' = LeaseOf(q)
      PROVE  StillAdmitted'
  BY <1>4, <1>5 DEF StillAdmitted
<1>6. CASE UNCHANGED vars
  BY <1>5, <1>6 DEF vars, Inserted, LeaseOf
<1>7. ASSUME NEW l \in Lease, Issue(l)
      PROVE  StillAdmitted'
  BY <1>1, <1>5, <1>7, IssueKeeps DEF Issue
<1>8. ASSUME NEW c \in Collectors, NEW batch, Begin(c, batch)
      PROVE  StillAdmitted'
  <2>1. \A d \in Collectors : Inserted(d)' = Inserted(d)
    BY <1>1, <1>8, BeginInserts
  <2> QED
    BY <1>5, <1>8, <2>1 DEF Begin, LeaseOf
<1>9. ASSUME NEW c \in Collectors, Rollback(c)
      PROVE  StillAdmitted'
  <2>1. \A d \in Collectors : Inserted(d)' \subseteq Inserted(d)
    BY <1>1, <1>9, EndInserts DEF Rollback
  <2> QED
    BY <1>5, <1>9, <2>1 DEF Rollback, LeaseOf
<1>10. ASSUME NEW c \in Collectors, InsertRow(c)
       PROVE  StillAdmitted'
  <2>1. reviews' = reviews /\ \A q : LeaseOf(q)' = LeaseOf(q)
    BY <1>10 DEF InsertRow, LeaseOf
  <2>2. \A d \in Collectors : Inserted(d)' \subseteq Inserted(d) \cup
                                 (IF d = c THEN {NextRow(c)} ELSE {})
    BY <1>1, <1>10, RowInserts
  <2>3. FindingsAdmitted(NextRow(c).findings, OfSlug(LeaseOf(NextRow(c)).slug, reviews))
    BY <1>1, <1>10, RowAdmitted
  <2>4. PICK n : n = NextRow(c)
    OBVIOUS
  <2> SUFFICES ASSUME NEW d \in Collectors, NEW q \in Inserted(d)'
               PROVE  FindingsAdmitted(q.findings, OfSlug(LeaseOf(q).slug, reviews))'
    BY DEF StillAdmitted
  <2>5. q \in Inserted(d) \/ q = n
    BY <2>2, <2>4
  <2>6. FindingsAdmitted(q.findings, OfSlug(LeaseOf(q).slug, reviews))
    BY <2>3, <2>4, <2>5 DEF StillAdmitted
  <2> QED
    BY <1>4, <2>1, <2>6
<1>11. ASSUME NEW c \in Collectors, Commit(c)
       PROVE  StillAdmitted'
  <2> SUFFICES ASSUME NEW d \in Collectors, NEW q \in Inserted(d)'
               PROVE  FindingsAdmitted(q.findings, OfSlug(LeaseOf(q).slug, reviews))'
    BY DEF StillAdmitted
  <2>1. d # c /\ q \in Inserted(d)
    BY <1>1, <1>11, EndInserts DEF Commit
  <2>2. reviews' = reviews \cup Inserted(c) /\ \A p : LeaseOf(p)' = LeaseOf(p)
    BY <1>11 DEF Commit, LeaseOf
  <2>3. \A p \in Inserted(c) : LeaseOf(p).slug # LeaseOf(q).slug
    BY <1>1, <2>1, RowsAreExclusive DEF RowsExclusive
  <2>4. PICK H : H = OfSlug(LeaseOf(q).slug, reviews)
    OBVIOUS
  <2>5. OfSlug(LeaseOf(q).slug, reviews)' = H
    BY <2>2, <2>3, <2>4 DEF OfSlug
  <2>6. FindingsAdmitted(q.findings, H)'
    BY <2>1, <2>2, <2>4, AdmittedKept DEF StillAdmitted
  <2> QED
    BY <2>5, <2>6 DEF FindingsAdmitted
<1> QED
  BY <1>3, <1>6, <1>7, <1>8, <1>9, <1>10, <1>11 DEF StepKinds

\* The last review of a skill that has one.
LEMMA LastReview ==
  ASSUME LogInv, NEW s \in Slugs, OfSlug(s, reviews) # {}
  PROVE  \E p \in OfSlug(s, reviews) :
           /\ p \in reviews
           /\ LeaseOf(p).attempt = Cardinality(OfSlug(s, reviews))
           /\ Upto(p) = OfSlug(s, reviews)
<1>1. PICK S : S = OfSlug(s, reviews)
  OBVIOUS
<1>2. IsFiniteSet(S) /\ {LeaseOf(q).attempt : q \in S} = 1 .. Cardinality(S)
  BY <1>1 DEF LogInv, Counted
<1>3. Cardinality(S) \in Nat /\ Cardinality(S) # 0
  BY <1>1, <1>2, FS_CardinalityType, FS_EmptySet
<1>4. PICK p \in S : LeaseOf(p).attempt = Cardinality(S)
  BY <1>2, <1>3
<1> QED
  BY <1>1, <1>4, LastUpto DEF OfSlug

LEMMA NewestInSlug ==
  ASSUME LogInv, NewestExists, NEW s \in Slugs, NEW f \in Mentioned(OfSlug(s, reviews))
  PROVE  \E top \in OfSlug(s, reviews) : Newest(top, f, OfSlug(s, reviews))
<1>1. OfSlug(s, reviews) # {}
  BY DEF Mentioned, Mentions
<1>2. PICK p \in reviews : Upto(p) = OfSlug(s, reviews)
  BY <1>1, LastReview
<1> QED
  BY <1>2 DEF NewestExists

\* A later mention agrees with every earlier one.
LEMMA NewestAgrees ==
  ASSUME LogInv, FindingsSettled, NEW s \in Slugs,
         NEW U \in SUBSET OfSlug(s, reviews), NEW f, NEW q \in U, f \in DOMAIN q.findings,
         NEW top \in U, Newest(top, f, U)
  PROVE  Consistent(q.findings[f], top.findings[f])
<1>1. ReviewsFit
  BY ReviewsDoFit DEF LogInv
<1>2. /\ q \in reviews /\ top \in reviews /\ LeaseOf(q).slug = LeaseOf(top).slug
      /\ LeaseOf(q).attempt <= LeaseOf(top).attempt /\ f \in DOMAIN top.findings
  BY DEF OfSlug, Newest, Mentions
<1>3. CASE q = top
  BY <1>3 DEF Consistent
<1>4. CASE q # top
  <2>1. LeaseOf(q).attempt < LeaseOf(top).attempt
    BY <1>1, <1>2, <1>4 DEF ReviewsFit
  <2> QED
    BY <1>2, <2>1 DEF FindingsSettled
<1> QED
  BY <1>3, <1>4

LEMMA NewestNext ==
  ASSUME LogInv, NewestExists, [Next]_vars
  PROVE  NewestExists'
<1>1. LineageInv /\ \A q \in reviews : LeaseOf(q)' = LeaseOf(q)
  BY ParentsKnown DEF LogInv
<1> SUFFICES ASSUME NEW r \in reviews', NEW f \in Mentioned(Upto(r))'
             PROVE  (\E top \in Upto(r) : Newest(top, f, Upto(r)))'
  BY DEF NewestExists
<1>2. CASE r \in reviews
  <2>1. PICK U : U = Upto(r) /\ U = Upto(r)'
    BY <1>2, UptoKept
  <2>2. U \subseteq reviews
    BY <2>1 DEF Upto, OfSlug
  <2>3. f \in Mentioned(U)
    BY <2>1 DEF Mentioned, Mentions
  <2>4. PICK top \in U : Newest(top, f, U)
    BY <1>2, <2>1, <2>3 DEF NewestExists
  <2>5. Newest(top, f, U)'
    BY <1>1, <2>2, <2>4 DEF Newest, Mentions
  <2> QED
    BY <2>1, <2>4, <2>5 DEF Newest, Mentions
<1>3. CASE r \notin reviews
  <2>1. PICK s \in Slugs, c \in Collectors :
          /\ r \in Inserted(c) /\ NextRound(s, r) /\ LeaseOf(r)' = LeaseOf(r)
          /\ OfSlug(s, reviews)' = OfSlug(s, reviews) \cup {r}
          /\ Upto(r)' = OfSlug(s, reviews) \cup {r}
    BY <1>3, NewReview
  <2>2. PICK S : S = OfSlug(s, reviews) /\ S \subseteq reviews
    BY DEF OfSlug
  <2>3. PICK U : U = Upto(r)' /\ U = S \cup {r}
    BY <2>1, <2>2
  <2>4. \A q \in S : /\ LeaseOf(q)' = LeaseOf(q)
                     /\ LeaseOf(q)'.attempt <= LeaseOf(r)'.attempt
    <3>1. LeaseOf(r).attempt = Cardinality(S) + 1 /\ Cardinality(S) \in Nat
      BY <2>1, <2>2, FS_CardinalityType DEF NextRound, LogInv, Counted
    <3> QED
      BY <1>1, <2>1, <2>2, <3>1, LastUpto
  <2>5. LeaseOf(r)'.attempt <= LeaseOf(r)'.attempt
    <3>1. LeaseOf(r).attempt = Cardinality(S) + 1 /\ Cardinality(S) \in Nat
      BY <2>1, <2>2, FS_CardinalityType DEF NextRound, LogInv, Counted
    <3> QED
      BY <2>1, <3>1
  <2>6. CASE f \in DOMAIN r.findings
    <3>1. Newest(r, f, U)'
      BY <2>3, <2>4, <2>5, <2>6 DEF Newest, Mentions
    <3> QED
      BY <2>3, <3>1 DEF Newest, Mentions
  <2>7. CASE f \notin DOMAIN r.findings
    <3>1. f \in Mentioned(S)
      BY <2>3, <2>7 DEF Mentioned, Mentions
    <3>2. PICK top \in S : Newest(top, f, S)
      BY <2>2, <3>1, NewestInSlug
    <3>3. Newest(top, f, U)'
      BY <2>3, <2>4, <2>7, <3>2 DEF Newest, Mentions
    <3> QED
      BY <2>3, <3>2, <3>3 DEF Newest, Mentions
  <2> QED
    BY <2>6, <2>7
<1> QED
  BY <1>2, <1>3

LEMMA SettledNext ==
  ASSUME LogInv, FindingsSettled, NewestExists, StillAdmitted, [Next]_vars
  PROVE  FindingsSettled'
<1>1. LineageInv /\ \A q \in reviews : LeaseOf(q)' = LeaseOf(q)
  BY ParentsKnown DEF LogInv
<1> SUFFICES ASSUME NEW s \in Slugs, NEW q \in OfSlug(s, reviews)', NEW p \in OfSlug(s, reviews)',
                    LeaseOf(q)'.attempt < LeaseOf(p)'.attempt,
                    NEW f \in DOMAIN q.findings \cap DOMAIN p.findings
             PROVE  Consistent(q.findings[f], p.findings[f])
  BY DEF FindingsSettled, Consistent
<1>2. PICK S : S = OfSlug(s, reviews) /\ S \subseteq reviews
  BY DEF OfSlug
<1>3. CASE q \in S /\ p \in S
  BY <1>1, <1>2, <1>3 DEF FindingsSettled
<1>4. ASSUME NEW c \in Collectors, NEW x \in Inserted(c),
             NextRound(s, x), LeaseOf(x)' = LeaseOf(x),
             OfSlug(s, reviews)' = S \cup {x}
      PROVE  Consistent(q.findings[f], p.findings[f])
  <2>1. LeaseOf(x).attempt = Cardinality(S) + 1 /\ Cardinality(S) \in Nat
    BY <1>2, <1>4, FS_CardinalityType DEF NextRound, LogInv, Counted
  <2>2. \A t \in S : LeaseOf(t)'.attempt <= LeaseOf(x)'.attempt
    BY <1>1, <1>2, <1>4, <2>1, LastUpto
  <2>3. CASE p = x /\ q \in S
    <3>1. PICK top \in S : Newest(top, f, S)
      <4>1. f \in Mentioned(S)
        <5>1. q \in Review
          BY <1>1, <1>2, <2>3, ReviewsDoFit DEF ReviewsFit
        <5>2. f \in Findings
          BY <5>1 DEF Review, FindingLists
        <5> QED
          BY <2>3, <5>2 DEF Mentioned, Mentions
      <4> QED
        BY <1>2, <4>1, NewestInSlug
    <3>2. Consistent(q.findings[f], top.findings[f])
      BY <1>2, <2>3, <3>1, NewestAgrees
    <3>3. LeaseOf(x).slug = s
      BY <1>4 DEF NextRound
    <3>4. Consistent(top.findings[f], x.findings[f])
      BY <1>2, <1>4, <2>3, <3>1, <3>3 DEF StillAdmitted, FindingsAdmitted
    <3> QED
      BY <2>3, <3>2, <3>4 DEF Consistent
  <2>4. q # x
    <3>1. CASE p = x
      BY <1>4, <2>1, <3>1
    <3>2. CASE p \in S
      <4>1. LeaseOf(p)'.attempt \in Nat /\ LeaseOf(x)'.attempt \in Nat
        BY <1>1, <1>2, <1>4, <2>1, <3>2, LastUpto
      <4> QED
        BY <2>2, <3>2, <4>1
    <3> QED
      BY <1>4, <3>1, <3>2
  <2> QED
    BY <1>3, <1>4, <2>3, <2>4
<1>5. CASE OfSlug(s, reviews)' = S
  BY <1>3, <1>5
<1> QED
  BY <1>2, <1>4, <1>5, SlugStep

LEMMA GateInit == Init => GateInv
<1> SUFFICES ASSUME Init PROVE GateInv
  OBVIOUS
<1>1. reviews = {} /\ \A c \in Collectors : Inserted(c) = {}
  BY DEF Init, Inserted
<1> QED
  BY <1>1, LogInit
  DEF GateInv, ChainsWhole, FindingsSettled, NewestExists, StillAdmitted, OfSlug

LEMMA GateNext == GateInv /\ [Next]_vars => GateInv'
BY LogNext, ChainsNext, AdmittedNext, NewestNext, SettledNext DEF GateInv

LEMMA GateCorrect == Spec => []GateInv
BY GateInit, GateNext, PTL DEF Spec

-----------------------------------------------------------------------------
(* What readiness reads.                                                   *)

\* The walk from a committed review meets exactly the rounds up to it.
LEMMA Walk ==
  ASSUME GateInv, NEW r \in reviews
  PROVE  Chain(r) = Upto(r)
<1>1. ReviewsFit
  BY ReviewsDoFit DEF GateInv, LogInv
<1> QED
  BY <1>1, ChainWithin DEF GateInv, ChainsWhole

\* A skill has as many reviews as its last one has attempts.
LEMMA LastIsCounted ==
  ASSUME GateInv, NEW r \in reviews
  PROVE  LET S == OfSlug(LeaseOf(r).slug, reviews) IN
         /\ {q \in S : LeaseOf(q).lineage = LeaseOf(r).lineage} = S
         /\ Cardinality(S) = LeaseOf(r).attempt <=> IsLast(r)
         /\ IsLast(r) => Upto(r) = S
<1>1. LogInv /\ ReviewsFit
  BY ReviewsDoFit DEF GateInv, LogInv
<1>2. PICK s \in Slugs : s = LeaseOf(r).slug
  BY <1>1 DEF ReviewsFit
<1>3. PICK S : S = OfSlug(s, reviews)
  OBVIOUS
<1>4. r \in S /\ S \subseteq reviews /\ \A q \in S : LeaseOf(q).slug = s
  BY <1>2, <1>3 DEF OfSlug
<1>5. {q \in S : LeaseOf(q).lineage = LeaseOf(r).lineage} = S
  BY <1>1, <1>2, <1>4 DEF ReviewsFit
<1>6. PICK N \in Nat : N = Cardinality(S) /\ {LeaseOf(q).attempt : q \in S} = 1 .. N
  <2>1. IsFiniteSet(S) /\ {LeaseOf(q).attempt : q \in S} = 1 .. Cardinality(S)
    BY <1>1, <1>3 DEF LogInv, Counted
  <2> QED
    BY <2>1, FS_CardinalityType
<1>7. LeaseOf(r).attempt \in 1 .. N
  BY <1>4, <1>6
<1>8. IsLast(r) <=> \A q \in S : LeaseOf(q).attempt <= LeaseOf(r).attempt
  BY <1>2, <1>3 DEF IsLast
<1>9. ASSUME \A q \in S : LeaseOf(q).attempt <= LeaseOf(r).attempt
      PROVE  N = LeaseOf(r).attempt
  <2>1. PICK q \in S : LeaseOf(q).attempt = N
    BY <1>6, <1>7
  <2> QED
    BY <1>7, <1>9, <2>1
<1>10. ASSUME N = LeaseOf(r).attempt
       PROVE  \A q \in S : LeaseOf(q).attempt <= LeaseOf(r).attempt
  BY <1>6, <1>10
<1>11. IsLast(r) => Upto(r) = S
  BY <1>2, <1>3, <1>8 DEF Upto
<1> QED
  BY <1>2, <1>3, <1>5, <1>6, <1>8, <1>9, <1>10, <1>11

LEMMA ContextsApart == LineageInv => IndependentLineage
<1> SUFFICES ASSUME LineageInv, NEW q \in reviews, NEW p \in reviews,
                    LeaseOf(q).slug = LeaseOf(p).slug
             PROVE  /\ q # p => LeaseOf(q).reviewer # LeaseOf(p).reviewer
                    /\ LeaseOf(q).reviewer # LeaseOf(p).fixer
  BY DEF IndependentLineage
<1>1. CASE q = p
  BY <1>1 DEF LineageInv, TypeOK, Leased, LeaseOf
<1>2. CASE q # p
  BY <1>2 DEF LineageInv, Joined, Compatible
<1> QED
  BY <1>1, <1>2

\* What both languages ask of a chain holds of the rounds up to any review.
LEMMA ChainSound ==
  ASSUME GateInv, NEW r \in reviews
  PROVE  Linked(Upto(r)) /\ Independent(Upto(r)) /\ FindingsKept(Upto(r))
<1>1. LogInv /\ LineageInv /\ ReviewsFit /\ IndependentLineage
  BY ReviewsDoFit, ContextsApart DEF GateInv, LogInv
<1>2. PICK s \in Slugs : s = LeaseOf(r).slug
  BY <1>1 DEF ReviewsFit
<1>3. PICK U : U = Upto(r)
  OBVIOUS
<1>4. /\ U \subseteq reviews /\ U \in SUBSET OfSlug(s, reviews)
      /\ \A q \in U : /\ LeaseOf(q).slug = s
                      /\ LeaseOf(q).attempt <= LeaseOf(r).attempt
      /\ \A q \in reviews : /\ LeaseOf(q).slug = s
                            /\ LeaseOf(q).attempt <= LeaseOf(r).attempt
                            => q \in U
  BY <1>2, <1>3 DEF Upto, OfSlug
<1>5. Linked(U)
  <2> SUFFICES ASSUME NEW q \in U, LeaseOf(q).attempt > 1
               PROVE  \E p \in U : Continues(LeaseOf(q), p)
    BY DEF Linked
  <2>1. q \in Review /\ q.lease \in DOMAIN leases
    BY <1>1, <1>4 DEF ReviewsFit
  <2>2. PICK p \in reviews : Continues(LeaseOf(q), p)
    BY <1>1, <2>1, PriorCommitted
  <2>3. LeaseOf(p).slug = s /\ LeaseOf(p).attempt + 1 = LeaseOf(q).attempt
    BY <1>4, <2>2 DEF Continues
  <2>4. LeaseOf(p).attempt <= LeaseOf(r).attempt
    BY <1>1, <1>4, <2>3 DEF ReviewsFit
  <2> QED
    BY <1>4, <2>2, <2>3, <2>4
<1>6. Independent(U)
  BY <1>1, <1>4 DEF IndependentLineage, Independent
<1>7. FindingsKept(U)
  <2> SUFFICES ASSUME NEW f \in Mentioned(U), NEW q \in Mentions(f, U), NEW top \in U,
                      Newest(top, f, U)
               PROVE  Consistent(q.findings[f], top.findings[f])
    BY DEF FindingsKept
  <2>1. q \in U /\ f \in DOMAIN q.findings
    BY DEF Mentions
  <2> QED
    BY <1>1, <1>4, <2>1, NewestAgrees DEF GateInv
<1> QED
  BY <1>3, <1>5, <1>6, <1>7

\* r was passed, and closed every blocker raised up to it.
Settled(r) ==
  /\ LeaseOf(r).phase = "recheck"
  /\ LeaseOf(r).passed
  /\ OpenBlockers(Upto(r)) = {}

LEMMA ReadyReviewMeans ==
  ASSUME GateInv, NEW r \in reviews
  PROVE  ReadyReview(r) <=> Settled(r)
BY Walk, ChainSound DEF ReadyReview, Settled

LEMMA SQLReadyMeans ==
  ASSUME GateInv, NEW r \in reviews
  PROVE  ContentReviewReady(r) <=> IsLast(r) /\ Settled(r)
<1>1. PICK U : U = Upto(r)
  OBVIOUS
<1>2. Chain(r) = U /\ Linked(U) /\ Independent(U) /\ FindingsKept(U)
  BY <1>1, Walk, ChainSound
<1>3. \A f \in Mentioned(U) : \A q \in Mentions(f, U), top \in U :
        Newest(top, f, U) =>
          /\ top.findings[f].severity = q.findings[f].severity
          /\ q.findings[f].disposition = "resolved" => top.findings[f].disposition = "resolved"
  BY <1>2 DEF FindingsKept, Consistent
<1>4. Cardinality({q \in OfSlug(LeaseOf(r).slug, reviews) :
                     LeaseOf(q).lineage = LeaseOf(r).lineage}) = LeaseOf(r).attempt
        <=> IsLast(r)
  BY LastIsCounted
<1> QED
  BY <1>1, <1>2, <1>3, <1>4 DEF ContentReviewReady, Settled

LEMMA VersionReadyMeans ==
  ASSUME GateInv, NEW r \in reviews, IsLast(r)
  PROVE  ReadyVersion(r) <=> Settled(r)
<1>1. LogInv /\ ReviewsFit
  BY ReviewsDoFit DEF GateInv, LogInv
<1>2. PICK s \in Slugs : s = LeaseOf(r).slug
  BY <1>1 DEF ReviewsFit
<1>3. PICK S : S = OfSlug(s, reviews)
  OBVIOUS
<1>4. Upto(r) = S /\ Linked(S)
  BY <1>2, <1>3, LastIsCounted, ChainSound
<1>5. r \in S /\ \A q \in S : q \in reviews /\ LeaseOf(q).slug = s
  BY <1>2, <1>3 DEF OfSlug
<1>6. \A q \in S : LeaseOf(q).attempt <= LeaseOf(r).attempt
  BY <1>2, <1>3 DEF IsLast
<1>7. \A q \in S : LeaseOf(q).lineage = LeaseOf(r).lineage
  BY <1>1, <1>5 DEF ReviewsFit
<1>8. \A q, p \in S : LeaseOf(q).attempt = LeaseOf(p).attempt => q = p
  BY <1>1, <1>5 DEF ReviewsFit
<1>9. \A q \in S : \A n \in 1 .. LeaseOf(q).attempt : \E p \in S : LeaseOf(p).attempt = n
  <2>1. PICK N \in Nat : {LeaseOf(q).attempt : q \in S} = 1 .. N
    <3>1. IsFiniteSet(S) /\ {LeaseOf(q).attempt : q \in S} = 1 .. Cardinality(S)
      BY <1>1, <1>3 DEF LogInv, Counted
    <3> QED
      BY <3>1, FS_CardinalityType
  <2> SUFFICES ASSUME NEW q \in S, NEW n \in 1 .. LeaseOf(q).attempt
               PROVE  \E p \in S : LeaseOf(p).attempt = n
    OBVIOUS
  <2>2. LeaseOf(q).attempt \in 1 .. N
    BY <2>1
  <2>3. n \in 1 .. N
    BY <2>2
  <2> QED
    BY <2>1, <2>3
<1> QED
  BY <1>2, <1>3, <1>4, <1>6, <1>7, <1>8, <1>9, ReadyReviewMeans DEF ReadyVersion

-----------------------------------------------------------------------------
(* The theorems.                                                           *)

\* Every blocker that an earlier round held open was resolved, as a blocker, in
\* a later round up to the ready review, by a context that neither raised nor
\* fixed it.
THEOREM NoBlockerLost == Spec => []BlockersAnswered
<1>1. GateInv => BlockersAnswered
  <2> SUFFICES ASSUME GateInv, NEW r \in reviews, ContentReviewReady(r),
                      NEW q \in OfSlug(LeaseOf(r).slug, reviews), NEW f \in DOMAIN q.findings,
                      q.findings[f].severity = "blocking", q.findings[f].disposition = "open"
               PROVE  \E p \in OfSlug(LeaseOf(r).slug, reviews) :
                        /\ LeaseOf(q).attempt < LeaseOf(p).attempt
                        /\ LeaseOf(p).attempt <= LeaseOf(r).attempt
                        /\ f \in DOMAIN p.findings
                        /\ p.findings[f].disposition = "resolved"
                        /\ p.findings[f].severity = "blocking"
                        /\ LeaseOf(p).reviewer \notin
                             {LeaseOf(q).reviewer, LeaseOf(q).fixer, LeaseOf(p).fixer}
    BY DEF BlockersAnswered
  <2>1. LogInv /\ ReviewsFit /\ IndependentLineage
    BY ReviewsDoFit, ContextsApart DEF GateInv, LogInv
  <2>2. PICK s \in Slugs : s = LeaseOf(r).slug
    BY <2>1 DEF ReviewsFit
  <2>3. PICK S : S = OfSlug(s, reviews)
    OBVIOUS
  <2>4. /\ \A p \in S : p \in reviews /\ LeaseOf(p).slug = s
        /\ q \in S
    BY <2>2, <2>3 DEF OfSlug
  <2>5. IsLast(r) /\ OpenBlockers(S) = {}
    BY <2>2, <2>3, SQLReadyMeans, LastIsCounted DEF Settled
  <2>6. \A p \in reviews : p.findings \in FindingLists
    BY <2>1 DEF ReviewsFit, Review
  <2>7. f \in Findings
    BY <2>4, <2>6 DEF FindingLists
  <2>8. f \in Mentioned(S)
    BY <2>4, <2>7 DEF Mentioned, Mentions
  <2>9. PICK top \in S : Newest(top, f, S)
    BY <2>1, <2>3, <2>8, NewestInSlug DEF GateInv
  <2>10. /\ f \in DOMAIN top.findings
         /\ LeaseOf(q).attempt <= LeaseOf(top).attempt
    BY <2>4, <2>9 DEF Newest, Mentions
  <2>11. top.findings[f].severity = "blocking"
    <3>1. Consistent(q.findings[f], top.findings[f])
      BY <2>1, <2>3, <2>4, <2>9, NewestAgrees DEF GateInv
    <3> QED
      BY <3>1 DEF Consistent
  <2>12. top.findings[f].disposition = "resolved"
    <3>1. top.findings[f].disposition # "open"
      BY <2>5, <2>8, <2>9, <2>11 DEF OpenBlockers
    <3>2. top.findings \in FindingLists
      BY <2>4, <2>6
    <3>3. top.findings[f] \in Mention
      BY <2>10, <3>2 DEF FindingLists
    <3> QED
      BY <3>1, <3>3 DEF Mention
  <2>13. top # q
    BY <2>12
  <2>14. LeaseOf(q).attempt < LeaseOf(top).attempt
    BY <2>1, <2>4, <2>10, <2>13 DEF ReviewsFit
  <2>15. LeaseOf(top).attempt <= LeaseOf(r).attempt
    BY <2>2, <2>3, <2>5 DEF IsLast
  <2>16. LeaseOf(top).reviewer \notin
           {LeaseOf(q).reviewer, LeaseOf(q).fixer, LeaseOf(top).fixer}
    BY <2>1, <2>4, <2>13 DEF IndependentLineage
  <2> QED
    BY <2>2, <2>3, <2>9, <2>10, <2>11, <2>12, <2>14, <2>15, <2>16
<1> QED
  BY <1>1, GateCorrect, PTL

\* SQL calls a review ready exactly when it is the last of its skill and
\* Python's readiness of its version is READY by it.
LEMMA ReadinessIsOne == GateInv => ReadinessAgrees
<1> SUFFICES ASSUME GateInv, NEW r \in reviews
             PROVE  ContentReviewReady(r) <=> ReadyVersion(r) /\ IsLast(r)
  BY DEF ReadinessAgrees
<1> QED
  BY SQLReadyMeans, VersionReadyMeans

-----------------------------------------------------------------------------
(* Admission, in Python and in SQL.                                        *)

\* The walk from a review that would be the next one meets all of its skill.
LEMMA CandidateChain ==
  ASSUME GateInv, NEW s \in Slugs, NEW r, NextRound(s, r)
  PROVE  Chain(r) = OfSlug(s, reviews) \cup {r}
<1>1. LogInv /\ LineageInv /\ ReviewsFit /\ TypeOK
  BY ReviewsDoFit DEF GateInv, LogInv, LineageInv
<1>2. PICK S : S = OfSlug(s, reviews)
  OBVIOUS
<1>3. S \subseteq reviews /\ \A q \in reviews : q \in S <=> LeaseOf(q).slug = s
  BY <1>2 DEF OfSlug
<1>4. /\ r \in Review /\ r.lease \in DOMAIN leases /\ LeaseOf(r).slug = s /\ r \notin S
      /\ LeaseOf(r).attempt = Cardinality(S) + 1 /\ Cardinality(S) \in Nat
  BY <1>1, <1>2, FS_CardinalityType DEF NextRound, LogInv, Counted
<1>5. Closed(S \cup {r})
  <2> SUFFICES ASSUME NEW q \in S \cup {r}, NEW p \in reviews, p.lease = LeaseOf(q).prior
               PROVE  p \in S
    BY DEF Closed
  <2>1. CASE q \in S
    BY <1>1, <1>3, <2>1 DEF ReviewsFit
  <2>2. CASE q = r
    <3>1. p.lease # 0
      BY <1>1 DEF TypeOK
    <3>2. LeaseOf(r).attempt > 1
      BY <1>1, <1>4, <2>2, <3>1, AttemptType
    <3>3. PICK t \in S : Continues(LeaseOf(r), t)
      BY <1>2, <3>2 DEF NextRound
    <3>4. LeaseOf(p) = LeaseOf(t)
      BY <2>2, <3>3 DEF Continues, LeaseOf
    <3> QED
      BY <1>3, <3>3, <3>4
  <2> QED
    BY <2>1, <2>2
<1>6. Chain(r) \subseteq S \cup {r}
  BY <1>3, <1>5 DEF Chain
<1>7. ASSUME NEW q \in S, NEW C \in SUBSET (reviews \cup {r}), r \in C, Closed(C)
      PROVE  q \in C
  <2>1. Cardinality(S) # 0
    <3>1. IsFiniteSet(S)
      BY <1>1, <1>2 DEF LogInv, Counted
    <3> QED
      BY <1>7, <3>1, FS_EmptySet
  <2>2. PICK p \in S : Continues(LeaseOf(r), p) /\ LeaseOf(p).attempt = Cardinality(S)
    BY <1>2, <1>4, <2>1 DEF NextRound
  <2>3. p \in C
    BY <1>3, <1>7, <2>2 DEF Closed, Continues
  <2>4. q \in Chain(p)
    <3>1. q \in Upto(p) /\ p \in reviews
      BY <1>1, <1>2, <1>3, <2>2, LastUpto
    <3> QED
      BY <3>1 DEF GateInv, ChainsWhole
  <2>5. C \cap reviews \in SUBSET (reviews \cup {p}) /\ p \in C \cap reviews
    BY <1>3, <2>3
  <2>6. Closed(C \cap reviews)
    BY <1>7 DEF Closed
  <2> QED
    BY <2>4, <2>5, <2>6 DEF Chain
<1>8. S \cup {r} \subseteq Chain(r)
  BY <1>3, <1>7 DEF Chain
<1> QED
  BY <1>2, <1>6, <1>8

LEMMA CandidateType ==
  ASSUME LineageInv, NEW r \in Candidates
  PROVE  /\ r \in Review /\ r.lease \in DOMAIN leases
         /\ LeaseOf(r) \in Lease /\ LeaseOf(r).slug \in Slugs
         /\ LeaseOf(r).attempt \in Nat /\ LeaseOf(r).attempt >= 1
         /\ LeaseOf(r).attempt = 1 => LeaseOf(r).prior = 0
         /\ LeaseOf(r).reviewer # LeaseOf(r).fixer
<1>1. leases \in Seq(Lease)
  BY DEF LineageInv, TypeOK
<1>2. r \in Review /\ r.lease \in DOMAIN leases
  BY <1>1 DEF Candidates, Review
<1>3. \A l \in Lease : l.slug \in Slugs
  BY DEF Lease
<1>4. LeaseOf(r).reviewer # LeaseOf(r).fixer
  BY <1>2 DEF LineageInv, Leased, LeaseOf
<1> QED
  BY <1>2, <1>3, <1>4, AttemptType

\* What the collector validates is the next round of its skill ...
LEMMA PreparedFits ==
  ASSUME GateInv, NEW r \in Candidates, Prepared(r)
  PROVE  NextRound(LeaseOf(r).slug, r)
<1>1. LogInv /\ LineageInv
  BY DEF GateInv, LogInv
<1>2. /\ r \in Review /\ r.lease \in DOMAIN leases
      /\ LeaseOf(r).attempt \in Nat /\ LeaseOf(r).attempt >= 1
  BY <1>1, CandidateType
<1>3. PICK s, S : s = LeaseOf(r).slug /\ S = OfSlug(s, reviews)
  OBVIOUS
<1>4. /\ LeaseOf(r).attempt \notin {LeaseOf(q).attempt : q \in S}
      /\ LeaseOf(r).attempt = 1 => S = {}
      /\ LeaseOf(r).attempt > 1 =>
           /\ \E p \in S : /\ Continues(LeaseOf(r), p)
                           /\ {q \in S : LeaseOf(q).attempt = LeaseOf(r).attempt - 1} = {p}
           /\ Cardinality(S) = LeaseOf(r).attempt - 1
  BY <1>3 DEF Prepared
<1>5. r \notin S
  BY <1>4
<1>6. CASE LeaseOf(r).attempt = 1
  <2>1. Cardinality(S) = 0
    BY <1>4, <1>6, FS_EmptySet
  <2> QED
    BY <1>2, <1>3, <1>5, <1>6, <2>1 DEF NextRound
<1>7. CASE LeaseOf(r).attempt > 1
  <2>1. PICK p \in S : Continues(LeaseOf(r), p) /\ LeaseOf(p).attempt = LeaseOf(r).attempt - 1
    BY <1>4, <1>7
  <2>2. Cardinality(S) = LeaseOf(r).attempt - 1
    BY <1>4, <1>7
  <2>3. LeaseOf(r).attempt = Cardinality(S) + 1
    BY <1>2, <2>2
  <2> QED
    BY <1>2, <1>3, <1>5, <2>1, <2>2, <2>3 DEF NextRound
<1> QED
  BY <1>2, <1>6, <1>7

\* ... and so is what the database admits.
LEMMA AdmittedFits ==
  ASSUME GateInv, NEW r \in Candidates, Admitted(LeaseOf(r), r.findings, reviews)
  PROVE  NextRound(LeaseOf(r).slug, r)
<1>1. LogInv /\ LineageInv
  BY DEF GateInv, LogInv
<1>2. /\ r \in Review /\ r.lease \in DOMAIN leases /\ LeaseOf(r).slug \in Slugs
      /\ LeaseOf(r).attempt \in Nat /\ LeaseOf(r).attempt >= 1
  BY <1>1, CandidateType
<1>3. PICK s \in Slugs : s = LeaseOf(r).slug
  BY <1>2
<1>4. PICK S : S = OfSlug(s, reviews)
  OBVIOUS
<1>5. PICK N \in Nat : N = Cardinality(S) /\ {LeaseOf(q).attempt : q \in S} = 1 .. N
  <2>1. IsFiniteSet(S) /\ {LeaseOf(q).attempt : q \in S} = 1 .. Cardinality(S)
    BY <1>1, <1>4 DEF LogInv, Counted
  <2> QED
    BY <2>1, FS_CardinalityType
<1>6. \A q \in S : q \in reviews /\ LeaseOf(q).lineage = LeaseOf(r).lineage
  <2>1. OfSlug(s, reviews) =
          {q \in OfSlug(s, reviews) : LeaseOf(q).lineage = LeaseOf(r).lineage}
    BY <1>3 DEF Admitted, Trigger
  <2> QED
    BY <1>4, <2>1 DEF OfSlug
<1>7. LeaseOf(r).attempt \notin 1 .. N
  <2>1. \A q \in S : LeaseOf(q).attempt # LeaseOf(r).attempt
    BY <1>6 DEF Admitted, SameKey
  <2> QED
    BY <1>5, <2>1
<1>8. r \notin S
  BY <1>5, <1>7
<1>9. CASE LeaseOf(r).attempt = 1
  <2>1. N = 0
    BY <1>7, <1>9
  <2> QED
    BY <1>2, <1>3, <1>4, <1>5, <1>8, <1>9, <2>1 DEF NextRound
<1>10. CASE LeaseOf(r).attempt > 1
  <2>1. PICK p \in reviews : Continues(LeaseOf(r), p)
    BY <1>10 DEF Admitted, Trigger
  <2>2. p \in S /\ LeaseOf(p).attempt + 1 = LeaseOf(r).attempt
    BY <1>3, <1>4, <2>1 DEF Continues, OfSlug
  <2>3. LeaseOf(p).attempt \in 1 .. N
    BY <1>5, <2>2
  <2>4. LeaseOf(p).attempt = N /\ LeaseOf(r).attempt = N + 1
    BY <1>2, <1>7, <2>2, <2>3
  <2> QED
    BY <1>2, <1>3, <1>4, <1>5, <1>8, <2>1, <2>2, <2>4 DEF NextRound
<1> QED
  BY <1>2, <1>9, <1>10

\* The history of a next round, of which the prior review is the last.
LEMMA History ==
  ASSUME GateInv, NEW r \in Candidates, NextRound(LeaseOf(r).slug, r)
  PROVE  LET S == OfSlug(LeaseOf(r).slug, reviews) IN
         /\ Linked(S) /\ Independent(S)
         /\ {LeaseOf(q).attempt : q \in S} = 1 .. LeaseOf(r).attempt - 1
         /\ Cardinality(S) = LeaseOf(r).attempt - 1
         /\ LeaseOf(r).attempt = 1 => S = {}
         /\ LeaseOf(r).attempt > 1 =>
              \E p \in S : /\ Continues(LeaseOf(r), p)
                          /\ {q \in S : LeaseOf(q).attempt = LeaseOf(r).attempt - 1} = {p}
         /\ \A q \in S : /\ LeaseOf(q).lineage = LeaseOf(r).lineage
                         /\ LeaseOf(q).attempt < LeaseOf(r).attempt
<1>1. LogInv /\ LineageInv /\ ReviewsFit
  BY ReviewsDoFit DEF GateInv, LogInv
<1>2. LeaseOf(r).slug \in Slugs /\ LeaseOf(r).attempt \in Nat /\ LeaseOf(r).attempt >= 1
  BY <1>1, CandidateType
<1>3. PICK s \in Slugs : s = LeaseOf(r).slug
  BY <1>2
<1>4. PICK S : S = OfSlug(s, reviews)
  OBVIOUS
<1>5. PICK N \in Nat : /\ N = Cardinality(S) /\ {LeaseOf(q).attempt : q \in S} = 1 .. N
                      /\ IsFiniteSet(S)
  <2>1. IsFiniteSet(S) /\ {LeaseOf(q).attempt : q \in S} = 1 .. Cardinality(S)
    BY <1>1, <1>4 DEF LogInv, Counted
  <2> QED
    BY <2>1, FS_CardinalityType
<1>6. LeaseOf(r).attempt = N + 1
  BY <1>3, <1>4, <1>5 DEF NextRound
<1>7. \A q \in S : q \in reviews /\ LeaseOf(q).slug = s
  BY <1>4 DEF OfSlug
<1>8. {LeaseOf(q).attempt : q \in S} = 1 .. LeaseOf(r).attempt - 1
      /\ Cardinality(S) = LeaseOf(r).attempt - 1
      /\ \A q \in S : LeaseOf(q).attempt < LeaseOf(r).attempt
  BY <1>5, <1>6
<1>9. LeaseOf(r).attempt = 1 => S = {}
  BY <1>5, <1>6, FS_EmptySet
<1>10. ASSUME LeaseOf(r).attempt > 1
       PROVE  \E p \in S : /\ Continues(LeaseOf(r), p)
                          /\ {q \in S : LeaseOf(q).attempt = LeaseOf(r).attempt - 1} = {p}
                          /\ \A q \in S : LeaseOf(q).lineage = LeaseOf(r).lineage
  <2>1. PICK p \in S : Continues(LeaseOf(r), p) /\ LeaseOf(p).attempt = Cardinality(S)
    BY <1>3, <1>4, <1>10 DEF NextRound
  <2>2. LeaseOf(p).attempt = LeaseOf(r).attempt - 1
    BY <1>8, <2>1
  <2>3. \A q \in S : LeaseOf(q).attempt = LeaseOf(r).attempt - 1 => q = p
    BY <1>1, <1>7, <2>1, <2>2 DEF ReviewsFit
  <2>4. {q \in S : LeaseOf(q).attempt = LeaseOf(r).attempt - 1} = {p}
    BY <2>1, <2>2, <2>3
  <2>5. \A q \in S : LeaseOf(q).lineage = LeaseOf(r).lineage
    BY <1>1, <1>7, <2>1 DEF ReviewsFit, Continues
  <2> QED
    BY <2>1, <2>4, <2>5
<1>11. \A q \in S : LeaseOf(q).lineage = LeaseOf(r).lineage
  BY <1>2, <1>9, <1>10
<1>12. Linked(S) /\ Independent(S)
  <2>1. CASE S = {}
    BY <2>1 DEF Linked, Independent
  <2>2. CASE S # {}
    <3>1. PICK p \in reviews : Upto(p) = S
      BY <1>1, <1>4, <2>2, LastReview
    <3> QED
      BY <3>1, ChainSound
  <2> QED
    BY <2>1, <2>2
<1> QED
  BY <1>3, <1>4, <1>8, <1>9, <1>10, <1>11, <1>12

LEMMA AdmissionIsOne == GateInv => AdmissionAgrees
<1> SUFFICES ASSUME GateInv, NEW r \in Candidates,
                    \A q \in reviews : LeaseOf(q).lineage = LeaseOf(r).lineage
                                         => LeaseOf(q).slug = LeaseOf(r).slug
             PROVE  Prepared(r) <=> Admitted(LeaseOf(r), r.findings, reviews)
  BY DEF AdmissionAgrees
<1>1. LogInv /\ LineageInv /\ ReviewsFit
  BY ReviewsDoFit DEF GateInv, LogInv
<1>2. /\ r \in Review /\ LeaseOf(r).slug \in Slugs
      /\ LeaseOf(r).attempt \in Nat /\ LeaseOf(r).attempt >= 1
      /\ LeaseOf(r).attempt = 1 => LeaseOf(r).prior = 0
      /\ LeaseOf(r).reviewer # LeaseOf(r).fixer
  BY <1>1, CandidateType
<1>3. PICK s \in Slugs : s = LeaseOf(r).slug
  BY <1>2
<1>4. PICK S : S = OfSlug(s, reviews)
  OBVIOUS
<1>5. /\ \A q \in reviews : q \in S <=> LeaseOf(q).slug = s
      /\ \A q \in S : q \in reviews
  BY <1>4 DEF OfSlug
<1> SUFFICES ASSUME NextRound(s, r)
             PROVE  Prepared(r) <=> Admitted(LeaseOf(r), r.findings, reviews)
  BY <1>3, PreparedFits, AdmittedFits
<1>6. /\ Linked(S) /\ Independent(S)
      /\ {LeaseOf(q).attempt : q \in S} = 1 .. LeaseOf(r).attempt - 1
      /\ Cardinality(S) = LeaseOf(r).attempt - 1
      /\ LeaseOf(r).attempt = 1 => S = {}
      /\ LeaseOf(r).attempt > 1 =>
           \E p \in S : /\ Continues(LeaseOf(r), p)
                       /\ {q \in S : LeaseOf(q).attempt = LeaseOf(r).attempt - 1} = {p}
      /\ \A q \in S : /\ LeaseOf(q).lineage = LeaseOf(r).lineage
                      /\ LeaseOf(q).attempt < LeaseOf(r).attempt
      /\ \A q \in S : LeaseOf(q).attempt \in Nat
  BY <1>1, <1>3, <1>4, <1>5, History DEF ReviewsFit
<1>7. Chain(r) = S \cup {r} /\ r \notin S
  BY <1>4, CandidateChain DEF NextRound
<1>8. Linked(S \cup {r})
  BY <1>6 DEF Linked
<1>9. ASSUME NEW q \in reviews, SameKey(LeaseOf(r), LeaseOf(q))
      PROVE  FALSE
  <2>1. q \in S => LeaseOf(q).attempt # LeaseOf(r).attempt
    BY <1>6
  <2>2. CASE LeaseOf(r).prior # 0 /\ LeaseOf(r).prior = LeaseOf(q).prior
    <3>1. PICK p \in S : Continues(LeaseOf(r), p)
      BY <1>2, <1>6, <2>2
    <3>2. p \in reviews /\ p.lease = LeaseOf(q).prior
      BY <1>5, <2>2, <3>1 DEF Continues
    <3>3. LeaseOf(p).slug = LeaseOf(q).slug /\ LeaseOf(p).attempt + 1 = LeaseOf(q).attempt
      BY <1>1, <3>2 DEF ReviewsFit
    <3> QED
      BY <1>3, <1>5, <2>1, <3>1, <3>3 DEF Continues
  <2> QED
    BY <1>3, <1>5, <1>9, <2>1, <2>2 DEF SameKey
\* The contexts.
<1>10. ASSUME Independent(S \cup {r})
       PROVE  FreshContexts(LeaseOf(r), S)
  BY <1>7, <1>10 DEF Independent, FreshContexts
<1>11. ASSUME LeaseOf(r).attempt > 1 => FreshContexts(LeaseOf(r), S)
       PROVE  Independent(S \cup {r})
  <2>1. CASE S = {}
    BY <1>2, <2>1 DEF Independent
  <2>2. CASE S # {}
    <3>1. LeaseOf(r).attempt > 1
      BY <1>2, <1>6, <2>2
    <3>2. FreshContexts(LeaseOf(r), S)
      BY <1>11, <3>1
    <3> QED
      BY <1>2, <1>6, <3>2 DEF Independent, FreshContexts
  <2> QED
    BY <2>1, <2>2
\* The findings.
<1>12. ASSUME FindingsKept(S \cup {r})
       PROVE  FindingsAdmitted(r.findings, S)
  <2> SUFFICES ASSUME NEW f \in DOMAIN r.findings, NEW q \in S, Newest(q, f, S)
               PROVE  Consistent(q.findings[f], r.findings[f])
    BY DEF FindingsAdmitted
  <2>1. f \in Findings
    BY <1>2 DEF Review, FindingLists
  <2>2. f \in Mentioned(S \cup {r}) /\ q \in Mentions(f, S \cup {r})
    BY <2>1 DEF Mentioned, Mentions, Newest
  <2>3. Newest(r, f, S \cup {r})
    BY <1>2, <1>6 DEF Newest, Mentions
  <2> QED
    BY <1>12, <2>2, <2>3 DEF FindingsKept
<1>13. ASSUME FindingsAdmitted(r.findings, S)
       PROVE  FindingsKept(S \cup {r})
  <2> SUFFICES ASSUME NEW f \in Mentioned(S \cup {r}), NEW q \in Mentions(f, S \cup {r}),
                      NEW top \in S \cup {r}, Newest(top, f, S \cup {r})
               PROVE  Consistent(q.findings[f], top.findings[f])
    BY DEF FindingsKept
  <2>1. /\ q \in S \cup {r} /\ f \in DOMAIN q.findings /\ f \in DOMAIN top.findings
        /\ \A t \in S \cup {r} : f \in DOMAIN t.findings =>
             LeaseOf(t).attempt <= LeaseOf(top).attempt
    BY DEF Mentions, Newest
  <2>2. CASE f \in DOMAIN r.findings
    <3>1. top = r
      <4>1. top \notin S
        BY <1>2, <1>6, <2>1, <2>2
      <4> QED
        BY <4>1
    <3>2. CASE q = r
      BY <3>1, <3>2 DEF Consistent
    <3>3. CASE q \in S
      <4>1. f \in Mentioned(S)
        BY <2>1, <3>3 DEF Mentioned, Mentions
      <4>2. PICK t \in S : Newest(t, f, S)
        BY <1>1, <1>4, <4>1, NewestInSlug DEF GateInv
      <4>3. Consistent(q.findings[f], t.findings[f])
        BY <1>1, <1>4, <2>1, <3>3, <4>2, NewestAgrees DEF GateInv
      <4>4. Consistent(t.findings[f], r.findings[f])
        BY <1>13, <2>2, <4>2 DEF FindingsAdmitted
      <4> QED
        BY <3>1, <4>3, <4>4 DEF Consistent
    <3> QED
      BY <2>1, <3>2, <3>3
  <2>3. CASE f \notin DOMAIN r.findings
    <3>1. q \in S /\ top \in S /\ Newest(top, f, S)
      BY <2>1, <2>3 DEF Newest, Mentions
    <3> QED
      BY <1>1, <1>4, <2>1, <3>1, NewestAgrees DEF GateInv
  <2> QED
    BY <2>2, <2>3
<1>14. Prepared(r) <=> Independent(S \cup {r}) /\ FindingsKept(S \cup {r})
  <2>1. LeaseOf(r).attempt \notin {LeaseOf(q).attempt : q \in S}
    BY <1>6
  <2> QED
    BY <1>3, <1>4, <1>6, <1>7, <1>8, <2>1 DEF Prepared
<1>15. Admitted(LeaseOf(r), r.findings, reviews)
         <=> /\ FindingsAdmitted(r.findings, S)
             /\ LeaseOf(r).attempt > 1 => FreshContexts(LeaseOf(r), S)
  <2>1. {q \in S : LeaseOf(q).lineage = LeaseOf(r).lineage} = S
    BY <1>6
  <2>2. LeaseOf(r).attempt > 1 => \E p \in reviews : Continues(LeaseOf(r), p)
    BY <1>5, <1>6
  <2> QED
    BY <1>3, <1>4, <1>6, <1>9, <2>1, <2>2 DEF Admitted, Trigger
<1> QED
  BY <1>10, <1>11, <1>12, <1>13, <1>14, <1>15

\* Python and SQL decide alike on what is ready and on what may be appended.
THEOREM OneGate == Spec => []GatesAgree
<1>1. GateInv => GatesAgree
  BY ReadinessIsOne, AdmissionIsOne DEF GatesAgree
<1> QED
  BY <1>1, GateCorrect, PTL

\* No lost lease, dead collector or refused batch blocks a skill: after its last
\* review the next attempt can be leased, and an empty result is admitted.
THEOREM NobodyBlocked == Spec => []ReplacementPossible
<1>1. GateInv => ReplacementPossible
  <2> SUFFICES ASSUME GateInv, NEW s \in Slugs, NEW reviewer \in Reviewers,
                      NEW fixer \in Fixers, NEW r \in OfSlug(s, reviews), IsLast(r),
                      LeaseOf(r).attempt < MaxAttempts,
                      reviewer \notin {LeaseOf(q).reviewer : q \in OfSlug(s, reviews)},
                      reviewer \notin {LeaseOf(q).fixer : q \in OfSlug(s, reviews)},
                      reviewer # fixer,
                      fixer \notin {LeaseOf(q).reviewer : q \in OfSlug(s, reviews)},
                      NEW l, l = [slug |-> s, ver |-> LeaseOf(r).ver,
                                  lineage |-> LeaseOf(r).lineage,
                                  attempt |-> LeaseOf(r).attempt + 1, prior |-> r.lease,
                                  phase |-> "recheck", reviewer |-> reviewer,
                                  fixer |-> fixer, passed |-> TRUE]
               PROVE  Leasable(l) /\ Admitted(l, <<>>, reviews)
    BY DEF ReplacementPossible
  <2>1. ReviewsFit
    BY ReviewsDoFit DEF GateInv, LogInv
  <2>2. PICK S : S = OfSlug(s, reviews)
    OBVIOUS
  <2>3. /\ r \in reviews /\ LeaseOf(r).slug = s
        /\ \A q \in S : q \in reviews /\ LeaseOf(q).slug = s
        /\ \A q \in reviews : LeaseOf(q).slug = s => q \in S
    BY <2>2 DEF OfSlug
  <2>4. /\ l.slug = s /\ l.ver = LeaseOf(r).ver /\ l.lineage = LeaseOf(r).lineage
        /\ l.attempt = LeaseOf(r).attempt + 1 /\ l.prior = r.lease
        /\ l.reviewer = reviewer /\ l.fixer = fixer
    OBVIOUS
  <2>5. /\ LeaseOf(r).attempt \in Nat /\ LeaseOf(r).attempt >= 1 /\ LeaseOf(r).ver \in Nat
        /\ \A q \in S : LeaseOf(q).attempt \in Nat
    <3>1. LeaseOf(r) \in Lease
      BY <2>1, <2>3 DEF ReviewsFit
    <3> QED
      BY <2>1, <2>3, <3>1 DEF ReviewsFit, Lease, Versions
  <2>6. Continues(l, r)
    BY <2>3, <2>4, <2>5 DEF Continues
  <2>7. Leasable(l)
    BY <2>3, <2>4, <2>5, <2>6, ConstantsAssumption DEF Leasable
  <2>8. \A q \in S : LeaseOf(q).attempt # l.attempt
    BY <2>2, <2>3, <2>4, <2>5 DEF IsLast
  <2>9. ASSUME NEW q \in reviews, SameKey(l, LeaseOf(q))
        PROVE  FALSE
    <3>1. CASE l.lineage = LeaseOf(q).lineage /\ l.attempt = LeaseOf(q).attempt
      BY <2>1, <2>3, <2>4, <2>8, <3>1 DEF ReviewsFit
    <3>2. CASE l.prior = LeaseOf(q).prior
      BY <2>1, <2>3, <2>4, <2>8, <3>2 DEF ReviewsFit
    <3>3. CASE l.attempt = 1
      BY <2>4, <2>5, <3>3
    <3> QED
      BY <2>9, <3>1, <3>2, <3>3 DEF SameKey
  <2>10. {q \in S : LeaseOf(q).lineage = l.lineage} = S
    BY <2>1, <2>3, <2>4 DEF ReviewsFit
  <2>11. FindingsAdmitted(<<>>, S)
    BY DEF FindingsAdmitted
  <2>12. FreshContexts(l, S)
    BY <2>2, <2>4 DEF FreshContexts
  <2>13. l.attempt # 1
    BY <2>4, <2>5
  <2> QED
    BY <2>2, <2>3, <2>4, <2>6, <2>7, <2>9, <2>10, <2>11, <2>12, <2>13 DEF Admitted, Trigger
<1> QED
  BY <1>1, GateCorrect, PTL

=============================================================================
