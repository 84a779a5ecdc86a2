----------------------------- MODULE Migrations -----------------------------
(* Schema migrations of one database: adoption of a tracker without        *)
(* checksums, the reviewed forward migration with its chained audit, and   *)
(* the bootstrap of a test database. Operators run them from a working     *)
(* tree that may change under them; a call may be killed anywhere, and its *)
(* reply may be lost after the commit.                                     *)
EXTENDS Naturals, FiniteSets, Sequences

CONSTANTS
  Operators,
  Commits, Contents,
  Tree,                       \* the migration files of each commit, in order
  Legacy, Checkpoint, Last,   \* the files that end 0010, 0015 and the repository
  MaxPlans

Files == 1..Last

ASSUME ConstantsAssumption ==
  /\ Legacy \in Nat /\ Checkpoint \in Nat /\ Last \in Nat /\ MaxPlans \in Nat
  /\ 0 < Legacy /\ Legacy < Checkpoint /\ Checkpoint < Last
  /\ Tree \in [Commits -> [Files -> Contents]]
  /\ "null" \notin Contents /\ "none" \notin Operators

\* The trusted legacy manifest pins what 0001 to 0010 are in every commit that is used;
\* the files after them are what each commit has.
ASSUME LegacyAssumption ==
  \A c, d \in Commits : \A f \in 1..Legacy : Tree[c][f] = Tree[d][f]

VARIABLES
  test,      \* the name of the database ends in _test
  tracker,   \* checksums by file, "null" for a row that has none
  applied,   \* the scripts that really ran
  probe,     \* a leftover row and table of a test fixture
  audits,    \* adoption and forward artifacts, in order
  condition, \* what the attestations find, best first: see Conditions
  head, disk,           \* the working tree
  plans,                \* plan documents written for review
  lock, pc, doc, ran,
  told       \* the reviewed plan whose call last told the operator that it is done

tree == <<head, disk>>
database == <<test, tracker, applied, probe, audits>>
session == <<lock, pc, doc, ran, told>>
vars == <<database, condition, tree, plans, session>>

\* The reviewed schema as seeded, with held-out rows added since, with a policy or a
\* publication too, or a schema, an authority, a role or a registry that was changed.
Conditions == {"seeded", "grown", "used", "drifted"}

Clean == disk = Tree[head]

Untracked == \E i \in DOMAIN tracker : tracker[i] = "null"

IsPrefix(s, t) == Len(s) <= Len(t) /\ s = SubSeq(t, 1, Len(s))

NoPlan == [kind |-> "none"]
Bootstrap(p) == [kind |-> "bootstrap", manifest |-> disk]

AdoptionPlan ==
  [kind |-> "adopt", commit |-> head, tracker |-> tracker, probe |-> probe, manifest |-> disk]

Adoptions(final) == {i \in DOMAIN audits : audits[i].plan.kind = "adopt" /\ audits[i].final = final}

Prior(final) == CHOOSE i \in Adoptions(final) : TRUE

ForwardPlan(p) ==
  [kind |-> "forward", commit |-> head, tracker |-> tracker, manifest |-> disk,
   prior |-> Prior(tracker), who |-> p]

Init ==
  /\ test \in BOOLEAN
  /\ head \in Commits /\ disk = Tree[head]
  /\ \/ \* before checksums were kept
        /\ applied = SubSeq(disk, 1, Legacy) /\ tracker = [f \in 1..Legacy |-> "null"]
        /\ probe \in BOOLEAN /\ audits = <<>>
     \/ \* adopted when the repository ended at the checkpoint
        /\ applied = SubSeq(disk, 1, Checkpoint) /\ tracker = applied /\ probe = FALSE
        /\ audits = <<[plan |-> [kind |-> "adopt", commit |-> head, tracker |-> [f \in 1..Legacy |-> "null"],
                                 probe |-> FALSE, manifest |-> applied],
                       final |-> applied]>>
     \/ \* an empty test database
        /\ test /\ applied = <<>> /\ tracker = <<>> /\ probe = FALSE /\ audits = <<>>
  /\ condition = "seeded"
  /\ plans = {} /\ lock = "none"
  /\ pc = [p \in Operators |-> "idle"] /\ doc = [p \in Operators |-> NoPlan]
  /\ ran = [p \in Operators |-> <<>>] /\ told = [p \in Operators |-> NoPlan]

-----------------------------------------------------------------------------
(* The attestations, each of them a long list of comparisons.              *)

\* _schema_attestations: the schema of 0010, with the held-out rows it was seeded with.
LegacyAttested == condition = "seeded"

\* _attest_checkpoint_0015_exact: the schema of 0015, seeded, and no publication yet.
CheckpointAttested == condition = "seeded"

\* _post_migration_attestations: the schema after the last file, as this transaction sees
\* it. The held-out rows may have grown.
PostAttested(scripts, manifest) == scripts = manifest /\ condition \in {"seeded", "grown"}

\* A retry accepts the rows of a database in use.
StableAttested == applied = disk /\ condition # "drifted"

-----------------------------------------------------------------------------
Goto(p, label) == pc' = [pc EXCEPT ![p] = label]

Return(p, answer) ==
  /\ Goto(p, "idle")
  /\ doc' = [doc EXCEPT ![p] = NoPlan]
  /\ ran' = [ran EXCEPT ![p] = <<>>]
  /\ told' = [told EXCEPT ![p] = answer]
  /\ lock' = IF lock = p THEN "none" ELSE lock

\* Mutant: a refusal leaves the locks to the end of the session.
RefuseInSession(p) ==
  /\ Goto(p, "idle")
  /\ doc' = [doc EXCEPT ![p] = NoPlan] /\ ran' = [ran EXCEPT ![p] = <<>>]
  /\ told' = [told EXCEPT ![p] = NoPlan]
  /\ UNCHANGED <<lock, database, plans>>

Refuse(p) == Return(p, NoPlan) /\ UNCHANGED <<database, plans>>

\* Continue with the plan when the guard holds, and refuse otherwise.
Require(p, guard, label) ==
  IF guard
  THEN Goto(p, label) /\ UNCHANGED <<database, plans, lock, doc, ran, told>>
  ELSE Refuse(p)

\* Legacy history: exactly the trusted files, some without a checksum, the others right,
\* and the leftover of a fixture only if the operator names it.
Adoptable ==
  /\ Len(tracker) = Legacy /\ Untracked
  /\ \A i \in DOMAIN tracker : tracker[i] \in {"null", disk[i]}
  /\ LegacyAttested

\* A checksummed prefix that ends at the checkpoint, with one adoption behind it.
Forwardable ==
  /\ Len(tracker) = Checkpoint /\ IsPrefix(tracker, disk) /\ ~probe
  /\ Cardinality(Adoptions(tracker)) = 1
  /\ CheckpointAttested

\* The source is clean when it is resolved; the files are read later and compared with
\* the commit again.
BeginPlan(p) ==
  /\ pc[p] = "idle" /\ Cardinality(plans) < MaxPlans
  /\ Clean
  /\ doc' = [doc EXCEPT ![p] = [kind |-> "draft", commit |-> head]]
  /\ Goto(p, "plan")
  /\ UNCHANGED <<database, plans, lock, ran, told>>

BuildPlan(p) ==
  /\ pc[p] = "plan"
  /\ LET bound == head = doc[p].commit /\ Clean
     IN  \/ bound /\ Adoptable /\ plans' = plans \cup {AdoptionPlan}
         \/ bound /\ Forwardable /\ plans' = plans \cup {ForwardPlan(p)}
         \/ ~(bound /\ (Adoptable \/ Forwardable)) /\ UNCHANGED plans
  /\ Return(p, NoPlan)
  /\ UNCHANGED database

-----------------------------------------------------------------------------
(* One call: the document, the source, the locks, the checks under the     *)
(* locks, one pending file after the other, the attestation, the audit.    *)

\* A forward plan belongs to its operator; the tree is clean at the commit of the plan.
ResolveSource(p) ==
  /\ pc[p] = "idle"
  /\ \E plan \in plans :
       /\ plan.kind = "forward" => plan.who = p
       /\ Clean /\ head = plan.commit
       /\ doc' = [doc EXCEPT ![p] = plan]
  /\ Goto(p, "lock")
  /\ told' = [told EXCEPT ![p] = NoPlan]
  /\ UNCHANGED <<database, plans, lock, ran>>

BeginBootstrap(p) ==
  /\ pc[p] = "idle" /\ test
  /\ doc' = [doc EXCEPT ![p] = Bootstrap(p)]
  /\ Goto(p, "lock")
  /\ told' = [told EXCEPT ![p] = NoPlan]
  /\ UNCHANGED <<database, plans, lock, ran>>

\* Mutant: the call goes on when the lock is held.
TryLocks(p) ==
  /\ pc[p] = "lock"
  /\ lock' = (IF lock = "none" THEN p ELSE lock)
  /\ Goto(p, "check") /\ UNCHANGED <<database, plans, doc, ran, told>>

\* The advisory lock, then the tracker; a forward migration also holds the artifacts, the
\* registry and the held-out rows, and gives up after ten seconds.
TakeLocks(p) ==
  /\ pc[p] = "lock"
  /\ IF lock = "none"
     THEN lock' = p /\ Goto(p, "check") /\ UNCHANGED <<database, plans, doc, ran, told>>
     ELSE doc[p].kind = "forward" /\ Refuse(p)

\* The plan is made again under the locks and must be the one that was reviewed.
CheckAdoption(p) ==
  /\ pc[p] = "check" /\ doc[p].kind = "adopt"
  /\ Require(p, Clean /\ Adoptable /\ AdoptionPlan = doc[p], "apply")

\* Mutant: a retry wants the rows as empty as the first attempt did.
RetryAcceptedUnused(p) ==
  /\ Cardinality(Adoptions(doc[p].tracker)) = 1 /\ Prior(doc[p].tracker) = doc[p].prior
  /\ PostAttested(applied, disk)
  /\ \E i \in DOMAIN audits : audits[i].plan = doc[p] /\ audits[i].final = tracker

\* A tracker that is already complete: the same migration was committed before, and the
\* prior adoption, the audit and the schema must still be the ones of the plan.
RetryAccepted(p) ==
  /\ Cardinality(Adoptions(doc[p].tracker)) = 1 /\ Prior(doc[p].tracker) = doc[p].prior
  /\ StableAttested
  /\ \E i \in DOMAIN audits : audits[i].plan = doc[p] /\ audits[i].final = tracker

SlotEmpty(p) == \A i \in DOMAIN audits : audits[i].plan # doc[p]

\* Mutant: any tracker that is complete counts as the migration of the plan.
CheckForwardTrusting(p) ==
  /\ pc[p] = "check" /\ doc[p].kind = "forward"
  /\ IF tracker = disk
     THEN Return(p, doc[p]) /\ UNCHANGED <<database, plans>>
     ELSE Require(p, Clean /\ head = doc[p].commit /\ Forwardable /\ ForwardPlan(p) = doc[p], "apply")

CheckForward(p) ==
  /\ pc[p] = "check" /\ doc[p].kind = "forward"
  /\ LET bound == Clean /\ head = doc[p].commit
     IN  IF bound /\ tracker = disk /\ RetryAccepted(p)
         THEN Return(p, doc[p]) /\ UNCHANGED <<database, plans>>
         ELSE Require(p, bound /\ tracker # disk /\ Forwardable /\ ForwardPlan(p) = doc[p] /\ SlotEmpty(p), "apply")

\* The bootstrap compares the tracker with the files it has just read.
CheckBootstrap(p) ==
  /\ pc[p] = "check" /\ doc[p].kind = "bootstrap"
  /\ IF ~Untracked /\ ~probe /\ IsPrefix(tracker, disk)
     THEN /\ doc' = [doc EXCEPT ![p].manifest = disk]
          /\ Goto(p, "apply")
          /\ UNCHANGED <<database, plans, lock, ran, told>>
     ELSE Refuse(p)

\* Mutant: a pending file is executed as it is found.
ApplyAnyBytes(p) ==
  LET next == Len(tracker) + Len(ran[p]) + 1
  IN  /\ pc[p] = "apply"
      /\ next <= Last
      /\ ran' = [ran EXCEPT ![p] = Append(@, disk[next])]
      /\ UNCHANGED <<database, plans, lock, pc, doc, told>>

\* A pending file is read, compared with the manifest, executed and tracked.
ApplyPending(p) ==
  LET next == Len(tracker) + Len(ran[p]) + 1
  IN  /\ pc[p] = "apply"
      /\ next <= Last
      /\ IF disk[next] = doc[p].manifest[next]
         THEN /\ ran' = [ran EXCEPT ![p] = Append(@, disk[next])]
              /\ UNCHANGED <<database, plans, lock, pc, doc, told>>
         ELSE Refuse(p)

\* The tracker as the transaction leaves it: a checksum of the manifest for every row.
Tracked(p) ==
  [f \in 1..(Len(tracker) + Len(ran[p])) |->
     IF f <= Len(tracker) /\ tracker[f] # "null" THEN tracker[f] ELSE doc[p].manifest[f]]

\* The final tracker and the schema are attested, and a forward migration resolves its
\* source once more.
Attest(p) ==
  /\ pc[p] = "apply" /\ Len(tracker) + Len(ran[p]) = Last
  /\ Require(p,
       doc[p].kind # "bootstrap" =>
         /\ Tracked(p) = doc[p].manifest
         /\ PostAttested(applied \o ran[p], doc[p].manifest)
         /\ doc[p].kind = "forward" => Clean /\ head = doc[p].commit,
       "commit")

\* Mutant: the adoption leaves the audit to a later transaction.
CommitUnaudited(p) ==
  /\ pc[p] = "commit"
  /\ tracker' = Tracked(p)
  /\ applied' = applied \o ran[p]
  /\ probe' = FALSE
  /\ \E reply \in {doc[p], NoPlan} : Return(p, reply)
  /\ UNCHANGED <<test, audits, plans>>

\* Mutant: the audit records the tracker as it was found.
CommitAuditsFound(p) ==
  /\ pc[p] = "commit"
  /\ tracker' = Tracked(p)
  /\ applied' = applied \o ran[p]
  /\ probe' = FALSE
  /\ audits' = Append(audits, [plan |-> doc[p], final |-> tracker])
  /\ \E reply \in {doc[p], NoPlan} : Return(p, reply)
  /\ UNCHANGED <<test, plans>>

\* Everything of the call becomes visible at once; the operator may never see the reply.
Commit(p) ==
  /\ pc[p] = "commit"
  /\ tracker' = Tracked(p)
  /\ applied' = applied \o ran[p]
  /\ probe' = FALSE
  /\ audits' = IF doc[p].kind = "bootstrap" THEN audits
               ELSE Append(audits, [plan |-> doc[p], final |-> Tracked(p)])
  /\ \E reply \in {doc[p], NoPlan} : Return(p, reply)
  /\ UNCHANGED <<test, plans>>

\* A killed call, an expired timeout or a lost connection rolls back.
Abort(p) ==
  /\ pc[p] # "idle"
  /\ Refuse(p)

Step(p) ==
  \/ BuildPlan(p) \/ TakeLocks(p) \/ CheckAdoption(p) \/ CheckForward(p) \/ CheckBootstrap(p)
  \/ ApplyPending(p) \/ Attest(p) \/ Commit(p)

Operate(p) == BeginPlan(p) \/ ResolveSource(p) \/ BeginBootstrap(p) \/ Step(p) \/ Abort(p)

-----------------------------------------------------------------------------
(* Meanwhile.                                                              *)

\* Somebody edits one file after the legacy history, or checks a commit out.
Edit ==
  \/ \E f \in (Legacy + 1)..Last, c \in Contents : Clean /\ disk' = [disk EXCEPT ![f] = c] /\ UNCHANGED head
  \/ \E c \in Commits : head' = c /\ disk' = Tree[c]

ForwardHolds == lock # "none" /\ doc[lock].kind = "forward"

\* Held-out rows are added, except under the lock of a forward migration; a policy is
\* configured once there is a table for it; the schema is changed or repaired by hand. No
\* lock of a migration stands in the way of the last two.
Wear ==
  \/ condition = "seeded" /\ ~ForwardHolds /\ condition' = "grown"
  \/ condition \in {"seeded", "grown"} /\ Len(applied) >= Checkpoint /\ condition' = "used"
  \/ condition' = "drifted"
  \/ condition = "drifted" /\ condition' \in (IF Len(applied) >= Checkpoint THEN Conditions ELSE {"seeded", "grown"})

Next ==
  \/ (\E p \in Operators : Operate(p)) /\ UNCHANGED <<condition, tree>>
  \/ Edit /\ UNCHANGED <<database, condition, plans, session>>
  \/ Wear /\ UNCHANGED <<database, tree, plans, session>>

\* A call that has the lock goes on unless it is killed.
Fairness == \A p \in Operators : WF_vars((Step(p) /\ lock = p) /\ UNCHANGED <<condition, tree>>)

Spec == Init /\ [][Next]_vars /\ Fairness

-----------------------------------------------------------------------------
Labels == {"idle", "plan", "lock", "check", "apply", "commit"}

Trackers == Seq(Contents \cup {"null"})
AdoptionPlans == [kind : {"adopt"}, commit : Commits, tracker : Trackers, probe : BOOLEAN, manifest : Seq(Contents)]
ForwardPlans == [kind : {"forward"}, commit : Commits, tracker : Trackers, manifest : Seq(Contents), prior : Nat, who : Operators]
Plans == AdoptionPlans \cup ForwardPlans
Docs == Plans \cup {NoPlan} \cup [kind : {"draft"}, commit : Commits] \cup [kind : {"bootstrap"}, manifest : Seq(Contents)]

\* Every variable has its type.
TypeOK ==
  /\ test \in BOOLEAN /\ probe \in BOOLEAN /\ condition \in Conditions
  /\ head \in Commits /\ disk \in [Files -> Contents]
  /\ applied \in Seq(Contents) /\ tracker \in Trackers
  /\ audits \in Seq([plan : Plans, final : Seq(Contents)])
  /\ plans \subseteq Plans
  /\ lock \in Operators \cup {"none"} /\ pc \in [Operators -> Labels]
  /\ doc \in [Operators -> Docs] /\ ran \in [Operators -> Seq(Contents)]
  /\ told \in [Operators -> Plans \cup {NoPlan} \cup [kind : {"bootstrap"}, manifest : Seq(Contents)]]

\* The tracker tells the truth: as many rows as scripts that ran, and every checksum is
\* the one of the script that ran in its place, however files, commits and operators
\* change during the calls (execute_forward_migrations, adopt_legacy_migration_checksums,
\* apply_migrations).
TrackerTruthful ==
  /\ TypeOK
  /\ Len(tracker) = Len(applied)
  /\ \A i \in DOMAIN tracker : tracker[i] \in {"null", applied[i]}

\* A complete database that is no test database has exactly one audit of how it got there:
\* it names a commit whose files are the scripts that ran, and a forward audit follows
\* the adoption of the prefix it started from.
AuditedOnce ==
  ~test /\ Len(applied) = Last =>
    /\ Cardinality({i \in DOMAIN audits : audits[i].final = applied}) = 1
    /\ \A i \in DOMAIN audits : audits[i].final = applied =>
         /\ Tree[audits[i].plan.commit] = applied
         /\ audits[i].plan.kind = "forward" => audits[audits[i].plan.prior].final = audits[i].plan.tracker

\* Between the checks of a call and its commit the history it was reviewed against stands
\* still: nobody else adopts, migrates or bootstraps.
ReviewedState ==
  \A p \in Operators : pc[p] \in {"apply", "commit"} =>
    /\ Len(tracker) + Len(ran[p]) <= Last
    /\ doc[p].kind # "bootstrap" => tracker = doc[p].tracker
    /\ doc[p].kind = "forward" => Cardinality(Adoptions(tracker)) = 1

\* An operator who is told that a reviewed plan is done can find the audit of this plan
\* and its files in the database, although the answer may come from a retry.
DoneIsAudited ==
  \A p \in Operators :
    told[p].kind \in {"adopt", "forward"} =>
      /\ applied = told[p].manifest
      /\ \E i \in DOMAIN audits : audits[i].plan = told[p]

\* An operator who lost the reply and submits the plan again from the same clean commit
\* is answered with the migration that was done, even if the database is in use by now.
RetryRecognised ==
  \A p \in Operators :
    /\ pc[p] = "check" /\ doc[p].kind = "forward" /\ condition # "drifted" /\ Clean /\ head = doc[p].commit
    /\ \E i \in DOMAIN audits : audits[i].plan = doc[p]
    => RetryAccepted(p)

\* The audits are the whole story: a complete database has the one that made
\* it, an answer is backed by one, and an operator who asks again is
\* referred to it.
AuditTrail == AuditedOnce /\ DoneIsAudited /\ RetryRecognised

\* Whatever ends a call, a refusal, a kill, a retry that finds its work done or a commit,
\* the lock is given back: no migration blocks the database for ever.
LockIsFree == []<>(lock = "none")
=============================================================================
