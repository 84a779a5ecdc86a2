-------------------------- MODULE MigrationsProofs --------------------------
(***************************************************************************)
(* Proofs about the schema migrations, for any number of operators,        *)
(* commits, files and plans, any edit of the working tree at any moment,   *)
(* and any call killed or answered twice.                                  *)
(***************************************************************************)
EXTENDS Migrations, FiniteSetTheorems, SequenceTheorems, TLAPS

-----------------------------------------------------------------------------
(* The inductive invariant.                                                *)

\* The tracker tells which scripts ran, and only the legacy rows may lack a
\* checksum.
Truthful ==
  /\ Len(applied) <= Last /\ Len(tracker) = Len(applied)
  /\ \A i \in DOMAIN tracker : tracker[i] \in {"null", applied[i]}
  /\ Untracked => Len(tracker) = Legacy

\* The legacy files are the same in the tree, in every commit, and in the
\* scripts that ran.
LegacyKept ==
  \A f \in 1..Legacy, c \in Commits :
    disk[f] = Tree[c][f] /\ (f <= Len(applied) => applied[f] = Tree[c][f])

\* A reviewed plan names the files of its commit.
PlansBound == \A plan \in plans : plan.manifest = Tree[plan.commit]

\* An audit tells of a stretch of the history that still stands, a forward
\* audit that of its one adoption.
AuditHolds(a) ==
  /\ Len(a.final) \in {Checkpoint, Last} /\ Len(a.final) <= Len(applied)
  /\ \A f \in 1..Len(a.final) : a.final[f] = applied[f]
  /\ Len(a.final) = Last => a.final = a.plan.manifest /\ a.final = Tree[a.plan.commit]
  /\ a.plan.kind = "forward" =>
       /\ Len(a.final) = Last /\ Len(a.plan.tracker) = Checkpoint
       /\ Adoptions(a.plan.tracker) = {a.plan.prior}

Complete == {i \in DOMAIN audits : Len(audits[i].final) = Last}

\* What a database that is no test database went through was audited, once.
Audited ==
  /\ \A i \in DOMAIN audits : AuditHolds(audits[i])
  /\ ~test => /\ \A i, j \in Complete : i = j
              /\ Len(applied) = Last => Complete # {}

History == Truthful /\ LegacyKept /\ PlansBound /\ Audited

Locked(p) == pc[p] \in {"check", "apply", "commit"} <=> lock = p

\* What a call has in hand, by its step.
Document(p) ==
  /\ pc[p] = "idle" => doc[p].kind = "none"
  /\ pc[p] = "plan" => doc[p].kind = "draft"
  /\ pc[p] \notin {"idle", "plan"} =>
       \/ doc[p] \in plans
       \/ /\ test /\ doc[p].kind = "bootstrap" /\ doc[p].manifest \in [Files -> Contents]
          /\ \A f \in 1..Legacy, c \in Commits : doc[p].manifest[f] = Tree[c][f]
  /\ pc[p] \notin {"apply", "commit"} => ran[p] = <<>>

\* The plan a call applies is the plan of the history as it is.
Matches(d) ==
  /\ d.kind = "bootstrap" =>
       \A i \in DOMAIN tracker : tracker[i] = d.manifest[i]
  /\ d.kind = "adopt" =>
       /\ tracker = d.tracker /\ Len(tracker) = Legacy
       /\ \A i \in DOMAIN tracker : tracker[i] \in {"null", d.manifest[i]}
  /\ d.kind = "forward" =>
       /\ tracker = d.tracker /\ Len(tracker) = Checkpoint
       /\ \A i \in DOMAIN tracker : tracker[i] = d.manifest[i]
       /\ Adoptions(tracker) = {d.prior}

Applying(p) ==
  /\ pc[p] \in {"apply", "commit"} =>
       /\ Matches(doc[p])
       /\ Len(tracker) + Len(ran[p]) <= Last
       /\ \A i \in 1..Len(ran[p]) : ran[p][i] = doc[p].manifest[Len(tracker) + i]
  /\ pc[p] = "commit" =>
       /\ Len(tracker) + Len(ran[p]) = Last
       /\ doc[p].kind # "bootstrap" => applied \o ran[p] = doc[p].manifest

\* An answer is backed by its audit.
Answered(p) ==
  told[p].kind \in {"adopt", "forward"} =>
    told[p] \in plans /\ told[p].manifest = applied /\ \E i \in DOMAIN audits : audits[i].plan = told[p]

Calls == \A p \in Operators : Locked(p) /\ Document(p) /\ Applying(p) /\ Answered(p)

MigrationInv == TypeOK /\ History /\ Calls

-----------------------------------------------------------------------------
(* Files, plans and documents.                                             *)

LEMMA FileSeq ==
  ASSUME NEW d \in [Files -> Contents]
  PROVE  d \in Seq(Contents) /\ Len(d) = Last /\ \A f \in 1..Last : d[f] \in Contents
BY ConstantsAssumption DEF Files

LEMMA TreeSeq ==
  ASSUME NEW c \in Commits
  PROVE  /\ Tree[c] \in [Files -> Contents] /\ Tree[c] \in Seq(Contents) /\ Len(Tree[c]) = Last
         /\ \A f \in 1..Last : Tree[c][f] \in Contents
BY FileSeq, ConstantsAssumption

LEMMA ContentTracker == Seq(Contents) \subseteq Trackers
BY DEF Trackers

LEMMA PlanTypes ==
  /\ \A plan \in Plans :
       /\ plan.kind \in {"adopt", "forward"} /\ plan.commit \in Commits
       /\ plan.tracker \in Trackers /\ plan.manifest \in Seq(Contents)
       /\ plan.kind = "forward" => plan.prior \in Nat /\ plan.who \in Operators
  /\ \A d \in Docs : d.kind \in {"adopt", "forward", "none", "draft", "bootstrap"}
  /\ \A d \in Docs :
       /\ d.kind \in {"adopt", "forward"} => d \in Plans
       /\ d.kind = "draft" => d.commit \in Commits
       /\ d.kind = "bootstrap" => d.manifest \in Seq(Contents)
       /\ d.kind # "draft" => d \in Plans \cup {NoPlan} \cup [kind : {"bootstrap"}, manifest : Seq(Contents)]
BY DEF Plans, AdoptionPlans, ForwardPlans, Docs, NoPlan

LEMMA AdoptionSets ==
  ASSUME audits \in Seq([plan : Plans, final : Seq(Contents)]), NEW final
  PROVE  /\ IsFiniteSet(Adoptions(final)) /\ Adoptions(final) \subseteq Nat
         /\ Cardinality(Adoptions(final)) = 1 =>
              Prior(final) \in Nat /\ Adoptions(final) = {Prior(final)}
         /\ \A i : Adoptions(final) = {i} => Cardinality(Adoptions(final)) = 1 /\ Prior(final) = i
<1>1. DOMAIN audits = 1..Len(audits) /\ Len(audits) \in Nat
  OBVIOUS
<1>2. IsFiniteSet(Adoptions(final)) /\ Adoptions(final) \subseteq Nat
  <2>1. IsFiniteSet(1..Len(audits))
    BY <1>1, FS_Interval
  <2>2. Adoptions(final) \subseteq 1..Len(audits)
    BY <1>1 DEF Adoptions
  <2> QED
    BY <2>1, <2>2, FS_Subset
<1>3. ASSUME NEW i, Adoptions(final) = {i}
      PROVE  Prior(final) = i
  BY <1>3 DEF Prior
<1>4. Cardinality(Adoptions(final)) = 1 <=> \E i : Adoptions(final) = {i}
  BY <1>2, FS_Singleton
<1> QED
  BY <1>2, <1>3, <1>4

LEMMA AuditTypes ==
  ASSUME TypeOK, NEW i \in DOMAIN audits
  PROVE  /\ audits[i] \in [plan : Plans, final : Seq(Contents)]
         /\ audits[i].plan \in Plans /\ audits[i].final \in Seq(Contents)
<1>1. audits \in Seq([plan : Plans, final : Seq(Contents)])
  BY DEF TypeOK
<1>2. audits[i] \in [plan : Plans, final : Seq(Contents)]
  BY <1>1, ElementOfSeq, LenProperties
<1> QED
  BY <1>2

\* The plans that may be made now.
LEMMA NewPlans ==
  ASSUME TypeOK, NEW p \in Operators
  PROVE  /\ AdoptionPlan \in Plans
         /\ Forwardable => ForwardPlan(p) \in Plans
<1>1. disk \in Seq(Contents)
  BY FileSeq DEF TypeOK
<1>2. AdoptionPlan \in AdoptionPlans
  BY <1>1 DEF TypeOK, AdoptionPlans, AdoptionPlan
<1>3. ASSUME Forwardable PROVE ForwardPlan(p) \in ForwardPlans
  <2>1. Prior(tracker) \in Nat
    BY <1>3, AdoptionSets DEF TypeOK, Forwardable
  <2> QED
    BY <1>1, <2>1 DEF TypeOK, ForwardPlans, ForwardPlan
<1> QED
  BY <1>2, <1>3 DEF Plans

\* The tracker and the scripts as a call that commits leaves them.
LEMMA TrackedType ==
  ASSUME TypeOK, Truthful, NEW p \in Operators, Applying(p), pc[p] \in {"apply", "commit"},
         Len(tracker) + Len(ran[p]) = Last,
         doc[p].manifest \in [Files -> Contents]
  PROVE  /\ Tracked(p) \in [1..Last -> Contents] /\ Tracked(p) \in Seq(Contents)
         /\ Len(Tracked(p)) = Last
         /\ applied \o ran[p] \in Seq(Contents) /\ Len(applied \o ran[p]) = Last
<1>1. tracker \in Trackers /\ applied \in Seq(Contents) /\ ran[p] \in Seq(Contents)
  BY DEF TypeOK
<1>2. \A f \in 1..Last : f <= Len(tracker) /\ tracker[f] # "null" => tracker[f] \in Contents
  BY <1>1 DEF Trackers
<1>3. Tracked(p) \in [1..Last -> Contents]
  BY <1>2 DEF Tracked, Files
<1> QED
  BY <1>1, <1>3, FileSeq DEF Truthful, Files

-----------------------------------------------------------------------------
(* Types.                                                                  *)

Answers == Plans \cup {NoPlan} \cup [kind : {"bootstrap"}, manifest : Seq(Contents)]

SessionTypes ==
  /\ lock \in Operators \cup {"none"} /\ pc \in [Operators -> Labels]
  /\ doc \in [Operators -> Docs] /\ ran \in [Operators -> Seq(Contents)]
  /\ told \in [Operators -> Answers]

DatabaseTypes ==
  /\ test \in BOOLEAN /\ probe \in BOOLEAN
  /\ applied \in Seq(Contents) /\ tracker \in Trackers
  /\ audits \in Seq([plan : Plans, final : Seq(Contents)])

LEMMA TypeParts ==
  TypeOK <=> /\ SessionTypes /\ DatabaseTypes /\ plans \subseteq Plans
             /\ condition \in Conditions /\ head \in Commits /\ disk \in [Files -> Contents]
BY DEF TypeOK, SessionTypes, DatabaseTypes, Answers

LEMMA TypesTogether ==
  ASSUME SessionTypes', DatabaseTypes', plans' \subseteq Plans,
         condition' \in Conditions, head' \in Commits, disk' \in [Files -> Contents]
  PROVE  TypeOK'
BY DEF TypeOK, SessionTypes, DatabaseTypes, Answers

LEMMA ReturnType ==
  ASSUME SessionTypes, NEW p \in Operators, NEW answer \in Answers, Return(p, answer)
  PROVE  SessionTypes'
<1>1. NoPlan \in Docs /\ "idle" \in Labels /\ <<>> \in Seq(Contents)
  BY DEF Docs, Labels
<1> QED
  BY <1>1 DEF SessionTypes, Return, Goto

LEMMA RefuseType ==
  ASSUME SessionTypes, NEW p \in Operators, Refuse(p)
  PROVE  SessionTypes'
BY ReturnType DEF Refuse, Answers

LEMMA GotoType ==
  ASSUME SessionTypes, NEW p \in Operators, NEW label \in Labels, Goto(p, label),
         lock' \in Operators \cup {"none"}, doc' \in [Operators -> Docs],
         UNCHANGED ran, told' = told \/ told' = [told EXCEPT ![p] = NoPlan]
  PROVE  SessionTypes'
<1>1. NoPlan \in Answers
  BY DEF Answers
<1> QED
  BY <1>1 DEF SessionTypes, Goto

LEMMA RequireType ==
  ASSUME SessionTypes, NEW p \in Operators, NEW guard, NEW label \in Labels,
         Require(p, guard, label)
  PROVE  SessionTypes' /\ UNCHANGED <<database, plans>>
BY GotoType, RefuseType DEF Require, Refuse, SessionTypes

\* What a call commits, if it may commit at all.
LEMMA CommitType ==
  ASSUME TypeOK, Truthful, PlansBound, NEW p \in Operators, Document(p), Applying(p), Commit(p)
  PROVE  DatabaseTypes' /\ SessionTypes'
<1>1. pc[p] = "commit" /\ Len(tracker) + Len(ran[p]) = Last
  BY DEF Commit, Applying
<1>2. doc[p].manifest \in [Files -> Contents] /\ doc[p] \in Answers
  <2>1. CASE doc[p] \in plans
    BY <2>1, PlanTypes, TreeSeq DEF TypeOK, PlansBound, Answers
  <2>2. CASE doc[p].kind = "bootstrap" /\ doc[p].manifest \in [Files -> Contents]
    BY <2>2, PlanTypes DEF TypeOK, Answers
  <2> QED
    BY <1>1, <2>1, <2>2 DEF Document
<1>3. Tracked(p) \in Seq(Contents) /\ applied \o ran[p] \in Seq(Contents)
  BY <1>1, <1>2, TrackedType
<1>4. audits' \in Seq([plan : Plans, final : Seq(Contents)])
  <2>1. CASE doc[p].kind = "bootstrap"
    BY <2>1 DEF Commit, TypeOK
  <2>2. CASE doc[p].kind # "bootstrap"
    <3>1. doc[p] \in Plans
      BY <1>1, <2>2 DEF Document, TypeOK
    <3> QED
      BY <1>3, <2>2, <3>1 DEF Commit, TypeOK
  <2> QED
    BY <2>1, <2>2
<1>5. DatabaseTypes'
  BY <1>3, <1>4, ContentTracker DEF Commit, TypeOK, DatabaseTypes
<1>6. SessionTypes'
  BY <1>2, ReturnType, TypeParts DEF Commit, Answers
<1> QED
  BY <1>5, <1>6

LEMMA BeginPlanType ==
  ASSUME TypeOK, NEW p \in Operators, BeginPlan(p)
  PROVE  SessionTypes'
<1>1. [kind |-> "draft", commit |-> head] \in Docs /\ "plan" \in Labels
  BY DEF TypeOK, Docs, Labels
<1> QED
  BY <1>1, GotoType, TypeParts DEF BeginPlan, SessionTypes

LEMMA ResolveType ==
  ASSUME TypeOK, NEW p \in Operators, ResolveSource(p) \/ BeginBootstrap(p)
  PROVE  SessionTypes'
<1>1. disk \in Seq(Contents) /\ "lock" \in Labels
  BY FileSeq DEF TypeOK, Labels
<1>2. Bootstrap(p) \in Docs /\ plans \subseteq Docs
  BY <1>1 DEF Bootstrap, Docs, TypeOK
<1>3. doc' \in [Operators -> Docs]
  BY <1>2 DEF ResolveSource, BeginBootstrap, TypeOK
<1> QED
  BY <1>1, <1>3, GotoType, TypeParts DEF ResolveSource, BeginBootstrap, SessionTypes

LEMMA TakeLocksType ==
  ASSUME TypeOK, NEW p \in Operators, TakeLocks(p)
  PROVE  SessionTypes' /\ UNCHANGED <<database, plans>>
<1>1. "check" \in Labels
  BY DEF Labels
<1> QED
  BY <1>1, GotoType, RefuseType, TypeParts DEF TakeLocks, Refuse, SessionTypes

LEMMA CheckType ==
  ASSUME TypeOK, NEW p \in Operators, CheckAdoption(p) \/ CheckForward(p) \/ CheckBootstrap(p)
  PROVE  SessionTypes' /\ UNCHANGED <<database, plans>>
<1>1. "apply" \in Labels
  BY DEF Labels
<1>2. CASE CheckAdoption(p)
  BY <1>1, <1>2, RequireType, TypeParts DEF CheckAdoption
<1>3. CASE CheckForward(p)
  <2>1. doc[p] \in Answers \/ doc[p].kind # "forward"
    BY PlanTypes DEF TypeOK, Answers
  <2> QED
    BY <1>1, <1>3, <2>1, RequireType, ReturnType, TypeParts DEF CheckForward
<1>4. CASE CheckBootstrap(p)
  <2>1. disk \in Seq(Contents)
    BY FileSeq DEF TypeOK
  <2>2. [doc[p] EXCEPT !.manifest = disk] \in Docs
    <3>1. PICK d : d = doc[p]
      OBVIOUS
    <3>2. d \in Docs /\ d.kind = "bootstrap"
      BY <1>4, <3>1 DEF CheckBootstrap, TypeOK
    <3>3. d \in [kind : {"bootstrap"}, manifest : Seq(Contents)]
      BY <3>2 DEF Docs, Plans, AdoptionPlans, ForwardPlans, NoPlan
    <3>4. [d EXCEPT !.manifest = disk] \in [kind : {"bootstrap"}, manifest : Seq(Contents)]
      BY <2>1, <3>3
    <3> QED
      BY <3>1, <3>4 DEF Docs
  <2>3. CASE Refuse(p)
    BY <2>3, RefuseType, TypeParts DEF Refuse
  <2> QED
    BY <1>1, <1>4, <2>2, <2>3, GotoType, TypeParts DEF CheckBootstrap, SessionTypes
<1> QED
  BY <1>2, <1>3, <1>4

LEMMA ApplyType ==
  ASSUME TypeOK, NEW p \in Operators, ApplyPending(p) \/ Attest(p)
  PROVE  SessionTypes' /\ UNCHANGED <<database, plans>>
<1>1. CASE ApplyPending(p)
  <2>1. Len(tracker) \in Nat /\ Len(ran[p]) \in Nat /\ Last \in Nat
    BY ConstantsAssumption DEF TypeOK, Trackers
  <2>2. \A f \in Files : disk[f] \in Contents
    BY DEF TypeOK
  <2>3. Len(tracker) + Len(ran[p]) + 1 <= Last => disk[Len(tracker) + Len(ran[p]) + 1] \in Contents
    BY <2>1, <2>2 DEF Files
  <2>4. CASE Refuse(p)
    BY <2>4, RefuseType, TypeParts DEF Refuse
  <2>5. CASE ~ Refuse(p)
    <3>1. /\ ran' = [ran EXCEPT ![p] = Append(@, disk[Len(tracker) + Len(ran[p]) + 1])]
          /\ Len(tracker) + Len(ran[p]) + 1 <= Last
          /\ UNCHANGED <<database, plans, lock, pc, doc, told>>
      BY <1>1, <2>5 DEF ApplyPending
    <3>2. Append(ran[p], disk[Len(tracker) + Len(ran[p]) + 1]) \in Seq(Contents)
      BY <2>3, <3>1 DEF TypeOK
    <3> QED
      BY <3>1, <3>2, TypeParts DEF SessionTypes
  <2> QED
    BY <2>4, <2>5
<1>2. CASE Attest(p)
  BY <1>2, RequireType, TypeParts DEF Attest, Labels
<1> QED
  BY <1>1, <1>2

LEMMA EditType ==
  ASSUME TypeOK, Edit
  PROVE  head' \in Commits /\ disk' \in [Files -> Contents]
BY TreeSeq DEF Edit, TypeOK

LEMMA WearType ==
  ASSUME TypeOK, Wear
  PROVE  condition' \in Conditions
BY DEF Wear, Conditions

LEMMA BuildPlanType ==
  ASSUME TypeOK, NEW p \in Operators, BuildPlan(p)
  PROVE  SessionTypes' /\ plans' \subseteq Plans /\ UNCHANGED database
<1>1. SessionTypes'
  BY ReturnType, TypeParts DEF BuildPlan, Answers
<1> QED
  BY <1>1, NewPlans DEF BuildPlan, TypeOK

LEMMA TypesStep ==
  ASSUME TypeOK, History, Calls, [Next]_vars
  PROVE  TypeOK'
<1>1. CASE UNCHANGED vars
  BY <1>1 DEF vars, database, tree, session, TypeOK
<1>2. ASSUME NEW p \in Operators, Operate(p), UNCHANGED <<condition, tree>>
      PROVE  TypeOK'
  <2>1. CASE Commit(p)
    BY <1>2, <2>1, CommitType, TypeParts, TypesTogether DEF History, Calls, Commit, tree
  <2>2. CASE BuildPlan(p)
    BY <1>2, <2>2, BuildPlanType, TypeParts, TypesTogether DEF database, tree, DatabaseTypes
  <2>3. CASE ~ Commit(p) /\ ~ BuildPlan(p)
    <3>1. SessionTypes' /\ UNCHANGED <<database, plans>>
      BY <1>2, <2>3, BeginPlanType, ResolveType, TakeLocksType, CheckType, ApplyType, RefuseType, TypeParts, TypesTogether
         DEF Operate, Step, Abort, BeginPlan, ResolveSource, BeginBootstrap, Refuse
    <3> QED
      BY <1>2, <3>1, TypeParts, TypesTogether DEF database, tree, DatabaseTypes
  <2> QED
    BY <2>1, <2>2, <2>3
<1>3. CASE Edit /\ UNCHANGED <<database, condition, plans, session>>
  BY <1>3, EditType, TypeParts, TypesTogether DEF database, session, DatabaseTypes, SessionTypes
<1>4. CASE Wear /\ UNCHANGED <<database, tree, plans, session>>
  BY <1>4, WearType, TypeParts, TypesTogether DEF database, session, tree, DatabaseTypes, SessionTypes
<1> QED
  BY <1>1, <1>2, <1>3, <1>4 DEF Next

-----------------------------------------------------------------------------
(* What a commit does to the history.                                      *)

\* What a call that applies has in hand.
LEMMA InHand ==
  ASSUME TypeOK, PlansBound, NEW p \in Operators, Document(p), pc[p] \notin {"idle", "plan"}
  PROVE  /\ doc[p] \in Docs /\ doc[p].manifest \in [Files -> Contents]
         /\ \/ doc[p] \in plans /\ doc[p] \in Plans /\ doc[p].kind \in {"adopt", "forward"}
               /\ doc[p].manifest = Tree[doc[p].commit] /\ doc[p].commit \in Commits
            \/ doc[p].kind = "bootstrap" /\ test
         /\ \A f \in 1..Legacy, c \in Commits : doc[p].manifest[f] = Tree[c][f]
<1>1. doc[p] \in Docs
  BY DEF TypeOK
<1>2. CASE doc[p] \in plans
  <2>1. doc[p] \in Plans /\ doc[p].manifest = Tree[doc[p].commit] /\ doc[p].commit \in Commits
    BY <1>2, PlanTypes DEF TypeOK, PlansBound
  <2> QED
    BY <1>1, <1>2, <2>1, PlanTypes, TreeSeq, LegacyAssumption
<1>3. CASE ~ doc[p] \in plans
  BY <1>1, <1>3 DEF Document
<1> QED
  BY <1>2, <1>3

\* The tracker a call commits names, row by row, the scripts that ran.
LEMMA CommitTruthful ==
  ASSUME TypeOK, History, NEW p \in Operators, Document(p), Applying(p), Commit(p)
  PROVE  /\ tracker' = applied' /\ applied' \in [1..Last -> Contents] /\ Len(applied') = Last
         /\ \A f \in 1..Len(applied) : applied'[f] = applied[f]
         /\ \A f \in (Len(applied) + 1)..Last : applied'[f] = doc[p].manifest[f]
         /\ doc[p].kind # "bootstrap" =>
              /\ applied' = doc[p].manifest /\ Len(applied) < Last
              /\ doc[p].kind = "forward" => Len(tracker) = Checkpoint
<1>1. /\ pc[p] = "commit" /\ Len(tracker) + Len(ran[p]) = Last /\ Matches(doc[p])
      /\ \A i \in 1..Len(ran[p]) : ran[p][i] = doc[p].manifest[Len(tracker) + i]
      /\ doc[p].kind # "bootstrap" => applied \o ran[p] = doc[p].manifest
  BY DEF Commit, Applying
<1>2. doc[p].manifest \in [Files -> Contents]
  BY <1>1, InHand DEF History
<1>3. /\ tracker' = Tracked(p) /\ tracker' \in [1..Last -> Contents]
      /\ applied' = applied \o ran[p] /\ applied' \in Seq(Contents) /\ Len(applied') = Last
  BY <1>1, <1>2, TrackedType DEF Commit, History
<1>4. /\ Len(tracker) = Len(applied) /\ Len(tracker) \in Nat /\ Len(ran[p]) \in Nat
      /\ DOMAIN tracker = 1..Len(tracker)
  BY DEF TypeOK, History, Truthful, Trackers
<1>5. /\ \A f \in 1..Len(applied) : applied'[f] = applied[f]
      /\ \A f \in (Len(applied) + 1)..Last : applied'[f] = ran[p][f - Len(applied)]
  BY <1>1, <1>3, <1>4 DEF TypeOK
<1>0. \A f \in (Len(applied) + 1)..Last : applied'[f] = doc[p].manifest[f]
  <2> TAKE f \in (Len(applied) + 1)..Last
  <2>1. f - Len(applied) \in 1..Len(ran[p]) /\ Len(tracker) + (f - Len(applied)) = f
    BY <1>1, <1>4
  <2> QED
    BY <1>1, <1>5, <2>1
<1>6. ASSUME NEW f \in 1..Last PROVE tracker'[f] = applied'[f]
  <2>1. tracker'[f] = IF f <= Len(tracker) /\ tracker[f] # "null" THEN tracker[f] ELSE doc[p].manifest[f]
    BY <1>1, <1>3 DEF Tracked
  <2>2. CASE f <= Len(tracker) /\ tracker[f] # "null"
    BY <1>4, <1>5, <2>1, <2>2 DEF History, Truthful
  <2>3. CASE f <= Len(tracker) /\ tracker[f] = "null"
    <3>1. f \in DOMAIN tracker /\ Len(tracker) = Legacy /\ f \in 1..Legacy
      BY <1>4, <2>3 DEF History, Truthful, Untracked
    <3>2. doc[p].manifest[f] \in Contents /\ doc[p].manifest[f] # "null"
      BY <1>2, ConstantsAssumption DEF Files
    <3>3. doc[p].kind = "adopt"
      BY <1>1, <2>3, <3>1, <3>2, InHand DEF Matches, History
    <3>4. doc[p].commit \in Commits /\ doc[p].manifest = Tree[doc[p].commit]
      BY <1>1, <3>3, InHand DEF History
    <3> QED
      BY <1>4, <1>5, <2>1, <2>3, <3>1, <3>4 DEF History, LegacyKept
  <2>4. CASE ~ f <= Len(tracker)
    <3>1. f \in (Len(applied) + 1)..Last
      BY <1>4, <2>4
    <3> QED
      BY <1>0, <2>1, <2>4, <3>1
  <2> QED
    BY <2>2, <2>3, <2>4
<1>7. applied' \in [1..Last -> Contents]
  BY <1>3, LenProperties
<1>8. tracker' = applied'
  BY <1>3, <1>6, <1>7
<1>9. doc[p].kind \in {"adopt", "forward", "bootstrap"}
  BY <1>1, InHand DEF History
<1>10. doc[p].kind # "bootstrap" => Len(tracker) < Last
  BY <1>1, <1>9, ConstantsAssumption DEF Matches
<1> QED
  BY <1>0, <1>1, <1>3, <1>4, <1>5, <1>7, <1>8, <1>10 DEF Matches

LEMMA AdoptionsAfterCommit ==
  ASSUME TypeOK, History, NEW p \in Operators, Document(p), Applying(p), Commit(p),
         NEW final, Len(final) # Last
  PROVE  Adoptions(final)' = Adoptions(final)
<1>1. CASE doc[p].kind = "bootstrap"
  BY <1>1 DEF Commit, Adoptions
<1>2. CASE doc[p].kind # "bootstrap"
  <2>1. audits' = Append(audits, [plan |-> doc[p], final |-> Tracked(p)]) /\ Tracked(p) # final
    BY <1>2, CommitTruthful DEF Commit
  <2>2. /\ DOMAIN audits' = DOMAIN audits \cup {Len(audits) + 1}
        /\ \A i \in DOMAIN audits : audits'[i] = audits[i]
        /\ audits'[Len(audits) + 1].final = Tracked(p)
    BY <2>1 DEF TypeOK
  <2> QED
    BY <2>1, <2>2 DEF Adoptions
<1> QED
  BY <1>1, <1>2

\* An audit that held still holds.
LEMMA AuditStillHolds ==
  ASSUME TypeOK, History, NEW p \in Operators, Document(p), Applying(p), Commit(p),
         NEW a \in [plan : Plans, final : Seq(Contents)], AuditHolds(a)
  PROVE  AuditHolds(a)'
<1>1. (\A f \in 1..Len(applied) : applied'[f] = applied[f]) /\ Len(applied') = Last
  BY CommitTruthful
<1>2. Len(applied) \in Nat /\ Len(a.final) \in Nat
  BY DEF TypeOK
<1>3. Len(a.final) <= Len(applied') /\ \A f \in 1..Len(a.final) : a.final[f] = applied'[f]
  BY <1>1, <1>2, ConstantsAssumption DEF AuditHolds
<1>4. a.plan.kind = "forward" => Adoptions(a.plan.tracker)' = {a.plan.prior}
  <2> SUFFICES ASSUME a.plan.kind = "forward" PROVE Adoptions(a.plan.tracker)' = {a.plan.prior}
    OBVIOUS
  <2>1. Len(a.plan.tracker) = Checkpoint /\ Adoptions(a.plan.tracker) = {a.plan.prior}
    BY DEF AuditHolds
  <2>2. Len(a.plan.tracker) # Last
    BY <2>1, ConstantsAssumption
  <2> QED
    BY <2>1, <2>2, AdoptionsAfterCommit
<1> QED
  BY <1>3, <1>4 DEF AuditHolds

\* The audit a call appends.
LEMMA NewAudit ==
  ASSUME TypeOK, History, NEW p \in Operators, Document(p), Applying(p), Commit(p),
         doc[p].kind # "bootstrap",
         NEW a, a = [plan |-> doc[p], final |-> Tracked(p)]
  PROVE  AuditHolds(a)' /\ Len(a.final) = Last /\ a.final = applied'
<1>1. pc[p] = "commit" /\ a.plan = doc[p] /\ a.final = Tracked(p)
  BY DEF Commit
<1>2. a.plan.commit \in Commits /\ a.plan.manifest = Tree[a.plan.commit]
  BY <1>1, InHand DEF History
<1>3. /\ a.final = applied' /\ Len(a.final) = Last /\ Len(applied') = Last
      /\ a.final = a.plan.manifest
  BY <1>1, CommitTruthful DEF Commit
<1>4. a.plan.kind = "forward" =>
        Len(a.plan.tracker) = Checkpoint /\ Adoptions(a.plan.tracker) = {a.plan.prior}
  BY <1>1 DEF Applying, Matches
<1>5. a.plan.kind = "forward" =>
        Len(a.plan.tracker) = Checkpoint /\ Adoptions(a.plan.tracker)' = {a.plan.prior}
  BY <1>4, AdoptionsAfterCommit, ConstantsAssumption
<1>6. Len(a.final) <= Len(applied') /\ \A f \in 1..Len(a.final) : a.final[f] = applied'[f]
  BY <1>3, ConstantsAssumption
<1> QED
  BY <1>2, <1>3, <1>5, <1>6 DEF AuditHolds

LEMMA CommitAudited ==
  ASSUME TypeOK, History, NEW p \in Operators, Document(p), Applying(p), Commit(p)
  PROVE  Audited'
<1>1. test' = test /\ pc[p] = "commit"
  BY DEF Commit
<1>2. \A i \in DOMAIN audits : audits[i] \in [plan : Plans, final : Seq(Contents)]
  BY AuditTypes
<1>3. ASSUME NEW i \in DOMAIN audits, NEW a, a = audits[i]
      PROVE  AuditHolds(a)'
  BY <1>2, <1>3, AuditStillHolds DEF History, Audited
<1>4. CASE doc[p].kind = "bootstrap"
  <2>1. audits' = audits
    BY <1>4 DEF Commit
  <2>2. test
    BY <1>1, <1>4, InHand DEF History
  <2>3. \A i \in DOMAIN audits' : AuditHolds(audits[i])'
    BY <1>3, <2>1 DEF AuditHolds
  <2> QED
    BY <1>1, <2>2, <2>3 DEF Audited
<1>5. CASE doc[p].kind # "bootstrap"
  <2> DEFINE n == Len(audits) + 1
  <2>1. PICK new : new = [plan |-> doc[p], final |-> Tracked(p)]
    OBVIOUS
  <2>2. /\ DOMAIN audits' = DOMAIN audits \cup {n} /\ n \notin DOMAIN audits
        /\ \A i \in DOMAIN audits : audits'[i] = audits[i]
        /\ audits'[n] = new
    BY <1>5, <2>1 DEF Commit, TypeOK
  <2>3. AuditHolds(new)' /\ Len(new.final) = Last
    BY <1>5, <2>1, NewAudit
  <2>4. \A i \in DOMAIN audits' : AuditHolds(audits[i])'
    BY <1>3, <2>2, <2>3 DEF AuditHolds
  <2>5. \A i \in DOMAIN audits : Len(audits[i].final) # Last
    <3>1. Len(applied) < Last
      BY <1>5, CommitTruthful
    <3>2. \A i \in DOMAIN audits : Len(audits[i].final) <= Len(applied) /\ Len(audits[i].final) \in Nat
      BY <1>2 DEF History, Audited, AuditHolds
    <3> QED
      BY <3>1, <3>2, ConstantsAssumption DEF TypeOK
  <2>6. Complete' = {n}
    BY <2>2, <2>3, <2>5 DEF Complete
  <2> QED
    BY <2>4, <2>6 DEF Audited
<1> QED
  BY <1>4, <1>5

LEMMA CommitHistory ==
  ASSUME TypeOK, History, NEW p \in Operators, Document(p), Applying(p), Commit(p),
         UNCHANGED tree
  PROVE  History'
<1>1. Truthful'
  <2>1. tracker' = applied' /\ applied' \in [1..Last -> Contents] /\ Len(applied') = Last
    BY CommitTruthful
  <2> QED
    BY <2>1, ConstantsAssumption DEF Truthful, Untracked
<1>2. LegacyKept'
  <2>1. /\ disk' = disk /\ Len(applied) \in Nat
        /\ \A f \in 1..Len(applied) : applied'[f] = applied[f]
        /\ \A f \in (Len(applied) + 1)..Last : applied'[f] = doc[p].manifest[f]
    BY CommitTruthful DEF tree, TypeOK
  <2>2. \A f \in 1..Legacy, c \in Commits : doc[p].manifest[f] = Tree[c][f]
    BY InHand DEF Commit, History
  <2>3. ASSUME NEW f \in 1..Legacy, NEW c \in Commits PROVE applied'[f] = Tree[c][f]
    <3>1. f \in 1..Len(applied) \/ f \in (Len(applied) + 1)..Last
      BY <2>1, ConstantsAssumption
    <3> QED
      BY <2>1, <2>2, <3>1 DEF History, LegacyKept
  <2> QED
    BY <2>1, <2>3 DEF History, LegacyKept
<1>3. PlansBound'
  BY DEF Commit, History, PlansBound
<1> QED
  BY <1>1, <1>2, <1>3, CommitAudited DEF History

-----------------------------------------------------------------------------
(* The history survives every step.                                        *)

\* Only a commit changes the database.
LEMMA DatabaseKept ==
  ASSUME NEW p \in Operators, Operate(p), ~ Commit(p)
  PROVE  /\ UNCHANGED database
         /\ plans' = plans \/ BuildPlan(p)
<1>1. CASE BuildPlan(p)
  BY <1>1 DEF BuildPlan
<1>2. CASE ApplyPending(p)
  BY <1>2 DEF ApplyPending, Refuse
<1>3. CASE ~ BuildPlan(p) /\ ~ ApplyPending(p)
  BY <1>3 DEF Operate, Step, BeginPlan, ResolveSource, BeginBootstrap, TakeLocks, CheckAdoption,
       CheckForward, CheckBootstrap, Attest, Abort, Require, Refuse
<1> QED
  BY <1>1, <1>2, <1>3

LEMMA SameHistory ==
  ASSUME History, UNCHANGED database, LegacyKept', PlansBound'
  PROVE  History'
<1>1. Truthful'
  BY DEF History, Truthful, Untracked, database
<1>2. \A final : Adoptions(final)' = Adoptions(final)
  BY DEF Adoptions, database
<1>3. \A a : AuditHolds(a) => AuditHolds(a)'
  BY <1>2 DEF AuditHolds, database
<1>4. \A i \in DOMAIN audits' : AuditHolds(audits[i])'
  BY <1>3 DEF History, Audited, database, AuditHolds
<1>5. Complete' = Complete
  BY DEF Complete, database
<1>6. Audited'
  BY <1>4, <1>5 DEF History, Audited, database
<1> QED
  BY <1>1, <1>6 DEF History

LEMMA SameLegacy ==
  ASSUME History, UNCHANGED database, disk' = disk
  PROVE  LegacyKept'
BY DEF History, LegacyKept, database

LEMMA BuildPlanBound ==
  ASSUME History, NEW p \in Operators, BuildPlan(p), plans' # plans
  PROVE  PlansBound'
<1>1. disk = Tree[head]
  BY DEF BuildPlan, Clean
<1>2. \/ plans' = plans \cup {AdoptionPlan}
      \/ plans' = plans \cup {ForwardPlan(p)}
  BY DEF BuildPlan
<1> QED
  BY <1>1, <1>2 DEF History, PlansBound, AdoptionPlan, ForwardPlan

LEMMA EditLegacy ==
  ASSUME TypeOK, History, Edit, UNCHANGED database
  PROVE  LegacyKept'
<1>1. ASSUME NEW f \in 1..Legacy, NEW c \in Commits PROVE disk'[f] = Tree[c][f]
  <2>1. CASE \E g \in (Legacy + 1)..Last, b \in Contents : disk' = [disk EXCEPT ![g] = b]
    <3>1. PICK g \in (Legacy + 1)..Last, b \in Contents : disk' = [disk EXCEPT ![g] = b]
      BY <2>1
    <3>2. g # f /\ f \in Files
      BY ConstantsAssumption DEF Files
    <3> QED
      BY <3>1, <3>2 DEF TypeOK, History, LegacyKept
  <2>2. CASE \E d \in Commits : disk' = Tree[d]
    BY <2>2, LegacyAssumption
  <2> QED
    BY <2>1, <2>2 DEF Edit
<1> QED
  BY <1>1 DEF History, LegacyKept, database

LEMMA HistoryStep ==
  ASSUME TypeOK, History, Calls, [Next]_vars
  PROVE  History'
<1>1. CASE UNCHANGED vars
  BY <1>1, SameHistory, SameLegacy DEF vars, tree, History, PlansBound
<1>2. ASSUME NEW p \in Operators, Operate(p), UNCHANGED <<condition, tree>>
      PROVE  History'
  <2>1. CASE Commit(p)
    BY <1>2, <2>1, CommitHistory DEF Calls
  <2>2. CASE ~ Commit(p)
    <3>1. UNCHANGED database /\ (plans' = plans \/ BuildPlan(p))
      BY <1>2, <2>2, DatabaseKept
    <3>2. LegacyKept'
      BY <1>2, <3>1, SameLegacy DEF tree
    <3>3. PlansBound'
      BY <3>1, BuildPlanBound DEF History, PlansBound
    <3> QED
      BY <3>1, <3>2, <3>3, SameHistory
  <2> QED
    BY <2>1, <2>2
<1>3. CASE Edit /\ UNCHANGED <<database, condition, plans, session>>
  BY <1>3, EditLegacy, SameHistory DEF History, PlansBound
<1>4. CASE Wear /\ UNCHANGED <<database, tree, plans, session>>
  BY <1>4, SameLegacy, SameHistory DEF History, PlansBound, tree
<1> QED
  BY <1>1, <1>2, <1>3, <1>4 DEF Next

-----------------------------------------------------------------------------
(* The calls.                                                              *)

\* A step of one operator leaves the calls of the others alone.
LEMMA OthersKept ==
  ASSUME SessionTypes, NEW p \in Operators, NEW q \in Operators, p # q, Operate(p), Locked(p)
  PROVE  /\ pc'[q] = pc[q] /\ doc'[q] = doc[q] /\ ran'[q] = ran[q] /\ told'[q] = told[q]
         /\ lock' = q <=> lock = q
         /\ plans \subseteq plans'
<1> USE DEF SessionTypes
<1>0. ASSUME NEW answer, Return(p, answer)
      PROVE  /\ pc'[q] = pc[q] /\ doc'[q] = doc[q] /\ ran'[q] = ran[q] /\ told'[q] = told[q]
             /\ lock' = q <=> lock = q
  BY <1>0, ConstantsAssumption DEF Return, Goto
<1>1. CASE BuildPlan(p)
  BY <1>0, <1>1 DEF BuildPlan
<1>2. CASE Commit(p)
  BY <1>0, <1>2 DEF Commit
<1>3. CASE Refuse(p)
  BY <1>0, <1>3 DEF Refuse
<1>4. CASE ~ Refuse(p) /\ (BeginPlan(p) \/ ResolveSource(p) \/ BeginBootstrap(p))
  BY <1>4 DEF BeginPlan, ResolveSource, BeginBootstrap, Goto
<1>5. CASE ~ Refuse(p) /\ TakeLocks(p)
  BY <1>5, ConstantsAssumption DEF TakeLocks, Goto
<1>6. CASE ~ Refuse(p) /\ CheckAdoption(p)
  BY <1>6 DEF CheckAdoption, Require, Goto
<1>7. CASE ~ Refuse(p) /\ CheckForward(p)
  BY <1>0, <1>7 DEF CheckForward, Require, Goto
<1>8. CASE ~ Refuse(p) /\ CheckBootstrap(p)
  BY <1>8 DEF CheckBootstrap, Goto
<1>9. CASE ~ Refuse(p) /\ ApplyPending(p)
  BY <1>9 DEF ApplyPending
<1>10. CASE ~ Refuse(p) /\ Attest(p)
  BY <1>10 DEF Attest, Require, Goto
<1> QED
  BY <1>1, <1>2, <1>3, <1>4, <1>5, <1>6, <1>7, <1>8, <1>9, <1>10 DEF Operate, Step, Abort

\* An answer that was backed by its audit still is.
LEMMA AnswerKept ==
  ASSUME TypeOK, History, Calls, NEW p \in Operators, Operate(p),
         NEW answer \in plans, answer.manifest = applied,
         \E i \in DOMAIN audits : audits[i].plan = answer
  PROVE  answer \in plans' /\ answer.manifest = applied' /\ \E i \in DOMAIN audits' : audits'[i].plan = answer
<1>1. answer \in Plans /\ answer.manifest = Tree[answer.commit] /\ answer.commit \in Commits
  BY PlanTypes DEF TypeOK, History, PlansBound
<1>2. Len(applied) = Last
  BY <1>1, TreeSeq
<1>3. CASE Commit(p)
  <2>1. Document(p) /\ Applying(p)
    BY DEF Calls
  <2>2. /\ doc[p].kind = "bootstrap"
        /\ \A f \in 1..Len(applied) : applied'[f] = applied[f]
        /\ applied' \in [1..Last -> Contents]
    BY <1>2, <1>3, <2>1, CommitTruthful, ConstantsAssumption
  <2>3. applied \in [1..Last -> Contents]
    BY <1>2, LenProperties DEF TypeOK
  <2>4. applied' = applied
    BY <1>2, <2>2, <2>3
  <2> QED
    BY <1>3, <2>2, <2>4 DEF Commit
<1>4. CASE ~ Commit(p)
  BY <1>4, DatabaseKept DEF database, BuildPlan
<1> QED
  BY <1>3, <1>4

\* The operators that do not move.
LEMMA OthersStep ==
  ASSUME TypeOK, History, Calls, NEW p \in Operators, Operate(p), NEW q \in Operators, p # q
  PROVE  Locked(q)' /\ Document(q)' /\ Applying(q)' /\ Answered(q)'
<1>1. /\ pc'[q] = pc[q] /\ doc'[q] = doc[q] /\ ran'[q] = ran[q] /\ told'[q] = told[q]
      /\ lock' = q <=> lock = q
      /\ plans \subseteq plans'
  BY OthersKept, TypeParts DEF Calls
<1>2. Locked(q) /\ Document(q) /\ Applying(q) /\ Answered(q) /\ Locked(p)
  BY DEF Calls
<1>3. Locked(q)'
  BY <1>1, <1>2 DEF Locked
<1>4. Document(q)'
  <2>1. test' = test
    BY DatabaseKept DEF Commit, database
  <2> QED
    BY <1>1, <1>2, <2>1 DEF Document
<1>5. Applying(q)'
  <2>1. CASE pc[q] \in {"apply", "commit"}
    <3>1. ~ Commit(p)
      BY <1>2, <2>1 DEF Commit, Locked
    <3>2. UNCHANGED <<tracker, applied, audits>>
      BY <3>1, DatabaseKept DEF database
    <3> QED
      BY <1>1, <1>2, <3>2 DEF Applying, Matches, Adoptions
  <2>2. CASE pc[q] \notin {"apply", "commit"}
    BY <1>1, <2>2 DEF Applying
  <2> QED
    BY <2>1, <2>2
<1>6. Answered(q)'
  BY <1>1, <1>2, AnswerKept DEF Answered
<1> QED
  BY <1>3, <1>4, <1>5, <1>6

\* The operator whose call returns.
LEMMA ReturnStep ==
  ASSUME TypeOK, NEW p \in Operators, Calls, NEW answer, Return(p, answer),
         answer.kind \in {"adopt", "forward"} =>
           answer \in plans' /\ answer.manifest = applied' /\ \E i \in DOMAIN audits' : audits'[i].plan = answer
  PROVE  Locked(p)' /\ Document(p)' /\ Applying(p)' /\ Answered(p)'
<1>1. /\ pc'[p] = "idle" /\ doc'[p] = NoPlan /\ ran'[p] = <<>> /\ told'[p] = answer
      /\ lock' # p
  BY ConstantsAssumption DEF Return, Goto, TypeOK
<1>2. NoPlan.kind = "none"
  BY DEF NoPlan
<1> QED
  BY <1>1, <1>2 DEF Locked, Document, Applying, Answered

LEMMA RefuseStep ==
  ASSUME TypeOK, NEW p \in Operators, Calls, Refuse(p)
  PROVE  Locked(p)' /\ Document(p)' /\ Applying(p)' /\ Answered(p)'
BY ReturnStep DEF Refuse, NoPlan

LEMMA BeginStep ==
  ASSUME TypeOK, History, NEW p \in Operators, Calls,
         BeginPlan(p) \/ ResolveSource(p) \/ BeginBootstrap(p)
  PROVE  Locked(p)' /\ Document(p)' /\ Applying(p)' /\ Answered(p)'
<1>1. Locked(p) /\ Document(p) /\ Answered(p) /\ pc[p] = "idle"
  BY DEF Calls, BeginPlan, ResolveSource, BeginBootstrap
<1>2. /\ lock' = lock /\ plans' = plans /\ UNCHANGED database
      /\ ran'[p] = ran[p] /\ ran[p] = <<>>
      /\ told'[p] \in {told[p], NoPlan}
      /\ pc'[p] \in {"plan", "lock"}
  BY <1>1 DEF BeginPlan, ResolveSource, BeginBootstrap, Goto, TypeOK, Document
<1>3. Locked(p)' /\ Applying(p)'
  BY <1>1, <1>2 DEF Locked, Applying
<1>4. Answered(p)'
  <2>1. CASE told'[p] = told[p]
    BY <1>1, <1>2, <2>1 DEF Answered, database
  <2>2. CASE told'[p] = NoPlan
    BY <2>2 DEF Answered, NoPlan
  <2> QED
    BY <1>2, <2>1, <2>2
<1>5. Document(p)'
  <2>1. CASE BeginPlan(p)
    <3>1. doc'[p].kind = "draft" /\ pc'[p] = "plan"
      BY <2>1 DEF BeginPlan, Goto, TypeOK
    <3> QED
      BY <1>2, <3>1 DEF Document
  <2>2. CASE ResolveSource(p)
    <3>1. doc'[p] \in plans /\ pc'[p] = "lock"
      BY <2>2 DEF ResolveSource, Goto, TypeOK
    <3> QED
      BY <1>2, <3>1 DEF Document
  <2>3. CASE BeginBootstrap(p)
    <3>1. /\ doc'[p].kind = "bootstrap" /\ doc'[p].manifest = disk /\ test /\ pc'[p] = "lock"
      BY <2>3 DEF BeginBootstrap, Bootstrap, Goto, TypeOK
    <3>2. test' = test /\ disk \in [Files -> Contents]
      BY <1>2 DEF database, TypeOK
    <3> QED
      BY <1>2, <3>1, <3>2 DEF Document, History, LegacyKept
  <2> QED
    BY <2>1, <2>2, <2>3
<1> QED
  BY <1>3, <1>4, <1>5

LEMMA TakeLocksStep ==
  ASSUME TypeOK, NEW p \in Operators, Calls, TakeLocks(p)
  PROVE  Locked(p)' /\ Document(p)' /\ Applying(p)' /\ Answered(p)'
<1>1. Document(p) /\ Answered(p) /\ pc[p] = "lock"
  BY DEF Calls, TakeLocks
<1>2. CASE Refuse(p)
  BY <1>2, RefuseStep
<1>3. CASE ~ Refuse(p)
  <2>1. /\ lock' = p /\ pc'[p] = "check"
        /\ UNCHANGED <<database, plans, doc, ran, told>>
    BY <1>3 DEF TakeLocks, Goto, TypeOK
  <2> QED
    BY <1>1, <2>1 DEF Locked, Document, Applying, Answered, database
<1> QED
  BY <1>2, <1>3

\* A call whose checks passed begins to apply the plan it has in hand.
LEMMA PassedStep ==
  ASSUME TypeOK, History, NEW p \in Operators, Calls, pc[p] = "check",
         Goto(p, "apply"), UNCHANGED <<database, plans, lock, ran, told>>,
         NEW d, doc' = [doc EXCEPT ![p] = d], Matches(d),
         d = doc[p] \/ (doc[p].kind = "bootstrap" /\ d.kind = "bootstrap" /\ d.manifest = disk)
  PROVE  Locked(p)' /\ Document(p)' /\ Applying(p)' /\ Answered(p)'
<1>1. Locked(p) /\ Document(p) /\ Answered(p) /\ ran[p] = <<>>
  BY DEF Calls, Document
<1>2. pc'[p] = "apply" /\ doc'[p] = d /\ ran'[p] = <<>>
  BY <1>1 DEF Goto, TypeOK
<1>3. Locked(p)' /\ Answered(p)'
  BY <1>1, <1>2 DEF Locked, Answered, database
<1>4. Document(p)'
  <2>1. CASE d = doc[p]
    BY <1>1, <1>2, <2>1 DEF Document, database
  <2>2. CASE doc[p].kind = "bootstrap" /\ d.kind = "bootstrap" /\ d.manifest = disk
    <3>1. test /\ disk \in [Files -> Contents]
      BY <1>1, <2>2, InHand DEF History, TypeOK
    <3> QED
      BY <1>2, <2>2, <3>1 DEF Document, History, LegacyKept, database
  <2> QED
    BY <2>1, <2>2
<1>5. Applying(p)'
  <2>1. Matches(d)'
    BY DEF Matches, Adoptions, database
  <2>2. Len(tracker) \in Nat /\ Len(tracker) <= Last /\ Len(<<>>) = 0 /\ tracker' = tracker
    BY DEF TypeOK, History, Truthful, Trackers, database
  <2> QED
    BY <1>2, <2>1, <2>2 DEF Applying, Matches
<1> QED
  BY <1>3, <1>4, <1>5

LEMMA CheckAdoptionStep ==
  ASSUME TypeOK, History, NEW p \in Operators, Calls, CheckAdoption(p)
  PROVE  Locked(p)' /\ Document(p)' /\ Applying(p)' /\ Answered(p)'
<1>1. CASE Refuse(p)
  BY <1>1, RefuseStep
<1>2. CASE ~ Refuse(p)
  <2>1. /\ Goto(p, "apply") /\ UNCHANGED <<database, plans, lock, doc, ran, told>>
        /\ Adoptable /\ AdoptionPlan = doc[p] /\ pc[p] = "check"
    BY <1>2 DEF CheckAdoption, Require
  <2>2. Matches(doc[p])
    BY <2>1 DEF Adoptable, AdoptionPlan, Matches
  <2>3. doc' = [doc EXCEPT ![p] = doc[p]]
    BY <2>1 DEF TypeOK
  <2> QED
    BY <2>1, <2>2, <2>3, PassedStep
<1> QED
  BY <1>1, <1>2

LEMMA CheckForwardStep ==
  ASSUME TypeOK, History, NEW p \in Operators, Calls, CheckForward(p)
  PROVE  Locked(p)' /\ Document(p)' /\ Applying(p)' /\ Answered(p)'
<1>0. pc[p] = "check" /\ doc[p].kind = "forward"
  BY DEF CheckForward
<1>1. CASE Refuse(p)
  BY <1>1, RefuseStep
<1>2. CASE Goto(p, "apply") /\ ~ Refuse(p)
  <2>1. \/ Return(p, doc[p])
        \/ /\ UNCHANGED <<database, plans, lock, doc, ran, told>>
           /\ Forwardable /\ ForwardPlan(p) = doc[p]
    BY <1>2 DEF CheckForward, Require
  <2>2. ~ Return(p, doc[p])
    BY <1>0, <1>2 DEF Return, Goto, TypeOK
  <2>3. Matches(doc[p])
    <3>1. /\ doc[p].tracker = tracker /\ doc[p].manifest = disk /\ doc[p].prior = Prior(tracker)
          /\ doc[p].kind = "forward"
      BY <2>1, <2>2 DEF ForwardPlan
    <3>2. Adoptions(tracker) = {Prior(tracker)}
      BY <2>1, <2>2, AdoptionSets DEF Forwardable, TypeOK
    <3>3. Len(tracker) = Checkpoint /\ tracker = SubSeq(disk, 1, Checkpoint)
      BY <2>1, <2>2 DEF Forwardable, IsPrefix
    <3>4. \A i \in 1..Checkpoint : tracker[i] = disk[i]
      BY <3>3, FileSeq, SubSeqProperties, ConstantsAssumption DEF TypeOK
    <3>5. DOMAIN tracker = 1..Checkpoint
      BY <3>3 DEF TypeOK, Trackers
    <3> QED
      BY <3>1, <3>2, <3>3, <3>4, <3>5 DEF Matches
  <2>4. doc' = [doc EXCEPT ![p] = doc[p]]
    BY <2>1, <2>2 DEF TypeOK
  <2> QED
    BY <1>0, <1>2, <2>1, <2>2, <2>3, <2>4, PassedStep
<1>3. CASE /\ Clean /\ head = doc[p].commit /\ RetryAccepted(p)
           /\ Return(p, doc[p]) /\ UNCHANGED <<database, plans>>
  <2>1. doc[p] \in plans /\ doc[p].manifest = Tree[doc[p].commit]
    BY <1>0, InHand DEF Calls, History
  <2>2. applied = disk /\ disk = Tree[head] /\ \E i \in DOMAIN audits : audits[i].plan = doc[p]
    BY <1>3 DEF Clean, RetryAccepted, StableAttested
  <2>3. doc[p].manifest = applied
    BY <1>3, <2>1, <2>2
  <2> QED
    BY <1>3, <2>1, <2>2, <2>3, ReturnStep DEF database
<1> QED
  BY <1>1, <1>2, <1>3 DEF CheckForward, Require

LEMMA CheckBootstrapStep ==
  ASSUME TypeOK, History, NEW p \in Operators, Calls, CheckBootstrap(p)
  PROVE  Locked(p)' /\ Document(p)' /\ Applying(p)' /\ Answered(p)'
<1>1. CASE Refuse(p)
  BY <1>1, RefuseStep
<1>2. CASE ~ Refuse(p)
  <2> DEFINE d == [doc[p] EXCEPT !.manifest = disk]
  <2>1. /\ doc[p].kind = "bootstrap" /\ pc[p] = "check" /\ IsPrefix(tracker, disk)
        /\ doc' = [doc EXCEPT ![p] = d] /\ Goto(p, "apply")
        /\ UNCHANGED <<database, plans, lock, ran, told>>
    BY <1>2 DEF CheckBootstrap
  <2>2. d.kind = "bootstrap" /\ d.manifest = disk
    <3>1. doc[p] \in Docs
      BY DEF TypeOK
    <3>2. doc[p] \in [kind : {"bootstrap"}, manifest : Seq(Contents)]
      BY <2>1, <3>1 DEF Docs, Plans, AdoptionPlans, ForwardPlans, NoPlan
    <3> QED
      BY <3>2
  <2>3. Matches(d)
    <3>1. Len(tracker) <= Len(disk) /\ tracker = SubSeq(disk, 1, Len(tracker)) /\ Len(tracker) \in Nat
      BY <2>1 DEF IsPrefix, TypeOK, Trackers
    <3>2. Len(disk) = Last /\ disk \in Seq(Contents)
      BY FileSeq DEF TypeOK
    <3>3. \A i \in 1..Len(tracker) : tracker[i] = disk[i]
      BY <3>1, <3>2, SubSeqProperties, ElementOfSeq
    <3>4. DOMAIN tracker = 1..Len(tracker)
      BY DEF TypeOK, Trackers
    <3> QED
      BY <2>2, <3>3, <3>4 DEF Matches
  <2> HIDE DEF d
  <2> QED
    BY <2>1, <2>2, <2>3, PassedStep
<1> QED
  BY <1>1, <1>2

LEMMA ApplyPendingStep ==
  ASSUME TypeOK, History, NEW p \in Operators, Calls, ApplyPending(p)
  PROVE  Locked(p)' /\ Document(p)' /\ Applying(p)' /\ Answered(p)'
<1>1. CASE Refuse(p)
  BY <1>1, RefuseStep
<1>2. CASE ~ Refuse(p)
  <2> DEFINE next == Len(tracker) + Len(ran[p]) + 1
  <2>1. /\ pc[p] = "apply" /\ next <= Last /\ disk[next] = doc[p].manifest[next]
        /\ ran' = [ran EXCEPT ![p] = Append(@, disk[next])]
        /\ UNCHANGED <<database, plans, lock, pc, doc, told>>
    BY <1>2 DEF ApplyPending
  <2>2. Locked(p) /\ Document(p) /\ Applying(p) /\ Answered(p)
    BY DEF Calls
  <2>3. /\ Len(tracker) \in Nat /\ Len(ran[p]) \in Nat /\ ran[p] \in Seq(Contents)
    BY DEF TypeOK, Trackers
  <2>4. ran'[p] = Append(ran[p], disk[next])
    BY <2>1 DEF TypeOK
  <2>5. disk[next] \in Contents
    BY <2>1, <2>3 DEF TypeOK, Files
  <2>6. /\ Len(ran'[p]) = Len(ran[p]) + 1
        /\ \A i \in 1..Len(ran'[p]) : ran'[p][i] = doc[p].manifest[Len(tracker) + i]
    <3>1. \A i \in 1..Len(ran[p]) : ran[p][i] = doc[p].manifest[Len(tracker) + i]
      BY <2>1, <2>2 DEF Applying
    <3>2. /\ Len(ran'[p]) = Len(ran[p]) + 1
          /\ \A i \in 1..Len(ran[p]) : ran'[p][i] = ran[p][i]
          /\ ran'[p][Len(ran[p]) + 1] = disk[next]
      BY <2>3, <2>4, <2>5
    <3>3. ran'[p][Len(ran[p]) + 1] = doc[p].manifest[Len(tracker) + (Len(ran[p]) + 1)]
      BY <2>1, <2>3, <3>2
    <3>4. \A i \in 1..(Len(ran[p]) + 1) : i \in 1..Len(ran[p]) \/ i = Len(ran[p]) + 1
      BY <2>3
    <3> QED
      BY <3>1, <3>2, <3>3, <3>4
  <2>7. Applying(p)'
    <3>1. Matches(doc[p])'
      BY <2>1, <2>2 DEF Applying, Matches, Adoptions, database
    <3>2. pc'[p] = "apply" /\ tracker' = tracker /\ doc' = doc
      BY <2>1 DEF database
    <3>3. Len(tracker') + Len(ran'[p]) <= Last
      BY <2>1, <2>3, <2>6, <3>2
    <3> QED
      BY <2>6, <3>1, <3>2, <3>3 DEF Applying
  <2> QED
    BY <2>1, <2>2, <2>7 DEF Locked, Document, Answered, database
<1> QED
  BY <1>1, <1>2

LEMMA AttestStep ==
  ASSUME TypeOK, History, NEW p \in Operators, Calls, Attest(p)
  PROVE  Locked(p)' /\ Document(p)' /\ Applying(p)' /\ Answered(p)'
<1>1. CASE Refuse(p)
  BY <1>1, RefuseStep
<1>2. CASE ~ Refuse(p)
  <2>1. /\ pc[p] = "apply" /\ Len(tracker) + Len(ran[p]) = Last /\ Goto(p, "commit")
        /\ UNCHANGED <<database, plans, lock, doc, ran, told>>
        /\ doc[p].kind # "bootstrap" => applied \o ran[p] = doc[p].manifest
    BY <1>2 DEF Attest, Require, PostAttested
  <2>2. pc'[p] = "commit"
    BY <2>1 DEF Goto, TypeOK
  <2>3. Locked(p) /\ Document(p) /\ Applying(p) /\ Answered(p)
    BY DEF Calls
  <2>4. Applying(p)'
    BY <2>1, <2>2, <2>3 DEF Applying, Matches, Adoptions, database
  <2> QED
    BY <2>1, <2>2, <2>3, <2>4 DEF Locked, Document, Answered, database
<1> QED
  BY <1>1, <1>2

LEMMA CommitStep ==
  ASSUME TypeOK, History, NEW p \in Operators, Calls, Commit(p)
  PROVE  Locked(p)' /\ Document(p)' /\ Applying(p)' /\ Answered(p)'
<1>1. PICK reply \in {doc[p], NoPlan} : Return(p, reply)
  BY DEF Commit
<1>2. CASE reply.kind \notin {"adopt", "forward"}
  BY <1>1, <1>2, ReturnStep
<1>3. CASE reply.kind \in {"adopt", "forward"}
  <2>1. reply = doc[p] /\ doc[p].kind # "bootstrap" /\ pc[p] = "commit"
    BY <1>3 DEF NoPlan, Commit
  <2>2. doc[p] \in plans' /\ applied' = doc[p].manifest
    BY <2>1, InHand, CommitTruthful DEF Calls, History, Commit
  <2>3. audits' = Append(audits, [plan |-> doc[p], final |-> Tracked(p)])
    BY <2>1 DEF Commit
  <2>4. audits'[Len(audits) + 1].plan = doc[p] /\ Len(audits) + 1 \in DOMAIN audits'
    BY <2>3 DEF TypeOK
  <2> QED
    BY <1>1, <2>1, <2>2, <2>4, ReturnStep
<1> QED
  BY <1>2, <1>3

LEMMA BuildPlanStep ==
  ASSUME TypeOK, NEW p \in Operators, Calls, BuildPlan(p)
  PROVE  Locked(p)' /\ Document(p)' /\ Applying(p)' /\ Answered(p)'
BY ReturnStep DEF BuildPlan, NoPlan

LEMMA CallsStep ==
  ASSUME TypeOK, History, Calls, [Next]_vars
  PROVE  Calls'
<1>1. CASE UNCHANGED <<database, plans, session>>
  <2> SUFFICES ASSUME NEW q \in Operators
               PROVE  Locked(q)' /\ Document(q)' /\ Applying(q)' /\ Answered(q)'
    BY DEF Calls
  <2>1. Locked(q) /\ Document(q) /\ Applying(q) /\ Answered(q)
    BY DEF Calls
  <2>2. Applying(q)'
    BY <1>1, <2>1 DEF Applying, Matches, Adoptions, database, session
  <2> QED
    BY <1>1, <2>1, <2>2 DEF Locked, Document, Answered, database, session
<1>2. ASSUME NEW p \in Operators, Operate(p)
      PROVE  Calls'
  <2>1. Locked(p)' /\ Document(p)' /\ Applying(p)' /\ Answered(p)'
    BY <1>2, BuildPlanStep, BeginStep, TakeLocksStep, CheckAdoptionStep, CheckForwardStep,
       CheckBootstrapStep, ApplyPendingStep, AttestStep, CommitStep, RefuseStep
       DEF Operate, Step, Abort
  <2>2. \A q \in Operators : q # p => Locked(q)' /\ Document(q)' /\ Applying(q)' /\ Answered(q)'
    BY <1>2, OthersStep
  <2> QED
    BY <2>1, <2>2 DEF Calls
<1> QED
  BY <1>1, <1>2 DEF Next, vars

-----------------------------------------------------------------------------
(* The initial states.                                                     *)

LEMMA InitHistory ==
  ASSUME Init
  PROVE  TypeOK /\ History
<1> USE ConstantsAssumption
<1>1. /\ head \in Commits /\ disk = Tree[head] /\ disk \in [Files -> Contents]
      /\ disk \in Seq(Contents) /\ Len(disk) = Last
      /\ \A f \in 1..Last : disk[f] \in Contents
  BY TreeSeq DEF Init
<1>2. \A n \in 0..Last :
        /\ SubSeq(disk, 1, n) \in Seq(Contents) /\ Len(SubSeq(disk, 1, n)) = n
        /\ DOMAIN SubSeq(disk, 1, n) = 1..n
        /\ \A f \in 1..n : SubSeq(disk, 1, n)[f] = disk[f]
  <2> TAKE n \in 0..Last
  <2>1. \A f \in 1..n : disk[f] \in Contents
    BY <1>1
  <2> QED
    BY <2>1, SubSeqProperties, LenProperties
<1>3. \A f \in 1..Legacy, c \in Commits : disk[f] = Tree[c][f]
  BY <1>1, LegacyAssumption
<1> DEFINE nulls == [f \in 1..Legacy |-> "null"]
<1>4. nulls \in Trackers /\ Len(nulls) = Legacy /\ DOMAIN nulls = 1..Legacy
  BY DEF Trackers
<1>5. plans = {} /\ PlansBound
  BY DEF Init, PlansBound
<1>6. /\ SessionTypes /\ condition \in Conditions
  BY DEF Init, SessionTypes, Labels, Docs, Answers, Conditions
<1>7. CASE /\ applied = SubSeq(disk, 1, Legacy) /\ tracker = nulls
           /\ probe \in BOOLEAN /\ audits = <<>> /\ test \in BOOLEAN
  <2>1. applied \in Seq(Contents) /\ Len(applied) = Legacy /\ \A f \in 1..Legacy : applied[f] = disk[f]
    <3>1. Legacy \in 0..Last
      BY LegacyAssumption, ConstantsAssumption
    <3>2. /\ SubSeq(disk, 1, Legacy) \in Seq(Contents) /\ Len(SubSeq(disk, 1, Legacy)) = Legacy
          /\ \A f \in 1..Legacy : SubSeq(disk, 1, Legacy)[f] = disk[f]
      BY <1>2, <3>1
    <3>3. applied = SubSeq(disk, 1, Legacy)
      BY <1>7
    <3> QED
      BY <3>2, <3>3, Zenon
  <2>2. DatabaseTypes
    BY <1>4, <1>7, <2>1 DEF DatabaseTypes
  <2>3. Truthful
    <3>1. \A i \in DOMAIN tracker : tracker[i] = "null"
      BY <1>4, <1>7
    <3>2. Len(tracker) = Legacy /\ Legacy <= Last
      BY <1>4, <1>7
    <3> HIDE DEF nulls
    <3> QED
      BY <2>1, <3>1, <3>2 DEF Truthful
  <2>4. LegacyKept
    BY <1>3, <2>1 DEF LegacyKept
  <2>5. Audited
    <3>1. DOMAIN audits = {} /\ Len(applied) # Last
      BY <1>7, <2>1
    <3> QED
      BY <3>1 DEF Audited, Complete
  <2> QED
    BY <1>1, <1>5, <1>6, <2>2, <2>3, <2>4, <2>5, TypeParts DEF History
<1>8. CASE /\ applied = SubSeq(disk, 1, Checkpoint) /\ tracker = applied /\ probe = FALSE
           /\ audits = <<[plan |-> [kind |-> "adopt", commit |-> head, tracker |-> nulls,
                                    probe |-> FALSE, manifest |-> applied],
                          final |-> applied]>>
           /\ test \in BOOLEAN
  <2> DEFINE plan == [kind |-> "adopt", commit |-> head, tracker |-> nulls,
                      probe |-> FALSE, manifest |-> applied]
  <2>1. /\ applied \in Seq(Contents) /\ Len(applied) = Checkpoint /\ DOMAIN applied = 1..Checkpoint
        /\ \A f \in 1..Checkpoint : applied[f] = disk[f]
    <3>1. applied = SubSeq(disk, 1, Checkpoint) /\ Checkpoint \in 0..Last
      BY <1>8
    <3> QED
      BY <1>2, <3>1
  <2>2. plan \in Plans
    BY <1>1, <1>4, <2>1 DEF Plans, AdoptionPlans
  <2>3. DOMAIN audits = {1} /\ audits[1] = [plan |-> plan, final |-> applied]
    BY <1>8
  <2>4. audits \in Seq([plan : Plans, final : Seq(Contents)])
    <3> HIDE DEF plan
    <3>1. [plan |-> plan, final |-> applied] \in [plan : Plans, final : Seq(Contents)]
      BY <2>1, <2>2
    <3>2. audits = <<[plan |-> plan, final |-> applied]>>
      BY <1>8 DEF plan
    <3> QED
      BY <3>1, <3>2
  <2>5. DatabaseTypes
    BY <1>8, <2>1, <2>4, ContentTracker DEF DatabaseTypes
  <2>6. Truthful
    <3>1. \A i \in 1..Checkpoint : applied[i] # "null"
      BY <1>1, <2>1
    <3> QED
      BY <1>8, <2>1, <3>1 DEF Truthful, Untracked
  <2>7. LegacyKept
    BY <1>3, <2>1 DEF LegacyKept
  <2>8. AuditHolds(audits[1])
    <3>1. plan.kind = "adopt"
      OBVIOUS
    <3> HIDE DEF plan
    <3> QED
      BY <2>1, <2>3, <3>1 DEF AuditHolds
  <2>9. Audited
    <3> HIDE DEF plan
    <3>1. Complete = {}
      BY <2>1, <2>3 DEF Complete
    <3> QED
      BY <2>1, <2>3, <2>8, <3>1 DEF Audited
  <2> QED
    BY <1>1, <1>5, <1>6, <2>5, <2>6, <2>7, <2>9, TypeParts DEF History
<1>9. CASE test = TRUE /\ applied = <<>> /\ tracker = <<>> /\ probe = FALSE /\ audits = <<>>
  <2>1. DatabaseTypes
    BY <1>9, EmptySeq DEF DatabaseTypes, Trackers
  <2>2. Truthful /\ LegacyKept /\ Audited
    BY <1>3, <1>9 DEF Truthful, LegacyKept, Audited, Untracked
  <2> QED
    BY <1>1, <1>5, <1>6, <2>1, <2>2, TypeParts DEF History
<1> QED
  BY <1>7, <1>8, <1>9 DEF Init

LEMMA InitCalls ==
  ASSUME Init
  PROVE  Calls
BY ConstantsAssumption DEF Init, Calls, Locked, Document, Applying, Answered, NoPlan

\* Types, history and calls: the invariant from which the rest follows.
THEOREM MigrationCorrect == Spec => []MigrationInv
<1>1. Init => MigrationInv
  BY InitHistory, InitCalls DEF MigrationInv
<1>2. MigrationInv /\ [Next]_vars => MigrationInv'
  BY TypesStep, HistoryStep, CallsStep DEF MigrationInv
<1> QED
  BY <1>1, <1>2, PTL DEF Spec

-----------------------------------------------------------------------------
(* What the invariant says.                                                *)

\* The tracker tells the truth about the scripts that ran, whatever the files,
\* the commits and the other operators do during a call.
THEOREM TrackerIsTruthful == Spec => []TrackerTruthful
<1>1. MigrationInv => TrackerTruthful
  BY DEF MigrationInv, History, Truthful, TrackerTruthful
<1> QED
  BY <1>1, MigrationCorrect, PTL

\* Between the checks of a call and its commit the history it was reviewed
\* against stands still.
THEOREM HistoryStandsStill == Spec => []ReviewedState
<1>1. MigrationInv => ReviewedState
  <2> SUFFICES ASSUME MigrationInv, NEW p \in Operators, pc[p] \in {"apply", "commit"}
               PROVE  /\ Len(tracker) + Len(ran[p]) <= Last
                      /\ doc[p].kind # "bootstrap" => tracker = doc[p].tracker
                      /\ doc[p].kind = "forward" => Cardinality(Adoptions(tracker)) = 1
    BY DEF ReviewedState
  <2>1. TypeOK /\ Applying(p) /\ Document(p) /\ PlansBound
    BY DEF MigrationInv, Calls, History
  <2>2. doc[p].kind \in {"adopt", "forward", "bootstrap"}
    BY <2>1, InHand
  <2>3. doc[p].kind = "forward" => Adoptions(tracker) = {doc[p].prior}
    BY <2>1 DEF Applying, Matches
  <2>4. doc[p].kind = "forward" => Cardinality(Adoptions(tracker)) = 1
    BY <2>3, FS_Singleton
  <2> QED
    BY <2>1, <2>2, <2>4 DEF Applying, Matches
<1> QED
  BY <1>1, MigrationCorrect, PTL

\* A complete history is the final state of its one complete audit.
LEMMA CompleteAudit ==
  ASSUME TypeOK, History, Len(applied) = Last, NEW i \in DOMAIN audits
  PROVE  /\ Len(audits[i].final) = Last <=> audits[i].final = applied
         /\ audits[i].final = applied => AuditHolds(audits[i])
<1>1. AuditHolds(audits[i])
  BY DEF History, Audited
<1>2. audits[i].final \in Seq(Contents) /\ applied \in Seq(Contents)
  BY AuditTypes DEF TypeOK
<1>3. Len(audits[i].final) = Last => audits[i].final = applied
  BY <1>1, <1>2, SeqEqual DEF AuditHolds
<1> QED
  BY <1>1, <1>3

LEMMA AuditedExactlyOnce ==
  ASSUME MigrationInv
  PROVE  AuditedOnce
<1>1. TypeOK /\ History
  BY DEF MigrationInv
<1> SUFFICES ASSUME ~ test, Len(applied) = Last
             PROVE  /\ Cardinality({i \in DOMAIN audits : audits[i].final = applied}) = 1
                    /\ \A i \in DOMAIN audits : audits[i].final = applied =>
                         /\ Tree[audits[i].plan.commit] = applied
                         /\ audits[i].plan.kind = "forward" =>
                              audits[audits[i].plan.prior].final = audits[i].plan.tracker
  BY DEF AuditedOnce
<1>2. {i \in DOMAIN audits : audits[i].final = applied} = Complete
  BY <1>1, CompleteAudit DEF Complete
<1>3. PICK n : Complete = {n}
  <2>1. Complete # {} /\ \A i, j \in Complete : i = j
    BY <1>1 DEF History, Audited
  <2>2. PICK n : n \in Complete
    BY <2>1
  <2>3. Complete = {n}
    BY <2>1, <2>2
  <2> QED
    BY <2>3
<1>4. Cardinality(Complete) = 1
  BY <1>3, FS_Singleton
<1>5. ASSUME NEW i \in DOMAIN audits, audits[i].final = applied
      PROVE  /\ Tree[audits[i].plan.commit] = applied
             /\ audits[i].plan.kind = "forward" =>
                  audits[audits[i].plan.prior].final = audits[i].plan.tracker
  <2>1. AuditHolds(audits[i])
    BY <1>1, <1>5, CompleteAudit
  <2>2. audits[i].plan.kind = "forward" => audits[i].plan.prior \in Adoptions(audits[i].plan.tracker)
    BY <2>1 DEF AuditHolds
  <2> QED
    BY <1>5, <2>1, <2>2 DEF AuditHolds, Adoptions
<1> QED
  BY <1>2, <1>4, <1>5

\* The plan of a call that was done before is recognised.
LEMMA DoneIsRecognised ==
  ASSUME MigrationInv
  PROVE  RetryRecognised
<1> SUFFICES ASSUME NEW p \in Operators,
                    pc[p] = "check", doc[p].kind = "forward", condition # "drifted",
                    Clean, head = doc[p].commit,
                    \E i \in DOMAIN audits : audits[i].plan = doc[p]
             PROVE  RetryAccepted(p)
  BY DEF RetryRecognised
<1>0. PICK i \in DOMAIN audits : audits[i].plan = doc[p]
  OBVIOUS
<1>1. TypeOK /\ History /\ Document(p)
  BY DEF MigrationInv, Calls
<1>2. doc[p].manifest = Tree[doc[p].commit]
  BY <1>1, InHand DEF History
<1>3. /\ Len(audits[i].final) = Last /\ Len(audits[i].final) <= Len(applied)
      /\ audits[i].final = doc[p].manifest
      /\ Adoptions(doc[p].tracker) = {doc[p].prior}
  BY <1>0, <1>1 DEF History, Audited, AuditHolds
<1>4. Len(applied) = Last
  BY <1>1, <1>3, ConstantsAssumption DEF History, Truthful, TypeOK
<1>5. audits[i].final = applied /\ applied = disk
  BY <1>1, <1>2, <1>3, <1>4, CompleteAudit DEF Clean
<1>6. tracker = applied
  <2>1. Len(tracker) = Last /\ ~ Untracked /\ Len(tracker) \in Nat
    BY <1>1, <1>4, ConstantsAssumption DEF History, Truthful, TypeOK, Trackers
  <2>2. DOMAIN tracker = 1..Last /\ DOMAIN applied = 1..Last
    BY <1>1, <1>4, <2>1 DEF TypeOK, Trackers
  <2>3. \A f \in 1..Last : tracker[f] = applied[f]
    BY <1>1, <2>1, <2>2 DEF History, Truthful, Untracked
  <2>4. tracker \in Seq(Contents \cup {"null"}) /\ applied \in Seq(Contents \cup {"null"})
    BY <1>1, <1>4, <2>2, SeqMonotonic DEF TypeOK, Trackers
  <2> QED
    BY <1>4, <2>1, <2>3, <2>4, SeqEqual
<1>7. Cardinality(Adoptions(doc[p].tracker)) = 1 /\ Prior(doc[p].tracker) = doc[p].prior
  BY <1>1, <1>3, AdoptionSets DEF TypeOK
<1> QED
  BY <1>0, <1>5, <1>6, <1>7 DEF RetryAccepted, StableAttested

\* A complete database has the one audit that made it, an answer is backed by
\* one, and an operator who asks again is referred to it.
THEOREM MigrationsAudited == Spec => []AuditTrail
<1>1. MigrationInv => DoneIsAudited
  BY DEF MigrationInv, Calls, Answered, DoneIsAudited
<1>2. MigrationInv => AuditTrail
  BY <1>1, AuditedExactlyOnce, DoneIsRecognised DEF AuditTrail
<1> QED
  BY <1>2, MigrationCorrect, PTL
=============================================================================
