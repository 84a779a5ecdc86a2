------------------------- MODULE PublicationProofs -------------------------
(***************************************************************************)
(* Proofs about the publication ledger, for any number of skills, callers, *)
(* versions and rows, and any skew of the callers' clocks.                 *)
(***************************************************************************)
EXTENDS Lifecycle, FiniteSetTheorems, TLAPS

\* The fields of Commit's new projection row.
LEMMA ProjectionType ==
  ASSUME TypeOK, NEW c \in Clients, pc[c] = "commit",
         call[c].row.decision # "reject"
  PROVE  Projection(c) \in Event
<1>1. call[c] \in Call
  BY DEF TypeOK
<1>2. Len(approvals) \in Nat
  BY DEF TypeOK
<1> QED
  BY <1>1, <1>2 DEF Projection, RowId, Call, Row, Event, Decisions

\* Starting a call and returning from one keep the callers' state well typed.
LEMMA BeginType ==
  ASSUME TypeOK, NEW c \in Clients, NEW row \in Row, NEW target \in Nat,
         NEW phase \in Phases, Begin(c, phase, row, target)
  PROVE  /\ pc' \in [Clients -> Phases]
         /\ call' \in [Clients -> Call \cup {NoCall}]
         /\ \A d \in Clients : pc'[d] # "idle" => call'[d] \in Call
<1>1. [row |-> row, target |-> target, threshold |-> 0, at |-> 0] \in Call
  BY DEF Call
<1> QED
  BY <1>1 DEF Begin, TypeOK

LEMMA ReturnType ==
  ASSUME TypeOK, NEW c \in Clients, Return(c)
  PROVE  /\ pc' \in [Clients -> Phases]
         /\ call' \in [Clients -> Call \cup {NoCall}]
         /\ \A d \in Clients : pc'[d] # "idle" => call'[d] \in Call
BY DEF Return, TypeOK, Phases

\* Moving a caller to its next phase with a well-typed call does too.
LEMMA AdvanceType ==
  ASSUME TypeOK, NEW c \in Clients, NEW phase \in Phases, NEW k \in Call,
         pc' = [pc EXCEPT ![c] = phase], call' = [call EXCEPT ![c] = k]
  PROVE  /\ pc' \in [Clients -> Phases]
         /\ call' \in [Clients -> Call \cup {NoCall}]
         /\ \A d \in Clients : pc'[d] # "idle" => call'[d] \in Call
BY DEF TypeOK

LEMMA TypeInit == Init => TypeOK
<1> SUFFICES ASSUME Init PROVE TypeOK
  OBVIOUS
<1>1. <<>> \in Seq(Round) /\ <<>> \in Seq(Row)
  OBVIOUS
<1> QED
  BY <1>1, ConstantsAssumption DEF Init, TypeOK, Phases

LEMMA TypeNext ==
  ASSUME TypeOK, [Next]_vars
  PROVE  TypeOK'
<1> USE ConstantsAssumption
<1>1. ASSUME NEW s \in Slugs, NEW v \in Versions, NEW score \in Scores,
             SecurityAggregate(s, v, score)
      PROVE  TypeOK'
  <2>1. score \in Nat
    OBVIOUS
  <2>2. aggregate' \in [Slugs -> [Versions -> Nat]]
    BY <1>1, <2>1 DEF TypeOK, SecurityAggregate
  <2> QED
    BY <1>1, <2>2 DEF TypeOK, SecurityAggregate
<1>2. ASSUME NEW s \in Slugs, NEW v \in Versions, NEW ok \in BOOLEAN,
             ContentRound(s, v, ok)
      PROVE  TypeOK'
  <2>1. [ver |-> v, ok |-> ok] \in Round
    BY DEF Round
  <2>2. lineage[s] \in Seq(Round)
    BY DEF TypeOK
  <2>3. Append(lineage[s], [ver |-> v, ok |-> ok]) \in Seq(Round)
    BY <2>1, <2>2
  <2>4. lineage' \in [Slugs -> Seq(Round)]
    BY <1>2, <2>3 DEF TypeOK, ContentRound
  <2> QED
    BY <1>2, <2>4 DEF TypeOK, ContentRound
<1>3. ASSUME NEW limit \in Thresholds, ConfigurePolicy(limit)
      PROVE  TypeOK'
  BY <1>3 DEF TypeOK, ConfigurePolicy
<1>4. CASE Tick
  BY <1>4 DEF TypeOK, Tick
<1>5. ASSUME NEW r \in Row, Import(r)
      PROVE  TypeOK'
  <2>1. Append(approvals, r) \in Seq(Row)
    BY DEF TypeOK
  <2> QED
    BY <1>5, <2>1 DEF TypeOK, Import
<1>6. ASSUME NEW c \in Clients, NEW s \in Slugs, NEW v \in Versions,
             NEW by \in Signers, NEW n \in DOMAIN lineage[s],
             ApproveCheck(c, s, v, n, by)
      PROVE  TypeOK'
  <2>1. n \in Nat
    BY DEF TypeOK
  <2>2. [decision |-> "approve", slug |-> s, ver |-> v, content |-> n, by |-> by,
         corrects |-> 0, ts |-> 0, via |-> "actuator"] \in Row
    BY <2>1 DEF Row, Decisions
  <2>3. "checked" \in Phases
    BY DEF Phases
  <2> QED
    BY <1>6, <2>2, <2>3, BeginType DEF TypeOK, ApproveCheck
<1>7. ASSUME NEW c \in Clients, NEW s \in Slugs, NEW v \in Versions,
             NEW by \in Signers, NEW n \in DOMAIN lineage[s],
             RejectCheck(c, s, v, n, by)
      PROVE  TypeOK'
  <2>1. n \in Nat /\ now + Skew[c] \in Nat
    BY DEF TypeOK
  <2> DEFINE r == [decision |-> "reject", slug |-> s, ver |-> v, content |-> n,
                   by |-> by, corrects |-> 0, ts |-> now + Skew[c],
                   via |-> "actuator"]
  <2>2. r \in Row
    BY <2>1 DEF Row, Decisions
  <2>3. "append" \in Phases
    BY DEF Phases
  <2>4. Begin(c, "append", r, 0)
    BY <1>7 DEF RejectCheck
  <2> HIDE DEF r
  <2> QED
    BY <1>7, <2>2, <2>3, <2>4, BeginType DEF TypeOK, RejectCheck
<1>8. ASSUME NEW c \in Clients, NEW i \in DOMAIN approvals, NEW by \in Signers,
             UnpublishCheck(c, i, by)
      PROVE  TypeOK'
  <2>1. i \in Nat /\ approvals[i] \in Row /\ now + Skew[c] \in Nat
    BY DEF TypeOK
  <2>2. CASE Begin(c, "append", [approvals[i] EXCEPT !.decision = "unpublish", !.by = by,
                                                   !.corrects = i, !.via = "actuator",
                                                   !.ts = now + Skew[c]], 0)
    <3> DEFINE r == [approvals[i] EXCEPT !.decision = "unpublish", !.by = by,
                                         !.corrects = i, !.via = "actuator",
                                         !.ts = now + Skew[c]]
    <3>1. r \in Row
      BY <2>1 DEF Row, Decisions
    <3>2. "append" \in Phases
      BY DEF Phases
    <3>3. Begin(c, "append", r, 0)
      BY <2>2
    <3> HIDE DEF r
    <3> QED
      BY <1>8, <3>1, <3>2, <3>3, BeginType DEF TypeOK, UnpublishCheck
  <2>3. ASSUME NEW j \in RawCorrections(i), Begin(c, "activate", approvals[j], j)
        PROVE  TypeOK'
    <3>1. j \in Nat /\ approvals[j] \in Row
      BY DEF RawCorrections, TypeOK
    <3>2. "activate" \in Phases
      BY DEF Phases
    <3> QED
      BY <1>8, <2>3, <3>1, <3>2, BeginType DEF TypeOK, UnpublishCheck
  <2> QED
    BY <1>8, <2>2, <2>3 DEF UnpublishCheck
<1>9. ASSUME NEW c \in Clients, NEW i \in DOMAIN approvals, ActivateRequest(c, i)
      PROVE  TypeOK'
  <2>1. i \in Nat /\ approvals[i] \in Row
    BY DEF TypeOK
  <2>2. "activate" \in Phases
    BY DEF Phases
  <2> QED
    BY <1>9, <2>1, <2>2, BeginType DEF TypeOK, ActivateRequest
<1>10. ASSUME NEW c \in Clients, ApproveReconcile(c)
       PROVE  TypeOK'
  <2> DEFINE heads == {e.approval : e \in ActiveBySlug(call[c].row.slug)}
  <2>1. CASE Return(c)
    BY <1>10, <2>1, ReturnType DEF TypeOK, ApproveReconcile
  <2>2. ASSUME NEW k \in IF heads = {} THEN {0} ELSE heads,
               pc' = [pc EXCEPT ![c] = "append"],
               call' = [call EXCEPT ![c].row = [call[c].row EXCEPT
                                      !.corrects = k, !.ts = now + Skew[c]]]
        PROVE  TypeOK'
    <3>1. k \in Nat
      <4>1. ActiveBySlug(call[c].row.slug) \subseteq events
        BY DEF ActiveBySlug, Heads, Approved
      <4>2. \A e \in events : e.approval \in Nat
        BY DEF TypeOK, Event
      <4> QED
        BY <4>1, <4>2
    <3>2. call[c] \in Call /\ now + Skew[c] \in Nat
      <4>1. pc[c] = "checked"
        BY <1>10 DEF ApproveReconcile
      <4> QED
        BY <4>1 DEF TypeOK
    <3> DEFINE n == [call[c] EXCEPT !.row = [call[c].row EXCEPT
                                               !.corrects = k, !.ts = now + Skew[c]]]
    <3>3. n \in Call
      <4>1. call[c].row \in Row
        BY <3>2 DEF Call
      <4>2. [call[c].row EXCEPT !.corrects = k, !.ts = now + Skew[c]] \in Row
        BY <3>1, <3>2, <4>1 DEF Row
      <4>3. \A r \in Row : [call[c] EXCEPT !.row = r] \in Call
        BY <3>2 DEF Call
      <4> QED
        BY <4>2, <4>3
    <3>4. call' = [call EXCEPT ![c] = n]
      BY <2>2 DEF TypeOK
    <3>5. "append" \in Phases
      BY DEF Phases
    <3> HIDE DEF n
    <3> QED
      BY <1>10, <2>2, <3>3, <3>4, <3>5, AdvanceType DEF TypeOK, ApproveReconcile
  <2> QED
    BY <1>10, <2>1, <2>2 DEF ApproveReconcile
<1>11. ASSUME NEW c \in Clients, AppendBegin(c)
       PROVE  TypeOK'
  <2> DEFINE n == [call[c] EXCEPT !.threshold = threshold,
                                  !.at = Later(now, call[c].row.ts)]
  <2>1. call[c] \in Call /\ call[c].row \in Row
    BY <1>11 DEF TypeOK, AppendBegin, Call
  <2>2. n \in Call
    BY <2>1 DEF Later, TypeOK, Call, Row
  <2>3. CASE Return(c) /\ UNCHANGED lock
    BY <1>11, <2>3, ReturnType DEF TypeOK, AppendBegin
  <2>4. CASE /\ lock' = [lock EXCEPT ![call[c].row.slug] = c]
             /\ pc' = [pc EXCEPT ![c] = "commit"]
             /\ call' = [call EXCEPT ![c].threshold = threshold,
                                     ![c].at = Later(now, call[c].row.ts)]
    <3>1. call' = [call EXCEPT ![c] = n]
      BY <2>4 DEF TypeOK
    <3>2. "commit" \in Phases
      BY DEF Phases
    <3> HIDE DEF n
    <3> QED
      BY <1>11, <2>2, <2>4, <3>1, <3>2, AdvanceType DEF TypeOK, AppendBegin
  <2> QED
    BY <1>11, <2>3, <2>4 DEF AppendBegin
<1>12. ASSUME NEW c \in Clients, ActivateShare(c)
       PROVE  TypeOK'
  <2> DEFINE n == [call[c] EXCEPT !.threshold = threshold]
  <2>1. n \in Call
    BY <1>12 DEF TypeOK, ActivateShare, Call
  <2>2. CASE Return(c)
    BY <1>12, <2>2, ReturnType DEF TypeOK, ActivateShare
  <2>3. CASE /\ pc' = [pc EXCEPT ![c] = "sharing"]
             /\ call' = [call EXCEPT ![c].threshold = threshold]
    <3>1. call' = [call EXCEPT ![c] = n]
      BY <2>3 DEF TypeOK
    <3>2. "sharing" \in Phases
      BY DEF Phases
    <3> HIDE DEF n
    <3> QED
      BY <1>12, <2>1, <2>3, <3>1, <3>2, AdvanceType DEF TypeOK, ActivateShare
  <2> QED
    BY <1>12, <2>2, <2>3 DEF ActivateShare
<1>13. ASSUME NEW c \in Clients, ActivateBegin(c)
       PROVE  TypeOK'
  <2> DEFINE n == [call[c] EXCEPT !.at = Later(now, call[c].row.ts)]
  <2>1. call[c] \in Call /\ call[c].row \in Row
    BY <1>13 DEF TypeOK, ActivateBegin, Call
  <2>2. n \in Call
    BY <2>1 DEF Later, TypeOK, Call, Row
  <2>3. CASE Return(c) /\ UNCHANGED lock
    BY <1>13, <2>3, ReturnType DEF TypeOK, ActivateBegin
  <2>4. CASE /\ lock' = [lock EXCEPT ![call[c].row.slug] = c]
             /\ pc' = [pc EXCEPT ![c] = "commit"]
             /\ call' = [call EXCEPT ![c].at = Later(now, call[c].row.ts)]
    <3>1. call' = [call EXCEPT ![c] = n]
      BY <2>4 DEF TypeOK
    <3>2. "commit" \in Phases
      BY DEF Phases
    <3> HIDE DEF n
    <3> QED
      BY <1>13, <2>2, <2>4, <3>1, <3>2, AdvanceType DEF TypeOK, ActivateBegin
  <2> QED
    BY <1>13, <2>3, <2>4 DEF ActivateBegin
<1>14. ASSUME NEW c \in Clients, Commit(c)
       PROVE  TypeOK'
  <2>1. call[c] \in Call /\ call[c].row \in Row
    BY <1>14 DEF TypeOK, Commit, Call
  <2>2. approvals' \in Seq(Row)
    BY <1>14, <2>1 DEF TypeOK, Commit
  <2>3. events' \subseteq Event
    BY <1>14, ProjectionType DEF TypeOK, Commit
  <2> QED
    BY <1>14, <2>1, <2>2, <2>3, ReturnType DEF TypeOK, Commit
<1>15. ASSUME NEW c \in Clients, Crash(c)
       PROVE  TypeOK'
  BY <1>15, ReturnType DEF TypeOK, Crash
<1>16. CASE UNCHANGED vars
  BY <1>16 DEF TypeOK, vars
<1>17. CASE Environment
  <2>1. ASSUME NEW d \in Decisions, NEW s \in Slugs, NEW v \in Versions,
               NEW by \in Signers, NEW n \in DOMAIN lineage[s],
               NEW corrects \in 0 .. Len(approvals)
        PROVE  [decision |-> d, slug |-> s, ver |-> v, content |-> n, by |-> by,
                corrects |-> corrects, ts |-> now, via |-> "raw"] \in Row
    BY DEF TypeOK, Row
  <2> QED
    BY <1>1, <1>2, <1>3, <1>4, <1>5, <1>17, <2>1 DEF Environment
<1> QED
  BY <1>6, <1>7, <1>8, <1>9, <1>10, <1>11, <1>12, <1>13, <1>14, <1>15, <1>16, <1>17
  DEF Next, Start, Progress

\* Every reachable state is well typed.
THEOREM TypeCorrect == Spec => []TypeOK
BY TypeInit, TypeNext, PTL DEF Spec

-----------------------------------------------------------------------------
(* The ledger invariant.                                                   *)

ledger == <<approvals, events>>

\* What the invariant says of the ledger alone.
LEMMA LedgerAlone ==
  ASSUME LedgerInv, UNCHANGED ledger
  PROVE  Faithful' /\ CorrectedOnce' /\ Linked' /\ OneHead' /\ HeadIsNewest'
<1>1. Faithful' /\ CorrectedOnce' /\ Linked'
  BY DEF LedgerInv, ledger, Faithful, CorrectedOnce, Linked, Corrects
<1>2. OneHead' /\ HeadIsNewest'
  BY DEF LedgerInv, ledger, OneHead, HeadIsNewest, Heads, Approved
<1> QED
  BY <1>1, <1>2

\* A caller c moves on without writing: the ledger, the other callers and their
\* locks stay, and the invariant's part about c holds of where c is then.
LEMMA CallerMoves ==
  ASSUME LedgerInv, TypeOK', UNCHANGED ledger, NEW c \in Clients,
         \A d \in Clients \ {c} : pc'[d] = pc[d] /\ call'[d] = call[d],
         \A s \in Slugs : lock[s] \notin {c, NoClient} => lock'[s] = lock[s],
         TargetedCall(pc'[c], call'[c]),
         pc'[c] = "commit" => lock'[call'[c].row.slug] = c /\ PendingCall(call'[c])
  PROVE  LedgerInv'
<1>1. Targeted'
  <2> SUFFICES ASSUME NEW d \in Clients
               PROVE  TargetedCall(pc[d], call[d])'
    BY DEF Targeted
  <2>1. TargetedCall(pc'[d], call'[d])
    BY DEF LedgerInv, Targeted
  <2> QED
    BY <2>1 DEF TargetedCall, ledger
<1>2. Pending'
  <2> SUFFICES ASSUME NEW d \in Clients, pc'[d] = "commit"
               PROVE  (lock[call[d].row.slug] = d /\ PendingCall(call[d]))'
    BY DEF Pending
  <2>1. call'[d] \in Call /\ call'[d].row.slug \in Slugs
    BY DEF TypeOK, Call, Row
  <2>2. lock'[call'[d].row.slug] = d /\ PendingCall(call'[d])
    <3>1. CASE d = c
      BY <3>1
    <3>2. CASE d # c
      <4>1. lock[call'[d].row.slug] = d /\ PendingCall(call'[d])
        BY <3>2 DEF LedgerInv, Pending
      <4> QED
        BY <2>1, <3>2, <4>1, ConstantsAssumption
    <3> QED
      BY <3>1, <3>2
  <2>3. PendingCall(call[d])'
    BY <2>2 DEF ledger, PendingCall, PendingRow, ExceedsHistory, Heads, Approved,
                Corrects, RawCorrections, Projected
  <2> QED
    BY <2>2, <2>3
<1> QED
  BY <1>1, <1>2, LedgerAlone DEF LedgerInv

LEMMA LedgerInit == Init => LedgerInv
<1> SUFFICES ASSUME Init PROVE LedgerInv
  OBVIOUS
<1>1. events = {} /\ DOMAIN approvals = {} /\ \A c \in Clients : pc[c] = "idle"
  BY DEF Init
<1>2. \A s \in Slugs : Approved(s) = {} /\ Heads(s) = {}
  BY <1>1 DEF Heads, Approved
<1> QED
  BY <1>1, <1>2, TypeInit
  DEF LedgerInv, Faithful, CorrectedOnce, Linked, Targeted, TargetedCall, Pending,
      OneHead, HeadIsNewest

\* A raw append changes the log but neither the projection nor what the
\* committing transactions rely on.
LEMMA ImportStep ==
  ASSUME LedgerInv, TypeOK', NEW r \in Row, Import(r)
  PROVE  LedgerInv'
<1>1. /\ approvals' = Append(approvals, r)
      /\ UNCHANGED <<events, lock, pc, call>>
  BY DEF Import
<1>2. approvals \in Seq(Row) /\ Len(approvals) \in Nat
  BY DEF LedgerInv, TypeOK
<1>3. /\ DOMAIN approvals' = DOMAIN approvals \cup {Len(approvals) + 1}
      /\ \A i \in DOMAIN approvals : approvals'[i] = approvals[i]
      /\ approvals'[Len(approvals) + 1] = r
      /\ Len(approvals) + 1 \notin DOMAIN approvals
  BY <1>1, <1>2
<1>4. Faithful'
  BY <1>1, <1>3 DEF LedgerInv, Faithful
<1>5. CorrectedOnce'
  <2>1. r.corrects # 0 => RawCorrections(r.corrects) = {}
    BY DEF Import
  <2> QED
    BY <1>3, <2>1 DEF LedgerInv, CorrectedOnce, RawCorrections
<1>6. Linked'
  BY <1>1 DEF LedgerInv, Linked, Corrects
<1>7. Targeted'
  BY <1>1, <1>3 DEF LedgerInv, Targeted, TargetedCall
<1>8. Pending'
  <2> SUFFICES ASSUME NEW d \in Clients, pc[d] = "commit"
               PROVE  (lock[call[d].row.slug] = d /\ PendingCall(call[d]))'
    BY <1>1 DEF Pending
  <2>1. lock[call[d].row.slug] = d /\ PendingCall(call[d])
    BY DEF LedgerInv, Pending
  <2>2. PendingRow(call[d].row)'
    BY <1>1, <2>1 DEF PendingCall, PendingRow, ExceedsHistory, Heads, Approved, Corrects
  <2>3. (call[d].target = 0 /\ call[d].row.corrects # 0 =>
           RawCorrections(call[d].row.corrects) = {})'
    <3>1. r.corrects # 0 => call[d].row.corrects # r.corrects
      BY DEF Import
    <3> QED
      BY <1>1, <1>3, <2>1, <3>1 DEF PendingCall, RawCorrections
  <2>4. (call[d].target # 0 => ~ Projected(call[d].target) /\ call[d].row.decision # "reject")'
    BY <1>1, <2>1 DEF PendingCall, Projected
  <2> QED
    BY <1>1, <2>1, <2>2, <2>3, <2>4 DEF PendingCall
<1>9. OneHead' /\ HeadIsNewest'
  BY <1>1 DEF LedgerInv, OneHead, HeadIsNewest, Heads, Approved
<1> QED
  BY <1>4, <1>5, <1>6, <1>7, <1>8, <1>9 DEF LedgerInv

-----------------------------------------------------------------------------
(* The commit of a transaction.                                            *)

\* The log keeps its rows and holds the committed one at its id, which no
\* projection row names and none corrects.
LEMMA CommitRow ==
  ASSUME LedgerInv, NEW c \in Clients, Commit(c)
  PROVE  /\ call[c] \in Call /\ call[c].row \in Row
         /\ lock[call[c].row.slug] = c /\ PendingCall(call[c])
         /\ DOMAIN approvals \subseteq DOMAIN approvals'
         /\ \A i \in DOMAIN approvals : approvals'[i] = approvals[i]
         /\ RowId(c) \in DOMAIN approvals' /\ approvals'[RowId(c)] = call[c].row
         /\ call[c].target = 0 => DOMAIN approvals' = DOMAIN approvals \cup {RowId(c)}
         /\ call[c].target # 0 => approvals' = approvals
         /\ RowId(c) # 0
         /\ \A e \in events : e.approval # RowId(c) /\ e.corrects # RowId(c)
<1>1. pc[c] = "commit"
  BY DEF Commit
<1>2. call[c] \in Call /\ call[c].row \in Row
  BY <1>1 DEF LedgerInv, TypeOK, Call
<1>3. lock[call[c].row.slug] = c /\ PendingCall(call[c])
  BY <1>1 DEF LedgerInv, Pending
<1>4. approvals \in Seq(Row) /\ Len(approvals) \in Nat
  BY DEF LedgerInv, TypeOK
<1>5. \A e \in events : e.approval \in DOMAIN approvals
  BY DEF LedgerInv, Faithful
<1>6. \A e \in events : e.corrects # 0 => Projected(e.corrects)
  BY DEF LedgerInv, Linked, Corrects, Projected
<1>7. CASE call[c].target = 0
  <2>1. approvals' = Append(approvals, call[c].row) /\ RowId(c) = Len(approvals) + 1
    BY <1>7 DEF Commit, RowId
  <2>2. /\ DOMAIN approvals' = DOMAIN approvals \cup {RowId(c)}
        /\ \A i \in DOMAIN approvals : approvals'[i] = approvals[i]
        /\ approvals'[RowId(c)] = call[c].row
        /\ RowId(c) \notin DOMAIN approvals /\ RowId(c) # 0
    BY <1>2, <1>4, <2>1
  <2> QED
    BY <1>2, <1>3, <1>5, <1>6, <1>7, <2>2 DEF Projected
<1>8. CASE call[c].target # 0
  <2>1. approvals' = approvals /\ RowId(c) = call[c].target
    BY <1>8 DEF Commit, RowId
  <2>2. RowId(c) \in DOMAIN approvals /\ approvals[RowId(c)] = call[c].row
    BY <1>1, <1>8, <2>1 DEF LedgerInv, Targeted, TargetedCall
  <2>3. ~ Projected(RowId(c))
    BY <1>3, <1>8, <2>1 DEF PendingCall
  <2>4. RowId(c) # 0
    BY <1>8, <2>1
  <2> QED
    BY <1>2, <1>3, <1>6, <1>8, <2>1, <2>2, <2>3, <2>4 DEF Projected
<1> QED
  BY <1>7, <1>8

\* What a publishing commit does to the heads: an approval becomes the only
\* head of its slug, an unpublication leaves none, other slugs keep theirs.
LEMMA CommitHeads ==
  ASSUME LedgerInv, NEW c \in Clients, Commit(c), call[c].row.decision # "reject",
         NEW s \in Slugs
  PROVE  /\ s # call[c].row.slug => Approved(s)' = Approved(s) /\ Heads(s)' = Heads(s)
         /\ s = call[c].row.slug /\ call[c].row.decision = "approve" =>
              /\ Approved(s)' = Approved(s) \cup {Projection(c)}
              /\ Heads(s)' = {Projection(c)}
              /\ \A e \in Approved(s) : e.ver < call[c].row.ver
         /\ s = call[c].row.slug /\ call[c].row.decision # "approve" =>
              /\ Approved(s)' = Approved(s)
              /\ Heads(s) # {}
              /\ Heads(s)' = {}
<1> DEFINE r == call[c].row
           x == Projection(c)
<1>1. events' = events \cup {x}
  BY DEF Commit
<1>2. /\ x.approval = RowId(c) /\ x.decision = r.decision /\ x.slug = r.slug
      /\ x.ver = r.ver /\ x.corrects = r.corrects
  BY DEF Projection
<1>3. PendingRow(r) /\ RowId(c) # 0
  BY CommitRow DEF PendingCall
<1>4. \A e \in events : e.approval # x.approval /\ e.corrects # x.approval
  <2>1. \A e \in events : e.approval # RowId(c) /\ e.corrects # RowId(c)
    BY CommitRow
  <2> QED
    BY <1>2, <2>1
<1>5. x.corrects # x.approval
  <2>1. r.corrects # 0 => \E p \in events : p.approval = r.corrects
    BY <1>3 DEF PendingRow, Corrects
  <2> QED
    BY <1>2, <1>3, <1>4, <2>1
<1>6. \A e, f \in events : e.approval = f.approval => e = f
  BY DEF LedgerInv, Faithful
<1> HIDE DEF x
<1>7. Approved(s)' = IF s = r.slug /\ r.decision = "approve"
                     THEN Approved(s) \cup {x} ELSE Approved(s)
  BY <1>1, <1>2 DEF Approved
<1>8. ASSUME s # r.slug
      PROVE  Heads(s)' = Heads(s)
  <2>1. \A e \in Approved(s) : e.approval # x.corrects
    <3>1. CASE r.corrects = 0
      <4>1. \A e \in events : e.approval # 0
        BY DEF LedgerInv, Faithful, TypeOK
      <4> QED
        BY <1>2, <3>1, <4>1 DEF Approved
    <3>2. CASE r.corrects # 0
      <4>1. PICK p \in events : Corrects(r.corrects, r.slug, p)
        BY <1>3, <3>2 DEF PendingRow
      <4> QED
        BY <1>2, <1>6, <1>8, <4>1 DEF Approved, Corrects
    <3> QED
      BY <3>1, <3>2
  <2> QED
    BY <1>1, <1>7, <1>8, <2>1 DEF Heads
<1>9. ASSUME s = r.slug, r.corrects # 0
      PROVE  \E p \in Heads(s) : Heads(s) = {p} /\ p.approval = x.corrects
  <2>1. PICK p \in events : Corrects(r.corrects, r.slug, p)
    BY <1>3, <1>9 DEF PendingRow
  <2>2. \A e \in events : e.corrects # r.corrects
    BY <1>3, <1>9 DEF PendingRow
  <2>3. p \in Heads(s)
    BY <1>9, <2>1, <2>2 DEF Corrects, Heads, Approved
  <2>4. \A e, f \in Heads(s) : e = f
    BY DEF LedgerInv, OneHead
  <2> QED
    BY <1>2, <2>1, <2>3, <2>4 DEF Corrects
<1>10. ASSUME s = r.slug, r.decision = "approve"
       PROVE  /\ Heads(s)' = {x}
              /\ \A e \in Approved(s) : e.ver < r.ver
  <2>1. x \in Heads(s)'
    BY <1>1, <1>2, <1>4, <1>5, <1>10 DEF Heads, Approved
  <2>2. \A e \in Heads(s) : \E f \in events' : f.corrects = e.approval
    <3>1. CASE r.corrects = 0
      BY <1>3, <1>10, <3>1 DEF PendingRow
    <3>2. CASE r.corrects # 0
      BY <1>1, <1>9, <1>10, <3>2
    <3> QED
      BY <3>1, <3>2
  <2>3. Heads(s)' \subseteq Heads(s) \cup {x}
    BY <1>1, <1>7 DEF Heads
  <2>4. \A e \in Approved(s) : e.ver < r.ver
    BY <1>3, <1>10 DEF PendingRow, ExceedsHistory
  <2>5. \A e \in Heads(s)' : e = x
    BY <2>2, <2>3 DEF Heads
  <2> QED
    BY <2>1, <2>4, <2>5
<1>11. ASSUME s = r.slug, r.decision # "approve"
       PROVE  Heads(s) # {} /\ Heads(s)' = {}
  <2>1. r.corrects # 0
    <3>1. r.decision = "unpublish"
      BY <1>11, CommitRow DEF Row, Decisions
    <3> QED
      BY <1>3, <3>1 DEF PendingRow
  <2>2. PICK p \in Heads(s) : Heads(s) = {p} /\ p.approval = x.corrects
    BY <1>9, <1>11, <2>1
  <2>3. Heads(s)' \subseteq Heads(s)
    BY <1>1, <1>7, <1>11 DEF Heads
  <2>4. p \notin Heads(s)'
    BY <1>1, <2>2 DEF Heads
  <2> QED
    BY <2>2, <2>3, <2>4
<1>12. CASE s # r.slug
  BY <1>7, <1>8, <1>12
<1>13. CASE s = r.slug /\ r.decision = "approve"
  BY <1>7, <1>10, <1>13 DEF x
<1>14. CASE s = r.slug /\ r.decision # "approve"
  BY <1>7, <1>11, <1>14
<1> QED
  BY <1>12, <1>13, <1>14

\* Recording a rejection appends a row and leaves the projection.
LEMMA CommitReject ==
  ASSUME LedgerInv, NEW c \in Clients, Commit(c), call[c].row.decision = "reject"
  PROVE  /\ events' = events
         /\ call[c].row.corrects = 0
         /\ \A s \in Slugs : Approved(s)' = Approved(s) /\ Heads(s)' = Heads(s)
<1>1. events' = events
  BY DEF Commit
<1>2. PendingCall(call[c])
  BY CommitRow
<1> QED
  BY <1>1, <1>2 DEF PendingCall, PendingRow, Approved, Heads

LEMMA CommitStep ==
  ASSUME LedgerInv, TypeOK', NEW c \in Clients, Commit(c)
  PROVE  LedgerInv'
<1> DEFINE r == call[c].row
           x == Projection(c)
           k == RowId(c)
<1>1. /\ call[c] \in Call /\ r \in Row /\ r.slug \in Slugs
      /\ lock[r.slug] = c /\ PendingCall(call[c]) /\ PendingRow(r)
  BY CommitRow DEF PendingCall, Row
<1>2. /\ DOMAIN approvals \subseteq DOMAIN approvals'
      /\ \A i \in DOMAIN approvals : approvals'[i] = approvals[i]
      /\ k \in DOMAIN approvals' /\ approvals'[k] = r
      /\ call[c].target = 0 => DOMAIN approvals' = DOMAIN approvals \cup {k}
      /\ call[c].target # 0 => approvals' = approvals
  BY CommitRow
<1>3. \A e \in events : e.approval # k /\ e.corrects # k
  BY CommitRow
<1>4. events' = IF r.decision = "reject" THEN events ELSE events \cup {x}
  BY DEF Commit
<1>5. /\ x.approval = k /\ x.decision = r.decision /\ x.slug = r.slug
      /\ x.ver = r.ver /\ x.corrects = r.corrects
  BY DEF Projection
<1>6. /\ \A d \in Clients \ {c} : pc'[d] = pc[d] /\ call'[d] = call[d]
      /\ pc'[c] = "idle"
      /\ \A s \in Slugs : lock[s] # c => lock'[s] = lock[s]
  BY <1>1 DEF Commit, Return, LedgerInv, TypeOK
<1> HIDE DEF x, k
<1>7. Faithful'
  <2>1. ASSUME NEW e \in events'
        PROVE  /\ e.approval \in DOMAIN approvals'
               /\ e.decision = approvals'[e.approval].decision
               /\ e.slug = approvals'[e.approval].slug
               /\ e.ver = approvals'[e.approval].ver
               /\ e.corrects = approvals'[e.approval].corrects
    <3>1. CASE e \in events
      BY <1>2, <3>1 DEF LedgerInv, Faithful
    <3>2. CASE e = x
      BY <1>2, <1>5, <3>2
    <3> QED
      BY <1>4, <3>1, <3>2
  <2>2. \A e, f \in events' : e.approval = f.approval => e = f
    BY <1>3, <1>4, <1>5 DEF LedgerInv, Faithful
  <2> QED
    BY <2>1, <2>2 DEF Faithful
<1>8. CorrectedOnce'
  <2>1. CASE call[c].target # 0
    BY <1>2, <2>1 DEF LedgerInv, CorrectedOnce
  <2>2. CASE call[c].target = 0
    <3>1. r.corrects # 0 => \A i \in DOMAIN approvals : approvals[i].corrects # r.corrects
      BY <1>1, <2>2 DEF PendingCall, RawCorrections
    <3> QED
      BY <1>2, <2>2, <3>1 DEF LedgerInv, CorrectedOnce
  <2> QED
    BY <2>1, <2>2
<1>9. Linked'
  BY <1>1, <1>4, <1>5 DEF LedgerInv, Linked, Corrects, PendingRow
<1>10. Targeted'
  <2> SUFFICES ASSUME NEW d \in Clients
               PROVE  TargetedCall(pc[d], call[d])'
    BY DEF Targeted
  <2>1. CASE d = c
    BY <1>6, <2>1 DEF TargetedCall
  <2>2. CASE d # c
    BY <1>2, <1>6, <2>2 DEF LedgerInv, Targeted, TargetedCall
  <2> QED
    BY <2>1, <2>2
<1>11. Pending'
  <2> SUFFICES ASSUME NEW d \in Clients, pc'[d] = "commit"
               PROVE  (lock[call[d].row.slug] = d /\ PendingCall(call[d]))'
    BY DEF Pending
  <2> DEFINE q == call[d].row
  <2>1. d # c /\ pc[d] = "commit" /\ call'[d] = call[d]
    BY <1>6
  <2>2. lock[q.slug] = d /\ PendingCall(call[d]) /\ call[d] \in Call /\ q \in Row
        /\ q.slug \in Slugs
    BY <2>1 DEF LedgerInv, TypeOK, Pending, Call, Row
  <2>3. q.slug # r.slug /\ lock'[q.slug] = d
    BY <1>1, <1>6, <2>1, <2>2
  <2>4. PICK s \in Slugs : /\ s = q.slug
                          /\ Approved(s)' = Approved(s) /\ Heads(s)' = Heads(s)
    <3>1. \A s \in Slugs : s # r.slug => Approved(s)' = Approved(s) /\ Heads(s)' = Heads(s)
      BY CommitHeads, CommitReject
    <3> QED
      BY <2>2, <2>3, <3>1
  <2>5. q.corrects # 0 => q.corrects # r.corrects
    <3>1. \A e, f \in events : e.approval = f.approval => e = f
      BY DEF LedgerInv, Faithful
    <3> QED
      BY <1>1, <2>2, <2>3, <3>1 DEF PendingCall, PendingRow, Corrects
  <2>6. PendingRow(q)'
    <3>1. (q.corrects # 0 => /\ \E p \in events : Corrects(q.corrects, q.slug, p)
                             /\ \A e \in events : e.corrects # q.corrects)'
      BY <1>4, <1>5, <2>1, <2>2, <2>5 DEF PendingCall, PendingRow, Corrects
    <3>2. call'[d].row = q /\ q.slug = s
      BY <2>1, <2>4
    <3> QED
      BY <2>2, <2>4, <3>1, <3>2 DEF PendingCall, PendingRow, ExceedsHistory, Heads, Approved
  <2>7. (call[d].target = 0 /\ q.corrects # 0 => RawCorrections(q.corrects) = {})'
    BY <1>2, <2>1, <2>2, <2>5 DEF PendingCall, RawCorrections
  <2>8. (call[d].target # 0 => ~ Projected(call[d].target) /\ q.decision # "reject")'
    <3>1. ASSUME call[d].target # 0
          PROVE  call[d].target # k
      <4>1. call[d].target \in DOMAIN approvals /\ approvals[call[d].target] = q
        BY <2>1, <3>1 DEF LedgerInv, Targeted, TargetedCall
      <4>2. approvals'[call[d].target] = q
        BY <1>2, <4>1
      <4> QED
        BY <1>2, <2>3, <4>2
    <3> QED
      BY <1>4, <1>5, <2>1, <2>2, <3>1 DEF PendingCall, Projected
  <2> QED
    BY <2>1, <2>3, <2>6, <2>7, <2>8 DEF PendingCall
<1>12. OneHead' /\ HeadIsNewest'
  <2> SUFFICES ASSUME NEW s \in Slugs
               PROVE  /\ \A e, f \in Heads(s)' : e = f
                      /\ \A e \in Heads(s)', f \in Approved(s)' : f # e => f.ver < e.ver
    BY DEF OneHead, HeadIsNewest
  <2>1. CASE Approved(s)' = Approved(s) /\ Heads(s)' = Heads(s)
    BY <2>1 DEF LedgerInv, OneHead, HeadIsNewest
  <2>2. CASE Heads(s)' = {}
    BY <2>2
  <2>3. CASE /\ Approved(s)' = Approved(s) \cup {x}
             /\ Heads(s)' = {x}
             /\ \A e \in Approved(s) : e.ver < r.ver
    BY <1>5, <2>3
  <2> QED
    BY <2>1, <2>2, <2>3, CommitHeads, CommitReject DEF x
<1> QED
  BY <1>7, <1>8, <1>9, <1>10, <1>11, <1>12 DEF LedgerInv

-----------------------------------------------------------------------------
(* The steps that write nothing.                                           *)

LEMMA BeginStep ==
  ASSUME LedgerInv, TypeOK', UNCHANGED <<approvals, events, lock>>, NEW c \in Clients,
         NEW phase \in {"checked", "append", "activate"}, NEW row, NEW target,
         Begin(c, phase, row, target),
         TargetedCall(phase, [row |-> row, target |-> target, threshold |-> 0, at |-> 0])
  PROVE  LedgerInv'
<1>1. /\ pc'[c] = phase
      /\ call'[c] = [row |-> row, target |-> target, threshold |-> 0, at |-> 0]
      /\ \A d \in Clients \ {c} : pc'[d] = pc[d] /\ call'[d] = call[d]
  BY DEF Begin, LedgerInv, TypeOK
<1>2. TargetedCall(pc'[c], call'[c])
  BY <1>1
<1> QED
  BY <1>1, <1>2, CallerMoves DEF ledger

LEMMA ReturnStep ==
  ASSUME LedgerInv, TypeOK', UNCHANGED <<approvals, events>>, NEW c \in Clients, Return(c),
         \A s \in Slugs : lock[s] # c => lock'[s] = lock[s]
  PROVE  LedgerInv'
<1>1. /\ pc'[c] = "idle"
      /\ \A d \in Clients \ {c} : pc'[d] = pc[d] /\ call'[d] = call[d]
  BY DEF Return, LedgerInv, TypeOK
<1>2. TargetedCall(pc'[c], call'[c])
  BY <1>1 DEF TargetedCall
<1> QED
  BY <1>1, <1>2, CallerMoves DEF ledger

LEMMA StartStep ==
  ASSUME LedgerInv, TypeOK', NEW c \in Clients, Start(c)
  PROVE  LedgerInv'
<1>1. ASSUME NEW s \in Slugs, NEW v \in Versions, NEW by \in Signers,
             NEW n \in DOMAIN lineage[s], ApproveCheck(c, s, v, n, by)
      PROVE  LedgerInv'
  <2> DEFINE r == [decision |-> "approve", slug |-> s, ver |-> v, content |-> n,
                   by |-> by, corrects |-> 0, ts |-> 0, via |-> "actuator"]
  <2>1. Begin(c, "checked", r, 0) /\ UNCHANGED <<approvals, events, lock>>
    BY <1>1 DEF ApproveCheck
  <2>2. TargetedCall("checked", [row |-> r, target |-> 0, threshold |-> 0, at |-> 0])
    BY DEF TargetedCall
  <2> HIDE DEF r
  <2> QED
    BY <2>1, <2>2, BeginStep
<1>2. ASSUME NEW s \in Slugs, NEW v \in Versions, NEW by \in Signers,
             NEW n \in DOMAIN lineage[s], RejectCheck(c, s, v, n, by)
      PROVE  LedgerInv'
  <2> DEFINE r == [decision |-> "reject", slug |-> s, ver |-> v, content |-> n,
                   by |-> by, corrects |-> 0, ts |-> now + Skew[c],
                   via |-> "actuator"]
  <2>1. Begin(c, "append", r, 0) /\ UNCHANGED <<approvals, events, lock>>
    BY <1>2 DEF RejectCheck
  <2>2. TargetedCall("append", [row |-> r, target |-> 0, threshold |-> 0, at |-> 0])
    BY DEF TargetedCall
  <2> HIDE DEF r
  <2> QED
    BY <2>1, <2>2, BeginStep
<1>3. ASSUME NEW i \in DOMAIN approvals, NEW by \in Signers, UnpublishCheck(c, i, by)
      PROVE  LedgerInv'
  <2>1. UNCHANGED <<approvals, events, lock>> /\ approvals[i] \in Row
    BY <1>3 DEF UnpublishCheck, LedgerInv, TypeOK
  <2> DEFINE r == [approvals[i] EXCEPT !.decision = "unpublish", !.by = by,
                                       !.corrects = i, !.via = "actuator",
                                       !.ts = now + Skew[c]]
  <2>2. CASE Begin(c, "append", r, 0)
    <3>1. r.decision = "unpublish"
      BY <2>1 DEF Row
    <3> HIDE DEF r
    <3>2. TargetedCall("append", [row |-> r, target |-> 0, threshold |-> 0, at |-> 0])
      BY <3>1 DEF TargetedCall
    <3> QED
      BY <2>1, <2>2, <3>2, BeginStep
  <2>3. ASSUME NEW j \in RawCorrections(i), Begin(c, "activate", approvals[j], j)
        PROVE  LedgerInv'
    <3>1. TargetedCall("activate", [row |-> approvals[j], target |-> j,
                                    threshold |-> 0, at |-> 0])
      BY DEF TargetedCall, RawCorrections, LedgerInv, TypeOK
    <3> QED
      BY <2>1, <2>3, <3>1, BeginStep
  <2> QED
    BY <1>3, <2>2, <2>3 DEF UnpublishCheck
<1>4. ASSUME NEW i \in DOMAIN approvals, ActivateRequest(c, i)
      PROVE  LedgerInv'
  <2>1. Begin(c, "activate", approvals[i], i) /\ UNCHANGED <<approvals, events, lock>>
    BY <1>4 DEF ActivateRequest
  <2>2. TargetedCall("activate", [row |-> approvals[i], target |-> i,
                                  threshold |-> 0, at |-> 0])
    BY DEF TargetedCall, LedgerInv, TypeOK
  <2> QED
    BY <2>1, <2>2, BeginStep
<1> QED
  BY <1>1, <1>2, <1>3, <1>4 DEF Start

LEMMA ReconcileStep ==
  ASSUME LedgerInv, TypeOK', NEW c \in Clients, ApproveReconcile(c)
  PROVE  LedgerInv'
<1> DEFINE r == call[c].row
           heads == {e.approval : e \in ActiveBySlug(r.slug)}
<1>1. pc[c] = "checked" /\ UNCHANGED <<approvals, events, lock>>
  BY DEF ApproveReconcile
<1>2. CASE Return(c)
  BY <1>1, <1>2, ReturnStep
<1>3. ASSUME NEW k \in IF heads = {} THEN {0} ELSE heads,
             pc' = [pc EXCEPT ![c] = "append"],
             call' = [call EXCEPT ![c].row = [r EXCEPT !.corrects = k,
                                                       !.ts = now + Skew[c]]]
      PROVE  LedgerInv'
  <2>1. call[c] \in Call /\ r \in Row
    BY <1>1 DEF LedgerInv, TypeOK, Call
  <2>2. call[c].target = 0
    BY <1>1 DEF LedgerInv, Targeted, TargetedCall
  <2>3. pc[c] = "checked" /\ r.decision = "approve"
    BY <1>1 DEF LedgerInv, Targeted, TargetedCall
  <2>4. /\ pc'[c] = "append"
        /\ call'[c].target = 0 /\ call'[c].row.decision = "approve"
        /\ \A d \in Clients \ {c} : pc'[d] = pc[d] /\ call'[d] = call[d]
    BY <1>3, <2>1, <2>2, <2>3 DEF LedgerInv, TypeOK, Call, Row
  <2>5. TargetedCall(pc'[c], call'[c])
    BY <2>4 DEF TargetedCall
  <2> QED
    BY <1>1, <2>4, <2>5, CallerMoves DEF ledger
<1> QED
  BY <1>2, <1>3 DEF ApproveReconcile

\* What activation checks is what its transaction relies on until it commits.
LEMMA ActivableRow ==
  ASSUME NEW r, NEW limit, Activable(r, limit)
  PROVE  PendingRow(r) /\ r.decision # "reject"
<1>1. r.corrects # 0 => \E p \in events : Corrects(r.corrects, r.slug, p)
  BY DEF Activable, ProjectionValid, CorrectsPublication, Corrects
<1> QED
  BY <1>1 DEF Activable, ProjectionValid, HeadFree, PendingRow

LEMMA AppendStep ==
  ASSUME LedgerInv, TypeOK', NEW c \in Clients, AppendBegin(c)
  PROVE  LedgerInv'
<1> DEFINE r == call[c].row
<1>1. /\ pc[c] = "append" /\ lock[r.slug] = NoClient
      /\ UNCHANGED <<approvals, events>>
  BY DEF AppendBegin
<1>2. CASE Return(c) /\ UNCHANGED lock
  BY <1>1, <1>2, ReturnStep
<1>3. CASE /\ ~ Twin(r)
           /\ r.corrects # 0 => RawCorrections(r.corrects) = {}
           /\ r.decision # "reject" => Activable(r, threshold)
           /\ lock' = [lock EXCEPT ![r.slug] = c]
           /\ pc' = [pc EXCEPT ![c] = "commit"]
           /\ call' = [call EXCEPT ![c].threshold = threshold,
                                   ![c].at = Later(now, r.ts)]
  <2>1. call[c] \in Call /\ r \in Row /\ r.slug \in Slugs
    BY <1>1 DEF LedgerInv, TypeOK, Call, Row
  <2>2. call[c].target = 0 /\ (r.decision = "reject" => r.corrects = 0)
    BY <1>1 DEF LedgerInv, Targeted, TargetedCall
  <2>3. PendingRow(r)
    <3>1. CASE r.decision = "reject"
      BY <2>2, <3>1 DEF PendingRow
    <3>2. CASE r.decision # "reject"
      BY <1>3, <3>2, ActivableRow
    <3> QED
      BY <3>1, <3>2
  <2>4. /\ pc'[c] = "commit" /\ call'[c].row = r /\ call'[c].target = 0
        /\ lock'[r.slug] = c
        /\ \A s \in Slugs : s # r.slug => lock'[s] = lock[s]
        /\ \A d \in Clients \ {c} : pc'[d] = pc[d] /\ call'[d] = call[d]
    BY <1>3, <2>1, <2>2 DEF LedgerInv, TypeOK, Call
  <2>5. TargetedCall(pc'[c], call'[c])
    BY <2>4 DEF TargetedCall
  <2>6. PendingCall(call'[c])
    BY <1>3, <2>3, <2>4 DEF PendingCall
  <2> QED
    BY <1>1, <2>4, <2>5, <2>6, CallerMoves DEF ledger
<1> QED
  BY <1>2, <1>3 DEF AppendBegin

LEMMA ShareStep ==
  ASSUME LedgerInv, TypeOK', NEW c \in Clients, ActivateShare(c)
  PROVE  LedgerInv'
<1>1. pc[c] = "activate" /\ UNCHANGED <<approvals, events, lock>>
  BY DEF ActivateShare
<1>2. CASE Return(c)
  BY <1>1, <1>2, ReturnStep
<1>3. CASE /\ pc' = [pc EXCEPT ![c] = "sharing"]
           /\ call' = [call EXCEPT ![c].threshold = threshold]
  <2>1. call[c] \in Call
    BY <1>1 DEF LedgerInv, TypeOK
  <2>2. TargetedCall("activate", call[c])
    BY <1>1 DEF LedgerInv, Targeted
  <2>3. /\ pc'[c] = "sharing"
        /\ call'[c].row = call[c].row /\ call'[c].target = call[c].target
        /\ \A d \in Clients \ {c} : pc'[d] = pc[d] /\ call'[d] = call[d]
    BY <1>3, <2>1 DEF LedgerInv, TypeOK, Call
  <2>4. TargetedCall(pc'[c], call'[c])
    BY <2>2, <2>3 DEF TargetedCall
  <2> QED
    BY <1>1, <2>3, <2>4, CallerMoves DEF ledger
<1> QED
  BY <1>2, <1>3 DEF ActivateShare

LEMMA ActivateStep ==
  ASSUME LedgerInv, TypeOK', NEW c \in Clients, ActivateBegin(c)
  PROVE  LedgerInv'
<1> DEFINE r == call[c].row
<1>1. /\ pc[c] = "sharing" /\ lock[r.slug] = NoClient
      /\ UNCHANGED <<approvals, events>>
  BY DEF ActivateBegin
<1>2. CASE Return(c) /\ UNCHANGED lock
  BY <1>1, <1>2, ReturnStep
<1>3. CASE /\ ~ Projected(call[c].target) /\ Activable(r, call[c].threshold)
           /\ lock' = [lock EXCEPT ![r.slug] = c]
           /\ pc' = [pc EXCEPT ![c] = "commit"]
           /\ call' = [call EXCEPT ![c].at = Later(now, r.ts)]
  <2>1. call[c] \in Call /\ r \in Row /\ r.slug \in Slugs
    BY <1>1 DEF LedgerInv, TypeOK, Call, Row
  <2>2. call[c].target # 0 /\ TargetedCall("sharing", call[c])
    BY <1>1 DEF LedgerInv, Targeted, TargetedCall
  <2>3. PendingRow(r) /\ r.decision # "reject"
    BY <1>3, ActivableRow
  <2>4. /\ pc'[c] = "commit" /\ call'[c].row = r /\ call'[c].target = call[c].target
        /\ lock'[r.slug] = c
        /\ \A s \in Slugs : s # r.slug => lock'[s] = lock[s]
        /\ \A d \in Clients \ {c} : pc'[d] = pc[d] /\ call'[d] = call[d]
    BY <1>3, <2>1 DEF LedgerInv, TypeOK, Call
  <2>5. TargetedCall(pc'[c], call'[c])
    BY <2>2, <2>4 DEF TargetedCall
  <2>6. PendingCall(call'[c])
    BY <1>3, <2>2, <2>3, <2>4 DEF PendingCall
  <2> QED
    BY <1>1, <2>4, <2>5, <2>6, CallerMoves DEF ledger
<1> QED
  BY <1>2, <1>3 DEF ActivateBegin

\* A rollback frees the locks of the caller that died and no other.
LEMMA CrashStep ==
  ASSUME LedgerInv, TypeOK', NEW c \in Clients, Crash(c)
  PROVE  LedgerInv'
BY ReturnStep DEF Crash

-----------------------------------------------------------------------------
(* The invariant, and what follows from it.                                *)

\* Steps that write neither the ledger nor a lock nor a call.
LEMMA OutsideStep ==
  ASSUME LedgerInv, TypeOK', UNCHANGED <<approvals, events, lock, pc, call>>
  PROVE  LedgerInv'
<1>1. Targeted'
  BY DEF LedgerInv, Targeted, TargetedCall
<1>2. Pending'
  BY DEF LedgerInv, Pending, PendingCall, PendingRow, ExceedsHistory, Heads, Approved,
         Corrects, RawCorrections, Projected
<1> QED
  BY <1>1, <1>2, LedgerAlone DEF LedgerInv, ledger

LEMMA LedgerNext ==
  ASSUME LedgerInv, [Next]_vars
  PROVE  LedgerInv'
<1>1. TypeOK'
  BY TypeNext DEF LedgerInv
<1>2. CASE Environment
  <2>1. CASE UNCHANGED <<approvals, events, lock, pc, call>>
    BY <1>1, <2>1, OutsideStep
  <2>2. ASSUME NEW d \in Decisions, NEW s \in Slugs, NEW v \in Versions,
               NEW by \in Signers, NEW n \in DOMAIN lineage[s],
               NEW corrects \in 0 .. Len(approvals),
               Import([decision |-> d, slug |-> s, ver |-> v, content |-> n, by |-> by,
                       corrects |-> corrects, ts |-> now, via |-> "raw"])
        PROVE  LedgerInv'
    <3>1. [decision |-> d, slug |-> s, ver |-> v, content |-> n, by |-> by,
           corrects |-> corrects, ts |-> now, via |-> "raw"] \in Row
      BY DEF LedgerInv, TypeOK, Row
    <3> QED
      BY <1>1, <2>2, <3>1, ImportStep
  <2> QED
    BY <1>2, <2>1, <2>2
    DEF Environment, SecurityAggregate, ContentRound, ConfigurePolicy, Tick
<1>3. ASSUME NEW c \in Clients, Start(c) \/ Progress(c) \/ Crash(c)
      PROVE  LedgerInv'
  BY <1>1, <1>3, StartStep, ReconcileStep, AppendStep, ShareStep, ActivateStep,
     CommitStep, CrashStep
  DEF Progress
<1>4. CASE UNCHANGED vars
  BY <1>1, <1>4, OutsideStep DEF vars
<1> QED
  BY <1>2, <1>3, <1>4 DEF Next

\* The ledger invariant holds in every reachable state, for any number of
\* concurrent callers and raw rows and any skew of the callers' clocks.
THEOREM LedgerCorrect == Spec => []LedgerInv
BY LedgerInit, LedgerNext, PTL DEF Spec

\* No interleaving of decisions, activations, imports and crashes leaves a slug
\* two uncorrected approvals.
THEOREM SingleHead == Spec => []OneHead
<1>1. LedgerInv => OneHead
  BY DEF LedgerInv
<1> QED
  BY <1>1, LedgerCorrect, PTL

\* A superseded or withdrawn version is never what a slug shows.
THEOREM NewestHead == Spec => []HeadIsNewest
<1>1. LedgerInv => HeadIsNewest
  BY DEF LedgerInv
<1> QED
  BY <1>1, LedgerCorrect, PTL

\* No published version is corrected twice.
THEOREM SingleCorrection == Spec => []OneCorrection
<1>1. LedgerInv => OneCorrection
  <2> SUFFICES ASSUME LedgerInv, NEW e \in events, NEW f \in events,
                      e.corrects # 0, e.corrects = f.corrects
               PROVE  e = f
    BY DEF OneCorrection
  <2>1. /\ e.approval \in DOMAIN approvals /\ f.approval \in DOMAIN approvals
        /\ approvals[e.approval].corrects = approvals[f.approval].corrects
        /\ approvals[e.approval].corrects # 0
    BY DEF LedgerInv, Faithful
  <2>2. e.approval = f.approval
    BY <2>1 DEF LedgerInv, CorrectedOnce
  <2> QED
    BY <2>2 DEF LedgerInv, Faithful
<1> QED
  BY <1>1, LedgerCorrect, PTL

-----------------------------------------------------------------------------
(* Refinement.                                                             *)

\* The projection moves only when a publishing transaction commits.
LEMMA EventsMove ==
  ASSUME [Next]_vars, \A c \in Clients : ~ Commit(c)
  PROVE  UNCHANGED events
<1>1. Environment => UNCHANGED events
  <2>1. \A r : Import(r) => UNCHANGED events
    BY DEF Import
  <2> QED
    BY <2>1 DEF Environment, SecurityAggregate, ContentRound, ConfigurePolicy, Tick
<1>2. \A c \in Clients : Start(c) => UNCHANGED events
  <2>1. \A c, s, v, n, by : ApproveCheck(c, s, v, n, by) \/ RejectCheck(c, s, v, n, by)
                           => UNCHANGED events
    BY DEF ApproveCheck, RejectCheck
  <2>2. \A c, i, by : UnpublishCheck(c, i, by) \/ ActivateRequest(c, i) => UNCHANGED events
    BY DEF UnpublishCheck, ActivateRequest
  <2> QED
    BY <2>1, <2>2 DEF Start
<1>3. \A c \in Clients : Progress(c) \/ Crash(c) => UNCHANGED events
  BY DEF Progress, ApproveReconcile, AppendBegin, ActivateShare, ActivateBegin, Crash
<1> QED
  BY <1>1, <1>2, <1>3 DEF Next, vars

\* A decision takes effect only on the head its caller read.
THEOREM TakesEffect == Spec => TakesEffectOnHeadRead
<1>1. ASSUME LedgerInv, [Next]_vars PROVE EffectOnHeadRead
  <2> SUFFICES ASSUME NEW s \in Slugs, Heads(s)' # Heads(s)
               PROVE  \E c \in Clients :
                        /\ pc[c] = "commit"
                        /\ call[c].row.slug = s
                        /\ {e.approval : e \in Heads(s)} = {call[c].row.corrects} \ {0}
    BY DEF EffectOnHeadRead
  <2>1. ~ UNCHANGED events
    BY DEF Heads, Approved
  <2>2. PICK c \in Clients : Commit(c)
    BY <1>1, <2>1, EventsMove
  <2>3. call[c].row.decision # "reject" /\ call[c].row.slug = s
    BY <1>1, <2>2, CommitReject, CommitHeads
  <2>4. pc[c] = "commit" /\ PendingRow(call[c].row) /\ call[c].row \in Row
    BY <1>1, <2>2, CommitRow DEF Commit, PendingCall
  <2>5. {e.approval : e \in Heads(s)} = {call[c].row.corrects} \ {0}
    <3>1. CASE call[c].row.corrects = 0
      <4>1. Heads(s) = {}
        BY <2>3, <2>4, <3>1 DEF PendingRow, Row, Decisions
      <4> QED
        BY <3>1, <4>1
    <3>2. CASE call[c].row.corrects # 0
      <4>1. PICK p \in events : Corrects(call[c].row.corrects, s, p)
        BY <2>3, <2>4, <3>2 DEF PendingRow
      <4>2. p \in Heads(s) /\ p.approval = call[c].row.corrects
        BY <2>4, <3>2, <4>1 DEF PendingRow, Corrects, Heads, Approved
      <4>3. \A e \in Heads(s) : e = p
        BY <1>1, <4>2 DEF LedgerInv, OneHead
      <4> QED
        BY <3>2, <4>2, <4>3
    <3> QED
      BY <3>1, <3>2
  <2> QED
    BY <2>3, <2>4, <2>5
<1> QED
  BY <1>1, LedgerCorrect, PTL DEF Spec, TakesEffectOnHeadRead

\* The catalog's variables move with the heads and the approvals of the slugs.
LEMMA CatalogMoves ==
  ASSUME \A s \in Slugs : Heads(s)' = Heads(s) /\ Approved(s)' = Approved(s)
  PROVE  UNCHANGED <<Live, Released>>
<1>1. Live' = Live
  BY DEF Live
<1>2. Released' = Released
  BY DEF Released
<1> QED
  BY <1>1, <1>2

\* A publishing commit is a step of the catalog.
LEMMA CommitRefines ==
  ASSUME LedgerInv, NEW c \in Clients, Commit(c)
  PROVE  [C!CatalogNext]_<<Live, Released>>
<1> DEFINE r == call[c].row
           x == Projection(c)
<1>1. r \in Row /\ r.slug \in Slugs /\ r.ver \in 1 .. MaxVersion
  BY CommitRow DEF Row, Versions
<1>2. CASE r.decision = "reject"
  BY <1>2, CommitReject, CatalogMoves
<1>3. CASE r.decision = "approve"
  <2>1. PICK s \in Slugs : s = r.slug
    BY <1>1
  <2>2. \A u \in Slugs : u # s => Approved(u)' = Approved(u) /\ Heads(u)' = Heads(u)
    BY <1>3, <2>1, CommitHeads
  <2>3. /\ Approved(s)' = Approved(s) \cup {x}
        /\ Heads(s)' = {x}
        /\ \A e \in Approved(s) : e.ver < r.ver
    BY <1>3, <2>1, CommitHeads
  <2>4. x.ver = r.ver
    BY DEF Projection
  <2> HIDE DEF x
  <2>5. PICK v \in 1 .. MaxVersion : v = r.ver
    BY <1>1
  <2>6. \A u \in Released[s] : u < v
    BY <2>3, <2>5 DEF Released
  <2>7. Live' = [Live EXCEPT ![s] = {v}]
    BY <2>2, <2>3, <2>4, <2>5 DEF Live
  <2>8. Released' = [Released EXCEPT ![s] = @ \cup {v}]
    BY <2>2, <2>3, <2>4, <2>5 DEF Released
  <2> QED
    BY <2>6, <2>7, <2>8 DEF C!CatalogNext, C!Release
<1>4. CASE r.decision = "unpublish"
  <2>1. PICK s \in Slugs : s = r.slug
    BY <1>1
  <2>2. \A u \in Slugs : u # s => Approved(u)' = Approved(u) /\ Heads(u)' = Heads(u)
    BY <1>4, <2>1, CommitHeads
  <2>3. Approved(s)' = Approved(s) /\ Heads(s) # {} /\ Heads(s)' = {}
    BY <1>4, <2>1, CommitHeads
  <2>4. Live' = [Live EXCEPT ![s] = {}]
    BY <2>2, <2>3 DEF Live
  <2>5. Released' = Released
    BY <2>2, <2>3 DEF Released
  <2>6. Live[s] # {}
    BY <2>3 DEF Live
  <2> QED
    BY <2>4, <2>5, <2>6 DEF C!CatalogNext, C!Withdraw
<1> QED
  BY <1>1, <1>2, <1>3, <1>4 DEF Row, Decisions

\* The ledger implements the catalog: whatever is interleaved, a slug shows at
\* most one version, and never one that is not newer than all it showed before.
THEOREM Refinement == Spec => ImplementsCatalog
<1>1. Init => C!CatalogInit
  <2> SUFFICES ASSUME Init PROVE C!CatalogInit
    OBVIOUS
  <2>1. \A s \in Slugs : Approved(s) = {} /\ Heads(s) = {}
    BY DEF Init, Approved, Heads
  <2> QED
    BY <2>1 DEF C!CatalogInit, Live, Released
<1>2. LedgerInv /\ [Next]_vars => [C!CatalogNext]_<<Live, Released>>
  <2> SUFFICES ASSUME LedgerInv, [Next]_vars
               PROVE  [C!CatalogNext]_<<Live, Released>>
    OBVIOUS
  <2>1. CASE \E c \in Clients : Commit(c)
    BY <2>1, CommitRefines
  <2>2. CASE \A c \in Clients : ~ Commit(c)
    <3>1. UNCHANGED events
      BY <2>2, EventsMove
    <3>2. \A s \in Slugs : Heads(s)' = Heads(s) /\ Approved(s)' = Approved(s)
      BY <3>1 DEF Heads, Approved
    <3> QED
      BY <3>2, CatalogMoves
  <2> QED
    BY <2>1, <2>2
<1> QED
  BY <1>1, <1>2, LedgerCorrect, PTL
  DEF Spec, ImplementsCatalog, C!CatalogSpec, C!catalogVars

-----------------------------------------------------------------------------
(* What the projection says of evidence, policy and time, and that a        *)
(* decision is recorded once, for any number of skills, callers, rows and   *)
(* thresholds, and any skew of the callers' clocks.                         *)

\* The evidence that a row cites meets a threshold.
Vouched(r, limit) ==
  /\ r.content \in DOMAIN lineage[r.slug]
  /\ lineage[r.slug][r.content] = [ver |-> r.ver, ok |-> TRUE]
  /\ aggregate[r.slug][r.ver] >= Later(MinApprovalSafety, limit)

\* Every projected row, an unpublication too, is vouched for.
EventsVouched == \A e \in events : Vouched(approvals[e.approval], e.threshold)

\* A projection is recorded no later than now, unless its caller's clock ran ahead.
Dated == \A e \in events : e.at <= Later(now, approvals[e.approval].ts)

\* What a transaction that holds the policy row relies on until it commits.
EvidenceCall(phase, k) ==
  /\ phase = "sharing" => k.threshold = threshold
  /\ phase = "commit" /\ k.row.decision # "reject" =>
       /\ k.threshold = threshold
       /\ Vouched(k.row, k.threshold)
       /\ k.at <= Later(now, k.row.ts)
       /\ \A e \in events : e.approval = k.row.corrects => e.at <= k.at

EvidenceInv ==
  /\ EventsVouched
  /\ CorrectionsInOrder
  /\ Dated
  /\ \A c \in Clients : EvidenceCall(pc[c], call[c])

\* Evidence is only added: rounds stay, aggregates improve, time goes on.
Grows ==
  /\ \A s \in Slugs : \A n \in DOMAIN lineage[s] :
       n \in DOMAIN lineage'[s] /\ lineage'[s][n] = lineage[s][n]
  /\ \A s \in Slugs, v \in Versions : aggregate[s][v] <= aggregate'[s][v]
  /\ now <= now'
  /\ \A i \in DOMAIN approvals : i \in DOMAIN approvals' /\ approvals'[i] = approvals[i]

\* Mutual order of two times.
LEMMA LaterFact ==
  ASSUME NEW t \in Nat, NEW u \in Nat
  PROVE  /\ Later(t, u) \in Nat /\ t <= Later(t, u) /\ u <= Later(t, u)
         /\ \A w \in Nat : w <= Later(t, u) => w <= t \/ w <= u
BY DEF Later

\* Evidence that was good enough stays so.
LEMMA VouchedKept ==
  ASSUME TypeOK, TypeOK', Grows, NEW r \in Row, NEW limit \in Nat, Vouched(r, limit)
  PROVE  /\ r.content \in DOMAIN lineage'[r.slug]
         /\ lineage'[r.slug][r.content] = [ver |-> r.ver, ok |-> TRUE]
         /\ aggregate'[r.slug][r.ver] >= Later(MinApprovalSafety, limit)
<1>1. r.slug \in Slugs /\ r.ver \in Versions
  BY DEF Row
<1>2. /\ aggregate[r.slug][r.ver] \in Nat /\ aggregate'[r.slug][r.ver] \in Nat
      /\ aggregate[r.slug][r.ver] <= aggregate'[r.slug][r.ver]
  BY <1>1 DEF TypeOK, Grows
<1>3. Later(MinApprovalSafety, limit) \in Nat
  BY LaterFact DEF MinApprovalSafety
<1> QED
  BY <1>1, <1>2, <1>3 DEF Vouched, Grows

\* The fields of a projection row and of its approval.
LEMMA EventFields ==
  ASSUME LedgerInv, NEW e \in events
  PROVE  /\ e.approval \in DOMAIN approvals /\ e.approval # 0
         /\ approvals[e.approval] \in Row /\ approvals[e.approval].ts \in Nat
         /\ e.at \in Nat /\ e.threshold \in Nat
<1>1. e.approval \in DOMAIN approvals
  BY DEF LedgerInv, Faithful
<1>2. approvals[e.approval] \in Row /\ e.approval # 0
  BY <1>1 DEF LedgerInv, TypeOK
<1>3. e \in Event
  BY DEF LedgerInv, TypeOK
<1> QED
  BY <1>1, <1>2, <1>3 DEF Event, Row

\* A step that projects nothing: callers stay where they are, with the policy
\* they hold unchanged, or move to a place that the invariant allows.
LEMMA EvidenceMoves ==
  ASSUME LedgerInv, EvidenceInv, TypeOK', UNCHANGED events, Grows,
         \A d \in Clients :
           \/ /\ pc'[d] = pc[d] /\ call'[d] = call[d]
              /\ Sharing(d) => threshold' = threshold
           \/ EvidenceCall(pc[d], call[d])'
  PROVE  EvidenceInv'
<1>1. EventsVouched'
  <2> SUFFICES ASSUME NEW e \in events
               PROVE  Vouched(approvals[e.approval], e.threshold)'
    BY DEF EventsVouched
  <2>1. PICK r \in Row : r = approvals[e.approval]
    BY EventFields
  <2>2. Vouched(r, e.threshold) /\ e.threshold \in Nat
    BY <2>1, EventFields DEF EvidenceInv, EventsVouched
  <2>3. approvals'[e.approval] = r
    BY <2>1, EventFields DEF Grows
  <2> QED
    BY <2>2, <2>3, VouchedKept DEF Vouched, LedgerInv
<1>2. CorrectionsInOrder'
  BY DEF EvidenceInv, CorrectionsInOrder
<1>3. Dated'
  <2> SUFFICES ASSUME NEW e \in events
               PROVE  e.at <= Later(now', approvals'[e.approval].ts)
    BY DEF Dated
  <2>1. PICK t \in Nat : t = approvals[e.approval].ts
    BY EventFields
  <2>2. e.at \in Nat /\ e.at <= Later(now, t) /\ approvals'[e.approval].ts = t
    BY <2>1, EventFields DEF EvidenceInv, Dated, Grows
  <2>3. now \in Nat /\ now' \in Nat /\ now <= now'
    BY DEF LedgerInv, TypeOK, Grows
  <2> QED
    BY <2>2, <2>3 DEF Later
<1>4. ASSUME NEW d \in Clients
      PROVE  EvidenceCall(pc[d], call[d])'
  <2>1. CASE /\ pc'[d] = pc[d] /\ call'[d] = call[d]
             /\ Sharing(d) => threshold' = threshold
    <3>1. EvidenceCall(pc[d], call[d])
      BY DEF EvidenceInv
    <3>2. CASE pc[d] = "sharing"
      BY <2>1, <3>1, <3>2 DEF EvidenceCall, Sharing
    <3>3. CASE pc[d] = "commit" /\ call[d].row.decision # "reject"
      <4>1. call[d] \in Call
        BY <3>3 DEF LedgerInv, TypeOK
      <4>2. PICK k \in Call : k = call[d]
        BY <4>1
      <4>3. k.row \in Row /\ k.row.ts \in Nat /\ k.at \in Nat /\ k.threshold \in Nat
        BY DEF Call, Row
      <4>4. /\ k.threshold = threshold /\ Vouched(k.row, k.threshold)
            /\ k.at <= Later(now, k.row.ts)
            /\ \A e \in events : e.approval = k.row.corrects => e.at <= k.at
        BY <3>1, <3>3, <4>2 DEF EvidenceCall
      <4>5. threshold' = threshold /\ call'[d] = k
        BY <2>1, <3>3, <4>2 DEF Sharing
      <4>6. Vouched(k.row, k.threshold)'
        BY <4>3, <4>4, VouchedKept DEF Vouched, LedgerInv
      <4>7. k.at <= Later(now', k.row.ts)
        <5>1. now \in Nat /\ now' \in Nat /\ now <= now'
          BY DEF LedgerInv, TypeOK, Grows
        <5> QED
          BY <4>3, <4>4, <5>1 DEF Later
      <4> QED
        BY <2>1, <3>3, <4>4, <4>5, <4>6, <4>7 DEF EvidenceCall
    <3>4. CASE pc[d] # "sharing" /\ ~ (pc[d] = "commit" /\ call[d].row.decision # "reject")
      BY <2>1, <3>4 DEF EvidenceCall
    <3> QED
      BY <3>2, <3>3, <3>4
  <2> QED
    BY <2>1
<1> QED
  BY <1>1, <1>2, <1>3, <1>4 DEF EvidenceInv

-----------------------------------------------------------------------------
(* The steps.                                                              *)

LEMMA EvidenceInit == Init => EvidenceInv
<1> SUFFICES ASSUME Init PROVE EvidenceInv
  OBVIOUS
<1>1. events = {} /\ \A c \in Clients : pc[c] = "idle"
  BY DEF Init
<1> QED
  BY <1>1 DEF EvidenceInv, EventsVouched, CorrectionsInOrder, Dated, EvidenceCall

\* What stays the same only grows.
LEMMA GrowsStill ==
  ASSUME TypeOK, UNCHANGED <<lineage, aggregate, now>>,
         \A i \in DOMAIN approvals : i \in DOMAIN approvals' /\ approvals'[i] = approvals[i]
  PROVE  Grows
<1>1. \A s \in Slugs, v \in Versions : aggregate[s][v] \in Nat
  BY DEF TypeOK
<1>2. now \in Nat
  BY DEF TypeOK
<1> QED
  BY <1>1, <1>2 DEF Grows

\* Scans, reviews, the clock and raw rows: the callers stay where they are.
LEMMA EnvironmentEvidence ==
  ASSUME LedgerInv, TypeOK', EvidenceInv, Environment
  PROVE  EvidenceInv'
<1> USE DEF LedgerInv
<1>1. ASSUME NEW s \in Slugs, NEW v \in Versions, NEW score \in Scores,
             SecurityAggregate(s, v, score)
      PROVE  EvidenceInv'
  <2>1. score \in Nat
    BY ConstantsAssumption
  <2>2. \A q \in Slugs, w \in Versions : aggregate[q][w] <= aggregate'[q][w]
    BY <1>1, <2>1 DEF SecurityAggregate, TypeOK
  <2>3. Grows
    BY <1>1, <2>2 DEF SecurityAggregate, Grows, TypeOK
  <2> QED
    BY <1>1, <2>3, EvidenceMoves DEF SecurityAggregate
<1>2. ASSUME NEW s \in Slugs, NEW v \in Versions, NEW ok \in BOOLEAN,
             ContentRound(s, v, ok)
      PROVE  EvidenceInv'
  <2>1. \A q \in Slugs : \A n \in DOMAIN lineage[q] :
          n \in DOMAIN lineage'[q] /\ lineage'[q][n] = lineage[q][n]
    <3> SUFFICES ASSUME NEW q \in Slugs, NEW n \in DOMAIN lineage[q]
                 PROVE  n \in DOMAIN lineage'[q] /\ lineage'[q][n] = lineage[q][n]
      OBVIOUS
    <3>1. PICK old \in Seq(Round) : old = lineage[q]
      BY DEF TypeOK
    <3>2. [ver |-> v, ok |-> ok] \in Round
      BY DEF Round
    <3>3. lineage'[q] = IF q = s THEN Append(old, [ver |-> v, ok |-> ok]) ELSE old
      BY <1>2, <3>1 DEF ContentRound, TypeOK
    <3> QED
      BY <3>1, <3>2, <3>3
  <2>2. Grows
    BY <1>2, <2>1 DEF ContentRound, Grows, TypeOK
  <2> QED
    BY <1>2, <2>2, EvidenceMoves DEF ContentRound
<1>3. ASSUME NEW limit \in Thresholds, ConfigurePolicy(limit)
      PROVE  EvidenceInv'
  <2>1. Grows
    BY <1>3, GrowsStill DEF ConfigurePolicy
  <2>2. \A d \in Clients : ~ Sharing(d)
    BY <1>3 DEF ConfigurePolicy
  <2> QED
    BY <1>3, <2>1, <2>2, EvidenceMoves DEF ConfigurePolicy
<1>4. CASE Tick
  <2>1. Grows
    BY <1>4 DEF Tick, Grows, TypeOK
  <2> QED
    BY <1>4, <2>1, EvidenceMoves DEF Tick
<1>5. ASSUME NEW r, Import(r)
      PROVE  EvidenceInv'
  <2>1. \A i \in DOMAIN approvals : i \in DOMAIN approvals' /\ approvals'[i] = approvals[i]
    BY <1>5 DEF Import, TypeOK
  <2>2. Grows
    BY <1>5, <2>1, GrowsStill DEF Import
  <2> QED
    BY <1>5, <2>2, EvidenceMoves DEF Import
<1> QED
  BY <1>1, <1>2, <1>3, <1>4, <1>5 DEF Environment

\* A caller moves to a place that the invariant allows, or to one of which it
\* says nothing.
LEMMA CallerEvidence ==
  ASSUME LedgerInv, TypeOK', EvidenceInv, NEW c \in Clients,
         UNCHANGED <<lineage, aggregate, threshold, approvals, events, now>>,
         \A d \in Clients \ {c} : pc'[d] = pc[d] /\ call'[d] = call[d],
         pc'[c] \in {"sharing", "commit"} => EvidenceCall(pc[c], call[c])'
  PROVE  EvidenceInv'
<1>1. Grows
  BY GrowsStill DEF LedgerInv
<1>2. EvidenceCall(pc[c], call[c])'
  BY DEF EvidenceCall
<1> QED
  BY <1>1, <1>2, EvidenceMoves

\* What activation checks is the evidence its transaction relies on.
LEMMA ActivableEvidence ==
  ASSUME LedgerInv, EvidenceInv, NEW r \in Row, Activable(r, threshold)
  PROVE  /\ Vouched(r, threshold)
         /\ \A e \in events : e.approval = r.corrects => e.at <= Later(now, r.ts)
<1>1. Vouched(r, threshold)
  <2>1. aggregate[r.slug][r.ver] >= MinApprovalSafety /\ aggregate[r.slug][r.ver] >= threshold
    BY DEF Activable, ProjectionValid
  <2> QED
    BY <2>1 DEF Activable, ProjectionValid, ContentReviewReady, Vouched, Later
<1>2. ASSUME NEW e \in events, e.approval = r.corrects
      PROVE  e.at <= Later(now, r.ts)
  <2>1. approvals[e.approval].ts <= r.ts
    BY <1>2, EventFields DEF Activable, ProjectionValid, CorrectsPublication
  <2>2. e.at <= Later(now, approvals[e.approval].ts)
    BY DEF EvidenceInv, Dated
  <2>3. now \in Nat /\ r.ts \in Nat /\ approvals[e.approval].ts \in Nat /\ e.at \in Nat
    BY EventFields DEF LedgerInv, TypeOK, Row
  <2> QED
    BY <2>1, <2>2, <2>3 DEF Later
<1> QED
  BY <1>1, <1>2

LEMMA AppendEvidence ==
  ASSUME LedgerInv, TypeOK', EvidenceInv, NEW c \in Clients, AppendBegin(c)
  PROVE  EvidenceInv'
<1> DEFINE r == call[c].row
<1>1. /\ pc[c] = "append" /\ call[c] \in Call /\ r \in Row
      /\ UNCHANGED <<lineage, aggregate, threshold, approvals, events, now>>
  BY DEF AppendBegin, LedgerInv, TypeOK, Call
<1>2. CASE Return(c)
  <2>1. pc'[c] = "idle" /\ \A d \in Clients \ {c} : pc'[d] = pc[d] /\ call'[d] = call[d]
    BY <1>2 DEF Return, LedgerInv, TypeOK
  <2> QED
    BY <1>1, <2>1, CallerEvidence
<1>3. CASE /\ r.decision # "reject" => Activable(r, threshold)
           /\ pc' = [pc EXCEPT ![c] = "commit"]
           /\ call' = [call EXCEPT ![c].threshold = threshold,
                                   ![c].at = Later(now, r.ts)]
  <2>1. /\ pc'[c] = "commit" /\ call'[c].row = r
        /\ call'[c].threshold = threshold /\ call'[c].at = Later(now, r.ts)
        /\ \A d \in Clients \ {c} : pc'[d] = pc[d] /\ call'[d] = call[d]
    BY <1>1, <1>3 DEF LedgerInv, TypeOK, Call
  <2>2. now \in Nat /\ r.ts \in Nat /\ Later(now, r.ts) \in Nat
    BY <1>1 DEF LedgerInv, TypeOK, Row, Later
  <2>3. r.decision # "reject" =>
          /\ Vouched(r, threshold)
          /\ \A e \in events : e.approval = r.corrects => e.at <= Later(now, r.ts)
    BY <1>1, <1>3, ActivableEvidence
  <2>4. EvidenceCall(pc[c], call[c])'
    BY <1>1, <2>1, <2>2, <2>3 DEF EvidenceCall, Vouched
  <2> QED
    BY <1>1, <2>1, <2>4, CallerEvidence
<1> QED
  BY <1>2, <1>3 DEF AppendBegin

LEMMA ActivateEvidence ==
  ASSUME LedgerInv, TypeOK', EvidenceInv, NEW c \in Clients, ActivateBegin(c)
  PROVE  EvidenceInv'
<1> DEFINE r == call[c].row
<1>1. /\ pc[c] = "sharing" /\ call[c] \in Call /\ r \in Row
      /\ UNCHANGED <<lineage, aggregate, threshold, approvals, events, now>>
  BY DEF ActivateBegin, LedgerInv, TypeOK, Call
<1>2. CASE Return(c)
  <2>1. pc'[c] = "idle" /\ \A d \in Clients \ {c} : pc'[d] = pc[d] /\ call'[d] = call[d]
    BY <1>2 DEF Return, LedgerInv, TypeOK
  <2> QED
    BY <1>1, <2>1, CallerEvidence
<1>3. CASE /\ Activable(r, call[c].threshold)
           /\ pc' = [pc EXCEPT ![c] = "commit"]
           /\ call' = [call EXCEPT ![c].at = Later(now, r.ts)]
  <2>1. call[c].threshold = threshold
    BY <1>1 DEF EvidenceInv, EvidenceCall
  <2>2. /\ pc'[c] = "commit" /\ call'[c].row = r
        /\ call'[c].threshold = threshold /\ call'[c].at = Later(now, r.ts)
        /\ \A d \in Clients \ {c} : pc'[d] = pc[d] /\ call'[d] = call[d]
    BY <1>1, <1>3, <2>1 DEF LedgerInv, TypeOK, Call
  <2>3. now \in Nat /\ r.ts \in Nat /\ Later(now, r.ts) \in Nat
    BY <1>1 DEF LedgerInv, TypeOK, Row, Later
  <2>4. /\ Vouched(r, threshold)
        /\ \A e \in events : e.approval = r.corrects => e.at <= Later(now, r.ts)
    BY <1>1, <1>3, <2>1, ActivableEvidence
  <2>5. EvidenceCall(pc[c], call[c])'
    BY <1>1, <2>2, <2>3, <2>4 DEF EvidenceCall, Vouched
  <2> QED
    BY <1>1, <2>2, <2>5, CallerEvidence
<1> QED
  BY <1>2, <1>3 DEF ActivateBegin

\* A caller that starts, ends or dies holds neither the policy row nor evidence.
LEMMA PlainEvidence ==
  ASSUME LedgerInv, TypeOK', EvidenceInv, NEW c \in Clients,
         Start(c) \/ ApproveReconcile(c) \/ Crash(c)
  PROVE  EvidenceInv'
<1>1. ASSUME NEW phase \in Phases \ {"sharing", "commit"}, NEW row, NEW target,
             UNCHANGED <<lineage, aggregate, threshold, approvals, events, now>>,
             Begin(c, phase, row, target)
      PROVE  EvidenceInv'
  <2>1. /\ pc'[c] \notin {"sharing", "commit"}
        /\ \A d \in Clients \ {c} : pc'[d] = pc[d] /\ call'[d] = call[d]
    BY <1>1 DEF Begin, LedgerInv, TypeOK
  <2> QED
    BY <1>1, <2>1, CallerEvidence
<1>2. {"checked", "append", "activate"} \subseteq Phases \ {"sharing", "commit"}
  BY DEF Phases
<1>3. ASSUME UNCHANGED <<lineage, aggregate, threshold, approvals, events, now>>, Return(c)
      PROVE  EvidenceInv'
  <2>1. pc'[c] = "idle" /\ \A d \in Clients \ {c} : pc'[d] = pc[d] /\ call'[d] = call[d]
    BY <1>3 DEF Return, LedgerInv, TypeOK
  <2> QED
    BY <1>3, <2>1, CallerEvidence
<1>4. ASSUME NEW s, NEW v, NEW n, NEW by, ApproveCheck(c, s, v, n, by) \/ RejectCheck(c, s, v, n, by)
      PROVE  EvidenceInv'
  BY <1>1, <1>2, <1>4 DEF ApproveCheck, RejectCheck
<1>5. ASSUME NEW i, NEW by, UnpublishCheck(c, i, by) \/ ActivateRequest(c, i)
      PROVE  EvidenceInv'
  BY <1>1, <1>2, <1>5 DEF UnpublishCheck, ActivateRequest
<1>6. CASE ApproveReconcile(c)
  <2>1. CASE Return(c)
    BY <1>3, <1>6, <2>1 DEF ApproveReconcile
  <2>2. ASSUME NEW k, pc' = [pc EXCEPT ![c] = "append"], call' = [call EXCEPT ![c].row = k]
        PROVE  EvidenceInv'
    <3>1. pc'[c] = "append" /\ \A d \in Clients \ {c} : pc'[d] = pc[d] /\ call'[d] = call[d]
      BY <2>2 DEF LedgerInv, TypeOK
    <3> QED
      BY <1>6, <3>1, CallerEvidence DEF ApproveReconcile
  <2> QED
    BY <1>6, <2>1, <2>2 DEF ApproveReconcile
<1>7. CASE Crash(c)
  BY <1>3, <1>7 DEF Crash
<1> QED
  BY <1>4, <1>5, <1>6, <1>7 DEF Start

LEMMA ShareEvidence ==
  ASSUME LedgerInv, TypeOK', EvidenceInv, NEW c \in Clients, ActivateShare(c)
  PROVE  EvidenceInv'
<1>1. /\ pc[c] = "activate" /\ call[c] \in Call
      /\ UNCHANGED <<lineage, aggregate, threshold, approvals, events, now>>
  BY DEF ActivateShare, LedgerInv, TypeOK
<1>2. CASE Return(c)
  <2>1. pc'[c] = "idle" /\ \A d \in Clients \ {c} : pc'[d] = pc[d] /\ call'[d] = call[d]
    BY <1>2 DEF Return, LedgerInv, TypeOK
  <2> QED
    BY <1>1, <2>1, CallerEvidence
<1>3. CASE /\ pc' = [pc EXCEPT ![c] = "sharing"]
           /\ call' = [call EXCEPT ![c].threshold = threshold]
  <2>1. /\ pc'[c] = "sharing" /\ call'[c].threshold = threshold
        /\ \A d \in Clients \ {c} : pc'[d] = pc[d] /\ call'[d] = call[d]
    BY <1>1, <1>3 DEF LedgerInv, TypeOK, Call
  <2>2. EvidenceCall(pc[c], call[c])'
    BY <1>1, <2>1 DEF EvidenceCall
  <2> QED
    BY <1>1, <2>1, <2>2, CallerEvidence
<1> QED
  BY <1>2, <1>3 DEF ActivateShare

\* The projected row keeps what its transaction relied on.
LEMMA CommitEvidence ==
  ASSUME LedgerInv, LedgerInv', EvidenceInv, NEW c \in Clients, Commit(c)
  PROVE  EvidenceInv'
<1> DEFINE r == call[c].row
           k == RowId(c)
           x == Projection(c)
<1>1. /\ call[c] \in Call /\ r \in Row
      /\ \A i \in DOMAIN approvals : i \in DOMAIN approvals' /\ approvals'[i] = approvals[i]
      /\ k # 0 /\ approvals'[k] = r
      /\ \A e \in events : e.approval # k /\ e.corrects # k
  BY CommitRow
<1>2. /\ pc[c] = "commit" /\ UNCHANGED <<lineage, aggregate, threshold, now>>
      /\ events' = IF r.decision = "reject" THEN events ELSE events \cup {x}
      /\ pc'[c] = "idle"
      /\ \A d \in Clients \ {c} : pc'[d] = pc[d] /\ call'[d] = call[d]
  BY DEF Commit, Return, LedgerInv, TypeOK
<1>3. /\ x.approval = k /\ x.corrects = r.corrects
      /\ x.threshold = call[c].threshold /\ x.at = call[c].at
  BY DEF Projection
<1>4. r.decision # "reject" =>
        /\ Vouched(r, x.threshold)
        /\ x.at <= Later(now, r.ts)
        /\ \A e \in events : e.approval = r.corrects => e.at <= x.at
  BY <1>2, <1>3 DEF EvidenceInv, EvidenceCall
<1>5. x.at \in Nat
  BY <1>1, <1>3 DEF Call
<1> HIDE DEF x, k
<1>6. \A e \in events : e.approval \in DOMAIN approvals /\ approvals'[e.approval] = approvals[e.approval]
  BY <1>1, EventFields
<1>7. EventsVouched'
  <2>1. \A e \in events : Vouched(approvals[e.approval], e.threshold)
    BY DEF EvidenceInv, EventsVouched
  <2>2. \A e \in events' : Vouched(approvals'[e.approval], e.threshold)
    BY <1>1, <1>2, <1>3, <1>4, <1>6, <2>1
  <2> QED
    BY <1>2, <2>2 DEF EventsVouched, Vouched
<1>8. CorrectionsInOrder'
  BY <1>1, <1>2, <1>3, <1>4, <1>5 DEF EvidenceInv, CorrectionsInOrder
<1>9. Dated'
  BY <1>1, <1>2, <1>3, <1>4, <1>6 DEF EvidenceInv, Dated
<1>10. ASSUME NEW d \in Clients
       PROVE  EvidenceCall(pc[d], call[d])'
  <2>1. CASE d = c
    BY <1>2, <2>1 DEF EvidenceCall
  <2>2. CASE d # c /\ pc[d] = "commit"
    <3>1. call[d].row.corrects # k
      <4>1. PendingRow(call[d].row)
        BY <2>2 DEF LedgerInv, Pending, PendingCall
      <4> QED
        BY <1>1, <4>1 DEF PendingRow, Corrects
    <3>2. pc'[d] = pc[d] /\ call'[d] = call[d] /\ EvidenceCall(pc[d], call[d])
      BY <1>2, <2>2 DEF EvidenceInv
    <3> QED
      BY <1>2, <1>3, <3>1, <3>2 DEF EvidenceCall, Vouched
  <2>3. CASE d # c /\ pc[d] # "commit"
    BY <1>2, <2>3 DEF EvidenceInv, EvidenceCall
  <2> QED
    BY <2>1, <2>2, <2>3
<1> QED
  BY <1>7, <1>8, <1>9, <1>10 DEF EvidenceInv

LEMMA EvidenceNext ==
  ASSUME LedgerInv, EvidenceInv, [Next]_vars
  PROVE  EvidenceInv'
<1>1. LedgerInv' /\ TypeOK'
  BY LedgerNext DEF LedgerInv
<1>2. CASE Environment
  BY <1>1, <1>2, EnvironmentEvidence
<1>3. ASSUME NEW c \in Clients, Start(c) \/ Progress(c) \/ Crash(c)
      PROVE  EvidenceInv'
  BY <1>1, <1>3, PlainEvidence, AppendEvidence, ShareEvidence, ActivateEvidence, CommitEvidence
  DEF Progress
<1>4. CASE UNCHANGED vars
  <2>1. Grows
    BY <1>4, GrowsStill DEF LedgerInv, vars
  <2> QED
    BY <1>1, <1>4, <2>1, EvidenceMoves DEF vars
<1> QED
  BY <1>2, <1>3, <1>4 DEF Next

LEMMA EvidenceCorrect == Spec => [](LedgerInv /\ EvidenceInv)
BY LedgerInit, LedgerNext, EvidenceInit, EvidenceNext, PTL DEF Spec

-----------------------------------------------------------------------------
(* What follows.                                                           *)

\* No clock that runs ahead makes a correction earlier than what it corrects.
THEOREM InOrder == Spec => []CorrectionsInOrder
<1>1. EvidenceInv => CorrectionsInOrder
  BY DEF EvidenceInv
<1> QED
  BY <1>1, EvidenceCorrect, PTL

\* What is projected is complete evidence under the policy frozen with it, also
\* when its row was imported and the policy has changed since.
THEOREM EvidenceFrozen == Spec => []FrozenEvidence
<1>1. LedgerInv /\ EvidenceInv => FrozenEvidence
  <2> SUFFICES ASSUME LedgerInv, EvidenceInv, NEW e \in events
               PROVE  /\ approvals[e.approval].content \in DOMAIN lineage[e.slug]
                      /\ lineage[e.slug][approvals[e.approval].content]
                           = [ver |-> e.ver, ok |-> TRUE]
                      /\ aggregate[e.slug][e.ver] >= Later(MinApprovalSafety, e.threshold)
    BY DEF FrozenEvidence
  <2>1. e.slug = approvals[e.approval].slug /\ e.ver = approvals[e.approval].ver
    BY DEF LedgerInv, Faithful
  <2> QED
    BY <2>1 DEF EvidenceInv, EventsVouched, Vouched
<1> QED
  BY <1>1, EvidenceCorrect, PTL

\* No administrator can slip a change of the policy between a transaction's
\* check and its commit.
THEOREM PolicyHeld == Spec => PolicyHeldToCommit
<1>1. ASSUME LedgerInv, EvidenceInv, [Next]_vars
      PROVE  \A e \in events' \ events : e.threshold = threshold
  <2> SUFFICES ASSUME NEW e \in events' \ events
               PROVE  e.threshold = threshold
    OBVIOUS
  <2>1. PICK c \in Clients : Commit(c)
    BY <1>1, EventsMove
  <2>2. e = Projection(c) /\ pc[c] = "commit" /\ call[c].row.decision # "reject"
    BY <2>1 DEF Commit
  <2>3. e.threshold = call[c].threshold
    BY <2>2 DEF Projection
  <2> QED
    BY <1>1, <2>2, <2>3 DEF EvidenceInv, EvidenceCall
<1> QED
  BY <1>1, EvidenceCorrect, PTL DEF Spec, PolicyHeldToCommit

-----------------------------------------------------------------------------
(* A decision is recorded once.                                            *)

SameRow(r, q) == SameDecision(r, q) /\ r.corrects = q.corrects

\* Rejections apart, what the actuator wrote it also projected.
ActuatorProjected ==
  \A i \in DOMAIN approvals :
    approvals[i].via = "actuator" /\ approvals[i].decision # "reject" => Projected(i)

\* A row about to be appended is not there yet.
AppendsOnce ==
  \A c \in Clients : pc[c] = "commit" /\ call[c].target = 0 =>
    \A i \in DOMAIN approvals :
      approvals[i].via = "actuator" => ~ SameRow(approvals[i], call[c].row)

OnceInv == DecidedOnce /\ ActuatorProjected /\ AppendsOnce

LEMMA OnceInit == Init => OnceInv
<1> SUFFICES ASSUME Init PROVE OnceInv
  OBVIOUS
<1>1. DOMAIN approvals = {} /\ \A c \in Clients : pc[c] = "idle"
  BY DEF Init
<1> QED
  BY <1>1 DEF OnceInv, DecidedOnce, ActuatorProjected, AppendsOnce

\* The log stays, and who commits now was committing or has looked for a twin.
LEMMA OnceMoves ==
  ASSUME OnceInv, UNCHANGED <<approvals, events>>,
         \A d \in Clients :
           \/ pc'[d] = pc[d] /\ call'[d] = call[d]
           \/ pc'[d] # "commit"
           \/ call'[d].target # 0
           \/ ~ Twin(call'[d].row)
  PROVE  OnceInv'
<1>1. DecidedOnce' /\ ActuatorProjected'
  BY DEF OnceInv, DecidedOnce, ActuatorProjected, Projected
<1>2. AppendsOnce'
  <2> SUFFICES ASSUME NEW d \in Clients, pc'[d] = "commit", call'[d].target = 0,
                      NEW i \in DOMAIN approvals, approvals[i].via = "actuator"
               PROVE  ~ SameRow(approvals[i], call'[d].row)
    BY DEF AppendsOnce
  <2>1. CASE pc'[d] = pc[d] /\ call'[d] = call[d]
    BY <2>1 DEF OnceInv, AppendsOnce
  <2>2. CASE ~ Twin(call'[d].row)
    BY <2>2 DEF OnceInv, ActuatorProjected, Twin, SameRow, SameDecision
  <2> QED
    BY <2>1, <2>2
<1> QED
  BY <1>1, <1>2 DEF OnceInv

LEMMA OnceCaller ==
  ASSUME LedgerInv, OnceInv, NEW c \in Clients,
         Start(c) \/ Progress(c) \/ Crash(c), ~ Commit(c)
  PROVE  OnceInv'
<1>1. ASSUME Return(c), UNCHANGED <<approvals, events>>
      PROVE  OnceInv'
  <2>1. pc'[c] = "idle" /\ \A d \in Clients \ {c} : pc'[d] = pc[d] /\ call'[d] = call[d]
    BY <1>1 DEF Return, LedgerInv, TypeOK
  <2> QED
    BY <1>1, <2>1, OnceMoves
<1>2. ASSUME NEW phase \in Phases \ {"commit"}, pc' = [pc EXCEPT ![c] = phase],
             NEW k, call' = [call EXCEPT ![c] = k], UNCHANGED <<approvals, events>>
      PROVE  OnceInv'
  <2>1. /\ pc'[c] # "commit"
        /\ \A d \in Clients \ {c} : pc'[d] = pc[d] /\ call'[d] = call[d]
    BY <1>2 DEF LedgerInv, TypeOK
  <2> QED
    BY <1>2, <2>1, OnceMoves
<1>3. ASSUME NEW phase \in {"checked", "append", "activate"}, NEW row, NEW target,
             Begin(c, phase, row, target), UNCHANGED <<approvals, events>>
      PROVE  OnceInv'
  BY <1>2, <1>3 DEF Begin, Phases
<1>4. CASE Start(c)
  <2>1. ASSUME NEW s, NEW v, NEW n, NEW by,
               ApproveCheck(c, s, v, n, by) \/ RejectCheck(c, s, v, n, by)
        PROVE  OnceInv'
    BY <1>3, <2>1 DEF ApproveCheck, RejectCheck
  <2>2. ASSUME NEW i, NEW by, UnpublishCheck(c, i, by) \/ ActivateRequest(c, i)
        PROVE  OnceInv'
    BY <1>3, <2>2 DEF UnpublishCheck, ActivateRequest
  <2> QED
    BY <1>4, <2>1, <2>2 DEF Start
<1>5. CASE ApproveReconcile(c)
  <2>1. ASSUME NEW k, pc' = [pc EXCEPT ![c] = "append"], call' = [call EXCEPT ![c].row = k]
        PROVE  OnceInv'
    <3>1. pc'[c] = "append" /\ \A d \in Clients \ {c} : pc'[d] = pc[d] /\ call'[d] = call[d]
      BY <2>1 DEF LedgerInv, TypeOK
    <3> QED
      BY <1>5, <3>1, OnceMoves DEF ApproveReconcile
  <2> QED
    BY <1>1, <1>5, <2>1 DEF ApproveReconcile
<1>6. CASE AppendBegin(c)
  <2>1. ASSUME ~ Twin(call[c].row), pc' = [pc EXCEPT ![c] = "commit"],
               call' = [call EXCEPT ![c].threshold = threshold,
                                    ![c].at = Later(now, call[c].row.ts)]
        PROVE  OnceInv'
    <3>1. call[c] \in Call
      BY <1>6 DEF AppendBegin, LedgerInv, TypeOK
    <3>2. call'[c].row = call[c].row
          /\ \A d \in Clients \ {c} : pc'[d] = pc[d] /\ call'[d] = call[d]
      BY <2>1, <3>1 DEF LedgerInv, TypeOK, Call
    <3>3. ~ Twin(call'[c].row)
      BY <2>1, <3>2
    <3>4. UNCHANGED <<approvals, events>>
      BY <1>6 DEF AppendBegin
    <3> QED
      BY <3>2, <3>3, <3>4, OnceMoves
  <2> QED
    BY <1>1, <1>6, <2>1 DEF AppendBegin
<1>7. CASE ActivateShare(c)
  <2>1. ASSUME pc' = [pc EXCEPT ![c] = "sharing"], call' = [call EXCEPT ![c].threshold = threshold]
        PROVE  OnceInv'
    <3>1. pc'[c] = "sharing" /\ \A d \in Clients \ {c} : pc'[d] = pc[d] /\ call'[d] = call[d]
      BY <2>1 DEF LedgerInv, TypeOK
    <3> QED
      BY <1>7, <3>1, OnceMoves DEF ActivateShare
  <2> QED
    BY <1>1, <1>7, <2>1 DEF ActivateShare
<1>8. CASE ActivateBegin(c)
  <2>1. ASSUME pc' = [pc EXCEPT ![c] = "commit"],
               call' = [call EXCEPT ![c].at = Later(now, call[c].row.ts)]
        PROVE  OnceInv'
    <3>1. call[c] \in Call /\ call[c].target # 0
      BY <1>8 DEF ActivateBegin, LedgerInv, TypeOK, Targeted, TargetedCall
    <3>2. call'[c].target # 0
          /\ \A d \in Clients \ {c} : pc'[d] = pc[d] /\ call'[d] = call[d]
      BY <2>1, <3>1 DEF LedgerInv, TypeOK, Call
    <3>3. UNCHANGED <<approvals, events>>
      BY <1>8 DEF ActivateBegin
    <3> QED
      BY <3>2, <3>3, OnceMoves
  <2> QED
    BY <1>1, <1>8, <2>1 DEF ActivateBegin
<1>9. CASE Crash(c)
  BY <1>1, <1>9 DEF Crash
<1> QED
  BY <1>4, <1>5, <1>6, <1>7, <1>8, <1>9 DEF Progress

\* A raw row is nobody's decision.
LEMMA OnceImport ==
  ASSUME LedgerInv, OnceInv, NEW r \in Row, Import(r)
  PROVE  OnceInv'
<1>1. /\ DOMAIN approvals' = DOMAIN approvals \cup {Len(approvals) + 1}
      /\ \A i \in DOMAIN approvals : approvals'[i] = approvals[i]
      /\ approvals'[Len(approvals) + 1].via # "actuator"
  BY DEF Import, LedgerInv, TypeOK
<1>2. UNCHANGED <<events, pc, call>>
  BY DEF Import
<1>3. DecidedOnce'
  BY <1>1 DEF OnceInv, DecidedOnce, SameDecision
<1>4. ActuatorProjected'
  BY <1>1, <1>2 DEF OnceInv, ActuatorProjected, Projected
<1>5. AppendsOnce'
  BY <1>1, <1>2 DEF OnceInv, AppendsOnce, SameRow, SameDecision
<1> QED
  BY <1>3, <1>4, <1>5 DEF OnceInv

\* A committed row is a new decision, and no other transaction that is about to
\* append has the same one, since it would hold the same lock.
LEMMA OnceCommit ==
  ASSUME LedgerInv, OnceInv, NEW c \in Clients, Commit(c)
  PROVE  OnceInv'
<1> DEFINE r == call[c].row
           k == RowId(c)
<1>1. /\ pc[c] = "commit" /\ pc'[c] = "idle"
      /\ \A d \in Clients \ {c} : pc'[d] = pc[d] /\ call'[d] = call[d]
  BY DEF Commit, Return, LedgerInv, TypeOK
<1>2. /\ \A i \in DOMAIN approvals : approvals'[i] = approvals[i]
      /\ approvals'[k] = r
      /\ call[c].target = 0 => DOMAIN approvals' = DOMAIN approvals \cup {k}
      /\ call[c].target # 0 => approvals' = approvals
  BY CommitRow
<1>3. events \subseteq events' /\ (r.decision # "reject" => \E e \in events' : e.approval = k)
  <2>1. events' = IF r.decision = "reject" THEN events ELSE events \cup {Projection(c)}
    BY DEF Commit
  <2>2. Projection(c).approval = k
    BY DEF Projection
  <2> QED
    BY <2>1, <2>2
<1>4. call[c].target = 0 => \A i \in DOMAIN approvals :
                              approvals[i].via = "actuator" => ~ SameRow(approvals[i], r)
  BY <1>1 DEF OnceInv, AppendsOnce
<1> HIDE DEF k
<1>5. DecidedOnce'
  <2>1. CASE call[c].target # 0
    BY <1>2, <2>1 DEF OnceInv, DecidedOnce
  <2>2. CASE call[c].target = 0
    <3>1. \A i \in DOMAIN approvals : approvals[i].via = "actuator" =>
            ~ SameRow(approvals'[i], r) /\ ~ SameRow(r, approvals'[i])
      BY <1>2, <1>4, <2>2 DEF SameRow, SameDecision
    <3>2. \A i, j \in DOMAIN approvals :
            ( /\ approvals'[i].via = "actuator" /\ approvals'[j].via = "actuator"
              /\ SameRow(approvals'[i], approvals'[j]) )
            => i = j
      BY <1>2 DEF OnceInv, DecidedOnce, SameRow
    <3> QED
      BY <1>2, <2>2, <3>1, <3>2 DEF DecidedOnce, SameRow
  <2> QED
    BY <2>1, <2>2
<1>6. ActuatorProjected'
  BY <1>2, <1>3 DEF OnceInv, ActuatorProjected, Projected
<1>7. AppendsOnce'
  <2> SUFFICES ASSUME NEW d \in Clients, pc'[d] = "commit", call'[d].target = 0,
                      NEW i \in DOMAIN approvals', approvals'[i].via = "actuator"
               PROVE  ~ SameRow(approvals'[i], call'[d].row)
    BY DEF AppendsOnce
  <2>1. d # c /\ pc[d] = "commit" /\ call'[d] = call[d]
    BY <1>1
  <2>2. CASE i \in DOMAIN approvals
    BY <1>2, <2>1, <2>2 DEF OnceInv, AppendsOnce
  <2>3. CASE i \notin DOMAIN approvals
    <3>1. approvals'[i] = r
      BY <1>2, <2>3
    <3>2. r.slug # call[d].row.slug
      BY <1>1, <2>1 DEF LedgerInv, Pending
    <3> QED
      BY <2>1, <3>1, <3>2 DEF SameRow, SameDecision
  <2> QED
    BY <2>2, <2>3
<1> QED
  BY <1>5, <1>6, <1>7 DEF OnceInv

LEMMA OnceNext ==
  ASSUME LedgerInv, OnceInv, [Next]_vars
  PROVE  OnceInv'
<1>1. CASE Environment
  <2>1. CASE UNCHANGED <<approvals, events, pc, call>>
    BY <2>1, OnceMoves
  <2>2. ASSUME NEW d \in Decisions, NEW s \in Slugs, NEW v \in Versions,
               NEW by \in Signers, NEW n \in DOMAIN lineage[s],
               NEW corrects \in 0 .. Len(approvals),
               Import([decision |-> d, slug |-> s, ver |-> v, content |-> n, by |-> by,
                       corrects |-> corrects, ts |-> now, via |-> "raw"])
        PROVE  OnceInv'
    <3>1. [decision |-> d, slug |-> s, ver |-> v, content |-> n, by |-> by,
           corrects |-> corrects, ts |-> now, via |-> "raw"] \in Row
      BY DEF LedgerInv, TypeOK, Row
    <3> QED
      BY <2>2, <3>1, OnceImport
  <2> QED
    BY <1>1, <2>1, <2>2
    DEF Environment, SecurityAggregate, ContentRound, ConfigurePolicy, Tick
<1>2. ASSUME NEW c \in Clients, Start(c) \/ Progress(c) \/ Crash(c)
      PROVE  OnceInv'
  BY <1>2, OnceCaller, OnceCommit
<1>3. CASE UNCHANGED vars
  BY <1>3, OnceMoves DEF vars
<1> QED
  BY <1>1, <1>2, <1>3 DEF Next

\* Double submissions and retries after a lost reply leave one row, whoever
\* else decides, dies or activates rows of the log meanwhile.
THEOREM OneRowPerDecision == Spec => []DecidedOnce
<1>1. OnceInv => DecidedOnce
  BY DEF OnceInv
<1>2. LedgerInv /\ OnceInv /\ [Next]_vars => LedgerInv' /\ OnceInv'
  BY LedgerNext, OnceNext
<1> QED
  BY <1>1, <1>2, LedgerInit, OnceInit, PTL DEF Spec

-----------------------------------------------------------------------------
(* The order of versions and times in the projection, for the readers who   *)
(* reconcile it and for the derived lifecycle states.                       *)

\* A correction is of the same skill; it publishes a newer version or
\* withdraws the same one.
InSequence(slug, decision, ver, e) ==
  /\ e.slug = slug
  /\ decision = "approve" => e.ver < ver
  /\ decision = "unpublish" => e.ver = ver

OrderCall(phase, k) ==
  phase = "commit" /\ k.row.decision # "reject" =>
    /\ k.row.ts <= k.at
    /\ \A e \in events : e.approval = k.row.corrects =>
         InSequence(k.row.slug, k.row.decision, k.row.ver, e)

OrderInv ==
  /\ \A e \in events : approvals[e.approval].ts <= e.at
  /\ \A e, f \in events : f.corrects = e.approval => InSequence(f.slug, f.decision, f.ver, e)
  /\ \A c \in Clients : OrderCall(pc[c], call[c])

\* All clocks agree with the database's.
Synchronised == \A c \in Clients : Skew[c] = 0

\* Nothing is dated later than now, and what commits next on a skill is dated
\* after all that was projected there.
ClockCall(phase, k) ==
  /\ phase # "idle" => k.row.ts <= now
  /\ phase = "commit" => /\ k.at <= now
                         /\ \A e \in events : e.slug = k.row.slug => e.at <= k.at

Ascending ==
  \A e, f \in events :
    /\ e.decision = "approve" /\ f.decision = "approve" /\ e.slug = f.slug
    /\ e.at < f.at
    => e.ver < f.ver

ClockInv ==
  /\ \A i \in DOMAIN approvals : approvals[i].ts <= now
  /\ \A e \in events : e.at <= now
  /\ Ascending
  /\ \A c \in Clients : ClockCall(pc[c], call[c])

\* The time and the origin of the row a caller carries: its own, that of the
\* row it has carried so far, or that of a row in the log.
CarriesOn(c, r) ==
  \/ r.ts \in {0, now + Skew[c]} /\ r.via = "actuator"
  \/ /\ pc[c] # "idle" /\ r.via = call[c].row.via
     /\ r.ts \in {now + Skew[c], call[c].row.ts}
  \/ \E i \in DOMAIN approvals : r.ts = approvals[i].ts /\ r.via = approvals[i].via

\* How a caller moves on without writing.
LEMMA CallerGoesOn ==
  ASSUME LedgerInv, NEW c \in Clients, Start(c) \/ Progress(c) \/ Crash(c), ~ Commit(c)
  PROVE  /\ UNCHANGED <<approvals, events, now>>
         /\ \A d \in Clients \ {c} : pc'[d] = pc[d] /\ call'[d] = call[d]
         /\ pc'[c] # "idle" => CarriesOn(c, call'[c].row)
         /\ pc'[c] = "commit" =>
              /\ pc[c] # "idle" /\ call[c] \in Call /\ call'[c].row = call[c].row
              /\ call'[c].at = Later(now, call[c].row.ts)
              /\ call[c].row.decision # "reject" => \E limit : Activable(call[c].row, limit)
<1> DEFINE Goal ==
         /\ UNCHANGED <<approvals, events, now>>
         /\ \A d \in Clients \ {c} : pc'[d] = pc[d] /\ call'[d] = call[d]
         /\ pc'[c] # "idle" => CarriesOn(c, call'[c].row)
         /\ pc'[c] = "commit" =>
              /\ pc[c] # "idle" /\ call[c] \in Call /\ call'[c].row = call[c].row
              /\ call'[c].at = Later(now, call[c].row.ts)
              /\ call[c].row.decision # "reject" => \E limit : Activable(call[c].row, limit)
<1> SUFFICES Goal
  OBVIOUS
<1>1. ASSUME Return(c), UNCHANGED <<approvals, events, now>>
      PROVE  Goal
  BY <1>1 DEF Return, LedgerInv, TypeOK
<1>2. ASSUME NEW phase \in {"checked", "append", "activate"}, NEW row, NEW target,
             Begin(c, phase, row, target), UNCHANGED <<approvals, events, now>>,
             CarriesOn(c, row)
      PROVE  Goal
  <2>1. pc'[c] = phase /\ call'[c].row = row
    BY <1>2 DEF Begin, LedgerInv, TypeOK
  <2>2. \A d \in Clients \ {c} : pc'[d] = pc[d] /\ call'[d] = call[d]
    BY <1>2 DEF Begin, LedgerInv, TypeOK
  <2> QED
    BY <1>2, <2>1, <2>2
<1>3. \A i \in DOMAIN approvals : approvals[i] \in Row
  BY DEF LedgerInv, TypeOK
<1>4. ASSUME NEW s, NEW v, NEW n, NEW by, ApproveCheck(c, s, v, n, by)
      PROVE  Goal
  BY <1>2, <1>4 DEF ApproveCheck, CarriesOn
<1>5. ASSUME NEW s, NEW v, NEW n, NEW by, RejectCheck(c, s, v, n, by)
      PROVE  Goal
  BY <1>2, <1>5 DEF RejectCheck, CarriesOn
<1>6. ASSUME NEW i \in DOMAIN approvals, NEW by, UnpublishCheck(c, i, by)
      PROVE  Goal
  <2>1. CarriesOn(c, [approvals[i] EXCEPT !.decision = "unpublish", !.by = by, !.corrects = i,
                                          !.via = "actuator", !.ts = now + Skew[c]])
    BY <1>3 DEF Row, CarriesOn
  <2>2. UNCHANGED <<approvals, events, now>>
    BY <1>6 DEF UnpublishCheck
  <2>3. \/ Begin(c, "append", [approvals[i] EXCEPT !.decision = "unpublish", !.by = by,
                                !.corrects = i, !.via = "actuator", !.ts = now + Skew[c]], 0)
        \/ \E j \in DOMAIN approvals : Begin(c, "activate", approvals[j], j)
    BY <1>6 DEF UnpublishCheck, RawCorrections
  <2>4. \A j \in DOMAIN approvals : CarriesOn(c, approvals[j])
    BY DEF CarriesOn
  <2> QED
    BY <1>2, <2>1, <2>2, <2>3, <2>4
<1>7. ASSUME NEW i \in DOMAIN approvals, ActivateRequest(c, i)
      PROVE  Goal
  BY <1>2, <1>7 DEF ActivateRequest, CarriesOn
<1>8. CASE ApproveReconcile(c)
  <2>1. pc[c] = "checked" /\ UNCHANGED <<approvals, events, now>> /\ call[c] \in Call
    BY <1>8 DEF ApproveReconcile, LedgerInv, TypeOK
  <2>2. PICK r \in Row : r = call[c].row
    BY <2>1 DEF Call
  <2>3. ASSUME NEW x, pc' = [pc EXCEPT ![c] = "append"],
               call' = [call EXCEPT ![c].row = [r EXCEPT !.corrects = x, !.ts = now + Skew[c]]]
        PROVE  Goal
    <3>1. pc'[c] = "append" /\ \A d \in Clients \ {c} : pc'[d] = pc[d] /\ call'[d] = call[d]
      BY <2>3 DEF LedgerInv, TypeOK
    <3>2. call'[c].row = [r EXCEPT !.corrects = x, !.ts = now + Skew[c]]
      BY <2>1, <2>3 DEF LedgerInv, TypeOK, Call
    <3>3. CarriesOn(c, call'[c].row)
      BY <2>1, <2>2, <3>2 DEF Row, CarriesOn
    <3> QED
      BY <2>1, <3>1, <3>3
  <2>4. Return(c) \/ \E x : /\ pc' = [pc EXCEPT ![c] = "append"]
                            /\ call' = [call EXCEPT ![c].row = [r EXCEPT !.corrects = x,
                                                                         !.ts = now + Skew[c]]]
    BY <1>8, <2>2 DEF ApproveReconcile
  <2> QED
    BY <1>1, <2>1, <2>3, <2>4
<1>9. ASSUME call[c] \in Call, pc[c] # "idle", UNCHANGED <<approvals, events, now>>,
             pc' = [pc EXCEPT ![c] = "commit"], NEW k \in Call, call' = [call EXCEPT ![c] = k],
             k.row = call[c].row, k.at = Later(now, call[c].row.ts),
             call[c].row.decision # "reject" => \E limit : Activable(call[c].row, limit)
      PROVE  Goal
  <2>1. pc'[c] = "commit" /\ call'[c] = k
        /\ \A d \in Clients \ {c} : pc'[d] = pc[d] /\ call'[d] = call[d]
    BY <1>9 DEF LedgerInv, TypeOK
  <2> QED
    BY <1>9, <2>1 DEF CarriesOn
<1>10. CASE AppendBegin(c)
  <2>1. pc[c] = "append" /\ UNCHANGED <<approvals, events, now>> /\ call[c] \in Call
    BY <1>10 DEF AppendBegin, LedgerInv, TypeOK
  <2>2. ASSUME pc' = [pc EXCEPT ![c] = "commit"],
               call' = [call EXCEPT ![c].threshold = threshold,
                                    ![c].at = Later(now, call[c].row.ts)],
               call[c].row.decision # "reject" => Activable(call[c].row, threshold)
        PROVE  Goal
    <3>1. Later(now, call[c].row.ts) \in Nat /\ threshold \in Nat
      BY <2>1 DEF LedgerInv, TypeOK, Call, Row, Later
    <3>2. PICK k \in Call : k = [call[c] EXCEPT !.threshold = threshold,
                                                !.at = Later(now, call[c].row.ts)]
      BY <2>1, <3>1 DEF Call
    <3>3. k.row = call[c].row /\ k.at = Later(now, call[c].row.ts)
      BY <2>1, <3>2 DEF Call
    <3>4. call' = [call EXCEPT ![c] = k]
      BY <2>2, <3>2
    <3> QED
      BY <1>9, <2>1, <2>2, <3>3, <3>4
  <2> QED
    BY <1>1, <1>10, <2>1, <2>2 DEF AppendBegin
<1>11. CASE ActivateShare(c)
  <2>1. pc[c] = "activate" /\ UNCHANGED <<approvals, events, now>> /\ call[c] \in Call
    BY <1>11 DEF ActivateShare, LedgerInv, TypeOK
  <2>2. ASSUME pc' = [pc EXCEPT ![c] = "sharing"], call' = [call EXCEPT ![c].threshold = threshold]
        PROVE  Goal
    <3>1. pc'[c] = "sharing" /\ call'[c].row = call[c].row
          /\ \A d \in Clients \ {c} : pc'[d] = pc[d] /\ call'[d] = call[d]
      BY <2>1, <2>2 DEF LedgerInv, TypeOK, Call
    <3> QED
      BY <2>1, <3>1 DEF CarriesOn
  <2> QED
    BY <1>1, <1>11, <2>1, <2>2 DEF ActivateShare
<1>12. CASE ActivateBegin(c)
  <2>1. pc[c] = "sharing" /\ UNCHANGED <<approvals, events, now>> /\ call[c] \in Call
    BY <1>12 DEF ActivateBegin, LedgerInv, TypeOK
  <2>2. ASSUME pc' = [pc EXCEPT ![c] = "commit"],
               call' = [call EXCEPT ![c].at = Later(now, call[c].row.ts)],
               Activable(call[c].row, call[c].threshold)
        PROVE  Goal
    <3>1. Later(now, call[c].row.ts) \in Nat
      BY <2>1 DEF LedgerInv, TypeOK, Call, Row, Later
    <3>2. PICK k \in Call : k = [call[c] EXCEPT !.at = Later(now, call[c].row.ts)]
      BY <2>1, <3>1 DEF Call
    <3>3. k.row = call[c].row /\ k.at = Later(now, call[c].row.ts)
      BY <2>1, <3>2 DEF Call
    <3>4. call' = [call EXCEPT ![c] = k]
      BY <2>2, <3>2
    <3> QED
      BY <1>9, <2>1, <2>2, <3>3, <3>4
  <2> QED
    BY <1>1, <1>12, <2>1, <2>2 DEF ActivateBegin
<1>13. CASE Crash(c)
  BY <1>1, <1>13 DEF Crash
<1> HIDE DEF Goal
<1>14. CASE Start(c)
  BY <1>4, <1>5, <1>6, <1>7, <1>14 DEF Start
<1>15. CASE Progress(c)
  BY <1>8, <1>10, <1>11, <1>12, <1>15 DEF Progress
<1> QED
  BY <1>13, <1>14, <1>15

\* Steps outside the callers add rows at most, and no projection.
LEMMA OutsideGrows ==
  ASSUME LedgerInv, Environment \/ UNCHANGED vars
  PROVE  /\ UNCHANGED <<events, pc, call>> /\ now \in Nat /\ now' \in Nat /\ now <= now'
         /\ \A i \in DOMAIN approvals : i \in DOMAIN approvals' /\ approvals'[i] = approvals[i]
         /\ \A i \in DOMAIN approvals' : i \in DOMAIN approvals \/ approvals'[i].ts = now
<1>1. now \in Nat /\ approvals \in Seq(Row)
  BY DEF LedgerInv, TypeOK
<1>2. CASE UNCHANGED <<approvals, events, pc, call>> /\ (now' = now \/ now' = now + 1)
  BY <1>1, <1>2
<1>3. ASSUME NEW d \in Decisions, NEW s \in Slugs, NEW v \in Versions,
             NEW by \in Signers, NEW n \in DOMAIN lineage[s],
             NEW corrects \in 0 .. Len(approvals),
             Import([decision |-> d, slug |-> s, ver |-> v, content |-> n, by |-> by,
                     corrects |-> corrects, ts |-> now, via |-> "raw"])
      PROVE  /\ UNCHANGED <<events, pc, call, now>>
             /\ \A i \in DOMAIN approvals : i \in DOMAIN approvals' /\ approvals'[i] = approvals[i]
             /\ \A i \in DOMAIN approvals' : i \in DOMAIN approvals \/ approvals'[i].ts = now
  <2>1. [decision |-> d, slug |-> s, ver |-> v, content |-> n, by |-> by,
         corrects |-> corrects, ts |-> now, via |-> "raw"] \in Row
    BY DEF LedgerInv, TypeOK, Row
  <2>2. PICK r \in Row : r.ts = now /\ Import(r)
    BY <1>3, <2>1
  <2>3. approvals' = Append(approvals, r) /\ UNCHANGED <<events, pc, call, now>>
    BY <2>2 DEF Import
  <2> QED
    BY <1>1, <2>2, <2>3
<1>4. CASE Environment
  <2>1. \/ UNCHANGED <<approvals, events, pc, call>> /\ (now' = now \/ now' = now + 1)
        \/ \E d \in Decisions, s \in Slugs, v \in Versions, by \in Signers :
             \E n \in DOMAIN lineage[s], corrects \in 0 .. Len(approvals) :
               Import([decision |-> d, slug |-> s, ver |-> v, content |-> n, by |-> by,
                       corrects |-> corrects, ts |-> now, via |-> "raw"])
    BY <1>4 DEF Environment, SecurityAggregate, ContentRound, ConfigurePolicy, Tick
  <2>2. CASE \E d \in Decisions, s \in Slugs, v \in Versions, by \in Signers :
               \E n \in DOMAIN lineage[s], corrects \in 0 .. Len(approvals) :
                 Import([decision |-> d, slug |-> s, ver |-> v, content |-> n, by |-> by,
                         corrects |-> corrects, ts |-> now, via |-> "raw"])
    BY <1>1, <1>3, <2>2
  <2> QED
    BY <1>2, <2>1, <2>2
<1>5. CASE UNCHANGED vars
  BY <1>2, <1>5 DEF vars
<1> QED
  BY <1>4, <1>5

\* Call k of caller c commits row id of the log and, unless it is a rejection,
\* projection x; what another transaction corrects is not the new row.
Adds(c, k, id, x) ==
  /\ k = call[c] /\ k.row \in Row /\ pc[c] = "commit" /\ now' = now
  /\ \A i \in DOMAIN approvals : i \in DOMAIN approvals' /\ approvals'[i] = approvals[i]
  /\ \A i \in DOMAIN approvals' : i \in DOMAIN approvals \/ i = id
  /\ id \in DOMAIN approvals' /\ approvals'[id] = k.row
  /\ events' = IF k.row.decision = "reject" THEN events ELSE events \cup {x}
  /\ x.approval = id /\ x.corrects = k.row.corrects /\ x.at = k.at
  /\ x.slug = k.row.slug /\ x.decision = k.row.decision /\ x.ver = k.row.ver
  /\ id # k.row.corrects /\ \A e \in events : e.approval # id /\ e.corrects # id
  /\ pc'[c] = "idle"
  /\ \A d \in Clients \ {c} : pc'[d] = pc[d] /\ call'[d] = call[d]
  /\ \A d \in Clients \ {c} : pc[d] = "commit" =>
       call[d].row.corrects # id /\ call[d].row.slug # k.row.slug

LEMMA CommitAdds ==
  ASSUME LedgerInv, NEW c \in Clients, Commit(c)
  PROVE  \E k, id, x : k \in Call /\ Adds(c, k, id, x)
<1> DEFINE id == RowId(c)
           x == Projection(c)
<1>1. /\ call[c] \in Call /\ call[c].row \in Row /\ PendingCall(call[c])
      /\ \A i \in DOMAIN approvals : i \in DOMAIN approvals' /\ approvals'[i] = approvals[i]
      /\ id \in DOMAIN approvals' /\ approvals'[id] = call[c].row /\ id # 0
      /\ call[c].target = 0 => DOMAIN approvals' = DOMAIN approvals \cup {id}
      /\ call[c].target # 0 => approvals' = approvals
      /\ \A e \in events : e.approval # id /\ e.corrects # id
  BY CommitRow
<1>2. /\ pc[c] = "commit" /\ now' = now /\ pc'[c] = "idle"
      /\ events' = IF call[c].row.decision = "reject" THEN events ELSE events \cup {x}
      /\ \A d \in Clients \ {c} : pc'[d] = pc[d] /\ call'[d] = call[d]
  BY DEF Commit, Return, LedgerInv, TypeOK
<1>3. /\ x.approval = id /\ x.corrects = call[c].row.corrects /\ x.at = call[c].at
      /\ x.slug = call[c].row.slug /\ x.decision = call[c].row.decision /\ x.ver = call[c].row.ver
  BY DEF Projection
<1> HIDE DEF id, x
<1>4. \A d \in Clients : pc[d] = "commit" => call[d].row.corrects # id
  <2> SUFFICES ASSUME NEW d \in Clients, pc[d] = "commit" PROVE call[d].row.corrects # id
    OBVIOUS
  <2>1. PendingRow(call[d].row)
    BY DEF LedgerInv, Pending, PendingCall
  <2> QED
    BY <1>1, <2>1 DEF PendingRow, Corrects
<1>5. \A d \in Clients \ {c} : pc[d] = "commit" => call[d].row.slug # call[c].row.slug
  BY <1>2 DEF LedgerInv, Pending
<1>6. \A i \in DOMAIN approvals' : i \in DOMAIN approvals \/ i = id
  BY <1>1
<1>7. call[c] \in Call /\ Adds(c, call[c], id, x)
  BY <1>1, <1>2, <1>3, <1>4, <1>5, <1>6 DEF Adds
<1> QED
  BY <1>7

LEMMA OrderNext ==
  ASSUME LedgerInv, OrderInv, [Next]_vars
  PROVE  OrderInv'
<1>1. \A e \in events : e.approval \in DOMAIN approvals
  BY DEF LedgerInv, Faithful
<1>2. CASE Environment \/ UNCHANGED vars
  BY <1>1, <1>2, OutsideGrows DEF OrderInv, OrderCall
<1>3. ASSUME NEW c \in Clients, Start(c) \/ Progress(c) \/ Crash(c), ~ Commit(c)
      PROVE  OrderInv'
  <2>1. /\ UNCHANGED <<approvals, events>>
        /\ \A d \in Clients \ {c} : pc'[d] = pc[d] /\ call'[d] = call[d]
    BY <1>3, CallerGoesOn
  <2>2. OrderCall(pc'[c], call'[c])
    <3> SUFFICES ASSUME pc'[c] = "commit", call'[c].row.decision # "reject"
                 PROVE  OrderCall(pc'[c], call'[c])
      BY DEF OrderCall
    <3>1. PICK r \in Row : /\ r = call'[c].row /\ call'[c].at = Later(now, r.ts)
                           /\ \E limit : Activable(r, limit)
      BY <1>3, CallerGoesOn DEF Call
    <3>2. r.ts <= Later(now, r.ts)
      BY LaterFact DEF LedgerInv, TypeOK, Row
    <3>3. ASSUME NEW e \in events, e.approval = r.corrects
          PROVE  InSequence(r.slug, r.decision, r.ver, e)
      <4>1. r.corrects # 0
        BY <3>3, EventFields
      <4>2. CorrectsPublication(r)
        BY <3>1, <4>1 DEF Activable, ProjectionValid
      <4>3. \A f \in events : f.approval = e.approval => f = e
        BY DEF LedgerInv, Faithful
      <4> QED
        BY <3>3, <4>2, <4>3 DEF CorrectsPublication, InSequence
    <3> QED
      BY <3>1, <3>2, <3>3 DEF OrderCall
  <2> QED
    BY <2>1, <2>2 DEF OrderInv, OrderCall
<1>4. ASSUME NEW c \in Clients, Commit(c)
      PROVE  OrderInv'
  <2>1. PICK k, id, x : k \in Call /\ Adds(c, k, id, x)
    BY <1>4, CommitAdds
  <2>2. OrderCall("commit", k)
    BY <2>1 DEF Adds, OrderInv
  <2>3. \A e \in events' : approvals'[e.approval].ts <= e.at
    BY <1>1, <2>1, <2>2 DEF Adds, OrderInv, OrderCall
  <2>4. \A e, f \in events' : f.corrects = e.approval => InSequence(f.slug, f.decision, f.ver, e)
    BY <2>1, <2>2 DEF Adds, OrderInv, OrderCall
  <2>5. \A d \in Clients : OrderCall(pc[d], call[d])'
    BY <2>1 DEF Adds, OrderInv, OrderCall
  <2> QED
    BY <2>3, <2>4, <2>5 DEF OrderInv
<1> QED
  BY <1>2, <1>3, <1>4 DEF Next

LEMMA OrderInit == Init => OrderInv
<1> SUFFICES ASSUME Init PROVE OrderInv
  OBVIOUS
<1>1. events = {} /\ \A c \in Clients : pc[c] = "idle"
  BY DEF Init
<1> QED
  BY <1>1 DEF OrderInv, OrderCall

LEMMA ClockInit == Init => ClockInv
<1> SUFFICES ASSUME Init PROVE ClockInv
  OBVIOUS
<1>1. events = {} /\ DOMAIN approvals = {} /\ \A c \in Clients : pc[c] = "idle"
  BY DEF Init
<1> QED
  BY <1>1 DEF ClockInv, ClockCall, Ascending

LEMMA ClockNext ==
  ASSUME Synchronised, LedgerInv, ClockInv, [Next]_vars
  PROVE  ClockInv'
<1>1. /\ now \in Nat
      /\ \A e \in events : e.approval \in DOMAIN approvals /\ e.at \in Nat /\ e.ver \in Nat
      /\ \A i \in DOMAIN approvals : approvals[i].ts \in Nat
      /\ \A d \in Clients : pc[d] # "idle" => call[d].row.ts \in Nat /\ call[d].at \in Nat
  <2>1. \A r \in Row : r.ts \in Nat
    BY DEF Row
  <2>2. now \in Nat /\ \A i \in DOMAIN approvals : approvals[i] \in Row
    BY DEF LedgerInv, TypeOK
  <2>3. \A e \in events : e.approval \in DOMAIN approvals /\ e.at \in Nat
    BY EventFields
  <2>4. \A e \in events : e.ver \in Nat
    BY DEF LedgerInv, TypeOK, Event, Versions
  <2>5. \A d \in Clients : pc[d] # "idle" => call[d].row.ts \in Nat /\ call[d].at \in Nat
    BY DEF LedgerInv, TypeOK, Call, Row
  <2> QED
    BY <2>1, <2>2, <2>3, <2>4, <2>5
<1>2. CASE Environment \/ UNCHANGED vars
  <2>1. /\ UNCHANGED <<events, pc, call>> /\ now \in Nat /\ now' \in Nat /\ now <= now'
        /\ \A i \in DOMAIN approvals : i \in DOMAIN approvals' /\ approvals'[i] = approvals[i]
        /\ \A i \in DOMAIN approvals' : i \in DOMAIN approvals \/ approvals'[i].ts = now
    BY <1>2, OutsideGrows
  <2>2. \A i \in DOMAIN approvals' : approvals'[i].ts <= now'
    BY <1>1, <2>1 DEF ClockInv
  <2>3. (\A e \in events : e.at <= now') /\ Ascending'
    BY <1>1, <2>1 DEF ClockInv, Ascending
  <2>4. \A d \in Clients : ClockCall(pc[d], call[d])'
    BY <1>1, <2>1 DEF ClockInv, ClockCall
  <2> QED
    BY <2>1, <2>2, <2>3, <2>4 DEF ClockInv
<1>3. ASSUME NEW c \in Clients, Start(c) \/ Progress(c) \/ Crash(c), ~ Commit(c)
      PROVE  ClockInv'
  <2>1. /\ UNCHANGED <<approvals, events, now>>
        /\ \A d \in Clients \ {c} : pc'[d] = pc[d] /\ call'[d] = call[d]
    BY <1>3, CallerGoesOn
  <2>2. Skew[c] = 0
    BY DEF Synchronised
  <2>3. pc'[c] # "idle" => call'[c].row.ts <= now
    BY <1>1, <1>3, <2>2, CallerGoesOn DEF ClockInv, ClockCall, CarriesOn
  <2>4. pc'[c] = "commit" => call'[c].at = now
    BY <1>1, <1>3, CallerGoesOn DEF ClockInv, ClockCall, Later
  <2>5. ClockCall(pc'[c], call'[c])
    BY <1>1, <2>3, <2>4 DEF ClockInv, ClockCall
  <2> QED
    BY <2>1, <2>5 DEF ClockInv, ClockCall, Ascending
<1>4. ASSUME NEW c \in Clients, Commit(c)
      PROVE  ClockInv'
  <2>1. PICK k, id, x : k \in Call /\ Adds(c, k, id, x)
    BY <1>4, CommitAdds
  <2>2. /\ k.row.ts <= now /\ k.at <= now
        /\ \A e \in events : e.slug = k.row.slug => e.at <= k.at
    BY <2>1 DEF Adds, ClockInv, ClockCall
  <2>3. k.row.decision = "approve" =>
          \A e \in events : e.slug = k.row.slug /\ e.decision = "approve" => e.ver < k.row.ver
    BY <2>1 DEF Adds, LedgerInv, Pending, PendingCall, PendingRow, ExceedsHistory, Approved
  <2>4. \A i \in DOMAIN approvals' : approvals'[i].ts <= now'
    BY <2>1, <2>2 DEF Adds, ClockInv
  <2>5. \A e \in events' : e.at <= now'
    BY <2>1, <2>2 DEF Adds, ClockInv
  <2>6. Ascending'
    <3>1. k.at \in Nat
      BY <2>1 DEF Call
    <3> QED
      BY <1>1, <2>1, <2>2, <2>3, <3>1 DEF Adds, ClockInv, Ascending
  <2>7. \A d \in Clients : ClockCall(pc[d], call[d])'
    BY <2>1 DEF Adds, ClockInv, ClockCall
  <2> QED
    BY <2>4, <2>5, <2>6, <2>7 DEF ClockInv
<1> QED
  BY <1>2, <1>3, <1>4 DEF Next

\* Where all clocks agree, reconciliation never finds an issue in what the
\* actuator wrote, and the Python consumers show what the SQL readers show,
\* whatever races, dies, is imported raw or changes in the policy.
THEOREM ClocksAgree == Synchronised => (Spec => []ConsumersAgree)
<1> SUFFICES ASSUME Synchronised PROVE Spec => []ConsumersAgree
  OBVIOUS
<1>1. LedgerInv /\ EvidenceInv /\ OrderInv /\ ClockInv /\ OneCorrection /\ FrozenEvidence => ConsumersAgree
  <2> SUFFICES ASSUME LedgerInv, EvidenceInv, OrderInv, ClockInv, OneCorrection, FrozenEvidence,
                      NEW s \in Slugs
               PROVE  ~ Affected(s)
    BY DEF ConsumersAgree, Clean, ActiveBySlug
  <2>1. ASSUME NEW e \in events
        PROVE  ~ BrokenLink(e)
    <3> SUFFICES ASSUME e.corrects # 0 PROVE ~ BrokenLink(e)
      BY DEF BrokenLink
    <3>1. PICK p \in events : Corrects(e.corrects, e.slug, p)
      BY DEF LedgerInv, Linked
    <3>2. p.approval = e.corrects /\ p.decision = "approve" /\ p.slug = e.slug
      BY <3>1 DEF Corrects
    <3>3. InSequence(e.slug, e.decision, e.ver, p)
      BY <3>2 DEF OrderInv
    <3>4. p.at <= e.at
      BY <3>2 DEF EvidenceInv, CorrectionsInOrder
    <3> QED
      BY <3>2, <3>3, <3>4 DEF BrokenLink, InSequence
  <2>2. ASSUME NEW e \in events
        PROVE  ~ Drifted(e)
    <3>1. PICK a \in Row : a = approvals[e.approval]
      BY EventFields
    <3>2. /\ e.approval \in DOMAIN approvals
          /\ <<a.decision, a.slug, a.ver, a.corrects>> = <<e.decision, e.slug, e.ver, e.corrects>>
      BY <3>1 DEF LedgerInv, Faithful
    <3>3. a.ts <= e.at /\ a.ts \in Nat /\ e.at \in Nat
      BY <3>1, EventFields DEF OrderInv
    <3>4. Vouched(a, e.threshold) /\ a.slug \in Slugs /\ a.ver \in Versions
      BY <3>1 DEF EvidenceInv, EventsVouched, Row
    <3>5. aggregate[a.slug][a.ver] \in Nat /\ e.threshold \in Nat
      BY <3>4, EventFields DEF LedgerInv, TypeOK
    <3>6. ~ (aggregate[a.slug][a.ver] < MinApprovalSafety)
      BY <3>4, <3>5 DEF Vouched, Later, MinApprovalSafety
    <3> QED
      BY <3>1, <3>2, <3>3, <3>4, <3>6 DEF Drifted, Vouched
  <2>3. ~ OutOfOrder(s)
    <3> SUFFICES ASSUME NEW e \in Approved(s), NEW f \in Approved(s), e.at < f.at, f.ver <= e.ver
                 PROVE  FALSE
      BY DEF OutOfOrder
    <3>1. e.ver < f.ver
      BY DEF Approved, ClockInv, Ascending
    <3>2. e \in Event /\ f \in Event
      BY DEF Approved, LedgerInv, TypeOK
    <3>3. e.ver \in Nat /\ f.ver \in Nat
      BY <3>2 DEF Event, Versions
    <3> QED
      BY <3>1, <3>3
  <2>4. ~ Branched(s)
    BY DEF Branched, OneCorrection
  <2>5. ~ (Cardinality(Heads(s)) > 1)
    <3>1. CASE Heads(s) = {}
      BY <3>1, FS_EmptySet
    <3>2. CASE Heads(s) # {}
      <4>1. PICK e \in Heads(s) : TRUE
        BY <3>2
      <4>2. Heads(s) = {e}
        BY DEF LedgerInv, OneHead
      <4> QED
        BY <4>2, FS_Singleton
    <3> QED
      BY <3>1, <3>2
  <2> QED
    BY <2>1, <2>2, <2>3, <2>4, <2>5 DEF Affected
<1>2. LedgerInv /\ EvidenceInv /\ OrderInv /\ ClockInv /\ [Next]_vars
      => LedgerInv' /\ EvidenceInv' /\ OrderInv' /\ ClockInv'
  BY LedgerNext, EvidenceNext, OrderNext, ClockNext
<1> QED
  BY <1>1, <1>2, LedgerInit, EvidenceInit, OrderInit, ClockInit, SingleCorrection, EvidenceFrozen,
     PTL DEF Spec

-----------------------------------------------------------------------------
(* The derived lifecycle states.                                           *)

\* Nothing is appended raw.
GuardedInv ==
  /\ \A i \in DOMAIN approvals : approvals[i].via = "actuator"
  /\ \A c \in Clients : pc[c] # "idle" => call[c].row.via = "actuator"

LEMMA GuardedNext ==
  ASSUME MaxImports = 0, LedgerInv, GuardedInv, [Next]_vars
  PROVE  GuardedInv'
<1>1. \A r : ~ Import(r)
  <2> SUFFICES ASSUME NEW r, Import(r) PROVE FALSE
    OBVIOUS
  <2> DEFINE raw == {i \in DOMAIN approvals : approvals[i].via = "raw"}
  <2>1. DOMAIN approvals = 1 .. Len(approvals) /\ Len(approvals) \in Nat
    BY DEF LedgerInv, TypeOK
  <2>2. IsFiniteSet(raw)
    <3>1. IsFiniteSet(1 .. Len(approvals))
      BY <2>1, FS_Interval
    <3>2. raw \subseteq 1 .. Len(approvals)
      BY <2>1
    <3> QED
      BY <3>1, <3>2, FS_Subset
  <2>3. Cardinality(raw) \in Nat
    BY <2>2, FS_CardinalityType
  <2> QED
    BY <2>3 DEF Import
<1>2. CASE Environment \/ UNCHANGED vars
  <2>1. UNCHANGED <<approvals, pc, call>>
    BY <1>1, <1>2 DEF Environment, SecurityAggregate, ContentRound, ConfigurePolicy, Tick, vars
  <2> QED
    BY <2>1 DEF GuardedInv
<1>3. ASSUME NEW c \in Clients, Start(c) \/ Progress(c) \/ Crash(c), ~ Commit(c)
      PROVE  GuardedInv'
  <2>1. /\ UNCHANGED approvals
        /\ \A d \in Clients \ {c} : pc'[d] = pc[d] /\ call'[d] = call[d]
        /\ pc'[c] # "idle" => CarriesOn(c, call'[c].row)
    BY <1>3, CallerGoesOn
  <2> QED
    BY <2>1 DEF GuardedInv, CarriesOn
<1>4. ASSUME NEW c \in Clients, Commit(c)
      PROVE  GuardedInv'
  <2>1. PICK k, id, x : k \in Call /\ Adds(c, k, id, x)
    BY <1>4, CommitAdds
  <2> QED
    BY <2>1 DEF Adds, GuardedInv
<1> QED
  BY <1>2, <1>3, <1>4 DEF Next

\* A state other than published is derived without an approval.
LEMMA PublishedIs ==
  ASSUME NEW s, NEW v, "published" \in DerivedStates(s, v)
  PROVE  \E i \in Latest(s, v) : approvals[i].decision = "approve"
<1>1. \A d : StateOfDecision(d, s, v) = "published" => d = "approve"
  BY DEF StateOfDecision
<1> QED
  BY <1>1 DEF DerivedStates

\* Where nothing is appended raw, a version that lifecycle derivation calls
\* published was projected and has not been withdrawn, however the callers'
\* clocks run and whatever races or dies.
THEOREM DerivedTruly == MaxImports = 0 => (Spec => []PublishedIsNotWithdrawn)
<1> SUFFICES ASSUME MaxImports = 0 PROVE Spec => []PublishedIsNotWithdrawn
  OBVIOUS
<1>1. LedgerInv /\ OnceInv /\ OrderInv /\ GuardedInv => PublishedIsNotWithdrawn
  <2> SUFFICES ASSUME LedgerInv, OnceInv, OrderInv, GuardedInv, NEW s \in Slugs, NEW v \in Versions,
                      "published" \in DerivedStates(s, v)
               PROVE  \E e \in Approved(s) :
                        /\ e.ver = v
                        /\ ~ \E f \in events : f.decision = "unpublish" /\ f.corrects = e.approval
    BY DEF PublishedIsNotWithdrawn
  <2>1. PICK i \in Latest(s, v) : approvals[i].decision = "approve"
    BY PublishedIs
  <2>2. i \in Related(s, v) /\ i \notin Superseded(s, v)
    BY DEF Latest
  <2>3. i \in DOMAIN approvals /\ approvals[i].slug = s /\ approvals[i].ver = v
    BY <2>2 DEF Related
  <2>4. PICK e \in events : e.approval = i
    BY <2>1, <2>3 DEF OnceInv, ActuatorProjected, GuardedInv, Projected
  <2>5. e \in Approved(s) /\ e.ver = v
    BY <2>1, <2>3, <2>4 DEF LedgerInv, Faithful, Approved
  <2>6. ASSUME NEW f \in events, f.decision = "unpublish", f.corrects = e.approval
        PROVE  FALSE
    <3>1. f.slug = s /\ f.ver = v
      BY <2>5, <2>6 DEF OrderInv, InSequence, Approved
    <3>2. /\ f.approval \in DOMAIN approvals /\ approvals[f.approval].corrects = i
          /\ approvals[f.approval].slug = s /\ approvals[f.approval].ver = v
      BY <2>4, <2>6, <3>1 DEF LedgerInv, Faithful
    <3> QED
      BY <2>2, <3>2 DEF Superseded, Related
  <2> QED
    BY <2>5, <2>6
<1>2. LedgerInv /\ OnceInv /\ OrderInv /\ GuardedInv /\ [Next]_vars
      => LedgerInv' /\ OnceInv' /\ OrderInv' /\ GuardedInv'
  BY LedgerNext, OnceNext, OrderNext, GuardedNext
<1>3. Init => GuardedInv
  BY DEF Init, GuardedInv
<1> QED
  BY <1>1, <1>2, <1>3, LedgerInit, OnceInit, OrderInit, PTL DEF Spec

=============================================================================
