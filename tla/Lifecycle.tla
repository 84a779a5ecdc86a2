----------------------------- MODULE Lifecycle -----------------------------
(***************************************************************************)
(* The lifecycle state of a skill version.  It is no column: derive_state  *)
(* (spine/lifecycle.py) recomputes it from the artifacts that reference    *)
(* the version, in whatever order they are given, and never looks at the   *)
(* projection that the catalog is read from.                               *)
(***************************************************************************)
EXTENDS Publication

\* The approval artifacts that reference version v: a correction by a newer
\* version is not one of them.
Related(s, v) == {i \in DOMAIN approvals : approvals[i].slug = s /\ approvals[i].ver = v}

\* Mutant: corrections are not looked at.
SupersededByNone(s, v) == {i \in Related(s, v) : FALSE}

Superseded(s, v) == {approvals[i].corrects : i \in Related(s, v)}

\* The approvals one of which max() may return: timestamps may be equal.
Latest(s, v) ==
  LET active == Related(s, v) \ Superseded(s, v)
  IN {i \in active : \A j \in active : approvals[j].ts <= approvals[i].ts}

Reviewed(s, v) == aggregate[s][v] > 0 \/ \E n \in DOMAIN lineage[s] : lineage[s][n].ver = v

\* Scans are not in the model: "submitted" stands for SCANNED too.
StateOfDecision(decision, s, v) ==
  CASE decision = "approve" -> "published"
    [] decision = "unpublish" -> "approved"
    [] OTHER -> IF Reviewed(s, v) THEN "reviewed" ELSE "submitted"

\* The states derive_state may return for version v of s.
DerivedStates(s, v) ==
  IF Latest(s, v) = {} THEN {StateOfDecision("none", s, v)}
  ELSE {StateOfDecision(approvals[i].decision, s, v) : i \in Latest(s, v)}

-----------------------------------------------------------------------------
(* Properties.                                                             *)

\* However the callers' clocks run, a version derived as published was
\* projected and has not been withdrawn: the correction chain decides, not the
\* timestamps.
PublishedIsNotWithdrawn ==
  \A s \in Slugs, v \in Versions : "published" \in DerivedStates(s, v) =>
    \E e \in Approved(s) :
      /\ e.ver = v
      /\ ~ \E f \in events : f.decision = "unpublish" /\ f.corrects = e.approval
=============================================================================
