----------------------------- MODULE Scoreboard -----------------------------
(* The scoreboard document: what one pass over the registry, the skills    *)
(* tree and the database says of every cell, the counts taken from the     *)
(* cells, and the validation that recomputes them.  A reading records what *)
(* each part of a build saw; the document is a function of the reading.    *)
EXTENDS Integers, FiniteSets, Sequences

CONSTANTS
  N,           \* skills, in the order in which the tree is read
  MaxContent,  \* the contents a skill's source goes through: 1, 2, ...
  RoleOf,      \* the registry's role of each skill
  Quality,     \* what holds of a content, of Qualities
  Expected     \* the scope: active, declined, roles, target per role

Slugs == 1..N
Contents == 1..MaxContent
Absent == 0
Qualities == {"loads", "strict", "consistent", "placed"}

ASSUME ScoreboardAssumption ==
  /\ N \in Nat \ {0} /\ MaxContent \in Nat
  /\ DOMAIN RoleOf = Slugs
  /\ Quality \in [Contents -> SUBSET Qualities]
  /\ Expected \in [active : Nat, declined : Nat, roles : Nat, target : Nat \ {0}]

\* How far one exact version of a skill has come in the database.
Stages == {"none", "captured", "blocked", "passed", "reviewed", "ready",
           "rejected", "approved", "reopened"}

Secured == Stages \ {"none", "captured", "blocked"}
Judged == Secured \ {"passed"}
Settled == {"ready", "rejected", "approved"}

FlagNames == {"authored", "strict_lint_pass", "security_pass", "reviewed",
              "recheck_ready", "approved", "published"}
StateNames == {"missing", "lint_blocked", "consistency_blocked", "security_pending",
               "security_blocked", "review_pending", "review_blocked", "recheck_ready",
               "approval_rejected", "published", "published_stale", "invalid"}
BlockerSources == {"lint", "consistency", "scan", "review", "approval"}

-----------------------------------------------------------------------------
(* One cell *)

Is(k, quality) == k # Absent /\ quality \in Quality[k]

LintOf(k) ==
  CASE k = Absent      -> "missing"
    [] Is(k, "strict") -> "passed"
    [] OTHER           -> "failed"

\* A source that cannot be loaded has no hash.
Hash(r, s) == IF Is(r.sources[s], "loads") THEN r.sources[s] ELSE Absent

\* The published head, unless a projection issue quarantines the skill.
Publication(r, s) == IF s \in r.db.broken THEN Absent ELSE r.db.head[s]

Current(r, s) == Publication(r, s) # Absent /\ Publication(r, s) = Hash(r, s)

Stale(r, s) == Publication(r, s) # Absent /\ ~Current(r, s)

\* The exact version of the source.
Stage(r, s) == IF Hash(r, s) = Absent THEN "none" ELSE r.db.stage[s][Hash(r, s)]

\* Evidence that is missing a stage or contradicts itself is blocked as well.
Security(r, s) ==
  CASE Current(r, s) \/ Stage(r, s) \in Secured -> "passed"
    [] Stage(r, s) = "blocked"                  -> "blocked"
    [] OTHER                                    -> "unscanned"

\* A publication's review is the one its approval froze.  A version without a
\* review of its own is stale when another version of the skill has one.
ContentStatus(r, s) ==
  CASE Current(r, s) \/ Stage(r, s) \in Settled              -> "ready"
    [] ~Current(r, s) /\ Stage(r, s) \in Judged \ Settled    -> "reviewed"
    [] /\ ~Current(r, s) /\ Stage(r, s) \notin Judged
       /\ \E k \in Contents : r.db.stage[s][k] \in Judged    -> "stale"
    [] OTHER                                                 -> "unreviewed"

Reviewed(r, s) == Current(r, s) \/ Stage(r, s) \in Judged
Rejected(r, s) == Stage(r, s) = "rejected"

\* Mutant: later reviews are looked for where nothing is published.
ReopenedUnpublished(r, s) == ~Current(r, s) /\ Stage(r, s) = "reopened"

\* A published version whose later review is not ready.
Reopened(r, s) == Current(r, s) /\ Stage(r, s) = "reopened"

Misplaced(r, s) ==
  \/ Hash(r, s) # Absent /\ ~Is(Hash(r, s), "placed")
  \/ Publication(r, s) # Absent /\ ~Is(Publication(r, s), "placed")

Flags(r, s) ==
  LET holds == [authored |-> r.sources[s] # Absent,
                strict_lint_pass |-> r.lint[s] = "passed",
                security_pass |-> Security(r, s) = "passed",
                reviewed |-> Reviewed(r, s),
                recheck_ready |-> ContentStatus(r, s) = "ready",
                approved |-> Current(r, s), published |-> Current(r, s)]
  IN  {f \in FlagNames : holds[f]}

Blocker(source, code, holds) == IF holds THEN {<<source, code>>} ELSE {}

Blockers(r, s) ==
  LET authored == r.sources[s] # Absent
  IN  UNION {Blocker("filesystem", "SOURCE_MISSING", ~authored),
             Blocker("filesystem", "SOURCE_INVALID", authored /\ Hash(r, s) = Absent),
             Blocker("lint", "STRICT_LINT_BLOCKED", authored /\ r.lint[s] # "passed"),
             Blocker("consistency", "CONSISTENCY_BLOCKED", ~r.consistency[s]),
             Blocker("scan", "SECURITY_BLOCKED", Security(r, s) = "blocked"),
             Blocker("review", "CONTENT_REVIEW_BLOCKED",
                     Reviewed(r, s) /\ ContentStatus(r, s) # "ready"),
             Blocker("approval", "APPROVAL_STALE", Stale(r, s)),
             Blocker("registry", "FACET_DRIFT", Misplaced(r, s)),
             Blocker("approval", "PROJECTION_DRIFT", s \in r.db.broken),
             Blocker("approval", "APPROVAL_REJECTED", Rejected(r, s))}

\* The first state whose condition holds.
State(r, s) ==
  LET If(holds, state) == IF holds THEN <<state>> ELSE <<>>
  IN  Head(If(Stale(r, s), "published_stale") \o If(Current(r, s), "published")
           \o If(s \in r.db.broken, "invalid") \o If(r.sources[s] = Absent, "missing")
           \o If(Hash(r, s) = Absent, "invalid") \o If(r.lint[s] # "passed", "lint_blocked")
           \o If(~r.consistency[s], "consistency_blocked")
           \o If(Rejected(r, s), "approval_rejected")
           \o If(Security(r, s) = "unscanned", "security_pending")
           \o If(Security(r, s) = "blocked", "security_blocked")
           \o If(~Reviewed(r, s), "review_pending")
           \o If(ContentStatus(r, s) # "ready", "review_blocked") \o <<"recheck_ready">>)

Cell(r, s) ==
  IF r.rows[s] = "declined"
  THEN [status |-> "declined", state |-> "declined", flags |-> {}, blockers |-> {},
        source |-> Absent, content |-> "unreviewed", role |-> RoleOf[s]]
  ELSE [status |-> "active", state |-> State(r, s), flags |-> Flags(r, s),
        blockers |-> Blockers(r, s), source |-> Hash(r, s), content |-> ContentStatus(r, s),
        role |-> RoleOf[s]]

-----------------------------------------------------------------------------
(* The document *)

Rows(r, status) == {s \in Slugs : r.rows[s] = status}
Roles(S) == {RoleOf[s] : s \in S}

Anomalies(r) ==
  LET active == Rows(r, "active")
      published == {s \in Slugs : Publication(r, s) # Absent}
      All(kind, S) == {<<kind, s>> : s \in S}
  IN  UNION {All("facet_drift", {s \in active : Misplaced(r, s)}),
             All("unregistered_authored", {s \in Slugs \ active : r.sources[s] # Absent}),
             All("unregistered_publications", published \ active),
             All("declined_publications", published \cap Rows(r, "declined")),
             All("stale_source_hashes", {s \in active : Stale(r, s)}),
             All("stale_approval_hashes", {s \in active : Stale(r, s)}),
             All("stale_review_hashes", {s \in active : ContentStatus(r, s) = "stale"}),
             All("post_approval_blockers", {s \in active : Reopened(r, s)}),
             All("projection_drift", r.db.broken)}

\* The sum of a tally's numbers, each at most N.
Total(tally) ==
  Cardinality({x \in (DOMAIN tally) \X (1..N) : x[2] <= tally[x[1]]})

\* Mutant: a role is credited with every published row of it, declined ones too.
RoleRowOfAll(r, cells, role) ==
  LET rows == {s \in Rows(r, "active") \cup Rows(r, "declined") : RoleOf[s] = role}
      published == Cardinality({s \in rows : Current(r, s)})
  IN  [active |-> Cardinality(rows \cap Rows(r, "active")),
       declined |-> Cardinality(rows \cap Rows(r, "declined")),
       published |-> published, meets |-> published >= Expected.target]

\* The producer counts a role's active cells and its declined rows.
RoleRow(r, cells, role) ==
  LET mine == {s \in Rows(r, "active") : cells[s].role = role}
      published == Cardinality({s \in mine : "published" \in cells[s].flags})
  IN  [active |-> Cardinality(mine),
       declined |-> Cardinality({s \in Rows(r, "declined") : RoleOf[s] = role}),
       published |-> published, meets |-> published >= Expected.target]

\* What the producer counts, over the registry's rows and the cells it made.
Counts(r, cells) ==
  LET active == Rows(r, "active")
      declined == Rows(r, "declined")
  IN  [total |-> Cardinality(active \cup declined), active |-> Cardinality(active),
       declined |-> Cardinality(declined), role_count |-> Cardinality(Roles(active)),
       funnel |-> [f \in FlagNames |-> Cardinality({s \in active : f \in cells[s].flags})],
       blocked |-> Cardinality({s \in active : cells[s].blockers # {}}),
       by_source |-> [q \in BlockerSources |->
                        Cardinality({s \in active : \E b \in cells[s].blockers : b[1] = q})],
       states |-> [q \in StateNames |-> Cardinality({s \in active : cells[s].state = q})],
       roles |-> [role \in Roles(active) |-> RoleRow(r, cells, role)]]

Conservation(c) ==
  /\ c.total = c.active + c.declined
  /\ Total(c.states) = c.active
  /\ Total([role \in DOMAIN c.roles |-> c.roles[role].active]) = c.active
  /\ Total([role \in DOMAIN c.roles |-> c.roles[role].published]) = c.funnel["published"]
  /\ c.funnel["reviewed"] >= c.funnel["recheck_ready"]
  /\ c.funnel["approved"] = c.funnel["published"]
  /\ \A f \in FlagNames : c.funnel[f] \in 0..c.active

\* What the release gate compares, and with what.
Release(c, anomalies, errors) ==
  {<<"REGISTRY_ACTIVE", c.active, Expected.active>>,
   <<"REGISTRY_DECLINED", c.declined, Expected.declined>>,
   <<"REGISTRY_ROLES", c.role_count, Expected.roles>>,
   <<"ALL_AUTHORED", c.funnel["authored"], c.active>>,
   <<"ALL_STRICT_LINT", c.funnel["strict_lint_pass"], c.active>>,
   <<"ALL_REVIEWED", c.funnel["reviewed"], c.active>>,
   <<"ALL_RECHECK_READY", c.funnel["recheck_ready"], c.active>>,
   <<"ALL_APPROVED", c.funnel["approved"], c.active>>,
   <<"ALL_PUBLISHED", c.funnel["published"], c.active>>,
   <<"ALL_ROLES_TARGET", Cardinality({role \in DOMAIN c.roles : c.roles[role].meets}),
     c.role_count>>,
   <<"CONSISTENCY_ERRORS", errors, 0>>, <<"BLOCKERS", c.blocked, 0>>,
   <<"ANOMALIES", Cardinality(anomalies), 0>>,
   <<"CONSERVATION", IF Conservation(c) THEN 1 ELSE 0, 1>>}

Passed(release) == \A check \in release : check[2] = check[3]

Body(r) ==
  LET cells == [s \in Rows(r, "active") \cup Rows(r, "declined") |-> Cell(r, s)]
      counts == Counts(r, cells)
      errors == Cardinality({s \in Slugs : ~r.consistency[s]})
  IN  [cells |-> cells, counts |-> counts, anomalies |-> Anomalies(r), errors |-> errors,
       conserved |-> Conservation(counts),
       release |-> Release(counts, Anomalies(r), errors),
       passed |-> Passed(Release(counts, Anomalies(r), errors)),
       commit |-> r.commit, dirty |-> r.dirty, registry |-> r.registry,
       sources |-> [s \in Slugs |-> Hash(r, s)], full |-> r.full]

-----------------------------------------------------------------------------
(* The validation of a document.  It knows nothing of the registry or of   *)
(* the reading: it counts the cells itself, each in the role it names.     *)

ActiveOf(cells) == {s \in DOMAIN cells : cells[s].status = "active"}
DeclinedOf(cells) == {s \in DOMAIN cells : cells[s].status = "declined"}

\* Mutant: a role's cells are counted whatever their status.
RecountRoleOfAll(cells, role) ==
  LET mine == {s \in DOMAIN cells : cells[s].role = role}
      credit == Cardinality({s \in mine : "published" \in cells[s].flags})
  IN  [active |-> Cardinality(mine),
       declined |-> Cardinality({s \in DeclinedOf(cells) : cells[s].role = role}),
       published |-> credit, meets |-> credit >= Expected.target]

RecountRole(cells, role) ==
  LET mine == {s \in ActiveOf(cells) : cells[s].role = role}
      credit == Cardinality({s \in mine : "published" \in cells[s].flags})
  IN  [active |-> Cardinality(mine),
       declined |-> Cardinality({s \in DeclinedOf(cells) : cells[s].role = role}),
       published |-> credit, meets |-> credit >= Expected.target]

Recount(cells) ==
  LET active == ActiveOf(cells)
      roles == {cells[s].role : s \in active}
  IN  [total |-> Cardinality(DOMAIN cells), active |-> Cardinality(active),
       declined |-> Cardinality(DeclinedOf(cells)), role_count |-> Cardinality(roles),
       funnel |-> [f \in FlagNames |-> Cardinality({s \in active : f \in cells[s].flags})],
       blocked |-> Cardinality({s \in active : cells[s].blockers # {}}),
       by_source |-> [q \in BlockerSources |->
                        Cardinality({s \in active : \E b \in cells[s].blockers : b[1] = q})],
       states |-> [q \in StateNames |-> Cardinality({s \in active : cells[s].state = q})],
       roles |-> [role \in roles |-> RecountRole(cells, role)]]

\* A cell is of one status, and a declined one is credited with nothing.
CellsValid(cells) ==
  \A s \in DOMAIN cells :
    \/ cells[s].status = "active" /\ cells[s].state \in StateNames
    \/ /\ cells[s].status = "declined"
       /\ cells[s].state = "declined" /\ cells[s].flags = {}

\* The sums that the document's rows must come to, with the states recounted.
ExpectedConservation(d, states) ==
  LET registry == d.counts
      rows == d.counts.roles
      funnel == d.counts.funnel
  IN  /\ registry.total = registry.active + registry.declined
      /\ Total(states) = registry.active
      /\ Total([role \in DOMAIN rows |-> rows[role].active]) = registry.active
      /\ Total([role \in DOMAIN rows |-> rows[role].published]) = funnel["published"]
      /\ funnel["recheck_ready"] <= funnel["reviewed"]
      /\ funnel["published"] = funnel["approved"]
      /\ \A f \in FlagNames : 0 <= funnel[f] /\ funnel[f] <= registry.active

\* What each check of the release must say, by the document's own numbers.
ReleaseExpected(d) ==
  LET registry == d.counts
      funnel == d.counts.funnel
      Meeting == {role \in DOMAIN d.counts.roles : d.counts.roles[role].meets}
      WholeFunnel == {<<"ALL_AUTHORED", "authored">>, <<"ALL_STRICT_LINT", "strict_lint_pass">>,
                      <<"ALL_REVIEWED", "reviewed">>, <<"ALL_RECHECK_READY", "recheck_ready">>,
                      <<"ALL_APPROVED", "approved">>, <<"ALL_PUBLISHED", "published">>}
  IN  {<<w[1], funnel[w[2]], registry.active>> : w \in WholeFunnel} \cup
      {<<"REGISTRY_ACTIVE", registry.active, Expected.active>>,
       <<"REGISTRY_DECLINED", registry.declined, Expected.declined>>,
       <<"REGISTRY_ROLES", registry.role_count, Expected.roles>>,
       <<"ALL_ROLES_TARGET", Cardinality(Meeting), registry.role_count>>,
       <<"CONSISTENCY_ERRORS", d.errors, 0>>, <<"BLOCKERS", registry.blocked, 0>>,
       <<"ANOMALIES", Cardinality(d.anomalies), 0>>,
       <<"CONSERVATION", IF d.conserved THEN 1 ELSE 0, 1>>}

\* What finalizing and every later load demand of a document.
Accepts(d) ==
  LET counted == Recount(d.cells)
      release == ReleaseExpected(d)
  IN  /\ CellsValid(d.cells)
      /\ d.counts = counted
      /\ d.conserved = ExpectedConservation(d, counted.states)
      /\ d.release = release
      /\ d.passed = \A check \in release : check[2] = check[3]
=============================================================================
