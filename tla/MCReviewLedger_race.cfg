\* Two collectors and raw writers race for two versions of one skill: stale,
\* duplicate and foreign leases, contexts that review and fix.
SPECIFICATION Spec
CONSTANTS
  Slugs = {s1}
  MaxVersion = 2
  Lineages = {l1, l2}
  Reviewers = {a, b, d}
  Fixers = {a, b, d}
  CheckResults = {TRUE}
  Findings = {}
  Changes = {}
  Collectors = {c1, c2}
  MaxAttempts = 3
  MaxBatch = 1
  MaxLeases = 3
INVARIANTS
  LineageInv
  IndependentLineage
  ReplacementPossible
PROPERTIES
  LogRefinement
SYMMETRY RaceSymmetry
