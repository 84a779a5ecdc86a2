\* Three rounds of one skill with findings that are raised, omitted, resolved,
\* downgraded, rewritten and reopened.
SPECIFICATION Spec
CONSTANTS
  Slugs = {s1}
  MaxVersion = 1
  Lineages = {l1}
  Reviewers = {a, b, d}
  Fixers = {x}
  CheckResults = {TRUE}
  Findings = {f1}
  Changes = {g, h}
  Collectors = {c1}
  MaxAttempts = 64
  MaxBatch = 1
  MaxLeases = 3
INVARIANTS
  BlockersAnswered
  GatesAgree
PROPERTIES
  ReadinessFrozen
SYMMETRY FindingSymmetry
