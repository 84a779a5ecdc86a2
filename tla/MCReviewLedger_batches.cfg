\* Two collectors append batches for two skills in either order.
SPECIFICATION FairSpec
CONSTANTS
  Slugs = {s1, s2}
  MaxVersion = 1
  Lineages = {l1, l2}
  Reviewers = {a, b}
  Fixers = {x}
  CheckResults = {TRUE}
  Findings = {}
  Changes = {}
  Collectors = {c1, c2}
  MaxAttempts = 64
  MaxBatch = 2
  MaxLeases = 3
PROPERTIES
  EveryCallEnds
