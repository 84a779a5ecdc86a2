\* A later round of review blocks the unpublication of what is published.
SPECIFICATION Spec
CONSTANTS
  s1 = s1  s2 = s2  c1 = c1  c2 = c2  g1 = g1
  Slugs = {s1}
  MaxVersion = 2
  Clients = {c1, c2}
  Signers = {g1}
  Skew <- NoSkew
  Scores = {2}
  Thresholds = {2}
  MaxApprovals = 3
  MaxImports = 0
  MaxRounds = 3
  MaxTime = 0
  NoClient = NoClient
  NoCall = NoCall
INVARIANTS PublishedCanBePulled
CHECK_DEADLOCK FALSE
