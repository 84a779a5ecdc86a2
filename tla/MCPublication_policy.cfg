\* The policy changes while rows of two skills are imported raw and activated.
SPECIFICATION Spec
CONSTANTS
  s1 = s1  s2 = s2  c1 = c1  c2 = c2  g1 = g1
  Slugs = {s1, s2}
  MaxVersion = 1
  Clients = {c1}
  Signers = {g1}
  Skew <- NoSkew
  Scores = {2}
  Thresholds = {2, 3}
  MaxApprovals = 3
  MaxImports = 1
  MaxRounds = 2
  MaxTime = 1
  NoClient = NoClient
  NoCall = NoCall
INVARIANTS ConsumersAgree FrozenEvidence
PROPERTIES PolicyHeldToCommit
