\* Two callers, one with a fast clock, and a reviewer race on one skill; the
\* ledger and the derived states.
SPECIFICATION FairSpec
CONSTANTS
  s1 = s1  c1 = c1  c2 = c2  g1 = g1
  Slugs = {s1}
  MaxVersion = 2
  Clients = {c1, c2}
  Signers = {g1}
  Skew <- FastClock
  Scores = {2}
  Thresholds = {2}
  MaxApprovals = 3
  MaxImports = 0
  MaxRounds = 3
  MaxTime = 0
  NoClient = NoClient
  NoCall = NoCall
INVARIANTS LedgerInv CorrectionsInOrder DecidedOnce PublishedIsNotWithdrawn
PROPERTIES CallsReturn TakesEffectOnHeadRead ImplementsCatalog
CHECK_DEADLOCK FALSE
