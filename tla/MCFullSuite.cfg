\* Two producers and a reader over three runs, killed or failing anywhere.
SPECIFICATION Spec
CONSTANTS
  p1 = p1  p2 = p2  r1 = r1  t1 = t1  t2 = t2
  Producers = {p1, p2}
  Readers = {r1}
  Tests = {t1, t2}
  MaxRuns = 3
INVARIANTS
  FilesTrusted
PROPERTIES
  EvidenceImmutable
  ImplementsRegister
  LockIsFreed
