\* Two operators, three commits, one file for each stretch of the history.
SPECIFICATION Spec
CONSTANTS
  o1 = o1  o2 = o2
  Operators = {o1, o2}
  Commits = {"c1", "c2"}
  Contents = {"a", "b"}
  Tree <- MCTree
  Legacy = 1
  Checkpoint = 2
  Last = 3
  MaxPlans = 1
INVARIANTS
  TrackerTruthful
  AuditTrail
  ReviewedState
PROPERTY
  LockIsFree
