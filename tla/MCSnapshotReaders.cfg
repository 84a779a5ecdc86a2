\* A producer and the three readers of its snapshot, while others edit,
\* commit, register, review, publish and withdraw.
SPECIFICATION Spec
CONSTANTS
  N = 2
  MaxContent = 2
  RoleOf <- MCRoleOf
  Quality <- MCQuality
  Expected <- MCExpected
  Starts <- MCStarts
  MaxMoves = 2
INVARIANTS VerifiedIsAtomic IssuedIsHeld ExportSound ScoreboardSound
PROPERTIES OutputSurvives
