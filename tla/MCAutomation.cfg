\* Payloads are captured while the tree changes, two waves scan and queue
\* them, and three callers share a spending cap.
SPECIFICATION Spec
CONSTANTS
  Skills <- MCSkills
  Trees <- MCTrees
  FirstRoots <- MCFirstRoots
  FirstNodes <- MCFirstNodes
  Names <- MCNames
  Canonical = {"team-profile.md"}
  MaxFiles = 2
  MaxChanges = 2
  Contents <- MCContents
  CodesOf <- MCCodesOf
  FilesOf <- MCFilesOf
  Normal <- MCNormal
  ConfigNames = {".semgrepignore"}
  Waves = {w1, w2}
  Selections <- MCSelections
  Setups <- MCSetups
  Hosts <- MCHosts
  Judges <- MCJudges
  MaxBatch = 2
  MaxRuns = 2
  MaxFaults = 1
  Callers = {c1, c2}
  Models = {"small", "other"}
  Allowed = {"small"}
  Cap = 2
  Estimates = {1, 2}
  Actuals = {1, 2}
  Policies <- MCPolicies
  MaxCalls = 3
INVARIANTS
  CaptureSound
  EvidenceSound
  QueueSound
  GateSound
PROPERTIES
  QuietIsExact
SYMMETRY WaveSymmetry
CHECK_DEADLOCK FALSE
