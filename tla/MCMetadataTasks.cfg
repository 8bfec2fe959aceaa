\* Sync, extraction and learning jobs of one data source.
CONSTANTS
  j1 = j1
  j2 = j2
  j3 = j3
  t1 = t1
  Job <- MCJob
  Table <- MCTable
SPECIFICATION Spec
SYMMETRY JobSymmetry
INVARIANTS
  LateArrivalsWait
  LogsTellTheTruth
PROPERTIES
  OnlyStaleRewritten
\* All jobs may have ended.
CHECK_DEADLOCK FALSE
