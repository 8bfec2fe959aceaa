CONSTANTS
  j1 = j1
  j2 = j2
  j3 = j3
  t1 = t1
  Job <- MCJob
  Table <- MCTable
SPECIFICATION Spec
SYMMETRY JobSymmetry
PROPERTIES
  StaleLocksYield
CHECK_DEADLOCK FALSE
