\* The claim of the comment in the finally block of generate().
CONSTANTS
  q1 = q1
  q2 = q2
  q3 = q3
  k1 = k1
  Query <- MCQuery
  Key <- MCKey
  KeyOf <- MCKeyOf
  MaxProgress = 1
SPECIFICATION Spec
INVARIANTS
  KeyReleasedOnDisconnect
CHECK_DEADLOCK FALSE
