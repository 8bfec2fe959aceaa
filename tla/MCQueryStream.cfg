\* The gateway's request handler, producer and consumer.
CONSTANTS
  q1 = q1
  q2 = q2
  q3 = q3
  k1 = k1
  Query <- MCQuery
  Key <- MCKey
  KeyOf <- MCKeyOf
  MaxProgress = 1
SPECIFICATION FairSpec
INVARIANTS
  EventsInOrder
  NoLostWakeup
  StatusMatchesStream
  OneRunPerKey
PROPERTIES
  ImplementsEventStream
  StreamEnds
  RunOutlivesClient
\* Every request may have been answered, rejected or lost.
CHECK_DEADLOCK FALSE
