\* One viewer, one other snake, one food; three retries; one datagram lost.
SPECIFICATION Spec
CONSTANTS
  Own = own
  Snakes = {own, s1}
  Foods = {f1}
  Contents = {c1}
  Retries = 3
  SnapshotsPerTick = 1
  MaxLost = 1
INVARIANTS TypeOK Bookkeeping MirrorExact OwnSnakeShown RemovesReachClient
PROPERTY FullUpdateSyncs
