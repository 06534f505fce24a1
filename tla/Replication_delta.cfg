\* Two states of the food; nothing is lost.
SPECIFICATION Spec
CONSTANTS
  Own = own
  Snakes = {own, s1}
  Foods = {f1}
  Contents = {c1, c2}
  Retries = 3
  SnapshotsPerTick = 1
  MaxLost = 0
SYMMETRY ContentSymmetry
INVARIANT MirrorExact
