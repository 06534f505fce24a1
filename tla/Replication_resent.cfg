\* A Remove is sent again for a food that has come back into view.
SPECIFICATION Spec
CONSTANTS
  Own = own
  Snakes = {own}
  Foods = {f1}
  Contents = {c1}
  Retries = 3
  SnapshotsPerTick = 1
  MaxLost = 0
PROPERTY RemovesOnlyTheGone
