\* Sessions come and go, are owed full updates, and are assigned players.
\* Snakes are too small to drop foods, so that nothing ever holds up a respawn.
SPECIFICATION FairSessionSpec
CONSTANTS
  Sessions = {s1, s2}
  Players = {p1, p2}
  FoodCount = 0
  StartExp = 10
  FoodPower = 15
  MaxExp = 15
  MaxDropped = 0
  Viewer = s1
  FoodIDs = {}
  Contents = {c1}
  Retries = 2
  SnapshotsPerTick = 1
INVARIANTS MapsAgree OwedIsDue
PROPERTIES TicksGoOn OwedIsSent ServedAsEncoder PendingServed
