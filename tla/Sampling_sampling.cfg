\* Snakes of up to five segments, anywhere on a grid of 3 by 3.
SPECIFICATION Spec
CONSTANTS
  Side = 3
  Points <- MCPoints
  Far <- MCFar
  MaxSegments = 5
INVARIANTS WholeSnakeValidated PointsAreSparse
\* The function returns.
CHECK_DEADLOCK FALSE
