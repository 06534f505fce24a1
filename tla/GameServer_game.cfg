\* Three snakes that eat, die, respawn and drop their foods.
SPECIFICATION Spec
CONSTANTS
  Sessions = {s1, s2, s3}
  Players = {}
  FoodCount = 1
  StartExp = 15
  FoodPower = 15
  MaxExp = 40
  MaxDropped = 1
SYMMETRY SessionSymmetry
INVARIANTS TypeOK KillsPending KillerSurvives
PROPERTY NothingFromNothing
