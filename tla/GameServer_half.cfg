\* The game stands still on odd frames.
SPECIFICATION Spec
CONSTANTS
  Sessions = {s1}
  Players = {}
  FoodCount = 0
  StartExp = 15
  FoodPower = 15
  MaxExp = 15
  MaxDropped = 1
PROPERTY LogicOnEveryFrame
