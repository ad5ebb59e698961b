SPECIFICATION ComputeSpec
CONSTANTS
  Regions = {1, 2, 3}
  Keeps = {0, 1, 2}
  Profile <- SomeProfile
  Scale = 5
  MinHistory = 2
  MaxQty = 2
  MaxHand = 3
INVARIANTS
  PlanIsProportional
  MovesReachPlan
  ShipsByNeed
  BalanceIsLargest
CHECK_DEADLOCK FALSE
