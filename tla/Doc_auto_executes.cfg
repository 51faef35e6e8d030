SPECIFICATION Spec
CONSTANTS
  MaxPlans = 2
  Capacity = 3
INVARIANT
  NeverAutoExecutes
