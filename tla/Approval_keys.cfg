SPECIFICATION FairSpec
CONSTANTS
  MaxPlans = 3
  Capacity = 2
INVARIANTS
  TypeOK
  FirstKeyDecides
PROPERTIES
  FlagComesDown
  LifecycleKept
