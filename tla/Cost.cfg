\* Five days around the ends of the months from January and February.
CONSTANTS
  Months <- SomeMonths
  Services = {"steady", "rising", "rare"}
  Charge <- SomeCharge
  PageDays = 10
  Days <- SomeDays
  MaxLag = 3
  MaxFaults = 2
SPECIFICATION Spec
INVARIANTS
  IInv
  ProjectionIsReference
  GrowthIsReal
CHECK_DEADLOCK FALSE
