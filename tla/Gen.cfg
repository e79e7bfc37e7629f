\* Three commands one after the other, three rounds of fix, one save by hand.
CONSTANTS
  Family = "capacity"
  MaxRounds = 3
  MaxRuns = 3
  MaxSaves = 1
SPECIFICATION GenLiveSpec
INVARIANTS
  GenInv
  WholeCopyLeft
PROPERTIES
  CommandsEnd
CHECK_DEADLOCK FALSE
