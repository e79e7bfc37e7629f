\* Two candidates, the first of which no write ever stores, with commands,
\* restarts and failures at any point.
CONSTANTS
  NumEntries = 2
  Resource <- OneResource
  Renotify <- FirstOnce
  DismissDays <- TwoDaysOrForGood
  MaxAge = 1
SPECIFICATION LiveSpec
INVARIANTS
  IInv
  PromiseKept
PROPERTIES
  RemindedAgain
  RowsCatchUp
