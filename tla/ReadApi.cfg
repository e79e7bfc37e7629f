\* Two sensors; a day is one tick, so that a row may be two days old and its
\* prediction deleted; details of one day, and of the thirty by default.
CONSTANTS
  N = 2
  Day = 1
  Retention = 1
  Asked = {0, 1}
  Verdicts <- SomeVerdicts
  MaxPolls = 2
  Steps = {1}
  MaxTime = 2
  MaxFaults = 1
SPECIFICATION Spec
INVARIANTS
  AnswersAgree
  PageIsTrue
CHECK_DEADLOCK FALSE
