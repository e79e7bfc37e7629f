\* A dismissal or a resolution confirmed by the command line, then a restart.
CONSTANTS
  NumEntries = 1
  Resource <- OneResource
  Renotify <- EveryDay
  DismissDays = {0}
  MaxAge = 1
SPECIFICATION Spec
PROPERTIES DecisionSurvivesRestart
