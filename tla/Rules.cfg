\* Two files, three releases; the second file of the third is empty.
CONSTANTS
  Releases <- SomeReleases
  Promtool = TRUE
  HasGo = TRUE
  MaxSyncs = 2
  MaxExtras = 2
  Answers <- SomeAnswers
SPECIFICATION ScanSpec
INVARIANTS
  RoutedToTheScan
  JudgedRight
PROPERTIES
  HandKept
CHECK_DEADLOCK FALSE
