\* Two reloads at a time and three edits of any directories, with restarts.
CONSTANTS
  Rebuilds = {j1, j2}
  MaxEdits = 3
SPECIFICATION LiveSpec
INVARIANTS
  IInv
  QuietIsCurrent
PROPERTIES
  SensorsFollowDisk
