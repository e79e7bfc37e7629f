\* Summary, digest and pruning over two days of two weeks, with restarts and
\* failures of every read, write and attempt at a message.
CONSTANTS
  Sensors = {disk}
  States = {healthy, critical}
  MaxDay = 1
  Week <- SundayMonday
  Configs <- SomeConfigs
SPECIFICATION LiveSpec
INVARIANTS
  IInv
  ListTellsTheTruth
PROPERTIES
  JobsComeDue
