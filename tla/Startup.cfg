\* The daemon and one command at a time, on a database of any earlier version.
CONSTANTS
  Absent = Absent
  Null = Null
  Word = Word
  Daemon = daemon
  Commands = {command}
  Files <- SomeFiles
  Environments <- SomeEnvironments
  MaxCommands = 1
  MaxEdits = 1
  MaxFaults = 1
SPECIFICATION StartLiveSpec
INVARIANTS
  StartInv
PROPERTIES
  SettingsHonoured
  DaemonComesUp
CHECK_DEADLOCK FALSE
