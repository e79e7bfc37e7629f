\* A capacity sensor or an SLO budget: every series of six steps with gaps,
\* ceilings that jump.
CONSTANTS
  Values = {0, 1, 2}
  Ceilings = {2, 3}
  Kinds = {"capacity", "slo"}
  Hour = 2
  Long = 5
  MaxGap = 1
  MaxPoints = 5
  CritEta = 2
  WarnEta = 4
  CritPercent = 95
  SoftPercent = 80
  ExitPolls = 2
  Unit = 60
  MaxDuration = 8
  OverflowToMin = TRUE
SPECIFICATION EngineSpec
INVARIANTS EngineInv SpikeIgnored FastGrowthIsCritical SlowGrowthIsNotCritical
