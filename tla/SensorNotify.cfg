\* One capacity sensor handed over to the triage gate: every interleaving of
\* a round with the world around it.  Backoff after two failed sends, then an
\* attempt every second round, so that all of its states are reached early.
CONSTANTS
  Sensors = {disk}
  CapacitySensors = {disk}
  GateEnabled = TRUE
  NotifyBackoffAfter = 2
  NotifyRetryEvery = 2
  ExitPolls = 2
SPECIFICATION LiveSpec
INVARIANTS
  IInv
  ResolvedClosesAnIncident
PROPERTIES
  ImplementsContract
  RecoveryConfirmed
  LastingStateIsTold
  StoreFollowsMetric
