CONSTANTS
  n1 = n1
  cli = cli
  Worker = Worker
  Gone = Gone
  Base = Base
  Enriched = Enriched
  Absent = Absent
  NoPlan = NoPlan
  Paths = {n1}
  Clis = {cli}
  AttemptsMax = 2
  MaxRuns = 1
  MaxFaults = 1
  MaxEdits = 1
SPECIFICATION FairSpec
INVARIANTS TypeOK WaitingHasAttempts RunningHasRunner RecordsClosed
PROPERTIES NoEditLost EnrichedOnce EnrichmentSettles
CHECK_DEADLOCK FALSE
