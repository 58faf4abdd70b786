CONSTANTS
  s1 = s1
  s2 = s2
  daemon = daemon
  once = once
  Schedules = {s1, s2}
  Windows <- MCWindows
  Daemon = daemon
  Once = once
  Scenarios <- MCScenarios
  MaxFailures = 2
  MaxClock = 2
SPECIFICATION FairSpec
INVARIANTS SchedulerInv OneRunAtATime RepeatsAreExplained
PROPERTIES WindowsAreAccountedFor DueIsServed
CHECK_DEADLOCK FALSE
