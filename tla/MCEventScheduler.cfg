SPECIFICATION FairSpec
CONSTANTS
  r1 = r1
  r2 = r2
  w1 = w1
  w2 = w2
  start_a = start_a
  none_b = none_b
  Result = {start_a, none_b}
  NoAction = {none_b}
  Results <- Returned
  Run = {r1}
  Ev <- Events
  Worker = {w1, w2}
  MaxNumEvent = 2
  MaxEvents = 2
  AffectedRuns <- Affected
  MaxJobs = 3
  StopJobs = {1}
  MaxStops = 1
INVARIANTS EventsInOrder EventsEnterOnce MessagesRecovered ActionsKept
CHECK_DEADLOCK FALSE
PROPERTIES EventsAreScheduled
