SPECIFICATION FairSpec
CONSTANTS
  a = a
  b = b
  d = d
  Task = {a, b, d}
  Upstream <- Chain
  Rule <- AllSuccess
  Subscribed = {}
  Dummy = {d}
  Worker = {w1, w2}
  Requests <- StopRestart
  Outcome = {"success", "error"}
  Retries = 0
  MaxActiveRuns = 2
  LongRunning = FALSE
  MiniScheduler = TRUE
  NoTask = NoTask
  Sent = {FALSE}
  MaxRequests = 1
  MaxForks = 2
INVARIANTS UpstreamFirst RunningHasOwner
CHECK_DEADLOCK FALSE
PROPERTIES ScheduledIsStarted SuccessIsMarked StaleProcessEnds
