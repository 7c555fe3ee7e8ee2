\* One application thread beside the two receivers, two requests, a job with a
\* handler and one without.
CONSTANTS
  t1 = t1
  j1 = j1
  j2 = j2
  AppThreads = {t1}
  Jobs = {j1, j2}
  Unhandled = {j2}
  Heartbeats = TRUE
  MaxRequests = 2
  MaxStarts = 1
  MaxAssigned = 1
  NoRequest = NoRequest
  NoJob = NoJob
SPECIFICATION FairSpec
INVARIANTS HandlerSocketsOpen ResultsGenuine NoOrphans
PROPERTIES TakenJobsAnswered StopReturns
CHECK_DEADLOCK FALSE
