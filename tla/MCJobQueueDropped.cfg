SPECIFICATION FairSpec
CONSTANTS
  j1 = j1
  j2 = j2
  w1 = w1
  w2 = w2
  c1 = c1
  None = None
  Job <- TwoJobs
  Worker <- OneWorker
  MaxConcurrentJobs = 2
  RetryCapacity = 1
  MaxJobRetries = 1
  WebhookMaxRetries = 1
  ProgressSteps <- Steps
  Hooked <- TwoJobs
  Canceller <- OneCanceller
  MaxFaults = 0
PROPERTIES QueuedIsPickedUp
CHECK_DEADLOCK FALSE
