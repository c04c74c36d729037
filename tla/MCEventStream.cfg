SPECIFICATION StreamFairSpec
CONSTANTS
  j1 = j1
  j2 = j2
  w1 = w1
  v1 = v1
  None = None
  Job <- TwoJobs
  Analyze <- OneJob
  Worker <- OneWorker
  Client <- OneClient
  Capacity = 2
  MaxConcurrentJobs = 1
  RetryCapacity = 1
  MaxJobRetries = 1
  WebhookMaxRetries = 1
  ProgressSteps <- Steps
  Hooked = {}
  Canceller = {}
  MaxFaults = 1
INVARIANTS CompletedIsStored
PROPERTIES PercentGrows 
CHECK_DEADLOCK FALSE
