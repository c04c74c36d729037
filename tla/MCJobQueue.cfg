SPECIFICATION FairSpec
CONSTANTS
  j1 = j1
  j2 = j2
  w1 = w1
  w2 = w2
  c1 = c1
  None = None
  Job <- OneJob
  Worker <- TwoWorkers
  MaxConcurrentJobs = 1
  RetryCapacity = 1
  MaxJobRetries = 2
  WebhookMaxRetries = 2
  ProgressSteps <- Steps
  Hooked <- OneJob
  Canceller <- OneCanceller
  MaxFaults = 2
INVARIANTS TypeOK SingleExecution RetryBudget CompletedIsWhole ProcessingCovers HookTellsTruth
PROPERTIES ImplementsAttempts ResultIsKept EveryJobSettles Drains
CHECK_DEADLOCK FALSE
