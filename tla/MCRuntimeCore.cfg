SPECIFICATION FairSpec
CONSTANTS
  r1 = r1  r2 = r2  s1 = s1  s2 = s2  n1 = n1  w1 = w1
  w2 = w2  k1 = k1  c1 = c1  c2 = c2  NULL = NULL
  Runs = {r1, r2}
  Mode <- CoreMode
  MaxOffers = 2
  MaxAttempts = 2
  Sessions = {}
  NodeOf <- OneNode
  WorkerOf <- OneWorker
  EpochOf <- Epochs
  CredOf <- OneCred
  Nodes = {n1}
  Workers = {w1}
  Creds = {}
  Cores = {c1, c2}
  Reports = {1}
  NodeCapacity <- EnrolledCapacity
  MaxAttachments = 2
  DispatchTTL = 3
  RunTTL = 4
  OfferTTL = 1
  LeaseTTL = 2
  AttemptTTL = 3
  CancelTTL = 1
  GrantTTL = 2
  RetryDelay <- Backoff
  CreateBy = 1
CHECK_DEADLOCK FALSE
INVARIANTS Ownership AttemptBudget ResultAdopted CancellationEvidence
PROPERTIES TerminalIsFinal EveryRunEnds EveryCoreCallEnds
