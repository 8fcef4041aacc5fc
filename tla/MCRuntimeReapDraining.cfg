SPECIFICATION Spec
CONSTANTS
  r1 = r1  r2 = r2  s1 = s1  s2 = s2  n1 = n1  w1 = w1
  w2 = w2  k1 = k1  c1 = c1  c2 = c2  NULL = NULL
  Runs = {r1}
  Mode <- RuntimeMode
  MaxOffers = 2
  MaxAttempts = 2
  Sessions = {s1}
  NodeOf <- OneNode
  WorkerOf <- OneWorker
  EpochOf <- Epochs
  CredOf <- OneCred
  Nodes = {n1}
  Workers = {w1}
  Creds = {k1}
  Cores = {c1}
  Reports = {1}
  NodeCapacity <- EnrolledCapacity
  MaxAttachments = 1
  DispatchTTL = 2
  RunTTL = 2
  OfferTTL = 1
  LeaseTTL = 1
  AttemptTTL = 2
  CancelTTL = 1
  GrantTTL = 2
  RetryDelay <- Backoff
  CreateBy = 0
CHECK_DEADLOCK FALSE
INVARIANTS StaleSessionReapable
