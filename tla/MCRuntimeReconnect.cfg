SPECIFICATION ReconnectSpec
CONSTANTS
  r1 = r1  r2 = r2  s1 = s1  s2 = s2  n1 = n1  w1 = w1
  w2 = w2  k1 = k1  c1 = c1  c2 = c2  NULL = NULL
  Runs = {r1}
  Mode <- RuntimeMode
  MaxOffers = 2
  MaxAttempts = 2
  Sessions = {s1, s2}
  NodeOf <- OneNode
  WorkerOf <- OneWorker
  EpochOf <- Epochs
  CredOf <- OneCred
  Nodes = {n1}
  Workers = {w1}
  Creds = {k1}
  Cores = {c1, c2}
  Reports = {1}
  NodeCapacity <- EnrolledCapacity
  MaxAttachments = 2
  DispatchTTL = 3
  RunTTL = 3
  OfferTTL = 1
  LeaseTTL = 1
  AttemptTTL = 3
  CancelTTL = 1
  GrantTTL = 2
  RetryDelay <- Backoff
  CreateBy = 0
CHECK_DEADLOCK FALSE
INVARIANTS Ownership NewestGenerationLive SingleWriter
PROPERTIES StaleAttemptInert
