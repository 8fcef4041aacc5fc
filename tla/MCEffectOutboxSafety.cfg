SPECIFICATION Spec
CONSTANTS
  NULL = NULL
  Effects = {e1}
  Kinds <- AllKinds
  Workers = {w1, w2}
  Urls = {u1, u2}
  MaxAttempts = 2
  LeaseDuration = 1
  RetryDelay <- Delays
  BatchSize = 1
  MaxReplays = 1
SYMMETRY Symmetry
INVARIANTS TypeOK SucceededMeansDelivered BoundedDelivery OneEndpoint
PROPERTIES LeaseExclusive FinalDelivery
