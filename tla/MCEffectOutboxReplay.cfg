SPECIFICATION Spec
CONSTANTS
  NULL = NULL
  Effects = {e1}
  Kinds <- Webhook
  Workers = {w1}
  Urls = {u1}
  MaxAttempts = 2
  LeaseDuration = 1
  RetryDelay <- Delays
  BatchSize = 1
  MaxReplays = 1
INVARIANTS ReplayStartsAfresh
