SPECIFICATION FairSpec
CONSTANTS
  NULL = NULL
  Effects = {e1, e2}
  Kinds <- Callback
  Workers = {w1}
  Urls = {u1}
  MaxAttempts = 2
  LeaseDuration = 1
  RetryDelay <- Delays
  BatchSize = 1
  MaxReplays = 0
PROPERTIES EveryEffectSettles
