CONSTANTS
  Subs = {s1}
  Deliveries = {d1}
  Ticks = {k1}
  BatchSize = 1
  MaxAttempts = 2
  MaxRetries = 0
  MaxFailures = 0
  NoSub = NoSub
SPECIFICATION FairSpec
PROPERTIES FailedIsRetried
