CONSTANTS
  Subs = {s1}
  Deliveries = {d1, d2}
  Ticks = {k1, k2}
  BatchSize = 2
  MaxAttempts = 2
  MaxRetries = 1
  MaxFailures = 1
  NoSub = NoSub
SPECIFICATION FairSpec
INVARIANTS DeadLetterDisables
PROPERTIES TerminalStays PendingIsProcessed
