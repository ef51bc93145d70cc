SPECIFICATION FairSpec
CONSTANTS
  Keys = {k1, k2}
  DeliveryIds = {d1}
  MaxId = 2
  MaxAttempts = 2
  Lease = 2
  BackoffBase = 1
  BackoffCap = 3
  JobRetention = 1
  DeliveryRetention = 1
  Workers = {w1}
  MaintInterval = 1
  MaxDisruptions = 1
INVARIANTS HeldIsLeased StrandedOnlyAtLimit
PROPERTIES SettledIsFinal ImplementsLifecycle EveryJobSettles ShutdownEnds SettledIsPurged
