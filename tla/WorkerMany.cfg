SPECIFICATION Spec
CONSTANTS
  Keys = {k1, k2}
  DeliveryIds = {}
  MaxId = 2
  MaxAttempts = 2
  Lease = 1
  BackoffBase = 2
  BackoffCap = 1
  JobRetention = 1
  DeliveryRetention = 1
  Workers = {w1, w2}
  MaintInterval = 1
  MaxDisruptions = 1
INVARIANTS TypeOK AttemptsBounded TimestampsConsistent AttemptsExclusive
