SPECIFICATION Spec
CONSTANTS
  Keys = {k1}
  DeliveryIds = {}
  MaxId = 1
  MaxAttempts = 3
  Lease = 1
  BackoffBase = 1
  BackoffCap = 3
  JobRetention = 1
  DeliveryRetention = 1
  Workers = {w1, w2}
  MaintInterval = 1
  MaxDisruptions = 1
INVARIANTS OneWorkerPerJob
