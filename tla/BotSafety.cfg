SPECIFICATION BotSpec
CONSTANTS
  k1 = k1
  d1 = d1
  Keys = {k1}
  DeliveryIds = {d1}
  MaxId = 2
  MaxAttempts = 2
  Lease = 1
  BackoffBase = 1
  BackoffCap = 3
  JobRetention = 1
  DeliveryRetention = 0
  Workers = {w1}
  MaintInterval = 0
  MaxDisruptions = 1
  NoId = noid
  NoRequest = idle
  MaxFailures = 1
  Requests <- MCRequests
PROPERTIES NoRerunWithinRetention ImplementsWorker
