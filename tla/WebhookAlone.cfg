SPECIFICATION WebhookSpec
CONSTANTS
  k1 = k1
  k2 = k2
  d1 = d1
  d2 = d2
  d3 = d3
  Keys = {k1, k2}
  DeliveryIds = {d1, d2, d3}
  MaxId = 2
  MaxAttempts = 1
  Lease = 0
  BackoffBase = 1
  BackoffCap = 1
  JobRetention = 0
  DeliveryRetention = 0
  NoId = noid
  NoRequest = idle
  MaxFailures = 1
  Requests <- MCRequests
INVARIANTS WebhookTypeOK SavedUnlessCutOff
PROPERTIES OnlyTrustedLeaveTraces
