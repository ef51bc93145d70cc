SPECIFICATION PipelineSpec
CONSTANTS
  Keys = {k1}
  DeliveryIds = {}
  MaxId = 1
  MaxAttempts = 2
  Lease = 1
  BackoffBase = 1
  BackoffCap = 1
  JobRetention = 1
  DeliveryRetention = 1
  Workers = {w1}
  MaintInterval = 0
  MaxDisruptions = 1
  MaxGroups = 1
  ModelRetries = 1
  SlackRetries = 1
INVARIANTS CompletedMeansNotified RepeatsAreExcused CostIsBounded
PROPERTIES PipelineImplementsWorker
