SPECIFICATION SystemSpec
CONSTANTS
  Users = {u1}
  NoUser = NoUser
  Year = 2
  MaxNow = 1
  MaxSchedulerFaults = 0
  MaxWorkerFaults = 0
  MaxEvents = 2
  Copies = {c1}
  Workers = {w1}
  NoWorker = NoWorker
  NoMessage = NoMessage
  WebhookRetries = 0
  MaxReceiveCount = 1
  BatchSize = 1
  Schedulers = {s1}
  ClaimLimit = 1
  RecoveryLimit = 1
  Requests = {r1}
  Zones = {0, 1}
  MaxUpdates = 1
  MaxApiFaults = 0
INVARIANTS
  WaitsForBirthdayAlways
