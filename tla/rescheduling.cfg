SPECIFICATION SystemSpec
CONSTANTS
  Users = {u1}
  NoUser = NoUser
  Year = 2
  MaxNow = 1
  MaxSchedulerFaults = 0
  MaxWorkerFaults = 0
  MaxEvents = 2
  Copies = {c1, c2}
  Workers = {w1}
  NoWorker = NoWorker
  NoMessage = NoMessage
  WebhookRetries = 0
  MaxReceiveCount = 1
  BatchSize = 1
  Schedulers = {s1}
  ClaimLimit = 1
  RecoveryLimit = 1
  Requests = {r1, r2}
  Zones <- MCZones
  MaxUpdates = 2
  MaxApiFaults = 1
SYMMETRY Symmetry
INVARIANTS
  SystemTypeOK
  WaitsForBirthday
  EveryoneIsScheduled
  OneOpenEventPerUser
  OneEventPerBirthday
PROPERTIES
  ClaimedIsFrozen
  ImplementsChain
