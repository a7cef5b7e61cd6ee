SPECIFICATION Spec
CONSTANTS
  Users = {u1, u2}
  NoUser = NoUser
  Year = 1
  MaxNow = 2
  MaxSchedulerFaults = 0
  MaxWorkerFaults = 0
  MaxEvents = 4
  Copies = {c1, c2}
  Workers = {w1}
  NoWorker = NoWorker
  NoMessage = NoMessage
  WebhookRetries = 1
  MaxReceiveCount = 2
  BatchSize = 2
  Schedulers = {s1}
  ClaimLimit = 2
  RecoveryLimit = 2
SYMMETRY Symmetry
INVARIANTS
  NoDeliverableIsDead
