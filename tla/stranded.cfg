SPECIFICATION Spec
CONSTANTS
  Users = {u1}
  NoUser = NoUser
  Year = 1
  MaxNow = 2
  MaxSchedulerFaults = 1
  MaxWorkerFaults = 0
  MaxEvents = 2
  Copies = {c1, c2, c3}
  Workers = {w1}
  NoWorker = NoWorker
  NoMessage = NoMessage
  WebhookRetries = 1
  MaxReceiveCount = 2
  BatchSize = 2
  Schedulers = {s1}
  ClaimLimit = 2
  RecoveryLimit = 2
SYMMETRY Symmetry
INVARIANTS
  ClaimedIsTracked
