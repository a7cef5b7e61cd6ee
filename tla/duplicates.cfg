SPECIFICATION Spec
CONSTANTS
  Users = {u1}
  NoUser = NoUser
  Year = 2
  MaxNow = 2
  MaxSchedulerFaults = 0
  MaxWorkerFaults = 0
  MaxEvents = 2
  Copies = {c1, c2}
  Workers = {w1, w2}
  NoWorker = NoWorker
  NoMessage = NoMessage
  WebhookRetries = 1
  MaxReceiveCount = 2
  BatchSize = 2
  Schedulers = {s1}
  ClaimLimit = 2
  RecoveryLimit = 2
SYMMETRY Symmetry
INVARIANTS
  AcceptedAtMostOnce
