SPECIFICATION Spec
CONSTANTS
  Users = {u1, u2}
  NoUser = NoUser
  Year = 2
  MaxNow = 3
  MaxSchedulerFaults = 1
  MaxWorkerFaults = 0
  MaxEvents = 2
  Copies = {c1, c2, c3, c4}
  Workers = {}
  NoWorker = NoWorker
  NoMessage = NoMessage
  WebhookRetries = 1
  MaxReceiveCount = 2
  BatchSize = 2
  Schedulers = {s1, s2}
  ClaimLimit = 1
  RecoveryLimit = 2
SYMMETRY Symmetry
INVARIANTS
  LocksAreHeld
  ClaimsAreExclusive
  VersionTracksStatus
