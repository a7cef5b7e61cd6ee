SPECIFICATION FastTestSpec
CONSTANTS
  FirstYear = 2099
  LastYear = 2108
  NoUser = NoUser
  NoEvent = NoEvent
  PostBodies <- MCPostBodies
  PutBodies <- MCPutBodies
  DaysAhead = {0, 7, 364}
  Scenarios <- MCScenarios
  Waits <- MCWaits
  MaxSteps = 5
  Arguments = {0, 4, 300}
  StartDelays = {2, 12, 21}
INVARIANTS
  UserApiTypeOK
  StoredUserIsReadable
  EventIsNextBirthday
  OffsetIsKept
  SearchFindsBirthdays
  UserHasEvent
  FollowerIsNextYear
PROPERTIES
  TestEventIsImminent
CHECK_DEADLOCK FALSE
