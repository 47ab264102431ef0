SPECIFICATION FairProvidersSpec
CONSTANTS
  Parts = {"mail", "football", "github"}
  Caller = {poll, route}
  Poll = poll
  NoCaller = NoCaller
  MaxTokens = 3
  MaxStates = 1
  Item = {i1, i2}
  Device = {d1, d2}
  Context = {c1}
  Nothing = Nothing
  MaxStamp = 3
  MaxMoves = 1
  Message = {g1, g2}
  RecordLimit = 2
  ScanLimit = 1
  StateLimit = 1
  ShortPages = FALSE
  MaxHistory = 4
  MaxMailFaults = 1
  NoCheckpoint = NoCheckpoint
  EventId = {1, 2, 3, 4, 5, 6}
  NoMatch = NoMatch
  Kickoff = {"k1", "k2"}
  Scorer = {"home"}
  MaxScoreChanges = 2
  MaxFacts = 6
  NoFixture = NoFixture
  NoScore = NoScore
  Observations <- SmallObservations
  DailyLimit = 6
  SafetyReserve = 2
  MaxPollRequests = 3
  MaxLost = 2
  LastDay = 2
  NoHeader = NoHeader
  Match = {"m1", "m2"}
  KickoffAt <- SmallKickoffs
  Lateness = {0, 2}
  QuotaLimit = 40
  EventsInFeed = FALSE
  MaxPollFaults = 2
  SeasonEnd = 9000
  Pull = {"p1"}
  Run = {"r1"}
  Deployment = {"d1"}
  Conclusion = {"action_required", "success"}
  DeployState = {"success"}
  PullPage = 1
  MaxGithubChanges = 3
  MaxGithubFaults = 1
  Location = {"l1", "l2"}
  Configured = "l1"
  NoLocation = "none"
  RecentLimit = 1
  Threshold = 2
  Reading = {0, 1, 2}
  MaxForecasts = 4
  NoReading = NoReading
PROPERTIES
  MailCatchesUp
  
  
CHECK_DEADLOCK FALSE
