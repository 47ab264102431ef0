SPECIFICATION FairSpec
CONSTANTS
  weather = weather  gmail = gmail  q1 = q1
  Nobody = Nobody
  Source = {weather, gmail}
  Request = {q1}
  TargetOf <- AllWeather
  MaxConcurrency = 2
  UnavailableAfter = 2
INVARIANTS
  TypeOK
  OnePollPerSource
  PermitsConserved
  
  
PROPERTIES
  PollsForever
  StopEnds
CHECK_DEADLOCK FALSE
