SPECIFICATION AccountSpec
CONSTANTS
  Caller = {poll, route}
  Poll = poll
  NoCaller = NoCaller
  MaxTokens = 3
  MaxStates = 2
INVARIANT DisconnectStands
CHECK_DEADLOCK FALSE
