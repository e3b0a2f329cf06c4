SPECIFICATION Spec
CONSTANTS
  alice = alice
  henry = henry
  s1 = s1
  s2 = s2
  c1 = c1
  c2 = c2
  p1 = p1
  p2 = p2
  p3 = p3
  Usernames <- MCOneUser
  Connections <- MCOneConnection
  Channels <- MCChannels
  Processes <- MCTwoProcesses
  Behaviours <- MCBareChannels
  None = None
CHECK_DEADLOCK FALSE
INVARIANT ClosingCleansUp
