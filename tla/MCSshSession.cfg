SPECIFICATION Spec
CONSTANTS
  alice = alice
  henry = henry
  s1 = s1
  s2 = s2
  c1 = c1
  c2 = c2
  p1 = p1
  p2 = p2
  p3 = p3
  Usernames <- MCUsernames
  Connections <- MCConnections
  Channels <- MCChannels
  Processes <- MCTwoProcesses
  Behaviours <- MCAnything
  None = None
SYMMETRY MCSymmetry
CHECK_DEADLOCK FALSE
INVARIANT TypeOK
INVARIANT OwnContainer
INVARIANT KillsWhatIsLetGo
INVARIANT CleanedUp
