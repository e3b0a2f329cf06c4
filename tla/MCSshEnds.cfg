SPECIFICATION FairSpec
CONSTANTS
  alice = alice
  henry = henry
  s1 = s1
  s2 = s2
  c1 = c1
  c2 = c2
  p1 = p1
  p2 = p2
  p3 = p3
  Usernames <- MCOneUser
  Connections <- MCOneConnection
  Channels <- MCChannels
  Processes <- MCProcesses
  Behaviours <- MCAnything
  None = None
CHECK_DEADLOCK FALSE
PROPERTY ProgramEndsChannel
