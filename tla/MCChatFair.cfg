SPECIFICATION FairSpec
CONSTANTS
  s1 = s1
  s2 = s2
  guest0 = guest0
  guest1 = guest1
  Sockets <- MCSockets
  Users <- MCNoUsers
  GuestNames <- MCGuestNames
  Capacity = 1
  Backlog = 1
  MaxPosts = 1
  MaxReplies = 1
  None = None
PROPERTY NewestArrives
PROPERTY RoomIsLetGo
CHECK_DEADLOCK FALSE
