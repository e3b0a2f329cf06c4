SPECIFICATION Spec
CONSTANTS
  s1 = s1
  s2 = s2
  guest0 = guest0
  guest1 = guest1
  Sockets <- MCSockets
  Users <- MCUsers
  GuestNames <- MCGuestNames
  Capacity = 2
  Backlog = 2
  MaxPosts = 3
  MaxReplies = 1
  None = None
SYMMETRY MCSymmetry
INVARIANT TypeOK
INVARIANT HistoryIsLatest
INVARIANT LiveInOrder
INVARIANT NoGap
INVARIANT CaughtUp
INVARIANT NobodyLeftBehind
PROPERTY HistorySlides
CHECK_DEADLOCK FALSE
