SPECIFICATION Spec
CONSTANTS
  alice = alice
  t1 = t1
  t2 = t2
  r1 = r1
  r2 = r2
  r3 = r3
  Usernames <- MCUsernames
  Tokens <- MCTokens
  Requests <- MCRequests
  Timeout = 1
  MaxTime = 3
  None = None
SYMMETRY MCSymmetry
INVARIANT TypeOK
PROPERTY LoggedOutRefused
PROPERTY IdleRefused
