SPECIFICATION Spec
CONSTANTS
  henry = henry
  alice = alice
  a1 = a1
  a2 = a2
  t1 = t1
  t2 = t2
  r1 = r1
  r2 = r2
  secret = secret
  guess = guess
  readme = readme
  zshrc = zshrc
  public = public
  Usernames <- MCUsernames
  InitialUser = henry
  InitialPassword = secret
  Passwords <- MCPasswords
  AppIds <- MCAppIds
  Tokens <- MCTokens
  Requests <- MCRequests
  DefaultHome <- MCFlat
  Directories <- MCNoFolder
  None = None
SYMMETRY MCSymmetry
INVARIANT TypeOK
INVARIANT Redeemable
INVARIANT ApprovalStands
INVARIANT ClaimantOwnsAccount
INVARIANT ClaimedHasHome
INVARIANT MarkedAfterCreated
INVARIANT RetiredStaysRetired
PROPERTY RetiredTokenRefused
