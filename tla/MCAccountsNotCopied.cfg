SPECIFICATION SoundSpec
CONSTANTS
  henry = henry
  alice = alice
  a1 = a1
  a2 = a2
  t1 = t1
  t2 = t2
  r1 = r1
  r2 = r2
  secret = secret
  guess = guess
  readme = readme
  zshrc = zshrc
  public = public
  Usernames <- MCUsernames
  InitialUser = henry
  InitialPassword = secret
  Passwords <- MCPasswords
  AppIds <- MCAppIds
  Tokens <- MCTokens
  Requests <- MCRequests
  DefaultHome <- MCTree
  Directories <- MCFolder
  None = None
SYMMETRY MCSymmetry
INVARIANT DefaultHomeCopied
