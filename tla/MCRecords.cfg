SPECIFICATION GuestbookSpec
CONSTANTS
  henry = henry
  alice = alice
  p1 = p1
  p2 = p2
  laptop = laptop
  k1 = k1
  k2 = k2
  bad = bad
  e1 = e1
  hello = hello
  bye = bye
  r1 = r1
  r2 = r2
  Usernames <- MCUsernames
  InitialUser = henry
  Passwords <- MCPasswords
  InitialPassword = p1
  KeyNames <- MCKeyNames
  Keys <- MCKeys
  ValidKeys <- MCValidKeys
  AdminAsks <- Approvals
  Entries <- MCEntries
  Messages <- MCMessages
  Requests <- MCRequests
  None = None
SYMMETRY MCSymmetry
INVARIANT TypeOK
INVARIANT ClaimedIsNoAdmin
PROPERTY ChangesAreAtomic
PROPERTY Moderated
