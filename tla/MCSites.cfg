SPECIFICATION Spec
CONSTANTS
  henry = henry
  alice = alice
  iceberg = iceberg
  dawdle_space = dawdle_space
  r1 = r1
  r2 = r2
  Usernames <- MCUsernames
  ValidNames <- MCValidNames
  Hosts <- MCHosts
  DomainOf <- MCDomainOf
  InitialUser = henry
  FixedSite = iceberg
  FixedOwner = henry
  Requests <- MCRequests
  None = None
SYMMETRY MCSymmetry
INVARIANT TypeOK
INVARIANT ServedAfterRestart
