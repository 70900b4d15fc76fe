SPECIFICATION Spec
CONSTANTS
  owner = owner guest = guest s1 = s1 s2 = s2
  NONE = NONE
  User = {owner, guest}
  Registered = {owner}
  Staff = {s1, s2}
  InitialMember <- MCInitialMember
  Asked <- MCAsked
  MaxRequests = 4
  MaxOpen = 2
  MaxTime = 2
  RefreshTtl = 2
  CodeTtl = 1
  InviteTtl = 2
  MaxAttempts = 1
  MaxFaults = 1
INVARIANTS TypeOK LogoutMissesOnlyRequestsInFlight MissesAreCounted LinkedStaffAccepted
PROPERTIES SpentOnlyInARace
