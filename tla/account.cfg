\* PIN, phone, identity and enrolment requests on overlapping sessions.
SPECIFICATION Spec
CONSTANTS
  ann = ann
  bob = bob
  s1 = s1
  s2 = s2
  p = p
  q = q
  i = i
  NoPin = NoPin
  NoId = NoId
  NoLock = NoLock
  Users <- MCUsers
  Sessions <- MCSessions
  Jobs <- MCJobs
  Pins <- MCPins
  NationalIds <- MCIds
  MaxAttempts = 2
  Lockout = 2
  MaxClock = 2
  MaxWrong = 3
SYMMETRY MCSymmetry
INVARIANTS
  LocksHaveCause
  GuessersPredateLock
  IdentitiesAreOwn
  EnrolledHasTemplate
  IInv
PROPERTIES
  LockLifters
