\* The default SQLite database, with the identity gate on.
SPECIFICATION MCGatedSpec
CONSTANTS
  ann = ann
  bob = bob
  cid = cid
  r1 = r1
  r2 = r2
  r3 = r3
  k1 = k1
  NoUser = NoUser
  NoRequest = NoRequest
  NoKey = NoKey
  EmptyKey = EmptyKey
  Users <- MCThreeUsers
  Requests <- MCThree
  Bodies <- MCGated
  Keys <- MCKeys
  Enrolled <- MCEnrolled
  EgovVerified <- MCVerified
  RequireEgov = TRUE
  InitialBalance <- MCInitialBalance
  MaxBalance = 99500
  Postgres = FALSE
  StableOrder = TRUE
  Rank <- MCRank
  ClockHours <- MCClockHours
  BlockThreshold = 70
  ReviewThreshold = 55
PROPERTIES
  SafeIfSerial
