\* A ring of wallets locked in whatever order a scan yields.
SPECIFICATION MCRingSpec
CONSTANTS
  ann = ann
  bob = bob
  cid = cid
  r1 = r1
  r2 = r2
  r3 = r3
  k1 = k1
  NoUser = NoUser
  NoRequest = NoRequest
  NoKey = NoKey
  EmptyKey = EmptyKey
  Users <- MCThreeUsers
  Requests <- MCThree
  Bodies <- MCRing
  Keys <- MCKeys
  Enrolled <- MCThreeUsers
  EgovVerified <- MCThreeUsers
  RequireEgov = FALSE
  InitialBalance <- MCInitialBalance
  MaxBalance = 99500
  Postgres = TRUE
  StableOrder = FALSE
  Rank <- MCRank
  ClockHours <- MCClockHours
  BlockThreshold = 70
  ReviewThreshold = 55
INVARIANTS
  BalancesMatchLedger
PROPERTIES
  EveryCallAnswered
