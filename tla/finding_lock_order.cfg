\* Opposite payments whose wallets are locked in the order of the scan.
SPECIFICATION Spec
CONSTANTS
  ann = ann
  bob = bob
  cid = cid
  r1 = r1
  r2 = r2
  r3 = r3
  k1 = k1
  NoUser = NoUser
  NoRequest = NoRequest
  NoKey = NoKey
  EmptyKey = EmptyKey
  Users <- MCTwoUsers
  Requests <- MCTwo
  Bodies <- MCBodies
  Keys <- MCKeys
  Enrolled <- MCTwoUsers
  EgovVerified <- MCTwoUsers
  RequireEgov = FALSE
  InitialBalance <- MCInitialBalance
  MaxBalance = 61000
  Postgres = TRUE
  StableOrder = FALSE
  Rank <- MCRank
  ClockHours <- MCClockHours
  BlockThreshold = 70
  ReviewThreshold = 55
SYMMETRY MCSymmetry
INVARIANTS
  NoLockCycle
