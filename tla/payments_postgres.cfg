\* Three concurrent calls on PostgreSQL, wallets locked in index order.
SPECIFICATION Spec
CONSTANTS
  ann = ann
  bob = bob
  cid = cid
  r1 = r1
  r2 = r2
  r3 = r3
  k1 = k1
  NoUser = NoUser
  NoRequest = NoRequest
  NoKey = NoKey
  EmptyKey = EmptyKey
  Users <- MCTwoUsers
  Requests <- MCThree
  Bodies <- MCBodies
  Keys <- MCKeys
  Enrolled <- MCTwoUsers
  EgovVerified <- MCTwoUsers
  RequireEgov = FALSE
  InitialBalance <- MCInitialBalance
  MaxBalance = 61000
  Postgres = TRUE
  StableOrder = TRUE
  Rank <- MCRank
  ClockHours <- MCClockHours
  BlockThreshold = 70
  ReviewThreshold = 55
SYMMETRY MCSymmetry
INVARIANTS
  AtMostOneRowPerKey
  MoneyNeedsBothGates
  BalancesMatchLedger
  AnswersAreTrue
  NoLockCycle
  IInv
PROPERTIES
  ImplementsLedger
