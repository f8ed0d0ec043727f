\* Two calls that answer one challenge at once.
SPECIFICATION Spec
CONSTANTS
  ann = ann
  bob = bob
  d = d
  e = e
  ka = ka
  kb = kb
  c1 = c1
  c2 = c2
  r1 = r1
  r2 = r2
  r3 = r3
  r4 = r4
  NoUser = NoUser
  NotIssued = NotIssued
  NoKey = NoKey
  Users <- MCUsers
  Devices <- MCDevices
  Keys <- MCKeys
  Challenges <- MCChallenges
  Calls <- MCCalls
  Jobs <- MCJobs
  TTL = 1
  MaxClock = 2
SYMMETRY MCSymmetry
INVARIANT
  VerifiedOnce
