\* Concurrent, repeated and lost deliveries with builds in between.
SPECIFICATION FairSpec
CONSTANTS
  ann = ann
  zoe = zoe
  w1 = w1
  w2 = w2
  p = p
  NoPlace = NoPlace
  NoUser = NoUser
  NoRequest = NoRequest
  Subjects <- MCSubjects
  Members <- MCMembers
  Workers <- MCWorkers
  Places <- MCPlaces
  Builds <- MCBuilds
  Events <- MCEvents
  MaxPins = 0
  MaxClock = 1
  MaxFaults = 1
INVARIANTS
  IInv
PROPERTIES
  ImplementsEventLog
  EveryEventAcknowledged
