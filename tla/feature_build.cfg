\* What a build answers while late payments, visits and a swap are delivered.
SPECIFICATION MCBuildSpec
CONSTANTS
  ann = ann
  zoe = zoe
  w1 = w1
  w2 = w2
  p = p
  NoPlace = NoPlace
  NoUser = NoUser
  NoRequest = NoRequest
  Subjects <- MCSubjects
  Members <- MCMembers
  Workers <- MCWorkers
  Places <- MCPlaces
  Builds <- MCBuilds
  Events <- MCHistory
  MaxPins = 1
  MaxClock = 1
  MaxFaults = 0
INVARIANTS
  FeaturesMatchFeed
