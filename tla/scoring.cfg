\* Two requests at a time against artifacts that are missing, whole or torn.
SPECIFICATION FairSpec
CONSTANTS
  c1 = c1
  c2 = c2
  Nobody = Nobody
  NoRequest = NoRequest
  NoAnswer = NoAnswer
  NoRegistry = NoRegistry
  SEGMENTS <- MCSEGMENTS
  Calls <- MCCalls
  Settings <- MCSettings
  Requests <- MCRequests
  Probabilities = {45, 90}
  Margin = 8
  MaxTrainings = 1
  MaxFaults = 1
INVARIANTS
  IInv
  RulesUnlessTrusted
  NoSilentTraining
  ScoringSurvives
  RegistryIsComplete
  RiskierNeverScoresLower
PROPERTIES
  RegistryComesUp
