\* Two requests at a time about a device that two subjects share.
SPECIFICATION Spec
CONSTANTS
  ann = ann
  zoe = zoe
  d1 = d1
  c1 = c1
  c2 = c2
  NoDevice = NoDevice
  NoSubject = NoSubject
  NoEvent = NoEvent
  Subjects <- MCSubjects
  Devices <- MCDevices
  Calls <- MCCalls
  Payloads <- MCPayloads
  Threshold = 2
  Window = 1
  LongWindow = 2
  MaxEvents = 3
  MaxClock = 2
  MaxFaults = 1
SYMMETRY MCSymmetry
CHECK_DEADLOCK FALSE
INVARIANTS
  IInv
  AlertsJustified
  AttemptsNoticed
  NewDeviceFlagged
