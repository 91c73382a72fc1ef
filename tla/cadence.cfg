CONSTANTS
  m1 = m1
  Monitor = {m1}
  Intervals <- ShortAndNotSent
  AuxPhase = {"ssl"}
  Minute = 2
  MaxDelay = 1
  MaxTime = 15
SPECIFICATION Spec
INVARIANTS
  MonitorsNotStarved
  PhasesNotStarved
PROPERTIES
  ChecksSpaced
