CONSTANTS
  m1 = m1
  Monitor = {m1}
  Intervals <- NotSent
  AuxPhase = {"ssl"}
  Minute = 2
  MaxDelay = 1
  MaxTime = 14
SPECIFICATION Spec
INVARIANTS
  FiveMinuteCadence
