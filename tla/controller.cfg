CONSTANTS
  c1 = c1
  c2 = c2
  c3 = c3
  w1 = w1
  w2 = w2
  NoCaller = NoCaller
  Caller = {c1, c2, c3}
  Waiter = {w1, w2}
  MaxRuns = 2
SPECIFICATION FairSpec
INVARIANTS
  IdleChannelTruthful
  DrainedMeansQuiet
PROPERTIES
  CallsReturn
  ImplementsGate
