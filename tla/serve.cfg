CONSTANTS
  NoCaller = NoCaller
  Scheduler = scheduler
  Drainer = drainer
  Caller = {scheduler}
  Waiter = {drainer}
  MaxRuns = 3
SPECIFICATION FairServeSpec
INVARIANTS
  ExitIsDrained
PROPERTIES
  NoRunUnderCancelledDispatch
  ExitsAfterSignal
