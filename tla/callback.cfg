CONSTANTS
  p1 = p1
  p2 = p2
  p3 = p3
  job = job
  domainJob = domainJob
  Publisher = {p1, p2, p3}
  Job = {job, domainJob}
  JobOf <- JobsOf
  Leased = {p1, p2}
  Payloads <- PayloadsOf
  MaxAttempts = 2
SPECIFICATION MCSpec
CHECK_DEADLOCK FALSE
INVARIANTS
  NilMeansApplied
  EveryPayloadPosted
PROPERTIES
  ImplementsLedger
  PublicationEnds
