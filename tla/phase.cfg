CONSTANTS
  site = site
  other = other
  domain = domain
  Monitor = {site, other, domain}
  Supported <- SiteAndDomain
  InMaintenance = {other}
  QueueDefaultWorkers = 1
  RunMaxConcurrency = 2
SPECIFICATION FairSpec
INVARIANTS
  SharedBudget
  GaugesExact
  CutShortNotPosted
PROPERTIES
  RunReturns
