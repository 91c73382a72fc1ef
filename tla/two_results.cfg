CONSTANTS
  MaxTimeout = 1
  RetryTimes = 1
  MaxRedirects = 1
  MaxAnswers = 1
  DefaultTimeout = 1
  MaxValues = 1
  MaxLabels = 2
  MaxDates = 1
SPECIFICATION FairSpec
CHECK_DEADLOCK FALSE
INVARIANTS
  OneResultField
