CONSTANTS
  MaxTimeout = 3
  RetryTimes = 1
  MaxRedirects = 5
  MaxAnswers = 2
  DefaultTimeout = 2
  MaxValues = 2
  MaxLabels = 4
  MaxDates = 2
SPECIFICATION FairSpec
CHECK_DEADLOCK FALSE
INVARIANTS
  DownMeansEveryVariantFailed
  EarliestAnswerReported
  DialledIsAllowed
  UpMeansExactlyExpected
  CheckWithinTimeout
  DownIsCertain
  UnknownIsTemporary
  NearestRegistrationWins
  StatusFollowsFromObservation
PROPERTIES
  NotRepeatedOnceAnswered
  ChecksEnd
