\* One request at a time against up to three polls of two hosts with a disk each.
SPECIFICATION ApiSpec
CONSTANTS
  d1 = d1
  d2 = d2
  NHosts = 2
  Keys = {d1, d2}
  Homes <- OneEach
  ExcludeChoices <- ExcludeSome
  Statuses = {0}
  DayLength = 100
  RetentionDays = 1
  Gaps <- Adjacent
  Span = 1
  Start = 0
  MaxClock = 3
INVARIANTS MissingWasTrue MissingIsTold
