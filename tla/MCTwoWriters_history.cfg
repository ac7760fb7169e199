\* One disk, two severities, days of two ticks, samples kept for one day; the
\* service and a command that collects.
SPECIFICATION WritersSpec
CONSTANTS
  d1 = d1
  NHosts = 1
  Keys = {d1}
  Homes <- OneHost
  ExcludeChoices <- ExcludeNone
  Statuses = {0, 3}
  DayLength = 2
  RetentionDays = 1
  Gaps <- Adjacent
  Span = 1
  Start = 1
  MaxClock = 7
INVARIANTS StatusLogIsComplete NoSeverityIsForgotten NoDayIsSplit PresenceUnlessRaced
PROPERTY FoldedDayIsFinal
