\* All three channels; no restart.
SPECIFICATION DeliverySpec
CONSTANTS
  d1 = d1
  d2 = d2
  NHosts = 1
  Keys = {d1}
  Homes <- OneEach
  ExcludeChoices <- ExcludeNone
  Statuses = {0}
  DayLength = 100
  RetentionDays = 1
  Gaps <- Adjacent
  Span = 1
  Start = 0
  MaxClock = 4
  Channels = {"ntfy", "gotify", "mail"}
  Floor = 2
  NotifyRecovery = TRUE
  NotifyUnreachable = TRUE
  MaxRestarts = 0
INVARIANT EveryChannelIsTold
