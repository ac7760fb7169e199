\* Two hosts, a disk at the first; one restart at any point.
SPECIFICATION DeliverySpec
CONSTANTS
  d1 = d1
  d2 = d2
  NHosts = 2
  Keys = {d1}
  Homes <- OneEach
  ExcludeChoices <- ExcludeNone
  Statuses = {0, 1, 3}
  DayLength = 100
  RetentionDays = 1
  Gaps <- Adjacent
  Span = 1
  Start = 0
  MaxClock = 4
  Channels = {"mail"}
  Floor = 2
  NotifyRecovery = TRUE
  NotifyUnreachable = TRUE
  MaxRestarts = 1
INVARIANTS
  TypeOK PresenceAlternates MissingIffAnnounced
  RetainedMatchesStorage HostTopicKeepsSuccess
  MailMatchesEvents RecoveryFollowsAlert HostMailAlternates
PROPERTY AnnouncesPresence
