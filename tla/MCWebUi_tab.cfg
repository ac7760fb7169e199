\* Two disks and two pages that load once; a poll, two clicks, one failure, two
\* requests at once (three when an answer asks for more).
SPECIFICATION Spec
CONSTANTS
  d1 = d1
  d2 = d2
  Disks = {d1, d2}
  Others = {"events", "setup"}
  None = None
  MaxPolls = 1
  MaxClicks = 2
  MaxFailures = 1
  MaxRequests = 2
INVARIANT PageBelongsToRoute
PROPERTIES
  PageCatchesUp RefreshesKeepComing
