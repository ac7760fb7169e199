\* Two requests at once, two hosts, one of them with up to two disks; liveness,
\* so no symmetry. The scheduler may be stopped.
SPECIFICATION PollingSpec
CONSTANTS
  c1 = c1
  c2 = c2
  a = a
  b = b
  Callers = {c1, c2}
  NHosts = 2
  DrivesOf <- TwoDrives
INVARIANT LateOnlyInBetween
PROPERTIES PollsKeepComing AcceptedIsServed EachHostForItself
CHECK_DEADLOCK FALSE
