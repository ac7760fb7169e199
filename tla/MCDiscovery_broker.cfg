\* Two disks that claim the same serial number.
SPECIFICATION Spec
CONSTANTS
  d1 = d1
  d2 = d2
  s1 = s1
  Disks = {d1, d2}
  Serials = {s1}
  SerialOf <- Shared
INVARIANTS FreshIsAnnounced NoDuplicates
PROPERTY AvailableAgain
