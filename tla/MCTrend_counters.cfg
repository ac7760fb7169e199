\* Up to four polls of a hard disk or an SSD, with gaps within and beyond the
\* window.
SPECIFICATION Spec
CONSTANTS
  Kinds = {"hdd", "ssd"}
  Profiles <- Everything
  Limits <- Defaults
  Gaps = {1, 3}
  Window = 2
  DayLength = 2
  RetentionDays = 1
  MaxPolls = 4
  MaxCount = 1
INVARIANTS RisingStays PersistingIsTwice StatusIsMonotone
