CONSTANTS
  MaxEntry = 2
  Saver = {s1, s2}
  MaxTime = 2
  DayOf <- TwoADay
  MaxSaves = 3
  MaxFaults = 1
SPECIFICATION FairSpec
CHECK_DEADLOCK FALSE
INVARIANTS
  IInv
  PathsUnique
  PublicIsAnnounced
PROPERTIES
  UrlStable
  DueIsPublished
