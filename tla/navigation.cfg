CONSTANTS
  Entry = {e1, e2, e3}
  MaxDay = 3
  Today = 2
  MaxTime = 2
  MonthOf <- TwoDayMonths
  MaxDays = 2
  MinDays = 1
  Threshold = 2
  Limit = 1
  MaxChanges = 2
SPECIFICATION FairSpec
CHECK_DEADLOCK FALSE
INVARIANTS
  EndMeetsAll
  ShowsOnce
PROPERTY WalksEnd
