CONSTANTS
  tag = tag
  Entry = {1}
  Query = {tag}
  Linked = {}
  Page <- FeedPage
  Reader = {r1}
  SaveStatus = {"public"}
  MaxSaves = 2
  MaxFaults = 0
SPECIFICATION Spec
CHECK_DEADLOCK FALSE
INVARIANTS
  FreshAtRest
