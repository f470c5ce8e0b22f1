CONSTANTS
  tag = tag
  Entry = {1, 2}
  Query = {}
  Linked = {1}
  Page <- FirstEntryPage
  Reader = {r1}
  SaveStatus = {"public", "delayed", "withdrawn"}
  MaxSaves = 2
  MaxFaults = 1
SPECIFICATION FairSpec
CHECK_DEADLOCK FALSE
INVARIANTS
  IInv
  OutdatedIsAnnounced
  RenderedIsAnnounced
  TrackbackIsAnnounced
PROPERTY StaleGoes
