CONSTANTS
  Request = {e1, v1}
  Edit = {e1}
  Reporting = {e1}
  MaxProcs = 3
  MaxFaults = 1
  Capacity = 1
  MaxVisits = 1
SPECIFICATION Spec
INVARIANTS
  AnswerIsOwn
  FailsAfterTwo
  ReaderNeverStuck
  PanicHasCause
  ClosedMeansFailure
