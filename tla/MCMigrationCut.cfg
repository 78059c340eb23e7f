\* One process that dies once.
CONSTANTS
  o1 = o1
  o2 = o2
  NoTable = NoTable
  Processes = {o1}
  OldMessages = 2
  OldNotes = {1}
  MaxMessages = 4
  MaxCrashes = 1
SPECIFICATION Spec
INVARIANT EventsSurvive
