\* Two processes, two old messages, one of them without content.
CONSTANTS
  o1 = o1
  o2 = o2
  NoTable = NoTable
  Processes = {o1, o2}
  OldMessages = 2
  OldNotes = {1}
  MaxMessages = 4
  MaxCrashes = 2
SPECIFICATION Spec
SYMMETRY Symmetry
INVARIANTS
  TypeOK
  EventsSurviveUnlessCut
  ContentKept
  MigratedWhenInUse
PROPERTIES
  FailsOnlyWhenDisturbed
