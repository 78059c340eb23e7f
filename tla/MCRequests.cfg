\* One owner, one actor, two threads, two events, pages of one event.
CONSTANTS
  p1 = p1
  a1 = a1
  own = own
  t1 = t1
  t2 = t2
  NoPrincipal = NoPrincipal
  Principals = {p1}
  Labels = {a1, own}
  OwnerLabel = own
  Threads = {t1, t2}
  LegacyThreads = {}
  PurgedBefore = {}
  MaxEventId = 2
  PageSize = 1
SPECIFICATION RequestsSpec
SYMMETRY Symmetry
INVARIANTS
  RequestsTypeOK
  ChosenAreGranted
  PagesCoverHistory
  PageHonoursMarks
  
  DoneMeansErased
