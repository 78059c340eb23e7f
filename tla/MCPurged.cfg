\* The same instance shows [Purged] before any collection.
CONSTANTS
  p1 = p1
  p2 = p2
  a1 = a1
  a2 = a2
  own = own
  t1 = t1
  t2 = t2
  v1 = v1
  v2 = v2
  NoPrincipal = NoPrincipal
  Principals = {p1}
  Labels = {a1, own}
  OwnerLabel = own
  Threads = {t1, t2}
  LegacyThreads = {}
  PurgedBefore = {}
  MaxEventId = 3
SPECIFICATION Spec
PROPERTIES
  PurgedOnlyByGC
