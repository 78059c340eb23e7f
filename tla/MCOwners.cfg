\* Two owners, one actor, two threads of their own, two V0 threads that nobody
\* owns at first, one of them with purged_at set; two events.
CONSTANTS
  p1 = p1
  p2 = p2
  a1 = a1
  a2 = a2
  own = own
  t1 = t1
  t2 = t2
  v1 = v1
  v2 = v2
  NoPrincipal = NoPrincipal
  Principals = {p1, p2}
  Labels = {a1, own}
  OwnerLabel = own
  Threads = {t1, t2, v1, v2}
  LegacyThreads = {v1, v2}
  PurgedBefore = {v2}
  MaxEventId = 2
SPECIFICATION Spec
SYMMETRY Symmetry
INVARIANTS
  AclWithinOwner
  RefsStayWithinOwner
PROPERTIES
  HumanProvenance
  GCIsExact
  ClosedThreadsFrozen
