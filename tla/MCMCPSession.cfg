\* One actor with one client, one thread, one event, two calls in flight.
CONSTANTS
  p1 = p1
  a1 = a1
  own = own
  c1 = c1
  r1 = r1
  t1 = t1
  u1 = u1
  NoPrincipal = NoPrincipal
  Idle = Idle
  Principals = {p1}
  Labels = {a1, own}
  OwnerLabel = own
  Clients = {c1}
  Requests = {r1}
  CodeTTL = 1
  AccessTTL = 1
  RefreshTTL = 2
  MaxPendingCodes = 1
  MaxTime = 3
  MaxSerial = 3
  MaxRotations = 1
  Threads = {t1}
  LegacyThreads = {}
  PurgedBefore = {}
  MaxEventId = 1
  MaxCalls = 2
  Redirects = {u1}
  RedirectOf <- FirstRedirect
SPECIFICATION SessionSpec
PROPERTIES
  PostsProvePassword
  ListIsHonoured
