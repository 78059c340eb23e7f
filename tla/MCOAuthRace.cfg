\* A rotation while a handler holds the actor's grant.
CONSTANTS
  p1 = p1
  a1 = a1
  a2 = a2
  own = own
  c1 = c1
  c2 = c2
  r1 = r1
  r2 = r2
  NoPrincipal = NoPrincipal
  Idle = Idle
  Principals = {p1}
  Labels = {a1, own}
  OwnerLabel = own
  Clients = {c1, c2}
  Requests = {r1, r2}
  CodeTTL = 1
  AccessTTL = 1
  RefreshTTL = 2
  MaxPendingCodes = 1
  MaxTime = 4
  MaxSerial = 4
  MaxRotations = 1
SPECIFICATION Spec
INVARIANTS
  RotationRevokesAll
