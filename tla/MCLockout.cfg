\* A right password lifts a lockout that began while it was being verified.
CONSTANTS
  k1 = k1
  k2 = k2
  k3 = k3
  r1 = r1
  r2 = r2
  Idle = Idle
  Labels = {k1, k2, k3}
  Known = {k1, k2}
  Requests = {r1, r2}
  MaxFailures = 2
  Window = 2
  MaxTracked = 2
SPECIFICATION Spec
PROPERTIES
  LockedUntilWindowEnds
