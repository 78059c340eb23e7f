\* Two owners, two sessions, one login past its password check at a time.
CONSTANTS
  p1 = p1
  p2 = p2
  l1 = l1
  Idle = Idle
  Principals = {p1, p2}
  Logins = {l1}
  TTL = 2
  MaxSerial = 2
  MaxPassword = 2
SPECIFICATION Spec
INVARIANTS
  TypeOK
  RotationEndsSessionsUnlessRaced
  FormsActForTheirViewer
PROPERTIES
  EndedByItsOwnerOnly
  EndedForever
  SessionsEnd
