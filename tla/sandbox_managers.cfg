SPECIFICATION Spec
CONSTANTS
  Managers = {m1, m2}
  t1 = t1
  t2 = t2
  Tools = {t1, t2}
  MaxRequests <- Requests
SYMMETRY Symmetry
INVARIANT OnlyGranted
INVARIANT DecisionsKept
