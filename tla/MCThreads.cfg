SPECIFICATION Spec
CONSTANTS
  t1 = t1
  t2 = t2
  t3 = t3
  c1 = c1
  c2 = c2
  Thread = {t1, t2}
  Coroutine = {c1, c2}
  Capacity = 1
  MaxCalls = 2
SYMMETRY Alike
INVARIANTS NothingLostOrDuplicated AtMostOneOver PartnersMeet
