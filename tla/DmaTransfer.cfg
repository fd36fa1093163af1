SPECIFICATION Spec
CONSTANTS
  t1 = t1
  t2 = t2
  t3 = t3
  b1 = b1
  b2 = b2
  None = None
  Threads = {t1, t2, t3}
  Contexts = {c1, c2}
  Entries = {p1}
  Bufs = {b1, b2}
  Casts <- AllCasts
  MaxLock = 1
  MaxTotal = 2
INVARIANTS
  TypeOK
  MappedUnderDma
  DoneMeansMoved
  QuietWhenDisabled
  ContextsDistinct
  RefsExact
  TotalExact
SYMMETRY Alike
