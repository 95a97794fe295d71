SPECIFICATION Spec
CONSTANTS
  w1 = w1
  w2 = w2
  t1 = t1
  t2 = t2
  blank = blank
  Updates = {t1, t2}
  Words = {w1, w2}
  Statuses = {1}
  Blank = blank
  MaxRetries = 3
  MaxFaults = 1
  MaxCards = 1
SYMMETRY Symmetry
INVARIANTS
  TypeOK
  CreatedWithStatus
  CreatedFromACard
  OneOrderPerCard
PROPERTIES
  ImplementsDesk
