SPECIFICATION Spec
CONSTANTS
  w1 = w1
  w2 = w2
  d1 = d1
  d2 = d2
  c1 = c1
  c2 = c2
  Workers = {w1, w2}
  Sessions = {d1, d2}
  Cashiers = {c1, c2}
  NoSession = NoSession
  NoCashier = NoCashier
  OpeningCash = {1}
  MaxRows = 2
  MaxDay = 2
SYMMETRY MCSymmetry
CONSTRAINT MCBound
INVARIANT ClosingCountsEveryMovement
