SPECIFICATION Spec
CONSTANTS
  s1 = s1
  s2 = s2
  u1 = u1
  u2 = u2
  k1 = k1
  k2 = k2
  p1 = p1
  p2 = p2
  Sales = {s1, s2}
  Units = {u1, u2}
  Cart <- MCSeparateCart
  Keys = {k1, k2}
  Payments = {"cash", "credit"}
  NotPosted = NotPosted
  CreditLimit = 1
  MaxVersion = 2
  MaxUnitVersion = 2
  Clients = {p1, p2}
  Staff = Staff
  LockOrder <- MCLockOrder
  Free = Free
SYMMETRY MCSymmetry
CONSTRAINT MCBound
INVARIANTS
  TypeOK
  AnswersAreTrue
  RefusalsAreFinal
  InvoicesAreGapless
  CreditWithinLimit
PROPERTY PostsAtomically
