SPECIFICATION FairSpec
CONSTANTS
  s1 = s1
  s2 = s2
  u1 = u1
  u2 = u2
  k1 = k1
  p1 = p1
  p2 = p2
  Sales = {s1, s2}
  Units = {u1}
  Cart <- MCSharedCart
  Keys = {k1}
  Payments = {"cash"}
  NotPosted = NotPosted
  CreditLimit = 1
  MaxVersion = 1
  MaxUnitVersion = 2
  Clients = {p1, p2}
  Staff = Staff
  LockOrder <- MCOneUnit
  Free = Free
PROPERTY EveryRequestIsAnswered
