SPECIFICATION Spec
CONSTANTS
  w1 = w1
  w2 = w2
  o1 = o1
  o2 = o2
  k1 = k1
  k2 = k2
  d1 = d1
  Workers = {w1, w2}
  Orders = {o1, o2}
  Keys = {k1, k2}
  Devices = {d1}
  Terms <- MCTerms
  Contents <- MCContents
  QuickBuys <- MCQuickBuys
  DevicePrice = 5
  NoKey = NoKey
  NoRequest = NoRequest
  Free = Free
  MaxVersion = 2
  MaxIssued = 1
SYMMETRY MCSymmetry
CONSTRAINT MCBound
INVARIANTS
  StatusTellsReceipts
  ReceiptsAddUp
  TermsAsApproved
  AnswersAreTrue
  AverageWithinPrices
PROPERTY ReceivesAtomically
