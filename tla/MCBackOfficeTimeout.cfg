SPECIFICATION MCSpec
CONSTANTS
  l1 = l1  l2 = l2  w1 = w1  w2 = w2  i1 = i1  i2 = i2  i3 = i3  k1 = k1  k2 = k2 
  Units = {l1}
  Locations = {l1, l2}
  Quantities = {1, 2}
  MaxOnHand = 3
  Asks = {i1, i2}
  Customers = {k1, k2}
  ServedBy = {l1}
  DemandStaff = {w1, w2}
  NoAsk = NoAsk
  NoCustomer = NoCustomer
  NoSale = NoSale
  Outcomes = {"unavailable", "invalid_or_fraudulent"}
  Targets = {"available", "closed"}
  MaxAskVersion = 2
  Errands = {i1, i2}
  RecordKeys = {k1, k2}
  Calls = {w1, w2}
  Entries <- MCEntries
  FeeBlock = 2
  FeePerBlock <- MCFeePerBlock
  MaxRetries = 1
  NoKey = NoKey
  NoCall = NoCall
  NoErrand = NoErrand
  NoEntry = NoEntry
  BatchKeys = {k1, k2}
  Batches = {w1, w2}
  NoBatchKey = NoKey
  NoBatch = NoBatch
  MaxRows = 2
  MaxQuantity = 2
  MaxRowIds = 2
  Tickets = {i1, i2}
  Goods = {k1, k2}
  Reviews = {w1, w2}
  Postings = {w1, w2}
  NoTicket = NoTicket
  NoGoods = NoGoods
  MaxBaskets = 1
  MaxReviewed = 2
  Categories = {i1, i2, i3}
  Editors = {w1, w2}
  Root = Root
  Unlocked = Unlocked
  MaxTreeVersion = 1
  Addresses = {k1, k2}
  Accounts = {i1, i2, i3}
  Limit = 2
  Window = 4
  MaxTrackers = 3
CONSTRAINT MCBound
INVARIANT NothingRecordedIsTrue
CHECK_DEADLOCK FALSE
