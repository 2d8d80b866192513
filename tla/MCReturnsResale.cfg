SPECIFICATION Spec
CONSTANTS
  u1 = u1
  goods = goods
  l1 = l1
  l2 = l2
  s1 = s1
  s2 = s2
  r1 = r1
  r2 = r2
  Units = {u1}
  Goods = goods
  Locations = {l1, l2}
  Quantities = {2}
  MaxOnHand = 2
  NoLocation = NoLocation
  Sales = {s1, s2}
  Price <- MCPrice
  Cost <- MCCost
  LineQuantities = {1, 2}
  Discounts = {1}
  CreditAmounts = {0, 1}
  CreditLimit = 1
  Returns = {r1, r2}
  NoSale = NoSale
SYMMETRY MCSymmetry
CONSTRAINT MCBound
INVARIANT ReturnedUnitsCanBeSoldAgain
