SPECIFICATION FairSpec
CONSTANTS
  Consumer = {c1, c2}
  Loader = {l1}
  Shop = {s1, s2}
  START = 1
  DEMAND = 2
  Input = {1}
  MAX_STOCK = 2
  Free = Free
INVARIANT StockMatchesBooks
PROPERTY ShopGoesOn
CHECK_DEADLOCK FALSE
