\* Two amounts, two coins, two transactions, two sends at once.
SPECIFICATION Spec
CONSTANTS
  Addresses = {a1}
  Amounts = {v1, v2}
  Coins = {c1, c2}
  Empty = Empty
  Chains = {n1, n2}
  MaxPsbts = 2
INVARIANTS
  ShownAsFunded
  OnePaymentAtATime
  ReviewHoldsCoins
CHECK_DEADLOCK FALSE
