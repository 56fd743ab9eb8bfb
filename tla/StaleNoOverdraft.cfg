CONSTANTS
  u1 = u1
  u2 = u2
  h1 = h1
  h2 = h2
  Users = {u1, u2}
  Handlers = {h1, h2}
  NoUser = NoUser
  MaxInt = 3
  Amounts = {1, 2}
  StartCoin <- MCStartCoin
SYMMETRY Symmetry
SPECIFICATION TransactionsSpec
INVARIANT NoOverdraft
