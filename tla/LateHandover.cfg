CONSTANTS
  u1 = u1
  u2 = u2
  u3 = u3
  i1 = i1
  h1 = h1
  h2 = h2
  h3 = h3
  Users = {u1, u2, u3}
  InvoiceIds = {i1}
  InvHandlers = {h1, h2, h3}
  NoUser = NoUser
  MaxInt = 5
  Amounts = {1, 2}
  StartCoin <- MCStartCoin
SYMMETRY Symmetry
SPECIFICATION InvoicesSpec
PROPERTY ClosedKeepsPayer
CHECK_DEADLOCK FALSE
