CONSTANTS
  u1 = u1
  u2 = u2
  h1 = h1
  h2 = h2
  g1 = g1
  g2 = g2
  k1 = k1
  k2 = k2
  i1 = i1
  r1 = r1
  Users = {u1, u2}
  Handlers = {h1, h2}
  InvHandlers = {g1, g2}
  ArenaHandlers = {k1, k2}
  InvoiceIds = {i1}
  RoomIds = {r1}
  NoUser = NoUser
  MaxInt = 10
  Amounts = {5, 10}
  StartCoin <- MCStartCoin
SYMMETRY Symmetry
SPECIFICATION WaitingMarketSpec
INVARIANTS NoOverdraft NoOverRepay MoneyConserved
CHECK_DEADLOCK FALSE
