CONSTANTS
  u1 = u1
  u2 = u2
  u3 = u3
  r1 = r1
  r2 = r2
  h1 = h1
  h2 = h2
  Users = {u1, u2, u3}
  RoomIds = {r1, r2}
  ArenaHandlers = {h1, h2}
  NoUser = NoUser
  MaxInt = 40
  Amounts = {5, 7, 10, 15}
  StartCoin <- MCStartCoin
SYMMETRY Symmetry
SPECIFICATION ArenaSpec
INVARIANTS OneMatchPerRoom LedgerOverchargesLosers RoomsExplainBalances OverdraftBounded
PROPERTIES ImplementsEscrow
CHECK_DEADLOCK FALSE
