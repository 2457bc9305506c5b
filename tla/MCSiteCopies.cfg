SPECIFICATION Spec
CONSTANTS
  P = P
  Q = Q
  N = N
  p = p
  pOld = pOld
  q = q
  n = n
  Ids = {p, pOld, q, n}
  Boards = {P, Q, N}
  BoardOf <- MCBoardOf
  Posting <- MCPosting
  Fossils = {pOld}
  Class <- MCClass
  Order <- MCOrder
  Ledgers <- MCLedgers
  MinKeep = 2
  Stamps = 1
  MaxAborts = 1
  ShortReadsCount = FALSE
  Remembered = 0
  Withdrawable = {}
INVARIANTS OneRowPerPosting PruneOnlyDisplaces
PROPERTIES ListedIsServed NoSilentLoss
