SPECIFICATION Spec
CONSTANTS
  A = A
  B = B
  a1 = a1
  Ids = {a1, b1}
  b1 = b1
  Boards = {A, B}
  BoardOf <- MCBoardOf
  Posting <- MCPosting
  Fossils = {}
  Class <- MCClass
  Order <- MCOrder
  Ledgers <- MCLedgers
  MinKeep = 1
  Stamps = 2
  MaxAborts = 1
  ShortReadsCount = TRUE
  Remembered = 2
  Withdrawable = {}
INVARIANT EvictedOnConsecutiveMisses
