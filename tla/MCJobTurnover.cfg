SPECIFICATION Spec
CONSTANTS
    i1 = i1
    i2 = i2
    b1 = b1
    eng = eng
    ops = ops
    Ids = {i1, i2}
    Boards = {b1}
    BoardOf <- MCBoardOf
    Families = {eng, ops}
    NonTech = NonTech
    Away = Away
    MaxRuns = 3
SYMMETRY Symm
INVARIANTS NetIsStock
PROPERTIES ClosureBooked OpenedOnce
