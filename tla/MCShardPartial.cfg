SPECIFICATION Spec
CONSTANTS
    a = a
    b = b
    c = c
    Boards = {a, b, c}
    Workers = 2
    Nobody = Nobody
CHECK_DEADLOCK FALSE
INVARIANTS
    PartialIsSafe
