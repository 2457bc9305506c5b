SPECIFICATION Spec
CONSTANTS
    own = own
    mine = mine
    Queries = {own, mine}
    Kinds = {"owned", "default", "chat", "master"}
    Own = own
    NoQuery = NoQuery
    Nothing = Nothing
    PageCap = 1
    MaxNow = 2
    MaxTokens = 2
    MaxCommands = 1
CHECK_DEADLOCK FALSE
INVARIANTS
    Projected
