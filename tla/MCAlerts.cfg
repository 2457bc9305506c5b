SPECIFICATION FairSpec
CONSTANTS
    own = own
    mine = mine
    Queries = {own, mine}
    Own = own
    Kinds = {"owned", "default", "chat", "master"}
    NoQuery = NoQuery
    Nothing = Nothing
    PageCap = 1
    MaxNow = 2
    MaxTokens = 2
    MaxCommands = 1
CHECK_DEADLOCK FALSE
INVARIANTS
    StopMeansGone
    InStep
    NothingSkipped
PROPERTIES
    Delivered
