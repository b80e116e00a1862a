SPECIFICATION FairSpec
CONSTANTS
    Client = {c1, c2}
    Path <- MCPath
    FirstPort = 2
    LastPort = 5
    MaxSetups = 2
INVARIANTS
    SocketsAccounted
    BoundBothWays
    AnswersHold
PROPERTY CallsEnd
CHECK_DEADLOCK FALSE
