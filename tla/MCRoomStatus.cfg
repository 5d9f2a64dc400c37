SPECIFICATION FairSpec
CONSTANTS
    Rooms = {blackjack, poker}
    DbCanFail = TRUE
    MaxChanges = 3
    MaxRestarts = 1
CHECK_DEADLOCK FALSE
INVARIANTS
    TypeOK
    StatusFollowsTable
PROPERTIES
    WritesInOrder
    StatusSettles
