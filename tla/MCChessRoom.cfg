CONSTANTS
    alice = alice
    bob = bob
    Users = {alice, bob}
    NoUser = NoUser
    None = None
    SecondTicks = 2
    BaseSecs = 1
    IncrementSecs = 1
    MoveSecs = 1
    DbCanFail = TRUE
    MaxPlies = 2
    MaxRevision = 7
    MaxRestarts = 1
    MaxSaves = 2
SPECIFICATION SeatedSpec
INVARIANTS
    TypeOK
    RowCatchesUp
    WinPaidOnce
PROPERTIES
    NoEarlyFlag
    FlagFalls
