CONSTANTS
    alice = alice
    bob = bob
    Users = {alice, bob}
    NoUser = NoUser
    None = None
    SecondTicks = 2
    BaseSecs = 2
    IncrementSecs = 1
    MoveSecs = 1
    DbCanFail = FALSE
    MaxPlies = 1
    MaxRevision = 4
    MaxRestarts = 0
    MaxSaves = 2
SPECIFICATION FairSpec
PROPERTIES
    TurnEnds
