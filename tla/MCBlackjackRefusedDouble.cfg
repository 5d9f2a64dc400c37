SPECIFICATION FairSpec
CONSTANTS
    CHIP_FLOOR = 2
    INITIAL_CHIP_BALANCE = 3
    Users = {alice}
    NoUser = NoUser
    MAX_SEATS = 2
    MinBet = 2
    MaxBet = 2
    ChipDenominations = {2}
    MaxMissedDeals = 1
    Requests = {r1}
    DbCanFail = FALSE
    MaxDealerDraws = 2
    MaxRounds = 1
PROPERTIES
    ActionTimeoutEndsTurn
