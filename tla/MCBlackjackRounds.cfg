SPECIFICATION Spec
CONSTANTS
    CHIP_FLOOR = 2
    INITIAL_CHIP_BALANCE = 4
    Users = {alice, bob}
    NoUser = NoUser
    MAX_SEATS = 2
    MinBet = 2
    MaxBet = 2
    ChipDenominations = {2}
    MaxMissedDeals = 1
    Requests = {r1, r2}
    DbCanFail = TRUE
    MaxDealerDraws = 2
    MaxRounds = 2
SYMMETRY Symmetry
CONSTRAINT SecondRoundAlone
INVARIANTS
    TypeOK
    PendingTracksDebit
    TimersHaveTasks
    PhaseMatchesHands
    DeferredLeavesHonoured
    ChipsConserved
PROPERTIES
    BetsStayInPlay
    RoundStartsWhenReady
