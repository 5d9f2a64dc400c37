SPECIFICATION Spec
CONSTANTS
    CHIP_FLOOR = 2
    INITIAL_CHIP_BALANCE = 4
    alice = alice
    bob = bob
    carol = carol
    Users = {alice, bob}
    NoUser = NoUser
    MAX_SEATS = 2
    SMALL_BLIND = 1
    BIG_BLIND = 2
    STARTING_STACK = 4
    MAX_MISSED_ACTIONS = 1
    RaiseSizes = {2}
    Instances <- OpponentLeaves
INVARIANT ChipsConserved
CHECK_DEADLOCK FALSE
