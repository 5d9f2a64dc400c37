CONSTANTS
    ann = ann
    ben = ben
    aquarium = aquarium
    guppy = guppy
    koi = koi
    food = food
    flakes = flakes
    hat = hat
    bow = bow
    cap = cap
    spark = spark
    first = first
    second = second
    early = early
    third = third
    weekly = weekly
    None = None
    Users = {ann, ben}
    Items = {aquarium, guppy, koi, food, flakes, hat, bow, cap, spark}
    Assignments = {first, early, second, third, weekly}
    Price <- Prices
    Slotted = {hat, bow, cap}
    Fish = {guppy, koi}
    Repeatable = {guppy, koi, food, flakes, spark}
    Limited = {spark}
    Aquarium = aquarium
    PetFood = food
    AquariumFood = flakes
    DayOf <- Days
    Daily = {first, early, second, third}
    Target <- Targets
    Highest = {third}
    OpeningBalance <- Balances
    OpeningShelf <- Opening
    ChipFloor = 2
    MaxFish = 2
    Reward = 2
    BonusChipsPerLevel = 1
    MaxBonusLevel = 5
    LastDay = 2
    Instances <- Workloads
SPECIFICATION Spec
CHECK_DEADLOCK FALSE
INVARIANTS
    BalanceIsLedger
    LimitsHold
    DeadlocksAreKnown
