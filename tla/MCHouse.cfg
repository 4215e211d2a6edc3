SPECIFICATION HouseSpec
CONSTANTS
    Agents = {ann}
    Refs = {1, 2}
    Slots = {1}
    Planned <- MintPayPay
    MaxForced = 0
    FAUCET_LIFETIME_MAX = 1
    GLOBAL_FAUCET_MAX = 1
    Price <- MCPrice
    HOUSE_BUDGET = 3
    MaxPerSweep = 2
    SelfPaid = {1}
    MaxDeaths = 1
INVARIANTS RecordedWithinBudget NeverTheSameTwice PaidMeansLanded
CHECK_DEADLOCK FALSE
