SPECIFICATION Spec
CONSTANTS
    Agents = {ann, bob}
    Refs = {r1}
    Slots = {1, 2}
    Planned <- Day
    MaxForced = 1
    FAUCET_LIFETIME_MAX = 1
    GLOBAL_FAUCET_MAX = 1
SYMMETRY MCSymmetry
CONSTRAINT Orderly
INVARIANTS TypeOK PaidOncePerDecision RecordsAreTrue FaucetWithinBudget KeysOutliveTheirUsers KeysAreSeparate
CHECK_DEADLOCK FALSE
