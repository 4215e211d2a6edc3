\* The day ends when its records hold MaxPairs pairs.
CHECK_DEADLOCK FALSE
CONSTANTS
    Cycle = 4
    MaxPairs = 4
    MaxNames = 2
SPECIFICATION Spec
INVARIANTS VerdictIsEarned CycleIsTheCycle SweepIsUnbiased
PROPERTIES RecordsStay
