CONSTANTS
    Nodes = {n1, n2, n3}
    References <- MCReferences
    Batches <- MCBatches
    MAX_ENTRIES = 2
SPECIFICATION Spec
INVARIANTS TypeOK QueuesValidate KeepsAllThatFits
PROPERTIES RoundsCatchUp
