CONSTANTS
    Subs = {1, 2}
    Sigs = {1, 2, 3, 4, 5}
    Bundles = {"a", "b", "c"}
    Nodes = {n1, n2}
    Envelopes <- MCEnvelopes
    Batches <- MCBatches
SPECIFICATION Spec
INVARIANTS TypeOK HoldsTheBest Convergence StatesValidate
PROPERTIES DowngradeFree SummariesCatchUp
