\* A file torn by a first run that died is refused by every run from then on.
CHECK_DEADLOCK FALSE
CONSTANTS
    Processes = {p1, p2, p3}
    Keys = {k1, k2}
    Passphrases = {w1, w2}
    MaxInodes = 5
    FirstRunsOverlap = FALSE
    SealsOverlap = FALSE
SPECIFICATION Spec
INVARIANTS ReliedKeysOpen OneAccount StaysSealed
