CONSTANTS
    t1 = t1
    t2 = t2
    d1 = d1
    s1 = s1
    s2 = s2
    None = None
    Tills <- MCTills
    Devices <- MCDevices
    DevBenches <- MCDevBenches
    Safes <- MCSafes
    Pasted <- MCPasted
    MaxSubstates = 4
    MaxSignatures = 1
SPECIFICATION Spec
INVARIANTS PreparedLands SignedByIsTrue HandoffMintsNothing
