SPECIFICATION Spec
CONSTANTS
    Baseline = 0
    Plan = {p1}
    Request = {r1, r2}
    Replica = {w1}
    Faulty <- MCFaulty
    MaxFaults = 0
    Shared = Shared
    Partial = Partial
    Foreign = Foreign
SYMMETRY Symmetry
INVARIANT EveryChangeRecorded
