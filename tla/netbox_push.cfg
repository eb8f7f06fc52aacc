SPECIFICATION FairSpec
CONSTANTS
    o1 = o1
    o2 = o2
    t1 = t1
    t2 = t2
    Cid = {o1, o2, f}
    OwnCid = {o1, o2}
    RearPort = {1, 2, 3, 4}
    CircuitId = {1, 2, 3, 4}
    Text = {t1, t2}
    Wanted <- MCWanted
    NoCircuit = NoCircuit
    NoCable = NoCable
    NoJob = NoJob
    Loose = Loose
    Elsewhere = Elsewhere
    MaxEdits = 1
    MaxFailures = 2
    MaxReplans = 1
INVARIANTS
    TypeOK
    NeverInItsOwnWay
PROPERTIES
    KeepsPromise
    Converges
