SPECIFICATION FairSpec
CONSTANTS
    Baseline = 0
    Plan = {p1}
    Request = {r1, r2}
    Replica = {w1, w2}
    Faulty <- MCFaulty
    MaxFaults = 2
    Shared = Shared
    Partial = Partial
    Foreign = Foreign
INVARIANTS
    TypeOK
    SynchronMeansShown
    IssuesMatchResult
PROPERTIES
    IssuesKeepNetbox
    ChangesGetSynced
    SettlesInTheEnd
