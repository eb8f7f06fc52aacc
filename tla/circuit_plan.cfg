SPECIFICATION Spec
CONSTANTS
    Baseline = 0
    Plan = {}
    Port = {1, 2, 3, 4, 5}
    Side = {"Front", "Back"}
    Schacht = {zA}
    zA = zA
    SchachtOf <- MCSchachtOf
    Cable = {k1}
    k1 = k1
    BundleNo = {1}
    FiberNo = {1, 2, 3}
    Duct = {d1}
    d1 = d1
    DuctEnds <- MCDuctEnds
    NoRow = NoRow
    Removed = Removed
    NoCable = NoCable
    PortType <- MCPortType
    RearPort = {1, 2, 3}
    NoRearPort = NoRearPort
    NetboxPorts <- MCNetboxPorts
    Usages <- MCUsages
INVARIANTS
    TypeOK
    CircuitsAreLinks
    CircuitsDisjoint
    NoLinkLost
    SignalEndsAgree
CHECK_DEADLOCK FALSE
