SPECIFICATION Spec
CONSTANTS
    World <- MCWorld
    Unanswered = Unanswered
    Failed = Failed
    NotFound = NotFound
    Pending = Pending
    Closed = Closed
    Pages = {"lkmap"}
    NewCable = NewCable
    NoCable = NoCable
    NoPath = NoPath
    NewDuct = NewDuct
    NoDuct = NoDuct
    NoSchacht = NoSchacht
    NoFile = NoFile
    NoCheck = NoCheck
    NoFit = NoFit
    NoRow = NoRow
    Removed = Removed
    NewPort = NewPort
    NoPort = NoPort
    NewPanel1 = NewPanel1
    NewPanel2 = NewPanel2
    Root = Root
    NoPanel = NoPanel
    NoDevice = NoDevice
    NewCabinet = NewCabinet
    NoCabinet = NoCabinet
    NoPosition = NoPosition
    Checking = Checking
    Proposal = Proposal
    Invalid = Invalid
    Incomplete = Incomplete
    NoDialog = NoDialog
    NoTyp = NoTyp
    LkmapTime = 7
INVARIANT
    ComparedWithTheLast
CHECK_DEADLOCK FALSE
