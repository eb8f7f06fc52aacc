SPECIFICATION Spec
CONSTANTS
    Baseline = 0
    Plan = {p1, p2}
    Port = {a1, a2, b1}
    a1 = a1
    a2 = a2
    b1 = b1
    Side = {"Back"}
    Schacht = {zA, zB, zC}
    zA = zA
    zB = zB
    zC = zC
    SchachtOf <- MCSchachtOf
    Cable = {k1}
    k1 = k1
    BundleNo = {1}
    FiberNo = {1, 2}
    Duct = {d1, d2}
    d1 = d1
    d2 = d2
    DuctEnds <- MCDuctEnds
    NoRow = NoRow
    Removed = Removed
    NoCable = NoCable
    ImportedUsage <- MCNothingImported
    ImportedKabel <- MCImportedKabel
    KabelInput <- MCKabelInput
    MaxChanges = 2
    MaxRows = 2
SYMMETRY Symmetry
PROPERTY EditAddsNoIssue
CHECK_DEADLOCK FALSE
