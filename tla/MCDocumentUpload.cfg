SPECIFICATION Spec
CONSTANTS
    p1 = p1
    p2 = p2
    Replicas = {p1, p2}
    Uploads <- AllFiles
    NoUpload = NoUpload
    NoRow = NoRow
    Faults = {"disk", "database", "webhook"}
    MaxCrashes = 1
SYMMETRY Symmetry
INVARIANTS
    TypeOK
    RecordedHasFile
    AcceptedFitsTable
    IntakeAtMostOnce
PROPERTY DocumentIsFinal
