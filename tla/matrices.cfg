SPECIFICATION FairSpec
CONSTANTS
    Rev = {"046a90b", "f94ae3d"}
    Uncommitted = "uncommitted"
    MaxEdits = 2
INVARIANTS
    TypeOK
    ReportIsAttributed
    LifecycleIsOfTheInstall
PROPERTIES
    EveryMatrixEnds
