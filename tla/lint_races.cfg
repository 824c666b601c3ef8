SPECIFICATION Spec
CONSTANTS
    Uid <- MCUid
    DirOf <- MCDirOf
    f1 = f1
    f2 = f2
    v1 = v1
    v2 = v2
    File = {f1, f2}
    Content = {v1, v2}
    Lines <- MCLines
    Level = {"1.1", "1.2"}
    Finding = {"F-001", "F-002"}
    NoFinding = NoFinding
    NoFile = NoFile
    NotYaml = NotYaml
    NoUid = NoUid
    Variants <- MCVariants
    Variants0 <- MCVariants0
    Content0 <- MCContent0
    MaxEdits = 2
INVARIANTS
    TypeOK
    StrictPassIsTraced
    ClosureSuppressesOnlyItself
    RetiringHidesOnlyItself
    NothingSkipped
    AppliedDecisionsWereHeld
PROPERTIES
    ImplementsGate
