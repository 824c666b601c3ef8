SPECIFICATION FairSpec
CONSTANTS
    Path <- MCPath
    InputList <- MCInputs
    ProfileList <- MCProfiles
    ComponentList <- MCComponents
    Version <- MCVersion
    Gone = "gone"
    Drafts <- MCDrafts
    Variable <- MCVariable
    Value = {"qemux86-64", "1"}
    Unset = "unset"
    Foreign = "1"
    Yields <- MCYields
    Expected <- MCExpected
    MaxEdits = 2
    MaxDeaths = 1
INVARIANTS
    TypeOK
    PassedWasGiven
PROPERTIES
    ImplementsClaim
    KeepsUncommittedReports
    EveryRunEnds
