SPECIFICATION Spec
CONSTANTS
    r1 = r1
    r2 = r2
    Runner = {r1, r2}
    Stage = {"local-exact-sha-replay", "unit-tests"}
    StageList <- ShortList
    Reports <- MCReports
    Evidence <- MCEvidence
    MaxEdits = 0
    MaxDeaths = 1
SYMMETRY Symmetry
PROPERTIES
    KeepsContract
    OnlyRefreshWrites
