SPECIFICATION Spec
CONSTANTS
    r1 = r1
    r2 = r2
    Runner = {r1, r2}
    Stage = {"local-exact-sha-replay", "unit-tests"}
    StageList <- ShortList
    Reports <- MCReports
    Evidence <- MCEvidence
    MaxEdits = 1
    MaxDeaths = 0
SYMMETRY Symmetry
INVARIANT
    HonestPass
