SPECIFICATION FairSpec
CONSTANTS
    r1 = r1
    r2 = r2
    Runner = {r1}
    Stage = {"local-exact-sha-replay", "cve-disposition-fixture", "unit-tests"}
    StageList <- LongList
    Reports <- MCReports
    Evidence <- MCEvidence
    MaxEdits = 1
    MaxDeaths = 1
INVARIANTS
    TypeOK
    EvidenceIsWhatTheRunSaid
    RefreshRepairs
    HonestPass
PROPERTIES
    EveryRunEnds
