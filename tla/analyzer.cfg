SPECIFICATION FairSpec
CONSTANTS
    Archive = {"openssl-4.0.2", "headers", "patched", "unsafe"}
    Absent = "absent"
    Pinned = "openssl-4.0.2"
    Sound = {"openssl-4.0.2", "headers", "patched"}
    Source = {"keccak1600", "other"}
    PinnedSource = "keccak1600"
    SourceOf <- MCSourceOf
    Field = {"triage_owner", "disposition"}
    MaxEdits = 1
    MaxDeaths = 1
    MaxFindings = 1
INVARIANTS
    TypeOK
    EvidenceIsEarned
    ClosedWasDecided
    GateFollowsLane
PROPERTIES
    EveryAnalysisEnds
