SPECIFICATION FairSpec
CONSTANT
    Tries = 2
CHECK_DEADLOCK FALSE
INVARIANTS
    TypeOK
    PassMeansOffline
    NoFalseAlarm
    CountsItsOwnCase
PROPERTY
    FixtureEnds
