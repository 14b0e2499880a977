SPECIFICATION FairSpec
CONSTANTS
    Daemon = {d1, d2, d3}
    NoFile = NoFile
    Stale = Stale
    Nobody = Nobody
    MaxStarts = 3
CHECK_DEADLOCK FALSE
INVARIANTS
    TypeOK
    SettledIsReachable
    AloneComesUp
PROPERTIES
    StartEnds
