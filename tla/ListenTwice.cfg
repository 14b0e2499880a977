SPECIFICATION Spec
CONSTANTS
    Daemon = {d1, d2}
    NoFile = NoFile
    Stale = Stale
    Nobody = Nobody
    MaxStarts = 2
CHECK_DEADLOCK FALSE
PROPERTIES
    NeverDeletesTwice
