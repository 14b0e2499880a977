SPECIFICATION Spec
CONSTANTS
    NumFiles = 3
    License <- MCLicense
    NoId = NoId
    NoUid = NoUid
    Absent = Absent
    KeySets <- MCKeySets
    NoKeys = NoKeys
    MaxTime = 1
    MaxEdits = 2
CHECK_DEADLOCK FALSE
INVARIANTS
    TypeOK
    NewestPerUid
    OldestFirst
    UntouchedAreExact
PROPERTIES
    ChangesAreReported
