SPECIFICATION Spec
CONSTANTS
    License <- MCLicense
    Customer <- MCCustomer
    KeySets <- MCKeySets
    CertSigned <- MCCertSigned
    NoKeys = NoKeys
    Unreadable = Unreadable
    NoSub = NoSub
    ConfiguredSub = ConfiguredSub
    GlobalSub = FALSE
    Watcher = {}
    Reload = {r1}
    Products = {}
    HasURIs = TRUE
    Reporting = FALSE
    MayStop = FALSE
    MaxEdits = 1
    MaxRotations = 2
    MaxHups = 1
CHECK_DEADLOCK FALSE
INVARIANTS
    TypeOK
    HupNotLost
    KeysNotLost
    ReloadIsFresh
    OfflineMeansThreeFailures
