SPECIFICATION Spec
CONSTANTS
    License <- MCLicense
    Customer <- MCCustomer
    KeySets <- MCKeySets
    CertSigned <- MCCertSigned
    NoKeys = NoKeys
    Unreadable = Unreadable
    NoSub = NoSub
    ConfiguredSub = ConfiguredSub
    GlobalSub = FALSE
    Watcher = {w1}
    Reload = {}
    Products = {}
    HasURIs = FALSE
    Reporting = TRUE
    MayStop = FALSE
    MaxEdits = 0
    MaxRotations = 0
    MaxHups = 0
CHECK_DEADLOCK FALSE
INVARIANTS
    UpdateIsHeard
