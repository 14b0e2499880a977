SPECIFICATION FairSpec
CONSTANTS
    License <- MCOneLicense
    Customer <- MCCustomer
    KeySets <- MCOneKeySet
    CertSigned <- MCCertSigned
    NoKeys = NoKeys
    Unreadable = Unreadable
    NoSub = NoSub
    ConfiguredSub = ConfiguredSub
    GlobalSub = FALSE
    Watcher = {w1}
    Reload = {}
    Products = {}
    HasURIs = FALSE
    Reporting = TRUE
    MayStop = TRUE
    MaxEdits = 0
    MaxRotations = 0
    MaxHups = 0
CHECK_DEADLOCK FALSE
INVARIANTS
    ErrorsFit
    ServeTellsCause
PROPERTIES
    StopExits
