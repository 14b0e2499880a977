SPECIFICATION FairSpec
CONSTANTS
    License <- MCOneLicense
    Customer <- MCCustomer
    KeySets <- MCOneKeySet
    CertSigned <- MCCertSigned
    NoKeys = NoKeys
    Unreadable = Unreadable
    NoSub = NoSub
    ConfiguredSub = ConfiguredSub
    GlobalSub = FALSE
    Watcher = {}
    Reload = {r1}
    Products = {}
    HasURIs = TRUE
    Reporting = FALSE
    MayStop = FALSE
    MaxEdits = 0
    MaxRotations = 2
    MaxHups = 1
CHECK_DEADLOCK FALSE
PROPERTIES
    ReloadAnswered
