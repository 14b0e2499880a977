SPECIFICATION FairSpec
CONSTANTS
    License <- MCOneLicense
    Customer <- MCCustomer
    KeySets <- MCGoodAndBadKeys
    CertSigned <- MCCertSigned
    NoKeys = NoKeys
    Unreadable = Unreadable
    NoSub = NoSub
    ConfiguredSub = ConfiguredSub
    GlobalSub = TRUE
    Watcher = {}
    Reload = {r1}
    Products = {}
    HasURIs = TRUE
    Reporting = FALSE
    MayStop = FALSE
    MaxEdits = 1
    MaxRotations = 1
    MaxHups = 0
CHECK_DEADLOCK FALSE
PROPERTIES
    ReloadAnswered
    Converges
