SPECIFICATION Spec
CONSTANTS
    License <- MCLicense
    Customer <- MCCustomer
    KeySets <- MCKeySets
    CertSigned <- MCAllSigned
    NoKeys = NoKeys
    Unreadable = Unreadable
    NoSub = NoSub
    ConfiguredSub = ConfiguredSub
    GlobalSub = FALSE
    Watcher = {w1}
    Reload = {}
    Products = {p1}
    HasURIs = FALSE
    Reporting = TRUE
    MayStop = FALSE
    MaxEdits = 2
    MaxRotations = 0
    MaxHups = 0
CHECK_DEADLOCK FALSE
INVARIANTS
    NoStrandedWaiter
    NoDoubleClose
    AnswersHaveClaims
    ClaimsMatchScan
PROPERTIES
    EventsAnnounceNewClaims
    FeedSpec
