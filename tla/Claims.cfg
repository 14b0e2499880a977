SPECIFICATION Spec
CONSTANTS
    Request = {r1, r2}
    Product = {"gw", "meet"}
    Claim = {"users", "domains"}
    Item = {"a", "b", "c", "x", "7", "2", "t", "inf"}
    Infinite = Infinite
    Float <- MCFloat
    Finite <- MCFinite
    Plus <- MCPlus
    Free = Free
    Own = Own
    NoName = NoName
    Key <- MCKey
    Value <- MCValue
    Parses <- MCParses
    NoJSON <- MCNoJSON
    Integer <- MCInteger
    Decimal <- MCDecimal
    Truth <- MCTruth
    Form <- MCForm
    Generated = Generated
    Issued <- MCIssued
    MaxPublish = 2
SYMMETRY MCSymmetry
CHECK_DEADLOCK FALSE
INVARIANTS
    TypeOK
    AnswerIsAggregate
    PublishedStays
    OrderIsIrrelevant
    PanicNeedsMixedTypes
    GeneratedIsServed
