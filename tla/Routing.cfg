CONSTANTS
    Coroutine = {q1, q2, q3}
    Threshold = 2
    Nobody = Nobody
    ByName <- MCByName
    Chain <- MCChain
    Weights <- MCWeights
    RuleList <- MCRuleList
    Token = {0, 1, 2}
    None = None
    Request = {r1, r2}
    Graph = {good, other, bad}
    Valid = {good, other}
    Null = Null
    MaxVersions = 3
    Provider <- MCProvider
    NoAlias = NoAlias
    NaN = NaN
    Node <- MCNode
    InitialGraph <- MCInitialGraph
    Values <- MCValues
    Percents = {50}
    Inputs <- MCInputs
    MaxActs = 3
SPECIFICATION Spec
SYMMETRY Symmetry
INVARIANTS
    CountIsExact
    QuarantineIsEarned
    OvershootBounded
    
    OnePublished
    ConfigNamesPublished
    ConfigIsValid
    PanelIsStricter
    CanvasIsStored
PROPERTIES
    PublishedIsKept
    ImplementsContract
CHECK_DEADLOCK FALSE
