CONSTANTS
    ByName <- MCByName
    Chain <- MCChain
    Weights <- MCWeights
    RuleList <- MCRuleList
    Token = {0, 1, 2}
    None = None
SPECIFICATION EngineSpec
INVARIANT WeightsDecide
CHECK_DEADLOCK FALSE
