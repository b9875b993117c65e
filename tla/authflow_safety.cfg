SPECIFICATION FairAuthSpec
CONSTANTS
    Types <- AllTypes
    MaxFlows = 3
INVARIANTS Chained
PROPERTIES EndsUsable ContractSpec SignInEnds
CHECK_DEADLOCK FALSE
