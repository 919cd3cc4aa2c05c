SPECIFICATION FairSpec
CONSTANTS
    Ops = {1, 2, 3, 4, 5, 6, 7, 8, 9, 10}
    Blocks = {1, 2, 3, 4, 5}
    Kinds <- MCKinds
    Pure = {"c"}
    DialectOf <- MCDialectOf
    Passes <- MCPasses
    Programs <- MCPrograms
    MaxIterations = 3
INVARIANTS
    TypeOK
    NoFault
    SettledWhenConverged
    DefsFirst
    ConvertedIsLegal
    FailureRestores
PROPERTIES
    Returns
