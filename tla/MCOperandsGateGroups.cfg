SPECIFICATION Spec
CONSTANTS
    Keywords <- MCKeywords
    Declarations <- MCDeclarations
    Formats <- MCFormats
    Instances <- MCInstances
    BuiltType = "b"
INVARIANT OperandsGateGroups
