SPECIFICATION ExposedSpec
CONSTANTS
    a = a
    b = b
    Sorts <- MCSorts
    Declarations <- MCDeclarations
    Instances <- MCInstances
    UintMod = 8
    Attributes <- MCAttributes
    Parented <- MCParented
    Places <- MCPlaces
    Targets <- MCTargets
    Loops <- MCLoops
    Arguments <- MCArguments
    EmptyRegion = a
INVARIANTS
    HandleOK
    FreshReadsBack
    CheckedReadsMeet
    AbortsExplained
    DefaultsFilled
