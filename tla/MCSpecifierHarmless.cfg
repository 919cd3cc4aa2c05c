SPECIFICATION Spec
CONSTANTS
    a = a
    b = b
    Sorts <- MCSorts
    Declarations <- MCDeclarations
    Instances <- MCInstances
    UintMod = 8
INVARIANT
    SpecifierHarmless
