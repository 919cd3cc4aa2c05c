SPECIFICATION Spec
CONSTANTS
    d1 = d1
    d2 = d2
    n1 = n1
    n2 = n2
    i64 = i64
    type = type
    attr = attr
    Kinds <- MCKinds
    NoDialect = NoDialect
    Dialects <- MCDialects
    Names <- MCNames
    Builtins <- MCBuiltins
    PoolSize = 5
PROPERTY AllResolved
