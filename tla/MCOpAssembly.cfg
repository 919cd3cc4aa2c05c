SPECIFICATION Spec
CONSTANTS
    Keywords <- MCKeywords
    Declarations <- MCDeclarations
    Formats <- MCFormats
    Instances <- MCInstances
    BuiltType = "b"
INVARIANTS
    FormatOK
    BoundOnce
    EverythingPrinted
    ClearFormatsReadBack
    NothingMisread
