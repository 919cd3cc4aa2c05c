SPECIFICATION Spec
CONSTANTS
    Keywords <- MCKeywords
    Definitions <- MCDefinitions
    FormatsOf <- MCFormatsOf
    Arguments <- MCArguments
    Width <- MCWidth
INVARIANTS
    TypeOK
    ClearTypesReadBack
    NothingMisread
