CONSTANTS
    Identifiers <- MCIdentifiers
    Keywords <- MCKeywords
    Pascal <- MCPascal
    Alias <- MCAlias
    None = None
    Lower <- MCLower
    Cells = {0, 1}
    MaxFile = 3
    Arguments <- MCArguments
    Executed <- MCExecuted
SPECIFICATION RunSpec
INVARIANTS
    GeneratedDeclaresTheFieldsRead
    BatchesAreTransformedAsAsked
CHECK_DEADLOCK FALSE
