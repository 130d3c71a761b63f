CONSTANTS
    Identifiers <- MCIdentifiers
    Keywords <- MCKeywords
    Pascal <- MCPascal
    Alias <- MCAlias
    None = None
    Lower <- MCLower
    Cells = {0, 1}
    MaxFile = 3
    Arguments <- READMEArguments
    Executed <- READMEArguments
SPECIFICATION RunSpec
INVARIANT ResultIsOfTheWholeSource
CHECK_DEADLOCK FALSE
