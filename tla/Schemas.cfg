SPECIFICATION Spec
CONSTANTS
    Declared <- MCDeclared
    BodyOf <- MCBodyOf
    NoTag = "none"
    Inline = {"Detail", "Envelope"}
    Programs <- MCPrograms
    Placeholders <- MCPlaceholders
    VariantType <- MCVariantType
    BranchName <- MCBranchName
CHECK_DEADLOCK FALSE
INVARIANTS
    SchemasDescribeJSON
    UnionsAreWhole
    SplitLosesNothing
