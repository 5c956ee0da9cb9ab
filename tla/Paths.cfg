SPECIFICATION Spec
CONSTANTS
    Scanner = {zip}
    Unknown = Unknown
    PRINT = PRINT
    Offset = {0, 2}
    Suffix <- MCSuffix
    RangeHeader <- MCRange
    NoRange = NoRange
    Lengths <- MCLengths
    DecodedSize = {6}
    Modulus = 8
    MaxParts = 3
    MaxRequests = 2
    MaxRecursions = 2
INVARIANTS
    TypeOK
    SbufsDeleted
    
PROPERTIES
    Returns
