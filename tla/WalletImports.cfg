\* Every call in any order on either wallet: ranges over -1..5 with 2-bit
\* indexes and at most 3 entries, two keys of node 0 with their origins as
\* strings, two imports.
SPECIFICATION Spec
CONSTANTS
    None = None
    IndexBits = 2
    MaxSpan = 3
    Negatives = 1
    Highest = 5
    NumKeys = 2
    MaxImports = 2
    MaxDerived = 1
INVARIANT TypeOK
INVARIANT TakesExactlyValidRanges
INVARIANT PoolInImportOrder
INVARIANT OriginsAsWritten
PROPERTY ImportsOnlyAdd
