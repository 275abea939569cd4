SPECIFICATION MapSpec
CONSTANTS
    Hashes <- MCHashes
    Values = {v1, v2}
    NullValue = NullValue
    MinCap = 4
    MaxCap = 16
INVARIANT MapInv
PROPERTIES
    RefinesAbstractMap
    LenExact
