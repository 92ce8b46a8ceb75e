SPECIFICATION Spec
CONSTANTS
    ip1 = ip1
    ip2 = ip2
    Keys <- MCKeys
    Rate = 3
    Window = 3
INVARIANTS
    TypeOK
    TokensAccountForRequests
    BurstBound
    DenialsJustified
PROPERTIES
    DenialsEnd
    StaleEvicted
