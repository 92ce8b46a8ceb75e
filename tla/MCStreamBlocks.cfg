SPECIFICATION Spec
CONSTANTS
    ToolIdx <- MCToolIdx
    CallIds <- MCCallIds
    ToolNames <- MCToolNames
    Frags <- MCFrags
    Lines <- MCLines
    JsonTexts <- MCJsonTexts
    MaxLines = 4
INVARIANTS
    TypeOK
    BlocksMatched
    DeltasInTheirBlock
    ToolArgsInPlaceInOrder
    OneBlockPerCall
    NothingLost
    ReportFaithful
    StreamMeansCompletion
PROPERTY
    KeepsMessagePromise
