SPECIFICATION Spec
CONSTANTS
    ToolIdx <- MCToolIdx
    CallIds <- MCCallIds
    ToolNames <- MCToolNames
    Frags <- MCFrags
    Lines <- MCLines
    Cap = 2
    MaxLines = 3
INVARIANTS
    TypeOK
    LinesInOrder
    CompleteMeansAllRead
    BrokenReadReported
PROPERTIES
    ProgressResetsTimer
    ConverterReturns
    PumpExits
