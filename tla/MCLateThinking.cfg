SPECIFICATION Spec
CONSTANTS
    ToolIdx <- MCToolIdx
    CallIds <- MCCallIds
    ToolNames <- MCToolNames
    Frags <- MCFrags
    Lines <- MCLines
    JsonTexts <- MCJsonTexts
    MaxLines = 3
INVARIANT
    ThinkingFirst
