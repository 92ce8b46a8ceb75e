SPECIFICATION Spec
CHECK_DEADLOCK FALSE
CONSTANTS
    call_a = call_a
    call_b = call_b
    NoId = NoId
    ToolIds <- MCToolIds
    Texts <- MCTexts
    Blanks <- MCBlanks
    Results <- MCResults
    UserContents <- MCUserContents
    AssistantContents <- MCAssistantContents
    SystemContents <- MCSystemContents
    Starts <- MCStarts
    MaxTurns = 4
INVARIANT
    SystemTurnsHaveText
