SPECIFICATION Spec
CONSTANTS
    r1 = r1
    r2 = r2
    id1 = id1
    id2 = id2
    Requests <- MCRequests
    Ids <- MCIds
    Replies <- MCReplies
    NoId = NoId
    NoReply = NoReply
    NoResponse = NoResponse
    Nobody = Nobody
INVARIANT
    StatusMapped
