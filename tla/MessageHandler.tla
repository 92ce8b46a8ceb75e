--------------------------- MODULE MessageHandler ---------------------------
(***************************************************************************)
(* Concurrent requests to the upstream: CreateMessage, with and without    *)
(* stream, and TestConnection (internal/handler/handler.go), and the       *)
(* upstream client they share (internal/client/openai.go) with its         *)
(* registry ActiveRequests of cancel functions.  Each request is served by *)
(* a goroutine of its own; the registry is locked for one operation at a   *)
(* time, so the operations of different requests interleave.               *)
(*                                                                         *)
(* The converter of a streaming response is StreamConverter; here it only  *)
(* ends, or asks for its request to be cancelled first.                    *)
(***************************************************************************)
EXTENDS Integers, FiniteSets, Functions

CONSTANTS
    Requests,   \* the requests, each made once
    Ids,        \* what generateUUID can return
    Replies,    \* what an upstream may answer with
    NoId, NoReply, NoResponse, Nobody

\* An upstream's answer: its status, whether its body is JSON, whether that has
\* a usable choice, and whether a Retry-After header comes with it.
Reply == [status : Nat, json : BOOLEAN, choices : BOOLEAN, retryAfter : BOOLEAN]

\* What a handler can answer.
Response == [status : {200, 400, 401, 403, 404, 413, 429, 502},
             type : {"message", "stream", "error", "success", "failure"},
             retryAfter : BOOLEAN]

ASSUME RequestsAssumption ==
    /\ Replies \subseteq Reply
    /\ NoId \notin Ids
    /\ NoReply \notin Replies
    /\ NoResponse \notin Response
    /\ Nobody \notin Requests

Kinds == {"message", "stream", "test"}

VARIABLES
    phase,           \* what the request's goroutine does next
    kind,            \* a "message", a "stream" or a connection "test"
    id,              \* its request id
    reply,           \* the upstream's answer
    err,             \* the error the client package returns
    response,        \* what the handler has answered
    bodyOpen,        \* the upstream's response body is open
    ctxDone,         \* its client has gone: r.Context() is done
    cancelled,       \* the context derived from it has been cancelled
    found,           \* the cancel function CancelRequest has looked up
    ActiveRequests,  \* the registry: whose cancel function an id leads to
    asked            \* history: the converter has called cancelFn

vars == <<phase, kind, id, reply, err, response, bodyOpen, ctxDone, cancelled,
          found, ActiveRequests, asked>>

\* No error, one without a status (nothing, or nothing parsable, was read), or
\* an *OpenAIError.
NoError == [kind |-> "none", status |-> 0, retryAfter |-> FALSE]
NetworkError == [kind |-> "network", status |-> 0, retryAfter |-> FALSE]
ParseError == [kind |-> "parse", status |-> 0, retryAfter |-> FALSE]
OpenAIError(p) == [kind |-> "openai", status |-> p.status, retryAfter |-> p.retryAfter]

\* Faulty: every status is passed on.
ClaudeErrorAny(status) == status

\* The statuses ClaudeError passes on; any other becomes 502.
ClaudeError(status) == IF status \in {400, 401, 403, 404, 429} THEN status ELSE 502

\* Faulty: Retry-After is not forwarded.
writeUpstreamErrorBare(e) ==
    [status |-> IF e.kind = "openai" THEN ClaudeError(e.status) ELSE 502,
     type |-> "error", retryAfter |-> FALSE]

writeUpstreamError(e) ==
    [status |-> IF e.kind = "openai" THEN ClaudeError(e.status) ELSE 502,
     type |-> "error",
     retryAfter |-> e.kind = "openai" /\ e.retryAfter]

Init ==
    /\ phase = [r \in Requests |-> "new"]
    /\ kind = [r \in Requests |-> "message"]
    /\ id = [r \in Requests |-> NoId]
    /\ reply = [r \in Requests |-> NoReply]
    /\ err = [r \in Requests |-> NoError]
    /\ response = [r \in Requests |-> NoResponse]
    /\ bodyOpen = [r \in Requests |-> FALSE]
    /\ ctxDone = [r \in Requests |-> FALSE]
    /\ cancelled = [r \in Requests |-> FALSE]
    /\ found = [r \in Requests |-> Nobody]
    /\ ActiveRequests = <<>>
    /\ asked = [r \in Requests |-> FALSE]

Streams(r) == kind[r] = "stream"

\* The context the upstream request runs under has ended.
Ended(r) == ctxDone[r] \/ cancelled[r]

Goto(r, p) == phase' = [phase EXCEPT ![r] = p]

Respond(r, status, type, retryAfter) ==
    response' = [response EXCEPT ![r] =
        [status |-> status, type |-> type, retryAfter |-> retryAfter]]

-----------------------------------------------------------------------------
(***************************************************************************)
(* decodeJSONBody, and what follows it up to trackRequest.                 *)
(***************************************************************************)
BadBody(r) ==
    /\ phase[r] = "new"
    /\ \E status \in {400, 413} : Respond(r, status, "error", FALSE)
    /\ Goto(r, "done")
    /\ UNCHANGED <<kind, id, reply, err, bodyOpen, ctxDone, cancelled, found,
                   ActiveRequests, asked>>

\* Faulty: the same id is drawn again (a failure of rand.Read is ignored).
DecodeAnyId(r) ==
    /\ phase[r] = "new"
    /\ \E k \in Kinds : kind' = [kind EXCEPT ![r] = k]
    /\ \E i \in Ids : id' = [id EXCEPT ![r] = i]
    /\ Goto(r, "track")
    /\ UNCHANGED <<reply, err, response, bodyOpen, ctxDone, cancelled, found,
                   ActiveRequests, asked>>

\* generateUUID returns 122 random bits: no id is drawn twice.  A test has no
\* body to decode.
Decode(r) ==
    /\ phase[r] = "new"
    /\ \E k \in Kinds : kind' = [kind EXCEPT ![r] = k]
    /\ \E i \in Ids \ {id[q] : q \in Requests} : id' = [id EXCEPT ![r] = i]
    /\ Goto(r, "track")
    /\ UNCHANGED <<reply, err, response, bodyOpen, ctxDone, cancelled, found,
                   ActiveRequests, asked>>

trackRequest(r) ==
    /\ phase[r] = "track"
    /\ ActiveRequests' = [i \in DOMAIN ActiveRequests \cup {id[r]} |->
                            IF i = id[r] THEN r ELSE ActiveRequests[i]]
    /\ Goto(r, "do")
    /\ UNCHANGED <<kind, id, reply, err, response, bodyOpen, ctxDone, cancelled,
                   found, asked>>

-----------------------------------------------------------------------------
(***************************************************************************)
(* The upstream request.                                                   *)
(***************************************************************************)

\* Faulty: a stream's request that fails is not untracked.
RequestFailsLeak(r) ==
    /\ phase[r] = "do"
    /\ err' = [err EXCEPT ![r] = NetworkError]
    /\ Goto(r, IF Streams(r) THEN "report" ELSE "untrack")
    /\ UNCHANGED <<kind, id, reply, response, bodyOpen, ctxDone, cancelled, found,
                   ActiveRequests, asked>>

\* The request cannot be made, or Do fails: no connection, the context has
\* ended, or (without stream) the client's timeout.
RequestFails(r) ==
    /\ phase[r] = "do"
    /\ err' = [err EXCEPT ![r] = NetworkError]
    /\ Goto(r, "untrack")
    /\ UNCHANGED <<kind, id, reply, response, bodyOpen, ctxDone, cancelled, found,
                   ActiveRequests, asked>>

\* The upstream's status and headers arrive.
Headers(r) ==
    /\ phase[r] = "do"
    /\ \E p \in Replies : reply' = [reply EXCEPT ![r] = p]
    /\ bodyOpen' = [bodyOpen EXCEPT ![r] = TRUE]
    /\ Goto(r, IF Streams(r) /\ reply'[r].status = 200 THEN "startStream" ELSE "read")
    /\ UNCHANGED <<kind, id, err, response, ctxDone, cancelled, found,
                   ActiveRequests, asked>>

\* What CreateChatCompletion makes of a body it could read: JSON comes first.
ResultOf(p) ==
    IF ~p.json THEN ParseError
    ELSE IF p.status # 200 THEN OpenAIError(p)
    ELSE NoError

\* Faulty: the body of a stream's error response is not closed.
ReadBodyLeaves(r) ==
    /\ phase[r] = "read"
    /\ err' = [err EXCEPT ![r] = IF Streams(r) THEN OpenAIError(reply[r])
                                              ELSE ResultOf(reply[r])]
    /\ bodyOpen' = [bodyOpen EXCEPT ![r] = Streams(r)]
    /\ Goto(r, "untrack")
    /\ UNCHANGED <<kind, id, reply, response, ctxDone, cancelled, found,
                   ActiveRequests, asked>>

\* The body is read to its end and closed.  A stream's error response need not
\* be JSON, and errors while reading it are ignored.
ReadBody(r) ==
    /\ phase[r] = "read"
    /\ err' = [err EXCEPT ![r] = IF Streams(r) THEN OpenAIError(reply[r])
                                              ELSE ResultOf(reply[r])]
    /\ bodyOpen' = [bodyOpen EXCEPT ![r] = FALSE]
    /\ Goto(r, "untrack")
    /\ UNCHANGED <<kind, id, reply, response, ctxDone, cancelled, found,
                   ActiveRequests, asked>>

\* Reading fails: the context has ended, the upstream broke off, or (without
\* stream) the client's timeout.
ReadBodyFails(r) ==
    /\ phase[r] = "read"
    /\ err' = [err EXCEPT ![r] = IF Streams(r) THEN OpenAIError(reply[r]) ELSE NetworkError]
    /\ bodyOpen' = [bodyOpen EXCEPT ![r] = FALSE]
    /\ Goto(r, "untrack")
    /\ UNCHANGED <<kind, id, reply, response, ctxDone, cancelled, found,
                   ActiveRequests, asked>>

\* The deferred or explicit untrackRequest.
untrackRequest(r) ==
    /\ phase[r] = "untrack"
    /\ ActiveRequests' = Restrict(ActiveRequests, DOMAIN ActiveRequests \ {id[r]})
    /\ Goto(r, "report")
    /\ UNCHANGED <<kind, id, reply, err, response, bodyOpen, ctxDone, cancelled,
                   found, asked>>

Ok(type) == [status |-> 200, type |-> type, retryAfter |-> FALSE]

\* The error, or the converted completion.  A completion without a usable
\* choice becomes an error body under status 200.  A test succeeds or fails
\* under status 200.
Report(r) ==
    /\ phase[r] = "report"
    /\ response' = [response EXCEPT ![r] =
         IF kind[r] = "test" THEN Ok(IF err[r] = NoError THEN "success" ELSE "failure")
         ELSE IF err[r] # NoError THEN writeUpstreamError(err[r])
         ELSE Ok(IF reply[r].choices THEN "message" ELSE "error")]
    /\ Goto(r, "done")
    /\ UNCHANGED <<kind, id, reply, err, bodyOpen, ctxDone, cancelled, found,
                   ActiveRequests, asked>>

-----------------------------------------------------------------------------
(***************************************************************************)
(* A streaming response.                                                   *)
(***************************************************************************)
StartStream(r) ==
    /\ phase[r] = "startStream"
    /\ Respond(r, 200, "stream", FALSE)
    /\ Goto(r, "converting")
    /\ UNCHANGED <<kind, id, reply, err, bodyOpen, ctxDone, cancelled, found,
                   ActiveRequests, asked>>

\* CancelRequest looks the id up under the read lock ...
CancelLookup(r) ==
    /\ phase[r] = "converting"
    /\ asked' = [asked EXCEPT ![r] = TRUE]
    /\ found' = [found EXCEPT ![r] = IF id[r] \in DOMAIN ActiveRequests
                                     THEN ActiveRequests[id[r]] ELSE Nobody]
    /\ Goto(r, "cancel")
    /\ UNCHANGED <<kind, id, reply, err, response, bodyOpen, ctxDone, cancelled,
                   ActiveRequests>>

\* ... and calls what it found without it.
CancelCall(r) ==
    /\ phase[r] = "cancel"
    /\ cancelled' = IF found[r] = Nobody THEN cancelled
                                         ELSE [cancelled EXCEPT ![found[r]] = TRUE]
    /\ Goto(r, "close")
    /\ UNCHANGED <<kind, id, reply, err, response, bodyOpen, ctxDone, found,
                   ActiveRequests, asked>>

\* The converter returns without having cancelled: the message is complete.
StreamEnds(r) ==
    /\ phase[r] = "converting"
    /\ Goto(r, "close")
    /\ UNCHANGED <<kind, id, reply, err, response, bodyOpen, ctxDone, cancelled,
                   found, ActiveRequests, asked>>

\* trackedReadCloser.Close: onClose untracks the request ...
Close(r) ==
    /\ phase[r] = "close"
    /\ ActiveRequests' = Restrict(ActiveRequests, DOMAIN ActiveRequests \ {id[r]})
    /\ Goto(r, "closeBody")
    /\ UNCHANGED <<kind, id, reply, err, response, bodyOpen, ctxDone, cancelled,
                   found, asked>>

\* ... and then the body is closed.
CloseBody(r) ==
    /\ phase[r] = "closeBody"
    /\ bodyOpen' = [bodyOpen EXCEPT ![r] = FALSE]
    /\ Goto(r, "done")
    /\ UNCHANGED <<kind, id, reply, err, response, ctxDone, cancelled, found,
                   ActiveRequests, asked>>

-----------------------------------------------------------------------------
ClientGoes(r) ==
    /\ phase[r] # "done"
    /\ ~ctxDone[r]
    /\ ctxDone' = [ctxDone EXCEPT ![r] = TRUE]
    /\ UNCHANGED <<phase, kind, id, reply, err, response, bodyOpen, cancelled, found,
                   ActiveRequests, asked>>

\* The request's body comes from the client, at its own pace.
Arrive(r) == BadBody(r) \/ Decode(r)

\* The steps that wait for nobody.
Step(r) ==
    \/ trackRequest(r) \/ untrackRequest(r) \/ Report(r)
    \/ StartStream(r) \/ CancelLookup(r) \/ CancelCall(r) \/ StreamEnds(r)
    \/ Close(r) \/ CloseBody(r)

\* Faulty: httpClient has no timeout either.
WaitEndsNoTimeout(r) ==
    /\ Ended(r)
    /\ RequestFails(r) \/ ReadBodyFails(r)

\* The waits for the upstream that end by themselves: those under the timeout
\* of httpClient, and those whose context has ended.
WaitEnds(r) ==
    /\ ~Streams(r) \/ Ended(r)
    /\ RequestFails(r) \/ ReadBodyFails(r)

Upstream(r) == Headers(r) \/ ReadBody(r) \/ RequestFails(r) \/ ReadBodyFails(r)

AllDone ==
    /\ \A r \in Requests : phase[r] = "done"
    /\ UNCHANGED vars

Next ==
    \/ \E r \in Requests : Arrive(r) \/ Step(r) \/ Upstream(r) \/ ClientGoes(r)
    \/ AllDone

(***************************************************************************)
(* Handlers are scheduled, and waits under a timeout end.  A converter need*)
(* not end: it goes on for as long as its upstream sends.  Nothing is      *)
(* assumed of the upstream or of the client.                               *)
(***************************************************************************)
Scheduled(r) == phase[r] # "converting" /\ Step(r)

Fairness == \A r \in Requests : WF_vars(Scheduled(r)) /\ WF_vars(WaitEnds(r))

Spec == Init /\ [][Next]_vars /\ Fairness

-----------------------------------------------------------------------------
Phases == {"new", "track", "do", "read", "untrack", "report", "startStream",
           "converting", "cancel", "close", "closeBody", "done"}

ErrorType == [kind : {"none", "network", "parse", "openai"}, status : Nat, retryAfter : BOOLEAN]

\* Requests, errors and the registry stay in their types; in particular only
\* the statuses the proxy knows are ever answered.
TypeOK ==
    /\ phase \in [Requests -> Phases]
    /\ kind \in [Requests -> Kinds]
    /\ id \in [Requests -> Ids \cup {NoId}]
    /\ reply \in [Requests -> Replies \cup {NoReply}]
    /\ err \in [Requests -> ErrorType]
    /\ response \in [Requests -> Response \cup {NoResponse}]
    /\ bodyOpen \in [Requests -> BOOLEAN]
    /\ ctxDone \in [Requests -> BOOLEAN]
    /\ cancelled \in [Requests -> BOOLEAN]
    /\ found \in [Requests -> Requests \cup {Nobody}]
    /\ DOMAIN ActiveRequests \subseteq Ids
    /\ \A i \in DOMAIN ActiveRequests : ActiveRequests[i] \in Requests
    /\ asked \in [Requests -> BOOLEAN]

\* The phases between trackRequest and the untrackRequest that matches it.
Tracked == {"do", "read", "untrack", "startStream", "converting", "cancel", "close"}

\* The registry holds exactly the requests in progress, each under its own id:
\* no path out of the client package, successful or not, leaves an entry
\* behind or removes that of another request.
RegistryExact ==
    /\ DOMAIN ActiveRequests = {id[r] : r \in {q \in Requests : phase[q] \in Tracked}}
    /\ \A r \in Requests : phase[r] \in Tracked => ActiveRequests[id[r]] = r

\* A request that is over holds no upstream body.
NoBodyLeft == \A r \in Requests : phase[r] \in {"done", "report"} => ~bodyOpen[r]

\* No request is cancelled but by its own converter, and one whose converter
\* asked is cancelled before its body is closed, although the cancel function
\* is called after the registry's lock was released.
CancelHitsOwnRequest ==
    \A r \in Requests :
        /\ cancelled[r] => asked[r]
        /\ asked[r] /\ phase[r] \in {"close", "closeBody", "done"} => cancelled[r]

\* The request is over and its upstream has answered with a failure.
Failed(r) == phase[r] = "done" /\ reply[r] # NoReply /\ reply[r].status # 200

\* The failure as the client should see it.
Mapped(p) ==
    [status |-> ClaudeError(p.status), type |-> "error", retryAfter |-> p.retryAfter]

\* An upstream failure is never answered as a message or a stream, nor as a
\* successful test; where its body was read (and, for a completion, was JSON)
\* the client gets the Claude error of its status and the Retry-After that came
\* with it.
FailuresReported ==
    \A r \in Requests :
        /\ Failed(r) /\ kind[r] = "test" => response[r].type = "failure"
        /\ Failed(r) /\ kind[r] # "test" =>
            /\ response[r].type = "error"
            /\ response[r].status # 200
            /\ Streams(r) \/ (reply[r].json /\ err[r].kind # "network") =>
                response[r] = Mapped(reply[r])

\* Upstream statuses map to Claude errors, whatever the body looks like: an
\* upstream whose 429 was read to its end is answered with 429.
StatusMapped ==
    \A r \in Requests :
        Failed(r) /\ kind[r] # "test" /\ err[r].kind # "network" =>
            response[r] = Mapped(reply[r])

\* Every request without stream is answered, whatever the upstream does: the
\* client's timeout bounds every wait.
CompletionsAnswered ==
    \A r \in Requests : (phase[r] = "track" /\ ~Streams(r)) ~> phase[r] = "done"

\* Every streaming request is answered, too.
StreamsAnswered ==
    \A r \in Requests : (phase[r] = "track" /\ Streams(r)) ~> phase[r] = "done"
=============================================================================
