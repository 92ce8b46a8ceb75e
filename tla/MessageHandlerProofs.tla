------------------------ MODULE MessageHandlerProofs ------------------------
(***************************************************************************)
(* Proofs about MessageHandler, for any number of concurrent requests, ids *)
(* and upstream answers.                                                   *)
(***************************************************************************)
EXTENDS MessageHandler, TLAPS

-----------------------------------------------------------------------------
(***************************************************************************)
(* The inductive invariant.                                                *)
(***************************************************************************)

\* No two requests have the same id, and a request under way has one.
IdsOwn ==
    /\ \A r, q \in Requests : id[r] # NoId /\ id[r] = id[q] => r = q
    /\ \A r \in Requests : phase[r] \notin {"new", "done"} => id[r] \in Ids

StreamPhases == {"startStream", "converting", "cancel", "close", "closeBody"}

\* The phases in which there is a body to close.
BodyHeld(r) == bodyOpen[r] => phase[r] \in StreamPhases \cup {"read"}

\* A request is cancelled because its own converter asked for it, and between
\* looking up and calling the cancel function the converter holds its own.
CancelOwn(r) ==
    /\ cancelled[r] => asked[r]
    /\ asked[r] => phase[r] \in {"cancel", "close", "closeBody", "done"}
    /\ asked[r] /\ phase[r] # "cancel" => cancelled[r]
    /\ phase[r] = "cancel" => asked[r] /\ found[r] = r

\* The upstream has answered when its answer is looked at, and a converter only
\* runs on an answer of status 200.
ReplyFits(r) ==
    /\ phase[r] \in {"new", "track", "do"} => reply[r] = NoReply
    /\ phase[r] \in StreamPhases \cup {"read"} => reply[r] # NoReply
    /\ phase[r] \in StreamPhases => reply[r].status = 200

\* The error carries the upstream's failure, whole if its body could be read.
Carries(r) ==
    /\ err[r] # NoError
    /\ Streams(r) \/ (reply[r].json /\ err[r].kind # "network") =>
        err[r] = OpenAIError(reply[r])

\* An answer that is a failure is known as one before it is reported.
ErrFits(r) ==
    phase[r] \in {"untrack", "report"} /\ reply[r] # NoReply /\ reply[r].status # 200 =>
        Carries(r)

\* FailuresReported, of one request.
Reported(r) ==
    /\ Failed(r) /\ kind[r] = "test" => response[r].type = "failure"
    /\ Failed(r) /\ kind[r] # "test" =>
        /\ response[r].type = "error"
        /\ response[r].status # 200
        /\ Streams(r) \/ (reply[r].json /\ err[r].kind # "network") =>
            response[r] = Mapped(reply[r])

\* A stream's answer begins with its converter, any other is the last step.
Answered(r) ==
    response[r] # NoResponse <=> phase[r] \in (StreamPhases \ {"startStream"}) \cup {"done"}

InOrder(r) ==
    /\ BodyHeld(r)
    /\ CancelOwn(r)
    /\ ReplyFits(r)
    /\ ErrFits(r)
    /\ Reported(r)
    /\ Answered(r)

IInv ==
    /\ TypeOK
    /\ IdsOwn
    /\ RegistryExact
    /\ \A r \in Requests : InOrder(r)

-----------------------------------------------------------------------------
(***************************************************************************)
(* Types.                                                                  *)
(***************************************************************************)

\* What is answered to an upstream's failure has one of the statuses the proxy
\* knows.
LEMMA ErrorAnswered ==
    ASSUME NEW e \in ErrorType
    PROVE  /\ writeUpstreamError(e) \in Response
           /\ writeUpstreamError(e).type = "error"
           /\ writeUpstreamError(e).status # 200
BY DEF writeUpstreamError, ClaudeError, ErrorType, Response

\* What a request that could be read to its end results in.
LEMMA ResultTyped ==
    ASSUME NEW p \in Replies
    PROVE  /\ OpenAIError(p) \in ErrorType
           /\ ResultOf(p) \in ErrorType
BY RequestsAssumption DEF OpenAIError, ResultOf, ParseError, NoError, ErrorType, Reply

\* What one that could not results in.
LEMMA NetworkErrorTyped == NetworkError \in ErrorType
BY DEF NetworkError, ErrorType

-----------------------------------------------------------------------------
(***************************************************************************)
(* What the steps of one request leave alone.                              *)
(***************************************************************************)

\* A step of r that sends it on to phase p, leaves ids and registry alone and
\* keeps r registered or unregistered does not disturb the registry.
LEMMA RegistryKept ==
    ASSUME IInv, NEW r \in Requests, NEW p,
           phase' = [phase EXCEPT ![r] = p],
           UNCHANGED <<id, ActiveRequests>>,
           phase[r] \in Tracked <=> p \in Tracked,
           p = "done" \/ phase[r] \notin {"new", "done"}
    PROVE  (IdsOwn /\ RegistryExact)'
  <1>1. \A q \in Requests : phase'[q] = IF q = r THEN p ELSE phase[q]
    BY DEF IInv, TypeOK
  <1>2. \A q \in Requests : phase'[q] \in Tracked <=> phase[q] \in Tracked
    BY <1>1
  <1>3. IdsOwn'
    BY <1>1 DEF IInv, IdsOwn
  <1>4. RegistryExact'
    BY <1>2 DEF IInv, RegistryExact
  <1> QED
    BY <1>3, <1>4

\* The same of a step that takes r out of the registry.
LEMMA Unregistered ==
    ASSUME IInv, NEW r \in Requests, NEW p,
           phase[r] \in Tracked, p \notin Tracked, p # "new",
           phase' = [phase EXCEPT ![r] = p],
           ActiveRequests' = Restrict(ActiveRequests, DOMAIN ActiveRequests \ {id[r]}),
           UNCHANGED id
    PROVE  (IdsOwn /\ RegistryExact)'
  <1>1. \A q \in Requests : phase'[q] = IF q = r THEN p ELSE phase[q]
    BY DEF IInv, TypeOK
  <1>2. id[r] \in Ids
    BY DEF IInv, IdsOwn, Tracked
  <1>3. \A q \in Requests : id[q] = id[r] => q = r
    BY <1>2, RequestsAssumption DEF IInv, IdsOwn
  <1>4. {q \in Requests : phase'[q] \in Tracked} = {q \in Requests : phase[q] \in Tracked} \ {r}
    BY <1>1
  <1>5. IdsOwn'
    BY <1>1, <1>2 DEF IInv, IdsOwn
  <1>6. DOMAIN ActiveRequests' = DOMAIN ActiveRequests \ {id[r]}
    BY DEF Restrict
  <1>7. DOMAIN ActiveRequests' = {id[q] : q \in {q \in Requests : phase'[q] \in Tracked}}
    BY <1>3, <1>4, <1>6 DEF IInv, RegistryExact
  <1>8. ASSUME NEW q \in Requests, phase'[q] \in Tracked
        PROVE  ActiveRequests'[id[q]] = q
    <2>1. q # r /\ phase[q] \in Tracked
      BY <1>1, <1>8
    <2>2. id[q] \in DOMAIN ActiveRequests \ {id[r]}
      BY <1>3, <2>1 DEF IInv, RegistryExact
    <2> QED
      BY <2>1, <2>2 DEF IInv, RegistryExact, Restrict
  <1> QED
    BY <1>5, <1>7, <1>8 DEF RegistryExact

\* What is left of the registry is still in its type.
LEMMA RegistryShrinks ==
    ASSUME IInv, NEW r \in Requests,
           ActiveRequests' = Restrict(ActiveRequests, DOMAIN ActiveRequests \ {id[r]})
    PROVE  /\ DOMAIN ActiveRequests' \subseteq Ids
           /\ \A i \in DOMAIN ActiveRequests' : ActiveRequests'[i] \in Requests
  <1>1. DOMAIN ActiveRequests' = DOMAIN ActiveRequests \ {id[r]}
    BY DEF Restrict
  <1>2. \A i \in DOMAIN ActiveRequests \ {id[r]} : ActiveRequests'[i] = ActiveRequests[i]
    BY DEF Restrict
  <1> QED
    BY <1>1, <1>2 DEF IInv, TypeOK

\* What InOrder says of q is about q's own part of the state.
LEMMA OthersInOrder ==
    ASSUME IInv, NEW q \in Requests,
           phase'[q] = phase[q], kind'[q] = kind[q], reply'[q] = reply[q],
           err'[q] = err[q], response'[q] = response[q], bodyOpen'[q] = bodyOpen[q],
           cancelled'[q] = cancelled[q], found'[q] = found[q], asked'[q] = asked[q]
    PROVE  InOrder(q)'
  <1>1. InOrder(q)
    BY DEF IInv
  <1> QED
    BY <1>1 DEF InOrder, BodyHeld, CancelOwn, ReplyFits, ErrFits, Carries, Reported, Answered,
        Failed, Streams

-----------------------------------------------------------------------------
(***************************************************************************)
(* Each step keeps the invariant.                                          *)
(***************************************************************************)

\* Before the upstream is asked.
LEMMA ArriveKeeps ==
    ASSUME IInv, NEW r \in Requests, Arrive(r)
    PROVE  IInv'
  <1>1. CASE BadBody(r)
    <2>1. TypeOK'
      BY <1>1 DEF BadBody, Goto, Respond, IInv, TypeOK, Phases, Response
    <2>2. (IdsOwn /\ RegistryExact)'
      BY <1>1, RegistryKept, "done" \notin Tracked, "new" \notin Tracked
      DEF BadBody, Goto, Tracked
    <2>3. ASSUME NEW q \in Requests PROVE InOrder(q)'
      <3>0. response'[r] \in Response
        BY <1>1 DEF BadBody, Respond, Response, IInv, TypeOK
      <3>1. CASE q = r
        <4>1. phase'[r] = "done" /\ response'[r] # NoResponse
          BY <1>1, <3>0, RequestsAssumption DEF BadBody, Goto, IInv, TypeOK
        <4>2. Answered(r)'
          BY <4>1 DEF Answered, StreamPhases
        <4> QED
          BY <4>2, <1>1, <3>1, <4>1 DEF BadBody, Goto, Respond, IInv, TypeOK, InOrder, BodyHeld,
              CancelOwn, ReplyFits, ErrFits, Reported, Failed, StreamPhases
      <3>2. CASE q # r
        BY <1>1, <3>2, OthersInOrder DEF BadBody, Goto, Respond, IInv, TypeOK
      <3> QED
        BY <3>1, <3>2
    <2> QED
      BY <2>1, <2>2, <2>3 DEF IInv
  <1>2. CASE Decode(r)
    <2> PICK k \in Kinds, i \in Ids \ {id[q] : q \in Requests} :
              /\ kind' = [kind EXCEPT ![r] = k]
              /\ id' = [id EXCEPT ![r] = i]
      BY <1>2 DEF Decode
    <2>1. TypeOK'
      BY <1>2 DEF Decode, Goto, IInv, TypeOK, Phases
    <2>2. \A q \in Requests : /\ phase'[q] = IF q = r THEN "track" ELSE phase[q]
                              /\ id'[q] = IF q = r THEN i ELSE id[q]
      BY <1>2 DEF Decode, Goto, IInv, TypeOK
    <2>3. IdsOwn'
      BY <2>2 DEF IInv, IdsOwn
    <2>4. \A q \in Requests : phase'[q] \in Tracked <=> q # r /\ phase[q] \in Tracked
      BY <2>2 DEF Tracked
    <2>5. \A q \in Requests : phase[q] \in Tracked => q # r
      BY <1>2 DEF Decode, Tracked
    <2>6. {id'[q] : q \in {q \in Requests : phase'[q] \in Tracked}} =
              {id[q] : q \in {q \in Requests : phase[q] \in Tracked}}
      BY <2>2, <2>4, <2>5
    <2>7. RegistryExact'
      BY <1>2, <2>2, <2>4, <2>6 DEF Decode, IInv, RegistryExact
    <2>8. ASSUME NEW q \in Requests PROVE InOrder(q)'
      <3>1. CASE q = r
        BY <1>2, <3>1 DEF Decode, Goto, IInv, TypeOK, InOrder, BodyHeld, CancelOwn,
            ReplyFits, ErrFits, Reported, Answered, Failed, StreamPhases
      <3>2. CASE q # r
        BY <1>2, <3>2, OthersInOrder DEF Decode, Goto, IInv, TypeOK
      <3> QED
        BY <3>1, <3>2
    <2> QED
      BY <2>1, <2>3, <2>7, <2>8 DEF IInv
  <1> QED
    BY <1>1, <1>2 DEF Arrive

\* Into the registry.
LEMMA TrackKeeps ==
    ASSUME IInv, NEW r \in Requests, trackRequest(r)
    PROVE  IInv'
  <1>1. id[r] \in Ids
    BY DEF trackRequest, IInv, IdsOwn
  <1>2. TypeOK'
    BY <1>1 DEF trackRequest, Goto, IInv, TypeOK, Phases
  <1>3. \A q \in Requests : phase'[q] = IF q = r THEN "do" ELSE phase[q]
    BY DEF trackRequest, Goto, IInv, TypeOK
  <1>4. {q \in Requests : phase'[q] \in Tracked} = {q \in Requests : phase[q] \in Tracked} \cup {r}
    BY <1>3 DEF Tracked
  <1>5. \A q \in Requests : id[q] = id[r] => q = r
    BY <1>1, RequestsAssumption DEF IInv, IdsOwn
  <1>6. IdsOwn'
    BY <1>1, <1>3 DEF trackRequest, IInv, IdsOwn
  <1>7. DOMAIN ActiveRequests' = {id[q] : q \in {q \in Requests : phase'[q] \in Tracked}}
    BY <1>4 DEF trackRequest, IInv, RegistryExact
  <1>8. ASSUME NEW q \in Requests, phase'[q] \in Tracked
        PROVE  ActiveRequests'[id[q]] = q
    <2>1. CASE q = r
      BY <2>1 DEF trackRequest
    <2>2. CASE q # r
      <3>1. phase[q] \in Tracked
        BY <1>3, <1>8, <2>2
      <3>2. id[q] \in DOMAIN ActiveRequests /\ id[q] # id[r] /\ ActiveRequests[id[q]] = q
        BY <1>5, <2>2, <3>1 DEF IInv, RegistryExact
      <3> QED
        BY <3>2 DEF trackRequest
    <2> QED
      BY <2>1, <2>2
  <1>9. RegistryExact'
    BY <1>7, <1>8 DEF RegistryExact, trackRequest
  <1>10. ASSUME NEW q \in Requests PROVE InOrder(q)'
    <2>1. CASE q = r
      BY <2>1 DEF trackRequest, Goto, IInv, TypeOK, InOrder, BodyHeld, CancelOwn,
          ReplyFits, ErrFits, Reported, Answered, Failed, StreamPhases
    <2>2. CASE q # r
      BY <2>2, OthersInOrder DEF trackRequest, Goto, IInv, TypeOK
    <2> QED
      BY <2>1, <2>2
  <1> QED
    BY <1>2, <1>6, <1>9, <1>10 DEF IInv

\* What the upstream answers, and how the wait for it fails.
LEMMA UpstreamKeeps ==
    ASSUME IInv, NEW r \in Requests, Upstream(r)
    PROVE  IInv'
  <1>1. CASE RequestFails(r)
    <2>1. TypeOK'
      BY <1>1, NetworkErrorTyped DEF RequestFails, Goto, IInv, TypeOK, Phases
    <2>2. (IdsOwn /\ RegistryExact)'
      BY <1>1, RegistryKept DEF RequestFails, Goto, Tracked
    <2>3. ASSUME NEW q \in Requests PROVE InOrder(q)'
      <3>1. CASE q = r
        BY <1>1, <3>1 DEF RequestFails, Goto, NetworkError, IInv, TypeOK, InOrder, BodyHeld,
            CancelOwn, ReplyFits, ErrFits, Carries, Reported, Answered, Failed, Streams,
            StreamPhases
      <3>2. CASE q # r
        BY <1>1, <3>2, OthersInOrder DEF RequestFails, Goto, IInv, TypeOK
      <3> QED
        BY <3>1, <3>2
    <2> QED
      BY <2>1, <2>2, <2>3 DEF IInv
  <1>2. CASE Headers(r)
    <2> PICK p \in Replies : reply' = [reply EXCEPT ![r] = p]
      BY <1>2 DEF Headers
    <2>1. reply'[r] = p /\ p # NoReply
      BY RequestsAssumption DEF IInv, TypeOK
    <2>2. TypeOK'
      BY <1>2 DEF Headers, Goto, IInv, TypeOK, Phases
    <2>3. (IdsOwn /\ RegistryExact)'
      BY <1>2, RegistryKept DEF Headers, Goto, Tracked
    <2>4. ASSUME NEW q \in Requests PROVE InOrder(q)'
      <3>1. CASE q = r
        BY <1>2, <2>1, <3>1 DEF Headers, Goto, IInv, TypeOK, InOrder, BodyHeld, CancelOwn,
            ReplyFits, ErrFits, Carries, Reported, Answered, Failed, Streams, StreamPhases
      <3>2. CASE q # r
        BY <1>2, <3>2, OthersInOrder DEF Headers, Goto, IInv, TypeOK
      <3> QED
        BY <3>1, <3>2
    <2> QED
      BY <2>2, <2>3, <2>4 DEF IInv
  <1>3. CASE ReadBody(r)
    <2>0. reply[r] \in Replies
      BY <1>3 DEF ReadBody, IInv, TypeOK, InOrder, ReplyFits
    <2>1. TypeOK'
      BY <1>3, <2>0, ResultTyped DEF ReadBody, Goto, IInv, TypeOK, Phases
    <2>2. (IdsOwn /\ RegistryExact)'
      BY <1>3, RegistryKept DEF ReadBody, Goto, Tracked
    <2>3. ASSUME NEW q \in Requests PROVE InOrder(q)'
      <3>1. CASE q = r
        BY <1>3, <3>1 DEF ReadBody, Goto, ResultOf, ParseError, OpenAIError, NoError, IInv,
            TypeOK, InOrder, BodyHeld, CancelOwn, ReplyFits, ErrFits, Carries, Reported,
            Answered, Failed, Streams, StreamPhases
      <3>2. CASE q # r
        BY <1>3, <3>2, OthersInOrder DEF ReadBody, Goto, IInv, TypeOK
      <3> QED
        BY <3>1, <3>2
    <2> QED
      BY <2>1, <2>2, <2>3 DEF IInv
  <1>4. CASE ReadBodyFails(r)
    <2>0. reply[r] \in Replies
      BY <1>4 DEF ReadBodyFails, IInv, TypeOK, InOrder, ReplyFits
    <2>1. TypeOK'
      BY <1>4, <2>0, ResultTyped, NetworkErrorTyped DEF ReadBodyFails, Goto, IInv, TypeOK,
          Phases
    <2>2. (IdsOwn /\ RegistryExact)'
      BY <1>4, RegistryKept DEF ReadBodyFails, Goto, Tracked
    <2>3. ASSUME NEW q \in Requests PROVE InOrder(q)'
      <3>1. CASE q = r
        BY <1>4, <3>1 DEF ReadBodyFails, Goto, NetworkError, OpenAIError, NoError, IInv, TypeOK,
            InOrder, BodyHeld, CancelOwn, ReplyFits, ErrFits, Carries, Reported, Answered,
            Failed, Streams, StreamPhases
      <3>2. CASE q # r
        BY <1>4, <3>2, OthersInOrder DEF ReadBodyFails, Goto, IInv, TypeOK
      <3> QED
        BY <3>1, <3>2
    <2> QED
      BY <2>1, <2>2, <2>3 DEF IInv
  <1> QED
    BY <1>1, <1>2, <1>3, <1>4 DEF Upstream

\* Out of the registry, and the answer.
LEMMA AnswerKeeps ==
    ASSUME IInv, NEW r \in Requests, untrackRequest(r) \/ Report(r)
    PROVE  IInv'
  <1>1. CASE untrackRequest(r)
    <2>1. TypeOK'
      <3>1. /\ DOMAIN ActiveRequests' \subseteq Ids
            /\ \A i \in DOMAIN ActiveRequests' : ActiveRequests'[i] \in Requests
        BY <1>1, RegistryShrinks DEF untrackRequest
      <3> QED
        BY <1>1, <3>1 DEF untrackRequest, Goto, IInv, TypeOK, Phases
    <2>2. (IdsOwn /\ RegistryExact)'
      <3>1. /\ phase[r] \in Tracked
            /\ "report" \notin Tracked
            /\ phase' = [phase EXCEPT ![r] = "report"]
            /\ ActiveRequests' = Restrict(ActiveRequests, DOMAIN ActiveRequests \ {id[r]})
            /\ UNCHANGED id
        BY <1>1 DEF untrackRequest, Goto, Tracked
      <3> QED
        BY <3>1, Unregistered
    <2>3. ASSUME NEW q \in Requests PROVE InOrder(q)'
      <3>1. CASE q = r
        BY <1>1, <3>1 DEF untrackRequest, Goto, IInv, TypeOK, InOrder, BodyHeld, CancelOwn,
            ReplyFits, ErrFits, Carries, Reported, Answered, Failed, Streams, StreamPhases
      <3>2. CASE q # r
        BY <1>1, <3>2, OthersInOrder DEF untrackRequest, Goto, IInv, TypeOK
      <3> QED
        BY <3>1, <3>2
    <2> QED
      BY <2>1, <2>2, <2>3 DEF IInv
  <1>2. CASE Report(r)
    <2>1. TypeOK'
      BY <1>2, ErrorAnswered DEF Report, Goto, Ok, Response, IInv, TypeOK, Phases
    <2>2. (IdsOwn /\ RegistryExact)'
      BY <1>2, RegistryKept DEF Report, Goto, Tracked
    <2>3. ASSUME NEW q \in Requests PROVE InOrder(q)'
      <3>1. CASE q = r
        <4>1. ASSUME Failed(r)'
              PROVE  Carries(r) /\ err[r] \in ErrorType
          BY <1>2, <4>1 DEF Report, Failed, IInv, TypeOK, InOrder, ErrFits
        <4>2. ASSUME Failed(r)', kind[r] = "test"
              PROVE  response'[r].type = "failure"
          BY <1>2, <4>1, <4>2 DEF Report, Ok, Carries, IInv, TypeOK
        <4>3. ASSUME Failed(r)', kind[r] # "test"
              PROVE  response'[r] = writeUpstreamError(err[r])
          BY <1>2, <4>1, <4>3 DEF Report, Carries, IInv, TypeOK
        <4>4. ASSUME Failed(r)', err[r] = OpenAIError(reply[r])
              PROVE  writeUpstreamError(err[r]) = Mapped(reply[r])
          <5>1. reply[r].retryAfter \in BOOLEAN
            BY <1>2, <4>4, RequestsAssumption DEF Report, Failed, IInv, TypeOK, Reply
          <5> QED
            BY <4>4, <5>1 DEF writeUpstreamError, OpenAIError, Mapped
        <4>5. Reported(r)'
          BY <1>2, <4>1, <4>2, <4>3, <4>4, ErrorAnswered
          DEF Report, Carries, Reported, Failed, Streams
        <4>6. response'[r] \in Response
          BY <1>2, ErrorAnswered DEF Report, Ok, Response, IInv, TypeOK
        <4> QED
          BY <1>2, <3>1, <4>5, <4>6, RequestsAssumption
          DEF Report, Goto, IInv, TypeOK, InOrder, BodyHeld, CancelOwn, ReplyFits, ErrFits,
              Answered, StreamPhases
      <3>2. CASE q # r
        BY <1>2, <3>2, OthersInOrder DEF Report, Goto, IInv, TypeOK
      <3> QED
        BY <3>1, <3>2
    <2> QED
      BY <2>1, <2>2, <2>3 DEF IInv
  <1> QED
    BY <1>1, <1>2

\* The life of a stream.
LEMMA StreamKeeps ==
    ASSUME IInv, NEW r \in Requests,
           \/ StartStream(r) \/ CancelLookup(r) \/ CancelCall(r) \/ StreamEnds(r)
           \/ Close(r) \/ CloseBody(r)
    PROVE  IInv'
  <1>1. CASE StartStream(r)
    <2>1. TypeOK'
      BY <1>1 DEF StartStream, Goto, Respond, Response, IInv, TypeOK, Phases
    <2>2. (IdsOwn /\ RegistryExact)'
      BY <1>1, RegistryKept DEF StartStream, Goto, Tracked
    <2>3. ASSUME NEW q \in Requests PROVE InOrder(q)'
      <3>0. response'[r] \in Response
        BY <1>1 DEF StartStream, Respond, Response, IInv, TypeOK
      <3>1. CASE q = r
        <4>1. phase'[r] = "converting" /\ response'[r] # NoResponse
          BY <1>1, <3>0, RequestsAssumption DEF StartStream, Goto, IInv, TypeOK
        <4>2. Answered(r)'
          BY <4>1 DEF Answered, StreamPhases
        <4> QED
          BY <4>2, <1>1, <3>1, <4>1 DEF StartStream, Goto, Respond, IInv, TypeOK, InOrder, BodyHeld,
              CancelOwn, ReplyFits, ErrFits, Carries, Reported, Failed, Streams, StreamPhases
      <3>2. CASE q # r
        BY <1>1, <3>2, OthersInOrder DEF StartStream, Goto, Respond, IInv, TypeOK
      <3> QED
        BY <3>1, <3>2
    <2> QED
      BY <2>1, <2>2, <2>3 DEF IInv
  <1>2. CASE CancelLookup(r)
    <2>0. found' = [found EXCEPT ![r] = r]
      BY <1>2 DEF CancelLookup, IInv, RegistryExact, Tracked
    <2>1. TypeOK'
      BY <1>2, <2>0 DEF CancelLookup, Goto, IInv, TypeOK, Phases
    <2>2. (IdsOwn /\ RegistryExact)'
      BY <1>2, RegistryKept DEF CancelLookup, Goto, Tracked
    <2>3. ASSUME NEW q \in Requests PROVE InOrder(q)'
      <3>1. CASE q = r
        BY <1>2, <3>1, <2>0 DEF CancelLookup, Goto, IInv, TypeOK, InOrder, BodyHeld, CancelOwn,
            ReplyFits, ErrFits, Carries, Reported, Answered, Failed, Streams, StreamPhases
      <3>2. CASE q # r
        BY <1>2, <3>2, OthersInOrder DEF CancelLookup, Goto, IInv, TypeOK
      <3> QED
        BY <3>1, <3>2
    <2> QED
      BY <2>1, <2>2, <2>3 DEF IInv
  <1>3. CASE CancelCall(r)
    <2>0. cancelled' = [cancelled EXCEPT ![r] = TRUE]
      BY <1>3, RequestsAssumption DEF CancelCall, IInv, InOrder, CancelOwn
    <2>1. TypeOK'
      BY <1>3, <2>0 DEF CancelCall, Goto, IInv, TypeOK, Phases
    <2>2. (IdsOwn /\ RegistryExact)'
      BY <1>3, RegistryKept DEF CancelCall, Goto, Tracked
    <2>3. ASSUME NEW q \in Requests PROVE InOrder(q)'
      <3>1. CASE q = r
        BY <1>3, <3>1, <2>0 DEF CancelCall, Goto, IInv, TypeOK, InOrder, BodyHeld, CancelOwn,
            ReplyFits, ErrFits, Carries, Reported, Answered, Failed, Streams, StreamPhases
      <3>2. CASE q # r
        BY <1>3, <2>0, <3>2, OthersInOrder DEF CancelCall, Goto, IInv, TypeOK
      <3> QED
        BY <3>1, <3>2
    <2> QED
      BY <2>1, <2>2, <2>3 DEF IInv
  <1>4. CASE StreamEnds(r)
    <2>1. TypeOK'
      BY <1>4 DEF StreamEnds, Goto, IInv, TypeOK, Phases
    <2>2. (IdsOwn /\ RegistryExact)'
      BY <1>4, RegistryKept DEF StreamEnds, Goto, Tracked
    <2>3. ASSUME NEW q \in Requests PROVE InOrder(q)'
      <3>1. CASE q = r
        BY <1>4, <3>1 DEF StreamEnds, Goto, IInv, TypeOK, InOrder, BodyHeld, CancelOwn,
            ReplyFits, ErrFits, Carries, Reported, Answered, Failed, Streams, StreamPhases
      <3>2. CASE q # r
        BY <1>4, <3>2, OthersInOrder DEF StreamEnds, Goto, IInv, TypeOK
      <3> QED
        BY <3>1, <3>2
    <2> QED
      BY <2>1, <2>2, <2>3 DEF IInv
  <1>5. CASE Close(r)
    <2>1. TypeOK'
      <3>1. /\ DOMAIN ActiveRequests' \subseteq Ids
            /\ \A i \in DOMAIN ActiveRequests' : ActiveRequests'[i] \in Requests
        BY <1>5, RegistryShrinks DEF Close
      <3> QED
        BY <1>5, <3>1 DEF Close, Goto, IInv, TypeOK, Phases
    <2>2. (IdsOwn /\ RegistryExact)'
      <3>1. /\ phase[r] \in Tracked
            /\ "closeBody" \notin Tracked
            /\ phase' = [phase EXCEPT ![r] = "closeBody"]
            /\ ActiveRequests' = Restrict(ActiveRequests, DOMAIN ActiveRequests \ {id[r]})
            /\ UNCHANGED id
        BY <1>5 DEF Close, Goto, Tracked
      <3> QED
        BY <3>1, Unregistered
    <2>3. ASSUME NEW q \in Requests PROVE InOrder(q)'
      <3>1. CASE q = r
        BY <1>5, <3>1 DEF Close, Goto, IInv, TypeOK, InOrder, BodyHeld, CancelOwn, ReplyFits,
            ErrFits, Carries, Reported, Answered, Failed, Streams, StreamPhases
      <3>2. CASE q # r
        BY <1>5, <3>2, OthersInOrder DEF Close, Goto, IInv, TypeOK
      <3> QED
        BY <3>1, <3>2
    <2> QED
      BY <2>1, <2>2, <2>3 DEF IInv
  <1>6. CASE CloseBody(r)
    <2>1. TypeOK'
      BY <1>6 DEF CloseBody, Goto, IInv, TypeOK, Phases
    <2>2. (IdsOwn /\ RegistryExact)'
      BY <1>6, RegistryKept DEF CloseBody, Goto, Tracked
    <2>3. ASSUME NEW q \in Requests PROVE InOrder(q)'
      <3>1. CASE q = r
        BY <1>6, <3>1 DEF CloseBody, Goto, IInv, TypeOK, InOrder, BodyHeld, CancelOwn,
            ReplyFits, ErrFits, Carries, Reported, Answered, Failed, Streams, StreamPhases
      <3>2. CASE q # r
        BY <1>6, <3>2, OthersInOrder DEF CloseBody, Goto, IInv, TypeOK
      <3> QED
        BY <3>1, <3>2
    <2> QED
      BY <2>1, <2>2, <2>3 DEF IInv
  <1> QED
    BY <1>1, <1>2, <1>3, <1>4, <1>5, <1>6

\* A client that goes, and steps that change nothing.
LEMMA NothingElseKeeps ==
    ASSUME IInv, (\E r \in Requests : ClientGoes(r)) \/ UNCHANGED vars
    PROVE  IInv'
  <1>1. UNCHANGED <<phase, kind, id, reply, err, response, bodyOpen, cancelled, found,
                    ActiveRequests, asked>>
    BY DEF ClientGoes, vars
  <1>2. TypeOK'
    BY <1>1 DEF ClientGoes, vars, IInv, TypeOK
  <1>3. (IdsOwn /\ RegistryExact)'
    BY <1>1 DEF IInv, IdsOwn, RegistryExact
  <1>4. ASSUME NEW q \in Requests PROVE InOrder(q)'
    BY <1>1, OthersInOrder
  <1> QED
    BY <1>2, <1>3, <1>4 DEF IInv

-----------------------------------------------------------------------------
\* No request has begun.
LEMMA InitIInv == Init => IInv
  <1> SUFFICES ASSUME Init PROVE IInv
    OBVIOUS
  <1>1. TypeOK
    BY DEF Init, TypeOK, Phases, Kinds, NoError, ErrorType
  <1>2. IdsOwn /\ RegistryExact
    BY DEF Init, IdsOwn, RegistryExact, Tracked
  <1>3. ASSUME NEW r \in Requests PROVE InOrder(r)
    BY DEF Init, InOrder, BodyHeld, CancelOwn, ReplyFits, ErrFits, Reported, Answered, Failed,
        StreamPhases
  <1> QED
    BY <1>1, <1>2, <1>3 DEF IInv

\* Every step, whichever request makes it, keeps the invariant.
LEMMA NextIInv == IInv /\ [Next]_vars => IInv'
  <1> SUFFICES ASSUME IInv, [Next]_vars PROVE IInv'
    OBVIOUS
  <1>1. CASE \E r \in Requests : Arrive(r)
    BY <1>1, ArriveKeeps
  <1>2. CASE \E r \in Requests : Upstream(r)
    BY <1>2, UpstreamKeeps
  <1>3. CASE \E r \in Requests : Step(r)
    BY <1>3, TrackKeeps, AnswerKeeps, StreamKeeps DEF Step
  <1>4. CASE (\E r \in Requests : ClientGoes(r)) \/ UNCHANGED vars
    BY <1>4, NothingElseKeeps
  <1> QED
    BY <1>1, <1>2, <1>3, <1>4 DEF Next, AllDone

\* The inductive invariant holds at every moment.
THEOREM Invariance == Spec => []IInv
  <1>1. Init => IInv
    BY InitIInv
  <1>2. IInv /\ [Next]_vars => IInv'
    BY NextIInv
  <1> QED
    BY <1>1, <1>2, PTL DEF Spec

-----------------------------------------------------------------------------
(***************************************************************************)
(* What it means.                                                          *)
(***************************************************************************)

\* Requests, errors and the registry stay in their types, and no status is
\* answered but those the proxy knows.
THEOREM TypeCorrect == Spec => []TypeOK
  <1>1. IInv => TypeOK
    BY DEF IInv
  <1> QED
    BY <1>1, Invariance, PTL

\* ActiveRequests holds the requests in progress and no others, each under its
\* own id, however many there are and however their operations interleave.
THEOREM RegistryAlwaysExact == Spec => []RegistryExact
  <1>1. IInv => RegistryExact
    BY DEF IInv
  <1> QED
    BY <1>1, Invariance, PTL

\* On every path, failures and cancellations included, the upstream's body is
\* closed before the request is over.
THEOREM BodiesAlwaysClosed == Spec => []NoBodyLeft
  <1>1. IInv => NoBodyLeft
    BY DEF IInv, InOrder, BodyHeld, StreamPhases, NoBodyLeft
  <1> QED
    BY <1>1, Invariance, PTL

\* CancelRequest ends the request that asked, and no other, although it calls
\* the cancel function without holding the registry's lock.
THEOREM CancelAlwaysHitsOwnRequest == Spec => []CancelHitsOwnRequest
  <1>1. IInv => CancelHitsOwnRequest
    BY DEF IInv, InOrder, CancelOwn, CancelHitsOwnRequest
  <1> QED
    BY <1>1, Invariance, PTL

\* Whatever an upstream's failure looks like, the client is told of it, with
\* the status and the Retry-After it came with where they could be known.
THEOREM FailuresAlwaysReported == Spec => []FailuresReported
  <1>1. IInv => FailuresReported
    BY DEF IInv, InOrder, Reported, FailuresReported
  <1> QED
    BY <1>1, Invariance, PTL
=============================================================================
