---------------------------- MODULE ServerProofs ----------------------------
(***************************************************************************)
(* Proofs about Server, for any number of requests, ids and upstream       *)
(* answers.  What is known of the handlers is MessageHandlerProofs'.       *)
(***************************************************************************)
EXTENDS Server, TLAPS

HandlerProofs == INSTANCE MessageHandlerProofs

-----------------------------------------------------------------------------
(***************************************************************************)
(* The inductive invariant.                                                *)
(***************************************************************************)

\* A request is the handlers' business once it has come to them, and no longer
\* the middlewares'.
GatesFit ==
    \A r \in Requests :
        /\ gate[r] # "handler" => phase[r] = "new"
        /\ answer[r] # NoAnswer => gate[r] = "over"

\* Once Shutdown has found the connections quiet, they stay so.
StaysQuiet ==
    process \in {"quiet", "exited"} =>
        \A r \in Requests :
            \/ gate[r] \in {"away", "over"}
            \/ gate[r] = "handler" /\ phase[r] = "done"

\* The limiter is stopped by the last thing main does.
StoppedLast == cleanupRuns \/ process = "exited"

IInv ==
    /\ TypeOK
    /\ HandlerProofs!IInv
    /\ GatesFit
    /\ StaysQuiet
    /\ StoppedLast

-----------------------------------------------------------------------------
(***************************************************************************)
(* What is known of the handlers, said of this module's instance of them.  *)
(***************************************************************************)

\* Both instances of MessageHandler have the same steps.
LEMMA SameSteps ==
    ASSUME NEW r \in Requests,
           Handler!Arrive(r) \/ Handler!Step(r) \/ Handler!Upstream(r) \/ Handler!ClientGoes(r)
    PROVE  HandlerProofs!Next
  <1>1. Handler!Arrive(r) => HandlerProofs!Arrive(r)
    <2>1. Handler!BadBody(r) => HandlerProofs!BadBody(r)
      BY DEF Handler!BadBody, HandlerProofs!BadBody, Handler!Goto, HandlerProofs!Goto,
          Handler!Respond, HandlerProofs!Respond
    <2>2. Handler!Decode(r) => HandlerProofs!Decode(r)
      BY DEF Handler!Decode, HandlerProofs!Decode, Handler!Goto, HandlerProofs!Goto,
          Handler!Kinds, HandlerProofs!Kinds
    <2> QED
      BY <2>1, <2>2 DEF Handler!Arrive, HandlerProofs!Arrive
  <1>2. Handler!Step(r) => HandlerProofs!Step(r)
    <2>1. Handler!trackRequest(r) => HandlerProofs!trackRequest(r)
      BY DEF Handler!trackRequest, HandlerProofs!trackRequest, Handler!Goto, HandlerProofs!Goto
    <2>2. Handler!untrackRequest(r) => HandlerProofs!untrackRequest(r)
      BY DEF Handler!untrackRequest, HandlerProofs!untrackRequest, Handler!Goto,
          HandlerProofs!Goto, Handler!Restrict, HandlerProofs!Restrict
    <2>3. Handler!Report(r) => HandlerProofs!Report(r)
      BY DEF Handler!Report, HandlerProofs!Report, Handler!Goto, HandlerProofs!Goto, Handler!Ok,
          HandlerProofs!Ok, Handler!NoError, HandlerProofs!NoError, Handler!ClaudeError,
          HandlerProofs!ClaudeError, Handler!writeUpstreamError,
          HandlerProofs!writeUpstreamError
    <2>4. Handler!StartStream(r) => HandlerProofs!StartStream(r)
      BY DEF Handler!StartStream, HandlerProofs!StartStream, Handler!Goto, HandlerProofs!Goto,
          Handler!Respond, HandlerProofs!Respond
    <2>5. Handler!CancelLookup(r) => HandlerProofs!CancelLookup(r)
      BY DEF Handler!CancelLookup, HandlerProofs!CancelLookup, Handler!Goto, HandlerProofs!Goto
    <2>6. Handler!CancelCall(r) => HandlerProofs!CancelCall(r)
      BY DEF Handler!CancelCall, HandlerProofs!CancelCall, Handler!Goto, HandlerProofs!Goto
    <2>7. Handler!StreamEnds(r) => HandlerProofs!StreamEnds(r)
      BY DEF Handler!StreamEnds, HandlerProofs!StreamEnds, Handler!Goto, HandlerProofs!Goto
    <2>8. Handler!Close(r) => HandlerProofs!Close(r)
      BY DEF Handler!Close, HandlerProofs!Close, Handler!Goto, HandlerProofs!Goto,
          Handler!Restrict, HandlerProofs!Restrict
    <2>9. Handler!CloseBody(r) => HandlerProofs!CloseBody(r)
      BY DEF Handler!CloseBody, HandlerProofs!CloseBody, Handler!Goto, HandlerProofs!Goto
    <2> QED
      BY <2>1, <2>2, <2>3, <2>4, <2>5, <2>6, <2>7, <2>8, <2>9 DEF Handler!Step,
          HandlerProofs!Step
  <1>3. Handler!Upstream(r) => HandlerProofs!Upstream(r)
    <2>1. Handler!Headers(r) => HandlerProofs!Headers(r)
      BY DEF Handler!Headers, HandlerProofs!Headers, Handler!Goto, HandlerProofs!Goto,
          Handler!Streams, HandlerProofs!Streams
    <2>2. Handler!ReadBody(r) => HandlerProofs!ReadBody(r)
      BY DEF Handler!ReadBody, HandlerProofs!ReadBody, Handler!Goto, HandlerProofs!Goto,
          Handler!Streams, HandlerProofs!Streams, Handler!ResultOf, HandlerProofs!ResultOf,
          Handler!ParseError, HandlerProofs!ParseError, Handler!OpenAIError,
          HandlerProofs!OpenAIError, Handler!NoError, HandlerProofs!NoError
    <2>3. Handler!RequestFails(r) => HandlerProofs!RequestFails(r)
      BY DEF Handler!RequestFails, HandlerProofs!RequestFails, Handler!Goto, HandlerProofs!Goto,
          Handler!NetworkError, HandlerProofs!NetworkError
    <2>4. Handler!ReadBodyFails(r) => HandlerProofs!ReadBodyFails(r)
      BY DEF Handler!ReadBodyFails, HandlerProofs!ReadBodyFails, Handler!Goto,
          HandlerProofs!Goto, Handler!Streams, HandlerProofs!Streams, Handler!OpenAIError,
          HandlerProofs!OpenAIError, Handler!NetworkError, HandlerProofs!NetworkError
    <2> QED
      BY <2>1, <2>2, <2>3, <2>4 DEF Handler!Upstream, HandlerProofs!Upstream
  <1>4. Handler!ClientGoes(r) => HandlerProofs!ClientGoes(r)
    BY DEF Handler!ClientGoes, HandlerProofs!ClientGoes
  <1> QED
    BY <1>1, <1>2, <1>3, <1>4 DEF HandlerProofs!Next

\* So their invariant is kept, whether a handler does something or not.
LEMMA HandlersKeep ==
    ASSUME HandlerProofs!IInv,
           \/ \E r \in Requests : InHandler(r)
           \/ UNCHANGED handlerVars
    PROVE  HandlerProofs!IInv'
  <1>1. HandlerProofs!IInv /\ [HandlerProofs!Next]_HandlerProofs!vars => HandlerProofs!IInv'
    BY HandlerProofs!NextIInv, ServerAssumption
    DEF Handler!Reply, Handler!Response, HandlerProofs!Reply, HandlerProofs!Response
  <1>2. CASE \E r \in Requests : InHandler(r)
    BY <1>1, <1>2, SameSteps DEF InHandler
  <1>3. CASE UNCHANGED handlerVars
    BY <1>1, <1>3 DEF handlerVars, HandlerProofs!vars
  <1> QED
    BY <1>2, <1>3

\* Types mean the same in both.
LEMMA SameTypes == HandlerProofs!IInv => Handler!TypeOK
  BY DEF Handler!TypeOK, HandlerProofs!TypeOK, Handler!Phases, HandlerProofs!Phases,
      Handler!Kinds, HandlerProofs!Kinds, Handler!Response, HandlerProofs!Response,
      Handler!ErrorType, HandlerProofs!ErrorType, HandlerProofs!IInv

-----------------------------------------------------------------------------
(***************************************************************************)
(* What a request is, as far as the server tells.                          *)
(***************************************************************************)

\* A request that has not begun has no answer and no body, one that is over has
\* been answered and has none, either.
LEMMA HandlerStates ==
    ASSUME HandlerProofs!IInv, NEW r \in Requests
    PROVE  /\ phase[r] = "new" => response[r] = NoResponse /\ ~bodyOpen[r]
           /\ phase[r] = "done" => response[r] # NoResponse /\ ~bodyOpen[r]
BY DEF HandlerProofs!IInv, HandlerProofs!InOrder, HandlerProofs!BodyHeld, HandlerProofs!Answered,
       HandlerProofs!StreamPhases

\* If every request is one or the other, the registry is empty.
LEMMA NobodyRegistered ==
    ASSUME HandlerProofs!IInv, \A r \in Requests : phase[r] \in {"new", "done"}
    PROVE  DOMAIN ActiveRequests = {}
BY DEF HandlerProofs!IInv, HandlerProofs!RegistryExact, HandlerProofs!Tracked

\* A handler that is done does nothing more.
LEMMA DoneIsDone ==
    ASSUME NEW r \in Requests, InHandler(r)
    PROVE  phase[r] # "done"
BY DEF InHandler, Handler!Arrive, Handler!Step, Handler!Upstream, Handler!BadBody,
       Handler!Decode, Handler!trackRequest, Handler!untrackRequest, Handler!Report,
       Handler!StartStream, Handler!CancelLookup, Handler!CancelCall, Handler!StreamEnds,
       Handler!Close, Handler!CloseBody, Handler!Headers, Handler!ReadBody,
       Handler!RequestFails, Handler!ReadBodyFails, Handler!ClientGoes

\* A handler's steps concern the phase of its own request.
LEMMA OwnPhase ==
    ASSUME TypeOK, NEW r \in Requests, InHandler(r), NEW q \in Requests, q # r
    PROVE  phase'[q] = phase[q]
  <1>1. \A p : phase' = [phase EXCEPT ![r] = p] => phase'[q] = phase[q]
    BY DEF TypeOK, Handler!TypeOK
  <1>2. CASE Handler!Arrive(r)
    BY <1>1, <1>2 DEF Handler!Arrive, Handler!Goto, Handler!BadBody, Handler!Decode
  <1>3. CASE Handler!Step(r)
    BY <1>1, <1>3 DEF Handler!Step, Handler!Goto, Handler!trackRequest, Handler!untrackRequest,
        Handler!Report, Handler!StartStream, Handler!CancelLookup, Handler!CancelCall,
        Handler!StreamEnds, Handler!Close, Handler!CloseBody
  <1>4. CASE Handler!Upstream(r)
    BY <1>1, <1>4 DEF Handler!Upstream, Handler!Goto, Handler!Headers, Handler!ReadBody,
        Handler!RequestFails, Handler!ReadBodyFails
  <1>5. CASE Handler!ClientGoes(r)
    BY <1>5 DEF Handler!ClientGoes
  <1> QED
    BY <1>2, <1>3, <1>4, <1>5 DEF InHandler

-----------------------------------------------------------------------------
(***************************************************************************)
(* Each step keeps the invariant.                                          *)
(***************************************************************************)

\* On the way to its handler.
LEMMA GateKeeps ==
    ASSUME IInv, NEW r \in Requests, ToHandler(r)
    PROVE  IInv'
  <1>1. PICK from \in {"away", "connected", "limiter", "keyCheck"}, to \in Gates :
            /\ Pass(r, from, to)
            /\ from = "away" => process = "serving"
            /\ to # "away"
            /\ \/ UNCHANGED answer
               \/ to = "over" /\ \E status \in {200, 400, 401, 405, 413, 429} :
                                     answer' = [answer EXCEPT ![r] = status]
    BY DEF ToHandler, Accept, Drop, AnswerOpenRoute, GuardedRoute, Allowed, Limited, WrongKey,
           StatelessHandler, Enter, Forward, Answer, Gates
  <1>2. /\ UNCHANGED <<handlerVars, mainVars>>
        /\ gate' = [gate EXCEPT ![r] = to]
        /\ gate[r] = from
        /\ ~Exited
    BY <1>1 DEF Pass
  <1>3. HandlerProofs!IInv'
    BY <1>2, HandlersKeep DEF IInv
  <1>4. TypeOK'
    <2>1. Handler!TypeOK'
      BY <1>3, SameTypes, PTL
    <2>2. gate' \in [Requests -> Gates]
      BY <1>2 DEF IInv, TypeOK
    <2>3. answer' \in [Requests -> {NoAnswer, 200, 400, 401, 405, 413, 429}]
      BY <1>1 DEF IInv, TypeOK
    <2> QED
      BY <1>2, <2>1, <2>2, <2>3 DEF mainVars, IInv, TypeOK
  <1>5. GatesFit'
    BY <1>1, <1>2 DEF handlerVars, IInv, TypeOK, GatesFit
  <1>6. (StaysQuiet /\ StoppedLast)'
    BY <1>1, <1>2 DEF mainVars, Exited, IInv, StaysQuiet, StoppedLast
  <1> QED
    BY <1>3, <1>4, <1>5, <1>6 DEF IInv

\* In its handler.
LEMMA HandlerKeeps ==
    ASSUME IInv, NEW r \in Requests, InHandler(r)
    PROVE  IInv'
  <1>1. /\ UNCHANGED <<mainVars, gateVars>>
        /\ gate[r] = "handler"
        /\ ~Exited
    BY DEF InHandler
  <1>2. HandlerProofs!IInv'
    BY HandlersKeep DEF IInv
  <1>3. TypeOK'
    <2>1. Handler!TypeOK'
      BY <1>2, SameTypes, PTL
    <2> QED
      BY <1>1, <2>1 DEF mainVars, gateVars, IInv, TypeOK
  <1>4. \A q \in Requests : q # r => phase'[q] = phase[q]
    BY OwnPhase DEF IInv
  <1>5. GatesFit'
    BY <1>1, <1>4 DEF gateVars, IInv, GatesFit
  <1>6. process # "quiet"
    BY <1>1, DoneIsDone DEF IInv, StaysQuiet
  <1>7. (StaysQuiet /\ StoppedLast)'
    BY <1>1, <1>6 DEF mainVars, Exited, IInv, StaysQuiet, StoppedLast
  <1> QED
    BY <1>2, <1>3, <1>5, <1>7 DEF IInv

\* In main, and when nothing happens.
LEMMA MainKeeps ==
    ASSUME IInv, Signal \/ ServeFails \/ ShuttingDown \/ Gone \/ UNCHANGED vars
    PROVE  IInv'
  <1>1. UNCHANGED <<handlerVars, gateVars, keyRequired>>
    BY DEF Signal, ServeFails, ShuttingDown, LookFirst, LookAgain, Deadline, StopAndReturn, Gone,
           Becomes, vars, mainVars
  <1>2. HandlerProofs!IInv'
    BY <1>1, HandlersKeep DEF IInv
  <1>3. TypeOK'
    <2>1. Handler!TypeOK'
      BY <1>2, SameTypes, PTL
    <2>2. /\ process' \in {"serving", "signalled", "waiting", "quiet", "exited", "killed"}
          /\ cleanupRuns' \in BOOLEAN
      BY DEF Signal, ServeFails, ShuttingDown, LookFirst, LookAgain, Deadline, StopAndReturn,
             Gone, Becomes, vars, mainVars, IInv, TypeOK
    <2> QED
      BY <1>1, <2>1, <2>2 DEF gateVars, IInv, TypeOK
  <1>4. GatesFit'
    BY <1>1 DEF handlerVars, gateVars, IInv, GatesFit
  <1>5. process' \in {"quiet", "exited"} => process \in {"quiet", "exited"} \/ Quiet
    BY DEF Signal, ServeFails, ShuttingDown, LookFirst, LookAgain, Deadline, StopAndReturn, Gone,
           Becomes, vars, mainVars
  <1>6. Quiet => \A r \in Requests : \/ gate[r] \in {"away", "over"}
                                     \/ gate[r] = "handler" /\ phase[r] = "done"
    BY DEF Quiet, Over, IInv, GatesFit
  <1>7. StaysQuiet'
    BY <1>1, <1>5, <1>6 DEF handlerVars, gateVars, IInv, StaysQuiet
  <1>8. StoppedLast'
    BY DEF Signal, ServeFails, ShuttingDown, LookFirst, LookAgain, Deadline, StopAndReturn, Gone,
           Becomes, Exited, vars, mainVars, IInv, StoppedLast
  <1> QED
    BY <1>2, <1>3, <1>4, <1>7, <1>8 DEF IInv

-----------------------------------------------------------------------------
\* The server has begun and nobody has come.
LEMMA InitIInv == Init => IInv
  <1> SUFFICES ASSUME Init PROVE IInv
    OBVIOUS
  <1>1. HandlerProofs!Init
    BY DEF Init, Handler!Init, HandlerProofs!Init, Handler!NoError, HandlerProofs!NoError
  <1>2. HandlerProofs!IInv
    BY <1>1, HandlerProofs!InitIInv, ServerAssumption
    DEF Handler!Reply, Handler!Response, HandlerProofs!Reply, HandlerProofs!Response
  <1>3. TypeOK
    BY <1>2, SameTypes DEF Init, TypeOK, Gates
  <1>4. GatesFit /\ StaysQuiet /\ StoppedLast
    BY DEF Init, Handler!Init, GatesFit, StaysQuiet, StoppedLast
  <1> QED
    BY <1>2, <1>3, <1>4 DEF IInv

\* The inductive invariant holds at every moment.
THEOREM Invariance == Spec => []IInv
  <1>1. IInv /\ [Next]_vars => IInv'
    BY GateKeeps, HandlerKeeps, MainKeeps DEF Next
  <1> QED
    BY <1>1, InitIInv, PTL DEF Spec

-----------------------------------------------------------------------------
(***************************************************************************)
(* What it means.                                                          *)
(***************************************************************************)

\* main, the gates and the handlers stay in their types.
THEOREM TypeCorrect == Spec => []TypeOK
  <1>1. IInv => TypeOK
    BY DEF IInv
  <1> QED
    BY <1>1, Invariance, PTL

\* When the server exits gracefully, every request that came in has had its
\* answer to the end, whatever was under way when the signal came.
THEOREM GracefulAlwaysMeansAnswered == Spec => []GracefulMeansAnswered
  <1>1. IInv => GracefulMeansAnswered
    <2> SUFFICES ASSUME IInv, process \in {"quiet", "exited"}
                 PROVE  /\ \A r \in Requests :
                            /\ gate[r] \in {"away", "handler", "over"}
                            /\ gate[r] = "handler" =>
                                   phase[r] = "done" /\ response[r] # NoResponse
                            /\ ~bodyOpen[r]
                        /\ DOMAIN ActiveRequests = {}
      BY DEF GracefulMeansAnswered
    <2>1. \A r \in Requests :
              \/ gate[r] \in {"away", "over"} /\ phase[r] = "new"
              \/ gate[r] = "handler" /\ phase[r] = "done"
      BY DEF IInv, StaysQuiet, GatesFit
    <2>2. DOMAIN ActiveRequests = {}
      BY <2>1, NobodyRegistered DEF IInv
    <2> QED
      BY <2>1, <2>2, HandlerStates DEF IInv
  <1> QED
    BY <1>1, Invariance, PTL

\* A refused request is not answered a second time and never gets to a handler.
THEOREM AlwaysOneAnswer == Spec => []OneAnswer
  <1>1. IInv => OneAnswer
    BY HandlerStates DEF IInv, GatesFit, OneAnswer
  <1> QED
    BY <1>1, Invariance, PTL

\* The limiter's goroutine is there as long as requests can come to it.
THEOREM CleanupAlwaysOutlivesRequests == Spec => []CleanupOutlivesRequests
  <1>1. IInv => CleanupOutlivesRequests
    BY DEF IInv, StoppedLast, StaysQuiet, CleanupOutlivesRequests
  <1> QED
    BY <1>1, Invariance, PTL

-----------------------------------------------------------------------------
(***************************************************************************)
(* The handlers behind the server's gates are those of MessageHandler: the *)
(* routes, the middlewares and the shutdown only decide when they step.    *)
(***************************************************************************)

\* Every step of the server is one of the handlers or leaves them alone.
LEMMA StepOfHandlers ==
    ASSUME [Next]_vars
    PROVE  [HandlerProofs!Next]_HandlerProofs!vars
  <1>1. CASE \E r \in Requests : ToHandler(r)
    BY <1>1 DEF ToHandler, Accept, Drop, AnswerOpenRoute, GuardedRoute, Allowed, Limited,
                WrongKey, StatelessHandler, Enter, Forward, Answer, Pass, handlerVars,
                HandlerProofs!vars
  <1>2. CASE \E r \in Requests : InHandler(r)
    BY <1>2, SameSteps DEF InHandler
  <1>3. CASE Signal \/ ServeFails \/ ShuttingDown \/ Gone \/ UNCHANGED vars
    BY <1>3 DEF Signal, ServeFails, ShuttingDown, LookFirst, LookAgain, Deadline, StopAndReturn,
                Gone, Becomes, vars, handlerVars, HandlerProofs!vars
  <1> QED
    BY <1>1, <1>2, <1>3 DEF Next

\* What a behaviour of the server does in the handlers is a behaviour of
\* MessageHandler, but for its fairness: a shutdown may stop a handler for ever.
THEOREM HandlersAsAlone ==
    Spec => HandlerProofs!Init /\ [][HandlerProofs!Next]_(HandlerProofs!vars)
  <1>1. Init => HandlerProofs!Init
    BY DEF Init, Handler!Init, HandlerProofs!Init, Handler!NoError, HandlerProofs!NoError
  <1>2. [Next]_vars => [HandlerProofs!Next]_(HandlerProofs!vars)
    BY StepOfHandlers
  <1> QED
    BY <1>1, <1>2, PTL DEF Spec

\* So a server keeps its registry exact, leaves no body open, cancels nobody
\* else's request and reports every failure, whatever its gates let through and
\* whenever it is told to stop.
THEOREM HandlersKeepTheirWord ==
    Spec => [](/\ HandlerProofs!RegistryExact
               /\ HandlerProofs!NoBodyLeft
               /\ HandlerProofs!CancelHitsOwnRequest
               /\ HandlerProofs!FailuresReported)
  <1>1. IInv => /\ HandlerProofs!RegistryExact
                /\ HandlerProofs!NoBodyLeft
                /\ HandlerProofs!CancelHitsOwnRequest
                /\ HandlerProofs!FailuresReported
    <2>1. IInv => HandlerProofs!RegistryExact
      BY DEF IInv, HandlerProofs!IInv
    <2>2. IInv => HandlerProofs!NoBodyLeft
      BY DEF IInv, HandlerProofs!IInv, HandlerProofs!InOrder, HandlerProofs!BodyHeld,
             HandlerProofs!StreamPhases, HandlerProofs!NoBodyLeft
    <2>3. IInv => HandlerProofs!CancelHitsOwnRequest
      BY DEF IInv, HandlerProofs!IInv, HandlerProofs!InOrder, HandlerProofs!CancelOwn,
             HandlerProofs!CancelHitsOwnRequest
    <2>4. IInv => HandlerProofs!FailuresReported
      BY DEF IInv, HandlerProofs!IInv, HandlerProofs!InOrder, HandlerProofs!Reported,
             HandlerProofs!FailuresReported
    <2> QED
      BY <2>1, <2>2, <2>3, <2>4
  <1> QED
    BY <1>1, Invariance, PTL
=============================================================================
