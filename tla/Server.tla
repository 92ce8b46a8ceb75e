------------------------------- MODULE Server -------------------------------
(***************************************************************************)
(* The whole server (cmd/server/main.go): how a request gets through CORS, *)
(* the routes, the rate limiter and the key check to the handlers of       *)
(* MessageHandler, and how the process ends while requests are under way.  *)
(*                                                                         *)
(* Every request comes on a connection of its own.  What the limiter's     *)
(* Allow says is open here: RateLimiter is about that.                     *)
(***************************************************************************)
EXTENDS Integers, FiniteSets

CONSTANTS Requests, Ids, Replies, NoId, NoReply, NoResponse, Nobody, NoAnswer

VARIABLES
    \* MessageHandler
    phase, kind, id, reply, err, response, bodyOpen, ctxDone, cancelled, found,
    ActiveRequests, asked,
    \* here
    process,      \* what main does
    cleanupRuns,  \* the limiter's goroutine is there
    keyRequired,  \* anthropic_api_key is configured
    gate,         \* how far the request has come
    answer        \* the status the request got before the handlers, if any

Handler == INSTANCE MessageHandler

ASSUME ServerAssumption ==
    /\ Replies \subseteq Handler!Reply
    /\ NoId \notin Ids
    /\ NoReply \notin Replies
    /\ NoResponse \notin Handler!Response
    /\ Nobody \notin Requests

handlerVars == <<phase, kind, id, reply, err, response, bodyOpen, ctxDone, cancelled,
                 found, ActiveRequests, asked>>
mainVars == <<process, cleanupRuns, keyRequired>>
gateVars == <<gate, answer>>
vars == <<handlerVars, mainVars, gateVars>>

Init ==
    /\ Handler!Init
    /\ process = "serving"
    /\ cleanupRuns = TRUE
    /\ keyRequired \in BOOLEAN
    /\ gate = [r \in Requests |-> "away"]
    /\ answer = [r \in Requests |-> NoAnswer]

Exited == process \in {"exited", "killed"}

\* Until the process is gone the goroutines of its connections go on.
Pass(r, from, to) ==
    /\ ~Exited
    /\ gate[r] = from
    /\ gate' = [gate EXCEPT ![r] = to]
    /\ UNCHANGED <<handlerVars, mainVars>>

Forward(r, from, to) == Pass(r, from, to) /\ UNCHANGED answer

Answer(r, from, status) ==
    /\ Pass(r, from, "over")
    /\ answer' = [answer EXCEPT ![r] = status]

-----------------------------------------------------------------------------
(***************************************************************************)
(* The way of a request to its handler.                                    *)
(***************************************************************************)
\* Only a server that has not been told to stop accepts connections.
Accept(r) == process = "serving" /\ Forward(r, "away", "connected")

\* A connection without a request may be closed: by the client, by
\* ReadHeaderTimeout, or by Shutdown.
Drop(r) == Forward(r, "connected", "over")

\* OPTIONS, answered by corsMiddleware; GET / and GET /health; 405 for a method
\* that no route has.
AnswerOpenRoute(r) == \E status \in {200, 405} : Answer(r, "connected", status)

\* A guarded route: its first middleware.
GuardedRoute(r) == Forward(r, "connected", "limiter")

Allowed(r) == Forward(r, "limiter", "keyCheck")

\* Faulty: the return after the answer is missing.
LimitAndGoOn(r) ==
    /\ Pass(r, "limiter", "keyCheck")
    /\ answer' = [answer EXCEPT ![r] = 429]

\* Faulty: answered as if the server were at fault.
LimitedAsUnavailable(r) == Answer(r, "limiter", 503)

Limited(r) == Answer(r, "limiter", 429)

WrongKey(r) == keyRequired /\ Answer(r, "keyCheck", 401)

\* CountTokens and ListModels keep nothing and wait for nobody.
StatelessHandler(r) == \E status \in {200, 400, 413} : Answer(r, "keyCheck", status)

\* CreateMessage or TestConnection.
Enter(r) == Forward(r, "keyCheck", "handler")

ToHandler(r) ==
    \/ Accept(r) \/ Drop(r) \/ AnswerOpenRoute(r) \/ GuardedRoute(r)
    \/ Allowed(r) \/ Limited(r) \/ WrongKey(r) \/ StatelessHandler(r) \/ Enter(r)

InHandler(r) ==
    /\ ~Exited
    /\ gate[r] = "handler"
    /\ Handler!Arrive(r) \/ Handler!Step(r) \/ Handler!Upstream(r) \/ Handler!ClientGoes(r)
    /\ UNCHANGED <<mainVars, gateVars>>

-----------------------------------------------------------------------------
(***************************************************************************)
(* main.                                                                   *)
(***************************************************************************)
Becomes(from, to) ==
    /\ process = from
    /\ process' = to
    /\ UNCHANGED <<handlerVars, gateVars, cleanupRuns, keyRequired>>

\* Faulty: the limiter is stopped first.
SignalAndStop ==
    /\ process = "serving"
    /\ process' = "signalled"
    /\ cleanupRuns' = FALSE
    /\ UNCHANGED <<handlerVars, gateVars, keyRequired>>

\* SIGINT or SIGTERM.
Signal == Becomes("serving", "signalled")

\* Serve fails: log.Fatalf.
ServeFails == Becomes("serving", "killed")

Over(r) == gate[r] \in {"away", "over"} \/ phase[r] = "done"

\* Faulty: only requests that have reached the upstream are waited for.
QuietUpstream == ActiveRequests = <<>>

\* No connection is active: the handlers have returned.
Quiet == \A r \in Requests : Over(r)

\* Shutdown closes the listener, looks, and looks again from time to time until
\* the connections are quiet ...
LookFirst == Becomes("signalled", IF Quiet THEN "quiet" ELSE "waiting")
LookAgain == Quiet /\ Becomes("waiting", "quiet")

\* Faulty: Shutdown is given a context without deadline.
NoDeadline == FALSE /\ UNCHANGED vars

\* ... or its 30 seconds are over: log.Fatalf, with whatever is under way.
Deadline == Becomes("waiting", "killed")

\* rateLimiter.Stop, and main returns.
StopAndReturn ==
    /\ process = "quiet"
    /\ process' = "exited"
    /\ cleanupRuns' = FALSE
    /\ UNCHANGED <<handlerVars, gateVars, keyRequired>>

ShuttingDown == LookFirst \/ LookAgain \/ Deadline \/ StopAndReturn

\* The process is gone.
Gone == Exited /\ UNCHANGED vars

Next ==
    \/ \E r \in Requests : ToHandler(r) \/ InHandler(r)
    \/ Signal \/ ServeFails \/ ShuttingDown \/ Gone

(***************************************************************************)
(* main is scheduled and the deadline's timer expires.  Nothing is assumed *)
(* of clients, handlers or the upstream.                                   *)
(***************************************************************************)
Spec == Init /\ [][Next]_vars /\ WF_vars(ShuttingDown)

-----------------------------------------------------------------------------
Gates == {"away", "connected", "limiter", "keyCheck", "handler", "over"}

\* main, the gates and the handlers stay in their types.
TypeOK ==
    /\ Handler!TypeOK
    /\ process \in {"serving", "signalled", "waiting", "quiet", "exited", "killed"}
    /\ cleanupRuns \in BOOLEAN
    /\ keyRequired \in BOOLEAN
    /\ gate \in [Requests -> Gates]
    /\ answer \in [Requests -> {NoAnswer, 200, 400, 401, 405, 413, 429}]

\* A graceful exit cuts nobody off: every request the server had begun with has
\* been answered to its end, streams included, no upstream request is left in
\* the registry and no upstream body is open.  Requests that arrived while the
\* shutdown was already waiting are no exception.
GracefulMeansAnswered ==
    process \in {"quiet", "exited"} =>
        /\ \A r \in Requests :
            /\ gate[r] \in {"away", "handler", "over"}
            /\ gate[r] = "handler" => phase[r] = "done" /\ response[r] # NoResponse
            /\ ~bodyOpen[r]
        /\ DOMAIN ActiveRequests = {}

\* A request is answered once, by the middleware that refuses it or by its
\* handler, and what was refused never reaches the upstream.
OneAnswer ==
    \A r \in Requests :
        answer[r] # NoAnswer => phase[r] = "new" /\ response[r] = NoResponse

\* Buckets are evicted as long as the limiter may still be asked: the cleanup
\* goroutine is stopped only when no request can come to the limiter any more.
CleanupOutlivesRequests ==
    cleanupRuns \/ \A r \in Requests : gate[r] \notin {"connected", "limiter"}

\* A signal ends the process, whatever clients and upstream do: a stream that
\* goes on for ever holds the shutdown up only until its deadline.
SignalEnds == process = "signalled" ~> Exited
=============================================================================
