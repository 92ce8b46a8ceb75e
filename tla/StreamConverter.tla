-------------------------- MODULE StreamConverter --------------------------
(***************************************************************************)
(* One streaming response as a closed system: the main loop and            *)
(* processLine (StreamBlocks), the pump (StreamPump), the idle timer, the  *)
(* client whose going ends the request's context, and the handler's        *)
(* deferred stream.Close (internal/handler/handler.go).                    *)
(*                                                                         *)
(* A step of the main loop that takes an item is a step of both modules.   *)
(***************************************************************************)
EXTENDS SSE, SequencesExt

CONSTANTS
    Cap,       \* capacity of items (64 in the code)
    MaxLines   \* how many lines an upstream sends at most

ASSUME CapAssumption == Cap \in Nat \ {0}
ASSUME MaxLinesAssumption == MaxLines \in Nat

VARIABLES
    \* StreamBlocks
    pc, rest, contentBlockIndex, thinkingOpen, textOpen, textIndex, toolCalls,
    outputTokens, stopReason, abort, content, ending, final, cancelled, seen,
    \* StreamPump
    pump, items, itemsClosed, readErr, scanned,
    \* here
    idleTimer,   \* "armed" or "fired"
    firedAt,     \* history: how many lines had been taken when it last fired,
    firedSilent, \* and whether no further line was waiting then
    ctxDone,     \* the client has gone: the request's context is done
    bodyClosed   \* the handler has returned and closed the upstream's body

Blocks == INSTANCE StreamBlocks
Pump == INSTANCE StreamPump

blocksVars == <<pc, rest, contentBlockIndex, thinkingOpen, textOpen, textIndex,
                toolCalls, outputTokens, stopReason, abort, content, ending, final,
                cancelled, seen>>
pumpVars == <<pump, items, itemsClosed, readErr, scanned>>
timerVars == <<idleTimer, firedAt, firedSilent>>
envVars == <<ctxDone, bodyClosed>>
vars == <<blocksVars, pumpVars, timerVars, envVars>>

Init ==
    /\ Blocks!Init
    /\ Pump!PumpInit
    /\ idleTimer = "armed"
    /\ firedAt = 0
    /\ firedSilent = TRUE
    /\ ctxDone = FALSE
    /\ bodyClosed = FALSE

-----------------------------------------------------------------------------
(***************************************************************************)
(* The main goroutine.  Between the cases of the select that are ready the *)
(* choice is random, so none of them looks at the others.                  *)
(***************************************************************************)

\* Faulty: the timer keeps running, or stays expired.
ReceiveLineNoReset(l) ==
    /\ Pump!Take(Pump!LineItem(l))
    /\ Blocks!ReceiveLine(l)
    /\ UNCHANGED <<timerVars, envVars>>

\* Faulty: the timer is stopped and not set again.
ReceiveLineStops(l) ==
    /\ Pump!Take(Pump!LineItem(l))
    /\ Blocks!ReceiveLine(l)
    /\ idleTimer' = "stopped"
    /\ UNCHANGED <<firedAt, firedSilent, envVars>>

\* The timer is stopped, drained and reset before the line is processed.
ReceiveLine(l) ==
    /\ Pump!Take(Pump!LineItem(l))
    /\ Blocks!ReceiveLine(l)
    /\ idleTimer' = "armed"
    /\ UNCHANGED <<firedAt, firedSilent, envVars>>

ReceiveErr ==
    /\ Pump!Take(Pump!ErrItem)
    /\ Blocks!ReadError
    /\ UNCHANGED <<timerVars, envVars>>

ReceiveClosed ==
    /\ Pump!Drained
    /\ Blocks!EndOfStream
    /\ UNCHANGED <<timerVars, envVars>>

Stall ==
    /\ idleTimer = "fired"
    /\ Blocks!Stall
    /\ UNCHANGED <<pumpVars, timerVars, envVars>>

\* isDisconnected() and ctx.Done() both watch the request's context.
Disconnect ==
    /\ ctxDone
    /\ Blocks!Disconnect
    /\ UNCHANGED <<pumpVars, timerVars, envVars>>

StillConnected ==
    /\ ~ctxDone
    /\ Blocks!StillConnected
    /\ UNCHANGED <<pumpVars, timerVars, envVars>>

Work ==
    /\ Blocks!ProcessLine \/ Blocks!AfterLoop
    /\ UNCHANGED <<pumpVars, timerVars, envVars>>

Main ==
    \/ \E l \in Lines : ReceiveLine(l)
    \/ ReceiveErr \/ ReceiveClosed \/ Stall \/ Disconnect \/ StillConnected \/ Work

-----------------------------------------------------------------------------
(***************************************************************************)
(* The pump.  Closing stopCh is the converter's deferred close.            *)
(***************************************************************************)
stopChClosed == pc = "returned"

PumpSend ==
    /\ \/ Pump!SendLine
       \/ Pump!SendErr
       \/ stopChClosed /\ Pump!SendStopped
    /\ UNCHANGED <<blocksVars, timerVars, envVars>>

\* What the upstream does is its own affair: it may send a line, end its body
\* or break off.  MaxLines bounds how often it sends one; in the code nothing does.
Upstream ==
    /\ \/ \E l \in Lines : Pump!Scan(l)
       \/ Pump!ScanEnd
       \/ Pump!ScanError
    /\ UNCHANGED <<blocksVars, timerVars, envVars>>

\* A read must fail once its request is cancelled or its body closed.
ReadFails ==
    /\ cancelled \/ ctxDone \/ bodyClosed
    /\ Pump!ScanError
    /\ UNCHANGED <<blocksVars, timerVars, envVars>>

-----------------------------------------------------------------------------
\* The timer expires whatever the main goroutine is doing at that moment.
TimerFires ==
    /\ pc # "returned"
    /\ idleTimer = "armed"
    /\ idleTimer' = "fired"
    /\ firedAt' = Len(seen)
    /\ firedSilent' = (items = <<>>)
    /\ UNCHANGED <<blocksVars, pumpVars, envVars>>

ClientGoes ==
    /\ ~bodyClosed
    /\ ~ctxDone
    /\ ctxDone' = TRUE
    /\ UNCHANGED <<blocksVars, pumpVars, timerVars, bodyClosed>>

\* CreateMessage returns: its deferred stream.Close closes the body.
HandlerReturns ==
    /\ pc = "returned"
    /\ ~bodyClosed
    /\ bodyClosed' = TRUE
    /\ UNCHANGED <<blocksVars, pumpVars, timerVars, ctxDone>>

\* Both goroutines have ended.
Quiet ==
    /\ bodyClosed
    /\ pump = "exited"
    /\ UNCHANGED vars

Next ==
    \/ Main \/ PumpSend \/ Upstream \/ TimerFires
    \/ ClientGoes \/ HandlerReturns \/ Quiet

(***************************************************************************)
(* Fairness: goroutines are scheduled, the timer expires, a read of a      *)
(* cancelled or closed body fails.  That a timer which is armed again and  *)
(* again expires at last is only true because lines come to an end         *)
(* (MaxLines); of the upstream itself nothing more is assumed, it need not *)
(* send or end anything.  Fairness of Main takes the client to read what   *)
(* it is sent or to break the connection: the server sets no write timeout.*)
(***************************************************************************)
Fairness ==
    /\ WF_vars(Main)
    /\ WF_vars(PumpSend)
    /\ WF_vars(ReadFails)
    /\ WF_vars(TimerFires)
    /\ WF_vars(HandlerReturns)

Spec == Init /\ [][Next]_vars /\ Fairness

-----------------------------------------------------------------------------
\* The channel, its buffer and the timer stay in their types.
TypeOK ==
    /\ Blocks!TypeOK
    /\ pump \in {"scan", "send", "sendErr", "exited"}
    /\ items \in Seq({Pump!ErrItem} \cup {Pump!LineItem(l) : l \in Lines})
    /\ Len(items) <= Cap
    /\ itemsClosed \in BOOLEAN
    /\ readErr \in BOOLEAN
    /\ scanned \in Seq(Lines)
    /\ idleTimer \in {"armed", "fired"}
    /\ firedAt \in Nat
    /\ firedSilent \in BOOLEAN
    /\ ctxDone \in BOOLEAN
    /\ bodyClosed \in BOOLEAN

\* No line is lost, duplicated or overtaken between the scanner and
\* processLine: while the loop runs, the lines scanned are those processed,
\* those buffered and the one the pump holds.
LinesInOrder ==
    pc # "returned" => scanned = seen \o Pump!LinesOf(items) \o Pump!Held

\* The line that ended the loop, if a line did.
SawDone == seen # <<>> /\ Last(seen).kind = "done"

\* A message completes only when every line the upstream sent before it ended
\* or broke off has been processed, or when [DONE] came: buffered lines are
\* never dropped in favour of an error.
CompleteMeansAllRead ==
    ending = "complete" => SawDone \/ seen = scanned

\* A body that broke off is never presented as a normal end, nor a normal end
\* as a broken one: stop_reason is "error" exactly when reading failed before
\* [DONE].
BrokenReadReported ==
    ending = "complete" =>
        (final.stopReason = "error" <=> readErr /\ ~SawDone)

\* A line taken after the timer expired cancels the expiry: a stall is
\* declared only if no line was taken since the timer last fired.
ProgressResetsTimer ==
    [][Stall => firedAt = Len(seen)]_vars

\* A stall means that the upstream was silent: when the timer expired no line
\* of it was waiting for the converter.
StallMeansSilence ==
    [][Stall => firedSilent]_vars

\* A streaming response ends if its upstream at some time sends no more lines:
\* on [DONE], an error, the end of the body, a disconnect or, if nothing of all
\* that happens, a stall.  Lines without end, keep-alives among them, re-arm the
\* timer without end, and the code has no other limit: such a response lasts as
\* long as its upstream and its client want.
ConverterReturns == <>[][FALSE]_scanned => <>(pc = "returned")

\* No goroutine is left behind: when the response is over the pump exits, even
\* if it is blocked on a full channel or in a read.
PumpExits == pc = "returned" ~> pump = "exited"
=============================================================================
