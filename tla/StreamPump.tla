----------------------------- MODULE StreamPump -----------------------------
(***************************************************************************)
(* The pump of ConvertOpenAIStreamingToClaude: the goroutine that scans    *)
(* the upstream's body and hands its lines to the main loop through the    *)
(* buffered channel items.  The operations of the two ends of the channel  *)
(* are actions here; StreamConverter joins them with the main loop.        *)
(***************************************************************************)
EXTENDS SSE, SequencesExt

CONSTANTS
    Cap,       \* capacity of items (64 in the code)
    MaxLines   \* how many lines an upstream sends at most

VARIABLES
    pump,         \* "scan", "send", "sendErr" or "exited"
    items,        \* the channel's buffer
    itemsClosed,  \* close(items) was called
    readErr,      \* scanner.Err() # nil
    scanned       \* the lines scanned, oldest first

pumpVars == <<pump, items, itemsClosed, readErr, scanned>>

LineItem(l) == [err |-> FALSE, line |-> <<l>>]
ErrItem == [err |-> TRUE, line |-> <<>>]

PumpInit ==
    /\ pump = "scan"
    /\ items = <<>>
    /\ itemsClosed = FALSE
    /\ readErr = FALSE
    /\ scanned = <<>>

-----------------------------------------------------------------------------
(***************************************************************************)
(* scanner.Scan(): a line, the end of the body, or an error (the body      *)
(* broke off, a line was too long, the request was cancelled).             *)
(***************************************************************************)
Scan(l) ==
    /\ pump = "scan"
    /\ Len(scanned) < MaxLines
    /\ scanned' = Append(scanned, l)
    /\ pump' = "send"
    /\ UNCHANGED <<items, itemsClosed, readErr>>

ScanEnd ==
    /\ pump = "scan"
    /\ itemsClosed' = TRUE
    /\ pump' = "exited"
    /\ UNCHANGED <<items, readErr, scanned>>

\* Faulty: scanner.Err() is not looked at.
ScanErrorIgnored ==
    /\ pump = "scan"
    /\ readErr' = TRUE
    /\ itemsClosed' = TRUE
    /\ pump' = "exited"
    /\ UNCHANGED <<items, scanned>>

ScanError ==
    /\ pump = "scan"
    /\ readErr' = TRUE
    /\ pump' = "sendErr"
    /\ UNCHANGED <<items, itemsClosed, scanned>>

-----------------------------------------------------------------------------
(***************************************************************************)
(* The pump's select: a send when the buffer has room, or stopCh.          *)
(***************************************************************************)
\* Faulty: the send does not wait for room.
SendLineUnbounded ==
    /\ pump = "send"
    /\ items' = Append(items, LineItem(Last(scanned)))
    /\ pump' = "scan"
    /\ UNCHANGED <<itemsClosed, readErr, scanned>>

\* Faulty: a line that finds the buffer full is dropped.
SendLineOrDrop ==
    /\ pump = "send"
    /\ items' = IF Len(items) < Cap THEN Append(items, LineItem(Last(scanned))) ELSE items
    /\ pump' = "scan"
    /\ UNCHANGED <<itemsClosed, readErr, scanned>>

SendLine ==
    /\ pump = "send"
    /\ Len(items) < Cap
    /\ items' = Append(items, LineItem(Last(scanned)))
    /\ pump' = "scan"
    /\ UNCHANGED <<itemsClosed, readErr, scanned>>

\* Faulty: the error overtakes the lines before it.
SendErrFirst ==
    /\ pump = "sendErr"
    /\ Len(items) < Cap
    /\ items' = <<ErrItem>> \o items
    /\ pump' = "exited"
    /\ UNCHANGED <<itemsClosed, readErr, scanned>>

SendErr ==
    /\ pump = "sendErr"
    /\ Len(items) < Cap
    /\ items' = Append(items, ErrItem)
    /\ pump' = "exited"
    /\ UNCHANGED <<itemsClosed, readErr, scanned>>

\* Faulty: the send of the error does not watch stopCh.
SendStoppedLineOnly ==
    /\ pump = "send"
    /\ pump' = "exited"
    /\ UNCHANGED <<items, itemsClosed, readErr, scanned>>

\* stopCh is closed (the guard is the caller's).
SendStopped ==
    /\ pump \in {"send", "sendErr"}
    /\ pump' = "exited"
    /\ UNCHANGED <<items, itemsClosed, readErr, scanned>>

-----------------------------------------------------------------------------
(***************************************************************************)
(* The receiving end: an item, or that there will be none.                 *)
(***************************************************************************)
Take(item) ==
    /\ items # <<>>
    /\ item = Head(items)
    /\ items' = Tail(items)
    /\ UNCHANGED <<pump, itemsClosed, readErr, scanned>>

Drained ==
    /\ items = <<>>
    /\ itemsClosed
    /\ UNCHANGED pumpVars

-----------------------------------------------------------------------------
\* The lines of a sequence of items.
LinesOf(s) == FlattenSeq([k \in DOMAIN s |-> s[k].line])

\* The line the pump is about to send.
Held == IF pump = "send" THEN <<Last(scanned)>> ELSE <<>>
=============================================================================
