-------------------------------- MODULE SSE --------------------------------
(***************************************************************************)
(* The vocabulary of the streaming path: what one line of the upstream's   *)
(* server-sent event stream can be, as far as the converter tells lines    *)
(* apart (internal/converter/response.go).  A string is a sequence of      *)
(* fragments; the empty string is the empty sequence.                      *)
(***************************************************************************)
EXTENDS Integers, Sequences

CONSTANTS
    ToolIdx,    \* values of tool_calls[].index, 0 among them
    CallIds,    \* tool call ids
    ToolNames,  \* function names
    Frags,      \* fragments of text, thinking or tool arguments
    Lines       \* the lines an upstream may send

\* A string field that is absent or empty: the code treats both alike.
NoStr == ""

\* int fields that are absent
NoIndex == -1
NoUsage == -1

FinishReasons == {"stop", "length", "tool_calls", "content_filter", "unknown"}

(***************************************************************************)
(* One element of delta.tool_calls.  Upstreams may leave out any field.    *)
(***************************************************************************)
ToolEntry == [index : ToolIdx \cup {NoIndex},
              id    : CallIds \cup {NoStr},
              name  : ToolNames \cup {NoStr},
              args  : Seq(Frags)]

(***************************************************************************)
(* One line.  "other" stands for everything processLine skips: comments,   *)
(* event: fields, blank keep-alives, data that is not JSON.  A "chunk"     *)
(* without delta is one whose choices, first choice or delta is missing.   *)
(***************************************************************************)
Line == [kind      : {"other", "done", "error", "chunk"},
         usage     : Nat \cup {NoUsage},
         delta     : BOOLEAN,
         reasoning : Seq(Frags),
         content   : Seq(Frags),
         tools     : Seq(ToolEntry),
         finish    : FinishReasons \cup {NoStr}]

ASSUME LinesAssumption ==
    /\ ToolIdx \subseteq Nat
    /\ 0 \in ToolIdx
    /\ NoStr \notin CallIds
    /\ NoStr \notin ToolNames
    /\ \A l \in Lines : l \in Line
=============================================================================
