--------------------------- MODULE ClaudeMessage ---------------------------
(***************************************************************************)
(* What a streamed Claude message promises its client, whatever the        *)
(* upstream sends: content blocks are opened one at a time, grow only      *)
(* while they are the open one, are closed once and never change again;    *)
(* the message has one ending, and nothing is sent after it.               *)
(*                                                                         *)
(* content is the message as a client assembles it from the events         *)
(* content_block_start, content_block_delta and content_block_stop.  A     *)
(* block's deltas are the payloads received for it and its stops the       *)
(* number of content_block_stop events.                                    *)
(***************************************************************************)
EXTENDS Integers, Sequences, SequencesExt

VARIABLES
    content,  \* the blocks, in the order they were started
    ending    \* "streaming", then "complete", "failed" or "cut"

vars == <<content, ending>>

IsOpen(b) == b.stops = 0

\* The first n blocks stay as they are.
KeepsFirst(n) == \A i \in 1..n : content'[i] = content[i]

\* b2 is b1 with deltas added at its end.
Grown(b1, b2) ==
    /\ IsPrefix(b1.deltas, b2.deltas)
    /\ b2 = [b1 EXCEPT !.deltas = b2.deltas]

\* b2 is b1 after one content_block_stop.
Closed(b1, b2) ==
    /\ IsOpen(b1)
    /\ b2 = [b1 EXCEPT !.stops = 1]

Init ==
    /\ content = <<>>
    /\ ending = "streaming"

\* content_block_delta events for the open block, which is the last one.
Extend ==
    /\ ending = "streaming"
    /\ content # <<>>
    /\ Len(content') = Len(content)
    /\ KeepsFirst(Len(content) - 1)
    /\ IsOpen(Last(content))
    /\ Grown(Last(content), Last(content'))
    /\ UNCHANGED ending

\* content_block_stop for the open block, if there is one, and
\* content_block_start for the next (perhaps with its first delta).
Open ==
    /\ ending = "streaming"
    /\ Len(content') = Len(content) + 1
    /\ KeepsFirst(Len(content) - 1)
    /\ content # <<>> => Closed(Last(content), content'[Len(content)])
    /\ IsOpen(Last(content'))
    /\ UNCHANGED ending

\* The last content_block_stop, message_delta and message_stop.  A complete
\* message has at least one block.
Complete ==
    /\ ending = "streaming"
    /\ content # <<>>
    /\ Len(content') = Len(content)
    /\ KeepsFirst(Len(content) - 1)
    /\ Closed(Last(content), Last(content'))
    /\ ending' = "complete"

\* An error event, or silence because the client has gone.
Fail ==
    /\ ending = "streaming"
    /\ ending' \in {"failed", "cut"}
    /\ UNCHANGED content

Next == Extend \/ Open \/ Complete \/ Fail

Spec == Init /\ [][Next]_vars
=============================================================================
