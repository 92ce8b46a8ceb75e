------------------------- MODULE MCStreamConverter -------------------------
(***************************************************************************)
(* StreamConverter with the lines that end a stream, one that opens a      *)
(* text block, one that opens a tool_use block and one that is skipped.    *)
(***************************************************************************)
EXTENDS StreamConverter

MCToolIdx == {0}
MCCallIds == {"call_a"}
MCToolNames == {"get_weather"}
MCFrags == {"x"}

Silent == [kind |-> "chunk", usage |-> NoUsage, delta |-> TRUE, reasoning |-> <<>>,
           content |-> <<>>, tools |-> <<>>, finish |-> NoStr]
Other == [Silent EXCEPT !.kind = "other", !.delta = FALSE]
DoneLine == [Silent EXCEPT !.kind = "done", !.delta = FALSE]
ErrorLine == [Silent EXCEPT !.kind = "error", !.delta = FALSE]
Say == [Silent EXCEPT !.content = <<"x">>]
Call == [Silent EXCEPT !.tools = <<[index |-> 0, id |-> "call_a",
                                    name |-> "get_weather", args |-> <<"x">>]>>,
                       !.finish = "tool_calls"]

MCLines == {Other, DoneLine, ErrorLine, Say, Call}
=============================================================================
