--------------------------- MODULE MCStreamBlocks ---------------------------
(***************************************************************************)
(* Small alphabets of lines for StreamBlocks, and the arguments among them *)
(* that are JSON.                                                          *)
(***************************************************************************)
EXTENDS ResponseConversion

MCToolIdx == {0, 1}
MCCallIds == {"call_a", "call_b"}
MCToolNames == {"get_weather"}
MCFrags == {"x", "y"}

Silent == [kind |-> "chunk", usage |-> NoUsage, delta |-> TRUE, reasoning |-> <<>>,
           content |-> <<>>, tools |-> <<>>, finish |-> NoStr]

\* A tool_calls entry.
Entry(i, id, name, args) == [index |-> i, id |-> id, name |-> name, args |-> args]

Other == [Silent EXCEPT !.kind = "other", !.delta = FALSE]
DoneLine == [Silent EXCEPT !.kind = "done", !.delta = FALSE]
ErrorLine == [Silent EXCEPT !.kind = "error", !.delta = FALSE]
Think == [Silent EXCEPT !.reasoning = <<"x">>]
Say == [Silent EXCEPT !.content = <<"x">>]
ThinkAndSay == [Silent EXCEPT !.reasoning = <<"y">>, !.content = <<"x">>]
Tools(entries) == [Silent EXCEPT !.tools = entries]

\* Call A announced in one entry; announced in two, with arguments before it can
\* start; its further arguments, from an upstream that leaves the index out.
CallA == Tools(<<Entry(0, "call_a", "get_weather", <<>>)>>)
CallAId == Tools(<<Entry(0, "call_a", NoStr, <<"x">>)>>)
CallAName == Tools(<<Entry(0, NoStr, "get_weather", <<"y">>)>>)
ArgsA == Tools(<<Entry(NoIndex, NoStr, NoStr, <<"y">>)>>)

\* A second call, and both calls in one line.
CallB == Tools(<<Entry(1, "call_b", "get_weather", <<"x">>)>>)
ArgsB == Tools(<<Entry(1, NoStr, NoStr, <<"x">>)>>)
CallsAB == Tools(<<Entry(0, "call_a", "get_weather", <<"x">>),
                   Entry(1, "call_b", "get_weather", <<"x">>)>>)

\* How streams end: a finish reason beside nothing or beside the last text, and
\* chunks without delta, whose usage counts and whose finish reason does not.
ToolStop == [Silent EXCEPT !.finish = "tool_calls", !.usage = 1]
SayCut == [Silent EXCEPT !.content = <<"y">>, !.finish = "length"]
StopNoDelta == [Silent EXCEPT !.delta = FALSE, !.finish = "stop", !.usage = 3]
UsageOnly == [StopNoDelta EXCEPT !.finish = NoStr]

MCLines == {Other, DoneLine, ErrorLine, Think, Say, ThinkAndSay,
            CallA, CallAId, CallAName, ArgsA, CallB, ArgsB, CallsAB,
            ToolStop, SayCut, StopNoDelta, UsageOnly}

\* Arguments that begin with x are JSON.
MCJsonTexts == {a \in SeqOf(MCFrags, 6) : a # <<>> /\ a[1] = "x"}
=============================================================================
