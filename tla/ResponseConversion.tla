------------------------- MODULE ResponseConversion -------------------------
(***************************************************************************)
(* ConvertOpenAIToClaudeResponse (internal/converter/response.go): what a  *)
(* request without stream is answered with; and what it must have in       *)
(* common with the streaming converter, which treats the same upstream     *)
(* answer in a different function.                                         *)
(***************************************************************************)
EXTENDS StreamBlocks

CONSTANT JsonTexts   \* the argument texts that are JSON

ASSUME JsonTextsAssumption == <<>> \notin JsonTexts

(***************************************************************************)
(* A completion: reasoningText, content, tool_calls, finish_reason and     *)
(* completion_tokens.  usable: it has a first choice with a message.       *)
(* Reasoning and content that are absent or no strings are empty, as in    *)
(* the code.                                                               *)
(***************************************************************************)
Completion(reasoning, text, calls, finish, usage) ==
    [usable |-> TRUE, reasoning |-> reasoning, content |-> text, calls |-> calls,
     finish |-> finish, usage |-> usage]

\* An entry of tool_calls.  function: it is an object that has one; given: the
\* function's arguments are there and a string.
Call(id, name, args, function, given) ==
    [id |-> id, name |-> name, args |-> args, function |-> function, given |-> given]

\* Inputs: what a JSON text parses to, {}, and Go's nil, which is sent as null.
Parsed(text) == [kind |-> "parsed", text |-> text]
EmptyObject == [kind |-> "{}", text |-> <<>>]
Null == [kind |-> "null", text |-> <<>>]

Prose(type, text) == [type |-> type, text |-> text]

ToolUse(id, name, input) == [type |-> "tool_use", id |-> id, name |-> name, input |-> input]

ProseBlock(type, text) == IF text = <<>> THEN <<>> ELSE <<Prose(type, text)>>

\* Arguments that are not given leave the input nil; text that is not JSON, the
\* empty one included, is replaced by an empty object.
Input(c) ==
    IF ~c.given THEN Null
    ELSE IF c.args \in JsonTexts THEN Parsed(c.args) ELSE EmptyObject

\* Entries without function are skipped.
ToolUseBlock(c) ==
    IF c.function THEN <<ToolUse(c.id, c.name, Input(c))>> ELSE <<>>

\* Faulty: a call whose arguments are not given or do not parse is skipped.
ToolUseBlocksParsed(calls) ==
    FlattenSeq([i \in DOMAIN calls |->
        IF calls[i].args \in JsonTexts THEN ToolUseBlock(calls[i]) ELSE <<>>])

ToolUseBlocks(calls) == FlattenSeq([i \in DOMAIN calls |-> ToolUseBlock(calls[i])])

contentBlocks(c) ==
    LET blocks == ProseBlock("thinking", c.reasoning) \o ProseBlock("text", c.content)
                     \o ToolUseBlocks(c.calls)
    IN IF blocks = <<>> THEN <<Prose("text", <<>>)>> ELSE blocks

errorResponse == [type |-> "error"]

ConvertOpenAIToClaudeResponse(c) ==
    IF ~c.usable THEN errorResponse
    ELSE [type          |-> "message",
          content       |-> contentBlocks(c),
          stop_reason   |-> mapFinishReason(c.finish),
          output_tokens |-> IF c.usage = NoUsage THEN 0 ELSE c.usage]

-----------------------------------------------------------------------------
(***************************************************************************)
(* The completion that the lines of a stream amount to.  An upstream that  *)
(* streams no arguments for a call may leave them empty in the completion, *)
(* or leave them out: bare are the calls it leaves them out for.           *)
(***************************************************************************)
\* The entries of tool_calls of the whole stream.
Entries == SentBy(LAMBDA l : l.tools)

CallsNamed == {IndexOf(Entries[k]) : k \in DOMAIN Entries}

\* The calls named, in the order of their indices.
CallsInOrder ==
    CHOOSE order \in [1..Cardinality(CallsNamed) -> CallsNamed] :
        \A i, j \in DOMAIN order : i < j => order[i] < order[j]

\* What entry e says of call t in the field that Field picks.
Says(e, t, Field(_)) == IF IndexOf(e) = t THEN Field(e) ELSE NoStr

\* What the stream says of call t.
CallOf(t) ==
    [id   |-> LastGiven([k \in DOMAIN Entries |-> Says(Entries[k], t, LAMBDA e : e.id)],
                        NoStr, NoStr),
     name |-> LastGiven([k \in DOMAIN Entries |-> Says(Entries[k], t, LAMBDA e : e.name)],
                        NoStr, NoStr),
     args |-> ArgsIn(t, Entries)]

\* The same call in the completion.
CallWhole(t, bare) ==
    Call(CallOf(t).id, CallOf(t).name, CallOf(t).args, TRUE, t \notin bare)

CompletionStreamed(bare) ==
    Completion(SentBy(LAMBDA l : l.reasoning),
               SentBy(LAMBDA l : l.content),
               [i \in DOMAIN CallsInOrder |-> CallWhole(CallsInOrder[i], bare)],
               LastGiven([k \in DOMAIN seen |-> seen[k].finish], NoStr, NoStr),
               LastGiven([k \in DOMAIN seen |-> IF seen[k].kind = "chunk" THEN seen[k].usage
                                                                         ELSE NoUsage],
                         NoUsage, NoUsage))

\* The parts of a line in the order of Claude's blocks: reasoning, text, calls.
Ranks(l) ==
    (IF l.reasoning = <<>> THEN <<>> ELSE <<-2>>)
        \o (IF l.content = <<>> THEN <<>> ELSE <<-1>>)
        \o [k \in DOMAIN l.tools |-> IndexOf(l.tools[k])]

\* The upstream thinks, speaks and calls in this order, one call after the
\* other; gives every call an id, a name and arguments that are JSON, if any,
\* and no second id or name; and gives the finish reason with a delta.
OrderlyUpstream ==
    /\ LET said == SentBy(Ranks) IN
           \A i, j \in DOMAIN said : i < j => said[i] <= said[j]
    /\ \A t \in CallsNamed :
           /\ CallOf(t).id # NoStr
           /\ CallOf(t).name # NoStr
           /\ CallOf(t).args \in JsonTexts \cup {<<>>}
    /\ \A k \in DOMAIN Entries :
           LET said == CallOf(IndexOf(Entries[k])) IN
               /\ Entries[k].id \in {NoStr, said.id}
               /\ Entries[k].name \in {NoStr, said.name}
    /\ \A k \in DOMAIN seen : seen[k].finish # NoStr => HasDelta(seen[k])

-----------------------------------------------------------------------------
\* A block as a client of the stream puts it together from its deltas; it
\* parses the arguments, and without any keeps the {} of the block's start.
Assembled(b) ==
    LET data == FlattenSeq([k \in DOMAIN b.deltas |-> b.deltas[k].data]) IN
        IF b.type # "tool_use" THEN Prose(b.type, data)
        ELSE ToolUse(b.id, b.name, IF data = <<>> THEN EmptyObject ELSE Parsed(data))

\* The input of a call in bare is null.
WithoutInput(block, t, bare) ==
    IF block.type = "tool_use" /\ t \in bare THEN [block EXCEPT !.input = Null] ELSE block

\* The calls for which no arguments were streamed.
CallsWithoutArgs == {t \in CallsNamed : CallOf(t).args = <<>>}

\* A client gets the same message with stream and without: the two functions
\* that convert an answer agree on its blocks, their order, the calls' inputs,
\* the stop reason and the tokens, for every upstream that keeps to Claude's
\* order (others have their blocks in the order they were streamed in).  They
\* disagree in one case only: the input of a call whose arguments are left out
\* is null without stream, and {} with it.
StreamMeansCompletion ==
    ending = "complete" /\ final.stopReason # "error" /\ OrderlyUpstream =>
        \A bare \in SUBSET CallsWithoutArgs :
            ConvertOpenAIToClaudeResponse(CompletionStreamed(bare)) =
                [type          |-> "message",
                 content       |-> [i \in 1..(contentBlockIndex + 1) |->
                     WithoutInput(Assembled(content[i - 1]), content[i - 1].call, bare)],
                 stop_reason   |-> final.stopReason,
                 output_tokens |-> final.outputTokens]
=============================================================================
