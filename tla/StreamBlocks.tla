---------------------------- MODULE StreamBlocks ----------------------------
(***************************************************************************)
(* ConvertOpenAIStreamingToClaude (internal/converter/response.go), the    *)
(* goroutine that serves one streaming request: the loop that waits for    *)
(* the next line, a disconnect, the end of the upstream or the idle timer; *)
(* processLine, one step per stage; and the epilogue.  Where a line comes  *)
(* from and when the timer may fire is left open here (any line, any       *)
(* time); StreamConverter closes the system with the pump and the timer.   *)
(*                                                                         *)
(* The events written to the client are kept as the message the client     *)
(* assembles from them: content[i] is the block with wire index i.         *)
(***************************************************************************)
EXTENDS SSE, SequencesExt

CONSTANT MaxLines   \* how many lines an upstream sends at most

ASSUME MaxLinesAssumption == MaxLines \in Nat

VARIABLES
    pc,                 \* the stage of the goroutine
    rest,               \* the tool_calls entries of the line still to handle
    contentBlockIndex,  \* wire index of the last block started, -1 if none
    thinkingOpen,
    textOpen,
    textIndex,
    toolCalls,          \* per upstream index: what was accumulated
    outputTokens,
    stopReason,
    abort,
    content,            \* the blocks as the client sees them
    ending,             \* "streaming", then "complete", "failed" or "cut"
    final,              \* stop_reason and usage of the message_delta sent
    cancelled,          \* cancelFn has been called
    seen                \* the lines taken from the pump, oldest first

blockVars == <<contentBlockIndex, thinkingOpen, textOpen, textIndex, content>>
callVars  == <<toolCalls, rest>>
reportVars == <<outputTokens, stopReason>>
endVars   == <<abort, ending, final, cancelled>>
vars == <<pc, blockVars, callVars, reportVars, endVars, seen>>

NoCall == -1

\* The line being processed.
line == Last(seen)

-----------------------------------------------------------------------------
(***************************************************************************)
(* Events on content blocks, as they change the client's message c.        *)
(***************************************************************************)
Block(type, call, id, name) ==
    [type |-> type, call |-> call, id |-> id, name |-> name,
     deltas |-> <<>>, stops |-> 0]

Delta(type, call, data) == [type |-> type, call |-> call, data |-> data]

WriteStart(c, i, b) ==
    [j \in DOMAIN c \cup {i} |-> IF j = i THEN b ELSE c[j]]

WriteDelta(c, i, d) == [c EXCEPT ![i].deltas = Append(@, d)]

WriteStop(c, i) == [c EXCEPT ![i].stops = @ + 1]

closeOpenBlock(c) ==
    IF contentBlockIndex >= 0 THEN WriteStop(c, contentBlockIndex) ELSE c

\* Faulty: the open block is not closed first.
openBlockOnly(c, b) == WriteStart(c, contentBlockIndex + 1, b)

\* The caller sets contentBlockIndex' to contentBlockIndex + 1.
openBlock(c, b) == WriteStart(closeOpenBlock(c), contentBlockIndex + 1, b)

\* Faulty: a tool call leaves thinkingOpen set.
SetOpenThinkingStays(type) ==
    /\ thinkingOpen' = (type = "thinking" \/ (type = "tool_use" /\ thinkingOpen))
    /\ textOpen' = (type = "text")

\* The flags after a block of this type is opened.
SetOpen(type) ==
    /\ thinkingOpen' = (type = "thinking")
    /\ textOpen' = (type = "text")

mapFinishReason(reason) ==
    CASE reason = "length"     -> "max_tokens"
      [] reason = "tool_calls" -> "tool_use"
      [] OTHER                 -> "end_turn"

-----------------------------------------------------------------------------
NewToolCall == [id |-> NoStr, name |-> NoStr, args |-> <<>>, started |-> FALSE]

NotSent == [stopReason |-> NoStr, outputTokens |-> 0]

Init ==
    /\ pc = "loop"
    /\ rest = <<>>
    /\ contentBlockIndex = -1
    /\ thinkingOpen = FALSE
    /\ textOpen = FALSE
    /\ textIndex = 0
    /\ toolCalls = [t \in ToolIdx |-> NewToolCall]
    /\ outputTokens = 0
    /\ stopReason = "end_turn"
    /\ abort = FALSE
    /\ content = <<>>
    /\ ending = "streaming"
    /\ final = NotSent
    /\ cancelled = FALSE
    /\ seen = <<>>

-----------------------------------------------------------------------------
(***************************************************************************)
(* The main loop: isDisconnected at its top, then the select.              *)
(***************************************************************************)
StillConnected ==
    /\ pc = "loop"
    /\ pc' = "select"
    /\ UNCHANGED <<blockVars, callVars, reportVars, endVars, seen>>

\* isDisconnected() at the top of the loop, or ctx.Done() in the select.
Disconnect ==
    /\ pc \in {"loop", "select"}
    /\ pc' = "returned"
    /\ cancelled' = TRUE
    /\ ending' = "cut"
    /\ UNCHANGED <<blockVars, callVars, reportVars, abort, final, seen>>

ReceiveLine(l) ==
    /\ pc = "select"
    /\ Len(seen) < MaxLines
    /\ seen' = Append(seen, l)
    /\ pc' = "line"
    /\ UNCHANGED <<blockVars, callVars, reportVars, endVars>>

\* items is closed: the upstream ended its body.
EndOfStream ==
    /\ pc = "select"
    /\ pc' = "after"
    /\ UNCHANGED <<blockVars, callVars, reportVars, endVars, seen>>

\* An item that carries the scanner's error.
ReadError ==
    /\ pc = "select"
    /\ stopReason' = "error"
    /\ pc' = "after"
    /\ UNCHANGED <<blockVars, callVars, outputTokens, endVars, seen>>

\* The idle timer: an error event, and no epilogue.
Stall ==
    /\ pc = "select"
    /\ cancelled' = TRUE
    /\ ending' = "failed"
    /\ pc' = "returned"
    /\ UNCHANGED <<blockVars, callVars, reportVars, abort, final, seen>>

-----------------------------------------------------------------------------
(***************************************************************************)
(* processLine, up to the delta.                                           *)
(***************************************************************************)
SkipLine ==
    /\ pc = "line"
    /\ line.kind = "other"
    /\ pc' = "loop"
    /\ UNCHANGED <<blockVars, callVars, reportVars, endVars, seen>>

Done ==
    /\ pc = "line"
    /\ line.kind = "done"
    /\ pc' = "after"
    /\ UNCHANGED <<blockVars, callVars, reportVars, endVars, seen>>

\* Faulty: the epilogue is not skipped.
ErrorFrameNoAbort ==
    /\ pc = "line"
    /\ line.kind = "error"
    /\ cancelled' = TRUE
    /\ ending' = "failed"
    /\ pc' = "after"
    /\ UNCHANGED <<blockVars, callVars, reportVars, abort, final, seen>>

ErrorFrame ==
    /\ pc = "line"
    /\ line.kind = "error"
    /\ cancelled' = TRUE
    /\ ending' = "failed"
    /\ abort' = TRUE
    /\ pc' = "after"
    /\ UNCHANGED <<blockVars, callVars, reportVars, final, seen>>

\* Usage counts even when the chunk has no delta; nothing else of it does.
Chunk ==
    /\ pc = "line"
    /\ line.kind = "chunk"
    /\ outputTokens' = IF line.usage = NoUsage THEN outputTokens ELSE line.usage
    /\ pc' = IF line.delta THEN "reasoning" ELSE "loop"
    /\ UNCHANGED <<blockVars, callVars, stopReason, endVars, seen>>

-----------------------------------------------------------------------------
(***************************************************************************)
(* processLine, the stages of a delta.                                     *)
(***************************************************************************)
ReasoningDelta == Delta("thinking_delta", NoCall, line.reasoning)

Reasoning ==
    /\ pc = "reasoning"
    /\ pc' = "text"
    /\ \/ /\ line.reasoning = <<>>
          /\ UNCHANGED blockVars
       \/ /\ line.reasoning # <<>>
          /\ thinkingOpen
          /\ content' = WriteDelta(content, contentBlockIndex, ReasoningDelta)
          /\ UNCHANGED <<contentBlockIndex, thinkingOpen, textOpen, textIndex>>
       \/ /\ line.reasoning # <<>>
          /\ ~thinkingOpen
          /\ SetOpen("thinking")
          /\ contentBlockIndex' = contentBlockIndex + 1
          /\ content' = WriteDelta(openBlock(content, Block("thinking", NoCall, NoStr, NoStr)),
                                   contentBlockIndex', ReasoningDelta)
          /\ UNCHANGED textIndex
    /\ UNCHANGED <<callVars, reportVars, endVars, seen>>

TextDelta == Delta("text_delta", NoCall, line.content)

Text ==
    /\ pc = "text"
    /\ pc' = "tools"
    /\ rest' = line.tools
    /\ \/ /\ line.content = <<>>
          /\ UNCHANGED blockVars
       \/ /\ line.content # <<>>
          /\ textOpen
          /\ content' = WriteDelta(content, textIndex, TextDelta)
          /\ UNCHANGED <<contentBlockIndex, thinkingOpen, textOpen, textIndex>>
       \/ /\ line.content # <<>>
          /\ ~textOpen
          /\ SetOpen("text")
          /\ contentBlockIndex' = contentBlockIndex + 1
          /\ textIndex' = contentBlockIndex'
          /\ content' = WriteDelta(openBlock(content, Block("text", NoCall, NoStr, NoStr)),
                                   textIndex', TextDelta)
    /\ UNCHANGED <<toolCalls, reportVars, endVars, seen>>

\* The index of an entry: 0 when the upstream leaves it out.
IndexOf(e) == IF e.index = NoIndex THEN 0 ELSE e.index

\* Faulty: arguments replace those still buffered.
AccumulateLast(s, e) ==
    [s EXCEPT !.id   = IF e.id = NoStr THEN @ ELSE e.id,
              !.name = IF e.name = NoStr THEN @ ELSE e.name,
              !.args = e.args]

\* What is known of the call after entry e.
Accumulate(s, e) ==
    [s EXCEPT !.id   = IF e.id = NoStr THEN @ ELSE e.id,
              !.name = IF e.name = NoStr THEN @ ELSE e.name,
              !.args = @ \o e.args]

\* Faulty: a call whose id and name are repeated starts again.
CanStartAgain(s) == s.id # NoStr /\ s.name # NoStr

CanStart(s) == ~s.started /\ s.id # NoStr /\ s.name # NoStr

\* Faulty: arguments go to the block of the last text.
FlushToText(c, i, t, s) ==
    IF s.args = <<>> THEN c
                     ELSE WriteDelta(c, textIndex, Delta("input_json_delta", t, s.args))

\* Emit the buffered arguments of call t into block i.
Flush(c, i, t, s) ==
    IF s.args = <<>> THEN c
                     ELSE WriteDelta(c, i, Delta("input_json_delta", t, s.args))

\* One element of delta.tool_calls.
ToolCall ==
    /\ pc = "tools"
    /\ rest # <<>>
    /\ rest' = Tail(rest)
    /\ LET t == IndexOf(Head(rest))
           s == Accumulate(toolCalls[t], Head(rest))
       IN \/ /\ CanStart(s)
             /\ SetOpen("tool_use")
             /\ contentBlockIndex' = contentBlockIndex + 1
             /\ content' = Flush(openBlock(content, Block("tool_use", t, s.id, s.name)),
                                 contentBlockIndex', t, s)
             /\ toolCalls' = [toolCalls EXCEPT ![t] = [s EXCEPT !.started = TRUE, !.args = <<>>]]
             /\ UNCHANGED textIndex
          \/ /\ s.started
             /\ content' = Flush(content, contentBlockIndex, t, s)
             /\ toolCalls' = [toolCalls EXCEPT ![t] = [s EXCEPT !.args = <<>>]]
             /\ UNCHANGED <<contentBlockIndex, thinkingOpen, textOpen, textIndex>>
          \/ /\ ~s.started
             /\ ~CanStart(s)
             /\ toolCalls' = [toolCalls EXCEPT ![t] = s]
             /\ UNCHANGED blockVars
    /\ UNCHANGED <<pc, reportVars, endVars, seen>>

\* Faulty: a chunk without finish_reason resets the stop reason.
FinishAlways ==
    /\ pc = "tools"
    /\ rest = <<>>
    /\ stopReason' = mapFinishReason(line.finish)
    /\ pc' = "loop"
    /\ UNCHANGED <<blockVars, callVars, outputTokens, endVars, seen>>

Finish ==
    /\ pc = "tools"
    /\ rest = <<>>
    /\ stopReason' = IF line.finish = NoStr THEN stopReason
                                            ELSE mapFinishReason(line.finish)
    /\ pc' = "loop"
    /\ UNCHANGED <<blockVars, callVars, outputTokens, endVars, seen>>

-----------------------------------------------------------------------------
(***************************************************************************)
(* After the loop.                                                         *)
(***************************************************************************)
ReturnOnAbort ==
    /\ pc = "after"
    /\ abort
    /\ pc' = "returned"
    /\ UNCHANGED <<blockVars, callVars, reportVars, endVars, seen>>

\* Faulty: the empty block is opened without counting it.
GuaranteeBlockUncounted ==
    /\ pc = "after"
    /\ ~abort
    /\ pc' = "epilogue"
    /\ content' = IF contentBlockIndex = -1
                  THEN openBlock(content, Block("text", NoCall, NoStr, NoStr)) ELSE content
    /\ UNCHANGED <<contentBlockIndex, thinkingOpen, textOpen, textIndex,
                   callVars, reportVars, endVars, seen>>

\* A message without content gets one empty text block.
GuaranteeBlock ==
    /\ pc = "after"
    /\ ~abort
    /\ pc' = "epilogue"
    /\ \/ /\ contentBlockIndex = -1
          /\ contentBlockIndex' = 0
          /\ content' = openBlock(content, Block("text", NoCall, NoStr, NoStr))
       \/ /\ contentBlockIndex # -1
          /\ UNCHANGED <<contentBlockIndex, content>>
    /\ UNCHANGED <<thinkingOpen, textOpen, textIndex, callVars, reportVars, endVars, seen>>

\* Close the last block; message_delta; message_stop.
Epilogue ==
    /\ pc = "epilogue"
    /\ content' = closeOpenBlock(content)
    /\ final' = [stopReason |-> stopReason, outputTokens |-> outputTokens]
    /\ ending' = "complete"
    /\ pc' = "returned"
    /\ UNCHANGED <<contentBlockIndex, thinkingOpen, textOpen, textIndex,
                   callVars, reportVars, abort, cancelled, seen>>

-----------------------------------------------------------------------------
ProcessLine == SkipLine \/ Done \/ ErrorFrame \/ Chunk \/ Reasoning \/ Text \/ ToolCall \/ Finish

\* What follows the loop.
AfterLoop == ReturnOnAbort \/ GuaranteeBlock \/ Epilogue

\* What the rest of the program decides: which line comes, or that none does.
FromOutside ==
    \/ \E l \in Lines : ReceiveLine(l)
    \/ EndOfStream \/ ReadError \/ Stall \/ Disconnect

\* The function has returned; nothing more happens.
Returned == pc = "returned" /\ UNCHANGED vars

Next == FromOutside \/ StillConnected \/ ProcessLine \/ AfterLoop \/ Returned

Spec == Init /\ [][Next]_vars

-----------------------------------------------------------------------------
(***************************************************************************)
(* Types.                                                                  *)
(***************************************************************************)
Stages == {"loop", "select", "line", "reasoning", "text", "tools",
           "after", "epilogue", "returned"}

DeltaType == [type : {"thinking_delta", "text_delta", "input_json_delta"},
              call : ToolIdx \cup {NoCall},
              data : Seq(Frags)]

BlockType == [type   : {"thinking", "text", "tool_use"},
              call   : ToolIdx \cup {NoCall},
              id     : CallIds \cup {NoStr},
              name   : ToolNames \cup {NoStr},
              deltas : Seq(DeltaType),
              stops  : Nat]

ToolCallType == [id      : CallIds \cup {NoStr},
                 name    : ToolNames \cup {NoStr},
                 args    : Seq(Frags),
                 started : BOOLEAN]

StopReasons == {"end_turn", "max_tokens", "tool_use", "error"}

\* The goroutine's variables and the assembled message stay in their types,
\* and the blocks on the wire are exactly 0..contentBlockIndex.
TypeOK ==
    /\ pc \in Stages
    /\ rest \in Seq(ToolEntry)
    /\ contentBlockIndex \in Nat \cup {-1}
    /\ thinkingOpen \in BOOLEAN
    /\ textOpen \in BOOLEAN
    /\ textIndex \in Nat
    /\ toolCalls \in [ToolIdx -> ToolCallType]
    /\ outputTokens \in Nat
    /\ stopReason \in StopReasons
    /\ abort \in BOOLEAN
    /\ content \in [0..contentBlockIndex -> BlockType]
    /\ ending \in {"streaming", "complete", "failed", "cut"}
    /\ final \in [stopReason : StopReasons \cup {NoStr}, outputTokens : Nat]
    /\ cancelled \in BOOLEAN
    /\ seen \in Seq(Lines)
    /\ pc \in {"line", "reasoning", "text", "tools"} => seen # <<>>

-----------------------------------------------------------------------------
(***************************************************************************)
(* Properties.                                                             *)
(***************************************************************************)

\* Every content_block_start is matched by exactly one content_block_stop:
\* all blocks but the last are closed, the last is open until the epilogue
\* closes it, and no complete message is without a block (closeOpenBlock,
\* openBlock and the guard at the start of the epilogue work together).
BlocksMatched ==
    /\ \A i \in 0..(contentBlockIndex - 1) : content[i].stops = 1
    /\ contentBlockIndex >= 0 =>
        content[contentBlockIndex].stops = (IF ending = "complete" THEN 1 ELSE 0)
    /\ ending = "complete" => contentBlockIndex >= 0

\* Thinking deltas go to thinking blocks and text deltas to text blocks,
\* however reasoning, text and tool calls alternate: thinkingOpen, textOpen
\* and textIndex never outlive the block they stand for.
DeltasInTheirBlock ==
    \A i \in DOMAIN content : \A k \in DOMAIN content[i].deltas :
        LET d == content[i].deltas[k] IN
            /\ d.type = "thinking_delta" => content[i].type = "thinking"
            /\ d.type = "text_delta" => content[i].type = "text"

\* The arguments of a tool call go to the block of that call, so that a
\* client that concatenates the input_json_delta fragments of a tool_use
\* block has the call's input.
ToolArgsInPlace ==
    \A i \in DOMAIN content : \A k \in DOMAIN content[i].deltas :
        LET d == content[i].deltas[k] IN
            d.type = "input_json_delta" =>
                /\ content[i].type = "tool_use"
                /\ content[i].call = d.call

\* The lines whose delta is processed.
HasDelta(l) == l.kind = "chunk" /\ l.delta

\* The calls a line's delta speaks of, in the order they are handled; NoCall
\* stands for reasoning and text.
Speakers(l) ==
    IF ~HasDelta(l) THEN <<>>
    ELSE (IF l.reasoning = <<>> /\ l.content = <<>> THEN <<>> ELSE <<NoCall>>)
         \o [k \in DOMAIN l.tools |-> IndexOf(l.tools[k])]

\* The upstream finishes what it says of one call before it says anything else.
OneCallAtATime ==
    LET said == FlattenSeq([k \in DOMAIN seen |-> Speakers(seen[k])]) IN
        \A i, j, k \in DOMAIN said :
            i < j /\ j < k /\ said[i] = said[k] /\ said[i] # NoCall => said[j] = said[i]

\* Arguments are in place for an upstream that streams its calls one after the
\* other.  For other upstreams they are not: see ToolArgsInPlace.
ToolArgsInPlaceInOrder == OneCallAtATime => ToolArgsInPlace

\* A tool call is announced to the client once, however many of its entries
\* repeat the id and the name.
OneBlockPerCall ==
    \A i, j \in DOMAIN content :
        content[i].type = "tool_use" /\ content[j].type = "tool_use"
            /\ content[i].call = content[j].call => i = j

\* The deltas the client has been sent, block by block.
AllDeltas == FlattenSeq([i \in 1..(contentBlockIndex + 1) |-> content[i - 1].deltas])

\* What the deltas of one kind carry, put together.
DataOf(deltas, type, call) ==
    FlattenSeq([k \in DOMAIN deltas |->
        IF deltas[k].type = type /\ deltas[k].call = call THEN deltas[k].data ELSE <<>>])

\* What the client has been sent of one kind.
Delivered(type, call) == DataOf(AllDeltas, type, call)

\* What entries of tool_calls say of the arguments of call t.
ArgsIn(t, entries) ==
    FlattenSeq([k \in DOMAIN entries |->
        IF IndexOf(entries[k]) = t THEN entries[k].args ELSE <<>>])

\* What a line says of them.
ArgsOf(t, l) == ArgsIn(t, l.tools)

\* What the upstream has sent, of the part of a line that Part picks.
SentBy(Part(_)) ==
    FlattenSeq([k \in DOMAIN seen |-> IF HasDelta(seen[k]) THEN Part(seen[k]) ELSE <<>>])

\* Between two lines nothing the upstream said is lost, duplicated or out of
\* order: thinking and text have been delivered, and so have the arguments of
\* every call, but for those buffered for a call still without id or name.
NothingLost ==
    pc \in {"loop", "select", "after", "epilogue", "returned"} =>
        /\ Delivered("thinking_delta", NoCall) = SentBy(LAMBDA l : l.reasoning)
        /\ Delivered("text_delta", NoCall) = SentBy(LAMBDA l : l.content)
        /\ \A t \in ToolIdx :
            /\ Delivered("input_json_delta", t) \o toolCalls[t].args
                  = SentBy(LAMBDA l : ArgsOf(t, l))
            /\ toolCalls[t].started => toolCalls[t].args = <<>>

\* The last value of a field that is not its "absent" value, or default.
LastGiven(values, absent, default) ==
    LET given == {k \in DOMAIN values : values[k] # absent} IN
        IF given = {} THEN default ELSE values[Max(given)]

\* The message_delta of a complete message reports the last usage the upstream
\* gave, with or without a delta beside it, and the last finish_reason it gave
\* with one, or that reading failed.
ReportFaithful ==
    ending = "complete" =>
        /\ final.outputTokens =
             LastGiven([k \in DOMAIN seen |-> IF seen[k].kind = "chunk" THEN seen[k].usage
                                                                      ELSE NoUsage],
                       NoUsage, 0)
        /\ \/ final.stopReason = "error"
           \/ final.stopReason = mapFinishReason(
                LastGiven([k \in DOMAIN seen |-> IF HasDelta(seen[k]) THEN seen[k].finish
                                                                     ELSE NoStr],
                          NoStr, "stop"))

\* Thinking comes ahead of any text or tool_use block.
ThinkingFirst ==
    \A i, j \in DOMAIN content :
        content[j].type = "thinking" /\ content[i].type # "thinking" => j < i

\* The message as a client sees it: every step of the converter is a step of
\* ClaudeMessage, or changes nothing the client sees.
Message == INSTANCE ClaudeMessage WITH
    content <- [i \in 1..(contentBlockIndex + 1) |-> content[i - 1]]

\* Closed blocks never change, one block is open at a time, a message ends
\* once and is silent afterwards.
KeepsMessagePromise == Message!Spec
=============================================================================
