----------------------- MODULE StreamConverterProofs -----------------------
(***************************************************************************)
(* Proofs about StreamConverter, for every alphabet of lines, capacity of  *)
(* the channel and length of stream.  What is proved of the main loop and  *)
(* of processLine for any line at any time carries over: the converter     *)
(* with its pump and its timer is one of the behaviours of StreamBlocks.   *)
(***************************************************************************)
EXTENDS StreamConverter, InductionLemmas

BlocksProofs == INSTANCE StreamBlocksProofs

-----------------------------------------------------------------------------
(***************************************************************************)
(* The main goroutine's actions mean the same in StreamBlocks and in the   *)
(* module of its proofs.                                                   *)
(***************************************************************************)
LEMMA SameOutside ==
    ASSUME Blocks!FromOutside \/ Blocks!StillConnected
    PROVE  BlocksProofs!FromOutside \/ BlocksProofs!StillConnected
<1>1. ASSUME NEW l \in Lines, Blocks!ReceiveLine(l)
      PROVE  BlocksProofs!ReceiveLine(l)
  BY <1>1 DEF Blocks!ReceiveLine, BlocksProofs!ReceiveLine, Blocks!blockVars,
      BlocksProofs!blockVars, Blocks!callVars, BlocksProofs!callVars, Blocks!reportVars,
      BlocksProofs!reportVars, Blocks!endVars, BlocksProofs!endVars
<1>2. Blocks!EndOfStream => BlocksProofs!EndOfStream
  BY DEF Blocks!EndOfStream, BlocksProofs!EndOfStream, Blocks!blockVars,
      BlocksProofs!blockVars, Blocks!callVars, BlocksProofs!callVars, Blocks!reportVars,
      BlocksProofs!reportVars, Blocks!endVars, BlocksProofs!endVars
<1>3. Blocks!ReadError => BlocksProofs!ReadError
  BY DEF Blocks!ReadError, BlocksProofs!ReadError, Blocks!blockVars,
      BlocksProofs!blockVars, Blocks!callVars, BlocksProofs!callVars, Blocks!reportVars,
      BlocksProofs!reportVars, Blocks!endVars, BlocksProofs!endVars
<1>4. Blocks!Stall => BlocksProofs!Stall
  BY DEF Blocks!Stall, BlocksProofs!Stall, Blocks!blockVars,
      BlocksProofs!blockVars, Blocks!callVars, BlocksProofs!callVars, Blocks!reportVars,
      BlocksProofs!reportVars, Blocks!endVars, BlocksProofs!endVars
<1>5. Blocks!Disconnect => BlocksProofs!Disconnect
  BY DEF Blocks!Disconnect, BlocksProofs!Disconnect, Blocks!blockVars,
      BlocksProofs!blockVars, Blocks!callVars, BlocksProofs!callVars, Blocks!reportVars,
      BlocksProofs!reportVars, Blocks!endVars, BlocksProofs!endVars
<1>6. Blocks!StillConnected => BlocksProofs!StillConnected
  BY DEF Blocks!StillConnected, BlocksProofs!StillConnected, Blocks!blockVars,
      BlocksProofs!blockVars, Blocks!callVars, BlocksProofs!callVars, Blocks!reportVars,
      BlocksProofs!reportVars, Blocks!endVars, BlocksProofs!endVars
<1> QED
  BY <1>1, <1>2, <1>3, <1>4, <1>5, <1>6 DEF Blocks!FromOutside, BlocksProofs!FromOutside

\* The steps on a line are the same in the two instances of StreamBlocks, the
\* converter's and the proofs'.
LEMMA SameWork ==
    ASSUME Blocks!ProcessLine \/ Blocks!AfterLoop
    PROVE  BlocksProofs!ProcessLine \/ BlocksProofs!AfterLoop
<1> USE DEF Blocks!blockVars, BlocksProofs!blockVars, Blocks!callVars, BlocksProofs!callVars,
            Blocks!reportVars, BlocksProofs!reportVars, Blocks!endVars, BlocksProofs!endVars,
            Blocks!line, BlocksProofs!line, Blocks!Last, BlocksProofs!Last
<1>1. Blocks!SkipLine => BlocksProofs!SkipLine
  BY DEF Blocks!SkipLine, BlocksProofs!SkipLine
<1>2. Blocks!Done => BlocksProofs!Done
  BY DEF Blocks!Done, BlocksProofs!Done
<1>3. Blocks!ErrorFrame => BlocksProofs!ErrorFrame
  BY DEF Blocks!ErrorFrame, BlocksProofs!ErrorFrame
<1>4. Blocks!Chunk => BlocksProofs!Chunk
  BY DEF Blocks!Chunk, BlocksProofs!Chunk, Blocks!NoUsage, BlocksProofs!NoUsage
<1> USE DEF Blocks!WriteStart, BlocksProofs!WriteStart, Blocks!WriteDelta,
            BlocksProofs!WriteDelta, Blocks!WriteStop, BlocksProofs!WriteStop,
            Blocks!closeOpenBlock, BlocksProofs!closeOpenBlock, Blocks!openBlock,
            BlocksProofs!openBlock, Blocks!SetOpen, BlocksProofs!SetOpen,
            Blocks!Block, BlocksProofs!Block, Blocks!Delta, BlocksProofs!Delta,
            Blocks!NoCall, BlocksProofs!NoCall, Blocks!NoStr, BlocksProofs!NoStr
<1>5. Blocks!Reasoning => BlocksProofs!Reasoning
  BY Zenon DEF Blocks!Reasoning, BlocksProofs!Reasoning, Blocks!ReasoningDelta,
      BlocksProofs!ReasoningDelta
<1>6. Blocks!Text => BlocksProofs!Text
  BY Zenon DEF Blocks!Text, BlocksProofs!Text, Blocks!TextDelta, BlocksProofs!TextDelta
<1>7. Blocks!ToolCall => BlocksProofs!ToolCall
  BY Zenon DEF Blocks!ToolCall, BlocksProofs!ToolCall, Blocks!IndexOf, BlocksProofs!IndexOf,
      Blocks!NoIndex, BlocksProofs!NoIndex, Blocks!Accumulate, BlocksProofs!Accumulate,
      Blocks!CanStart, BlocksProofs!CanStart, Blocks!Flush, BlocksProofs!Flush
<1>8. Blocks!Finish => BlocksProofs!Finish
  BY DEF Blocks!Finish, BlocksProofs!Finish, Blocks!mapFinishReason,
      BlocksProofs!mapFinishReason
<1>9. Blocks!ReturnOnAbort => BlocksProofs!ReturnOnAbort
  BY DEF Blocks!ReturnOnAbort, BlocksProofs!ReturnOnAbort
<1>10. Blocks!GuaranteeBlock => BlocksProofs!GuaranteeBlock
  BY Zenon DEF Blocks!GuaranteeBlock, BlocksProofs!GuaranteeBlock
<1>11. Blocks!Epilogue => BlocksProofs!Epilogue
  BY Zenon DEF Blocks!Epilogue, BlocksProofs!Epilogue
<1> QED
  BY <1>1, <1>2, <1>3, <1>4, <1>5, <1>6, <1>7, <1>8, <1>9, <1>10, <1>11
  DEF Blocks!ProcessLine, BlocksProofs!ProcessLine, Blocks!AfterLoop, BlocksProofs!AfterLoop

-----------------------------------------------------------------------------
(***************************************************************************)
(* The converter implements StreamBlocks.                                  *)
(***************************************************************************)
LEMMA InitIsBlocks ==
    ASSUME Init
    PROVE  BlocksProofs!Init
  BY DEF Init, Blocks!Init, BlocksProofs!Init, Blocks!NewToolCall, BlocksProofs!NewToolCall,
      Blocks!NotSent, BlocksProofs!NotSent, Blocks!NoStr, BlocksProofs!NoStr

\* Every step is one of the main loop or none.
LEMMA StepIsBlocks ==
    ASSUME [Next]_vars
    PROVE  [BlocksProofs!Next]_(BlocksProofs!vars)
<1> USE DEF Blocks!FromOutside
<1>1. CASE Main
  <2>1. CASE \E l \in Lines : ReceiveLine(l)
    <3>1. Blocks!FromOutside
      BY <2>1 DEF ReceiveLine
    <3> QED
      BY <3>1, SameOutside DEF BlocksProofs!Next
  <2>2. CASE ReceiveErr \/ ReceiveClosed \/ Stall \/ Disconnect \/ StillConnected
    <3>1. Blocks!FromOutside \/ Blocks!StillConnected
      BY <2>2 DEF ReceiveErr, ReceiveClosed, Stall, Disconnect, StillConnected
    <3> QED
      BY <3>1, SameOutside DEF BlocksProofs!Next
  <2>3. CASE Work
    BY <2>3, SameWork DEF Work, BlocksProofs!Next
  <2> QED
    BY <1>1, <2>1, <2>2, <2>3 DEF Main
<1>2. CASE PumpSend \/ Upstream \/ TimerFires \/ ClientGoes \/ HandlerReturns \/ Quiet
           \/ UNCHANGED vars
  <2>1. UNCHANGED blocksVars
    BY <1>2 DEF PumpSend, Upstream, TimerFires, ClientGoes, HandlerReturns, Quiet, vars
  <2> QED
    BY <2>1 DEF blocksVars, BlocksProofs!vars, BlocksProofs!blockVars, BlocksProofs!callVars,
        BlocksProofs!reportVars, BlocksProofs!endVars
<1> QED
  BY <1>1, <1>2 DEF Next

\* One streaming response, with its pump, timer, client and handler, behaves
\* as the main loop alone may: whatever is proved of StreamBlocks holds of it.
THEOREM ConverterIsBlocks == Spec => BlocksProofs!Spec
<1>1. Init => BlocksProofs!Init
  BY InitIsBlocks
<1>2. [Next]_vars => [BlocksProofs!Next]_(BlocksProofs!vars)
  BY StepIsBlocks
<1> QED
  BY <1>1, <1>2, PTL DEF Spec, BlocksProofs!Spec

-----------------------------------------------------------------------------
(***************************************************************************)
(* The inductive invariant.                                                *)
(***************************************************************************)
ItemType == {Pump!ErrItem} \cup {Pump!LineItem(l) : l \in Lines}

\* The types of the pump, the channel, the timer and the client.
ChannelTyped ==
    /\ pump \in {"scan", "send", "sendErr", "exited"}
    /\ items \in Seq(ItemType)
    /\ Len(items) <= Cap
    /\ itemsClosed \in BOOLEAN
    /\ readErr \in BOOLEAN
    /\ scanned \in Seq(Lines)
    /\ idleTimer \in {"armed", "fired"}
    /\ firedAt \in Nat
    /\ firedSilent \in BOOLEAN
    /\ ctxDone \in BOOLEAN
    /\ bodyClosed \in BOOLEAN

\* The pump holds a line only when it has scanned one; the channel is closed or
\* carries an error only once the pump has exited, the error last of all.
PumpInv ==
    /\ pump = "send" => scanned # <<>>
    /\ itemsClosed => pump = "exited" /\ ~readErr
    /\ readErr => pump \in {"sendErr", "exited"}
    /\ pump = "sendErr" => readErr
    /\ \A i \in 1..Len(items) :
        items[i].err => i = Len(items) /\ pump = "exited" /\ readErr

\* The main loop has not seen [DONE], a delta is a chunk's, and only the error
\* of a read, after which the loop ends, makes "error" of the stop reason.
ControlInv ==
    /\ pc \in {"loop", "select"} => ~SawDone
    /\ pc \in {"reasoning", "text", "tools"} => Last(seen).kind = "chunk"
    /\ stopReason = "error" => pc \in {"after", "epilogue", "returned"}
    /\ ending = "complete" => pc = "returned" /\ ~abort /\ final.stopReason = stopReason

\* Why a message that is not aborted is being completed: [DONE], or the end of
\* all there was to read, after which the pump is gone and nothing changes.
Completing == pc \in {"after", "epilogue"} \/ ending = "complete"

Outcome ==
    Completing /\ ~abort =>
        \/ SawDone /\ stopReason # "error"
        \/ /\ ~SawDone
           /\ seen = scanned
           /\ pump = "exited"
           /\ readErr <=> stopReason = "error"

TimerInv == idleTimer = "fired" => firedAt = Len(seen)

IInv ==
    /\ BlocksProofs!IInv
    /\ ChannelTyped
    /\ PumpInv
    /\ LinesInOrder
    /\ ControlInv
    /\ Outcome
    /\ TimerInv

-----------------------------------------------------------------------------
(***************************************************************************)
(* What is proved of the main loop alone.                                  *)
(***************************************************************************)
LEMMA BlocksKept ==
    ASSUME BlocksProofs!IInv, [Next]_vars
    PROVE  BlocksProofs!IInv'
<1>1. [BlocksProofs!Next]_(BlocksProofs!vars)
  BY StepIsBlocks
<1> QED
  BY <1>1, BlocksProofs!NextIInv, LinesAssumption, MaxLinesAssumption
  DEF BlocksProofs!ToolEntry, BlocksProofs!Line, BlocksProofs!NoStr, BlocksProofs!NoIndex,
      BlocksProofs!NoUsage, BlocksProofs!FinishReasons, ToolEntry, Line, NoStr, NoIndex,
      NoUsage, FinishReasons

\* Types mean the same in both modules.
LEMMA BlocksTyped ==
    ASSUME BlocksProofs!IInv
    PROVE  Blocks!TypeOK
  BY DEF BlocksProofs!IInv, BlocksProofs!TypeOK, Blocks!TypeOK, BlocksProofs!Stages,
      Blocks!Stages, BlocksProofs!ToolEntry, Blocks!ToolEntry, BlocksProofs!NoStr,
      Blocks!NoStr, BlocksProofs!NoIndex, Blocks!NoIndex, BlocksProofs!NoCall,
      Blocks!NoCall, BlocksProofs!ToolCallType, Blocks!ToolCallType,
      BlocksProofs!StopReasons, Blocks!StopReasons, BlocksProofs!BlockType,
      Blocks!BlockType, BlocksProofs!DeltaType, Blocks!DeltaType

\* What the block state machine knows of its control state.
LEMMA SeenTyped ==
    ASSUME BlocksProofs!IInv
    PROVE  /\ seen \in Seq(Lines)
           /\ pc \in {"line", "reasoning", "text", "tools"} => seen # <<>>
           /\ abort => pc \in {"after", "returned"} /\ ending = "failed"
           /\ ~abort => (ending = "streaming" <=> pc # "returned")
  BY DEF BlocksProofs!IInv, BlocksProofs!TypeOK, BlocksProofs!EndingMatchesStage

-----------------------------------------------------------------------------
(***************************************************************************)
(* The lines of the items.                                                 *)
(***************************************************************************)
lineOf == [item \in ItemType |-> item.line]

\* The lines of an item of the channel: one, or none for an error.
LEMMA LineOfType ==
    /\ lineOf \in [ItemType -> Seq(Lines)]
    /\ \A item \in ItemType : lineOf[item] = item.line
<1>1. ASSUME NEW l \in Lines
      PROVE  Pump!LineItem(l).line \in Seq(Lines)
  BY DEF Pump!LineItem
<1>2. Pump!ErrItem.line \in Seq(Lines)
  <2>1. <<>> \in Seq(Lines)
    OBVIOUS
  <2> QED
    BY <2>1 DEF Pump!ErrItem
<1>3. \A item \in ItemType : item.line \in Seq(Lines)
  BY <1>1, <1>2 DEF ItemType
<1> QED
  BY <1>3 DEF lineOf

\* The lines in the channel, as a flattened map on its items.
LEMMA LinesOfIsFlatMap ==
    ASSUME NEW s \in Seq(ItemType)
    PROVE  Pump!LinesOf(s) = FlatMap(lineOf, s)
<1>1. [k \in DOMAIN s |-> s[k].line] = Mapped(lineOf, s)
  BY LineOfType DEF Mapped
<1>2. Pump!FlattenSeq(Mapped(lineOf, s)) = FlattenSeq(Mapped(lineOf, s))
  BY DEF Pump!FlattenSeq, FlattenSeq
<1> QED
  BY <1>1, <1>2, Zenon DEF Pump!LinesOf, FlatMap

\* An empty buffer holds no line; an item put in adds its line at the end; the
\* one taken out had the first.
LEMMA LinesOfNone == Pump!LinesOf(<<>>) = <<>>
<1>1. <<>> \in Seq(ItemType)
  OBVIOUS
<1> QED
  BY <1>1, LinesOfIsFlatMap, FlatMapEmpty

\* They are lines.
LEMMA LinesOfType ==
    ASSUME NEW s \in Seq(ItemType)
    PROVE  Pump!LinesOf(s) \in Seq(Lines)
  BY LinesOfIsFlatMap, FlatMapType, LineOfType

\* An item put into the channel adds its line at the end.
LEMMA LinesOfAppend ==
    ASSUME NEW s \in Seq(ItemType), NEW item \in ItemType
    PROVE  Pump!LinesOf(Append(s, item)) = Pump!LinesOf(s) \o item.line
<1>1. Append(s, item) \in Seq(ItemType)
  OBVIOUS
<1>2. Pump!LinesOf(Append(s, item)) = FlatMap(lineOf, Append(s, item))
  BY <1>1, LinesOfIsFlatMap
<1>3. FlatMap(lineOf, Append(s, item)) = FlatMap(lineOf, s) \o lineOf[item]
  BY FlatMapAppend, LineOfType
<1> QED
  BY <1>2, <1>3, LinesOfIsFlatMap, LineOfType

\* The item taken out of the channel takes the first line along.
LEMMA LinesOfHead ==
    ASSUME NEW s \in Seq(ItemType), s # <<>>
    PROVE  Pump!LinesOf(s) = Head(s).line \o Pump!LinesOf(Tail(s))
<1>1. Tail(s) \in Seq(ItemType) /\ Head(s) \in ItemType
  OBVIOUS
<1>2. FlatMap(lineOf, s) = lineOf[Head(s)] \o FlatMap(lineOf, Tail(s))
  BY FlatMapHead, LineOfType
<1> QED
  BY <1>1, <1>2, LinesOfIsFlatMap, LineOfType

-----------------------------------------------------------------------------
(***************************************************************************)
(* The channel keeps its types.                                            *)
(***************************************************************************)
LEMMA ChannelKept ==
    ASSUME ChannelTyped, PumpInv, seen \in Seq(Lines), [Next]_vars
    PROVE  ChannelTyped'
<1> USE DEF ChannelTyped
<1>1. ASSUME NEW item, Pump!Take(item)
      PROVE  /\ items' \in Seq(ItemType)
             /\ Len(items') <= Cap
             /\ UNCHANGED <<pump, itemsClosed, readErr, scanned>>
  BY <1>1, CapAssumption DEF Pump!Take
<1>2. ASSUME NEW item \in ItemType, Len(items) < Cap, items' = Append(items, item)
      PROVE  items' \in Seq(ItemType) /\ Len(items') <= Cap
  BY <1>2, CapAssumption
<1>3. CASE \E l \in Lines : ReceiveLine(l)
  BY <1>1, <1>3 DEF ReceiveLine, envVars
<1>4. CASE ReceiveErr
  BY <1>1, <1>4 DEF ReceiveErr, envVars, timerVars
<1>5. CASE \/ ReceiveClosed \/ Stall \/ Disconnect \/ StillConnected \/ Work \/ Quiet
           \/ UNCHANGED vars
  BY <1>5 DEF ReceiveClosed, Stall, Disconnect, StillConnected, Work, Quiet, Pump!Drained,
      Pump!pumpVars, pumpVars, timerVars, envVars, vars
<1>6. CASE PumpSend
  <2>1. UNCHANGED <<timerVars, envVars>>
    BY <1>6 DEF PumpSend
  <2>2. CASE Pump!SendLine
    <3>1. Last(scanned) \in Lines
      BY <2>2 DEF Pump!SendLine, PumpInv, Last
    <3>2. Pump!LineItem(Last(scanned)) \in ItemType
      BY <3>1 DEF ItemType
    <3>3. items' = Append(items, Pump!LineItem(Last(scanned)))
      BY <2>2 DEF Pump!SendLine, Pump!Last, Last
    <3> QED
      BY <1>2, <2>1, <2>2, <3>2, <3>3 DEF Pump!SendLine, timerVars, envVars
  <2>3. CASE Pump!SendErr
    BY <1>2, <2>1, <2>3 DEF Pump!SendErr, ItemType, timerVars, envVars
  <2>4. CASE Pump!SendStopped
    BY <2>1, <2>4 DEF Pump!SendStopped, timerVars, envVars
  <2> QED
    BY <1>6, <2>2, <2>3, <2>4 DEF PumpSend
<1>7. CASE Upstream
  <2>1. UNCHANGED <<timerVars, envVars>>
    BY <1>7 DEF Upstream
  <2>2. CASE \E l \in Lines : Pump!Scan(l)
    BY <2>1, <2>2 DEF Pump!Scan, timerVars, envVars
  <2>3. CASE Pump!ScanEnd \/ Pump!ScanError
    BY <2>1, <2>3 DEF Pump!ScanEnd, Pump!ScanError, timerVars, envVars
  <2> QED
    BY <1>7, <2>2, <2>3 DEF Upstream
<1>8. CASE TimerFires
  BY <1>8 DEF TimerFires, pumpVars, envVars
<1>9. CASE ClientGoes \/ HandlerReturns
  BY <1>9 DEF ClientGoes, HandlerReturns, pumpVars, timerVars
<1> QED
  BY <1>3, <1>4, <1>5, <1>6, <1>7, <1>8, <1>9 DEF Next, Main

-----------------------------------------------------------------------------
(***************************************************************************)
(* The pump's own order of things is kept.                                 *)
(***************************************************************************)
LEMMA PumpKept ==
    ASSUME ChannelTyped, PumpInv, [Next]_vars
    PROVE  PumpInv'
<1> USE DEF ChannelTyped, PumpInv
<1>1. ASSUME NEW item, Pump!Take(item)
      PROVE  PumpInv'
  <2>1. /\ items' \in Seq(ItemType)
        /\ Len(items') = Len(items) - 1
        /\ \A i \in 1..Len(items') : items'[i] = items[i + 1]
    BY <1>1 DEF Pump!Take
  <2>2. UNCHANGED <<pump, itemsClosed, readErr, scanned>>
    BY <1>1 DEF Pump!Take
  <2>3. ASSUME NEW i \in 1..Len(items'), items'[i].err
        PROVE  i = Len(items') /\ pump = "exited" /\ readErr
    <3>1. i + 1 \in 1..Len(items) /\ items[i + 1].err
      BY <2>1, <2>3
    <3> QED
      BY <2>1, <3>1
  <2> QED
    BY <2>2, <2>3
<1>2. CASE \E l \in Lines : ReceiveLine(l)
  BY <1>1, <1>2 DEF ReceiveLine
<1>3. CASE ReceiveErr
  BY <1>1, <1>3 DEF ReceiveErr
<1>4. CASE \/ ReceiveClosed \/ Stall \/ Disconnect \/ StillConnected \/ Work \/ Quiet
           \/ TimerFires \/ ClientGoes \/ HandlerReturns \/ UNCHANGED vars
  <2>1. UNCHANGED pumpVars
    BY <1>4 DEF ReceiveClosed, Stall, Disconnect, StillConnected, Work, Quiet, TimerFires,
        ClientGoes, HandlerReturns, Pump!Drained, Pump!pumpVars, pumpVars, vars
  <2> QED
    BY <2>1 DEF pumpVars
<1>5. CASE PumpSend
  <2>1. CASE Pump!SendLine
    <3>1. items' = Append(items, Pump!LineItem(Pump!Last(scanned)))
      BY <2>1 DEF Pump!SendLine
    <3>2. /\ Len(items') = Len(items) + 1
          /\ \A i \in 1..Len(items) : items'[i] = items[i]
          /\ items'[Len(items) + 1] = Pump!LineItem(Pump!Last(scanned))
      BY <3>1
    <3>3. ~Pump!LineItem(Pump!Last(scanned)).err
      BY DEF Pump!LineItem
    <3> QED
      BY <2>1, <3>2, <3>3 DEF Pump!SendLine
  <2>2. CASE Pump!SendErr
    <3>1. /\ Len(items') = Len(items) + 1
          /\ \A i \in 1..Len(items) : items'[i] = items[i]
      BY <2>2 DEF Pump!SendErr
    <3> QED
      BY <2>2, <3>1 DEF Pump!SendErr
  <2>3. CASE Pump!SendStopped
    BY <2>3 DEF Pump!SendStopped
  <2> QED
    BY <1>5, <2>1, <2>2, <2>3 DEF PumpSend
<1>6. CASE Upstream
  <2>1. CASE \E l \in Lines : Pump!Scan(l)
    BY <2>1 DEF Pump!Scan
  <2>2. CASE Pump!ScanEnd \/ Pump!ScanError
    BY <2>2 DEF Pump!ScanEnd, Pump!ScanError
  <2> QED
    BY <1>6, <2>1, <2>2 DEF Upstream
<1> QED
  BY <1>2, <1>3, <1>4, <1>5, <1>6 DEF Next, Main

-----------------------------------------------------------------------------
(***************************************************************************)
(* Lines stay in order.                                                    *)
(***************************************************************************)

\* The first of the lines that wait is taken.
LEMMA FirstTaken ==
    ASSUME NEW A, NEW s \in Seq(A), NEW t \in Seq(A), NEW x \in A
    PROVE  s \o (<<x>> \o t) = Append(s, x) \o t
  OBVIOUS

\* The line that is held is put last.
LEMMA HeldPut ==
    ASSUME NEW A, NEW s \in Seq(A), NEW t \in Seq(A), NEW x \in A
    PROVE  (s \o t) \o <<x>> = (s \o (t \o <<x>>)) \o <<>>
  OBVIOUS

\* Joining nothing changes nothing.
LEMMA NothingMore ==
    ASSUME NEW A, NEW s \in Seq(A)
    PROVE  s \o <<>> = s
  OBVIOUS

\* A sequence without length is empty.
LEMMA NoLength == \A A : \A s \in Seq(A) : Len(s) = 0 => s = <<>>
  OBVIOUS

\* An element appended is one joined.
LEMMA OneMore ==
    ASSUME NEW A, NEW s \in Seq(A), NEW x \in A
    PROVE  Append(s \o <<>>, x) = s \o <<x>>
  OBVIOUS

\* The work on a line takes no other line.
LEMMA WorkTakesNone ==
    ASSUME Blocks!ProcessLine \/ Blocks!AfterLoop
    PROVE  seen' = seen
  BY DEF Blocks!ProcessLine, Blocks!AfterLoop, Blocks!SkipLine, Blocks!Done, Blocks!ErrorFrame,
      Blocks!Chunk, Blocks!Reasoning, Blocks!Text, Blocks!ToolCall, Blocks!Finish,
      Blocks!ReturnOnAbort, Blocks!GuaranteeBlock, Blocks!Epilogue

\* Every step keeps what was read, what waits in the channel and what is yet to
\* be read in the order in which it was sent.
LEMMA OrderKept ==
    ASSUME ChannelTyped, PumpInv, seen \in Seq(Lines), LinesInOrder, [Next]_vars
    PROVE  LinesInOrder'
<1> DEFINE waiting == Pump!LinesOf(items)
<1>0. /\ items \in Seq(ItemType)
      /\ items # <<>> => Tail(items) \in Seq(ItemType)
  BY DEF ChannelTyped
<1>1. waiting \in Seq(Lines) /\ seen \o waiting \in Seq(Lines)
  BY <1>0, LinesOfType
<1>2. ASSUME UNCHANGED pumpVars, UNCHANGED seen, pc' # "returned" => pc # "returned"
      PROVE  LinesInOrder'
  BY <1>2 DEF LinesInOrder, Pump!LinesOf, Pump!Held, pumpVars
<1>3. CASE \E l \in Lines : ReceiveLine(l)
  <2>1. PICK l \in Lines : Pump!Take(Pump!LineItem(l)) /\ Blocks!ReceiveLine(l)
    BY <1>3 DEF ReceiveLine
  <2>2. items # <<>> /\ Head(items) = Pump!LineItem(l) /\ items' = Tail(items)
        /\ pump' = pump /\ scanned' = scanned
    BY <2>1 DEF Pump!Take
  <2>3. pc = "select" /\ seen' = Append(seen, l)
    BY <2>1 DEF Blocks!ReceiveLine
  <2>4. Pump!LinesOf(items') \in Seq(Lines)
    BY <1>0, <2>2, LinesOfType
  <2>5. waiting = <<l>> \o Pump!LinesOf(items')
    <3>1. waiting = Head(items).line \o Pump!LinesOf(Tail(items))
      BY <1>0, <2>2, LinesOfHead, Zenon
    <3>2. Pump!LineItem(l).line = <<l>>
      BY DEF Pump!LineItem
    <3> QED
      BY <2>2, <3>1, <3>2, Zenon
  <2>6. seen \o waiting = seen' \o Pump!LinesOf(items')
    BY <2>3, <2>4, <2>5, FirstTaken
  <2>7. scanned = (seen \o waiting) \o Pump!Held
    BY <2>3 DEF LinesInOrder
  <2>8. Pump!Held' = Pump!Held
    BY <2>2 DEF Pump!Held
  <2> QED
    BY <2>2, <2>6, <2>7, <2>8 DEF LinesInOrder
<1>4. CASE ReceiveErr \/ ReceiveClosed \/ Stall \/ Disconnect
  <2>1. CASE ReceiveErr
    <3>1. pc = "select" /\ seen' = seen
      BY <2>1 DEF ReceiveErr, Blocks!ReadError
    <3>2. items # <<>> /\ Head(items) = Pump!ErrItem /\ items' = Tail(items)
          /\ pump' = pump /\ scanned' = scanned
      BY <2>1 DEF ReceiveErr, Pump!Take
    <3>3. Pump!LinesOf(items') \in Seq(Lines)
      BY <1>0, <3>2, LinesOfType
    <3>4. waiting = <<>> \o Pump!LinesOf(items')
      <4>1. waiting = Head(items).line \o Pump!LinesOf(Tail(items))
        BY <1>0, <3>2, LinesOfHead, Zenon
      <4>2. Pump!ErrItem.line = <<>>
        BY DEF Pump!ErrItem
      <4> QED
        BY <3>2, <4>1, <4>2, Zenon
    <3>5. waiting = Pump!LinesOf(items')
      BY <3>3, <3>4
    <3> QED
      BY <3>1, <3>2, <3>5 DEF LinesInOrder, Pump!Held
  <2>2. CASE ReceiveClosed
    <3>1. UNCHANGED pumpVars /\ pc = "select" /\ seen' = seen
      BY <2>2 DEF ReceiveClosed, Pump!Drained, Pump!pumpVars, pumpVars, Blocks!EndOfStream
    <3> QED
      BY <1>2, <3>1
  <2>3. CASE Stall \/ Disconnect
    BY <2>3 DEF Stall, Disconnect, Blocks!Stall, Blocks!Disconnect, LinesInOrder
  <2> QED
    BY <1>4, <2>1, <2>2, <2>3
<1>5. CASE StillConnected
  <2>1. UNCHANGED pumpVars /\ pc = "loop" /\ seen' = seen
    BY <1>5 DEF StillConnected, Blocks!StillConnected
  <2> QED
    BY <1>2, <2>1
<1>6. CASE Work
  <2>1. pc # "returned"
    BY <1>6 DEF Work, Blocks!ProcessLine, Blocks!AfterLoop, Blocks!SkipLine, Blocks!Done,
        Blocks!ErrorFrame, Blocks!Chunk, Blocks!Reasoning, Blocks!Text, Blocks!ToolCall,
        Blocks!Finish, Blocks!ReturnOnAbort, Blocks!GuaranteeBlock, Blocks!Epilogue
  <2> QED
    BY <1>2, <1>6, <2>1, WorkTakesNone DEF Work
<1>7. CASE TimerFires \/ ClientGoes \/ HandlerReturns \/ Quiet \/ UNCHANGED vars
  <2>1. UNCHANGED pumpVars /\ UNCHANGED blocksVars
    BY <1>7 DEF TimerFires, ClientGoes, HandlerReturns, Quiet, vars
  <2> QED
    BY <1>2, <2>1 DEF blocksVars
<1>8. CASE PumpSend
  <2>1. pc' = pc /\ seen' = seen
    BY <1>8 DEF PumpSend, blocksVars
  <2>2. CASE Pump!SendLine
    <3>1. pump = "send" /\ pump' = "scan" /\ scanned' = scanned
          /\ items' = Append(items, Pump!LineItem(Pump!Last(scanned)))
      BY <2>2 DEF Pump!SendLine
    <3>2. Pump!Last(scanned) \in Lines
      BY <3>1 DEF Pump!Last, PumpInv, ChannelTyped
    <3>3. Pump!LineItem(Pump!Last(scanned)) \in ItemType
          /\ Pump!LineItem(Pump!Last(scanned)).line = <<Pump!Last(scanned)>>
      BY <3>2 DEF ItemType, Pump!LineItem
    <3>4. Pump!LinesOf(items') = waiting \o <<Pump!Last(scanned)>>
      BY <3>1, <3>3, LinesOfAppend DEF ChannelTyped
    <3>5. Pump!Held = <<Pump!Last(scanned)>> /\ Pump!Held' = <<>>
      BY <3>1 DEF Pump!Held
    <3>6. (seen \o waiting) \o Pump!Held = (seen' \o Pump!LinesOf(items')) \o Pump!Held'
      BY <1>1, <2>1, <3>2, <3>4, <3>5, HeldPut
    <3> QED
      BY <2>1, <3>1, <3>6 DEF LinesInOrder
  <2>3. CASE Pump!SendErr
    <3>1. pump = "sendErr" /\ pump' = "exited" /\ scanned' = scanned
          /\ items' = Append(items, Pump!ErrItem)
      BY <2>3 DEF Pump!SendErr
    <3>2. Pump!LinesOf(items') = waiting \o <<>>
      <4>1. Pump!ErrItem \in ItemType
        BY DEF ItemType
      <4>2. Pump!LinesOf(items') = waiting \o Pump!ErrItem.line
        BY <1>0, <3>1, <4>1, LinesOfAppend, Zenon
      <4>3. Pump!ErrItem.line = <<>>
        BY DEF Pump!ErrItem
      <4> QED
        BY <4>2, <4>3, Zenon
    <3>3. Pump!LinesOf(items') = waiting
      BY <1>1, <3>2, NothingMore
    <3> QED
      BY <2>1, <3>1, <3>3 DEF LinesInOrder, Pump!Held
  <2>4. CASE stopChClosed
    BY <2>1, <2>4 DEF stopChClosed, LinesInOrder
  <2> QED
    BY <1>8, <2>2, <2>3, <2>4 DEF PumpSend
<1>9. CASE Upstream
  <2>1. pc' = pc /\ seen' = seen
    BY <1>9 DEF Upstream, blocksVars
  <2>2. CASE \E l \in Lines : Pump!Scan(l)
    <3>1. PICK l \in Lines : pump = "scan" /\ pump' = "send" /\ items' = items
                             /\ scanned' = Append(scanned, l)
      BY <2>2 DEF Pump!Scan
    <3>2. Pump!Held = <<>>
      BY <3>1 DEF Pump!Held
    <3>3. Pump!Held' = <<l>>
      BY <3>1 DEF Pump!Held, Pump!Last, ChannelTyped
    <3>4. Append((seen \o waiting) \o <<>>, l) = (seen \o waiting) \o <<l>>
      BY <1>1, OneMore
    <3> QED
      BY <2>1, <3>1, <3>2, <3>3, <3>4 DEF LinesInOrder, Pump!LinesOf
  <2>3. CASE Pump!ScanEnd \/ Pump!ScanError
    <3>1. pump = "scan" /\ pump' # "send" /\ items' = items /\ scanned' = scanned
      BY <2>3 DEF Pump!ScanEnd, Pump!ScanError
    <3> QED
      BY <2>1, <3>1 DEF LinesInOrder, Pump!LinesOf, Pump!Held
  <2> QED
    BY <1>9, <2>2, <2>3 DEF Upstream
<1> QED
  BY <1>3, <1>4, <1>5, <1>6, <1>7, <1>8, <1>9 DEF Next, Main

-----------------------------------------------------------------------------
(***************************************************************************)
(* Why the loop ends, and what was read by then.                           *)
(***************************************************************************)

\* Steps that leave the main goroutine alone, and all that it has read once
\* the pump is gone.
LEMMA OthersKeepOutcome ==
    ASSUME ControlInv, Outcome, UNCHANGED blocksVars,
           pump = "exited" => UNCHANGED <<pump, scanned, readErr>>
    PROVE  ControlInv' /\ Outcome'
<1>1. ControlInv'
  BY DEF ControlInv, SawDone, Last, blocksVars
<1>2. Outcome'
  BY DEF Outcome, Completing, SawDone, Last, blocksVars
<1> QED
  BY <1>1, <1>2

\* Processing a line.
LEMMA LineOutcome ==
    ASSUME ControlInv, Outcome, Blocks!ProcessLine, UNCHANGED pumpVars,
           pc \in {"line", "reasoning", "text", "tools"} => seen # <<>>
    PROVE  ControlInv' /\ Outcome'
<1> USE DEF ControlInv, Outcome, Completing, SawDone, Last, Blocks!line, Blocks!Last, pumpVars
<1>1. CASE Blocks!SkipLine
  BY <1>1 DEF Blocks!SkipLine, Blocks!reportVars, Blocks!endVars
<1>2. CASE Blocks!Done
  BY <1>2 DEF Blocks!Done, Blocks!reportVars, Blocks!endVars
<1>3. CASE Blocks!ErrorFrame
  BY <1>3 DEF Blocks!ErrorFrame, Blocks!reportVars
<1>4. CASE Blocks!Chunk
  BY <1>4 DEF Blocks!Chunk, Blocks!endVars
<1>5. CASE Blocks!Reasoning
  <2>1. /\ pc = "reasoning" /\ pc' = "text" /\ seen' = seen
        /\ UNCHANGED <<stopReason, ending, abort, final>>
    BY <1>5 DEF Blocks!Reasoning, Blocks!reportVars, Blocks!endVars
  <2> QED
    BY <2>1
<1>6. CASE Blocks!Text
  <2>1. /\ pc = "text" /\ pc' = "tools" /\ seen' = seen
        /\ UNCHANGED <<stopReason, ending, abort, final>>
    BY <1>6 DEF Blocks!Text, Blocks!reportVars, Blocks!endVars
  <2> QED
    BY <2>1
<1>7. CASE Blocks!ToolCall
  <2>1. /\ pc = "tools" /\ pc' = "tools" /\ seen' = seen
        /\ UNCHANGED <<stopReason, ending, abort, final>>
    BY <1>7 DEF Blocks!ToolCall, Blocks!reportVars, Blocks!endVars
  <2> QED
    BY <2>1
<1>8. CASE Blocks!Finish
  <2>1. /\ pc = "tools" /\ pc' = "loop" /\ seen' = seen
        /\ UNCHANGED <<ending, abort, final>>
    BY <1>8 DEF Blocks!Finish, Blocks!endVars
  <2>2. stopReason' # "error"
    BY <1>8 DEF Blocks!Finish, Blocks!mapFinishReason
  <2> QED
    BY <2>1, <2>2
<1> QED
  BY <1>1, <1>2, <1>3, <1>4, <1>5, <1>6, <1>7, <1>8 DEF Blocks!ProcessLine

\* What follows the loop changes neither what was read nor why it ended.
LEMMA EpilogueOutcome ==
    ASSUME ControlInv, Outcome, Blocks!AfterLoop, UNCHANGED pumpVars,
           abort => pc \in {"after", "returned"}
    PROVE  ControlInv' /\ Outcome'
<1> USE DEF ControlInv, Outcome, Completing, SawDone, Last, pumpVars
<1>1. CASE Blocks!ReturnOnAbort
  BY <1>1 DEF Blocks!ReturnOnAbort, Blocks!reportVars, Blocks!endVars
<1>2. CASE Blocks!GuaranteeBlock
  <2>1. /\ pc = "after" /\ pc' = "epilogue" /\ seen' = seen
        /\ UNCHANGED <<stopReason, ending, abort, final>>
    BY <1>2 DEF Blocks!GuaranteeBlock, Blocks!reportVars, Blocks!endVars
  <2> QED
    BY <2>1
<1>3. CASE Blocks!Epilogue
  <2>1. /\ pc = "epilogue" /\ pc' = "returned" /\ seen' = seen
        /\ UNCHANGED <<stopReason, abort>>
    BY <1>3 DEF Blocks!Epilogue, Blocks!reportVars
  <2>2. final'.stopReason = stopReason
    BY <1>3 DEF Blocks!Epilogue
  <2>3. ~abort
    BY <1>3, <2>1
  <2> QED
    BY <2>1, <2>2, <2>3
<1> QED
  BY <1>1, <1>2, <1>3 DEF Blocks!AfterLoop

\* The loop's select.
LEMMA SelectOutcome ==
    ASSUME ChannelTyped, PumpInv, seen \in Seq(Lines), LinesInOrder, ControlInv, Outcome,
           abort => ending = "failed", ~abort => (ending = "streaming" <=> pc # "returned"),
           \/ \E l \in Lines : ReceiveLine(l)
           \/ ReceiveErr \/ ReceiveClosed \/ Stall \/ Disconnect \/ StillConnected
    PROVE  ControlInv' /\ Outcome'
<1> USE DEF ControlInv, Outcome, Completing, SawDone, Last
<1>1. CASE \E l \in Lines : ReceiveLine(l)
  <2>1. PICK l \in Lines : Blocks!ReceiveLine(l)
    BY <1>1 DEF ReceiveLine
  <2> QED
    BY <2>1 DEF Blocks!ReceiveLine, Blocks!reportVars, Blocks!endVars
<1>2. CASE ReceiveErr
  <2>1. /\ pc = "select" /\ pc' = "after" /\ stopReason' = "error" /\ seen' = seen
        /\ UNCHANGED <<ending, abort, final>>
    BY <1>2 DEF ReceiveErr, Blocks!ReadError, Blocks!endVars
  <2>2. items # <<>> /\ Head(items) = Pump!ErrItem
        /\ UNCHANGED <<pump, readErr, scanned>>
    BY <1>2 DEF ReceiveErr, Pump!Take
  <2>3. 1 \in 1..Len(items) /\ items[1].err
    BY <2>2 DEF ChannelTyped, Pump!ErrItem
  <2>4. Len(items) = 1 /\ pump = "exited" /\ readErr
    BY <2>3 DEF PumpInv
  <2>5. Pump!LinesOf(items) = <<>>
    <3>0. items \in Seq(ItemType)
      BY DEF ChannelTyped
    <3>1. Tail(items) = <<>>
      <4>1. Len(Tail(items)) = 0
        BY <2>2, <2>4, <3>0
      <4>2. Tail(items) \in Seq(ItemType)
        BY <2>2, <3>0
      <4> QED
        BY <4>1, <4>2, NoLength
    <3>2. Pump!LinesOf(items) = Head(items).line \o Pump!LinesOf(Tail(items))
      BY <2>2, <3>0, LinesOfHead, Zenon
    <3>3. Pump!ErrItem.line = <<>>
      BY DEF Pump!ErrItem
    <3>4. Pump!LinesOf(items) = <<>> \o <<>>
      BY <2>2, <3>1, <3>2, <3>3, LinesOfNone, Zenon
    <3> QED
      BY <3>4
  <2>6. seen = scanned
    BY <2>1, <2>4, <2>5 DEF LinesInOrder, Pump!Held
  <2> QED
    BY <2>1, <2>2, <2>4, <2>6
<1>3. CASE ReceiveClosed
  <2>1. /\ pc = "select" /\ pc' = "after" /\ seen' = seen
        /\ UNCHANGED <<stopReason, ending, abort, final>>
    BY <1>3 DEF ReceiveClosed, Blocks!EndOfStream, Blocks!reportVars, Blocks!endVars
  <2>2. items = <<>> /\ itemsClosed /\ UNCHANGED <<pump, readErr, scanned>>
    BY <1>3 DEF ReceiveClosed, Pump!Drained, Pump!pumpVars
  <2>3. pump = "exited" /\ ~readErr
    BY <2>2 DEF PumpInv
  <2>4. seen = scanned
    BY <2>1, <2>2, <2>3, LinesOfNone DEF LinesInOrder, Pump!Held
  <2> QED
    BY <2>1, <2>2, <2>3, <2>4
<1>4. CASE Stall \/ Disconnect
  BY <1>4 DEF Stall, Disconnect, Blocks!Stall, Blocks!Disconnect, Blocks!reportVars
<1>5. CASE StillConnected
  BY <1>5 DEF StillConnected, Blocks!StillConnected, Blocks!reportVars, Blocks!endVars
<1> QED
  BY <1>1, <1>2, <1>3, <1>4, <1>5

-----------------------------------------------------------------------------
(***************************************************************************)
(* Invariance.                                                             *)
(***************************************************************************)

\* No line is taken after the timer fires but it sets the timer again.
LEMMA TimerKept ==
    ASSUME TimerInv, [Next]_vars
    PROVE  TimerInv'
<1> USE DEF TimerInv
<1>1. CASE \E l \in Lines : ReceiveLine(l)
  BY <1>1 DEF ReceiveLine
<1>2. CASE ReceiveErr \/ ReceiveClosed \/ Stall \/ Disconnect \/ StillConnected
  <2>1. seen' = seen
    BY <1>2 DEF ReceiveErr, ReceiveClosed, Stall, Disconnect, StillConnected,
        Blocks!ReadError, Blocks!EndOfStream, Blocks!Stall, Blocks!Disconnect,
        Blocks!StillConnected
  <2>2. UNCHANGED timerVars
    BY <1>2 DEF ReceiveErr, ReceiveClosed, Stall, Disconnect, StillConnected
  <2> QED
    BY <2>1, <2>2 DEF timerVars
<1>3. CASE Work
  BY <1>3, WorkTakesNone DEF Work, timerVars
<1>4. CASE TimerFires
  BY <1>4 DEF TimerFires, blocksVars
<1>5. CASE PumpSend \/ Upstream \/ ClientGoes \/ HandlerReturns \/ Quiet \/ UNCHANGED vars
  BY <1>5 DEF PumpSend, Upstream, ClientGoes, HandlerReturns, Quiet, vars, timerVars, blocksVars
<1> QED
  BY <1>1, <1>2, <1>3, <1>4, <1>5 DEF Next, Main

\* Every step keeps the reason for which a message is being completed: [DONE], or
\* the end of all there was to read.
LEMMA OutcomeKept ==
    ASSUME BlocksProofs!IInv, ChannelTyped, PumpInv, LinesInOrder, ControlInv, Outcome,
           [Next]_vars
    PROVE  ControlInv' /\ Outcome'
<1>1. /\ seen \in Seq(Lines)
      /\ pc \in {"line", "reasoning", "text", "tools"} => seen # <<>>
      /\ abort => pc \in {"after", "returned"} /\ ending = "failed"
      /\ ~abort => (ending = "streaming" <=> pc # "returned")
  BY SeenTyped
<1>2. CASE \/ \E l \in Lines : ReceiveLine(l)
           \/ ReceiveErr \/ ReceiveClosed \/ Stall \/ Disconnect \/ StillConnected
  BY <1>1, <1>2, SelectOutcome
<1>3. CASE Work
  BY <1>1, <1>3, LineOutcome, EpilogueOutcome DEF Work
<1>4. CASE PumpSend
  <2>1. UNCHANGED blocksVars
    BY <1>4 DEF PumpSend
  <2>2. pump # "exited"
    BY <1>4 DEF PumpSend, Pump!SendLine, Pump!SendErr, Pump!SendStopped
  <2> QED
    BY <2>1, <2>2, OthersKeepOutcome
<1>5. CASE Upstream
  <2>1. UNCHANGED blocksVars
    BY <1>5 DEF Upstream
  <2>2. pump # "exited"
    BY <1>5 DEF Upstream, Pump!Scan, Pump!ScanEnd, Pump!ScanError
  <2> QED
    BY <2>1, <2>2, OthersKeepOutcome
<1>6. CASE TimerFires \/ ClientGoes \/ HandlerReturns \/ Quiet \/ UNCHANGED vars
  <2>1. UNCHANGED blocksVars /\ UNCHANGED pumpVars
    BY <1>6 DEF TimerFires, ClientGoes, HandlerReturns, Quiet, vars
  <2> QED
    BY <2>1, OthersKeepOutcome DEF pumpVars
<1> QED
  BY <1>2, <1>3, <1>4, <1>5, <1>6 DEF Next, Main

\* The invariant holds before the first line.
LEMMA InitIInv ==
    ASSUME Init
    PROVE  IInv
<1> USE DEF Init, Blocks!Init, Pump!PumpInit
<1>1. BlocksProofs!IInv
  BY InitIsBlocks, BlocksProofs!InitIInv, LinesAssumption, MaxLinesAssumption
  DEF BlocksProofs!ToolEntry, BlocksProofs!Line, BlocksProofs!NoStr, BlocksProofs!NoIndex,
      BlocksProofs!NoUsage, BlocksProofs!FinishReasons, ToolEntry, Line, NoStr, NoIndex,
      NoUsage, FinishReasons
<1>2. ChannelTyped
  <2>1. items \in Seq(ItemType) /\ scanned \in Seq(Lines)
    OBVIOUS
  <2>2. Len(items) = 0
    OBVIOUS
  <2>3. Len(items) <= Cap
    BY <2>2, CapAssumption
  <2>4. /\ pump \in {"scan", "send", "sendErr", "exited"}
        /\ itemsClosed \in BOOLEAN /\ readErr \in BOOLEAN /\ firedSilent \in BOOLEAN
        /\ ctxDone \in BOOLEAN /\ bodyClosed \in BOOLEAN
        /\ idleTimer \in {"armed", "fired"} /\ firedAt \in Nat
    OBVIOUS
  <2> QED
    BY <2>1, <2>3, <2>4 DEF ChannelTyped
<1>3. PumpInv
  BY DEF PumpInv
<1>4. LinesInOrder
  BY LinesOfNone DEF LinesInOrder, Pump!Held
<1>5. ControlInv /\ Outcome /\ TimerInv
  BY DEF ControlInv, SawDone, Outcome, Completing, TimerInv
<1> QED
  BY <1>1, <1>2, <1>3, <1>4, <1>5 DEF IInv

\* Every step of the pump, the loop or the timer keeps the invariant.
LEMMA NextIInv ==
    ASSUME IInv, [Next]_vars
    PROVE  IInv'
<1>1. BlocksProofs!IInv'
  BY BlocksKept DEF IInv
<1>2. seen \in Seq(Lines)
  BY SeenTyped DEF IInv
<1>3. ChannelTyped' /\ PumpInv'
  BY <1>2, ChannelKept, PumpKept DEF IInv
<1>4. LinesInOrder'
  BY <1>2, OrderKept DEF IInv
<1>5. ControlInv' /\ Outcome'
  BY OutcomeKept DEF IInv
<1>6. TimerInv'
  BY TimerKept DEF IInv
<1> QED
  BY <1>1, <1>3, <1>4, <1>5, <1>6 DEF IInv

\* The inductive invariant is an invariant of the converter.
THEOREM Invariance == Spec => []IInv
<1>1. Init => IInv
  BY InitIInv
<1>2. IInv /\ [Next]_vars => IInv'
  BY NextIInv
<1> QED
  BY <1>1, <1>2, PTL DEF Spec

-----------------------------------------------------------------------------
(***************************************************************************)
(* The theorems.                                                           *)
(***************************************************************************)

\* Types: the channel never holds more than its capacity, and the state of the
\* goroutines, the timer and the message stays in its types.
THEOREM TypeCorrect == Spec => []TypeOK
<1>1. IInv => TypeOK
  BY BlocksTyped DEF IInv, ChannelTyped, ItemType, TypeOK
<1> QED
  BY <1>1, Invariance, PTL

\* The channel between pump and main loop loses, repeats and reorders nothing:
\* while the loop runs, what was scanned is what was processed, what is
\* buffered and what the pump holds.
THEOREM LinesAlwaysInOrder == Spec => []LinesInOrder
<1>1. IInv => LinesInOrder
  BY DEF IInv
<1> QED
  BY <1>1, Invariance, PTL

\* A message is completed only on [DONE] or after the last line that was
\* scanned: neither the end of the body nor its error overtakes a line.
THEOREM CompleteOnlyWhenAllRead == Spec => []CompleteMeansAllRead
<1>1. IInv => CompleteMeansAllRead
  BY DEF IInv, Outcome, Completing, ControlInv, CompleteMeansAllRead
<1> QED
  BY <1>1, Invariance, PTL

\* A complete message says "error" exactly when reading failed before [DONE].
THEOREM BrokenReadAlwaysReported == Spec => []BrokenReadReported
<1>1. IInv => BrokenReadReported
  BY DEF IInv, Outcome, Completing, ControlInv, BrokenReadReported
<1> QED
  BY <1>1, Invariance, PTL

\* A stall is declared only if no line was taken since the timer last fired.
THEOREM ProgressAlwaysResetsTimer == Spec => ProgressResetsTimer
<1>1. IInv => [Stall => firedAt = Len(seen)]_vars
  BY DEF IInv, TimerInv, Stall
<1> QED
  BY <1>1, Invariance, PTL DEF ProgressResetsTimer

-----------------------------------------------------------------------------
(***************************************************************************)
(* From the upstream's body to the client's message.                       *)
(***************************************************************************)

\* What the lines of the body say in the part that Part picks.
InBody(Part(_)) ==
    FlattenSeq([k \in DOMAIN scanned |->
        IF BlocksProofs!HasDelta(scanned[k]) THEN Part(scanned[k]) ELSE <<>>])

\* A message that is complete without [DONE] has the thinking and the text of
\* every line of the body, in the body's order.
WholeBodyDelivered ==
    ending = "complete" /\ ~SawDone =>
        /\ BlocksProofs!Delivered("thinking_delta", BlocksProofs!NoCall)
              = InBody(LAMBDA l : l.reasoning)
        /\ BlocksProofs!Delivered("text_delta", BlocksProofs!NoCall)
              = InBody(LAMBDA l : l.content)

\* Pump, channel and main loop together deliver the whole body: nothing the
\* upstream sent before its body ended is missing from a complete message.
THEOREM WholeBodyAlwaysDelivered == Spec => []WholeBodyDelivered
<1>1. BlocksProofs!Spec => []BlocksProofs!NothingLost
  BY BlocksProofs!NothingEverLost, LinesAssumption, MaxLinesAssumption
  DEF BlocksProofs!ToolEntry, BlocksProofs!Line, BlocksProofs!NoStr, BlocksProofs!NoIndex,
      BlocksProofs!NoUsage, BlocksProofs!FinishReasons, ToolEntry, Line, NoStr, NoIndex,
      NoUsage, FinishReasons
<1>2. IInv /\ BlocksProofs!NothingLost => WholeBodyDelivered
  <2> SUFFICES ASSUME IInv, BlocksProofs!NothingLost, ending = "complete", ~SawDone
               PROVE  /\ BlocksProofs!Delivered("thinking_delta", BlocksProofs!NoCall)
                            = InBody(LAMBDA l : l.reasoning)
                      /\ BlocksProofs!Delivered("text_delta", BlocksProofs!NoCall)
                            = InBody(LAMBDA l : l.content)
    BY DEF WholeBodyDelivered
  <2>1. pc = "returned" /\ seen = scanned
    BY DEF IInv, Outcome, Completing, ControlInv
  <2>2. \A s : BlocksProofs!FlattenSeq(s) = FlattenSeq(s)
    BY DEF BlocksProofs!FlattenSeq, FlattenSeq
  <2>3. /\ BlocksProofs!Delivered("thinking_delta", BlocksProofs!NoCall)
             = BlocksProofs!SentBy(LAMBDA l : l.reasoning)
        /\ BlocksProofs!Delivered("text_delta", BlocksProofs!NoCall)
             = BlocksProofs!SentBy(LAMBDA l : l.content)
    BY <2>1 DEF BlocksProofs!NothingLost
  <2>4. BlocksProofs!SentBy(LAMBDA l : l.reasoning) = InBody(LAMBDA l : l.reasoning)
    BY <2>1, <2>2, Zenon DEF BlocksProofs!SentBy, InBody
  <2>5. BlocksProofs!SentBy(LAMBDA l : l.content) = InBody(LAMBDA l : l.content)
    BY <2>1, <2>2, Zenon DEF BlocksProofs!SentBy, InBody
  <2> QED
    BY <2>3, <2>4, <2>5
<1> QED
  BY <1>1, <1>2, ConverterIsBlocks, Invariance, PTL
=============================================================================
