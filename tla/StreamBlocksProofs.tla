------------------------- MODULE StreamBlocksProofs -------------------------
(***************************************************************************)
(* Proofs about StreamBlocks, for every alphabet of lines, every number of *)
(* tool calls and any length of stream: the message that the client        *)
(* assembles and that it implements ClaudeMessage; that everything the     *)
(* upstream said is delivered; the report at the end; and the place of     *)
(* tool arguments.                                                         *)
(***************************************************************************)
EXTENDS StreamBlocks, InductionLemmas

-----------------------------------------------------------------------------
(***************************************************************************)
(* The inductive invariant.                                                *)
(***************************************************************************)

\* A message has ended exactly when the goroutine has returned, but for an
\* error frame, whose abort is noticed after the loop.
EndingMatchesStage ==
    /\ abort => pc \in {"after", "returned"} /\ ending = "failed"
    /\ ~abort => (ending = "streaming" <=> pc # "returned")
    /\ pc = "epilogue" => contentBlockIndex >= 0

\* All blocks but the last are closed, the last until the message is complete.
StopsMatched ==
    /\ \A i \in 0..(contentBlockIndex - 1) : content[i].stops = 1
    /\ contentBlockIndex >= 0 =>
        content[contentBlockIndex].stops = (IF ending = "complete" THEN 1 ELSE 0)
    /\ ending = "complete" => contentBlockIndex >= 0

\* thinkingOpen and textOpen speak of the last block, and textIndex is its
\* index while textOpen holds.
FlagsMatchBlock ==
    /\ thinkingOpen =>
        /\ contentBlockIndex >= 0
        /\ content[contentBlockIndex].type = "thinking"
    /\ textOpen =>
        /\ contentBlockIndex >= 0
        /\ textIndex = contentBlockIndex
        /\ content[contentBlockIndex].type = "text"

\* A tool_use block belongs to a call that has started, and to one only.
StartedMatchesBlock ==
    /\ \A t \in ToolIdx : toolCalls[t].started => contentBlockIndex >= 0
    /\ \A i \in 0..contentBlockIndex :
        content[i].type = "tool_use" =>
            /\ content[i].call \in ToolIdx
            /\ toolCalls[content[i].call].started

IInv ==
    /\ TypeOK
    /\ EndingMatchesStage
    /\ StopsMatched
    /\ FlagsMatchBlock
    /\ StartedMatchesBlock
    /\ DeltasInTheirBlock
    /\ OneBlockPerCall

-----------------------------------------------------------------------------
(***************************************************************************)
(* What the events do to the client's message.                             *)
(***************************************************************************)

\* A content_block_delta adds to one block and leaves the others alone.
LEMMA DeltaWritten ==
    ASSUME NEW n \in Nat, NEW c \in [0..n -> BlockType], NEW i \in 0..n,
           NEW d \in DeltaType
    PROVE  /\ WriteDelta(c, i, d) \in [0..n -> BlockType]
           /\ \A j \in 0..n : j # i => WriteDelta(c, i, d)[j] = c[j]
           /\ WriteDelta(c, i, d)[i] = [c[i] EXCEPT !.deltas = Append(c[i].deltas, d)]
<1>1. c[i] \in BlockType
  OBVIOUS
<1>2. Append(c[i].deltas, d) \in Seq(DeltaType)
  BY <1>1 DEF BlockType
<1>3. [c[i] EXCEPT !.deltas = Append(c[i].deltas, d)] \in BlockType
  BY <1>1, <1>2 DEF BlockType
<1>4. WriteDelta(c, i, d) = [c EXCEPT ![i] = [c[i] EXCEPT !.deltas = Append(c[i].deltas, d)]]
  BY DEF WriteDelta
<1> QED
  BY <1>3, <1>4

\* A content_block_stop is counted in one block and leaves the others alone.
LEMMA StopWritten ==
    ASSUME NEW n \in Nat, NEW c \in [0..n -> BlockType], NEW i \in 0..n
    PROVE  /\ WriteStop(c, i) \in [0..n -> BlockType]
           /\ \A j \in 0..n : j # i => WriteStop(c, i)[j] = c[j]
           /\ WriteStop(c, i)[i] = [c[i] EXCEPT !.stops = c[i].stops + 1]
<1>1. c[i] \in BlockType
  OBVIOUS
<1>2. [c[i] EXCEPT !.stops = c[i].stops + 1] \in BlockType
  <2>1. c[i].stops + 1 \in Nat
    BY <1>1 DEF BlockType
  <2> QED
    BY <1>1, <2>1 DEF BlockType
<1>3. WriteStop(c, i) = [c EXCEPT ![i] = [c[i] EXCEPT !.stops = c[i].stops + 1]]
  BY DEF WriteStop
<1> QED
  BY <1>2, <1>3

\* openBlock closes the last block and appends the new one.
LEMMA BlockOpened ==
    ASSUME TypeOK, NEW b \in BlockType
    PROVE  LET n == contentBlockIndex
               c == openBlock(content, b)
           IN /\ c \in [0..(n + 1) -> BlockType]
              /\ \A j \in 0..(n - 1) : c[j] = content[j]
              /\ n >= 0 => c[n] = [content[n] EXCEPT !.stops = content[n].stops + 1]
              /\ c[n + 1] = b
<1> DEFINE n == contentBlockIndex
           s == closeOpenBlock(content)
           c == openBlock(content, b)
<1>1. n \in Nat \cup {-1} /\ content \in [0..n -> BlockType]
  BY DEF TypeOK
<1>2. /\ s \in [0..n -> BlockType]
      /\ \A j \in 0..(n - 1) : s[j] = content[j]
      /\ n >= 0 => s[n] = [content[n] EXCEPT !.stops = content[n].stops + 1]
  <2>1. CASE n = -1
    BY <1>1, <2>1 DEF closeOpenBlock
  <2>2. CASE n # -1
    <3>1. n \in Nat /\ n \in 0..n /\ s = WriteStop(content, n)
      BY <1>1, <2>2 DEF closeOpenBlock
    <3>2. /\ WriteStop(content, n) \in [0..n -> BlockType]
          /\ \A j \in 0..n : j # n => WriteStop(content, n)[j] = content[j]
          /\ WriteStop(content, n)[n] = [content[n] EXCEPT !.stops = content[n].stops + 1]
      BY <1>1, <3>1, StopWritten
    <3> QED
      BY <3>1, <3>2
  <2> QED
    BY <2>1, <2>2
<1>3. c = [j \in 0..(n + 1) |-> IF j = n + 1 THEN b ELSE s[j]]
  <2>1. DOMAIN s \cup {n + 1} = 0..(n + 1)
    BY <1>1, <1>2
  <2> QED
    BY <2>1 DEF openBlock, WriteStart
<1>4. \A j \in 0..(n + 1) : j # n + 1 => j \in 0..n
  BY <1>1
<1>5. n + 1 \in 0..(n + 1)
  BY <1>1
<1>6. c \in [0..(n + 1) -> BlockType]
  BY <1>2, <1>3, <1>4
<1>7. \A j \in 0..(n - 1) : c[j] = content[j]
  BY <1>1, <1>2, <1>3
<1>8. n >= 0 => c[n] = [content[n] EXCEPT !.stops = content[n].stops + 1]
  BY <1>1, <1>2, <1>3
<1>9. c[n + 1] = b
  BY <1>3, <1>5
<1> QED
  BY <1>6, <1>7, <1>8, <1>9

-----------------------------------------------------------------------------
(***************************************************************************)
(* The two ways in which a step of processLine changes the message.        *)
(***************************************************************************)

\* Delta d may be in a block of b's type.
Fits(d, b) ==
    /\ d.type = "thinking_delta" => b.type = "thinking"
    /\ d.type = "text_delta" => b.type = "text"

\* Delta d is added to the last block.
Extends(d) ==
    /\ contentBlockIndex >= 0
    /\ d \in DeltaType
    /\ Fits(d, content[contentBlockIndex])
    /\ content' = WriteDelta(content, contentBlockIndex, d)
    /\ UNCHANGED <<contentBlockIndex, thinkingOpen, textOpen, textIndex>>

\* The last block is closed, and block b follows it.
Opens(b) ==
    LET n == contentBlockIndex IN
        /\ b \in BlockType
        /\ b.stops = 0
        /\ \A k \in DOMAIN b.deltas : Fits(b.deltas[k], b)
        /\ contentBlockIndex' = n + 1
        /\ content' \in [0..(n + 1) -> BlockType]
        /\ \A j \in 0..(n - 1) : content'[j] = content[j]
        /\ n >= 0 => content'[n] = [content[n] EXCEPT !.stops = content[n].stops + 1]
        /\ content'[n + 1] = b

\* The invariants of the blocks.
BlockInv ==
    /\ content \in [0..contentBlockIndex -> BlockType]
    /\ StopsMatched
    /\ FlagsMatchBlock
    /\ StartedMatchesBlock
    /\ DeltasInTheirBlock
    /\ OneBlockPerCall

\* A step that only extends the last block keeps them, if no call starts.
LEMMA ExtendKeepsBlocks ==
    ASSUME IInv, ending = "streaming", ending' = ending,
           NEW d, Extends(d),
           \A t \in ToolIdx : toolCalls'[t].started = toolCalls[t].started
    PROVE  BlockInv'
<1> DEFINE n == contentBlockIndex
<1>1. n \in Nat /\ n' = n /\ content \in [0..n -> BlockType] /\ n \in 0..n
  BY DEF IInv, TypeOK, Extends
<1>2. /\ content' \in [0..n -> BlockType]
      /\ \A j \in 0..n : j # n => content'[j] = content[j]
      /\ content'[n] = [content[n] EXCEPT !.deltas = Append(content[n].deltas, d)]
  BY <1>1, DeltaWritten DEF Extends
<1>3. content[n] \in BlockType
  BY <1>1
<1>4. /\ content'[n].type = content[n].type
      /\ content'[n].call = content[n].call
      /\ content'[n].stops = content[n].stops
      /\ content'[n].deltas = Append(content[n].deltas, d)
  BY <1>2, <1>3 DEF BlockType
<1>5. \A j \in 0..n : /\ content'[j].type = content[j].type
                      /\ content'[j].call = content[j].call
                      /\ content'[j].stops = content[j].stops
  BY <1>2, <1>4
<1>6. StopsMatched'
  BY <1>1, <1>5 DEF IInv, StopsMatched
<1>7. FlagsMatchBlock'
  BY <1>1, <1>5 DEF IInv, FlagsMatchBlock, Extends
<1>8. StartedMatchesBlock'
  BY <1>1, <1>5 DEF IInv, StartedMatchesBlock
<1>9. DeltasInTheirBlock'
  <2> SUFFICES ASSUME NEW i \in 0..n, NEW k \in DOMAIN content'[i].deltas
               PROVE  Fits(content'[i].deltas[k], content'[i])
    BY <1>2 DEF DeltasInTheirBlock, Fits
  <2>1. CASE i # n
    BY <1>1, <1>2, <2>1 DEF IInv, DeltasInTheirBlock, Fits
  <2>2. CASE i = n
    <3>1. content[n].deltas \in Seq(DeltaType)
      BY <1>3 DEF BlockType
    <3>2. \/ k \in DOMAIN content[n].deltas /\ content'[n].deltas[k] = content[n].deltas[k]
          \/ content'[n].deltas[k] = d
      <4> DEFINE ds == content[n].deltas
      <4>1. ds \in Seq(DeltaType) /\ k \in DOMAIN Append(ds, d)
        BY <1>4, <2>2, <3>1
      <4>2. k \in 1..(Len(ds) + 1)
        BY <4>1
      <4>3. CASE k = Len(ds) + 1
        BY <1>4, <2>2, <4>1, <4>3
      <4>4. CASE k # Len(ds) + 1
        <5>1. k \in 1..Len(ds)
          BY <4>1, <4>2, <4>4
        <5> QED
          BY <1>4, <2>2, <4>1, <5>1
      <4> QED
        BY <4>3, <4>4
    <3> QED
      BY <1>1, <1>4, <2>2, <3>2 DEF IInv, DeltasInTheirBlock, Fits, Extends
  <2> QED
    BY <2>1, <2>2
<1>10. OneBlockPerCall'
  BY <1>1, <1>2, <1>5 DEF IInv, OneBlockPerCall
<1> QED
  BY <1>1, <1>2, <1>6, <1>7, <1>8, <1>9, <1>10 DEF BlockInv

\* A step that opens a block keeps them, if the flags are set for it and a
\* tool_use block is that of a call which starts with this step.
LEMMA OpenKeepsBlocks ==
    ASSUME IInv, ending = "streaming", ending' = ending,
           NEW b, Opens(b),
           SetOpen(b.type),
           b.type = "text" => textIndex' = contentBlockIndex',
           b.type # "text" => textIndex' = textIndex,
           b.type = "tool_use" =>
               b.call \in ToolIdx /\ ~toolCalls[b.call].started /\ toolCalls'[b.call].started,
           \A t \in ToolIdx : toolCalls[t].started => toolCalls'[t].started
    PROVE  BlockInv'
<1> DEFINE n == contentBlockIndex
<1>1. n \in Nat \cup {-1} /\ n' = n + 1 /\ content \in [0..n -> BlockType]
  BY DEF IInv, TypeOK, Opens
<1>2. /\ content' \in [0..(n + 1) -> BlockType]
      /\ content'[n + 1] = b
      /\ \A j \in 0..n : /\ content'[j].type = content[j].type
                         /\ content'[j].call = content[j].call
                         /\ content'[j].deltas = content[j].deltas
                         /\ content'[j].stops = 1
  <2>1. content'[n + 1] = b /\ content' \in [0..(n + 1) -> BlockType]
    BY DEF Opens
  <2>2. SUFFICES ASSUME NEW j \in 0..n
                 PROVE  /\ content'[j].type = content[j].type
                        /\ content'[j].call = content[j].call
                        /\ content'[j].deltas = content[j].deltas
                        /\ content'[j].stops = 1
    BY <2>1
  <2>3. CASE j # n
    <3>1. j \in 0..(n - 1)
      BY <1>1, <2>3
    <3> QED
      BY <3>1 DEF IInv, StopsMatched, Opens
  <2>4. CASE j = n
    <3>1. n >= 0 /\ content[n] \in BlockType
      BY <1>1, <2>4
    <3>2. content[n].stops = 0
      BY <3>1 DEF IInv, StopsMatched
    <3>3. content'[n] = [content[n] EXCEPT !.stops = content[n].stops + 1]
      BY <3>1 DEF Opens
    <3> QED
      BY <2>4, <3>1, <3>2, <3>3 DEF BlockType
  <2> QED
    BY <2>3, <2>4
<1>3. b \in BlockType /\ b.stops = 0 /\ \A k \in DOMAIN b.deltas : Fits(b.deltas[k], b)
  BY DEF Opens
<1>4. \A j \in 0..(n + 1) : j \in 0..n \/ j = n + 1
  BY <1>1
<1>5. StopsMatched'
  BY <1>1, <1>2, <1>3 DEF StopsMatched
<1>6. FlagsMatchBlock'
  <2>1. (thinkingOpen' => b.type = "thinking") /\ (textOpen' => b.type = "text")
    BY Zenon DEF SetOpen
  <2> QED
    BY <1>1, <1>2, <2>1 DEF FlagsMatchBlock
<1>7. StartedMatchesBlock'
  <2>1. \A t \in ToolIdx : toolCalls'[t].started => contentBlockIndex' >= 0
    BY <1>1
  <2>2. ASSUME NEW i \in 0..(n + 1), content'[i].type = "tool_use"
        PROVE  content'[i].call \in ToolIdx /\ toolCalls'[content'[i].call].started
    BY <1>2, <1>4, <2>2 DEF IInv, StartedMatchesBlock
  <2> QED
    BY <1>1, <2>1, <2>2 DEF StartedMatchesBlock
<1>8. DeltasInTheirBlock'
  <2> SUFFICES ASSUME NEW i \in 0..(n + 1), NEW k \in DOMAIN content'[i].deltas
               PROVE  Fits(content'[i].deltas[k], content'[i])
    BY <1>2 DEF DeltasInTheirBlock, Fits
  <2>1. CASE i = n + 1
    BY <1>2, <1>3, <2>1
  <2>2. CASE i \in 0..n
    BY <1>1, <1>2, <2>2 DEF IInv, DeltasInTheirBlock, Fits
  <2> QED
    BY <1>4, <2>1, <2>2
<1>9. OneBlockPerCall'
  <2> SUFFICES ASSUME NEW i \in 0..(n + 1), NEW j \in 0..(n + 1),
                      content'[i].type = "tool_use", content'[j].type = "tool_use",
                      content'[i].call = content'[j].call
               PROVE  i = j
    BY <1>2 DEF OneBlockPerCall
  <2>1. CASE i \in 0..n /\ j \in 0..n
    BY <1>1, <1>2, <2>1 DEF IInv, OneBlockPerCall
  <2>2. ASSUME NEW m \in 0..n, content'[m].type = "tool_use", b.type = "tool_use"
        PROVE  content'[m].call # b.call
    BY <1>1, <1>2, <2>2 DEF IInv, StartedMatchesBlock
  <2> QED
    BY <1>2, <1>4, <2>1, <2>2
<1> QED
  BY <1>1, <1>2, <1>5, <1>6, <1>7, <1>8, <1>9 DEF BlockInv

-----------------------------------------------------------------------------
(***************************************************************************)
(* The actions that write blocks, in those terms.                          *)
(***************************************************************************)

\* openBlock alone opens its block.
LEMMA OpensBare ==
    ASSUME TypeOK, NEW b \in BlockType, b.stops = 0, b.deltas = <<>>,
           contentBlockIndex' = contentBlockIndex + 1,
           content' = openBlock(content, b)
    PROVE  Opens(b)
<1>1. \A k \in DOMAIN b.deltas : FALSE
  OBVIOUS
<1> QED
  BY <1>1, BlockOpened DEF Opens

\* openBlock followed by a first delta opens the block with that delta.
LEMMA OpensWithDelta ==
    ASSUME TypeOK, NEW b \in BlockType, b.stops = 0, b.deltas = <<>>,
           NEW d \in DeltaType, Fits(d, b),
           contentBlockIndex' = contentBlockIndex + 1,
           content' = WriteDelta(openBlock(content, b), contentBlockIndex + 1, d)
    PROVE  Opens([b EXCEPT !.deltas = <<d>>])
<1> DEFINE n == contentBlockIndex
           c == openBlock(content, b)
           e == [b EXCEPT !.deltas = <<d>>]
<1>1. n + 1 \in Nat /\ n + 1 \in 0..(n + 1)
  BY DEF TypeOK
<1>2. /\ c \in [0..(n + 1) -> BlockType]
      /\ \A j \in 0..(n - 1) : c[j] = content[j]
      /\ n >= 0 => c[n] = [content[n] EXCEPT !.stops = content[n].stops + 1]
      /\ c[n + 1] = b
  BY BlockOpened
<1> HIDE DEF c
<1>3. content' = [c EXCEPT ![n + 1] = e]
  <2>1. content' = WriteDelta(c, n + 1, d)
    BY DEF c
  <2>2. WriteDelta(c, n + 1, d)
          = [c EXCEPT ![n + 1] = [c[n + 1] EXCEPT !.deltas = Append(c[n + 1].deltas, d)]]
    BY DEF WriteDelta
  <2>3. Append(b.deltas, d) = <<d>>
    OBVIOUS
  <2> QED
    BY <1>2, <2>1, <2>2, <2>3
<1>4. e \in BlockType /\ e.stops = 0 /\ e.type = b.type /\ e.deltas = <<d>>
  <2>1. <<d>> \in Seq(DeltaType)
    OBVIOUS
  <2> QED
    BY <2>1 DEF BlockType
<1>5. \A k \in DOMAIN e.deltas : Fits(e.deltas[k], e)
  BY <1>4 DEF Fits
<1>6. content' \in [0..(n + 1) -> BlockType] /\ content'[n + 1] = e
  BY <1>1, <1>2, <1>3, <1>4
<1>7. \A j \in 0..(n - 1) : content'[j] = content[j]
  BY <1>1, <1>2, <1>3 DEF TypeOK
<1>8. n >= 0 => content'[n] = [content[n] EXCEPT !.stops = content[n].stops + 1]
  BY <1>1, <1>2, <1>3 DEF TypeOK
<1> QED
  BY <1>3, <1>6, <1>4, <1>5, <1>7, <1>8 DEF Opens

\* The line under processing is one of Lines.
LEMMA LineTyped ==
    ASSUME TypeOK, seen # <<>>
    PROVE  line \in Line
<1>1. seen \in Seq(Lines)
  BY DEF TypeOK
<1>2. Len(seen) \in 1..Len(seen)
  BY <1>1
<1> QED
  BY <1>1, <1>2, LinesAssumption DEF line, Last

\* A step of Reasoning leaves the blocks alone, extends the thinking block or
\* opens one.
LEMMA ReasoningOnBlocks ==
    ASSUME IInv, Reasoning
    PROVE  \/ /\ line.reasoning = <<>>
              /\ UNCHANGED blockVars
           \/ /\ line.reasoning # <<>>
              /\ \E d : d = ReasoningDelta /\ Extends(d)
           \/ /\ line.reasoning # <<>>
              /\ \E b : /\ Opens(b) /\ b.type = "thinking" /\ b.deltas = <<ReasoningDelta>>
                        /\ SetOpen("thinking") /\ UNCHANGED textIndex
<1> DEFINE d == ReasoningDelta
           b == Block("thinking", NoCall, NoStr, NoStr)
<1>1. line \in Line
  BY LineTyped DEF IInv, TypeOK, Reasoning
<1>2. d \in DeltaType /\ d.type = "thinking_delta"
  BY <1>1 DEF ReasoningDelta, Delta, DeltaType, Line
<1>3. b \in BlockType /\ b.stops = 0 /\ b.deltas = <<>> /\ b.type = "thinking"
  BY DEF Block, BlockType
<1> HIDE DEF d, b
<1>4. CASE line.reasoning = <<>>
  BY <1>4 DEF Reasoning
<1>5. CASE line.reasoning # <<>> /\ thinkingOpen
  <2>1. Extends(d)
    BY <1>2, <1>5 DEF Reasoning, d, Extends, Fits, IInv, FlagsMatchBlock
  <2> QED
    BY <1>5, <2>1 DEF d
<1>6. CASE line.reasoning # <<>> /\ ~thinkingOpen
  <2>1. /\ contentBlockIndex' = contentBlockIndex + 1
        /\ content' = WriteDelta(openBlock(content, b), contentBlockIndex + 1, d)
        /\ SetOpen("thinking")
        /\ UNCHANGED textIndex
    BY <1>6 DEF Reasoning, d, b
  <2>2. Fits(d, b) /\ TypeOK
    BY <1>2, <1>3 DEF Fits, IInv
  <2>3. Opens([b EXCEPT !.deltas = <<d>>])
    BY <1>2, <1>3, <2>1, <2>2, OpensWithDelta
  <2>4. [b EXCEPT !.deltas = <<d>>].type = "thinking" /\ [b EXCEPT !.deltas = <<d>>].deltas = <<d>>
    BY <1>3 DEF BlockType
  <2> QED
    BY <1>6, <2>1, <2>3, <2>4 DEF d
<1> QED
  BY <1>4, <1>5, <1>6

\* So does a step of Text with text blocks.
LEMMA TextOnBlocks ==
    ASSUME IInv, Text
    PROVE  \/ /\ line.content = <<>>
              /\ UNCHANGED blockVars
           \/ /\ line.content # <<>>
              /\ \E d : d = TextDelta /\ Extends(d)
           \/ /\ line.content # <<>>
              /\ \E b : /\ Opens(b) /\ b.type = "text" /\ b.deltas = <<TextDelta>>
                        /\ SetOpen("text") /\ textIndex' = contentBlockIndex'
<1> DEFINE d == TextDelta
           b == Block("text", NoCall, NoStr, NoStr)
<1>1. line \in Line
  BY LineTyped DEF IInv, TypeOK, Text
<1>2. d \in DeltaType /\ d.type = "text_delta"
  BY <1>1 DEF TextDelta, Delta, DeltaType, Line
<1>3. b \in BlockType /\ b.stops = 0 /\ b.deltas = <<>> /\ b.type = "text"
  BY DEF Block, BlockType
<1> HIDE DEF d, b
<1>4. CASE line.content = <<>>
  BY <1>4 DEF Text
<1>5. CASE line.content # <<>> /\ textOpen
  <2>1. Extends(d)
    BY <1>2, <1>5 DEF Text, d, Extends, Fits, IInv, FlagsMatchBlock
  <2> QED
    BY <1>5, <2>1 DEF d
<1>6. CASE line.content # <<>> /\ ~textOpen
  <2>1. /\ contentBlockIndex' = contentBlockIndex + 1
        /\ content' = WriteDelta(openBlock(content, b), contentBlockIndex + 1, d)
        /\ SetOpen("text")
        /\ textIndex' = contentBlockIndex'
    BY <1>6 DEF Text, d, b
  <2>2. Fits(d, b) /\ TypeOK
    BY <1>2, <1>3 DEF Fits, IInv
  <2>3. Opens([b EXCEPT !.deltas = <<d>>])
    BY <1>2, <1>3, <2>1, <2>2, OpensWithDelta
  <2>4. [b EXCEPT !.deltas = <<d>>].type = "text" /\ [b EXCEPT !.deltas = <<d>>].deltas = <<d>>
    BY <1>3 DEF BlockType
  <2> QED
    BY <1>6, <2>1, <2>3, <2>4 DEF d
<1> QED
  BY <1>4, <1>5, <1>6

\* An entry of tool_calls names a call, and what is accumulated for it is of
\* the type of a call.
LEMMA EntryTyped ==
    ASSUME TypeOK, rest # <<>>
    PROVE  LET e == Head(rest)
               t == IndexOf(e)
               s == Accumulate(toolCalls[t], e)
           IN /\ Tail(rest) \in Seq(ToolEntry)
              /\ t \in ToolIdx
              /\ s \in ToolCallType
              /\ s.started = toolCalls[t].started
<1> DEFINE e == Head(rest)
           t == IndexOf(e)
           q == toolCalls[t]
           s == Accumulate(q, e)
<1>1. e \in ToolEntry /\ Tail(rest) \in Seq(ToolEntry)
  BY DEF TypeOK
<1>2. t \in ToolIdx
  BY <1>1, LinesAssumption DEF IndexOf, ToolEntry, NoIndex
<1>3. q \in ToolCallType
  BY <1>2 DEF TypeOK
<1>4. q.args \o e.args \in Seq(Frags)
  BY <1>1, <1>3 DEF ToolEntry, ToolCallType
<1>5. /\ (IF e.id = NoStr THEN q.id ELSE e.id) \in CallIds \cup {NoStr}
      /\ (IF e.name = NoStr THEN q.name ELSE e.name) \in ToolNames \cup {NoStr}
  BY <1>1, <1>3 DEF ToolEntry, ToolCallType
<1>6. s \in ToolCallType /\ s.started = q.started
  BY <1>3, <1>4, <1>5 DEF Accumulate, ToolCallType
<1> QED
  BY <1>1, <1>2, <1>6

\* The call that the first of the remaining entries is about, what is known of
\* it with this entry, and the delta that carries its arguments.
Caller == IndexOf(Head(rest))
Known == Accumulate(toolCalls[Caller], Head(rest))
ArgsDelta == Delta("input_json_delta", Caller, Known.args)

\* What becomes of the call: x takes its place.  Its arguments stay buffered, or
\* are sent to the last block, or to the block that the call opens.
Buffers(x) ==
    /\ UNCHANGED blockVars
    /\ x.started = toolCalls[Caller].started
    /\ x.started \/ ~CanStart(Known)
    /\ x.args = Known.args

SendsOn(x) ==
    /\ Known.args # <<>>
    /\ \E d : d = ArgsDelta /\ Extends(d)
    /\ toolCalls[Caller].started /\ x.started
    /\ x.args = <<>>

Begins(x) ==
    /\ CanStart(Known)
    /\ \E b : /\ Opens(b) /\ b.type = "tool_use" /\ b.call = Caller
              /\ b.id = Known.id /\ b.name = Known.name
              /\ b.deltas = (IF Known.args = <<>> THEN <<>> ELSE <<ArgsDelta>>)
    /\ SetOpen("tool_use") /\ UNCHANGED textIndex
    /\ ~toolCalls[Caller].started /\ x.started
    /\ x.args = <<>>

\* A step of ToolCall does one of the three; a call that has started has nothing
\* buffered afterwards, and its id and name are those known of it.
LEMMA ToolCallOutcome ==
    ASSUME IInv, ToolCall
    PROVE  /\ rest' = Tail(rest) /\ rest' \in Seq(ToolEntry)
           /\ Caller \in ToolIdx
           /\ \E x \in ToolCallType :
                /\ toolCalls' = [toolCalls EXCEPT ![Caller] = x]
                /\ x.started => x.args = <<>>
                /\ x.id = Known.id /\ x.name = Known.name
                /\ Buffers(x) \/ SendsOn(x) \/ Begins(x)
<1> DEFINE t == Caller
           s == Known
           d == ArgsDelta
           b == Block("tool_use", t, s.id, s.name)
           e == [s EXCEPT !.args = <<>>]
           f == [s EXCEPT !.started = TRUE, !.args = <<>>]
<1>1. /\ Tail(rest) \in Seq(ToolEntry)
      /\ t \in ToolIdx
      /\ s \in ToolCallType
      /\ s.started = toolCalls[t].started
      /\ TypeOK
  BY EntryTyped DEF IInv, TypeOK, ToolCall, Caller, Known
<1>2. rest' = Tail(rest)
  BY DEF ToolCall
<1>3. d \in DeltaType /\ d.type = "input_json_delta"
  BY <1>1 DEF ArgsDelta, Delta, DeltaType, ToolCallType
<1>4. /\ b \in BlockType /\ b.stops = 0 /\ b.deltas = <<>>
      /\ b.type = "tool_use" /\ b.call = t /\ b.id = s.id /\ b.name = s.name
  BY <1>1 DEF Block, BlockType, ToolCallType
<1>5. /\ e \in ToolCallType /\ e.started = s.started /\ e.args = <<>>
      /\ e.id = s.id /\ e.name = s.name
      /\ f \in ToolCallType /\ f.started /\ f.args = <<>>
      /\ f.id = s.id /\ f.name = s.name
  <2>1. <<>> \in Seq(Frags)
    OBVIOUS
  <2> QED
    BY <1>1, <2>1 DEF ToolCallType
<1>6. Fits(d, b) /\ Fits(d, content[contentBlockIndex])
  BY <1>3 DEF Fits
<1>7. \/ /\ CanStart(s)
         /\ SetOpen("tool_use")
         /\ contentBlockIndex' = contentBlockIndex + 1
         /\ content' = Flush(openBlock(content, b), contentBlockIndex', t, s)
         /\ toolCalls' = [toolCalls EXCEPT ![t] = f]
         /\ UNCHANGED textIndex
      \/ /\ s.started
         /\ content' = Flush(content, contentBlockIndex, t, s)
         /\ toolCalls' = [toolCalls EXCEPT ![t] = e]
         /\ UNCHANGED <<contentBlockIndex, thinkingOpen, textOpen, textIndex>>
      \/ /\ ~s.started
         /\ ~CanStart(s)
         /\ toolCalls' = [toolCalls EXCEPT ![t] = s]
         /\ UNCHANGED blockVars
  BY DEF ToolCall, Caller, Known
<1>8. ASSUME CanStart(s),
             SetOpen("tool_use"),
             contentBlockIndex' = contentBlockIndex + 1,
             content' = Flush(openBlock(content, b), contentBlockIndex', t, s),
             UNCHANGED textIndex
      PROVE  Begins(f)
  <2>1. ~toolCalls[t].started
    BY <1>1, <1>8 DEF CanStart
  <2>2. CASE s.args = <<>>
    <3>1. content' = openBlock(content, b)
      BY <1>8, <2>2 DEF Flush
    <3> HIDE DEF b, d, f
    <3>2. Opens(b)
      BY <1>1, <1>4, <1>8, <3>1, OpensBare
    <3> QED
      BY <1>4, <1>5, <1>8, <2>1, <2>2, <3>2 DEF Begins
  <2>3. CASE s.args # <<>>
    <3>1. content' = WriteDelta(openBlock(content, b), contentBlockIndex + 1, d)
      BY <1>8, <2>3 DEF Flush, ArgsDelta
    <3> DEFINE o == [b EXCEPT !.deltas = <<d>>]
    <3> HIDE DEF b, d, f
    <3>2. Opens(o)
      BY <1>1, <1>3, <1>4, <1>6, <1>8, <3>1, OpensWithDelta
    <3>3. o.type = b.type /\ o.call = b.call /\ o.id = b.id /\ o.name = b.name /\ o.deltas = <<d>>
      BY <1>4 DEF BlockType
    <3> HIDE DEF o
    <3> QED
      BY <1>4, <1>5, <1>8, <2>1, <2>3, <3>2, <3>3 DEF Begins, d
  <2> QED
    BY <2>2, <2>3
<1>9. ASSUME s.started,
             content' = Flush(content, contentBlockIndex, t, s),
             UNCHANGED <<contentBlockIndex, thinkingOpen, textOpen, textIndex>>
      PROVE  Buffers(e) \/ SendsOn(e)
  <2>1. contentBlockIndex >= 0
    BY <1>1, <1>9 DEF IInv, StartedMatchesBlock
  <2>2. CASE s.args = <<>>
    <3>1. UNCHANGED blockVars
      BY <1>9, <2>2 DEF Flush, blockVars
    <3>2. e.started
      BY <1>5, <1>9, Zenon
    <3> QED
      BY <1>1, <1>5, <2>2, <3>1, <3>2 DEF Buffers
  <2>3. CASE s.args # <<>>
    <3>1. content' = WriteDelta(content, contentBlockIndex, d)
      BY <1>9, <2>3 DEF Flush, ArgsDelta
    <3>2. Extends(d)
      BY <1>3, <1>6, <1>9, <2>1, <3>1 DEF Extends
    <3> HIDE DEF e
    <3> QED
      BY <1>1, <1>5, <1>9, <2>3, <3>2 DEF SendsOn
  <2> QED
    BY <2>2, <2>3
<1>10. ASSUME UNCHANGED blockVars, ~CanStart(s)
       PROVE  Buffers(s)
  BY <1>1, <1>10 DEF Buffers
<1> HIDE DEF b, e, f
<1>11. \E x \in ToolCallType :
         /\ toolCalls' = [toolCalls EXCEPT ![t] = x]
         /\ x.started => x.args = <<>>
         /\ x.id = s.id /\ x.name = s.name
         /\ Buffers(x) \/ SendsOn(x) \/ Begins(x)
  BY <1>1, <1>5, <1>7, <1>8, <1>9, <1>10
<1> QED
  BY <1>1, <1>2, <1>11

\* So it leaves the blocks alone, extends the last one, or opens the block of
\* the call that it starts.
LEMMA ToolCallOnBlocks ==
    ASSUME IInv, ToolCall
    PROVE  /\ rest' \in Seq(ToolEntry)
           /\ toolCalls' \in [ToolIdx -> ToolCallType]
           /\ \A t \in ToolIdx : toolCalls[t].started => toolCalls'[t].started
           /\ \/ /\ UNCHANGED blockVars
                 /\ \A t \in ToolIdx : toolCalls'[t].started = toolCalls[t].started
              \/ /\ \E d : Extends(d)
                 /\ \A t \in ToolIdx : toolCalls'[t].started = toolCalls[t].started
              \/ \E b : /\ Opens(b) /\ b.type = "tool_use"
                        /\ SetOpen("tool_use") /\ UNCHANGED textIndex
                        /\ b.call \in ToolIdx /\ ~toolCalls[b.call].started
                        /\ toolCalls'[b.call].started
<1>1. PICK x \in ToolCallType :
          /\ toolCalls' = [toolCalls EXCEPT ![Caller] = x]
          /\ Buffers(x) \/ SendsOn(x) \/ Begins(x)
  BY ToolCallOutcome
<1>2. Caller \in ToolIdx /\ rest' \in Seq(ToolEntry)
  BY ToolCallOutcome
<1>3. toolCalls \in [ToolIdx -> ToolCallType] /\ x.started \in BOOLEAN
  BY DEF IInv, TypeOK, ToolCallType
<1>4. /\ toolCalls' \in [ToolIdx -> ToolCallType]
      /\ toolCalls'[Caller] = x
      /\ \A t \in ToolIdx : t # Caller => toolCalls'[t] = toolCalls[t]
  BY <1>1, <1>2, <1>3
<1> HIDE DEF Caller
<1>5. CASE Buffers(x)
  <2>1. \A t \in ToolIdx : toolCalls'[t].started = toolCalls[t].started
    BY <1>4, <1>5, Zenon DEF Buffers
  <2> QED
    BY <1>2, <1>4, <1>5, <2>1 DEF Buffers
<1>6. CASE SendsOn(x)
  <2>1. toolCalls[Caller].started = TRUE /\ x.started = TRUE
    BY <1>2, <1>3, <1>6 DEF SendsOn, ToolCallType
  <2>2. \A t \in ToolIdx : toolCalls'[t].started = toolCalls[t].started
    BY <1>4, <2>1, Zenon
  <2>3. \E d : Extends(d)
    BY <1>6 DEF SendsOn
  <2> QED
    BY <1>2, <1>4, <2>2, <2>3
<1>7. CASE Begins(x)
  <2>1. ~toolCalls[Caller].started /\ x.started
    BY <1>7 DEF Begins
  <2>2. \A t \in ToolIdx : toolCalls[t].started => toolCalls'[t].started
    BY <1>4, <2>1, Zenon
  <2>3. PICK b : Opens(b) /\ b.type = "tool_use" /\ b.call = Caller
    BY <1>7 DEF Begins
  <2>4. SetOpen("tool_use") /\ UNCHANGED textIndex
    BY <1>7 DEF Begins
  <2> QED
    BY <1>2, <1>4, <2>1, <2>2, <2>3, <2>4
<1> QED
  BY <1>1, <1>5, <1>6, <1>7

-----------------------------------------------------------------------------
(***************************************************************************)
(* Invariance.                                                             *)
(***************************************************************************)

\* A step that leaves blocks and calls alone, and does not complete the
\* message, keeps what holds of them.
LEMMA SameKeepsBlocks ==
    ASSUME IInv, UNCHANGED blockVars, UNCHANGED toolCalls,
           ending' = "complete" <=> ending = "complete"
    PROVE  BlockInv'
<1>1. /\ content' = content /\ contentBlockIndex' = contentBlockIndex
      /\ thinkingOpen' = thinkingOpen /\ textOpen' = textOpen /\ textIndex' = textIndex
      /\ toolCalls' = toolCalls
  BY DEF blockVars
<1>2. content' \in [0..contentBlockIndex' -> BlockType]
  BY <1>1 DEF IInv, TypeOK
<1>3. StopsMatched' /\ FlagsMatchBlock' /\ StartedMatchesBlock'
  BY <1>1 DEF IInv, StopsMatched, FlagsMatchBlock, StartedMatchesBlock
<1>4. DeltasInTheirBlock' /\ OneBlockPerCall'
  BY <1>1 DEF IInv, DeltasInTheirBlock, OneBlockPerCall
<1> QED
  BY <1>2, <1>3, <1>4 DEF BlockInv

\* The invariant is its parts about control and those about blocks.
LEMMA IInvParts ==
    ASSUME TypeOK', EndingMatchesStage', BlockInv'
    PROVE  IInv'
  BY DEF IInv, BlockInv

\* The invariant holds initially.
LEMMA InitIInv ==
    ASSUME Init
    PROVE  IInv
<1>1. NewToolCall \in ToolCallType
  <2>1. <<>> \in Seq(Frags)
    OBVIOUS
  <2> QED
    BY <2>1 DEF NewToolCall, ToolCallType
<1>2. /\ toolCalls \in [ToolIdx -> ToolCallType]
      /\ \A t \in ToolIdx : ~toolCalls[t].started
  BY <1>1 DEF Init, NewToolCall
<1>3. content \in [0..contentBlockIndex -> BlockType]
  <2>1. 0..contentBlockIndex = {}
    BY DEF Init
  <2>2. content = [i \in 0..contentBlockIndex |-> CHOOSE b \in BlockType : TRUE]
    BY <2>1 DEF Init
  <2> QED
    BY <2>1, <2>2
<1>4. rest \in Seq(ToolEntry) /\ seen \in Seq(Lines)
  BY DEF Init
<1>5. TypeOK
  BY <1>2, <1>3, <1>4 DEF Init, TypeOK, Stages, StopReasons, NotSent
<1>6. EndingMatchesStage
  BY DEF Init, EndingMatchesStage
<1>7. StopsMatched /\ FlagsMatchBlock
  BY DEF Init, StopsMatched, FlagsMatchBlock
<1>8. StartedMatchesBlock
  BY <1>2 DEF Init, StartedMatchesBlock
<1>9. DOMAIN content = {}
  BY <1>3 DEF Init
<1>10. DeltasInTheirBlock /\ OneBlockPerCall
  BY <1>9 DEF DeltasInTheirBlock, OneBlockPerCall
<1> QED
  BY <1>5, <1>6, <1>7, <1>8, <1>10 DEF IInv

\* Every step keeps the invariant.
LEMMA NextIInv ==
    ASSUME IInv, [Next]_vars
    PROVE  IInv'
<1> USE DEF blockVars, callVars, reportVars, endVars
<1>1. TypeOK /\ EndingMatchesStage
  BY DEF IInv
<1>2. CASE UNCHANGED vars
  <2>1. BlockInv'
    BY <1>2, SameKeepsBlocks DEF vars
  <2>2. TypeOK' /\ EndingMatchesStage'
    BY <1>1, <1>2, <2>1 DEF vars, TypeOK, EndingMatchesStage, BlockInv
  <2> QED
    BY <2>1, <2>2, IInvParts
<1>3. CASE StillConnected
  <2>1. BlockInv'
    BY <1>3, SameKeepsBlocks DEF StillConnected
  <2>2. TypeOK' /\ EndingMatchesStage'
    BY <1>1, <1>3, <2>1 DEF StillConnected, TypeOK, Stages, EndingMatchesStage, BlockInv
  <2> QED
    BY <2>1, <2>2, IInvParts
<1>4. CASE Disconnect
  <2>1. BlockInv'
    BY <1>1, <1>4, SameKeepsBlocks DEF Disconnect, EndingMatchesStage
  <2>2. TypeOK' /\ EndingMatchesStage'
    BY <1>1, <1>4, <2>1 DEF Disconnect, TypeOK, Stages, EndingMatchesStage, BlockInv
  <2> QED
    BY <2>1, <2>2, IInvParts
<1>5. ASSUME NEW l \in Lines, ReceiveLine(l)
      PROVE  IInv'
  <2>1. BlockInv'
    BY <1>5, SameKeepsBlocks DEF ReceiveLine
  <2>2. seen' \in Seq(Lines) /\ seen' # <<>>
    <3>1. seen \in Seq(Lines) /\ seen' = Append(seen, l)
      BY <1>1, <1>5 DEF ReceiveLine, TypeOK
    <3>2. seen' \in Seq(Lines) /\ Len(seen') = Len(seen) + 1 /\ Len(seen) \in Nat
      BY <1>5, <3>1
    <3> QED
      BY <3>2
  <2>3. TypeOK' /\ EndingMatchesStage'
    BY <1>1, <1>5, <2>1, <2>2 DEF ReceiveLine, TypeOK, Stages, EndingMatchesStage, BlockInv
  <2> QED
    BY <2>1, <2>3, IInvParts
<1>6. CASE EndOfStream
  <2>1. BlockInv'
    BY <1>6, SameKeepsBlocks DEF EndOfStream
  <2>2. TypeOK' /\ EndingMatchesStage'
    BY <1>1, <1>6, <2>1 DEF EndOfStream, TypeOK, Stages, EndingMatchesStage, BlockInv
  <2> QED
    BY <2>1, <2>2, IInvParts
<1>7. CASE ReadError
  <2>1. BlockInv'
    BY <1>7, SameKeepsBlocks DEF ReadError
  <2>2. TypeOK' /\ EndingMatchesStage'
    BY <1>1, <1>7, <2>1
    DEF ReadError, TypeOK, Stages, StopReasons, EndingMatchesStage, BlockInv
  <2> QED
    BY <2>1, <2>2, IInvParts
<1>8. CASE Stall
  <2>1. BlockInv'
    BY <1>1, <1>8, SameKeepsBlocks DEF Stall, EndingMatchesStage
  <2>2. TypeOK' /\ EndingMatchesStage'
    BY <1>1, <1>8, <2>1 DEF Stall, TypeOK, Stages, EndingMatchesStage, BlockInv
  <2> QED
    BY <2>1, <2>2, IInvParts
<1>9. CASE SkipLine
  <2>1. BlockInv'
    BY <1>9, SameKeepsBlocks DEF SkipLine
  <2>2. TypeOK' /\ EndingMatchesStage'
    BY <1>1, <1>9, <2>1 DEF SkipLine, TypeOK, Stages, EndingMatchesStage, BlockInv
  <2> QED
    BY <2>1, <2>2, IInvParts
<1>10. CASE Done
  <2>1. BlockInv'
    BY <1>10, SameKeepsBlocks DEF Done
  <2>2. TypeOK' /\ EndingMatchesStage'
    BY <1>1, <1>10, <2>1 DEF Done, TypeOK, Stages, EndingMatchesStage, BlockInv
  <2> QED
    BY <2>1, <2>2, IInvParts
<1>11. CASE ErrorFrame
  <2>1. BlockInv'
    BY <1>1, <1>11, SameKeepsBlocks DEF ErrorFrame, EndingMatchesStage
  <2>2. TypeOK' /\ EndingMatchesStage'
    BY <1>1, <1>11, <2>1 DEF ErrorFrame, TypeOK, Stages, EndingMatchesStage, BlockInv
  <2> QED
    BY <2>1, <2>2, IInvParts
<1>12. CASE Chunk
  <2>1. BlockInv'
    BY <1>12, SameKeepsBlocks DEF Chunk
  <2>2. line \in Line
    BY <1>1, <1>12, LineTyped DEF Chunk, TypeOK
  <2>3. outputTokens' \in Nat
    BY <1>1, <1>12, <2>2 DEF Chunk, TypeOK, Line
  <2>4. TypeOK' /\ EndingMatchesStage'
    BY <1>1, <1>12, <2>1, <2>3 DEF Chunk, TypeOK, Stages, EndingMatchesStage, BlockInv
  <2> QED
    BY <2>1, <2>4, IInvParts
<1>13. CASE Reasoning
  <2>1. ending = "streaming" /\ ending' = ending /\ toolCalls' = toolCalls
    BY <1>1, <1>13 DEF Reasoning, EndingMatchesStage
  <2>2. BlockInv' /\ textIndex' \in Nat /\ thinkingOpen' \in BOOLEAN /\ textOpen' \in BOOLEAN
        /\ contentBlockIndex' \in Nat \cup {-1}
    <3>1. CASE UNCHANGED blockVars
      BY <1>1, <2>1, <3>1, SameKeepsBlocks DEF TypeOK
    <3>2. ASSUME NEW d, Extends(d)
          PROVE  BlockInv' /\ textIndex' \in Nat /\ thinkingOpen' \in BOOLEAN
                 /\ textOpen' \in BOOLEAN /\ contentBlockIndex' \in Nat \cup {-1}
      BY <1>1, <2>1, <3>2, ExtendKeepsBlocks DEF Extends, TypeOK
    <3>3. ASSUME NEW b, Opens(b), b.type = "thinking", SetOpen("thinking"), UNCHANGED textIndex
          PROVE  BlockInv' /\ textIndex' \in Nat /\ thinkingOpen' \in BOOLEAN
                 /\ textOpen' \in BOOLEAN /\ contentBlockIndex' \in Nat \cup {-1}
      <4>1. BlockInv'
        BY <2>1, <3>3, OpenKeepsBlocks
      <4> QED
        BY <1>1, <3>3, <4>1 DEF Opens, SetOpen, TypeOK
    <3> QED
      BY <1>13, <3>1, <3>2, <3>3, ReasoningOnBlocks
  <2>3. TypeOK' /\ EndingMatchesStage'
    BY <1>1, <1>13, <2>1, <2>2 DEF Reasoning, TypeOK, Stages, EndingMatchesStage, BlockInv
  <2> QED
    BY <2>2, <2>3, IInvParts
<1>14. CASE Text
  <2>1. ending = "streaming" /\ ending' = ending /\ toolCalls' = toolCalls
    BY <1>1, <1>14 DEF Text, EndingMatchesStage
  <2>2. BlockInv' /\ textIndex' \in Nat /\ thinkingOpen' \in BOOLEAN /\ textOpen' \in BOOLEAN
        /\ contentBlockIndex' \in Nat \cup {-1}
    <3>1. CASE UNCHANGED blockVars
      BY <1>1, <2>1, <3>1, SameKeepsBlocks DEF TypeOK
    <3>2. ASSUME NEW d, Extends(d)
          PROVE  BlockInv' /\ textIndex' \in Nat /\ thinkingOpen' \in BOOLEAN
                 /\ textOpen' \in BOOLEAN /\ contentBlockIndex' \in Nat \cup {-1}
      BY <1>1, <2>1, <3>2, ExtendKeepsBlocks DEF Extends, TypeOK
    <3>3. ASSUME NEW b, Opens(b), b.type = "text", SetOpen("text"),
                 textIndex' = contentBlockIndex'
          PROVE  BlockInv' /\ textIndex' \in Nat /\ thinkingOpen' \in BOOLEAN
                 /\ textOpen' \in BOOLEAN /\ contentBlockIndex' \in Nat \cup {-1}
      <4>1. BlockInv'
        BY <2>1, <3>3, OpenKeepsBlocks
      <4> QED
        BY <1>1, <3>3, <4>1 DEF Opens, SetOpen, TypeOK
    <3> QED
      BY <1>14, <3>1, <3>2, <3>3, TextOnBlocks
  <2>3. rest' \in Seq(ToolEntry)
    <3>1. line \in Line
      BY <1>1, <1>14, LineTyped DEF Text, TypeOK
    <3> QED
      BY <1>14, <3>1 DEF Text, Line
  <2>4. TypeOK' /\ EndingMatchesStage'
    BY <1>1, <1>14, <2>1, <2>2, <2>3 DEF Text, TypeOK, Stages, EndingMatchesStage, BlockInv
  <2> QED
    BY <2>2, <2>4, IInvParts
<1>15. CASE ToolCall
  <2>1. ending = "streaming" /\ ending' = ending
    BY <1>1, <1>15 DEF ToolCall, EndingMatchesStage
  <2>2. /\ rest' \in Seq(ToolEntry)
        /\ toolCalls' \in [ToolIdx -> ToolCallType]
        /\ \A t \in ToolIdx : toolCalls[t].started => toolCalls'[t].started
    BY <1>15, ToolCallOnBlocks
  <2>3. BlockInv' /\ textIndex' \in Nat /\ thinkingOpen' \in BOOLEAN /\ textOpen' \in BOOLEAN
        /\ contentBlockIndex' \in Nat \cup {-1}
    <3>1. ASSUME UNCHANGED blockVars,
                 \A t \in ToolIdx : toolCalls'[t].started = toolCalls[t].started
          PROVE  BlockInv' /\ textIndex' \in Nat /\ thinkingOpen' \in BOOLEAN
                 /\ textOpen' \in BOOLEAN /\ contentBlockIndex' \in Nat \cup {-1}
      <4>1. content' \in [0..contentBlockIndex' -> BlockType]
        BY <1>1, <3>1 DEF TypeOK
      <4>2. StopsMatched' /\ FlagsMatchBlock' /\ DeltasInTheirBlock' /\ OneBlockPerCall'
        BY <2>1, <3>1
        DEF IInv, StopsMatched, FlagsMatchBlock, DeltasInTheirBlock, OneBlockPerCall
      <4>3. StartedMatchesBlock'
        BY <3>1 DEF IInv, StartedMatchesBlock
      <4> QED
        BY <1>1, <3>1, <4>1, <4>2, <4>3 DEF BlockInv, TypeOK
    <3>2. ASSUME NEW d, Extends(d),
                 \A t \in ToolIdx : toolCalls'[t].started = toolCalls[t].started
          PROVE  BlockInv' /\ textIndex' \in Nat /\ thinkingOpen' \in BOOLEAN
                 /\ textOpen' \in BOOLEAN /\ contentBlockIndex' \in Nat \cup {-1}
      BY <1>1, <2>1, <3>2, ExtendKeepsBlocks DEF Extends, TypeOK
    <3>3. ASSUME NEW b, Opens(b), b.type = "tool_use", SetOpen("tool_use"),
                 UNCHANGED textIndex, b.call \in ToolIdx, ~toolCalls[b.call].started,
                 toolCalls'[b.call].started
          PROVE  BlockInv' /\ textIndex' \in Nat /\ thinkingOpen' \in BOOLEAN
                 /\ textOpen' \in BOOLEAN /\ contentBlockIndex' \in Nat \cup {-1}
      <4>1. BlockInv'
        BY <2>1, <2>2, <3>3, OpenKeepsBlocks
      <4> QED
        BY <1>1, <3>3, <4>1 DEF Opens, SetOpen, TypeOK
    <3> QED
      BY <1>15, <3>1, <3>2, <3>3, ToolCallOnBlocks
  <2>4. TypeOK' /\ EndingMatchesStage'
    BY <1>1, <1>15, <2>1, <2>2, <2>3
    DEF ToolCall, TypeOK, Stages, EndingMatchesStage, BlockInv
  <2> QED
    BY <2>3, <2>4, IInvParts
<1>16. CASE Finish
  <2>1. BlockInv'
    BY <1>16, SameKeepsBlocks DEF Finish
  <2>2. stopReason' \in StopReasons
    BY <1>1, <1>16 DEF Finish, TypeOK, StopReasons, mapFinishReason
  <2>3. TypeOK' /\ EndingMatchesStage'
    BY <1>1, <1>16, <2>1, <2>2 DEF Finish, TypeOK, Stages, EndingMatchesStage, BlockInv
  <2> QED
    BY <2>1, <2>3, IInvParts
<1>17. CASE ReturnOnAbort
  <2>1. BlockInv'
    BY <1>17, SameKeepsBlocks DEF ReturnOnAbort
  <2>2. TypeOK' /\ EndingMatchesStage'
    BY <1>1, <1>17, <2>1 DEF ReturnOnAbort, TypeOK, Stages, EndingMatchesStage, BlockInv
  <2> QED
    BY <2>1, <2>2, IInvParts
<1>18. CASE GuaranteeBlock
  <2> DEFINE b == Block("text", NoCall, NoStr, NoStr)
  <2>1. ending = "streaming" /\ ending' = ending /\ toolCalls' = toolCalls
    BY <1>1, <1>18 DEF GuaranteeBlock, EndingMatchesStage
  <2>2. BlockInv' /\ contentBlockIndex' \in Nat
    <3>1. CASE contentBlockIndex # -1
      <4>1. UNCHANGED blockVars
        BY <1>18, <3>1 DEF GuaranteeBlock
      <4> QED
        BY <1>1, <2>1, <3>1, <4>1, SameKeepsBlocks DEF TypeOK
    <3>2. CASE contentBlockIndex = -1
      <4>1. b \in BlockType /\ b.stops = 0 /\ b.deltas = <<>> /\ b.type = "text"
        BY DEF Block, BlockType
      <4>2. contentBlockIndex' = contentBlockIndex + 1 /\ content' = openBlock(content, b)
        BY <1>18, <3>2 DEF GuaranteeBlock
      <4> HIDE DEF b
      <4>3. Opens(b)
        BY <1>1, <4>1, <4>2, OpensBare
      <4>4. /\ content' \in [0..0 -> BlockType] /\ contentBlockIndex' = 0
            /\ content'[0] = b /\ b.stops = 0
            /\ \A k \in DOMAIN b.deltas : Fits(b.deltas[k], b)
        BY <3>2, <4>3 DEF Opens
      <4>5. ~thinkingOpen' /\ ~textOpen'
        BY <1>18, <3>2 DEF GuaranteeBlock, IInv, FlagsMatchBlock
      <4>6. StopsMatched' /\ FlagsMatchBlock'
        BY <2>1, <4>4, <4>5 DEF StopsMatched, FlagsMatchBlock
      <4>7. StartedMatchesBlock' /\ OneBlockPerCall'
        BY <4>1, <4>4 DEF StartedMatchesBlock, OneBlockPerCall
      <4>8. DeltasInTheirBlock'
        BY <4>4 DEF DeltasInTheirBlock, Fits
      <4> QED
        BY <4>4, <4>6, <4>7, <4>8 DEF BlockInv
    <3> QED
      BY <3>1, <3>2
  <2>3. TypeOK' /\ EndingMatchesStage'
    BY <1>1, <1>18, <2>1, <2>2 DEF GuaranteeBlock, TypeOK, Stages, EndingMatchesStage, BlockInv
  <2> QED
    BY <2>2, <2>3, IInvParts
<1>19. CASE Epilogue
  <2> DEFINE n == contentBlockIndex
  <2>1. ending = "streaming" /\ ending' = "complete" /\ n \in Nat /\ n \in 0..n
    BY <1>1, <1>19 DEF Epilogue, EndingMatchesStage, TypeOK
  <2>2. UNCHANGED <<contentBlockIndex, thinkingOpen, textOpen, textIndex, toolCalls>>
    BY <1>19 DEF Epilogue
  <2>3. content' = WriteStop(content, n)
    BY <1>19, <2>1 DEF Epilogue, closeOpenBlock
  <2>4. /\ content' \in [0..n -> BlockType]
        /\ \A j \in 0..n : j # n => content'[j] = content[j]
        /\ content'[n] = [content[n] EXCEPT !.stops = content[n].stops + 1]
    <3>1. content \in [0..n -> BlockType]
      BY <1>1 DEF TypeOK
    <3>2. /\ WriteStop(content, n) \in [0..n -> BlockType]
          /\ \A j \in 0..n : j # n => WriteStop(content, n)[j] = content[j]
          /\ WriteStop(content, n)[n] = [content[n] EXCEPT !.stops = content[n].stops + 1]
      BY <2>1, <3>1, StopWritten
    <3> QED
      BY <2>3, <3>2
  <2>5. content[n] \in BlockType /\ content[n].stops = 0
    BY <1>1, <2>1 DEF TypeOK, IInv, StopsMatched
  <2>6. \A j \in 0..n : /\ content'[j].type = content[j].type
                        /\ content'[j].call = content[j].call
                        /\ content'[j].deltas = content[j].deltas
                        /\ content'[j].stops = 1
    <3>1. ASSUME NEW j \in 0..n, j # n
          PROVE  content'[j] = content[j] /\ content[j].stops = 1
      BY <2>1, <2>4, <3>1 DEF IInv, StopsMatched
    <3>2. /\ content'[n].type = content[n].type
          /\ content'[n].call = content[n].call
          /\ content'[n].deltas = content[n].deltas
          /\ content'[n].stops = 1
      BY <2>4, <2>5 DEF BlockType
    <3> QED
      BY <3>1, <3>2
  <2>7. StopsMatched' /\ FlagsMatchBlock' /\ StartedMatchesBlock'
    BY <2>1, <2>2, <2>6
    DEF IInv, StopsMatched, FlagsMatchBlock, StartedMatchesBlock
  <2>8. DeltasInTheirBlock' /\ OneBlockPerCall'
    BY <1>1, <2>1, <2>4, <2>6 DEF IInv, TypeOK, DeltasInTheirBlock, OneBlockPerCall
  <2>9. BlockInv'
    BY <2>2, <2>4, <2>7, <2>8 DEF BlockInv
  <2>10. TypeOK' /\ EndingMatchesStage'
    BY <1>1, <1>19, <2>9
    DEF Epilogue, TypeOK, Stages, StopReasons, EndingMatchesStage, BlockInv
  <2> QED
    BY <2>9, <2>10, IInvParts
<1> QED
  BY <1>2, <1>3, <1>4, <1>5, <1>6, <1>7, <1>8, <1>9, <1>10, <1>11, <1>12, <1>13, <1>14,
     <1>15, <1>16, <1>17, <1>18, <1>19
  DEF Next, FromOutside, ProcessLine, AfterLoop, Returned

-----------------------------------------------------------------------------
(***************************************************************************)
(* What holds of every behaviour.                                          *)
(***************************************************************************)

\* The inductive invariant is an invariant of the converter.
THEOREM Invariance == Spec => []IInv
<1>1. Init => IInv
  BY InitIInv
<1>2. IInv /\ [Next]_vars => IInv'
  BY NextIInv
<1> QED
  BY <1>1, <1>2, PTL DEF Spec

\* Types: the goroutine's state stays in its types, and the wire indices of
\* the blocks are always exactly 0..contentBlockIndex.
THEOREM TypeCorrect == Spec => []TypeOK
<1>1. IInv => TypeOK
  BY DEF IInv
<1> QED
  BY <1>1, Invariance, PTL

\* Every content_block_start is matched by one content_block_stop, for every
\* sequence of lines and wherever the stream ends.
THEOREM BlocksAlwaysMatched == Spec => []BlocksMatched
<1>1. IInv => BlocksMatched
  BY DEF IInv, StopsMatched, BlocksMatched
<1> QED
  BY <1>1, Invariance, PTL

\* No thinking or text delta ever reaches a block of another type, however
\* reasoning, text and tool calls alternate.
THEOREM DeltasAlwaysInTheirBlock == Spec => []DeltasInTheirBlock
<1>1. IInv => DeltasInTheirBlock
  BY DEF IInv
<1> QED
  BY <1>1, Invariance, PTL

\* A tool call is announced at most once, whatever its entries repeat.
THEOREM OneBlockPerCallAlways == Spec => []OneBlockPerCall
<1>1. IInv => OneBlockPerCall
  BY DEF IInv
<1> QED
  BY <1>1, Invariance, PTL

-----------------------------------------------------------------------------
(***************************************************************************)
(* Refinement: StreamBlocks implements ClaudeMessage.  Each step of the    *)
(* converter is a step of the message the client assembles, or leaves it   *)
(* as it is.                                                               *)
(***************************************************************************)

\* The blocks 0..n of c as a sequence: the client's message.
AsMessage(c, n) == [i \in 1..(n + 1) |-> c[i - 1]]

-----------------------------------------------------------------------------
\* The block with wire index i is the message's block i + 1, the open block
\* its last.
LEMMA MessageOfBlocks ==
    ASSUME NEW n \in Nat \cup {-1}, NEW c \in [0..n -> BlockType]
    PROVE  /\ AsMessage(c, n) \in Seq(BlockType)
           /\ Len(AsMessage(c, n)) = n + 1
           /\ \A j \in 0..n : AsMessage(c, n)[j + 1] = c[j]
           /\ AsMessage(c, n) # <<>> <=> n >= 0
<1> DEFINE m == AsMessage(c, n)
<1>1. \A i \in 1..(n + 1) : c[i - 1] \in BlockType
  OBVIOUS
<1>2. m \in [1..(n + 1) -> BlockType]
  BY <1>1 DEF AsMessage
<1>3. n + 1 \in Nat
  OBVIOUS
<1>4. m \in Seq(BlockType) /\ Len(m) = n + 1
  BY <1>2, <1>3
<1>5. \A j \in 0..n : j + 1 \in 1..(n + 1) /\ (j + 1) - 1 = j
  OBVIOUS
<1>6. \A j \in 0..n : m[j + 1] = c[j]
  BY <1>5 DEF AsMessage
<1>7. m # <<>> <=> n >= 0
  BY <1>4
<1> QED
  BY <1>4, <1>6, <1>7

\* Adding a delta makes the deltas before it a prefix.
LEMMA AppendedHasPrefix ==
    ASSUME NEW s \in Seq(DeltaType), NEW d \in DeltaType
    PROVE  Message!IsPrefix(s, Append(s, d))
<1>1. SubSeq(s, 1, Len(s)) = SubSeq(Append(s, d), 1, Len(s))
  OBVIOUS
<1> QED
  BY <1>1 DEF Message!IsPrefix

\* What ClaudeMessage calls content, before and after a step.
Before == AsMessage(content, contentBlockIndex)
After == AsMessage(content', contentBlockIndex')

-----------------------------------------------------------------------------
\* A delta for the last block is a step Extend.
LEMMA ExtendsIsExtend ==
    ASSUME IInv, ending = "streaming", ending' = ending, NEW d, Extends(d)
    PROVE  Message!Extend
<1> DEFINE n == contentBlockIndex
<1>1. n \in Nat /\ n \in 0..n /\ contentBlockIndex' = n /\ content \in [0..n -> BlockType]
  BY DEF IInv, TypeOK, Extends
<1>2. d \in DeltaType
  BY DEF Extends
<1>3. /\ content' \in [0..n -> BlockType]
      /\ \A j \in 0..n : j # n => content'[j] = content[j]
      /\ content'[n] = [content[n] EXCEPT !.deltas = Append(content[n].deltas, d)]
  <2>1. content' = WriteDelta(content, n, d)
    BY DEF Extends
  <2> QED
    BY <1>1, <1>2, <2>1, DeltaWritten
<1>4. content[n] \in BlockType /\ content[n].stops = 0
  BY <1>1 DEF IInv, StopsMatched
<1>5. content'[n].deltas = Append(content[n].deltas, d)
  BY <1>3, <1>4 DEF BlockType
<1>6. /\ Len(Before) = n + 1 /\ Before # <<>> /\ Before[n + 1] = content[n]
      /\ \A j \in 0..n : Before[j + 1] = content[j]
  BY <1>1, MessageOfBlocks DEF Before
<1>7. /\ Len(After) = n + 1 /\ After[n + 1] = content'[n]
      /\ \A j \in 0..n : After[j + 1] = content'[j]
  <2>1. After = AsMessage(content', n)
    BY <1>1 DEF After
  <2>2. /\ Len(AsMessage(content', n)) = n + 1
        /\ \A j \in 0..n : AsMessage(content', n)[j + 1] = content'[j]
    BY <1>1, <1>3, MessageOfBlocks
  <2> QED
    BY <1>1, <2>1, <2>2
<1>8. \A i \in 1..((n + 1) - 1) : After[i] = Before[i]
  <2> SUFFICES ASSUME NEW i \in 1..n
               PROVE  After[i] = Before[i]
    BY <1>1
  <2>1. i - 1 \in 0..n /\ i - 1 # n /\ (i - 1) + 1 = i
    BY <1>1
  <2> QED
    BY <1>3, <1>6, <1>7, <2>1
<1>9. Message!Grown(content[n], content'[n])
  <2>1. Message!IsPrefix(content[n].deltas, content'[n].deltas)
    BY <1>2, <1>4, <1>5, AppendedHasPrefix DEF BlockType
  <2> QED
    BY <1>3, <1>5, <2>1 DEF Message!Grown
<1> QED
  <2>1. Message!IsOpen(Message!Last(Before))
    BY <1>4, <1>6 DEF Message!IsOpen, Message!Last
  <2>2. Message!Grown(Message!Last(Before), Message!Last(After))
    BY <1>6, <1>7, <1>9 DEF Message!Last
  <2>3. Message!KeepsFirst(Len(Before) - 1)
    BY <1>6, <1>8 DEF Message!KeepsFirst, Before, After, AsMessage
  <2> QED
    BY <1>6, <1>7, <2>1, <2>2, <2>3 DEF Message!Extend, Before, After, AsMessage

\* Closing the last block and starting another is a step Open.
LEMMA OpensIsOpen ==
    ASSUME IInv, ending = "streaming", ending' = ending, NEW b, Opens(b)
    PROVE  Message!Open
<1> DEFINE n == contentBlockIndex
<1>1. n \in Nat \cup {-1} /\ content \in [0..n -> BlockType]
  BY DEF IInv, TypeOK
<1>2. /\ contentBlockIndex' = n + 1
      /\ n + 1 \in Nat \cup {-1}
      /\ content' \in [0..(n + 1) -> BlockType]
      /\ content'[n + 1] = b
      /\ b.stops = 0
      /\ \A j \in 0..(n - 1) : content'[j] = content[j]
  BY <1>1 DEF Opens
<1>3. /\ Len(Before) = n + 1
      /\ \A j \in 0..n : Before[j + 1] = content[j]
      /\ Before # <<>> <=> n >= 0
  BY <1>1, MessageOfBlocks DEF Before
<1>4. /\ Len(After) = (n + 1) + 1
      /\ \A j \in 0..(n + 1) : After[j + 1] = content'[j]
  <2> DEFINE m == n + 1
  <2>1. m \in Nat \cup {-1} /\ content' \in [0..m -> BlockType] /\ After = AsMessage(content', m)
    BY <1>2 DEF After
  <2> HIDE DEF m
  <2>2. Len(After) = m + 1 /\ \A j \in 0..m : After[j + 1] = content'[j]
    BY <2>1, MessageOfBlocks
  <2> QED
    BY <2>2 DEF m
<1>5. \A i \in 1..((n + 1) - 1) : After[i] = Before[i]
  <2> SUFFICES ASSUME NEW i \in 1..n
               PROVE  After[i] = Before[i]
    BY <1>1
  <2>1. i - 1 \in 0..(n - 1) /\ i - 1 \in 0..n /\ i - 1 \in 0..(n + 1) /\ (i - 1) + 1 = i
    BY <1>1
  <2> QED
    BY <1>2, <1>3, <1>4, <2>1
<1>6. ASSUME n >= 0
      PROVE  Message!Closed(Before[n + 1], After[n + 1])
  <2>1. n \in 0..n /\ n \in 0..(n + 1)
    BY <1>1, <1>6
  <2>2. content[n].stops = 0
    BY <1>6 DEF IInv, StopsMatched
  <2>3. content'[n] = [content[n] EXCEPT !.stops = 1]
    <3>1. content'[n] = [content[n] EXCEPT !.stops = content[n].stops + 1]
      BY <1>6 DEF Opens
    <3> QED
      BY <2>2, <3>1
  <2>4. Before[n + 1] = content[n] /\ After[n + 1] = content'[n]
    BY <1>3, <1>4, <2>1
  <2> QED
    BY <2>2, <2>3, <2>4 DEF Message!Closed, Message!IsOpen
<1>7. After[(n + 1) + 1].stops = 0
  <2>1. n + 1 \in 0..(n + 1)
    BY <1>1
  <2> QED
    BY <1>2, <1>4, <2>1
<1> QED
  <2>1. Message!IsOpen(Message!Last(After))
    BY <1>4, <1>7 DEF Message!IsOpen, Message!Last
  <2>2. Before # <<>> => Message!Closed(Message!Last(Before), After[Len(Before)])
    BY <1>3, <1>6 DEF Message!Last
  <2>3. Message!KeepsFirst(Len(Before) - 1)
    BY <1>3, <1>5 DEF Message!KeepsFirst, Before, After, AsMessage
  <2>4. Len(After) = Len(Before) + 1
    BY <1>3, <1>4
  <2> QED
    BY <2>1, <2>2, <2>3, <2>4 DEF Message!Open, Before, After, AsMessage

\* The epilogue is the step Complete.
LEMMA EpilogueIsComplete ==
    ASSUME IInv, Epilogue
    PROVE  Message!Complete
<1> DEFINE n == contentBlockIndex
<1>1. /\ ending = "streaming" /\ ending' = "complete"
      /\ n \in Nat /\ n \in 0..n /\ contentBlockIndex' = n
      /\ content \in [0..n -> BlockType]
  BY DEF IInv, TypeOK, EndingMatchesStage, Epilogue
<1>2. content' = WriteStop(content, n)
  BY <1>1 DEF Epilogue, closeOpenBlock
<1>3. /\ content' \in [0..n -> BlockType]
      /\ \A j \in 0..n : j # n => content'[j] = content[j]
      /\ content'[n] = [content[n] EXCEPT !.stops = content[n].stops + 1]
  BY <1>1, <1>2, StopWritten
<1>4. content[n].stops = 0
  BY <1>1 DEF IInv, StopsMatched
<1>5. /\ Len(Before) = n + 1 /\ Before # <<>>
      /\ \A j \in 0..n : Before[j + 1] = content[j]
  BY <1>1, MessageOfBlocks DEF Before
<1>6. /\ Len(After) = n + 1
      /\ \A j \in 0..n : After[j + 1] = content'[j]
  <2>1. After = AsMessage(content', n)
    BY <1>1 DEF After
  <2>2. /\ Len(AsMessage(content', n)) = n + 1
        /\ \A j \in 0..n : AsMessage(content', n)[j + 1] = content'[j]
    BY <1>1, <1>3, MessageOfBlocks
  <2> QED
    BY <2>1, <2>2
<1>7. \A i \in 1..((n + 1) - 1) : After[i] = Before[i]
  <2> SUFFICES ASSUME NEW i \in 1..n
               PROVE  After[i] = Before[i]
    BY <1>1
  <2>1. i - 1 \in 0..n /\ i - 1 # n /\ (i - 1) + 1 = i
    BY <1>1
  <2> QED
    BY <1>3, <1>5, <1>6, <2>1
<1>8. Message!Closed(Before[n + 1], After[n + 1])
  <2>1. Before[n + 1] = content[n] /\ After[n + 1] = content'[n]
    BY <1>1, <1>5, <1>6
  <2>2. content'[n] = [content[n] EXCEPT !.stops = 1]
    BY <1>3, <1>4
  <2> QED
    BY <1>4, <2>1, <2>2 DEF Message!Closed, Message!IsOpen
<1> QED
  <2>1. Message!Closed(Message!Last(Before), Message!Last(After))
    BY <1>5, <1>6, <1>8 DEF Message!Last
  <2>2. Message!KeepsFirst(Len(Before) - 1)
    BY <1>5, <1>7 DEF Message!KeepsFirst, Before, After, AsMessage
  <2>3. Len(After) = Len(Before)
    BY <1>5, <1>6
  <2> QED
    BY <1>1, <1>5, <2>1, <2>2, <2>3 DEF Message!Complete, Before, After, AsMessage

\* A step that leaves the blocks and the ending alone is a stuttering step.
LEMMA SilentStutters ==
    ASSUME UNCHANGED blockVars, ending' = ending
    PROVE  UNCHANGED Message!vars
  BY DEF blockVars, Message!vars

\* A message that ends without an epilogue is the step Fail.
LEMMA FailIsFail ==
    ASSUME UNCHANGED blockVars, ending = "streaming", ending' \in {"failed", "cut"}
    PROVE  Message!Fail
  BY DEF blockVars, Message!Fail

-----------------------------------------------------------------------------
\* The converter starts with an empty message.
LEMMA InitRefines ==
    ASSUME Init
    PROVE  Message!Init
<1>1. 1..(contentBlockIndex + 1) = {}
  BY DEF Init
<1>2. [i \in 1..(contentBlockIndex + 1) |-> content[i - 1]] = <<>>
  BY <1>1
<1> QED
  BY <1>2 DEF Init, Message!Init

\* Every step of the converter is a step of the message or a stuttering step.
LEMMA NextRefines ==
    ASSUME IInv, [Next]_vars
    PROVE  [Message!Next]_(Message!vars)
<1> USE DEF Message!Next
<1>1. EndingMatchesStage
  BY DEF IInv
<1>2. CASE UNCHANGED vars
  BY <1>2, SilentStutters DEF vars, endVars
<1>3. CASE StillConnected
  BY <1>3, SilentStutters DEF StillConnected, endVars
<1>4. CASE Disconnect
  <2>1. ending = "streaming"
    BY <1>1, <1>4 DEF Disconnect, EndingMatchesStage
  <2> QED
    BY <1>4, <2>1, FailIsFail DEF Disconnect
<1>5. CASE \E l \in Lines : ReceiveLine(l)
  BY <1>5, SilentStutters DEF ReceiveLine, endVars
<1>6. CASE EndOfStream
  BY <1>6, SilentStutters DEF EndOfStream, endVars
<1>7. CASE ReadError
  BY <1>7, SilentStutters DEF ReadError, endVars
<1>8. CASE Stall
  <2>1. ending = "streaming"
    BY <1>1, <1>8 DEF Stall, EndingMatchesStage
  <2> QED
    BY <1>8, <2>1, FailIsFail DEF Stall
<1>9. CASE SkipLine
  BY <1>9, SilentStutters DEF SkipLine, endVars
<1>10. CASE Done
  BY <1>10, SilentStutters DEF Done, endVars
<1>11. CASE ErrorFrame
  <2>1. ending = "streaming"
    BY <1>1, <1>11 DEF ErrorFrame, EndingMatchesStage
  <2> QED
    BY <1>11, <2>1, FailIsFail DEF ErrorFrame
<1>12. CASE Chunk
  BY <1>12, SilentStutters DEF Chunk, endVars
<1>13. CASE Reasoning
  <2>1. ending = "streaming" /\ ending' = ending
    BY <1>1, <1>13 DEF Reasoning, EndingMatchesStage, endVars
  <2>2. CASE UNCHANGED blockVars
    BY <2>1, <2>2, SilentStutters
  <2>3. ASSUME NEW d, Extends(d)
        PROVE  Message!Next
    BY <2>1, <2>3, ExtendsIsExtend
  <2>4. ASSUME NEW b, Opens(b)
        PROVE  Message!Next
    BY <2>1, <2>4, OpensIsOpen
  <2> QED
    BY <1>13, <2>2, <2>3, <2>4, ReasoningOnBlocks
<1>14. CASE Text
  <2>1. ending = "streaming" /\ ending' = ending
    BY <1>1, <1>14 DEF Text, EndingMatchesStage, endVars
  <2>2. CASE UNCHANGED blockVars
    BY <2>1, <2>2, SilentStutters
  <2>3. ASSUME NEW d, Extends(d)
        PROVE  Message!Next
    BY <2>1, <2>3, ExtendsIsExtend
  <2>4. ASSUME NEW b, Opens(b)
        PROVE  Message!Next
    BY <2>1, <2>4, OpensIsOpen
  <2> QED
    BY <1>14, <2>2, <2>3, <2>4, TextOnBlocks
<1>15. CASE ToolCall
  <2>1. ending = "streaming" /\ ending' = ending
    BY <1>1, <1>15 DEF ToolCall, EndingMatchesStage, endVars
  <2>2. CASE UNCHANGED blockVars
    BY <2>1, <2>2, SilentStutters
  <2>3. ASSUME NEW d, Extends(d)
        PROVE  Message!Next
    BY <2>1, <2>3, ExtendsIsExtend
  <2>4. ASSUME NEW b, Opens(b)
        PROVE  Message!Next
    BY <2>1, <2>4, OpensIsOpen
  <2> QED
    BY <1>15, <2>2, <2>3, <2>4, ToolCallOnBlocks
<1>16. CASE Finish
  BY <1>16, SilentStutters DEF Finish, endVars
<1>17. CASE ReturnOnAbort
  BY <1>17, SilentStutters DEF ReturnOnAbort, endVars
<1>18. CASE GuaranteeBlock
  <2> DEFINE b == Block("text", NoCall, NoStr, NoStr)
  <2>1. ending = "streaming" /\ ending' = ending
    BY <1>1, <1>18 DEF GuaranteeBlock, EndingMatchesStage, endVars
  <2>2. CASE contentBlockIndex # -1
    BY <1>18, <2>1, <2>2, SilentStutters DEF GuaranteeBlock, blockVars
  <2>3. CASE contentBlockIndex = -1
    <3>1. b \in BlockType /\ b.stops = 0 /\ b.deltas = <<>>
      BY DEF Block, BlockType
    <3>2. contentBlockIndex' = contentBlockIndex + 1 /\ content' = openBlock(content, b)
      BY <1>18, <2>3 DEF GuaranteeBlock
    <3> HIDE DEF b
    <3>3. Opens(b)
      BY <3>1, <3>2, OpensBare DEF IInv
    <3> QED
      BY <2>1, <3>3, OpensIsOpen
  <2> QED
    BY <2>2, <2>3
<1>19. CASE Epilogue
  BY <1>19, EpilogueIsComplete
<1> QED
  BY <1>2, <1>3, <1>4, <1>5, <1>6, <1>7, <1>8, <1>9, <1>10, <1>11, <1>12, <1>13, <1>14,
     <1>15, <1>16, <1>17, <1>18, <1>19
  DEF Next, FromOutside, ProcessLine, AfterLoop, Returned

\* What a client sees of any stream, from any upstream, is a message as
\* ClaudeMessage describes it: closed blocks never change, one block is open at
\* a time, a message ends once and is silent afterwards.
THEOREM MessagePromiseKept == Spec => KeepsMessagePromise
<1>1. Init => Message!Init
  BY InitRefines
<1>2. IInv /\ [Next]_vars => [Message!Next]_(Message!vars)
  BY NextRefines
<1> QED
  BY <1>1, <1>2, Invariance, PTL DEF Spec, KeepsMessagePromise, Message!Spec

-----------------------------------------------------------------------------
(***************************************************************************)
(* Delivery: the inductive invariants.                                     *)
(***************************************************************************)

\* The delta of the current line is still to be handled, from its reasoning,
\* its text or its tool calls on.
ReasoningAhead == (pc = "line" /\ HasDelta(line)) \/ pc = "reasoning"
TextAhead == ReasoningAhead \/ pc = "text"

ReasoningLeft == IF ReasoningAhead THEN line.reasoning ELSE <<>>
TextLeft == IF TextAhead THEN line.content ELSE <<>>
EntriesLeft == IF TextAhead THEN line.tools ELSE IF pc = "tools" THEN rest ELSE <<>>

\* What the upstream has sent, of each kind.
SentReasoning == SentBy(LAMBDA l : l.reasoning)
SentText == SentBy(LAMBDA l : l.content)
SentArgs(t) == SentBy(LAMBDA l : ArgsOf(t, l))

\* In the stages of a delta the line has one.
DeltaStages == pc \in {"reasoning", "text", "tools"} => HasDelta(line)

\* What was delivered, what is buffered for a call and what is left of the
\* current line make up what was sent; nothing stays buffered for a call that
\* has started.
DeliveryInv ==
    /\ DeltaStages
    /\ Delivered("thinking_delta", NoCall) \o ReasoningLeft = SentReasoning
    /\ Delivered("text_delta", NoCall) \o TextLeft = SentText
    /\ \A t \in ToolIdx :
        /\ Delivered("input_json_delta", t) \o (toolCalls[t].args \o ArgsIn(t, EntriesLeft))
              = SentArgs(t)
        /\ toolCalls[t].started => toolCalls[t].args = <<>>

\* The usage and the finish reason that lines give.
UsageIn(lines) ==
    LastGiven([k \in DOMAIN lines |-> IF lines[k].kind = "chunk" THEN lines[k].usage
                                                                ELSE NoUsage],
              NoUsage, 0)
FinishIn(lines) ==
    LastGiven([k \in DOMAIN lines |-> IF HasDelta(lines[k]) THEN lines[k].finish ELSE NoStr],
              NoStr, "stop")

\* The lines whose usage, and those whose finish reason, has been noted.
UsageNoted == IF pc = "line" THEN Front(seen) ELSE seen
FinishNoted == IF pc \in {"line", "reasoning", "text", "tools"} THEN Front(seen) ELSE seen

\* The report holds what they gave; once sent it stays.
ReportInv ==
    /\ outputTokens = UsageIn(UsageNoted)
    /\ stopReason = "error" \/ stopReason = mapFinishReason(FinishIn(FinishNoted))
    /\ ending = "complete" =>
        /\ final = [stopReason |-> stopReason, outputTokens |-> outputTokens]
        /\ pc = "returned"

\* Who has been spoken of, by all lines and by what is left of the current one.
Said == FlattenSeq([k \in DOMAIN seen |-> Speakers(seen[k])])

Callers(entries) == [k \in DOMAIN entries |-> IndexOf(entries[k])]

ToSpeak ==
    CASE ReasoningAhead -> Speakers(line)
      [] pc = "text"    -> (IF line.reasoning = <<>> /\ line.content # <<>>
                            THEN <<NoCall>> ELSE <<>>) \o Callers(line.tools)
      [] pc = "tools"   -> Callers(rest)
      [] OTHER          -> <<>>

\* The last block is that of call t.
BlockOf(t) ==
    /\ contentBlockIndex >= 0
    /\ content[contentBlockIndex].type = "tool_use"
    /\ content[contentBlockIndex].call = t

\* A call that has started was spoken of, and if its block is not the last one,
\* then another was spoken of after it.
Interrupted(spoken) ==
    \A t \in ToolIdx : toolCalls[t].started =>
        \E i \in DOMAIN spoken :
            /\ spoken[i] = t
            /\ BlockOf(t) \/ \E j \in DOMAIN spoken : i < j /\ spoken[j] # t

Speaker == ToolIdx \cup {NoCall}

\* Text that follows reasoning in a line follows a thinking block.
ThinkingLast ==
    pc = "text" /\ line.reasoning # <<>> =>
        contentBlockIndex >= 0 /\ content[contentBlockIndex].type = "thinking"

PlaceInv ==
    /\ ThinkingLast
    /\ \E spoken \in Seq(Speaker) : spoken \o ToSpeak = Said /\ Interrupted(spoken)
    /\ ToolArgsInPlaceInOrder

-----------------------------------------------------------------------------
(***************************************************************************)
(* The deltas of all blocks, and how a step adds to them.                  *)
(***************************************************************************)
DeltasIn(c, n) == FlattenSeq([i \in 1..(n + 1) |-> c[i - 1].deltas])

\* The last block's deltas come last.
LEMMA DeltasLast ==
    ASSUME NEW n \in Nat, NEW c, \A j \in 0..n : c[j].deltas \in Seq(DeltaType)
    PROVE  /\ DeltasIn(c, n - 1) \in Seq(DeltaType)
           /\ DeltasIn(c, n) = DeltasIn(c, n - 1) \o c[n].deltas
<1> DEFINE front == [i \in 1..n |-> c[i - 1].deltas]
           all == [i \in 1..(n + 1) |-> c[i - 1].deltas]
           x == c[n].deltas
<1>1. \A i \in 1..n : c[i - 1].deltas \in Seq(DeltaType)
  <2> SUFFICES ASSUME NEW i \in 1..n PROVE c[i - 1].deltas \in Seq(DeltaType)
    OBVIOUS
  <2>1. i - 1 \in 0..n
    OBVIOUS
  <2> QED
    BY <2>1
<1>2. front \in Seq(Seq(DeltaType)) /\ Len(front) = n
  BY <1>1
<1>3. x \in Seq(DeltaType)
  OBVIOUS
<1>4. all = Append(front, x)
  <2>1. ASSUME NEW i \in 1..(n + 1) PROVE all[i] = Append(front, x)[i]
    <3>1. CASE i = n + 1
      <4>1. i - 1 = n
        BY <3>1
      <4>2. Append(front, x)[i] = x
        BY <1>2, <1>3, <3>1
      <4> QED
        BY <4>1, <4>2
    <3>2. CASE i # n + 1
      <4>1. i \in 1..n
        BY <3>2
      <4> QED
        BY <1>2, <4>1
    <3> QED
      BY <3>1, <3>2
  <2>2. Append(front, x) \in Seq(Seq(DeltaType)) /\ Len(Append(front, x)) = n + 1
    BY <1>2, <1>3
  <2>3. DOMAIN Append(front, x) = 1..(n + 1)
    BY <2>2
  <2> QED
    BY <2>1, <2>2, <2>3
<1>5. DeltasIn(c, n - 1) = FlattenSeq(front)
  <2>1. n - 1 + 1 = n
    OBVIOUS
  <2> QED
    BY <2>1, Zenon DEF DeltasIn
<1>6. DeltasIn(c, n) = FlattenSeq(all)
  BY DEF DeltasIn
<1> HIDE DEF front, all, x
<1>7. FlattenSeq(Append(front, x)) = FlattenSeq(front) \o x
  BY <1>2, <1>3, FlattenAppend
<1>8. FlattenSeq(front) \in Seq(DeltaType)
  BY <1>2, FlattenType
<1> QED
  BY <1>4, <1>5, <1>6, <1>7, <1>8 DEF x

\* Only the blocks' deltas count.
LEMMA DeltasSame ==
    ASSUME NEW n \in Nat \cup {-1}, NEW c, NEW d,
           \A j \in 0..n : c[j].deltas = d[j].deltas
    PROVE  DeltasIn(c, n) = DeltasIn(d, n)
<1>1. \A i \in 1..(n + 1) : c[i - 1].deltas = d[i - 1].deltas
  <2> SUFFICES ASSUME NEW i \in 1..(n + 1) PROVE c[i - 1].deltas = d[i - 1].deltas
    OBVIOUS
  <2>1. i - 1 \in 0..n
    OBVIOUS
  <2> QED
    BY <2>1
<1>2. [i \in 1..(n + 1) |-> c[i - 1].deltas] = [i \in 1..(n + 1) |-> d[i - 1].deltas]
  BY <1>1
<1> QED
  BY <1>2, Zenon DEF DeltasIn

\* The deltas sent are deltas.
LEMMA AllDeltasType ==
    ASSUME TypeOK
    PROVE  AllDeltas \in Seq(DeltaType) /\ AllDeltas = DeltasIn(content, contentBlockIndex)
<1>1. AllDeltas = DeltasIn(content, contentBlockIndex)
  BY DEF AllDeltas, DeltasIn
<1>2. contentBlockIndex \in Nat \cup {-1} /\ content \in [0..contentBlockIndex -> BlockType]
  BY DEF TypeOK
<1>3. \A j \in 0..contentBlockIndex : content[j].deltas \in Seq(DeltaType)
  BY <1>2 DEF BlockType
<1>4. CASE contentBlockIndex = -1
  <2>1. [i \in 1..(contentBlockIndex + 1) |-> content[i - 1].deltas] = <<>>
    BY <1>4
  <2>2. <<>> \in Seq(DeltaType)
    OBVIOUS
  <2> QED
    BY <1>1, <2>1, <2>2, FlattenEmpty, Zenon DEF DeltasIn
<1>5. CASE contentBlockIndex \in Nat
  <2>1. contentBlockIndex \in 0..contentBlockIndex
    BY <1>5
  <2>2. DeltasIn(content, contentBlockIndex - 1) \in Seq(DeltaType)
    BY <1>3, <1>5, DeltasLast
  <2>3. DeltasIn(content, contentBlockIndex)
          = DeltasIn(content, contentBlockIndex - 1) \o content[contentBlockIndex].deltas
    BY <1>3, <1>5, DeltasLast
  <2> QED
    BY <1>1, <1>3, <2>1, <2>2, <2>3
<1> QED
  BY <1>2, <1>4, <1>5

\* A step that extends the last block adds its delta.
LEMMA ExtendsEmits ==
    ASSUME TypeOK, NEW d, Extends(d)
    PROVE  d \in DeltaType /\ AllDeltas' = Append(AllDeltas, d)
<1> DEFINE n == contentBlockIndex
<1>1. n \in Nat /\ n' = n /\ content \in [0..n -> BlockType] /\ n \in 0..n /\ d \in DeltaType
  BY DEF TypeOK, Extends
<1>2. /\ content' \in [0..n -> BlockType]
      /\ \A j \in 0..n : j # n => content'[j] = content[j]
      /\ content'[n] = [content[n] EXCEPT !.deltas = Append(content[n].deltas, d)]
  BY <1>1, DeltaWritten DEF Extends
<1>3. /\ \A j \in 0..n : content[j].deltas \in Seq(DeltaType)
      /\ \A j \in 0..n : content'[j].deltas \in Seq(DeltaType)
  BY <1>1, <1>2 DEF BlockType
<1>4. content'[n].deltas = Append(content[n].deltas, d)
  BY <1>1, <1>2 DEF BlockType
<1>5. DeltasIn(content, n) = DeltasIn(content, n - 1) \o content[n].deltas
  BY <1>1, <1>3, DeltasLast
<1>6. DeltasIn(content', n) = DeltasIn(content', n - 1) \o content'[n].deltas
  BY <1>1, <1>3, DeltasLast
<1>7. DeltasIn(content', n - 1) = DeltasIn(content, n - 1)
  <2>1. \A j \in 0..(n - 1) : content'[j].deltas = content[j].deltas
    BY <1>1, <1>2
  <2>2. n - 1 \in Nat \cup {-1}
    BY <1>1
  <2> QED
    BY <2>1, <2>2, DeltasSame
<1>8. DeltasIn(content, n - 1) \in Seq(DeltaType)
  BY <1>1, <1>3, DeltasLast
<1>9. DeltasIn(content, n - 1) \o Append(content[n].deltas, d)
        = Append(DeltasIn(content, n - 1) \o content[n].deltas, d)
  <2>1. content[n].deltas \in Seq(DeltaType)
    BY <1>1, <1>3
  <2> QED
    BY <1>1, <1>8, <2>1, ConcatThenAppend
<1>10. AllDeltas = DeltasIn(content, n) /\ AllDeltas' = DeltasIn(content', n')
  BY DEF AllDeltas, DeltasIn
<1> HIDE DEF n
<1> QED
  BY <1>1, <1>4, <1>5, <1>6, <1>7, <1>9, <1>10, Zenon

\* A step that opens a block adds the deltas it is opened with.
LEMMA OpensEmits ==
    ASSUME TypeOK, NEW b, Opens(b)
    PROVE  AllDeltas' = AllDeltas \o b.deltas
<1> DEFINE n == contentBlockIndex
<1>1. n \in Nat \cup {-1} /\ n' = n + 1 /\ content \in [0..n -> BlockType]
  BY DEF TypeOK, Opens
<1>2. /\ content' \in [0..(n + 1) -> BlockType]
      /\ \A j \in 0..(n - 1) : content'[j] = content[j]
      /\ n >= 0 => content'[n] = [content[n] EXCEPT !.stops = content[n].stops + 1]
      /\ content'[n + 1] = b
  BY DEF Opens
<1>3. \A j \in 0..n : content'[j].deltas = content[j].deltas
  <2> SUFFICES ASSUME NEW j \in 0..n PROVE content'[j].deltas = content[j].deltas
    OBVIOUS
  <2>1. CASE j # n
    <3>1. j \in 0..(n - 1)
      BY <1>1, <2>1
    <3> QED
      BY <1>2, <3>1
  <2>2. CASE j = n
    <3>1. n >= 0 /\ content[n] \in BlockType
      BY <1>1, <2>2
    <3> QED
      BY <1>2, <2>2, <3>1 DEF BlockType
  <2> QED
    BY <2>1, <2>2
<1>4. \A j \in 0..(n + 1) : content'[j].deltas \in Seq(DeltaType)
  BY <1>2 DEF BlockType
<1>5. PICK m \in Nat : m = n + 1 /\ m - 1 = n
  BY <1>1
<1>6. DeltasIn(content', m) = DeltasIn(content', m - 1) \o content'[m].deltas
  BY <1>4, <1>5, DeltasLast
<1>7. DeltasIn(content', n) = DeltasIn(content, n)
  BY <1>1, <1>3, DeltasSame
<1>8. AllDeltas = DeltasIn(content, n) /\ AllDeltas' = DeltasIn(content', n')
  BY DEF AllDeltas, DeltasIn
<1> HIDE DEF n
<1> QED
  BY <1>1, <1>2, <1>5, <1>6, <1>7, <1>8, Zenon

\* Completing the message adds none.
LEMMA EpilogueEmits ==
    ASSUME TypeOK, Epilogue
    PROVE  AllDeltas' = AllDeltas
<1> DEFINE n == contentBlockIndex
<1>1. n \in Nat \cup {-1} /\ n' = n /\ content \in [0..n -> BlockType]
  BY DEF TypeOK, Epilogue
<1>2. \A j \in 0..n : content'[j].deltas = content[j].deltas
  <2>1. CASE n = -1
    BY <2>1
  <2>2. CASE n # -1
    <3>1. n \in Nat /\ n \in 0..n /\ content' = WriteStop(content, n)
      BY <1>1, <2>2 DEF Epilogue, closeOpenBlock
    <3>2. /\ \A j \in 0..n : j # n => WriteStop(content, n)[j] = content[j]
          /\ WriteStop(content, n)[n] = [content[n] EXCEPT !.stops = content[n].stops + 1]
      BY <1>1, <3>1, StopWritten
    <3>3. content'[n].deltas = content[n].deltas
      BY <1>1, <3>1, <3>2 DEF BlockType
    <3> QED
      BY <3>1, <3>2, <3>3
  <2> QED
    BY <2>1, <2>2
<1>3. DeltasIn(content', n) = DeltasIn(content, n)
  BY <1>1, <1>2, DeltasSame
<1>4. AllDeltas = DeltasIn(content, n) /\ AllDeltas' = DeltasIn(content', n')
  BY DEF AllDeltas, DeltasIn
<1> QED
  BY <1>1, <1>3, <1>4

-----------------------------------------------------------------------------
(***************************************************************************)
(* What deltas, entries and lines carry, as functions to be mapped.        *)
(***************************************************************************)
Carried(type, call) ==
    [d \in DeltaType |-> IF d.type = type /\ d.call = call THEN d.data ELSE <<>>]

ArgsFor(t) == [e \in ToolEntry |-> IF IndexOf(e) = t THEN e.args ELSE <<>>]

ReasoningIn == [l \in Lines |-> IF HasDelta(l) THEN l.reasoning ELSE <<>>]
TextIn == [l \in Lines |-> IF HasDelta(l) THEN l.content ELSE <<>>]
ArgsOfIn(t) == [l \in Lines |-> IF HasDelta(l) THEN ArgsOf(t, l) ELSE <<>>]

\* What a delta carries of a kind of data, or for a call, is a sequence of
\* fragments.
LEMMA CarriedType ==
    ASSUME NEW type, NEW call
    PROVE  Carried(type, call) \in [DeltaType -> Seq(Frags)]
<1>1. <<>> \in Seq(Frags)
  OBVIOUS
<1>2. \A d \in DeltaType : d.data \in Seq(Frags)
  BY DEF DeltaType
<1> QED
  BY <1>1, <1>2 DEF Carried

\* DataOf maps and flattens.
LEMMA DataOfMaps ==
    ASSUME NEW type, NEW call, NEW ds \in Seq(DeltaType)
    PROVE  DataOf(ds, type, call) = FlatMap(Carried(type, call), ds)
<1>1. \A k \in DOMAIN ds : ds[k] \in DeltaType
  OBVIOUS
<1>2. \A k \in DOMAIN ds : Carried(type, call)[ds[k]]
        = IF ds[k].type = type /\ ds[k].call = call THEN ds[k].data ELSE <<>>
  BY <1>1 DEF Carried
<1>3. Mapped(Carried(type, call), ds)
        = [k \in DOMAIN ds |->
             IF ds[k].type = type /\ ds[k].call = call THEN ds[k].data ELSE <<>>]
  BY <1>2 DEF Mapped
<1> QED
  BY <1>3, Zenon DEF DataOf, FlatMap

\* What deltas carry is a string.
LEMMA DataOfType ==
    ASSUME NEW type, NEW call, NEW ds \in Seq(DeltaType)
    PROVE  DataOf(ds, type, call) \in Seq(Frags)
  BY DataOfMaps, CarriedType, FlatMapType

\* No deltas carry no data.
LEMMA DataOfEmpty ==
    ASSUME NEW type, NEW call
    PROVE  DataOf(<<>>, type, call) = <<>>
<1>1. <<>> \in Seq(DeltaType)
  OBVIOUS
<1>2. DataOf(<<>>, type, call) = FlatMap(Carried(type, call), <<>>)
  BY <1>1, DataOfMaps
<1> QED
  BY <1>2, FlatMapEmpty, Zenon

\* One more delta adds what it carries, if it is of the kind.
LEMMA DataOfAppend ==
    ASSUME NEW type, NEW call, NEW ds \in Seq(DeltaType), NEW d \in DeltaType
    PROVE  /\ d.type = type /\ d.call = call =>
                DataOf(Append(ds, d), type, call) = DataOf(ds, type, call) \o d.data
           /\ ~(d.type = type /\ d.call = call) =>
                DataOf(Append(ds, d), type, call) = DataOf(ds, type, call)
<1> DEFINE g == Carried(type, call)
<1>1. Append(ds, d) \in Seq(DeltaType)
  OBVIOUS
<1>2. g \in [DeltaType -> Seq(Frags)]
  BY CarriedType
<1>3. DataOf(Append(ds, d), type, call) = FlatMap(g, Append(ds, d))
  BY <1>1, DataOfMaps
<1>4. DataOf(ds, type, call) = FlatMap(g, ds) /\ FlatMap(g, ds) \in Seq(Frags)
  BY <1>2, DataOfMaps, FlatMapType
<1>5. g[d] = IF d.type = type /\ d.call = call THEN d.data ELSE <<>>
  BY DEF Carried
<1> HIDE DEF g
<1>6. FlatMap(g, Append(ds, d)) = FlatMap(g, ds) \o g[d]
  BY <1>2, FlatMapAppend
<1>7. FlatMap(g, ds) \o <<>> = FlatMap(g, ds)
  BY <1>4
<1> QED
  BY <1>3, <1>4, <1>5, <1>6, <1>7, Zenon

\* What an entry gives for a call is a sequence of fragments.
LEMMA ArgsForType ==
    ASSUME NEW t
    PROVE  ArgsFor(t) \in [ToolEntry -> Seq(Frags)]
<1>1. <<>> \in Seq(Frags)
  OBVIOUS
<1>2. \A e \in ToolEntry : e.args \in Seq(Frags)
  BY DEF ToolEntry
<1> QED
  BY <1>1, <1>2 DEF ArgsFor

\* ArgsIn maps and flattens.
LEMMA ArgsInMaps ==
    ASSUME NEW t, NEW es \in Seq(ToolEntry)
    PROVE  ArgsIn(t, es) = FlatMap(ArgsFor(t), es)
<1>1. \A k \in DOMAIN es : es[k] \in ToolEntry
  OBVIOUS
<1>2. \A k \in DOMAIN es : ArgsFor(t)[es[k]] = IF IndexOf(es[k]) = t THEN es[k].args ELSE <<>>
  BY <1>1 DEF ArgsFor
<1>3. Mapped(ArgsFor(t), es)
        = [k \in DOMAIN es |-> IF IndexOf(es[k]) = t THEN es[k].args ELSE <<>>]
  BY <1>2 DEF Mapped
<1> QED
  BY <1>3, Zenon DEF ArgsIn, FlatMap

\* So is what entries give for it together.
LEMMA ArgsInType ==
    ASSUME NEW t, NEW es \in Seq(ToolEntry)
    PROVE  ArgsIn(t, es) \in Seq(Frags)
  BY ArgsInMaps, ArgsForType, FlatMapType

\* No entries give nothing.
LEMMA ArgsInEmpty ==
    ASSUME NEW t
    PROVE  ArgsIn(t, <<>>) = <<>>
<1>1. <<>> \in Seq(ToolEntry)
  OBVIOUS
<1> QED
  BY <1>1, ArgsInMaps, FlatMapEmpty, Zenon

\* The first entry's arguments come first.
LEMMA ArgsInHead ==
    ASSUME NEW t, NEW es \in Seq(ToolEntry), es # <<>>
    PROVE  /\ IndexOf(Head(es)) = t => ArgsIn(t, es) = Head(es).args \o ArgsIn(t, Tail(es))
           /\ IndexOf(Head(es)) # t => ArgsIn(t, es) = ArgsIn(t, Tail(es))
<1> DEFINE g == ArgsFor(t)
           e == Head(es)
           u == Tail(es)
<1>1. e \in ToolEntry /\ u \in Seq(ToolEntry)
  OBVIOUS
<1>2. g \in [ToolEntry -> Seq(Frags)]
  BY ArgsForType
<1>3. ArgsIn(t, es) = FlatMap(g, es)
  BY ArgsInMaps
<1>4. g[e] = IF IndexOf(e) = t THEN e.args ELSE <<>>
  BY <1>1 DEF ArgsFor
<1> HIDE DEF g
<1>5. FlatMap(g, es) = g[e] \o FlatMap(g, u)
  BY <1>2, FlatMapHead
<1> HIDE DEF e, u
<1>6. ArgsIn(t, u) = FlatMap(g, u) /\ FlatMap(g, u) \in Seq(Frags)
  BY <1>1, <1>2, ArgsInMaps, FlatMapType DEF g
<1>7. <<>> \o FlatMap(g, u) = FlatMap(g, u)
  BY <1>6
<1> QED
  BY <1>3, <1>4, <1>5, <1>6, <1>7, Zenon DEF e, u

\* What a line says, of each kind, is a string.
LEMMA LineParts ==
    /\ ReasoningIn \in [Lines -> Seq(Frags)]
    /\ TextIn \in [Lines -> Seq(Frags)]
    /\ \A t : ArgsOfIn(t) \in [Lines -> Seq(Frags)]
<1>1. <<>> \in Seq(Frags)
  OBVIOUS
<1>2. \A l \in Lines : /\ l.reasoning \in Seq(Frags) /\ l.content \in Seq(Frags)
                       /\ l.tools \in Seq(ToolEntry)
  BY LinesAssumption DEF Line
<1>3. \A t : \A l \in Lines : ArgsOf(t, l) \in Seq(Frags)
  BY <1>2, ArgsInType DEF ArgsOf
<1>4. ReasoningIn \in [Lines -> Seq(Frags)]
  BY <1>1, <1>2 DEF ReasoningIn
<1>5. TextIn \in [Lines -> Seq(Frags)]
  BY <1>1, <1>2 DEF TextIn
<1>6. \A t : ArgsOfIn(t) \in [Lines -> Seq(Frags)]
  BY <1>1, <1>3 DEF ArgsOfIn
<1> QED
  BY <1>4, <1>5, <1>6

\* What was sent, mapped and flattened from the lines.
LEMMA SentMaps ==
    ASSUME seen \in Seq(Lines)
    PROVE  /\ SentReasoning = FlatMap(ReasoningIn, seen)
           /\ SentText = FlatMap(TextIn, seen)
           /\ \A t : SentArgs(t) = FlatMap(ArgsOfIn(t), seen)
<1>1. \A k \in DOMAIN seen : seen[k] \in Lines
  OBVIOUS
<1>2. Mapped(ReasoningIn, seen)
        = [k \in DOMAIN seen |-> IF HasDelta(seen[k]) THEN seen[k].reasoning ELSE <<>>]
  <2>1. \A k \in DOMAIN seen : ReasoningIn[seen[k]]
          = IF HasDelta(seen[k]) THEN seen[k].reasoning ELSE <<>>
    BY <1>1 DEF ReasoningIn
  <2> QED
    BY <2>1 DEF Mapped
<1>3. Mapped(TextIn, seen)
        = [k \in DOMAIN seen |-> IF HasDelta(seen[k]) THEN seen[k].content ELSE <<>>]
  <2>1. \A k \in DOMAIN seen : TextIn[seen[k]]
          = IF HasDelta(seen[k]) THEN seen[k].content ELSE <<>>
    BY <1>1 DEF TextIn
  <2> QED
    BY <2>1 DEF Mapped
<1>4. ASSUME NEW t
      PROVE  Mapped(ArgsOfIn(t), seen)
               = [k \in DOMAIN seen |-> IF HasDelta(seen[k]) THEN ArgsOf(t, seen[k]) ELSE <<>>]
  <2>1. \A k \in DOMAIN seen : ArgsOfIn(t)[seen[k]]
          = IF HasDelta(seen[k]) THEN ArgsOf(t, seen[k]) ELSE <<>>
    BY <1>1 DEF ArgsOfIn
  <2> QED
    BY <2>1 DEF Mapped
<1>5. SentReasoning = FlatMap(ReasoningIn, seen)
  BY <1>2, Zenon DEF SentReasoning, SentBy, FlatMap
<1>6. SentText = FlatMap(TextIn, seen)
  BY <1>3, Zenon DEF SentText, SentBy, FlatMap
<1>7. \A t : SentArgs(t) = FlatMap(ArgsOfIn(t), seen)
  BY <1>4, Zenon DEF SentArgs, SentBy, FlatMap
<1> QED
  BY <1>5, <1>6, <1>7

\* A line that is taken adds what it says.
LEMMA ReceiveAdds ==
    ASSUME seen \in Seq(Lines), NEW l \in Lines, seen' = Append(seen, l)
    PROVE  /\ SentReasoning' = SentReasoning \o ReasoningIn[l]
           /\ SentText' = SentText \o TextIn[l]
           /\ \A t : SentArgs(t)' = SentArgs(t) \o ArgsOfIn(t)[l]
<1>1. (seen \in Seq(Lines))'
  OBVIOUS
<1>2. /\ SentReasoning = FlatMap(ReasoningIn, seen)
      /\ SentText = FlatMap(TextIn, seen)
      /\ \A t : SentArgs(t) = FlatMap(ArgsOfIn(t), seen)
  BY SentMaps
<1>3. (/\ SentReasoning = FlatMap(ReasoningIn, seen)
       /\ SentText = FlatMap(TextIn, seen)
       /\ \A t : SentArgs(t) = FlatMap(ArgsOfIn(t), seen))'
  BY <1>1, SentMaps, PTL
<1>4. FlatMap(ReasoningIn, Append(seen, l)) = FlatMap(ReasoningIn, seen) \o ReasoningIn[l]
  BY LineParts, FlatMapAppend
<1>5. FlatMap(TextIn, Append(seen, l)) = FlatMap(TextIn, seen) \o TextIn[l]
  BY LineParts, FlatMapAppend
<1>6. ASSUME NEW t
      PROVE  FlatMap(ArgsOfIn(t), Append(seen, l)) = FlatMap(ArgsOfIn(t), seen) \o ArgsOfIn(t)[l]
  <2>1. ArgsOfIn(t) \in [Lines -> Seq(Frags)]
    BY LineParts
  <2> QED
    BY <2>1, FlatMapAppend
<1> QED
  BY <1>2, <1>3, <1>4, <1>5, <1>6, Zenon

\* What was sent is strings.
LEMMA SentType ==
    ASSUME seen \in Seq(Lines)
    PROVE  /\ SentReasoning \in Seq(Frags)
           /\ SentText \in Seq(Frags)
           /\ \A t : SentArgs(t) \in Seq(Frags)
<1>1. SentReasoning \in Seq(Frags)
  <2>1. FlatMap(ReasoningIn, seen) \in Seq(Frags)
    BY LineParts, FlatMapType
  <2> QED
    BY <2>1, SentMaps
<1>2. SentText \in Seq(Frags)
  <2>1. FlatMap(TextIn, seen) \in Seq(Frags)
    BY LineParts, FlatMapType
  <2> QED
    BY <2>1, SentMaps
<1>3. ASSUME NEW t PROVE SentArgs(t) \in Seq(Frags)
  <2>1. ArgsOfIn(t) \in [Lines -> Seq(Frags)]
    BY LineParts
  <2>2. FlatMap(ArgsOfIn(t), seen) \in Seq(Frags)
    BY <2>1, FlatMapType
  <2> QED
    BY <2>2, SentMaps
<1> QED
  BY <1>1, <1>2, <1>3

\* A step that takes no line leaves it alone.
LEMMA SentSame ==
    ASSUME seen' = seen
    PROVE  /\ SentReasoning' = SentReasoning
           /\ SentText' = SentText
           /\ \A t : SentArgs(t)' = SentArgs(t)
  BY Zenon DEF SentReasoning, SentText, SentArgs, SentBy

-----------------------------------------------------------------------------
(***************************************************************************)
(* What each step delivers.                                                *)
(***************************************************************************)

\* A step that sends nothing delivers nothing.
LEMMA DeliveredSame ==
    ASSUME AllDeltas' = AllDeltas
    PROVE  \A type, call : Delivered(type, call)' = Delivered(type, call)
  BY Zenon DEF Delivered

\* A step that sends one delta delivers what it carries.
LEMMA DeliveredMore ==
    ASSUME TypeOK, NEW d \in DeltaType, AllDeltas' = Append(AllDeltas, d)
    PROVE  \A type, call :
             /\ d.type = type /\ d.call = call =>
                  Delivered(type, call)' = Delivered(type, call) \o d.data
             /\ ~(d.type = type /\ d.call = call) =>
                  Delivered(type, call)' = Delivered(type, call)
<1>1. AllDeltas \in Seq(DeltaType)
  BY AllDeltasType
<1> SUFFICES ASSUME NEW type, NEW call
    PROVE  /\ d.type = type /\ d.call = call =>
                Delivered(type, call)' = Delivered(type, call) \o d.data
           /\ ~(d.type = type /\ d.call = call) =>
                Delivered(type, call)' = Delivered(type, call)
  OBVIOUS
<1>2. Delivered(type, call) = DataOf(AllDeltas, type, call)
  BY DEF Delivered
<1>3. Delivered(type, call)' = DataOf(Append(AllDeltas, d), type, call)
  BY Zenon DEF Delivered
<1>4. /\ d.type = type /\ d.call = call =>
           DataOf(Append(AllDeltas, d), type, call) = DataOf(AllDeltas, type, call) \o d.data
      /\ ~(d.type = type /\ d.call = call) =>
           DataOf(Append(AllDeltas, d), type, call) = DataOf(AllDeltas, type, call)
  BY <1>1, DataOfAppend
<1> QED
  BY <1>2, <1>3, <1>4, Zenon

\* What was delivered is strings.
LEMMA DeliveredType ==
    ASSUME TypeOK
    PROVE  \A type, call : Delivered(type, call) \in Seq(Frags)
  BY AllDeltasType, DataOfType DEF Delivered

\* A step that leaves the blocks alone sends nothing.
LEMMA BlocksSame ==
    ASSUME UNCHANGED blockVars
    PROVE  AllDeltas' = AllDeltas
  BY DEF blockVars, AllDeltas

-----------------------------------------------------------------------------
(***************************************************************************)
(* Nothing is lost: the steps.                                             *)
(***************************************************************************)

\* Nothing is left of a line.
LEMMA NothingLeft ==
    ASSUME pc \notin {"line", "reasoning", "text", "tools"}
    PROVE  ReasoningLeft = <<>> /\ TextLeft = <<>> /\ EntriesLeft = <<>>
  BY DEF ReasoningLeft, TextLeft, EntriesLeft, ReasoningAhead, TextAhead

\* A step that sends nothing, takes no line and no call, and leaves as much to
\* be handled, keeps the balance.
LEMMA SilentDelivery ==
    ASSUME DeliveryInv, AllDeltas' = AllDeltas, toolCalls' = toolCalls, seen' = seen,
           DeltaStages', ReasoningLeft' = ReasoningLeft, TextLeft' = TextLeft,
           EntriesLeft' = EntriesLeft
    PROVE  DeliveryInv'
<1>1. \A type, call : Delivered(type, call)' = Delivered(type, call)
  BY DeliveredSame
<1>2. /\ SentReasoning' = SentReasoning
      /\ SentText' = SentText
      /\ \A t : SentArgs(t)' = SentArgs(t)
  BY SentSame
<1>3. \A t : ArgsIn(t, EntriesLeft)' = ArgsIn(t, EntriesLeft)
  BY Zenon DEF ArgsIn
<1>4. Delivered("thinking_delta", NoCall)' \o ReasoningLeft' = SentReasoning'
  BY <1>1, <1>2, Zenon DEF DeliveryInv
<1>5. Delivered("text_delta", NoCall)' \o TextLeft' = SentText'
  BY <1>1, <1>2, Zenon DEF DeliveryInv
<1>6. ASSUME NEW t \in ToolIdx
      PROVE  /\ Delivered("input_json_delta", t)'
                   \o (toolCalls'[t].args \o ArgsIn(t, EntriesLeft)') = SentArgs(t)'
             /\ toolCalls'[t].started => toolCalls'[t].args = <<>>
  BY <1>1, <1>2, <1>3, Zenon DEF DeliveryInv
<1> QED
  BY <1>4, <1>5, <1>6, Zenon DEF DeliveryInv

\* Taking a line leaves all of it to be handled.
LEMMA ReceiveDelivery ==
    ASSUME IInv, DeliveryInv, NEW l \in Lines, ReceiveLine(l)
    PROVE  DeliveryInv'
<1>1. /\ TypeOK /\ seen \in Seq(Lines) /\ pc = "select" /\ pc' = "line"
      /\ seen' = Append(seen, l) /\ toolCalls' = toolCalls /\ UNCHANGED blockVars
  BY DEF IInv, TypeOK, ReceiveLine, callVars
<1>2. line' = l
  BY <1>1 DEF line, Last
<1>3. \A type, call : /\ Delivered(type, call)' = Delivered(type, call)
                      /\ Delivered(type, call) \in Seq(Frags)
  BY <1>1, BlocksSame, DeliveredSame, DeliveredType
<1>4. /\ SentReasoning' = SentReasoning \o ReasoningIn[l]
      /\ SentText' = SentText \o TextIn[l]
      /\ \A t : SentArgs(t)' = SentArgs(t) \o ArgsOfIn(t)[l]
  BY <1>1, ReceiveAdds
<1>5. ReasoningLeft = <<>> /\ TextLeft = <<>> /\ EntriesLeft = <<>>
  BY <1>1, NothingLeft
<1>6. /\ ReasoningLeft' = ReasoningIn[l]
      /\ TextLeft' = TextIn[l]
      /\ EntriesLeft' = IF HasDelta(l) THEN l.tools ELSE <<>>
  BY <1>1, <1>2 DEF ReasoningLeft, TextLeft, EntriesLeft, ReasoningAhead, TextAhead,
                    ReasoningIn, TextIn
<1>7. \A t : ArgsIn(t, EntriesLeft)' = ArgsOfIn(t)[l]
  <2> SUFFICES ASSUME NEW t PROVE ArgsIn(t, EntriesLeft') = ArgsOfIn(t)[l]
    BY Zenon DEF ArgsIn
  <2>1. ArgsOfIn(t)[l] = IF HasDelta(l) THEN ArgsIn(t, l.tools) ELSE <<>>
    BY DEF ArgsOfIn, ArgsOf
  <2> QED
    BY <1>6, <2>1, ArgsInEmpty, Zenon
<1>8. Delivered("thinking_delta", NoCall)' \o ReasoningLeft' = SentReasoning'
  <2>1. Delivered("thinking_delta", NoCall) \o <<>> = Delivered("thinking_delta", NoCall)
    BY <1>3
  <2>2. Delivered("thinking_delta", NoCall) \o <<>> = SentReasoning
    BY <1>5, Zenon DEF DeliveryInv
  <2> QED
    BY <1>3, <1>4, <1>6, <2>1, <2>2, Zenon
<1>9. Delivered("text_delta", NoCall)' \o TextLeft' = SentText'
  <2>1. Delivered("text_delta", NoCall) \o <<>> = Delivered("text_delta", NoCall)
    BY <1>3
  <2>2. Delivered("text_delta", NoCall) \o <<>> = SentText
    BY <1>5, Zenon DEF DeliveryInv
  <2> QED
    BY <1>3, <1>4, <1>6, <2>1, <2>2, Zenon
<1>10. ASSUME NEW t \in ToolIdx
       PROVE  /\ Delivered("input_json_delta", t)'
                    \o (toolCalls'[t].args \o ArgsIn(t, EntriesLeft)') = SentArgs(t)'
              /\ toolCalls'[t].started => toolCalls'[t].args = <<>>
  <2> DEFINE x == Delivered("input_json_delta", t)
             a == toolCalls[t].args
             z == ArgsOfIn(t)[l]
  <2>1. x \in Seq(Frags)
    BY <1>3
  <2>2. a \in Seq(Frags) /\ z \in Seq(Frags)
    <3>1. toolCalls[t] \in ToolCallType
      BY <1>1 DEF TypeOK
    <3>2. ArgsOfIn(t) \in [Lines -> Seq(Frags)]
      BY LineParts
    <3> QED
      BY <3>1, <3>2 DEF ToolCallType
  <2>3. x \o (a \o <<>>) = SentArgs(t)
    <3>1. ArgsIn(t, EntriesLeft) = <<>>
      BY <1>5, ArgsInEmpty, Zenon
    <3> QED
      BY <3>1, Zenon DEF DeliveryInv
  <2> HIDE DEF x, a, z
  <2>4. a \o <<>> = a
    BY <2>2
  <2>5. x \o (a \o z) = (x \o a) \o z
    BY <2>1, <2>2, ConcatAssociative
  <2>6. x \o (a \o z) = SentArgs(t)'
    BY <1>4, <2>3, <2>4, <2>5, Zenon DEF z
  <2>7. Delivered("input_json_delta", t)' = x /\ toolCalls'[t].args = a
        /\ ArgsIn(t, EntriesLeft)' = z
    BY <1>1, <1>3, <1>7, Zenon DEF x, a, z
  <2>8. toolCalls'[t].started => toolCalls'[t].args = <<>>
    BY <1>1, Zenon DEF DeliveryInv
  <2> QED
    BY <2>6, <2>7, <2>8, Zenon
<1>11. DeltaStages'
  BY <1>1 DEF DeltaStages
<1> QED
  BY <1>8, <1>9, <1>10, <1>11, Zenon DEF DeliveryInv

\* What the blocks of a step of Reasoning deliver.
LEMMA ReasoningEmits ==
    ASSUME IInv, Reasoning
    PROVE  \/ line.reasoning = <<>> /\ AllDeltas' = AllDeltas
           \/ ReasoningDelta \in DeltaType /\ AllDeltas' = Append(AllDeltas, ReasoningDelta)
<1>1. TypeOK /\ line \in Line
  BY LineTyped DEF IInv, TypeOK, Reasoning
<1>2. CASE line.reasoning = <<>> /\ UNCHANGED blockVars
  BY <1>2, BlocksSame
<1>3. ASSUME NEW d, d = ReasoningDelta, Extends(d)
      PROVE  ReasoningDelta \in DeltaType /\ AllDeltas' = Append(AllDeltas, ReasoningDelta)
  BY <1>1, <1>3, ExtendsEmits, Zenon
<1>4. ASSUME NEW b, Opens(b), b.deltas = <<ReasoningDelta>>
      PROVE  ReasoningDelta \in DeltaType /\ AllDeltas' = Append(AllDeltas, ReasoningDelta)
  <2>1. ReasoningDelta \in DeltaType
    BY <1>1 DEF ReasoningDelta, Delta, DeltaType, Line
  <2>2. AllDeltas' = AllDeltas \o <<ReasoningDelta>>
    BY <1>1, <1>4, OpensEmits, Zenon
  <2>3. AllDeltas \in Seq(DeltaType)
    BY <1>1, AllDeltasType
  <2>4. AllDeltas \o <<ReasoningDelta>> = Append(AllDeltas, ReasoningDelta)
    BY <2>1, <2>3
  <2> QED
    BY <2>1, <2>2, <2>4, Zenon
<1> QED
  BY <1>2, <1>3, <1>4, ReasoningOnBlocks, Zenon

\* What those of a step of Text deliver.
LEMMA TextEmits ==
    ASSUME IInv, Text
    PROVE  \/ line.content = <<>> /\ AllDeltas' = AllDeltas
           \/ TextDelta \in DeltaType /\ AllDeltas' = Append(AllDeltas, TextDelta)
<1>1. TypeOK /\ line \in Line
  BY LineTyped DEF IInv, TypeOK, Text
<1>2. CASE line.content = <<>> /\ UNCHANGED blockVars
  BY <1>2, BlocksSame
<1>3. ASSUME NEW d, d = TextDelta, Extends(d)
      PROVE  TextDelta \in DeltaType /\ AllDeltas' = Append(AllDeltas, TextDelta)
  BY <1>1, <1>3, ExtendsEmits, Zenon
<1>4. ASSUME NEW b, Opens(b), b.deltas = <<TextDelta>>
      PROVE  TextDelta \in DeltaType /\ AllDeltas' = Append(AllDeltas, TextDelta)
  <2>1. TextDelta \in DeltaType
    BY <1>1 DEF TextDelta, Delta, DeltaType, Line
  <2>2. AllDeltas' = AllDeltas \o <<TextDelta>>
    BY <1>1, <1>4, OpensEmits, Zenon
  <2>3. AllDeltas \in Seq(DeltaType)
    BY <1>1, AllDeltasType
  <2>4. AllDeltas \o <<TextDelta>> = Append(AllDeltas, TextDelta)
    BY <2>1, <2>3
  <2> QED
    BY <2>1, <2>2, <2>4, Zenon
<1> QED
  BY <1>2, <1>3, <1>4, TextOnBlocks, Zenon

\* Reasoning that is delivered is not left, and text and arguments are as before.
LEMMA ReasoningDelivery ==
    ASSUME IInv, DeliveryInv, Reasoning
    PROVE  DeliveryInv'
<1>1. /\ TypeOK /\ line \in Line /\ pc = "reasoning" /\ pc' = "text"
      /\ seen' = seen /\ toolCalls' = toolCalls
  BY LineTyped DEF IInv, TypeOK, Reasoning, callVars
<1>2. line' = line /\ line.reasoning \in Seq(Frags)
  BY <1>1 DEF line, Line
<1>3. \A type, call : Delivered(type, call) \in Seq(Frags)
  BY <1>1, DeliveredType
<1>4. /\ SentReasoning' = SentReasoning
      /\ SentText' = SentText
      /\ \A t : SentArgs(t)' = SentArgs(t)
  BY <1>1, SentSame
<1>5. /\ ReasoningLeft = line.reasoning /\ ReasoningLeft' = <<>>
      /\ TextLeft' = TextLeft /\ EntriesLeft' = EntriesLeft
  BY <1>1, <1>2 DEF ReasoningLeft, TextLeft, EntriesLeft, ReasoningAhead, TextAhead
<1>6. /\ Delivered("thinking_delta", NoCall)' = Delivered("thinking_delta", NoCall) \o line.reasoning
      /\ Delivered("text_delta", NoCall)' = Delivered("text_delta", NoCall)
      /\ \A t : Delivered("input_json_delta", t)' = Delivered("input_json_delta", t)
  <2>1. CASE line.reasoning = <<>> /\ AllDeltas' = AllDeltas
    <3>1. \A type, call : Delivered(type, call)' = Delivered(type, call)
      BY <2>1, DeliveredSame
    <3>2. Delivered("thinking_delta", NoCall) \o <<>> = Delivered("thinking_delta", NoCall)
      BY <1>3
    <3> QED
      BY <2>1, <3>1, <3>2, Zenon
  <2>2. CASE ReasoningDelta \in DeltaType /\ AllDeltas' = Append(AllDeltas, ReasoningDelta)
    <3>1. /\ ReasoningDelta.type = "thinking_delta" /\ ReasoningDelta.call = NoCall
          /\ ReasoningDelta.data = line.reasoning
      BY DEF ReasoningDelta, Delta
    <3>2. \A type, call :
            /\ ReasoningDelta.type = type /\ ReasoningDelta.call = call =>
                 Delivered(type, call)' = Delivered(type, call) \o ReasoningDelta.data
            /\ ~(ReasoningDelta.type = type /\ ReasoningDelta.call = call) =>
                 Delivered(type, call)' = Delivered(type, call)
      BY <1>1, <2>2, DeliveredMore
    <3>3. "thinking_delta" # "text_delta" /\ "thinking_delta" # "input_json_delta"
      OBVIOUS
    <3> QED
      BY <3>1, <3>2, <3>3, Zenon
  <2> QED
    BY <2>1, <2>2, ReasoningEmits
<1>7. Delivered("thinking_delta", NoCall)' \o ReasoningLeft' = SentReasoning'
  <2> DEFINE x == Delivered("thinking_delta", NoCall)
  <2>1. x \in Seq(Frags)
    BY <1>3
  <2> HIDE DEF x
  <2>2. (x \o line.reasoning) \o <<>> = x \o line.reasoning
    BY <1>2, <2>1
  <2>3. x \o line.reasoning = SentReasoning
    BY <1>5, Zenon DEF DeliveryInv, x
  <2>4. Delivered("thinking_delta", NoCall)' = x \o line.reasoning
    BY <1>6, Zenon DEF x
  <2> QED
    BY <1>4, <1>5, <2>2, <2>3, <2>4, Zenon
<1>8. Delivered("text_delta", NoCall)' \o TextLeft' = SentText'
  BY <1>4, <1>5, <1>6, Zenon DEF DeliveryInv
<1>9. ASSUME NEW t \in ToolIdx
      PROVE  /\ Delivered("input_json_delta", t)'
                   \o (toolCalls'[t].args \o ArgsIn(t, EntriesLeft)') = SentArgs(t)'
             /\ toolCalls'[t].started => toolCalls'[t].args = <<>>
  <2>1. ArgsIn(t, EntriesLeft)' = ArgsIn(t, EntriesLeft)
    BY <1>5, Zenon DEF ArgsIn
  <2> QED
    BY <1>1, <1>4, <1>6, <2>1, Zenon DEF DeliveryInv
<1>10. DeltaStages'
  BY <1>1, <1>2 DEF DeltaStages, DeliveryInv, HasDelta
<1> QED
  BY <1>7, <1>8, <1>9, <1>10, Zenon DEF DeliveryInv

\* Text that is delivered is not left, and the entries remain to be handled.
LEMMA TextDelivery ==
    ASSUME IInv, DeliveryInv, Text
    PROVE  DeliveryInv'
<1>1. /\ TypeOK /\ line \in Line /\ pc = "text" /\ pc' = "tools" /\ rest' = line.tools
      /\ seen' = seen /\ toolCalls' = toolCalls
  BY LineTyped DEF IInv, TypeOK, Text
<1>2. line' = line /\ line.content \in Seq(Frags)
  BY <1>1 DEF line, Line
<1>3. \A type, call : Delivered(type, call) \in Seq(Frags)
  BY <1>1, DeliveredType
<1>4. /\ SentReasoning' = SentReasoning
      /\ SentText' = SentText
      /\ \A t : SentArgs(t)' = SentArgs(t)
  BY <1>1, SentSame
<1>5. /\ ReasoningLeft' = ReasoningLeft
      /\ TextLeft = line.content /\ TextLeft' = <<>>
      /\ EntriesLeft' = EntriesLeft
  BY <1>1, <1>2 DEF ReasoningLeft, TextLeft, EntriesLeft, ReasoningAhead, TextAhead
<1>6. /\ Delivered("text_delta", NoCall)' = Delivered("text_delta", NoCall) \o line.content
      /\ Delivered("thinking_delta", NoCall)' = Delivered("thinking_delta", NoCall)
      /\ \A t : Delivered("input_json_delta", t)' = Delivered("input_json_delta", t)
  <2>1. CASE line.content = <<>> /\ AllDeltas' = AllDeltas
    <3>1. \A type, call : Delivered(type, call)' = Delivered(type, call)
      BY <2>1, DeliveredSame
    <3>2. Delivered("text_delta", NoCall) \o <<>> = Delivered("text_delta", NoCall)
      BY <1>3
    <3> QED
      BY <2>1, <3>1, <3>2, Zenon
  <2>2. CASE TextDelta \in DeltaType /\ AllDeltas' = Append(AllDeltas, TextDelta)
    <3>1. /\ TextDelta.type = "text_delta" /\ TextDelta.call = NoCall
          /\ TextDelta.data = line.content
      BY DEF TextDelta, Delta
    <3>2. \A type, call :
            /\ TextDelta.type = type /\ TextDelta.call = call =>
                 Delivered(type, call)' = Delivered(type, call) \o TextDelta.data
            /\ ~(TextDelta.type = type /\ TextDelta.call = call) =>
                 Delivered(type, call)' = Delivered(type, call)
      BY <1>1, <2>2, DeliveredMore
    <3>3. "text_delta" # "thinking_delta" /\ "text_delta" # "input_json_delta"
      OBVIOUS
    <3> QED
      BY <3>1, <3>2, <3>3, Zenon
  <2> QED
    BY <2>1, <2>2, TextEmits
<1>7. Delivered("text_delta", NoCall)' \o TextLeft' = SentText'
  <2> DEFINE x == Delivered("text_delta", NoCall)
  <2>1. x \in Seq(Frags)
    BY <1>3
  <2> HIDE DEF x
  <2>2. (x \o line.content) \o <<>> = x \o line.content
    BY <1>2, <2>1
  <2>3. x \o line.content = SentText
    BY <1>5, Zenon DEF DeliveryInv, x
  <2>4. Delivered("text_delta", NoCall)' = x \o line.content
    BY <1>6, Zenon DEF x
  <2> QED
    BY <1>4, <1>5, <2>2, <2>3, <2>4, Zenon
<1>8. Delivered("thinking_delta", NoCall)' \o ReasoningLeft' = SentReasoning'
  BY <1>4, <1>5, <1>6, Zenon DEF DeliveryInv
<1>9. ASSUME NEW t \in ToolIdx
      PROVE  /\ Delivered("input_json_delta", t)'
                   \o (toolCalls'[t].args \o ArgsIn(t, EntriesLeft)') = SentArgs(t)'
             /\ toolCalls'[t].started => toolCalls'[t].args = <<>>
  <2>1. ArgsIn(t, EntriesLeft)' = ArgsIn(t, EntriesLeft)
    BY <1>5, Zenon DEF ArgsIn
  <2> QED
    BY <1>1, <1>4, <1>6, <2>1, Zenon DEF DeliveryInv
<1>10. DeltaStages'
  BY <1>1, <1>2 DEF DeltaStages, DeliveryInv, HasDelta
<1> QED
  BY <1>7, <1>8, <1>9, <1>10, Zenon DEF DeliveryInv

\* An entry's arguments join those buffered for its call, which stay buffered
\* or are all sent.
LEMMA ToolCallEmits ==
    ASSUME IInv, ToolCall
    PROVE  /\ Caller \in ToolIdx
           /\ \E x \in ToolCallType :
                /\ toolCalls' = [toolCalls EXCEPT ![Caller] = x]
                /\ x.started => x.args = <<>>
                /\ \/ x.args = Known.args /\ AllDeltas' = AllDeltas
                   \/ /\ x.args = <<>> /\ ArgsDelta \in DeltaType
                      /\ AllDeltas' = Append(AllDeltas, ArgsDelta)
<1>1. TypeOK
  BY DEF IInv
<1>2. PICK x \in ToolCallType :
          /\ toolCalls' = [toolCalls EXCEPT ![Caller] = x]
          /\ x.started => x.args = <<>>
          /\ Buffers(x) \/ SendsOn(x) \/ Begins(x)
  BY ToolCallOutcome
<1>3. AllDeltas \in Seq(DeltaType)
  BY <1>1, AllDeltasType
<1>4. ArgsDelta \in DeltaType
  <2>1. Caller \in ToolIdx /\ Known \in ToolCallType
    BY <1>1, EntryTyped DEF ToolCall, Caller, Known
  <2> HIDE DEF Caller, Known
  <2> QED
    BY <2>1 DEF ArgsDelta, Delta, DeltaType, ToolCallType
<1>5. ASSUME Buffers(x)
      PROVE  x.args = Known.args /\ AllDeltas' = AllDeltas
  BY <1>5, BlocksSame DEF Buffers
<1>6. ASSUME SendsOn(x)
      PROVE  x.args = <<>> /\ AllDeltas' = Append(AllDeltas, ArgsDelta)
  <2>1. PICK d : d = ArgsDelta /\ Extends(d)
    BY <1>6 DEF SendsOn
  <2>2. AllDeltas' = Append(AllDeltas, ArgsDelta)
    BY <1>1, <2>1, ExtendsEmits, Zenon
  <2> QED
    BY <1>6, <2>2 DEF SendsOn
<1>7. ASSUME Begins(x)
      PROVE  \/ x.args = Known.args /\ AllDeltas' = AllDeltas
             \/ x.args = <<>> /\ AllDeltas' = Append(AllDeltas, ArgsDelta)
  <2>1. PICK b : Opens(b) /\ b.deltas = (IF Known.args = <<>> THEN <<>> ELSE <<ArgsDelta>>)
    BY <1>7 DEF Begins
  <2>2. AllDeltas' = AllDeltas \o b.deltas
    BY <1>1, <2>1, OpensEmits, Zenon
  <2>3. x.args = <<>>
    BY <1>7 DEF Begins
  <2>4. CASE Known.args = <<>>
    <3>1. AllDeltas \o <<>> = AllDeltas
      BY <1>3
    <3> QED
      BY <2>1, <2>2, <2>3, <2>4, <3>1, Zenon
  <2>5. CASE Known.args # <<>>
    <3>1. AllDeltas \o <<ArgsDelta>> = Append(AllDeltas, ArgsDelta)
      BY <1>3, <1>4
    <3> QED
      BY <1>4, <2>1, <2>2, <2>3, <2>5, <3>1, Zenon
  <2> QED
    BY <2>4, <2>5
<1>8. Caller \in ToolIdx
  BY ToolCallOutcome
<1> QED
  BY <1>2, <1>4, <1>5, <1>6, <1>7, <1>8

\* Strings are put together in any order.
LEMMA StringsAssociate ==
    \A x, y, z \in Seq(Frags) : x \o (y \o z) = (x \o y) \o z
<1> SUFFICES ASSUME NEW x \in Seq(Frags), NEW y \in Seq(Frags), NEW z \in Seq(Frags)
             PROVE  x \o (y \o z) = (x \o y) \o z
  OBVIOUS
<1> QED
  BY ConcatAssociative

\* Two ways to put four strings together.
LEMMA FourStrings ==
    \A x, a, e, z \in Seq(Frags) : x \o ((a \o e) \o z) = (x \o (a \o e)) \o (<<>> \o z)
<1> SUFFICES ASSUME NEW x \in Seq(Frags), NEW a \in Seq(Frags), NEW e \in Seq(Frags),
                    NEW z \in Seq(Frags)
             PROVE  x \o ((a \o e) \o z) = (x \o (a \o e)) \o (<<>> \o z)
  OBVIOUS
<1>1. a \o e \in Seq(Frags)
  OBVIOUS
<1>2. <<>> \o z = z
  OBVIOUS
<1>3. x \o ((a \o e) \o z) = (x \o (a \o e)) \o z
  BY <1>1, StringsAssociate, Zenon
<1> QED
  BY <1>2, <1>3, Zenon

\* An entry that is handled is not left; its arguments are buffered or sent.
LEMMA ToolCallDelivery ==
    ASSUME IInv, DeliveryInv, ToolCall
    PROVE  DeliveryInv'
<1>1. /\ TypeOK /\ pc = "tools" /\ pc' = "tools" /\ rest # <<>> /\ rest' = Tail(rest)
      /\ seen' = seen /\ rest \in Seq(ToolEntry) /\ toolCalls \in [ToolIdx -> ToolCallType]
  BY DEF IInv, TypeOK, ToolCall
<1>2. PICK x \in ToolCallType :
          /\ toolCalls' = [toolCalls EXCEPT ![Caller] = x]
          /\ x.started => x.args = <<>>
          /\ \/ x.args = Known.args /\ AllDeltas' = AllDeltas
             \/ /\ x.args = <<>> /\ ArgsDelta \in DeltaType
                /\ AllDeltas' = Append(AllDeltas, ArgsDelta)
  BY ToolCallEmits
<1>3. Caller \in ToolIdx
  BY ToolCallEmits
<1>4. \A type, call : Delivered(type, call) \in Seq(Frags)
  BY <1>1, DeliveredType
<1>5. /\ SentReasoning' = SentReasoning
      /\ SentText' = SentText
      /\ \A t : SentArgs(t)' = SentArgs(t)
  BY <1>1, SentSame
<1>6. /\ ReasoningLeft' = ReasoningLeft /\ TextLeft' = TextLeft
      /\ EntriesLeft = rest /\ EntriesLeft' = Tail(rest)
  BY <1>1 DEF ReasoningLeft, TextLeft, EntriesLeft, ReasoningAhead, TextAhead
<1>7. \/ /\ x.args = Known.args
         /\ \A type, call : Delivered(type, call)' = Delivered(type, call)
      \/ /\ x.args = <<>>
         /\ \A type, call :
              /\ type = "input_json_delta" /\ call = Caller =>
                   Delivered(type, call)' = Delivered(type, call) \o Known.args
              /\ ~(type = "input_json_delta" /\ call = Caller) =>
                   Delivered(type, call)' = Delivered(type, call)
  <2>1. CASE x.args = Known.args /\ AllDeltas' = AllDeltas
    BY <2>1, DeliveredSame
  <2>2. CASE /\ x.args = <<>> /\ ArgsDelta \in DeltaType
             /\ AllDeltas' = Append(AllDeltas, ArgsDelta)
    <3>1. /\ ArgsDelta.type = "input_json_delta" /\ ArgsDelta.call = Caller
          /\ ArgsDelta.data = Known.args
      BY DEF ArgsDelta, Delta
    <3>2. \A type, call :
            /\ ArgsDelta.type = type /\ ArgsDelta.call = call =>
                 Delivered(type, call)' = Delivered(type, call) \o ArgsDelta.data
            /\ ~(ArgsDelta.type = type /\ ArgsDelta.call = call) =>
                 Delivered(type, call)' = Delivered(type, call)
      BY <1>1, <2>2, DeliveredMore
    <3> QED
      BY <2>2, <3>1, <3>2, Zenon
  <2> QED
    BY <1>2, <2>1, <2>2
<1>8. /\ Delivered("thinking_delta", NoCall)' = Delivered("thinking_delta", NoCall)
      /\ Delivered("text_delta", NoCall)' = Delivered("text_delta", NoCall)
  <2>1. "text_delta" # "input_json_delta" /\ "thinking_delta" # "input_json_delta"
    OBVIOUS
  <2> QED
    BY <1>7, <2>1, Zenon
<1>9. Delivered("thinking_delta", NoCall)' \o ReasoningLeft' = SentReasoning'
  BY <1>5, <1>6, <1>8, Zenon DEF DeliveryInv
<1>10. Delivered("text_delta", NoCall)' \o TextLeft' = SentText'
  BY <1>5, <1>6, <1>8, Zenon DEF DeliveryInv
<1>11. ASSUME NEW t \in ToolIdx
       PROVE  /\ Delivered("input_json_delta", t)'
                    \o (toolCalls'[t].args \o ArgsIn(t, EntriesLeft)') = SentArgs(t)'
              /\ toolCalls'[t].started => toolCalls'[t].args = <<>>
  <2> DEFINE y == Delivered("input_json_delta", t)
             a == toolCalls[t].args
             e == Head(rest).args
             z == ArgsIn(t, Tail(rest))
  <2>1. y \o (a \o ArgsIn(t, rest)) = SentArgs(t)
    BY <1>6, Zenon DEF DeliveryInv
  <2>2. ArgsIn(t, EntriesLeft)' = z
    BY <1>6, Zenon DEF ArgsIn
  <2>3. CASE t # Caller
    <3>1. toolCalls'[t] = toolCalls[t]
      BY <1>1, <1>2, <1>3, <2>3
    <3>2. ArgsIn(t, rest) = z
      BY <1>1, <2>3, ArgsInHead DEF Caller
    <3>3. Delivered("input_json_delta", t)' = y
      BY <1>7, <2>3, Zenon
    <3>4. toolCalls[t].started => toolCalls[t].args = <<>>
      BY Zenon DEF DeliveryInv
    <3> QED
      BY <1>5, <2>1, <2>2, <3>1, <3>2, <3>3, <3>4, Zenon
  <2>4. CASE t = Caller
    <3>1. toolCalls'[t] = x
      BY <1>1, <1>2, <1>3, <2>4
    <3>2. ArgsIn(t, rest) = e \o z
      BY <1>1, <2>4, ArgsInHead DEF Caller
    <3>3. Known.args = a \o e
      <4>1. toolCalls[t] \in ToolCallType
        BY <1>1
      <4> QED
        BY <2>4, <4>1, Zenon DEF Known, Accumulate, ToolCallType
    <3>4. y \in Seq(Frags) /\ a \in Seq(Frags) /\ e \in Seq(Frags) /\ z \in Seq(Frags)
      <4>1. Head(rest) \in ToolEntry /\ Tail(rest) \in Seq(ToolEntry)
        BY <1>1
      <4>2. z \in Seq(Frags)
        BY <4>1, ArgsInType
      <4>3. a \in Seq(Frags)
        BY <1>1 DEF ToolCallType
      <4> QED
        BY <1>4, <4>1, <4>2, <4>3 DEF ToolEntry
    <3> HIDE DEF y, a, e, z
    <3>5. y \o (a \o (e \o z)) = y \o ((a \o e) \o z)
      <4>1. a \o (e \o z) = (a \o e) \o z
        BY <3>4, StringsAssociate
      <4> QED
        BY <4>1, Zenon
    <3>6. y \o ((a \o e) \o z) = (y \o (a \o e)) \o (<<>> \o z)
      <4>1. y \in Seq(Frags) /\ a \o e \in Seq(Frags) /\ <<>> \o z = z
        BY <3>4
      <4>2. y \o ((a \o e) \o z) = (y \o (a \o e)) \o z
        BY <3>4, <4>1, StringsAssociate
      <4> QED
        BY <4>1, <4>2, Zenon
    <3>7. y \o (Known.args \o z) = SentArgs(t)
      BY <2>1, <3>2, <3>3, <3>5, Zenon
    <3>8. (y \o Known.args) \o (<<>> \o z) = SentArgs(t)
      BY <3>3, <3>6, <3>7, Zenon
    <3>9. \/ x.args = Known.args /\ Delivered("input_json_delta", t)' = y
          \/ x.args = <<>> /\ Delivered("input_json_delta", t)' = y \o Known.args
      BY <1>7, <2>4, Zenon DEF y
    <3>10. Delivered("input_json_delta", t)' \o (x.args \o z) = SentArgs(t)
      BY <3>7, <3>8, <3>9, Zenon
    <3> QED
      BY <1>2, <1>5, <2>2, <3>1, <3>10, Zenon
  <2> QED
    BY <2>3, <2>4
<1>12. DeltaStages'
  <2>1. line' = line
    BY <1>1 DEF line
  <2> QED
    BY <1>1, <2>1 DEF DeltaStages, DeliveryInv, HasDelta
<1> QED
  BY <1>9, <1>10, <1>11, <1>12, Zenon DEF DeliveryInv

-----------------------------------------------------------------------------
(***************************************************************************)
(* Nothing is lost: the invariant and the theorem.                         *)
(***************************************************************************)
LEMMA InitDelivery ==
    ASSUME Init
    PROVE  DeliveryInv
<1>1. seen = <<>> /\ contentBlockIndex = -1 /\ pc = "loop"
      /\ toolCalls = [t \in ToolIdx |-> NewToolCall]
  BY DEF Init
<1>2. ReasoningLeft = <<>> /\ TextLeft = <<>> /\ EntriesLeft = <<>>
  BY <1>1, NothingLeft
<1>3. AllDeltas = <<>>
  <2>1. [i \in 1..(contentBlockIndex + 1) |-> content[i - 1].deltas] = <<>>
    BY <1>1
  <2> QED
    BY <2>1, FlattenEmpty, Zenon DEF AllDeltas
<1>4. \A type, call : Delivered(type, call) = <<>>
  <2> SUFFICES ASSUME NEW type, NEW call PROVE Delivered(type, call) = <<>>
    OBVIOUS
  <2>1. DataOf(<<>>, type, call) = <<>>
    BY DataOfEmpty
  <2> QED
    BY <1>3, <2>1, Zenon DEF Delivered
<1>5. SentReasoning = <<>> /\ SentText = <<>> /\ \A t : SentArgs(t) = <<>>
  <2>1. seen \in Seq(Lines)
    BY <1>1
  <2> QED
    BY <1>1, <2>1, SentMaps, FlatMapEmpty, Zenon
<1>6. \A t \in ToolIdx : toolCalls[t].args = <<>> /\ ~toolCalls[t].started
  BY <1>1 DEF NewToolCall
<1>7. \A t : ArgsIn(t, EntriesLeft) = <<>>
  BY <1>2, ArgsInEmpty, Zenon
<1>8. <<>> \o <<>> = <<>>
  OBVIOUS
<1>9. DeltaStages
  BY <1>1 DEF DeltaStages
<1> QED
  BY <1>2, <1>4, <1>5, <1>6, <1>7, <1>8, <1>9, Zenon DEF DeliveryInv

\* A step outside the stages that send keeps the balance if it leaves as much
\* of the line to be handled.
LEMMA StepDelivery ==
    ASSUME IInv, DeliveryInv, [Next]_vars
    PROVE  DeliveryInv'
<1> USE DEF ReasoningLeft, TextLeft, EntriesLeft, ReasoningAhead, TextAhead, DeltaStages,
            callVars, blockVars
<1>0. DeltaStages /\ TypeOK
  BY DEF DeliveryInv, IInv
<1>1. ASSUME UNCHANGED <<blockVars, callVars, seen>>, DeltaStages',
             ReasoningLeft' = ReasoningLeft, TextLeft' = TextLeft, EntriesLeft' = EntriesLeft
      PROVE  DeliveryInv'
  BY <1>1, SilentDelivery, BlocksSame
<1>2. seen' = seen => line' = line /\ HasDelta(line)' = HasDelta(line)
  BY DEF line, HasDelta
<1>3. CASE UNCHANGED vars
  BY <1>0, <1>1, <1>2, <1>3 DEF vars
<1>4. CASE StillConnected
  BY <1>1, <1>4 DEF StillConnected
<1>5. CASE Disconnect
  BY <1>1, <1>5 DEF Disconnect
<1>6. CASE \E l \in Lines : ReceiveLine(l)
  BY <1>6, ReceiveDelivery
<1>7. CASE EndOfStream
  BY <1>1, <1>7 DEF EndOfStream
<1>8. CASE ReadError
  BY <1>1, <1>8 DEF ReadError
<1>9. CASE Stall
  BY <1>1, <1>9 DEF Stall
<1>10. CASE SkipLine
  BY <1>1, <1>2, <1>10 DEF SkipLine, HasDelta
<1>11. CASE Done
  BY <1>1, <1>2, <1>11 DEF Done, HasDelta
<1>12. CASE ErrorFrame
  BY <1>1, <1>2, <1>12 DEF ErrorFrame, HasDelta
<1>13. CASE Chunk
  BY <1>1, <1>2, <1>13 DEF Chunk, HasDelta
<1>14. CASE Reasoning
  BY <1>14, ReasoningDelivery
<1>15. CASE Text
  BY <1>15, TextDelivery
<1>16. CASE ToolCall
  BY <1>16, ToolCallDelivery
<1>17. CASE Finish
  BY <1>1, <1>2, <1>17 DEF Finish
<1>18. CASE ReturnOnAbort
  BY <1>1, <1>18 DEF ReturnOnAbort
<1>19. CASE GuaranteeBlock
  <2>1. AllDeltas' = AllDeltas
    <3>1. CASE contentBlockIndex # -1
      BY <1>19, <3>1 DEF GuaranteeBlock, AllDeltas
    <3>2. CASE contentBlockIndex = -1
      <4> DEFINE b == Block("text", NoCall, NoStr, NoStr)
      <4>1. b \in BlockType /\ b.stops = 0 /\ b.deltas = <<>>
        BY DEF Block, BlockType
      <4>2. contentBlockIndex' = contentBlockIndex + 1 /\ content' = openBlock(content, b)
        BY <1>19, <3>2 DEF GuaranteeBlock
      <4> HIDE DEF b
      <4>3. Opens(b)
        BY <1>0, <4>1, <4>2, OpensBare
      <4>4. AllDeltas' = AllDeltas \o <<>>
        BY <1>0, <4>1, <4>3, OpensEmits, Zenon
      <4>5. AllDeltas \o <<>> = AllDeltas
        BY <1>0, AllDeltasType
      <4> QED
        BY <4>4, <4>5, Zenon
    <3> QED
      BY <3>1, <3>2
  <2> QED
    BY <1>19, <2>1, SilentDelivery DEF GuaranteeBlock
<1>20. CASE Epilogue
  <2>1. AllDeltas' = AllDeltas
    BY <1>0, <1>20, EpilogueEmits
  <2> QED
    BY <1>20, <2>1, SilentDelivery DEF Epilogue
<1> QED
  BY <1>3, <1>4, <1>5, <1>6, <1>7, <1>8, <1>9, <1>10, <1>11, <1>12, <1>13, <1>14, <1>15,
     <1>16, <1>17, <1>18, <1>19, <1>20
  DEF Next, FromOutside, ProcessLine, AfterLoop, Returned

\* Both invariants hold throughout: that of the blocks, and that every fragment
\* received has been written or is still to be written from the current line.
THEOREM DeliveryInvariance == Spec => [](IInv /\ DeliveryInv)
<1>1. Init => IInv /\ DeliveryInv
  BY InitIInv, InitDelivery
<1>2. IInv /\ DeliveryInv /\ [Next]_vars => (IInv /\ DeliveryInv)'
  BY NextIInv, StepDelivery
<1> QED
  BY <1>1, <1>2, PTL DEF Spec

\* Whatever the upstream sends, however its lines mix reasoning, text and calls,
\* between two lines nothing of it is lost, duplicated or out of order.
THEOREM NothingEverLost == Spec => []NothingLost
<1>1. IInv /\ DeliveryInv => NothingLost
  <2> SUFFICES ASSUME IInv, DeliveryInv,
                      pc \in {"loop", "select", "after", "epilogue", "returned"}
               PROVE  /\ Delivered("thinking_delta", NoCall) = SentReasoning
                      /\ Delivered("text_delta", NoCall) = SentText
                      /\ \A t \in ToolIdx :
                          /\ Delivered("input_json_delta", t) \o toolCalls[t].args = SentArgs(t)
                          /\ toolCalls[t].started => toolCalls[t].args = <<>>
    BY Zenon DEF NothingLost, SentReasoning, SentText, SentArgs
  <2>1. TypeOK
    BY DEF IInv
  <2>2. ReasoningLeft = <<>> /\ TextLeft = <<>> /\ EntriesLeft = <<>>
    BY NothingLeft
  <2>3. \A type, call : Delivered(type, call) \in Seq(Frags)
    BY <2>1, DeliveredType
  <2>4. \A x \in Seq(Frags) : x \o <<>> = x
    OBVIOUS
  <2>5. Delivered("thinking_delta", NoCall) = SentReasoning
    BY <2>2, <2>3, <2>4, Zenon DEF DeliveryInv
  <2>6. Delivered("text_delta", NoCall) = SentText
    BY <2>2, <2>3, <2>4, Zenon DEF DeliveryInv
  <2>7. ASSUME NEW t \in ToolIdx
        PROVE  /\ Delivered("input_json_delta", t) \o toolCalls[t].args = SentArgs(t)
               /\ toolCalls[t].started => toolCalls[t].args = <<>>
    <3>1. ArgsIn(t, EntriesLeft) = <<>>
      BY <2>2, ArgsInEmpty, Zenon
    <3>2. toolCalls[t].args \in Seq(Frags)
      BY <2>1 DEF TypeOK, ToolCallType
    <3>3. toolCalls[t].args \o <<>> = toolCalls[t].args
      BY <2>4, <3>2, Zenon
    <3> QED
      BY <3>1, <3>3, Zenon DEF DeliveryInv
  <2> QED
    BY <2>5, <2>6, <2>7
<1> QED
  BY <1>1, DeliveryInvariance, PTL

-----------------------------------------------------------------------------
(***************************************************************************)
(* The report.                                                             *)
(***************************************************************************)

\* One more value is the last given, if it is given.
LEMMA LastGivenMore ==
    ASSUME NEW n \in Nat, NEW v, NEW w, NEW absent, NEW default,
           DOMAIN w = 1..n, DOMAIN v = 1..(n + 1), \A k \in 1..n : v[k] = w[k]
    PROVE  LastGiven(v, absent, default)
             = IF v[n + 1] # absent THEN v[n + 1] ELSE LastGiven(w, absent, default)
<1> DEFINE G == {k \in DOMAIN v : v[k] # absent}
           H == {k \in DOMAIN w : w[k] # absent}
<1>1. LastGiven(v, absent, default) = IF G = {} THEN default ELSE v[Max(G)]
  BY DEF LastGiven
<1>2. LastGiven(w, absent, default) = IF H = {} THEN default ELSE w[Max(H)]
  BY DEF LastGiven
<1>3. CASE v[n + 1] # absent
  <2>1. n + 1 \in G /\ G \in SUBSET (1..(n + 1)) /\ n + 1 \in Nat
    BY <1>3
  <2>2. Max(G) \in G /\ \A y \in G : Max(G) >= y
    <3> HIDE DEF G
    <3> QED
      BY <2>1, MaxInBounds
  <2>3. Max(G) = n + 1
    <3>1. Max(G) \in 1..(n + 1) /\ Max(G) >= n + 1
      BY <2>1, <2>2
    <3> HIDE DEF G
    <3> QED
      BY <3>1
  <2> HIDE DEF G
  <2> QED
    BY <1>1, <1>3, <2>1, <2>3
<1>4. CASE v[n + 1] = absent
  <2>1. G = H
    BY <1>4
  <2>2. ASSUME G # {} PROVE v[Max(G)] = w[Max(G)]
    <3>1. H \in SUBSET (1..n)
      OBVIOUS
    <3>2. Max(H) \in H
      <4>1. H # {}
        BY <2>1, <2>2
      <4> HIDE DEF H
      <4> QED
        BY <3>1, <4>1, MaxInBounds
    <3>3. Max(H) \in 1..n
      BY <3>1, <3>2
    <3> HIDE DEF G, H
    <3> QED
      BY <2>1, <3>3
  <2> HIDE DEF G, H
  <2> QED
    BY <1>1, <1>2, <1>4, <2>1, <2>2
<1> QED
  BY <1>3, <1>4

\* One more line gives its usage, if it has one.
LEMMA UsageInMore ==
    ASSUME NEW s \in Seq(Lines), NEW l \in Lines
    PROVE  UsageIn(Append(s, l))
             = IF l.kind = "chunk" /\ l.usage # NoUsage THEN l.usage ELSE UsageIn(s)
<1> DEFINE u == Append(s, l)
           n == Len(s)
           v == [k \in DOMAIN u |-> IF u[k].kind = "chunk" THEN u[k].usage ELSE NoUsage]
           w == [k \in DOMAIN s |-> IF s[k].kind = "chunk" THEN s[k].usage ELSE NoUsage]
<1>1. n \in Nat /\ DOMAIN s = 1..n /\ DOMAIN u = 1..(n + 1) /\ u[n + 1] = l
  OBVIOUS
<1>2. \A k \in 1..n : u[k] = s[k]
  OBVIOUS
<1>3. UsageIn(u) = LastGiven(v, NoUsage, 0) /\ UsageIn(s) = LastGiven(w, NoUsage, 0)
  BY DEF UsageIn
<1> HIDE DEF u, n
<1>4. DOMAIN w = 1..n /\ DOMAIN v = 1..(n + 1) /\ \A k \in 1..n : v[k] = w[k]
  BY <1>1, <1>2
<1>5. v[n + 1] = IF l.kind = "chunk" THEN l.usage ELSE NoUsage
  BY <1>1
<1> HIDE DEF v, w
<1>6. LastGiven(v, NoUsage, 0)
        = IF v[n + 1] # NoUsage THEN v[n + 1] ELSE LastGiven(w, NoUsage, 0)
  BY <1>1, <1>4, LastGivenMore
<1> QED
  BY <1>3, <1>5, <1>6 DEF u

\* One more line gives its finish reason, if it has one and a delta.
LEMMA FinishInMore ==
    ASSUME NEW s \in Seq(Lines), NEW l \in Lines
    PROVE  FinishIn(Append(s, l))
             = IF HasDelta(l) /\ l.finish # NoStr THEN l.finish ELSE FinishIn(s)
<1> DEFINE u == Append(s, l)
           n == Len(s)
           v == [k \in DOMAIN u |-> IF HasDelta(u[k]) THEN u[k].finish ELSE NoStr]
           w == [k \in DOMAIN s |-> IF HasDelta(s[k]) THEN s[k].finish ELSE NoStr]
<1>1. n \in Nat /\ DOMAIN s = 1..n /\ DOMAIN u = 1..(n + 1) /\ u[n + 1] = l
  OBVIOUS
<1>2. \A k \in 1..n : u[k] = s[k]
  OBVIOUS
<1>3. FinishIn(u) = LastGiven(v, NoStr, "stop") /\ FinishIn(s) = LastGiven(w, NoStr, "stop")
  BY DEF FinishIn
<1> HIDE DEF u, n
<1>4. DOMAIN w = 1..n /\ DOMAIN v = 1..(n + 1) /\ \A k \in 1..n : v[k] = w[k]
  BY <1>1, <1>2
<1>5. v[n + 1] = IF HasDelta(l) THEN l.finish ELSE NoStr
  BY <1>1
<1>6. n \in Nat
  BY <1>1
<1> HIDE DEF v, w
<1>7. LastGiven(v, NoStr, "stop")
        = IF v[n + 1] # NoStr THEN v[n + 1] ELSE LastGiven(w, NoStr, "stop")
  <2>1. ASSUME NEW r
        PROVE  LastGiven(v, NoStr, r) = IF v[n + 1] # NoStr THEN v[n + 1] ELSE LastGiven(w, NoStr, r)
    BY <1>4, <1>6, LastGivenMore
  <2> QED
    BY <2>1, Zenon
<1> QED
  BY <1>3, <1>5, <1>7, Zenon DEF u

\* The lines taken are those before the current one, and this one.
LEMMA FrontAndLine ==
    ASSUME TypeOK, seen # <<>>
    PROVE  Front(seen) \in Seq(Lines) /\ line \in Lines /\ seen = Append(Front(seen), line)
<1>1. seen \in Seq(Lines) /\ Len(seen) \in Nat \ {0}
  BY DEF TypeOK
<1> QED
  BY <1>1 DEF Front, line, Last

\* With the current line, the lines give what it adds.
LEMMA NotedMore ==
    ASSUME TypeOK, seen # <<>>
    PROVE  /\ UsageIn(seen) = IF line.kind = "chunk" /\ line.usage # NoUsage
                              THEN line.usage ELSE UsageIn(Front(seen))
           /\ FinishIn(seen) = IF HasDelta(line) /\ line.finish # NoStr
                               THEN line.finish ELSE FinishIn(Front(seen))
<1>1. Front(seen) \in Seq(Lines) /\ line \in Lines /\ seen = Append(Front(seen), line)
  BY FrontAndLine
<1> DEFINE f == Front(seen)
           l == line
<1> HIDE DEF f, l
<1>2. f \in Seq(Lines) /\ l \in Lines
  BY <1>1 DEF f, l
<1>3. UsageIn(Append(f, l))
        = IF l.kind = "chunk" /\ l.usage # NoUsage THEN l.usage ELSE UsageIn(f)
  BY <1>2, UsageInMore
<1>4. FinishIn(Append(f, l)) = IF HasDelta(l) /\ l.finish # NoStr THEN l.finish ELSE FinishIn(f)
  BY <1>2, FinishInMore
<1> QED
  BY <1>1, <1>3, <1>4, Zenon DEF f, l

\* Before the first line nothing is reported and nothing was to be reported.
LEMMA InitReport ==
    ASSUME Init
    PROVE  ReportInv
<1>1. /\ UsageNoted = <<>> /\ FinishNoted = <<>>
      /\ outputTokens = 0 /\ stopReason = "end_turn" /\ ending = "streaming"
  BY DEF Init, UsageNoted, FinishNoted
<1>2. UsageIn(<<>>) = 0 /\ FinishIn(<<>>) = "stop"
  BY DEF UsageIn, FinishIn, LastGiven
<1>3. mapFinishReason("stop") = "end_turn"
  BY DEF mapFinishReason
<1> QED
  BY <1>1, <1>2, <1>3 DEF ReportInv

\* A step that notes nothing and does not complete the message.
LEMMA SilentReport ==
    ASSUME ReportInv, outputTokens' = outputTokens,
           stopReason' = stopReason \/ stopReason' = "error",
           UsageIn(UsageNoted)' = UsageIn(UsageNoted),
           FinishIn(FinishNoted)' = FinishIn(FinishNoted),
           ending' # "complete"
    PROVE  ReportInv'
<1>1. outputTokens' = UsageIn(UsageNoted)'
  BY DEF ReportInv
<1>2. stopReason' = "error" \/ stopReason' = mapFinishReason(FinishIn(FinishNoted)')
  BY DEF ReportInv
<1> QED
  BY <1>1, <1>2, Zenon DEF ReportInv

\* Every step keeps the usage and the stop reason those of the lines read so
\* far: a later usage replaces an earlier one, and so does a later reason.
LEMMA StepReport ==
    ASSUME IInv, DeltaStages, ReportInv, [Next]_vars
    PROVE  ReportInv'
<1> USE DEF blockVars, callVars, reportVars, endVars
<1>1. TypeOK /\ (pc \in {"line", "reasoning", "text", "tools"} => seen # <<>>)
  BY DEF IInv, TypeOK
<1>2. seen # <<>> =>
      /\ UsageIn(seen) = IF line.kind = "chunk" /\ line.usage # NoUsage
                         THEN line.usage ELSE UsageIn(Front(seen))
      /\ FinishIn(seen) = IF HasDelta(line) /\ line.finish # NoStr
                          THEN line.finish ELSE FinishIn(Front(seen))
  BY <1>1, NotedMore
<1>3. pc # "returned" => ending # "complete"
  BY DEF ReportInv
<1>4. ASSUME outputTokens' = outputTokens, stopReason' = stopReason \/ stopReason' = "error",
             seen' = seen, ending' # "complete",
             UsageNoted' = UsageNoted, FinishNoted' = FinishNoted
      PROVE  ReportInv'
  <2>1. UsageIn(UsageNoted)' = UsageIn(UsageNoted)
    BY <1>4, Zenon DEF UsageIn
  <2>2. FinishIn(FinishNoted)' = FinishIn(FinishNoted)
    BY <1>4, Zenon DEF FinishIn, HasDelta
  <2> QED
    BY <1>4, <2>1, <2>2, SilentReport
<1>5. CASE UNCHANGED vars
  <2>1. UsageNoted' = UsageNoted /\ FinishNoted' = FinishNoted
    BY <1>5 DEF vars, UsageNoted, FinishNoted
  <2>2. UsageIn(UsageNoted)' = UsageIn(UsageNoted)
    BY <2>1, Zenon DEF UsageIn
  <2>3. FinishIn(FinishNoted)' = FinishIn(FinishNoted)
    BY <2>1, Zenon DEF FinishIn, HasDelta
  <2>4. UNCHANGED <<outputTokens, stopReason, ending, final, pc>>
    BY <1>5 DEF vars
  <2> QED
    BY <2>2, <2>3, <2>4, Zenon DEF ReportInv
<1>6. CASE StillConnected
  BY <1>3, <1>4, <1>6 DEF StillConnected, UsageNoted, FinishNoted
<1>7. CASE Disconnect
  BY <1>3, <1>4, <1>7 DEF Disconnect, UsageNoted, FinishNoted
<1>8. ASSUME NEW l \in Lines, ReceiveLine(l)
      PROVE  ReportInv'
  <2>1. seen' = Append(seen, l) /\ pc = "select" /\ pc' = "line" /\ seen \in Seq(Lines)
    BY <1>1, <1>8 DEF ReceiveLine, TypeOK
  <2>2. Front(Append(seen, l)) = seen
    BY <2>1 DEF Front
  <2>3. UsageNoted = seen /\ UsageNoted' = Front(seen') /\ FinishNoted = seen
        /\ FinishNoted' = Front(seen')
    BY <2>1 DEF UsageNoted, FinishNoted, Front
  <2>4. UsageIn(UsageNoted)' = UsageIn(UsageNoted)
    BY <2>1, <2>2, <2>3, Zenon DEF UsageIn
  <2>5. FinishIn(FinishNoted)' = FinishIn(FinishNoted)
    BY <2>1, <2>2, <2>3, Zenon DEF FinishIn, HasDelta
  <2> QED
    BY <1>3, <1>8, <2>4, <2>5, SilentReport DEF ReceiveLine
<1>9. CASE EndOfStream
  BY <1>3, <1>4, <1>9 DEF EndOfStream, UsageNoted, FinishNoted
<1>10. CASE ReadError
  BY <1>3, <1>4, <1>10 DEF ReadError, UsageNoted, FinishNoted
<1>11. CASE Stall
  BY <1>3, <1>4, <1>11 DEF Stall, UsageNoted, FinishNoted
<1>12. ASSUME pc = "line", pc' \in {"loop", "after"}, seen' = seen,
              ~HasDelta(line), outputTokens' = UsageIn(seen), stopReason' = stopReason,
              ending' # "complete"
       PROVE  ReportInv'
  <2>1. UsageNoted' = seen /\ FinishNoted = Front(seen) /\ FinishNoted' = seen
    BY <1>12 DEF UsageNoted, FinishNoted
  <2>2. UsageIn(UsageNoted)' = UsageIn(seen)
    BY <2>1, Zenon DEF UsageIn
  <2>3. FinishIn(FinishNoted)' = FinishIn(seen)
    BY <2>1, Zenon DEF FinishIn, HasDelta
  <2>4. FinishIn(seen) = FinishIn(Front(seen))
    BY <1>1, <1>2, <1>12
  <2>5. stopReason' = "error" \/ stopReason' = mapFinishReason(FinishIn(FinishNoted)')
    BY <1>12, <2>1, <2>3, <2>4, Zenon DEF ReportInv
  <2> QED
    BY <1>12, <2>2, <2>5, Zenon DEF ReportInv
<1>13. ASSUME pc = "line", line.kind # "chunk"
       PROVE  ~HasDelta(line) /\ outputTokens = UsageIn(seen)
  BY <1>1, <1>2, <1>13 DEF HasDelta, ReportInv, UsageNoted
<1>14. CASE SkipLine
  BY <1>3, <1>12, <1>13, <1>14 DEF SkipLine
<1>15. CASE Done
  BY <1>3, <1>12, <1>13, <1>15 DEF Done
<1>16. CASE ErrorFrame
  BY <1>3, <1>12, <1>13, <1>16 DEF ErrorFrame
<1>17. CASE Chunk
  <2>1. /\ pc = "line" /\ seen' = seen /\ stopReason' = stopReason /\ ending' # "complete"
        /\ line.kind = "chunk"
    BY <1>3, <1>17 DEF Chunk
  <2>2. outputTokens' = UsageIn(seen)
    BY <1>1, <1>2, <1>17, <2>1 DEF Chunk, ReportInv, UsageNoted
  <2>3. CASE ~line.delta
    BY <1>12, <1>17, <2>1, <2>2, <2>3 DEF Chunk, HasDelta
  <2>4. CASE line.delta
    <3>1. UsageNoted' = seen /\ FinishNoted = Front(seen) /\ FinishNoted' = Front(seen')
      BY <1>17, <2>1, <2>4 DEF Chunk, UsageNoted, FinishNoted, Front
    <3>2. UsageIn(UsageNoted)' = UsageIn(seen)
      BY <3>1, Zenon DEF UsageIn
    <3>3. FinishIn(FinishNoted)' = FinishIn(FinishNoted)
      BY <2>1, <3>1, Zenon DEF FinishIn, HasDelta
    <3> QED
      BY <2>1, <2>2, <3>2, <3>3, Zenon DEF ReportInv
  <2> QED
    BY <2>3, <2>4
<1>18. CASE Reasoning
  BY <1>3, <1>4, <1>18 DEF Reasoning, UsageNoted, FinishNoted
<1>19. CASE Text
  BY <1>3, <1>4, <1>19 DEF Text, UsageNoted, FinishNoted
<1>20. CASE ToolCall
  BY <1>3, <1>4, <1>20 DEF ToolCall, UsageNoted, FinishNoted
<1>21. CASE Finish
  <2>1. /\ pc = "tools" /\ pc' = "loop" /\ seen' = seen /\ ending' # "complete"
        /\ outputTokens' = outputTokens
        /\ stopReason' = IF line.finish = NoStr THEN stopReason ELSE mapFinishReason(line.finish)
    BY <1>3, <1>21 DEF Finish
  <2>2. HasDelta(line)
    BY <2>1 DEF DeltaStages
  <2>3. UsageNoted = seen /\ UsageNoted' = seen /\ FinishNoted = Front(seen) /\ FinishNoted' = seen
    BY <2>1 DEF UsageNoted, FinishNoted
  <2>4. UsageIn(UsageNoted)' = UsageIn(UsageNoted)
    BY <2>3, Zenon DEF UsageIn
  <2>5. FinishIn(FinishNoted)' = FinishIn(seen)
    BY <2>3, Zenon DEF FinishIn, HasDelta
  <2>6. FinishIn(seen) = IF line.finish # NoStr THEN line.finish ELSE FinishIn(Front(seen))
    BY <1>1, <1>2, <2>1, <2>2
  <2>7. stopReason' = "error" \/ stopReason' = mapFinishReason(FinishIn(FinishNoted)')
    BY <2>1, <2>3, <2>5, <2>6, Zenon DEF ReportInv
  <2> QED
    BY <2>1, <2>4, <2>7, Zenon DEF ReportInv
<1>22. CASE ReturnOnAbort
  BY <1>3, <1>4, <1>22 DEF ReturnOnAbort, UsageNoted, FinishNoted
<1>23. CASE GuaranteeBlock
  BY <1>3, <1>4, <1>23 DEF GuaranteeBlock, UsageNoted, FinishNoted
<1>24. CASE Epilogue
  <2>1. UsageNoted' = UsageNoted /\ FinishNoted' = FinishNoted
    BY <1>24 DEF Epilogue, UsageNoted, FinishNoted
  <2>2. UsageIn(UsageNoted)' = UsageIn(UsageNoted)
    BY <2>1, Zenon DEF UsageIn
  <2>3. FinishIn(FinishNoted)' = FinishIn(FinishNoted)
    BY <2>1, Zenon DEF FinishIn, HasDelta
  <2>4. /\ final' = [stopReason |-> stopReason', outputTokens |-> outputTokens']
        /\ pc' = "returned" /\ outputTokens' = outputTokens /\ stopReason' = stopReason
    BY <1>24 DEF Epilogue
  <2> QED
    BY <2>2, <2>3, <2>4, Zenon DEF ReportInv
<1> QED
  BY <1>5, <1>6, <1>7, <1>8, <1>9, <1>10, <1>11, <1>14, <1>15, <1>16, <1>17, <1>18, <1>19,
     <1>20, <1>21, <1>22, <1>23, <1>24
  DEF Next, FromOutside, ProcessLine, AfterLoop, Returned

\* The report of a complete message is that of the lines: the last usage and
\* the last finish reason given, or that reading failed.
THEOREM ReportAlwaysFaithful == Spec => []ReportFaithful
<1>1. Init => ReportInv
  BY InitReport
<1>2. IInv /\ DeliveryInv /\ ReportInv /\ [Next]_vars => ReportInv'
  BY StepReport DEF DeliveryInv
<1>3. ReportInv => ReportFaithful
  <2> SUFFICES ASSUME ReportInv, ending = "complete"
               PROVE  /\ final.outputTokens = UsageIn(seen)
                      /\ \/ final.stopReason = "error"
                         \/ final.stopReason = mapFinishReason(FinishIn(seen))
    BY Zenon DEF ReportFaithful, UsageIn, FinishIn
  <2>1. /\ final.outputTokens = outputTokens /\ final.stopReason = stopReason
        /\ UsageNoted = seen /\ FinishNoted = seen
    BY DEF ReportInv, UsageNoted, FinishNoted
  <2> QED
    BY <2>1, Zenon DEF ReportInv
<1> QED
  BY <1>1, <1>2, <1>3, DeliveryInvariance, PTL DEF Spec

-----------------------------------------------------------------------------
(***************************************************************************)
(* Who is spoken of.                                                       *)
(***************************************************************************)
LEMMA IndexType ==
    ASSUME NEW e \in ToolEntry
    PROVE  IndexOf(e) \in Speaker
  BY LinesAssumption DEF IndexOf, ToolEntry, NoIndex, Speaker

\* The callers in the entries of a line are speakers.
LEMMA CallersType ==
    ASSUME NEW es \in Seq(ToolEntry)
    PROVE  Callers(es) \in Seq(Speaker)
<1>1. \A k \in 1..Len(es) : es[k] \in ToolEntry /\ IndexOf(es[k]) \in Speaker
  BY IndexType
<1>2. Callers(es) \in [1..Len(es) -> Speaker]
  BY <1>1 DEF Callers
<1> QED
  BY <1>2

\* The caller of the first entry comes first.
LEMMA CallersHead ==
    ASSUME NEW es \in Seq(ToolEntry), es # <<>>
    PROVE  Callers(es) = <<IndexOf(Head(es))>> \o Callers(Tail(es))
<1> DEFINE t == IndexOf(Head(es))
           a == Callers(es)
           b == Callers(Tail(es))
           n == Len(es)
<1>1. n \in Nat \ {0} /\ Tail(es) \in Seq(ToolEntry) /\ Len(Tail(es)) = n - 1
      /\ Head(es) = es[1] /\ Head(es) \in ToolEntry
  OBVIOUS
<1>2. a \in Seq(Speaker) /\ b \in Seq(Speaker) /\ t \in Speaker
  BY <1>1, CallersType, IndexType
<1>3. Len(a) = n /\ Len(b) = n - 1
  BY <1>1 DEF Callers
<1>4. \A k \in 1..n : a[k] = IndexOf(es[k])
  BY DEF Callers
<1>5. \A k \in 1..(n - 1) : b[k] = IndexOf(es[k + 1])
  <2> SUFFICES ASSUME NEW k \in 1..(n - 1) PROVE b[k] = IndexOf(es[k + 1])
    OBVIOUS
  <2>1. k \in DOMAIN Tail(es) /\ Tail(es)[k] = es[k + 1]
    BY <1>1
  <2> QED
    BY <2>1 DEF Callers
<1>10. a[1] = t
  BY <1>1, <1>4
<1> HIDE DEF a, b, t, n
<1> DEFINE c == <<t>> \o b
<1>6. c \in Seq(Speaker) /\ Len(c) = n /\ c[1] = t
  BY <1>1, <1>2, <1>3
<1>7. \A k \in 2..n : c[k] = b[k - 1]
  BY <1>1, <1>2, <1>3
<1>8. ASSUME NEW k \in 1..n PROVE a[k] = c[k]
  <2>1. CASE k = 1
    BY <1>6, <1>10, <2>1
  <2>2. CASE k # 1
    <3>1. k \in 2..n /\ k - 1 \in 1..(n - 1) /\ (k - 1) + 1 = k
      BY <1>1, <2>2
    <3>2. c[k] = b[k - 1]
      BY <1>7, <3>1
    <3> HIDE DEF c
    <3> QED
      BY <1>4, <1>5, <3>1, <3>2
  <2> QED
    BY <2>1, <2>2
<1> HIDE DEF c
<1>9. a = c
  BY <1>2, <1>3, <1>6, <1>8, SeqEqual
<1> QED
  BY <1>9 DEF a, b, c, t

\* One more is spoken of.
LEMMA OneMoreSpoken ==
    \A spoken \in Seq(Speaker) : \A x \in Speaker : \A z \in Seq(Speaker) :
        spoken \o (<<x>> \o z) = Append(spoken, x) \o z
<1> SUFFICES ASSUME NEW spoken \in Seq(Speaker), NEW x \in Speaker, NEW z \in Seq(Speaker)
             PROVE  spoken \o (<<x>> \o z) = Append(spoken, x) \o z
  OBVIOUS
<1>1. <<x>> \in Seq(Speaker)
  OBVIOUS
<1>2. spoken \o <<x>> = Append(spoken, x)
  OBVIOUS
<1>3. spoken \o (<<x>> \o z) = (spoken \o <<x>>) \o z
  BY <1>1, ConcatAssociative
<1> QED
  BY <1>2, <1>3, Zenon

\* Who a line speaks of.
SpeakersIn == [l \in Lines |-> Speakers(l)]

\* So are all who speak in a line.
LEMMA SpeakersType ==
    SpeakersIn \in [Lines -> Seq(Speaker)]
<1> SUFFICES ASSUME NEW l \in Lines PROVE Speakers(l) \in Seq(Speaker)
  BY DEF SpeakersIn
<1>1. l.tools \in Seq(ToolEntry)
  BY LinesAssumption DEF Line
<1>2. Callers(l.tools) \in Seq(Speaker)
  BY <1>1, CallersType
<1>3. <<>> \in Seq(Speaker) /\ <<NoCall>> \in Seq(Speaker)
  BY DEF Speaker
<1>4. Speakers(l) = IF ~HasDelta(l) THEN <<>>
                    ELSE (IF l.reasoning = <<>> /\ l.content = <<>> THEN <<>> ELSE <<NoCall>>)
                         \o Callers(l.tools)
  BY Zenon DEF Speakers, Callers
<1> QED
  BY <1>2, <1>3, <1>4

\* Who was spoken of, mapped and flattened from the lines.
LEMMA SaidMaps ==
    ASSUME seen \in Seq(Lines)
    PROVE  Said = FlatMap(SpeakersIn, seen)
<1>1. \A k \in DOMAIN seen : seen[k] \in Lines
  OBVIOUS
<1>2. \A k \in DOMAIN seen : SpeakersIn[seen[k]] = Speakers(seen[k])
  BY <1>1 DEF SpeakersIn
<1>3. Mapped(SpeakersIn, seen) = [k \in DOMAIN seen |-> Speakers(seen[k])]
  BY <1>2 DEF Mapped
<1> QED
  BY <1>3, Zenon DEF Said, FlatMap

\* Who spoke so far is a sequence of speakers.
LEMMA SaidType ==
    ASSUME seen \in Seq(Lines)
    PROVE  Said \in Seq(Speaker)
<1>1. FlatMap(SpeakersIn, seen) \in Seq(Speaker)
  BY SpeakersType, FlatMapType
<1> QED
  BY <1>1, SaidMaps

\* A line that is taken adds those it speaks of.
LEMMA ReceiveSays ==
    ASSUME seen \in Seq(Lines), NEW l \in Lines, seen' = Append(seen, l)
    PROVE  Said' = Said \o Speakers(l)
<1>1. (seen \in Seq(Lines))'
  OBVIOUS
<1>2. Said = FlatMap(SpeakersIn, seen)
  BY SaidMaps
<1>3. (Said = FlatMap(SpeakersIn, seen))'
  BY <1>1, SaidMaps, PTL
<1>4. FlatMap(SpeakersIn, Append(seen, l)) = FlatMap(SpeakersIn, seen) \o SpeakersIn[l]
  BY SpeakersType, FlatMapAppend
<1>5. SpeakersIn[l] = Speakers(l)
  BY DEF SpeakersIn
<1> QED
  BY <1>2, <1>3, <1>4, <1>5, Zenon

-----------------------------------------------------------------------------
(***************************************************************************)
(* One call at a time.                                                     *)
(***************************************************************************)
OneAtATime(said) ==
    \A i, j, k \in DOMAIN said :
        i < j /\ j < k /\ said[i] = said[k] /\ said[i] # NoCall => said[j] = said[i]

\* The condition on the stream is one on the sequence of its speakers.
LEMMA OneCallAtATimeSaid == OneCallAtATime <=> OneAtATime(Said)
  BY Zenon DEF OneCallAtATime, OneAtATime, Said

\* If all that is said keeps to it, what was said before did.
LEMMA OneAtATimeBefore ==
    ASSUME NEW s \in Seq(Speaker), NEW z \in Seq(Speaker), OneAtATime(s \o z)
    PROVE  OneAtATime(s)
<1> SUFFICES ASSUME NEW i \in DOMAIN s, NEW j \in DOMAIN s, NEW k \in DOMAIN s,
                    i < j, j < k, s[i] = s[k], s[i] # NoCall
             PROVE  s[j] = s[i]
  BY DEF OneAtATime
<1>1. /\ i \in DOMAIN (s \o z) /\ j \in DOMAIN (s \o z) /\ k \in DOMAIN (s \o z)
      /\ (s \o z)[i] = s[i] /\ (s \o z)[j] = s[j] /\ (s \o z)[k] = s[k]
  OBVIOUS
<1> QED
  BY <1>1 DEF OneAtATime

\* If a call is spoken of again, no other was in between.
LEMMA NotInterrupted ==
    ASSUME NEW s \in Seq(Speaker), NEW t \in ToolIdx, NEW z \in Seq(Speaker),
           OneAtATime(s \o (<<t>> \o z)),
           NEW i \in DOMAIN s, NEW j \in DOMAIN s, i < j, s[i] = t
    PROVE  s[j] = t
<1> DEFINE y == <<t>> \o z
           u == s \o y
           k == Len(s) + 1
<1>1. y \in Seq(Speaker) /\ Len(y) >= 1 /\ y[1] = t
  BY DEF Speaker
<1> HIDE DEF y
<1>2. i \in DOMAIN u /\ j \in DOMAIN u /\ k \in DOMAIN u /\ j < k
  BY <1>1
<1>3. u[i] = s[i] /\ u[j] = s[j] /\ u[k] = t
  BY <1>1
<1>4. t # NoCall
  BY LinesAssumption DEF NoCall
<1>5. OneAtATime(u)
  BY DEF y
<1> HIDE DEF u, k
<1> QED
  BY <1>2, <1>3, <1>4, <1>5 DEF OneAtATime

-----------------------------------------------------------------------------
(***************************************************************************)
(* Where arguments go.                                                     *)
(***************************************************************************)

\* An arguments delta is in a block of its call.
InPlace(d, b) == d.type = "input_json_delta" => b.type = "tool_use" /\ b.call = d.call

\* A step that extends the last block leaves its type and call, and the
\* arguments in place if the delta is.
LEMMA ExtendsPlace ==
    ASSUME TypeOK, NEW d, Extends(d)
    PROVE  /\ contentBlockIndex >= 0 /\ contentBlockIndex' = contentBlockIndex
           /\ content'[contentBlockIndex].type = content[contentBlockIndex].type
           /\ content'[contentBlockIndex].call = content[contentBlockIndex].call
           /\ ToolArgsInPlace /\ InPlace(d, content[contentBlockIndex]) => ToolArgsInPlace'
<1> DEFINE n == contentBlockIndex
<1>1. n \in Nat /\ n' = n /\ content \in [0..n -> BlockType] /\ n \in 0..n /\ d \in DeltaType
  BY DEF TypeOK, Extends
<1>2. /\ content' \in [0..n -> BlockType]
      /\ \A j \in 0..n : j # n => content'[j] = content[j]
      /\ content'[n] = [content[n] EXCEPT !.deltas = Append(content[n].deltas, d)]
  BY <1>1, DeltaWritten DEF Extends
<1>3. /\ content'[n].type = content[n].type
      /\ content'[n].call = content[n].call
      /\ content'[n].deltas = Append(content[n].deltas, d)
      /\ content[n].deltas \in Seq(DeltaType)
  BY <1>1, <1>2 DEF BlockType
<1>4. ASSUME ToolArgsInPlace, InPlace(d, content[n])
      PROVE  ToolArgsInPlace'
  <2> SUFFICES ASSUME NEW i \in 0..n, NEW k \in DOMAIN content'[i].deltas
               PROVE  InPlace(content'[i].deltas[k], content'[i])
    BY <1>2 DEF ToolArgsInPlace, InPlace
  <2>1. CASE i # n
    BY <1>1, <1>2, <1>4, <2>1 DEF ToolArgsInPlace, InPlace
  <2>2. CASE i = n
    <3> DEFINE ds == content[n].deltas
    <3>1. ds \in Seq(DeltaType) /\ content'[i].deltas = Append(ds, d) /\ k \in 1..(Len(ds) + 1)
      BY <1>3, <2>2
    <3>2. CASE k = Len(ds) + 1
      <4>1. content'[i].deltas[k] = d
        BY <3>1, <3>2
      <4> QED
        BY <1>3, <1>4, <2>2, <4>1 DEF InPlace
    <3>3. CASE k # Len(ds) + 1
      <4>1. k \in DOMAIN ds /\ content'[i].deltas[k] = ds[k]
        BY <3>1, <3>3
      <4> QED
        BY <1>1, <1>3, <1>4, <2>2, <4>1 DEF ToolArgsInPlace, InPlace
    <3> QED
      BY <3>2, <3>3
  <2> QED
    BY <2>1, <2>2
<1> QED
  BY <1>1, <1>3, <1>4

\* A step that opens a block has it last, and the arguments in place if those
\* it is opened with are.
LEMMA OpensPlace ==
    ASSUME TypeOK, NEW b, Opens(b)
    PROVE  /\ contentBlockIndex' >= 0
           /\ content'[contentBlockIndex'] = b
           /\ ToolArgsInPlace /\ (\A k \in DOMAIN b.deltas : InPlace(b.deltas[k], b))
                => ToolArgsInPlace'
<1> DEFINE n == contentBlockIndex
<1>1. n \in Nat \cup {-1} /\ n' = n + 1 /\ content \in [0..n -> BlockType]
  BY DEF TypeOK, Opens
<1>2. /\ content' \in [0..(n + 1) -> BlockType]
      /\ \A j \in 0..(n - 1) : content'[j] = content[j]
      /\ n >= 0 => content'[n] = [content[n] EXCEPT !.stops = content[n].stops + 1]
      /\ content'[n + 1] = b
  BY DEF Opens
<1>3. ASSUME NEW j \in 0..n
      PROVE  /\ content'[j].type = content[j].type
             /\ content'[j].call = content[j].call
             /\ content'[j].deltas = content[j].deltas
  <2>1. CASE j # n
    <3>1. j \in 0..(n - 1)
      BY <1>1, <2>1
    <3> QED
      BY <1>2, <3>1
  <2>2. CASE j = n
    <3>1. n >= 0 /\ content[n] \in BlockType
      BY <1>1, <2>2
    <3> QED
      BY <1>2, <2>2, <3>1 DEF BlockType
  <2> QED
    BY <2>1, <2>2
<1>4. ASSUME ToolArgsInPlace, \A k \in DOMAIN b.deltas : InPlace(b.deltas[k], b)
      PROVE  ToolArgsInPlace'
  <2> SUFFICES ASSUME NEW i \in 0..(n + 1), NEW k \in DOMAIN content'[i].deltas
               PROVE  InPlace(content'[i].deltas[k], content'[i])
    BY <1>2 DEF ToolArgsInPlace, InPlace
  <2>1. CASE i = n + 1
    BY <1>2, <1>4, <2>1
  <2>2. CASE i # n + 1
    <3>1. i \in 0..n
      BY <1>1, <2>2
    <3> QED
      BY <1>1, <1>3, <1>4, <3>1 DEF ToolArgsInPlace, InPlace
  <2> QED
    BY <2>1, <2>2
<1> QED
  BY <1>1, <1>2, <1>4

\* A step that opens a block without a call: another has been spoken of after
\* each call whose block was last.
LEMMA InterruptedMore ==
    ASSUME NEW spoken \in Seq(Speaker), NEW x \in Speaker, Interrupted(spoken),
           \A t \in ToolIdx : toolCalls'[t].started =>
               \/ toolCalls[t].started /\ (x # t \/ (BlockOf(t) => BlockOf(t)'))
               \/ x = t /\ BlockOf(t)'
    PROVE  Interrupted(Append(spoken, x))'
<1> DEFINE s == Append(spoken, x)
           n == Len(spoken) + 1
<1>1. /\ n \in DOMAIN s /\ s[n] = x
      /\ \A i \in DOMAIN spoken : i \in DOMAIN s /\ s[i] = spoken[i] /\ i < n
  OBVIOUS
<1> HIDE DEF s, n
<1> SUFFICES ASSUME NEW t \in ToolIdx, toolCalls'[t].started
             PROVE  \E i \in DOMAIN s : /\ s[i] = t
                                        /\ BlockOf(t)' \/ \E j \in DOMAIN s : i < j /\ s[j] # t
  BY DEF Interrupted, s
<1>2. CASE x = t /\ BlockOf(t)'
  BY <1>1, <1>2, Zenon
<1>3. CASE toolCalls[t].started /\ (x # t \/ (BlockOf(t) => BlockOf(t)'))
  <2>1. PICK i \in DOMAIN spoken : /\ spoken[i] = t
                                   /\ BlockOf(t) \/ \E j \in DOMAIN spoken : i < j /\ spoken[j] # t
    BY <1>3, Zenon DEF Interrupted
  <2>2. i \in DOMAIN s /\ s[i] = t /\ i < n
    BY <1>1, <2>1
  <2>3. CASE \E j \in DOMAIN spoken : i < j /\ spoken[j] # t
    BY <1>1, <2>2, <2>3, Zenon
  <2>4. CASE BlockOf(t)
    BY <1>1, <1>3, <2>2, <2>4, Zenon
  <2> QED
    BY <2>1, <2>3, <2>4
<1> QED
  BY <1>2, <1>3

\* A step in which no call starts, and which keeps the last block if it was that
\* of a call.
LEMMA InterruptedSame ==
    ASSUME NEW spoken, Interrupted(spoken),
           \A t \in ToolIdx : toolCalls'[t].started =>
               toolCalls[t].started /\ (BlockOf(t) => BlockOf(t)')
    PROVE  Interrupted(spoken)'
  BY Zenon DEF Interrupted

-----------------------------------------------------------------------------
(***************************************************************************)
(* Arguments in place: the steps.                                          *)
(***************************************************************************)

\* Who is left to be spoken of, by stage.
LEMMA ToSpeakByStage ==
    /\ pc = "line" => ToSpeak = Speakers(line)
    /\ pc = "reasoning" => ToSpeak = Speakers(line)
    /\ pc = "text" =>
         ToSpeak = (IF line.reasoning = <<>> /\ line.content # <<>> THEN <<NoCall>> ELSE <<>>)
                     \o Callers(line.tools)
    /\ pc = "tools" => ToSpeak = Callers(rest)
    /\ pc \notin {"line", "reasoning", "text", "tools"} => ToSpeak = <<>>
<1>1. ~HasDelta(line) => Speakers(line) = <<>>
  BY DEF Speakers
<1>2. pc = "line" => ToSpeak = Speakers(line)
  <2>1. CASE pc = "line" /\ HasDelta(line)
    BY <2>1 DEF ToSpeak, ReasoningAhead
  <2>2. CASE pc = "line" /\ ~HasDelta(line)
    <3>1. ~ReasoningAhead /\ pc # "text" /\ pc # "tools"
      BY <2>2 DEF ReasoningAhead
    <3> QED
      BY <1>1, <2>2, <3>1 DEF ToSpeak
  <2> QED
    BY <2>1, <2>2
<1>3. pc = "reasoning" => ToSpeak = Speakers(line)
  BY DEF ToSpeak, ReasoningAhead
<1>4. pc = "text" =>
         ToSpeak = (IF line.reasoning = <<>> /\ line.content # <<>> THEN <<NoCall>> ELSE <<>>)
                     \o Callers(line.tools)
  BY DEF ToSpeak, ReasoningAhead
<1>5. pc = "tools" => ToSpeak = Callers(rest)
  BY DEF ToSpeak, ReasoningAhead
<1>6. pc \notin {"line", "reasoning", "text", "tools"} => ToSpeak = <<>>
  BY DEF ToSpeak, ReasoningAhead
<1> QED
  BY <1>2, <1>3, <1>4, <1>5, <1>6

\* Both stay as they are where no line is received.
LEMMA SaidSame ==
    ASSUME seen' = seen
    PROVE  Said' = Said /\ (OneCallAtATime' <=> OneCallAtATime)
<1>1. Said' = Said
  BY Zenon DEF Said, Speakers, HasDelta
<1>2. (OneCallAtATime <=> OneAtATime(Said))'
  BY OneCallAtATimeSaid, PTL
<1>3. OneAtATime(Said)' <=> OneAtATime(Said)
  BY <1>1, Zenon DEF OneAtATime
<1> QED
  BY <1>1, <1>2, <1>3, OneCallAtATimeSaid

\* A step that takes no line.
LEMMA PlaceStep ==
    ASSUME seen' = seen, ThinkingLast', NEW spoken \in Seq(Speaker),
           spoken \o ToSpeak' = Said, Interrupted(spoken)',
           OneCallAtATime => ToolArgsInPlace'
    PROVE  PlaceInv'
<1>1. Said' = Said /\ (OneCallAtATime' <=> OneCallAtATime)
  BY SaidSame
<1>2. ToolArgsInPlaceInOrder'
  BY <1>1, Zenon DEF ToolArgsInPlaceInOrder
<1> QED
  BY <1>1, <1>2, Zenon DEF PlaceInv

\* One that speaks of nobody, starts no call and keeps the last block if it was
\* that of a call.
LEMMA SilentPlace ==
    ASSUME PlaceInv, seen' = seen, ThinkingLast', ToSpeak' = ToSpeak,
           \A t \in ToolIdx : toolCalls'[t].started =>
               toolCalls[t].started /\ (BlockOf(t) => BlockOf(t)'),
           ToolArgsInPlace => ToolArgsInPlace'
    PROVE  PlaceInv'
<1>1. PICK spoken \in Seq(Speaker) : spoken \o ToSpeak = Said /\ Interrupted(spoken)
  BY Zenon DEF PlaceInv
<1>2. Interrupted(spoken)'
  BY <1>1, InterruptedSame
<1>3. OneCallAtATime => ToolArgsInPlace'
  BY Zenon DEF PlaceInv, ToolArgsInPlaceInOrder
<1>4. spoken \o ToSpeak' = Said
  BY <1>1, Zenon
<1> QED
  BY <1>2, <1>3, <1>4, PlaceStep

\* One that leaves blocks and calls alone.
LEMMA StillPlace ==
    ASSUME PlaceInv, seen' = seen, ThinkingLast', ToSpeak' = ToSpeak,
           UNCHANGED blockVars, toolCalls' = toolCalls
    PROVE  PlaceInv'
<1>1. \A t : BlockOf(t)' <=> BlockOf(t)
  BY DEF BlockOf, blockVars
<1>2. ToolArgsInPlace' <=> ToolArgsInPlace
  BY DEF ToolArgsInPlace, blockVars
<1> QED
  BY <1>1, <1>2, SilentPlace

\* A line received: its speakers are those still to be served.
LEMMA ReceivePlace ==
    ASSUME IInv, PlaceInv, NEW l \in Lines, ReceiveLine(l)
    PROVE  PlaceInv'
<1>1. /\ seen \in Seq(Lines) /\ seen' = Append(seen, l) /\ pc = "select" /\ pc' = "line"
      /\ UNCHANGED blockVars /\ toolCalls' = toolCalls
  BY DEF IInv, TypeOK, ReceiveLine, callVars
<1>2. line' = l
  BY <1>1 DEF line, Last
<1>3. ToSpeak = <<>>
  BY <1>1, ToSpeakByStage
<1>4. ToSpeak' = Speakers(l)
  <2>1. (pc = "line" => ToSpeak = Speakers(line))'
    BY ToSpeakByStage, PTL
  <2>2. Speakers(line)' = Speakers(l)
    BY <1>2, Zenon DEF Speakers, HasDelta
  <2> QED
    BY <1>1, <2>1, <2>2
<1>5. PICK spoken \in Seq(Speaker) : spoken \o ToSpeak = Said /\ Interrupted(spoken)
  BY Zenon DEF PlaceInv
<1>6. spoken = Said
  <2>1. spoken \o <<>> = spoken
    OBVIOUS
  <2> QED
    BY <1>3, <1>5, <2>1, Zenon
<1>7. Said' = Said \o Speakers(l)
  BY <1>1, ReceiveSays
<1>8. spoken \o ToSpeak' = Said'
  BY <1>4, <1>6, <1>7, Zenon
<1>9. \A t : BlockOf(t)' <=> BlockOf(t)
  BY <1>1 DEF BlockOf, blockVars
<1>10. Interrupted(spoken)'
  BY <1>1, <1>5, <1>9, InterruptedSame
<1>11. ToolArgsInPlaceInOrder'
  <2> SUFFICES ASSUME OneCallAtATime' PROVE ToolArgsInPlace'
    BY DEF ToolArgsInPlaceInOrder
  <2>1. (OneCallAtATime <=> OneAtATime(Said))'
    BY OneCallAtATimeSaid, PTL
  <2>2. OneAtATime(Said \o Speakers(l))
    BY <1>7, <2>1, Zenon DEF OneAtATime
  <2>3. Said \in Seq(Speaker) /\ Speakers(l) \in Seq(Speaker)
    BY <1>1, SaidType, SpeakersType DEF SpeakersIn
  <2>4. OneAtATime(Said)
    BY <2>2, <2>3, OneAtATimeBefore
  <2>5. ToolArgsInPlace
    BY <2>4, OneCallAtATimeSaid DEF PlaceInv, ToolArgsInPlaceInOrder
  <2> QED
    BY <1>1, <2>5 DEF ToolArgsInPlace, blockVars
<1>12. ThinkingLast'
  BY <1>1 DEF ThinkingLast
<1> QED
  BY <1>8, <1>10, <1>11, <1>12, Zenon DEF PlaceInv

\* The reasoning of a line, written or left out.
LEMMA ReasoningPlace ==
    ASSUME IInv, DeltaStages, PlaceInv, Reasoning
    PROVE  PlaceInv'
<1> DEFINE C == Callers(line.tools)
<1>1. /\ TypeOK /\ line \in Line /\ pc = "reasoning" /\ pc' = "text"
      /\ seen' = seen /\ toolCalls' = toolCalls
  BY LineTyped DEF IInv, TypeOK, Reasoning, callVars
<1>2. line' = line /\ HasDelta(line)
  BY <1>1 DEF line, DeltaStages
<1>3. C \in Seq(Speaker)
  BY <1>1, CallersType DEF Line
<1>4. ToSpeak = (IF line.reasoning = <<>> /\ line.content = <<>> THEN <<>> ELSE <<NoCall>>) \o C
  <2>1. ToSpeak = Speakers(line)
    BY <1>1, ToSpeakByStage
  <2> QED
    BY <1>2, <2>1, Zenon DEF Speakers, Callers
<1>5. ToSpeak' = (IF line.reasoning = <<>> /\ line.content # <<>> THEN <<NoCall>> ELSE <<>>) \o C
  <2>1. (pc = "text" =>
          ToSpeak = (IF line.reasoning = <<>> /\ line.content # <<>> THEN <<NoCall>> ELSE <<>>)
                      \o Callers(line.tools))'
    BY ToSpeakByStage, PTL
  <2>2. Callers(line.tools)' = C
    BY <1>2, Zenon DEF Callers
  <2> QED
    BY <1>1, <1>2, <2>1, <2>2
<1> HIDE DEF C
<1>6. CASE line.reasoning = <<>>
  <2>1. ToSpeak' = ToSpeak
    BY <1>4, <1>5, <1>6
  <2>2. ThinkingLast'
    BY <1>2, <1>6 DEF ThinkingLast
  <2>3. UNCHANGED blockVars
    BY <1>6, ReasoningOnBlocks
  <2> QED
    BY <1>1, <2>1, <2>2, <2>3, StillPlace
<1>7. CASE line.reasoning # <<>>
  <2>1. PICK spoken \in Seq(Speaker) : spoken \o ToSpeak = Said /\ Interrupted(spoken)
    BY Zenon DEF PlaceInv
  <2>2. NoCall \in Speaker /\ Append(spoken, NoCall) \in Seq(Speaker)
    BY DEF Speaker
  <2>3. Append(spoken, NoCall) \o ToSpeak' = Said
    <3>1. ToSpeak = <<NoCall>> \o C /\ ToSpeak' = C
      BY <1>3, <1>4, <1>5, <1>7
    <3>2. spoken \o (<<NoCall>> \o C) = Append(spoken, NoCall) \o C
      BY <1>3, <2>2, OneMoreSpoken, Zenon
    <3> QED
      BY <2>1, <3>1, <3>2, Zenon
  <2>4. \A t \in ToolIdx : NoCall # t
    BY LinesAssumption DEF NoCall
  <2>5. Interrupted(Append(spoken, NoCall))'
    BY <1>1, <2>1, <2>2, <2>4, InterruptedMore
  <2>6. ThinkingLast' /\ (ToolArgsInPlace => ToolArgsInPlace')
    <3>1. ReasoningDelta.type = "thinking_delta"
      BY DEF ReasoningDelta, Delta
    <3>2. ASSUME NEW d, d = ReasoningDelta, Extends(d)
          PROVE  /\ contentBlockIndex' >= 0
                 /\ content'[contentBlockIndex'].type = "thinking"
                 /\ ToolArgsInPlace => ToolArgsInPlace'
      <4>1. d.type = "thinking_delta" /\ InPlace(d, content[contentBlockIndex])
        BY <3>1, <3>2 DEF InPlace
      <4>2. content[contentBlockIndex].type = "thinking"
        BY <3>2, <4>1 DEF Extends, Fits
      <4> QED
        BY <1>1, <3>2, <4>1, <4>2, ExtendsPlace
    <3>3. ASSUME NEW b, Opens(b), b.type = "thinking", b.deltas = <<ReasoningDelta>>
          PROVE  /\ contentBlockIndex' >= 0
                 /\ content'[contentBlockIndex'].type = "thinking"
                 /\ ToolArgsInPlace => ToolArgsInPlace'
      <4>1. \A k \in DOMAIN b.deltas : InPlace(b.deltas[k], b)
        BY <3>1, <3>3 DEF InPlace
      <4> QED
        BY <1>1, <3>3, <4>1, OpensPlace
    <3> QED
      BY <1>7, <3>2, <3>3, ReasoningOnBlocks DEF ThinkingLast
  <2>7. OneCallAtATime => ToolArgsInPlace'
    BY <2>6 DEF PlaceInv, ToolArgsInPlaceInOrder
  <2> QED
    BY <1>1, <2>2, <2>3, <2>5, <2>6, <2>7, PlaceStep
<1> QED
  BY <1>6, <1>7

\* The text of a line: it ends a block of another kind, and no call may go on
\* after that.
LEMMA TextPlace ==
    ASSUME IInv, PlaceInv, Text
    PROVE  PlaceInv'
<1> DEFINE C == Callers(line.tools)
<1>1. /\ TypeOK /\ line \in Line /\ pc = "text" /\ pc' = "tools" /\ rest' = line.tools
      /\ seen' = seen /\ toolCalls' = toolCalls
  BY LineTyped DEF IInv, TypeOK, Text
<1>2. C \in Seq(Speaker)
  BY <1>1, CallersType DEF Line
<1>3. ToSpeak = (IF line.reasoning = <<>> /\ line.content # <<>> THEN <<NoCall>> ELSE <<>>) \o C
  BY <1>1, ToSpeakByStage
<1>4. ToSpeak' = C
  <2>1. (pc = "tools" => ToSpeak = Callers(rest))'
    BY ToSpeakByStage, PTL
  <2>2. Callers(rest)' = C
    BY <1>1, Zenon DEF Callers
  <2> QED
    BY <1>1, <2>1, <2>2
<1>5. <<>> \o C = C
  BY <1>2
<1> HIDE DEF C
<1>6. ThinkingLast'
  BY <1>1 DEF ThinkingLast
<1>7. CASE line.content = <<>>
  <2>1. ToSpeak' = ToSpeak
    BY <1>3, <1>4, <1>5, <1>7
  <2>2. UNCHANGED blockVars
    BY <1>7, TextOnBlocks
  <2> QED
    BY <1>1, <1>6, <2>1, <2>2, StillPlace
<1>8. CASE line.content # <<>>
  <2>1. TextDelta.type = "text_delta"
    BY DEF TextDelta, Delta
  <2>2. ASSUME NEW d, d = TextDelta, Extends(d)
        PROVE  /\ \A t : BlockOf(t) => BlockOf(t)'
               /\ ToolArgsInPlace => ToolArgsInPlace'
    <3>1. d.type = "text_delta" /\ InPlace(d, content[contentBlockIndex])
      BY <2>1, <2>2 DEF InPlace
    <3> QED
      BY <1>1, <2>2, <3>1, ExtendsPlace DEF BlockOf
  <2>3. ASSUME NEW b, Opens(b), b.deltas = <<TextDelta>>
        PROVE  ToolArgsInPlace => ToolArgsInPlace'
    <3>1. \A k \in DOMAIN b.deltas : InPlace(b.deltas[k], b)
      BY <2>1, <2>3 DEF InPlace
    <3> QED
      BY <1>1, <2>3, <3>1, OpensPlace
  <2>4. ToolArgsInPlace => ToolArgsInPlace'
    BY <1>8, <2>2, <2>3, TextOnBlocks
  <2>5. CASE line.reasoning = <<>>
    <3>1. PICK spoken \in Seq(Speaker) : spoken \o ToSpeak = Said /\ Interrupted(spoken)
      BY Zenon DEF PlaceInv
    <3>2. NoCall \in Speaker /\ Append(spoken, NoCall) \in Seq(Speaker)
      BY DEF Speaker
    <3>3. Append(spoken, NoCall) \o ToSpeak' = Said
      <4>1. ToSpeak = <<NoCall>> \o C
        BY <1>3, <1>8, <2>5
      <4>2. spoken \o (<<NoCall>> \o C) = Append(spoken, NoCall) \o C
        BY <1>2, <3>2, OneMoreSpoken, Zenon
      <4> QED
        BY <1>4, <3>1, <4>1, <4>2, Zenon
    <3>4. \A t \in ToolIdx : NoCall # t
      BY LinesAssumption DEF NoCall
    <3>5. Interrupted(Append(spoken, NoCall))'
      BY <1>1, <3>1, <3>2, <3>4, InterruptedMore
    <3>6. OneCallAtATime => ToolArgsInPlace'
      BY <2>4 DEF PlaceInv, ToolArgsInPlaceInOrder
    <3> QED
      BY <1>1, <1>6, <3>2, <3>3, <3>5, <3>6, PlaceStep
  <2>6. CASE line.reasoning # <<>>
    <3>1. ToSpeak' = ToSpeak
      BY <1>3, <1>4, <1>5, <2>6
    <3>2. \A t : ~BlockOf(t) \/ BlockOf(t)'
      <4>1. contentBlockIndex >= 0 /\ content[contentBlockIndex].type = "thinking"
        BY <1>1, <2>6 DEF PlaceInv, ThinkingLast
      <4> QED
        BY <4>1 DEF BlockOf
    <3>3. \A t \in ToolIdx : toolCalls'[t].started =>
              toolCalls[t].started /\ (BlockOf(t) => BlockOf(t)')
      BY <1>1, <3>2, Zenon
    <3> QED
      BY <1>1, <1>6, <2>4, <3>1, <3>3, SilentPlace
  <2> QED
    BY <2>5, <2>6
<1> QED
  BY <1>7, <1>8

\* One entry of a line's tool calls: it goes on with the block of the current
\* call, or begins the block of a call that nobody has made before.
LEMMA ToolCallPlace ==
    ASSUME IInv, PlaceInv, ToolCall
    PROVE  PlaceInv'
<1>0. PICK t : t = Caller
  OBVIOUS
<1> DEFINE C == Callers(Tail(rest))
<1>1. /\ TypeOK /\ pc = "tools" /\ pc' = "tools" /\ seen' = seen
      /\ rest # <<>> /\ rest \in Seq(ToolEntry) /\ toolCalls \in [ToolIdx -> ToolCallType]
  BY DEF IInv, TypeOK, ToolCall
<1>2. t \in ToolIdx /\ rest' = Tail(rest)
  BY <1>0, ToolCallOutcome
<1>3. PICK x \in ToolCallType :
          /\ toolCalls' = [toolCalls EXCEPT ![t] = x]
          /\ Buffers(x) \/ SendsOn(x) \/ Begins(x)
  BY <1>0, ToolCallOutcome
<1>4. C \in Seq(Speaker) /\ t \in Speaker /\ t # NoCall
  <2>1. Tail(rest) \in Seq(ToolEntry)
    BY <1>1
  <2>2. C \in Seq(Speaker)
    BY <2>1, CallersType
  <2> QED
    BY <1>2, <2>2, LinesAssumption DEF Speaker, NoCall
<1>5. ToSpeak = <<t>> \o C
  <2>1. ToSpeak = Callers(rest)
    BY <1>1, ToSpeakByStage
  <2>2. Callers(rest) = <<t>> \o C
    BY <1>0, <1>1, CallersHead DEF Caller
  <2> QED
    BY <2>1, <2>2, Zenon
<1>6. ToSpeak' = C
  <2>1. (pc = "tools" => ToSpeak = Callers(rest))'
    BY ToSpeakByStage, PTL
  <2>2. Callers(rest)' = C
    BY <1>2, Zenon DEF Callers
  <2> QED
    BY <1>1, <2>1, <2>2
<1>7. /\ toolCalls'[t] = x
      /\ \A u \in ToolIdx : u # t => toolCalls'[u] = toolCalls[u]
  BY <1>1, <1>2, <1>3
<1>8. PICK spoken \in Seq(Speaker) : spoken \o ToSpeak = Said /\ Interrupted(spoken)
  BY Zenon DEF PlaceInv
<1> DEFINE s == Append(spoken, t)
<1>9. s \in Seq(Speaker)
  BY <1>4
<1> HIDE DEF C, s
<1>10. s \o ToSpeak' = Said
  <2>1. spoken \o (<<t>> \o C) = s \o C
    BY <1>4, OneMoreSpoken, Zenon DEF s
  <2> QED
    BY <1>5, <1>6, <1>8, <2>1, Zenon
<1>11. ThinkingLast'
  BY <1>1 DEF ThinkingLast
<1>12. ArgsDelta.type = "input_json_delta" /\ ArgsDelta.call = t
  BY <1>0 DEF ArgsDelta, Delta
<1>13. OneCallAtATime => ToolArgsInPlace
  BY DEF PlaceInv, ToolArgsInPlaceInOrder
<1> SUFFICES Interrupted(s)' /\ (OneCallAtATime => ToolArgsInPlace')
  BY <1>1, <1>9, <1>10, <1>11, PlaceStep, Zenon
<1>14. CASE Buffers(x)
  <2>1. UNCHANGED blockVars /\ x.started = toolCalls[t].started
    BY <1>0, <1>14 DEF Buffers
  <2>2. \A u : BlockOf(u)' <=> BlockOf(u)
    BY <2>1 DEF BlockOf, blockVars
  <2>3. \A u \in ToolIdx : toolCalls'[u].started =>
            toolCalls[u].started /\ (BlockOf(u) => BlockOf(u)')
    BY <1>7, <2>1, <2>2, Zenon
  <2>4. Interrupted(s)'
    BY <1>4, <1>8, <2>3, InterruptedMore DEF s
  <2>5. ToolArgsInPlace' <=> ToolArgsInPlace
    BY <2>1 DEF ToolArgsInPlace, blockVars
  <2> QED
    BY <1>13, <2>4, <2>5
<1>15. CASE SendsOn(x)
  <2>1. Extends(ArgsDelta) /\ toolCalls[t].started
    BY <1>0, <1>15 DEF SendsOn
  <2>2. \A u : BlockOf(u) => BlockOf(u)'
    BY <1>1, <2>1, ExtendsPlace DEF BlockOf
  <2>3. \A u \in ToolIdx : toolCalls'[u].started =>
            toolCalls[u].started /\ (BlockOf(u) => BlockOf(u)')
    BY <1>7, <2>1, <2>2, Zenon
  <2>4. Interrupted(s)'
    BY <1>4, <1>8, <2>3, InterruptedMore DEF s
  <2>5. ASSUME OneCallAtATime
        PROVE  BlockOf(t)
    <3>1. OneAtATime(spoken \o (<<t>> \o C))
      <4>1. OneAtATime(Said)
        BY <2>5, OneCallAtATimeSaid
      <4>2. Said = spoken \o (<<t>> \o C)
        BY <1>5, <1>8, Zenon
      <4> QED
        BY <4>1, <4>2, Zenon
    <3>2. PICK i \in DOMAIN spoken : /\ spoken[i] = t
                                     /\ BlockOf(t) \/ \E j \in DOMAIN spoken : i < j /\ spoken[j] # t
      BY <1>2, <1>8, <2>1, Zenon DEF Interrupted
    <3>3. ASSUME NEW j \in DOMAIN spoken, i < j
          PROVE  spoken[j] = t
      BY <1>2, <1>4, <3>1, <3>2, <3>3, NotInterrupted
    <3> QED
      BY <3>2, <3>3
  <2>6. OneCallAtATime => ToolArgsInPlace'
    <3> SUFFICES ASSUME OneCallAtATime PROVE ToolArgsInPlace'
      OBVIOUS
    <3>1. InPlace(ArgsDelta, content[contentBlockIndex])
      BY <1>12, <2>5 DEF InPlace, BlockOf
    <3> QED
      BY <1>1, <1>13, <2>1, <3>1, ExtendsPlace
  <2> QED
    BY <2>4, <2>6
<1>16. CASE Begins(x)
  <2>1. PICK b : /\ Opens(b) /\ b.type = "tool_use" /\ b.call = t
                 /\ b.deltas = (IF Known.args = <<>> THEN <<>> ELSE <<ArgsDelta>>)
    BY <1>0, <1>16 DEF Begins
  <2>2. \A k \in DOMAIN b.deltas : InPlace(b.deltas[k], b)
    BY <1>12, <2>1 DEF InPlace
  <2>3. BlockOf(t)' /\ (ToolArgsInPlace => ToolArgsInPlace')
    BY <1>1, <2>1, <2>2, OpensPlace DEF BlockOf
  <2>4. \A u \in ToolIdx : toolCalls'[u].started =>
            \/ toolCalls[u].started /\ t # u
            \/ t = u /\ BlockOf(u)'
    BY <1>7, <2>3, Zenon
  <2>5. Interrupted(s)'
    BY <1>4, <1>8, <2>4, InterruptedMore DEF s
  <2> QED
    BY <1>13, <2>3, <2>5
<1> QED
  BY <1>3, <1>14, <1>15, <1>16

\* Before the first line nobody has spoken and no block is open.
LEMMA InitPlace ==
    ASSUME Init
    PROVE  PlaceInv
<1>1. /\ seen = <<>> /\ contentBlockIndex = -1 /\ pc = "loop" /\ content = <<>>
      /\ toolCalls = [t \in ToolIdx |-> NewToolCall]
  BY DEF Init
<1>2. Said = <<>>
  BY <1>1, FlattenEmpty DEF Said
<1>3. ToSpeak = <<>>
  BY <1>1, ToSpeakByStage
<1>4. <<>> \in Seq(Speaker) /\ <<>> \o <<>> = <<>>
  OBVIOUS
<1>5. Interrupted(<<>>)
  BY <1>1 DEF Interrupted, NewToolCall
<1>6. ThinkingLast /\ ToolArgsInPlace
  BY <1>1 DEF ThinkingLast, ToolArgsInPlace
<1> QED
  BY <1>2, <1>3, <1>4, <1>5, <1>6, Zenon DEF PlaceInv, ToolArgsInPlaceInOrder

\* Every step keeps the blocks of the calls in place and in order.
LEMMA StepPlace ==
    ASSUME IInv, DeltaStages, PlaceInv, [Next]_vars
    PROVE  PlaceInv'
<1> USE DEF callVars, blockVars
<1>1. TypeOK
  BY DEF IInv
<1>2. ASSUME UNCHANGED <<blockVars, toolCalls, seen>>, pc' # "text" \/ pc' = pc,
             ToSpeak' = ToSpeak
      PROVE  PlaceInv'
  <2>1. line' = line
    BY <1>2 DEF line
  <2>2. ThinkingLast'
    BY <1>2, <2>1 DEF PlaceInv, ThinkingLast
  <2> QED
    BY <1>2, <2>2, StillPlace
<1>3. /\ pc \notin {"line", "reasoning", "text", "tools"} => ToSpeak = <<>>
      /\ pc' \notin {"line", "reasoning", "text", "tools"} => ToSpeak' = <<>>
  <2>1. (pc \notin {"line", "reasoning", "text", "tools"} => ToSpeak = <<>>)'
    BY ToSpeakByStage, PTL
  <2> QED
    BY <2>1, ToSpeakByStage
<1>4. ASSUME pc = "line", ~HasDelta(line)
      PROVE  ToSpeak = <<>>
  BY <1>4, ToSpeakByStage DEF Speakers
<1>5. CASE UNCHANGED vars
  <2>1. ToSpeak' = ToSpeak
    <3>1. line' = line /\ rest' = rest /\ pc' = pc
      BY <1>5 DEF vars, line
    <3> QED
      BY <3>1, Zenon DEF ToSpeak, ReasoningAhead, Speakers, Callers, HasDelta
  <2> QED
    BY <1>2, <1>5, <2>1 DEF vars
<1>6. CASE StillConnected
  BY <1>2, <1>3, <1>6 DEF StillConnected
<1>7. CASE Disconnect
  BY <1>2, <1>3, <1>7 DEF Disconnect
<1>8. CASE \E l \in Lines : ReceiveLine(l)
  BY <1>8, ReceivePlace
<1>9. CASE EndOfStream
  BY <1>2, <1>3, <1>9 DEF EndOfStream
<1>10. CASE ReadError
  BY <1>2, <1>3, <1>10 DEF ReadError
<1>11. CASE Stall
  BY <1>2, <1>3, <1>11 DEF Stall
<1>12. CASE SkipLine
  BY <1>2, <1>3, <1>4, <1>12 DEF SkipLine, HasDelta
<1>13. CASE Done
  BY <1>2, <1>3, <1>4, <1>13 DEF Done, HasDelta
<1>14. CASE ErrorFrame
  BY <1>2, <1>3, <1>4, <1>14 DEF ErrorFrame, HasDelta
<1>15. CASE Chunk
  <2>1. ToSpeak' = ToSpeak
    <3>1. CASE ~line.delta
      BY <1>3, <1>4, <1>15, <3>1 DEF Chunk, HasDelta
    <3>2. CASE line.delta
      <4>1. pc = "line" /\ pc' = "reasoning" /\ line' = line
        BY <1>15, <3>2 DEF Chunk, line
      <4>2. (pc = "reasoning" => ToSpeak = Speakers(line))'
        BY ToSpeakByStage, PTL
      <4>3. Speakers(line)' = Speakers(line)
        BY <4>1, Zenon DEF Speakers, HasDelta
      <4> QED
        BY <4>1, <4>2, <4>3, ToSpeakByStage
    <3> QED
      BY <3>1, <3>2
  <2> QED
    BY <1>2, <1>15, <2>1 DEF Chunk
<1>16. CASE Reasoning
  BY <1>16, ReasoningPlace
<1>17. CASE Text
  BY <1>17, TextPlace
<1>18. CASE ToolCall
  BY <1>18, ToolCallPlace
<1>19. CASE Finish
  <2>1. ToSpeak = <<>>
    <3>1. pc = "tools" /\ rest = <<>>
      BY <1>19 DEF Finish
    <3>2. Callers(<<>>) = <<>>
      BY DEF Callers
    <3> QED
      BY <3>1, <3>2, ToSpeakByStage
  <2> QED
    BY <1>2, <1>3, <1>19, <2>1 DEF Finish
<1>20. CASE ReturnOnAbort
  BY <1>2, <1>3, <1>20 DEF ReturnOnAbort
<1>21. CASE GuaranteeBlock
  <2>1. /\ pc = "after" /\ pc' = "epilogue" /\ seen' = seen /\ toolCalls' = toolCalls
    BY <1>21 DEF GuaranteeBlock
  <2>2. ToSpeak' = ToSpeak /\ ThinkingLast'
    BY <1>3, <2>1 DEF ThinkingLast
  <2>3. CASE contentBlockIndex # -1
    BY <1>2, <1>21, <2>2, <2>3 DEF GuaranteeBlock
  <2>4. CASE contentBlockIndex = -1
    <3> DEFINE b == Block("text", NoCall, NoStr, NoStr)
    <3>1. b \in BlockType /\ b.stops = 0 /\ b.deltas = <<>>
      BY DEF Block, BlockType
    <3>2. contentBlockIndex' = contentBlockIndex + 1 /\ content' = openBlock(content, b)
      BY <1>21, <2>4 DEF GuaranteeBlock
    <3> HIDE DEF b
    <3>3. Opens(b)
      BY <1>1, <3>1, <3>2, OpensBare
    <3>4. \A k \in DOMAIN b.deltas : InPlace(b.deltas[k], b)
      BY <3>1
    <3>5. ToolArgsInPlace => ToolArgsInPlace'
      BY <1>1, <3>3, <3>4, OpensPlace
    <3>6. \A t : ~BlockOf(t)
      BY <2>4 DEF BlockOf
    <3> QED
      BY <2>1, <2>2, <3>5, <3>6, SilentPlace
  <2> QED
    BY <2>3, <2>4
<1>22. CASE Epilogue
  <2> DEFINE n == contentBlockIndex
  <2>1. /\ n \in Nat \cup {-1} /\ n' = n /\ content \in [0..n -> BlockType]
        /\ pc = "epilogue" /\ pc' = "returned" /\ seen' = seen /\ toolCalls' = toolCalls
    BY <1>1, <1>22 DEF TypeOK, Epilogue
  <2>2. /\ DOMAIN content' = 0..n
        /\ \A j \in 0..n : /\ content'[j].type = content[j].type
                           /\ content'[j].call = content[j].call
                           /\ content'[j].deltas = content[j].deltas
    <3>1. CASE n = -1
      BY <1>22, <2>1, <3>1 DEF Epilogue, closeOpenBlock
    <3>2. CASE n # -1
      <4>1. n \in Nat /\ n \in 0..n /\ content' = WriteStop(content, n)
        BY <1>22, <2>1, <3>2 DEF Epilogue, closeOpenBlock
      <4>2. /\ WriteStop(content, n) \in [0..n -> BlockType]
            /\ \A j \in 0..n : j # n => WriteStop(content, n)[j] = content[j]
            /\ WriteStop(content, n)[n] = [content[n] EXCEPT !.stops = content[n].stops + 1]
        BY <2>1, <4>1, StopWritten
      <4>3. /\ content'[n].type = content[n].type
            /\ content'[n].call = content[n].call
            /\ content'[n].deltas = content[n].deltas
        BY <2>1, <4>1, <4>2 DEF BlockType
      <4> QED
        BY <4>1, <4>2, <4>3
    <3> QED
      BY <3>1, <3>2
  <2>3. ToolArgsInPlace => ToolArgsInPlace'
    BY <2>1, <2>2 DEF ToolArgsInPlace
  <2>4. \A t : BlockOf(t) => BlockOf(t)'
    BY <2>1, <2>2 DEF BlockOf
  <2>5. ThinkingLast' /\ ToSpeak' = ToSpeak
    BY <1>3, <2>1 DEF ThinkingLast
  <2> QED
    BY <2>1, <2>3, <2>4, <2>5, SilentPlace
<1> QED
  BY <1>5, <1>6, <1>7, <1>8, <1>9, <1>10, <1>11, <1>12, <1>13, <1>14, <1>15, <1>16, <1>17,
     <1>18, <1>19, <1>20, <1>21, <1>22
  DEF Next, FromOutside, ProcessLine, AfterLoop, Returned

\* For an upstream that streams its calls one after the other, the arguments of
\* each call are in the block of that call.
THEOREM ToolArgsAlwaysInPlaceInOrder == Spec => []ToolArgsInPlaceInOrder
<1>1. Init => PlaceInv
  BY InitPlace
<1>2. IInv /\ DeliveryInv /\ PlaceInv /\ [Next]_vars => PlaceInv'
  BY StepPlace DEF DeliveryInv
<1>3. PlaceInv => ToolArgsInPlaceInOrder
  BY DEF PlaceInv
<1> QED
  BY <1>1, <1>2, <1>3, DeliveryInvariance, PTL DEF Spec
=============================================================================
