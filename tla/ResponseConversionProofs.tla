---------------------- MODULE ResponseConversionProofs ----------------------
(***************************************************************************)
(* Proofs about ResponseConversion: a stream means the completion that is  *)
(* answered without stream, for every alphabet of lines, every set of      *)
(* argument texts that are JSON and any length of stream.                  *)
(***************************************************************************)
EXTENDS ResponseConversion, StreamBlocksProofs, FiniteSetTheorems

-----------------------------------------------------------------------------
(***************************************************************************)
(* The inductive invariants.                                               *)
(***************************************************************************)

\* The empty text block of a message without content.
Guaranteed ==
    /\ pc \in {"epilogue", "returned"}
    /\ contentBlockIndex = 0
    /\ content[0].type = "text"
    /\ content[0].deltas = <<>>

\* Data other than arguments is for no call.
ForNoCall(d) == d.type # "input_json_delta" => d.call = NoCall

\* A block that is not of a call has data.
HasData(b) ==
    b.type = "tool_use" \/ \E k \in DOMAIN b.deltas : b.deltas[k].data # <<>>

\* The flags are set while the last block is of their type; a call that has
\* started has a block; blocks of thinking and text are opened to write to.
ShapeInv ==
    /\ pc \notin {"epilogue", "returned"} /\ contentBlockIndex >= 0 =>
        /\ content[contentBlockIndex].type = "thinking" => thinkingOpen
        /\ content[contentBlockIndex].type = "text" => textOpen
    /\ \A t \in ToolIdx : toolCalls[t].started =>
        \E i \in 0..contentBlockIndex : content[i].type = "tool_use" /\ content[i].call = t
    /\ \A i \in 0..contentBlockIndex : HasData(content[i]) \/ Guaranteed
    /\ \A i \in 0..contentBlockIndex : \A k \in DOMAIN content[i].deltas :
        ForNoCall(content[i].deltas[k])

\* The rank of a block, and the ranks of what was said and of what is left to
\* handle of it.
Rank(b) == CASE b.type = "thinking" -> -2 [] b.type = "text" -> -1 [] OTHER -> b.call

SaidRanks == SentBy(Ranks)

RanksLeft ==
    CASE ReasoningAhead -> Ranks(line)
      [] pc = "text"    -> (IF line.content = <<>> THEN <<>> ELSE <<-1>>) \o Callers(line.tools)
      [] pc = "tools"   -> Callers(rest)
      [] OTHER          -> <<>>

InOrder(said) == \A i, j \in DOMAIN said : i < j => said[i] <= said[j]

\* The blocks are of ranks that were spoken, they are in order, no two of a rank,
\* and the arguments are in place.
BlocksInOrder(spoken) ==
    /\ Guaranteed \/ \A i \in 0..contentBlockIndex :
                        \E k \in DOMAIN spoken : spoken[k] = Rank(content[i])
    /\ \A i, j \in 0..contentBlockIndex : i < j => Rank(content[i]) < Rank(content[j])
    /\ ToolArgsInPlace

OrderInv ==
    \E spoken \in Seq(Int) : /\ spoken \o RanksLeft = SaidRanks
                             /\ InOrder(SaidRanks) => BlocksInOrder(spoken)

\* An entry gives call t this id, or this name.
GivesId(es, t, id) ==
    id # NoStr /\ \E k \in DOMAIN es : IndexOf(es[k]) = t /\ es[k].id = id
GivesName(es, t, name) ==
    name # NoStr /\ \E k \in DOMAIN es : IndexOf(es[k]) = t /\ es[k].name = name

\* What was handled of the entries has given the calls the ids and names that
\* it could; a call that has both has started; and ids and names are given ones.
Identified(handled) ==
    /\ \A k \in DOMAIN handled :
        /\ handled[k].id # NoStr => toolCalls[IndexOf(handled[k])].id # NoStr
        /\ handled[k].name # NoStr => toolCalls[IndexOf(handled[k])].name # NoStr
    /\ \A t \in ToolIdx :
        /\ toolCalls[t].id # NoStr => GivesId(handled, t, toolCalls[t].id)
        /\ toolCalls[t].name # NoStr => GivesName(handled, t, toolCalls[t].name)
        /\ toolCalls[t].started \/ ~CanStart(toolCalls[t])
    /\ \A i \in 0..contentBlockIndex : content[i].type = "tool_use" =>
        /\ GivesId(handled, content[i].call, content[i].id)
        /\ GivesName(handled, content[i].call, content[i].name)

IdentityInv ==
    \E handled \in Seq(ToolEntry) : handled \o EntriesLeft = Entries /\ Identified(handled)

-----------------------------------------------------------------------------
(***************************************************************************)
(* How the blocks change.                                                  *)
(***************************************************************************)

\* Everything but deltas and stops.
SameBlock(a, b) ==
    /\ a.type = b.type
    /\ a.call = b.call
    /\ a.id = b.id
    /\ a.name = b.name

\* The last block extended.
LEMMA ExtendsChange ==
    ASSUME TypeOK, NEW d, Extends(d)
    PROVE  /\ contentBlockIndex \in Nat /\ contentBlockIndex' = contentBlockIndex
           /\ d \in DeltaType
           /\ \A j \in 0..contentBlockIndex :
                /\ SameBlock(content'[j], content[j])
                /\ content[j].deltas \in Seq(DeltaType)
                /\ j # contentBlockIndex => content'[j].deltas = content[j].deltas
           /\ content'[contentBlockIndex].deltas = Append(content[contentBlockIndex].deltas, d)
<1> DEFINE n == contentBlockIndex
<1>1. n \in Nat /\ n' = n /\ content \in [0..n -> BlockType] /\ n \in 0..n /\ d \in DeltaType
  BY DEF TypeOK, Extends
<1>2. /\ content' \in [0..n -> BlockType]
      /\ \A j \in 0..n : j # n => content'[j] = content[j]
      /\ content'[n] = [content[n] EXCEPT !.deltas = Append(content[n].deltas, d)]
  BY <1>1, DeltaWritten DEF Extends
<1>3. content[n] \in BlockType
  BY <1>1
<1>4. /\ SameBlock(content'[n], content[n])
      /\ content'[n].deltas = Append(content[n].deltas, d)
  BY <1>2, <1>3 DEF BlockType, SameBlock
<1>5. \A j \in 0..n : content[j].deltas \in Seq(DeltaType)
  BY <1>1 DEF BlockType
<1>6. \A j \in 0..n : SameBlock(content'[j], content[j])
  BY <1>2, <1>4 DEF SameBlock
<1> QED
  BY <1>1, <1>2, <1>4, <1>5, <1>6

\* A block opened.
LEMMA OpensChange ==
    ASSUME TypeOK, NEW b, Opens(b)
    PROVE  /\ contentBlockIndex \in Nat \cup {-1} /\ contentBlockIndex' = contentBlockIndex + 1
           /\ \A j \in 0..contentBlockIndex :
                SameBlock(content'[j], content[j]) /\ content'[j].deltas = content[j].deltas
           /\ content'[contentBlockIndex + 1] = b
           /\ \A j \in 0..(contentBlockIndex + 1) :
                j \in 0..contentBlockIndex \/ j = contentBlockIndex + 1
<1> DEFINE n == contentBlockIndex
<1>1. n \in Nat \cup {-1} /\ n' = n + 1 /\ content \in [0..n -> BlockType]
  BY DEF TypeOK, Opens
<1>2. /\ \A j \in 0..(n - 1) : content'[j] = content[j]
      /\ n >= 0 => content'[n] = [content[n] EXCEPT !.stops = content[n].stops + 1]
      /\ content'[n + 1] = b
  BY DEF Opens
<1>3. ASSUME NEW j \in 0..n
      PROVE  SameBlock(content'[j], content[j]) /\ content'[j].deltas = content[j].deltas
  <2>1. CASE j # n
    <3>1. j \in 0..(n - 1)
      BY <1>1, <2>1
    <3> QED
      BY <1>2, <3>1 DEF SameBlock
  <2>2. CASE j = n
    <3>1. n >= 0 /\ content[n] \in BlockType
      BY <1>1, <2>2
    <3> QED
      BY <1>2, <2>2, <3>1 DEF BlockType, SameBlock
  <2> QED
    BY <2>1, <2>2
<1> QED
  BY <1>1, <1>2, <1>3

\* The last block closed at the end.
LEMMA EpilogueChange ==
    ASSUME TypeOK, Epilogue
    PROVE  /\ contentBlockIndex' = contentBlockIndex
           /\ DOMAIN content = 0..contentBlockIndex /\ DOMAIN content' = 0..contentBlockIndex
           /\ \A j \in 0..contentBlockIndex :
                SameBlock(content'[j], content[j]) /\ content'[j].deltas = content[j].deltas
<1> DEFINE n == contentBlockIndex
<1>1. n \in Nat \cup {-1} /\ n' = n /\ content \in [0..n -> BlockType]
  BY DEF TypeOK, Epilogue
<1>2. CASE n = -1
  BY <1>1, <1>2 DEF Epilogue, closeOpenBlock
<1>3. CASE n # -1
  <2>1. n \in Nat /\ n \in 0..n /\ content' = WriteStop(content, n)
    BY <1>1, <1>3 DEF Epilogue, closeOpenBlock
  <2>2. /\ WriteStop(content, n) \in [0..n -> BlockType]
        /\ \A j \in 0..n : j # n => WriteStop(content, n)[j] = content[j]
        /\ WriteStop(content, n)[n] = [content[n] EXCEPT !.stops = content[n].stops + 1]
    BY <1>1, <2>1, StopWritten
  <2>3. content[n] \in BlockType
    BY <1>1, <2>1
  <2>4. SameBlock(content'[n], content[n]) /\ content'[n].deltas = content[n].deltas
    BY <2>1, <2>2, <2>3 DEF BlockType, SameBlock
  <2> QED
    BY <1>1, <2>1, <2>2, <2>4 DEF SameBlock
<1> QED
  BY <1>1, <1>2, <1>3

\* The elements after one is appended.
LEMMA AppendedElements ==
    ASSUME NEW S, NEW s \in Seq(S), NEW x \in S
    PROVE  /\ \A k \in DOMAIN Append(s, x) :
                \/ k \in DOMAIN s /\ Append(s, x)[k] = s[k]
                \/ k = Len(s) + 1 /\ Append(s, x)[k] = x
           /\ \A k \in DOMAIN s : k \in DOMAIN Append(s, x) /\ Append(s, x)[k] = s[k]
           /\ Len(s) + 1 \in DOMAIN Append(s, x) /\ Append(s, x)[Len(s) + 1] = x
  OBVIOUS

-----------------------------------------------------------------------------
(***************************************************************************)
(* The shape of the blocks.                                                *)
(***************************************************************************)

\* A step that leaves the blocks alone, starts no call, and does not end the
\* message.
LEMMA ShapeSame ==
    ASSUME ShapeInv, UNCHANGED blockVars, pc \in {"epilogue", "returned"} => pc' = pc,
           \A t \in ToolIdx : toolCalls'[t].started => toolCalls[t].started
    PROVE  ShapeInv'
<1>1. /\ contentBlockIndex' = contentBlockIndex /\ content' = content
      /\ thinkingOpen' = thinkingOpen /\ textOpen' = textOpen
  BY DEF blockVars
<1>2. Guaranteed => Guaranteed'
  BY <1>1 DEF Guaranteed
<1> QED
  BY <1>1, <1>2 DEF ShapeInv

\* A step that extends the last block.
LEMMA ShapeExtends ==
    ASSUME TypeOK, ShapeInv, pc \notin {"epilogue", "returned"}, NEW d, Extends(d), ForNoCall(d),
           \A t \in ToolIdx : toolCalls'[t].started => toolCalls[t].started
    PROVE  ShapeInv'
<1> DEFINE n == contentBlockIndex
<1>1. /\ n \in Nat /\ n' = n /\ d \in DeltaType /\ n \in 0..n
      /\ \A j \in 0..n : /\ SameBlock(content'[j], content[j])
                         /\ content[j].deltas \in Seq(DeltaType)
                         /\ j # n => content'[j].deltas = content[j].deltas
      /\ content'[n].deltas = Append(content[n].deltas, d)
  BY ExtendsChange
<1>2. /\ content'[n].type = "thinking" => thinkingOpen'
      /\ content'[n].type = "text" => textOpen'
  BY <1>1 DEF ShapeInv, SameBlock, Extends
<1>3. ASSUME NEW t \in ToolIdx, toolCalls'[t].started
      PROVE  \E i \in 0..n : content'[i].type = "tool_use" /\ content'[i].call = t
  <2>1. PICK i \in 0..n : content[i].type = "tool_use" /\ content[i].call = t
    BY <1>3 DEF ShapeInv
  <2> QED
    BY <1>1, <2>1 DEF SameBlock
<1>4. ASSUME NEW i \in 0..n
      PROVE  /\ \A k \in DOMAIN content[i].deltas :
                  k \in DOMAIN content'[i].deltas /\ content'[i].deltas[k] = content[i].deltas[k]
             /\ \A k \in DOMAIN content'[i].deltas :
                  \/ k \in DOMAIN content[i].deltas /\ content'[i].deltas[k] = content[i].deltas[k]
                  \/ content'[i].deltas[k] = d
  <2>1. CASE i # n
    BY <1>1, <2>1
  <2>2. CASE i = n
    <3>1. content[i].deltas \in Seq(DeltaType) /\ content'[i].deltas = Append(content[i].deltas, d)
      BY <1>1, <2>2
    <3> QED
      BY <1>1, <3>1, AppendedElements
  <2> QED
    BY <2>1, <2>2
<1>5. ASSUME NEW i \in 0..n
      PROVE  HasData(content'[i])
  <2>1. HasData(content[i])
    BY DEF ShapeInv, Guaranteed
  <2> QED
    BY <1>1, <1>4, <2>1 DEF HasData, SameBlock
<1>6. ASSUME NEW i \in 0..n, NEW k \in DOMAIN content'[i].deltas
      PROVE  ForNoCall(content'[i].deltas[k])
  BY <1>4 DEF ShapeInv
<1> QED
  BY <1>1, <1>2, <1>3, <1>5, <1>6 DEF ShapeInv

\* A step that opens a block, whose flag it sets, or the empty one at the end.
LEMMA ShapeOpens ==
    ASSUME TypeOK, ShapeInv, pc \notin {"epilogue", "returned"}, NEW b, Opens(b),
           SetOpen(b.type) \/ pc' = "epilogue",
           HasData(b) \/ Guaranteed',
           \A k \in DOMAIN b.deltas : ForNoCall(b.deltas[k]),
           \A t \in ToolIdx : toolCalls'[t].started =>
               toolCalls[t].started \/ (b.type = "tool_use" /\ b.call = t)
    PROVE  ShapeInv'
<1> DEFINE n == contentBlockIndex
<1>1. /\ n \in Nat \cup {-1} /\ n' = n + 1
      /\ \A j \in 0..n : SameBlock(content'[j], content[j])
                         /\ content'[j].deltas = content[j].deltas
      /\ content'[n + 1] = b
      /\ \A j \in 0..(n + 1) : j \in 0..n \/ j = n + 1
  BY OpensChange
<1>2. n + 1 \in 0..(n + 1) /\ \A j \in 0..n : j \in 0..(n + 1)
  BY <1>1
<1>3. pc' \notin {"epilogue", "returned"} =>
        /\ content'[n + 1].type = "thinking" => thinkingOpen'
        /\ content'[n + 1].type = "text" => textOpen'
  <2> SUFFICES ASSUME SetOpen(b.type)
               PROVE  (b.type = "thinking" => thinkingOpen') /\ (b.type = "text" => textOpen')
    BY <1>1
  <2> QED
    BY Zenon DEF SetOpen
<1>4. ASSUME NEW t \in ToolIdx, toolCalls'[t].started
      PROVE  \E i \in 0..(n + 1) : content'[i].type = "tool_use" /\ content'[i].call = t
  <2>1. CASE toolCalls[t].started
    <3>1. PICK i \in 0..n : content[i].type = "tool_use" /\ content[i].call = t
      BY <2>1 DEF ShapeInv
    <3> QED
      BY <1>1, <1>2, <3>1 DEF SameBlock
  <2>2. CASE b.type = "tool_use" /\ b.call = t
    BY <1>1, <1>2, <2>2
  <2> QED
    BY <1>4, <2>1, <2>2
<1>5. ASSUME NEW i \in 0..(n + 1)
      PROVE  HasData(content'[i]) \/ Guaranteed'
  <2>1. CASE i \in 0..n
    <3>1. HasData(content[i])
      BY <2>1 DEF ShapeInv, Guaranteed
    <3> QED
      BY <1>1, <2>1, <3>1 DEF HasData, SameBlock
  <2>2. CASE i = n + 1
    BY <1>1, <2>2
  <2> QED
    BY <1>1, <2>1, <2>2
<1>6. ASSUME NEW i \in 0..(n + 1), NEW k \in DOMAIN content'[i].deltas
      PROVE  ForNoCall(content'[i].deltas[k])
  <2>1. CASE i \in 0..n
    BY <1>1, <2>1 DEF ShapeInv
  <2>2. CASE i = n + 1
    BY <1>1, <2>2
  <2> QED
    BY <1>1, <2>1, <2>2
<1> QED
  BY <1>1, <1>3, <1>4, <1>5, <1>6 DEF ShapeInv

\* The deltas of reasoning, text and arguments.
LEMMA DeltasForCalls ==
    /\ ForNoCall(ReasoningDelta) /\ ReasoningDelta.data = line.reasoning
    /\ ForNoCall(TextDelta) /\ TextDelta.data = line.content
    /\ ForNoCall(ArgsDelta)
  BY DEF ForNoCall, ReasoningDelta, TextDelta, ArgsDelta, Delta

\* A call's entry leaves what is known of the other calls alone.
LEMMA CallsChange ==
    ASSUME IInv, ToolCall, NEW x, toolCalls' = [toolCalls EXCEPT ![Caller] = x]
    PROVE  /\ Caller \in ToolIdx
           /\ toolCalls'[Caller] = x
           /\ \A t \in ToolIdx : t # Caller => toolCalls'[t] = toolCalls[t]
<1>1. Caller \in ToolIdx /\ toolCalls \in [ToolIdx -> ToolCallType]
  BY ToolCallOutcome DEF IInv, TypeOK
<1> HIDE DEF Caller
<1> QED
  BY <1>1

\* The reasoning of a line keeps the shape.
LEMMA ReasoningShape ==
    ASSUME IInv, ShapeInv, Reasoning
    PROVE  ShapeInv'
<1>1. TypeOK /\ pc \notin {"epilogue", "returned"} /\ toolCalls' = toolCalls
  BY DEF IInv, Reasoning, callVars
<1>2. ASSUME UNCHANGED blockVars PROVE ShapeInv'
  BY <1>1, <1>2, ShapeSame
<1>3. ASSUME NEW d, d = ReasoningDelta, Extends(d) PROVE ShapeInv'
  BY <1>1, <1>3, DeltasForCalls, ShapeExtends
<1>4. ASSUME line.reasoning # <<>>, NEW b, Opens(b), b.type = "thinking",
             b.deltas = <<ReasoningDelta>>, SetOpen("thinking")
      PROVE  ShapeInv'
  <2> DEFINE d == ReasoningDelta
  <2>1. ForNoCall(d) /\ d.data # <<>>
    BY <1>4, DeltasForCalls
  <2> HIDE DEF d
  <2>2. b.deltas = <<d>>
    BY <1>4 DEF d
  <2>3. HasData(b) /\ \A k \in DOMAIN b.deltas : ForNoCall(b.deltas[k])
    BY <2>1, <2>2 DEF HasData
  <2> QED
    BY <1>1, <1>4, <2>3, ShapeOpens
<1> QED
  BY <1>2, <1>3, <1>4, ReasoningOnBlocks

\* So does its text.
LEMMA TextShape ==
    ASSUME IInv, ShapeInv, Text
    PROVE  ShapeInv'
<1>1. TypeOK /\ pc \notin {"epilogue", "returned"} /\ toolCalls' = toolCalls
  BY DEF IInv, Text
<1>2. ASSUME UNCHANGED blockVars PROVE ShapeInv'
  BY <1>1, <1>2, ShapeSame
<1>3. ASSUME NEW d, d = TextDelta, Extends(d) PROVE ShapeInv'
  BY <1>1, <1>3, DeltasForCalls, ShapeExtends
<1>4. ASSUME line.content # <<>>, NEW b, Opens(b), b.type = "text",
             b.deltas = <<TextDelta>>, SetOpen("text")
      PROVE  ShapeInv'
  <2> DEFINE d == TextDelta
  <2>1. ForNoCall(d) /\ d.data # <<>>
    BY <1>4, DeltasForCalls
  <2> HIDE DEF d
  <2>2. b.deltas = <<d>>
    BY <1>4 DEF d
  <2>3. HasData(b) /\ \A k \in DOMAIN b.deltas : ForNoCall(b.deltas[k])
    BY <2>1, <2>2 DEF HasData
  <2> QED
    BY <1>1, <1>4, <2>3, ShapeOpens
<1> QED
  BY <1>2, <1>3, <1>4, TextOnBlocks

\* So does an entry of its tool calls.
LEMMA ToolCallShape ==
    ASSUME IInv, ShapeInv, ToolCall
    PROVE  ShapeInv'
<1>1. TypeOK /\ pc \notin {"epilogue", "returned"}
  BY DEF IInv, ToolCall
<1>2. PICK x \in ToolCallType :
          /\ toolCalls' = [toolCalls EXCEPT ![Caller] = x]
          /\ Buffers(x) \/ SendsOn(x) \/ Begins(x)
  BY ToolCallOutcome
<1>3. /\ toolCalls'[Caller] = x
      /\ \A t \in ToolIdx : t # Caller => toolCalls'[t] = toolCalls[t]
  BY <1>2, CallsChange
<1>4. CASE Buffers(x)
  <2>1. UNCHANGED blockVars /\ \A t \in ToolIdx : toolCalls'[t].started => toolCalls[t].started
    BY <1>3, <1>4, Zenon DEF Buffers
  <2> QED
    BY <1>1, <2>1, ShapeSame
<1>5. CASE SendsOn(x)
  <2>1. PICK d : d = ArgsDelta /\ Extends(d)
    BY <1>5 DEF SendsOn
  <2>2. ForNoCall(d)
    BY <2>1, DeltasForCalls
  <2>3. \A t \in ToolIdx : toolCalls'[t].started => toolCalls[t].started
    BY <1>3, <1>5, Zenon DEF SendsOn
  <2> QED
    BY <1>1, <2>1, <2>2, <2>3, ShapeExtends
<1>6. CASE Begins(x)
  <2> DEFINE d == ArgsDelta
  <2>1. PICK b : /\ Opens(b) /\ b.type = "tool_use" /\ b.call = Caller
                 /\ b.deltas = (IF Known.args = <<>> THEN <<>> ELSE <<d>>)
    BY <1>6 DEF Begins
  <2>2. ForNoCall(d) /\ SetOpen("tool_use")
    BY <1>6, DeltasForCalls DEF Begins
  <2> HIDE DEF d
  <2>3. HasData(b) /\ \A k \in DOMAIN b.deltas : ForNoCall(b.deltas[k])
    BY <2>1, <2>2 DEF HasData
  <2>4. \A t \in ToolIdx : toolCalls'[t].started =>
          toolCalls[t].started \/ (b.type = "tool_use" /\ b.call = t)
    BY <1>3, <2>1, Zenon
  <2> QED
    BY <1>1, <2>1, <2>2, <2>3, <2>4, ShapeOpens
<1> QED
  BY <1>2, <1>4, <1>5, <1>6

\* So do the two steps that end the message.
LEMMA EndShape ==
    ASSUME IInv, ShapeInv, GuaranteeBlock \/ Epilogue
    PROVE  ShapeInv'
<1>1. TypeOK
  BY DEF IInv
<1>2. CASE GuaranteeBlock /\ contentBlockIndex # -1
  <2>1. UNCHANGED blockVars /\ toolCalls' = toolCalls /\ pc = "after"
    BY <1>2 DEF GuaranteeBlock, blockVars, callVars
  <2> QED
    BY <2>1, ShapeSame
<1>3. CASE GuaranteeBlock /\ contentBlockIndex = -1
  <2> DEFINE b == Block("text", NoCall, NoStr, NoStr)
  <2>1. b \in BlockType /\ b.stops = 0 /\ b.deltas = <<>> /\ b.type = "text"
    BY DEF Block, BlockType
  <2>2. /\ contentBlockIndex' = contentBlockIndex + 1 /\ content' = openBlock(content, b)
        /\ contentBlockIndex' = 0 /\ pc = "after" /\ pc' = "epilogue" /\ toolCalls' = toolCalls
    BY <1>3 DEF GuaranteeBlock, callVars
  <2> HIDE DEF b
  <2>3. Opens(b)
    BY <1>1, <2>1, <2>2, OpensBare
  <2>4. content'[0] = b
    BY <1>1, <1>3, <2>3, OpensChange
  <2>5. Guaranteed'
    BY <2>1, <2>2, <2>4 DEF Guaranteed
  <2>6. \A k \in DOMAIN b.deltas : ForNoCall(b.deltas[k])
    BY <2>1
  <2> QED
    BY <1>1, <2>2, <2>3, <2>5, <2>6, ShapeOpens
<1>4. CASE Epilogue
  <2> DEFINE n == contentBlockIndex
  <2>1. /\ n' = n /\ pc = "epilogue" /\ pc' = "returned" /\ toolCalls' = toolCalls
        /\ \A j \in 0..n : SameBlock(content'[j], content[j])
                           /\ content'[j].deltas = content[j].deltas
    BY <1>1, <1>4, EpilogueChange DEF Epilogue, callVars
  <2>2. Guaranteed => Guaranteed'
    BY <2>1 DEF Guaranteed, SameBlock
  <2>3. \A i \in 0..n : HasData(content[i]) => HasData(content'[i])
    BY <2>1 DEF HasData, SameBlock
  <2>4. ASSUME NEW t \in ToolIdx, toolCalls'[t].started
        PROVE  \E i \in 0..n : content'[i].type = "tool_use" /\ content'[i].call = t
    <3>1. PICK i \in 0..n : content[i].type = "tool_use" /\ content[i].call = t
      BY <2>1, <2>4 DEF ShapeInv
    <3> QED
      BY <2>1, <3>1 DEF SameBlock
  <2> QED
    BY <2>1, <2>2, <2>3, <2>4 DEF ShapeInv
<1> QED
  BY <1>2, <1>3, <1>4

\* The shape holds of no blocks.
LEMMA InitShape ==
    ASSUME Init
    PROVE  ShapeInv
<1>1. contentBlockIndex = -1 /\ toolCalls = [t \in ToolIdx |-> NewToolCall]
  BY DEF Init
<1> QED
  BY <1>1 DEF ShapeInv, NewToolCall

\* Every step keeps it.
LEMMA StepShape ==
    ASSUME IInv, ShapeInv, [Next]_vars
    PROVE  ShapeInv'
<1>1. ASSUME UNCHANGED blockVars, toolCalls' = toolCalls,
             pc \in {"epilogue", "returned"} => pc' = pc
      PROVE  ShapeInv'
  BY <1>1, ShapeSame
<1>2. CASE UNCHANGED vars
  BY <1>1, <1>2 DEF vars, callVars
<1>3. CASE FromOutside
  BY <1>1, <1>3 DEF FromOutside, ReceiveLine, EndOfStream, ReadError, Stall, Disconnect, callVars
<1>4. CASE StillConnected
  BY <1>1, <1>4 DEF StillConnected, callVars
<1>5. CASE SkipLine \/ Done \/ ErrorFrame \/ Chunk \/ Finish
  BY <1>1, <1>5 DEF SkipLine, Done, ErrorFrame, Chunk, Finish, callVars
<1>6. CASE ReturnOnAbort
  BY <1>1, <1>6 DEF ReturnOnAbort, callVars
<1> QED
  BY <1>2, <1>3, <1>4, <1>5, <1>6, ReasoningShape, TextShape, ToolCallShape, EndShape
  DEF Next, ProcessLine, AfterLoop, Returned

-----------------------------------------------------------------------------
(***************************************************************************)
(* The ranks of what is said, and its entries.                             *)
(***************************************************************************)
RanksIn == [l \in Lines |-> IF HasDelta(l) THEN Ranks(l) ELSE <<>>]
EntriesIn == [l \in Lines |-> IF HasDelta(l) THEN l.tools ELSE <<>>]

\* Speakers are numbers.
LEMMA CallersAreNumbers ==
    ASSUME NEW es \in Seq(ToolEntry)
    PROVE  Callers(es) \in Seq(Int)
<1>1. Speaker \subseteq Int
  BY LinesAssumption DEF Speaker, NoCall
<1>2. \A k \in 1..Len(es) : IndexOf(es[k]) \in Int
  <2> SUFFICES ASSUME NEW k \in 1..Len(es) PROVE IndexOf(es[k]) \in Int
    OBVIOUS
  <2>1. es[k] \in ToolEntry
    OBVIOUS
  <2> QED
    BY <1>1, <2>1, IndexType
<1>3. Callers(es) \in [1..Len(es) -> Int]
  BY <1>2 DEF Callers
<1> QED
  BY <1>3

\* The ranks of a line are numbers; reasoning, text and calls.
LEMMA RanksType ==
    ASSUME NEW l \in Line
    PROVE  /\ Ranks(l) \in Seq(Int)
           /\ Ranks(l) = ((IF l.reasoning = <<>> THEN <<>> ELSE <<-2>>)
                            \o (IF l.content = <<>> THEN <<>> ELSE <<-1>>)) \o Callers(l.tools)
<1>1. l.tools \in Seq(ToolEntry)
  BY DEF Line
<1>2. Callers(l.tools) \in Seq(Int)
  BY <1>1, CallersAreNumbers
<1>3. Ranks(l) = ((IF l.reasoning = <<>> THEN <<>> ELSE <<-2>>)
                    \o (IF l.content = <<>> THEN <<>> ELSE <<-1>>)) \o Callers(l.tools)
  BY Zenon DEF Ranks, Callers
<1>4. <<>> \in Seq(Int) /\ <<-2>> \in Seq(Int) /\ <<-1>> \in Seq(Int)
  OBVIOUS
<1> QED
  BY <1>2, <1>3, <1>4

\* Ranks and entries, by line.
LEMMA LineMaps ==
    RanksIn \in [Lines -> Seq(Int)] /\ EntriesIn \in [Lines -> Seq(ToolEntry)]
<1>1. \A l \in Lines : l \in Line /\ l.tools \in Seq(ToolEntry)
  BY LinesAssumption DEF Line
<1>2. \A l \in Lines : Ranks(l) \in Seq(Int)
  BY <1>1, RanksType
<1>3. <<>> \in Seq(Int) /\ <<>> \in Seq(ToolEntry)
  OBVIOUS
<1>4. RanksIn \in [Lines -> Seq(Int)]
  BY <1>2, <1>3 DEF RanksIn
<1>5. EntriesIn \in [Lines -> Seq(ToolEntry)]
  BY <1>1, <1>3 DEF EntriesIn
<1> QED
  BY <1>4, <1>5

\* Those of all lines are these, flattened.
LEMMA SaidRanksMaps ==
    ASSUME seen \in Seq(Lines)
    PROVE  /\ SaidRanks = FlatMap(RanksIn, seen) /\ SaidRanks \in Seq(Int)
           /\ Entries = FlatMap(EntriesIn, seen) /\ Entries \in Seq(ToolEntry)
<1>1. \A k \in DOMAIN seen : seen[k] \in Lines
  OBVIOUS
<1>2. Mapped(RanksIn, seen)
        = [k \in DOMAIN seen |-> IF HasDelta(seen[k]) THEN Ranks(seen[k]) ELSE <<>>]
  <2>1. \A k \in DOMAIN seen : RanksIn[seen[k]]
          = IF HasDelta(seen[k]) THEN Ranks(seen[k]) ELSE <<>>
    BY <1>1 DEF RanksIn
  <2> QED
    BY <2>1 DEF Mapped
<1>3. Mapped(EntriesIn, seen)
        = [k \in DOMAIN seen |-> IF HasDelta(seen[k]) THEN seen[k].tools ELSE <<>>]
  <2>1. \A k \in DOMAIN seen : EntriesIn[seen[k]]
          = IF HasDelta(seen[k]) THEN seen[k].tools ELSE <<>>
    BY <1>1 DEF EntriesIn
  <2> QED
    BY <2>1 DEF Mapped
<1>4. SaidRanks = FlatMap(RanksIn, seen)
  BY <1>2, Zenon DEF SaidRanks, SentBy, FlatMap
<1>5. Entries = FlatMap(EntriesIn, seen)
  BY <1>3, Zenon DEF Entries, SentBy, FlatMap
<1>6. FlatMap(RanksIn, seen) \in Seq(Int)
  BY LineMaps, FlatMapType
<1>7. FlatMap(EntriesIn, seen) \in Seq(ToolEntry)
  BY LineMaps, FlatMapType
<1> QED
  BY <1>4, <1>5, <1>6, <1>7, Zenon

\* A line that is taken adds its own.
LEMMA ReceiveRanks ==
    ASSUME seen \in Seq(Lines), NEW l \in Lines, seen' = Append(seen, l)
    PROVE  /\ SaidRanks' = SaidRanks \o RanksIn[l]
           /\ Entries' = Entries \o EntriesIn[l]
<1>1. (seen \in Seq(Lines))'
  OBVIOUS
<1>2. SaidRanks = FlatMap(RanksIn, seen) /\ Entries = FlatMap(EntriesIn, seen)
  BY SaidRanksMaps
<1>3. (SaidRanks = FlatMap(RanksIn, seen) /\ Entries = FlatMap(EntriesIn, seen))'
  BY <1>1, SaidRanksMaps, PTL
<1>4. FlatMap(RanksIn, Append(seen, l)) = FlatMap(RanksIn, seen) \o RanksIn[l]
  BY LineMaps, FlatMapAppend
<1>5. FlatMap(EntriesIn, Append(seen, l)) = FlatMap(EntriesIn, seen) \o EntriesIn[l]
  BY LineMaps, FlatMapAppend
<1> QED
  BY <1>2, <1>3, <1>4, <1>5, Zenon

\* A step that takes none leaves them alone.
LEMMA RanksSame ==
    ASSUME seen' = seen
    PROVE  SaidRanks' = SaidRanks /\ Entries' = Entries
  BY Zenon DEF SaidRanks, Entries, SentBy, Ranks

\* What is left of a line, by stage.
LEMMA RanksLeftByStage ==
    /\ pc = "line" => RanksLeft = IF HasDelta(line) THEN Ranks(line) ELSE <<>>
    /\ pc = "reasoning" => RanksLeft = Ranks(line)
    /\ pc = "text" =>
         RanksLeft = (IF line.content = <<>> THEN <<>> ELSE <<-1>>) \o Callers(line.tools)
    /\ pc = "tools" => RanksLeft = Callers(rest)
    /\ pc \notin {"line", "reasoning", "text", "tools"} => RanksLeft = <<>>
<1>1. pc = "line" => RanksLeft = IF HasDelta(line) THEN Ranks(line) ELSE <<>>
  <2>1. CASE pc = "line" /\ HasDelta(line)
    BY <2>1 DEF RanksLeft, ReasoningAhead
  <2>2. CASE pc = "line" /\ ~HasDelta(line)
    <3>1. ~ReasoningAhead /\ pc # "text" /\ pc # "tools"
      BY <2>2 DEF ReasoningAhead
    <3> QED
      BY <2>2, <3>1 DEF RanksLeft
  <2> QED
    BY <2>1, <2>2
<1>2. pc = "reasoning" => RanksLeft = Ranks(line)
  BY DEF RanksLeft, ReasoningAhead
<1>3. pc = "text" =>
         RanksLeft = (IF line.content = <<>> THEN <<>> ELSE <<-1>>) \o Callers(line.tools)
  BY DEF RanksLeft, ReasoningAhead
<1>4. pc = "tools" => RanksLeft = Callers(rest)
  BY DEF RanksLeft, ReasoningAhead
<1>5. pc \notin {"line", "reasoning", "text", "tools"} => RanksLeft = <<>>
  BY DEF RanksLeft, ReasoningAhead
<1> QED
  BY <1>1, <1>2, <1>3, <1>4, <1>5

\* One more is spoken.
LEMMA OneMoreOf ==
    ASSUME NEW S
    PROVE  \A spoken, z \in Seq(S) : \A r \in S :
             spoken \o (<<r>> \o z) = Append(spoken, r) \o z /\ Append(spoken, r) \in Seq(S)
<1> SUFFICES ASSUME NEW spoken \in Seq(S), NEW z \in Seq(S), NEW r \in S
             PROVE  /\ spoken \o (<<r>> \o z) = Append(spoken, r) \o z
                    /\ Append(spoken, r) \in Seq(S)
  OBVIOUS
<1>1. <<r>> \in Seq(S) /\ Append(spoken, r) \in Seq(S)
  OBVIOUS
<1>2. spoken \o <<r>> = Append(spoken, r)
  OBVIOUS
<1>3. spoken \o (<<r>> \o z) = (spoken \o <<r>>) \o z
  BY <1>1, ConcatAssociative
<1> QED
  BY <1>1, <1>2, <1>3, Zenon

\* The same of ranks.
LEMMA OneMoreRank ==
    \A spoken, z \in Seq(Int) : \A r \in Int :
        spoken \o (<<r>> \o z) = Append(spoken, r) \o z /\ Append(spoken, r) \in Seq(Int)
  BY OneMoreOf, Zenon

\* In order, nothing that was spoken before is of a higher rank.
LEMMA SpokenBelow ==
    ASSUME NEW s \in Seq(Int), NEW r \in Int, NEW z \in Seq(Int), InOrder(Append(s, r) \o z)
    PROVE  \A k \in DOMAIN s : s[k] <= r
<1> SUFFICES ASSUME NEW k \in DOMAIN s PROVE s[k] <= r
  OBVIOUS
<1> DEFINE u == Append(s, r)
           n == Len(s) + 1
<1>1. u \in Seq(Int) /\ k \in DOMAIN u /\ n \in DOMAIN u /\ u[k] = s[k] /\ u[n] = r /\ k < n
  OBVIOUS
<1> HIDE DEF u, n
<1>2. /\ k \in DOMAIN (u \o z) /\ n \in DOMAIN (u \o z)
      /\ (u \o z)[k] = u[k] /\ (u \o z)[n] = u[n]
  BY <1>1
<1>3. InOrder(u \o z)
  BY DEF u
<1> QED
  BY <1>1, <1>2, <1>3 DEF InOrder

\* What was said in order before a line was.
LEMMA InOrderBefore ==
    ASSUME NEW s \in Seq(Int), NEW z \in Seq(Int), InOrder(s \o z)
    PROVE  InOrder(s)
<1> SUFFICES ASSUME NEW i \in DOMAIN s, NEW j \in DOMAIN s, i < j PROVE s[i] <= s[j]
  BY DEF InOrder
<1>1. /\ i \in DOMAIN (s \o z) /\ j \in DOMAIN (s \o z)
      /\ (s \o z)[i] = s[i] /\ (s \o z)[j] = s[j]
  OBVIOUS
<1> QED
  BY <1>1 DEF InOrder

-----------------------------------------------------------------------------
(***************************************************************************)
(* The blocks in order: the steps.                                         *)
(***************************************************************************)

\* A block has the rank of its kind or call.
LEMMA RankType ==
    ASSUME NEW b \in BlockType
    PROVE  Rank(b) \in Int
  BY LinesAssumption DEF Rank, BlockType, NoCall

\* Blocks of the same kind and call are of the same rank.
LEMMA SameRank ==
    ASSUME NEW a, NEW b, SameBlock(a, b)
    PROVE  Rank(a) = Rank(b)
  BY DEF SameBlock, Rank

\* t has all that s has.
Includes(t, s) == \A k \in DOMAIN s : \E m \in DOMAIN t : t[m] = s[k]

\* What is spoken next is included.
LEMMA AppendIncludes ==
    \A s \in Seq(Int) : \A r \in Int :
        /\ Includes(Append(s, r), s)
        /\ \E m \in DOMAIN Append(s, r) : Append(s, r)[m] = r
<1> SUFFICES ASSUME NEW s \in Seq(Int), NEW r \in Int
             PROVE  /\ Includes(Append(s, r), s)
                    /\ \E m \in DOMAIN Append(s, r) : Append(s, r)[m] = r
  OBVIOUS
<1>1. \A k \in DOMAIN s : k \in DOMAIN Append(s, r) /\ Append(s, r)[k] = s[k]
  BY AppendedElements
<1>2. Len(s) + 1 \in DOMAIN Append(s, r) /\ Append(s, r)[Len(s) + 1] = r
  BY AppendedElements
<1> HIDE DEF Includes
<1> QED
  BY <1>1, <1>2, Zenon DEF Includes

\* Extending the last block keeps the order.
LEMMA ExtendsOrder ==
    ASSUME TypeOK, NEW s, BlocksInOrder(s), pc \notin {"epilogue", "returned"},
           NEW d, Extends(d), InPlace(d, content[contentBlockIndex]), NEW t, Includes(t, s)
    PROVE  BlocksInOrder(t)'
<1> DEFINE n == contentBlockIndex
<1>1. n' = n /\ \A j \in 0..n : SameBlock(content'[j], content[j])
  BY ExtendsChange
<1>2. \A j \in 0..n : Rank(content'[j]) = Rank(content[j])
  BY <1>1, SameRank
<1>3. ToolArgsInPlace'
  BY ExtendsPlace DEF BlocksInOrder
<1>4. ASSUME NEW i \in 0..n
      PROVE  \E m \in DOMAIN t : t[m] = Rank(content'[i])
  <2>1. PICK k \in DOMAIN s : s[k] = Rank(content[i])
    BY DEF BlocksInOrder, Guaranteed
  <2>2. PICK m \in DOMAIN t : t[m] = s[k]
    BY DEF Includes
  <2> QED
    BY <1>2, <2>1, <2>2
<1>5. \A i, j \in 0..n : i < j => Rank(content'[i]) < Rank(content'[j])
  BY <1>2 DEF BlocksInOrder
<1> QED
  BY <1>1, <1>3, <1>4, <1>5 DEF BlocksInOrder

\* So does opening a block of a higher rank.
LEMMA OpensOrder ==
    ASSUME TypeOK, NEW s, BlocksInOrder(s), pc \notin {"epilogue", "returned"},
           NEW b, Opens(b), \A k \in DOMAIN b.deltas : InPlace(b.deltas[k], b),
           \A i \in 0..contentBlockIndex : Rank(content[i]) < Rank(b),
           NEW t, Includes(t, s), Guaranteed' \/ \E m \in DOMAIN t : t[m] = Rank(b)
    PROVE  BlocksInOrder(t)'
<1> DEFINE n == contentBlockIndex
<1>1. /\ n \in Nat \cup {-1} /\ n' = n + 1
      /\ \A j \in 0..n : SameBlock(content'[j], content[j])
      /\ content'[n + 1] = b
      /\ \A j \in 0..(n + 1) : j \in 0..n \/ j = n + 1
  BY OpensChange
<1>2. \A j \in 0..n : Rank(content'[j]) = Rank(content[j])
  BY <1>1, SameRank
<1>3. ToolArgsInPlace'
  BY OpensPlace DEF BlocksInOrder
<1>4. ASSUME NEW i \in 0..(n + 1), ~Guaranteed'
      PROVE  \E m \in DOMAIN t : t[m] = Rank(content'[i])
  <2>1. CASE i \in 0..n
    <3>1. PICK k \in DOMAIN s : s[k] = Rank(content[i])
      BY <2>1 DEF BlocksInOrder, Guaranteed
    <3>2. PICK m \in DOMAIN t : t[m] = s[k]
      BY DEF Includes
    <3> QED
      BY <1>2, <2>1, <3>1, <3>2
  <2>2. CASE i = n + 1
    BY <1>1, <1>4, <2>2
  <2> QED
    BY <1>1, <2>1, <2>2
<1>5. ASSUME NEW i \in 0..(n + 1), NEW j \in 0..(n + 1), i < j
      PROVE  Rank(content'[i]) < Rank(content'[j])
  <2>1. i \in 0..n
    BY <1>1, <1>5
  <2>2. CASE j \in 0..n
    BY <1>2, <1>5, <2>1, <2>2 DEF BlocksInOrder
  <2>3. CASE j = n + 1
    BY <1>1, <1>2, <2>1, <2>3
  <2> QED
    BY <1>1, <2>2, <2>3
<1> QED
  BY <1>1, <1>3, <1>4, <1>5 DEF BlocksInOrder

\* A step that takes no line.
LEMMA OrderStep ==
    ASSUME seen' = seen, NEW spoken \in Seq(Int), spoken \o RanksLeft' = SaidRanks,
           InOrder(SaidRanks) => BlocksInOrder(spoken)'
    PROVE  OrderInv'
<1>1. SaidRanks' = SaidRanks
  BY RanksSame
<1>2. InOrder(SaidRanks)' <=> InOrder(SaidRanks)
  BY <1>1, Zenon DEF InOrder
<1> QED
  BY <1>1, <1>2, Zenon DEF OrderInv

\* One that leaves the blocks alone, and as much to say.
LEMMA SilentOrder ==
    ASSUME OrderInv, seen' = seen, RanksLeft' = RanksLeft, UNCHANGED blockVars,
           pc \in {"epilogue", "returned"} => pc' = pc
    PROVE  OrderInv'
<1>1. PICK spoken \in Seq(Int) : /\ spoken \o RanksLeft = SaidRanks
                                 /\ InOrder(SaidRanks) => BlocksInOrder(spoken)
  BY Zenon DEF OrderInv
<1>2. contentBlockIndex' = contentBlockIndex /\ content' = content
  BY DEF blockVars
<1>3. Guaranteed => Guaranteed'
  BY <1>2 DEF Guaranteed
<1>4. ToolArgsInPlace => ToolArgsInPlace'
  BY <1>2 DEF ToolArgsInPlace
<1>5. BlocksInOrder(spoken) => BlocksInOrder(spoken)'
  BY <1>2, <1>3, <1>4 DEF BlocksInOrder
<1>6. spoken \o RanksLeft' = SaidRanks
  BY <1>1, Zenon
<1> QED
  BY <1>1, <1>5, <1>6, OrderStep

\* A line received: its ranks are those left.
LEMMA ReceiveOrder ==
    ASSUME IInv, OrderInv, NEW l \in Lines, ReceiveLine(l)
    PROVE  OrderInv'
<1>1. /\ seen \in Seq(Lines) /\ seen' = Append(seen, l) /\ pc = "select" /\ pc' = "line"
      /\ UNCHANGED blockVars
  BY DEF IInv, TypeOK, ReceiveLine
<1>2. line' = l
  BY <1>1 DEF line, Last
<1>3. RanksLeft = <<>>
  BY <1>1, RanksLeftByStage
<1>4. RanksLeft' = RanksIn[l]
  <2>1. (pc = "line" => RanksLeft = IF HasDelta(line) THEN Ranks(line) ELSE <<>>)'
    BY RanksLeftByStage, PTL
  <2>2. /\ Ranks(line)' = Ranks(l)
        /\ HasDelta(line)' <=> HasDelta(l)
    BY <1>2, Zenon DEF Ranks, HasDelta
  <2> QED
    BY <1>1, <2>1, <2>2 DEF RanksIn
<1>5. PICK spoken \in Seq(Int) : /\ spoken \o RanksLeft = SaidRanks
                                 /\ InOrder(SaidRanks) => BlocksInOrder(spoken)
  BY Zenon DEF OrderInv
<1>6. spoken = SaidRanks
  <2>1. spoken \o <<>> = spoken
    OBVIOUS
  <2> QED
    BY <1>3, <1>5, <2>1, Zenon
<1>7. SaidRanks' = SaidRanks \o RanksIn[l]
  BY <1>1, ReceiveRanks
<1>8. spoken \o RanksLeft' = SaidRanks'
  BY <1>4, <1>6, <1>7, Zenon
<1>9. ASSUME InOrder(SaidRanks)'
      PROVE  BlocksInOrder(spoken)'
  <2>1. InOrder(SaidRanks \o RanksIn[l])
    BY <1>7, <1>9, Zenon DEF InOrder
  <2>2. SaidRanks \in Seq(Int) /\ RanksIn[l] \in Seq(Int)
    BY <1>1, SaidRanksMaps, LineMaps
  <2>3. InOrder(SaidRanks)
    BY <2>1, <2>2, InOrderBefore
  <2>4. BlocksInOrder(spoken)
    BY <1>5, <2>3
  <2>5. contentBlockIndex' = contentBlockIndex /\ content' = content
    BY <1>1 DEF blockVars
  <2>6. ~Guaranteed /\ (ToolArgsInPlace => ToolArgsInPlace')
    BY <1>1, <2>5 DEF Guaranteed, ToolArgsInPlace
  <2> QED
    BY <2>4, <2>5, <2>6 DEF BlocksInOrder
<1> QED
  BY <1>8, <1>9, Zenon DEF OrderInv

\* What is spoken without a block keeps the order.
LEMMA SameOrder ==
    ASSUME NEW s, BlocksInOrder(s), pc \notin {"epilogue", "returned"},
           UNCHANGED blockVars, NEW t, Includes(t, s)
    PROVE  BlocksInOrder(t)'
<1>1. contentBlockIndex' = contentBlockIndex /\ content' = content
  BY DEF blockVars
<1>2. ToolArgsInPlace'
  BY <1>1 DEF BlocksInOrder, ToolArgsInPlace
<1>3. ASSUME NEW i \in 0..contentBlockIndex
      PROVE  \E m \in DOMAIN t : t[m] = Rank(content[i])
  <2>1. PICK k \in DOMAIN s : s[k] = Rank(content[i])
    BY DEF BlocksInOrder, Guaranteed
  <2>2. PICK m \in DOMAIN t : t[m] = s[k]
    BY DEF Includes
  <2> QED
    BY <2>1, <2>2
<1> QED
  BY <1>1, <1>2, <1>3 DEF BlocksInOrder

\* If nothing of a higher rank was spoken, no block is of one.
LEMMA BlocksBelow ==
    ASSUME NEW s, BlocksInOrder(s), pc \notin {"epilogue", "returned"},
           NEW r, \A k \in DOMAIN s : s[k] <= r
    PROVE  \A i \in 0..contentBlockIndex : Rank(content[i]) <= r
<1> SUFFICES ASSUME NEW i \in 0..contentBlockIndex PROVE Rank(content[i]) <= r
  OBVIOUS
<1>1. PICK k \in DOMAIN s : s[k] = Rank(content[i])
  BY DEF BlocksInOrder, Guaranteed
<1> QED
  BY <1>1

\* A block of a rank is of its kind or call.
LEMMA RankTells ==
    ASSUME IInv, NEW i \in 0..contentBlockIndex
    PROVE  /\ Rank(content[i]) \in Int
           /\ content[i].type \in {"thinking", "text", "tool_use"}
           /\ content[i].type = "thinking" <=> Rank(content[i]) = -2
           /\ content[i].type = "text" <=> Rank(content[i]) = -1
           /\ content[i].type = "tool_use" <=> Rank(content[i]) \in Nat
           /\ content[i].type = "tool_use" =>
                Rank(content[i]) = content[i].call /\ content[i].call \in ToolIdx
           /\ Rank(content[i]) \in Nat \cup {-1, -2}
<1>1. content[i] \in BlockType
  BY DEF IInv, TypeOK
<1>2. content[i].type \in {"thinking", "text", "tool_use"}
  BY <1>1 DEF BlockType
<1>3. content[i].type = "tool_use" => content[i].call \in ToolIdx
  BY DEF IInv, StartedMatchesBlock
<1> QED
  BY <1>2, <1>3, LinesAssumption DEF Rank

\* The last block of those in order is of the highest rank.
LEMMA LastIsHighest ==
    ASSUME IInv, NEW s, BlocksInOrder(s), NEW i \in 0..contentBlockIndex
    PROVE  /\ contentBlockIndex \in 0..contentBlockIndex
           /\ i = contentBlockIndex \/ Rank(content[i]) < Rank(content[contentBlockIndex])
<1>1. contentBlockIndex \in Nat
  BY DEF IInv, TypeOK
<1>2. i < contentBlockIndex \/ i = contentBlockIndex
  BY <1>1
<1> QED
  BY <1>1, <1>2 DEF BlocksInOrder

\* The reasoning of a line keeps the order.
LEMMA ReasoningOrder ==
    ASSUME IInv, DeltaStages, ShapeInv, OrderInv, Reasoning
    PROVE  OrderInv'
<1> DEFINE C == (IF line.content = <<>> THEN <<>> ELSE <<-1>>) \o Callers(line.tools)
<1>1. /\ TypeOK /\ line \in Line /\ pc = "reasoning" /\ pc' = "text" /\ seen' = seen
      /\ pc \notin {"epilogue", "returned"}
  BY LineTyped DEF IInv, TypeOK, Reasoning
<1>2. line' = line
  BY <1>1 DEF line
<1>3. C \in Seq(Int)
  <2>1. Callers(line.tools) \in Seq(Int)
    BY <1>1, CallersAreNumbers DEF Line
  <2>2. <<>> \in Seq(Int) /\ <<-1>> \in Seq(Int)
    OBVIOUS
  <2> QED
    BY <2>1, <2>2
<1>4. RanksLeft' = C
  <2>1. (pc = "text" =>
           RanksLeft = (IF line.content = <<>> THEN <<>> ELSE <<-1>>) \o Callers(line.tools))'
    BY RanksLeftByStage, PTL
  <2>2. Callers(line.tools)' = Callers(line.tools)
    BY <1>2, Zenon DEF Callers
  <2> QED
    BY <1>1, <1>2, <2>1, <2>2
<1>5. RanksLeft = (IF line.reasoning = <<>> THEN <<>> ELSE <<-2>>) \o C
  <2> DEFINE a == IF line.reasoning = <<>> THEN <<>> ELSE <<-2>>
             b == IF line.content = <<>> THEN <<>> ELSE <<-1>>
             c == Callers(line.tools)
  <2>1. RanksLeft = (a \o b) \o c
    BY <1>1, RanksType, RanksLeftByStage
  <2>2. a \in Seq(Int) /\ b \in Seq(Int) /\ c \in Seq(Int)
    <3>1. c \in Seq(Int)
      BY <1>1, CallersAreNumbers DEF Line
    <3>2. <<>> \in Seq(Int) /\ <<-1>> \in Seq(Int) /\ <<-2>> \in Seq(Int)
      OBVIOUS
    <3> QED
      BY <3>1, <3>2
  <2> HIDE DEF a, b, c
  <2>3. (a \o b) \o c = a \o (b \o c)
    BY <2>2, ConcatAssociative
  <2> QED
    BY <2>1, <2>3 DEF a, b, c
<1> HIDE DEF C
<1>6. -2 \in Int
  OBVIOUS
<1>7. CASE line.reasoning = <<>>
  <2>1. RanksLeft' = RanksLeft
    BY <1>3, <1>4, <1>5, <1>7
  <2>2. UNCHANGED blockVars
    BY <1>7, ReasoningOnBlocks
  <2> QED
    BY <1>1, <2>1, <2>2, SilentOrder
<1>8. CASE line.reasoning # <<>>
  <2>1. PICK spoken \in Seq(Int) : /\ spoken \o RanksLeft = SaidRanks
                                   /\ InOrder(SaidRanks) => BlocksInOrder(spoken)
    BY Zenon DEF OrderInv
  <2> DEFINE s == Append(spoken, -2)
  <2>2. s \in Seq(Int) /\ s \o RanksLeft' = SaidRanks
    <3>1. RanksLeft = <<-2>> \o C
      BY <1>5, <1>8
    <3>2. spoken \o (<<-2>> \o C) = s \o C /\ s \in Seq(Int)
      BY <1>3, <1>6, OneMoreRank, Zenon
    <3> QED
      BY <1>4, <2>1, <3>1, <3>2, Zenon
  <2>3. Includes(s, spoken) /\ \E m \in DOMAIN s : s[m] = -2
    BY <1>6, AppendIncludes, Zenon
  <2>4. ASSUME InOrder(SaidRanks)
        PROVE  BlocksInOrder(s)'
    <3>1. BlocksInOrder(spoken)
      BY <2>1, <2>4
    <3>2. \A k \in DOMAIN spoken : spoken[k] <= -2
      <4>1. InOrder(s \o C)
        BY <1>4, <2>2, <2>4, Zenon
      <4> QED
        BY <1>3, <4>1, SpokenBelow
    <3>3. \A i \in 0..contentBlockIndex : Rank(content[i]) <= -2
      BY <1>1, <3>1, <3>2, BlocksBelow
    <3> HIDE DEF s
    <3>4. ReasoningDelta.type = "thinking_delta"
      BY DEF ReasoningDelta, Delta
    <3>5. ASSUME NEW d, d = ReasoningDelta, Extends(d)
          PROVE  BlocksInOrder(s)'
      <4>1. InPlace(d, content[contentBlockIndex])
        BY <3>4, <3>5 DEF InPlace
      <4> QED
        BY <1>1, <2>3, <3>1, <3>5, <4>1, ExtendsOrder
    <3>6. ASSUME NEW b, Opens(b), b.type = "thinking", b.deltas = <<ReasoningDelta>>
          PROVE  BlocksInOrder(s)'
      <4>1. ~thinkingOpen
        <5>1. contentBlockIndex' = contentBlockIndex + 1 /\ contentBlockIndex \in Int
          BY <1>1, <3>6 DEF Opens, TypeOK
        <5> QED
          BY <1>8, <5>1 DEF Reasoning
      <4>2. ~(contentBlockIndex >= 0)
        <5> SUFFICES ASSUME contentBlockIndex >= 0 PROVE FALSE
          OBVIOUS
        <5>1. contentBlockIndex \in 0..contentBlockIndex
          BY <1>1 DEF TypeOK
        <5>2. content[contentBlockIndex].type = "thinking"
          BY <3>3, <5>1, RankTells
        <5> QED
          BY <1>1, <4>1, <5>2 DEF ShapeInv
      <4>3. \A i \in 0..contentBlockIndex : Rank(content[i]) < Rank(b)
        BY <1>1, <4>2 DEF TypeOK
      <4>4. \A k \in DOMAIN b.deltas : InPlace(b.deltas[k], b)
        BY <3>4, <3>6 DEF InPlace
      <4>5. Rank(b) = -2
        BY <3>6 DEF Rank
      <4> QED
        BY <1>1, <2>3, <3>1, <3>6, <4>3, <4>4, <4>5, OpensOrder
    <3> QED
      BY <1>8, <3>5, <3>6, ReasoningOnBlocks
  <2> HIDE DEF s
  <2> QED
    BY <1>1, <2>2, <2>4, OrderStep
<1> QED
  BY <1>7, <1>8

\* So does its text.
LEMMA TextOrder ==
    ASSUME IInv, DeltaStages, ShapeInv, OrderInv, Text
    PROVE  OrderInv'
<1> DEFINE C == Callers(line.tools)
<1>1. /\ TypeOK /\ line \in Line /\ pc = "text" /\ pc' = "tools" /\ seen' = seen
      /\ pc \notin {"epilogue", "returned"} /\ rest' = line.tools
  BY LineTyped DEF IInv, TypeOK, Text
<1>2. C \in Seq(Int)
  BY <1>1, CallersAreNumbers DEF Line
<1>3. RanksLeft' = C
  <2>1. (pc = "tools" => RanksLeft = Callers(rest))'
    BY RanksLeftByStage, PTL
  <2>2. Callers(rest)' = Callers(line.tools)
    BY <1>1, Zenon DEF Callers
  <2> QED
    BY <1>1, <2>1, <2>2
<1>4. RanksLeft = (IF line.content = <<>> THEN <<>> ELSE <<-1>>) \o C
  BY <1>1, RanksLeftByStage
<1> HIDE DEF C
<1>5. -1 \in Int
  OBVIOUS
<1>6. CASE line.content = <<>>
  <2>1. RanksLeft' = RanksLeft
    BY <1>2, <1>3, <1>4, <1>6
  <2>2. UNCHANGED blockVars
    BY <1>6, TextOnBlocks
  <2> QED
    BY <1>1, <2>1, <2>2, SilentOrder
<1>7. CASE line.content # <<>>
  <2>1. PICK spoken \in Seq(Int) : /\ spoken \o RanksLeft = SaidRanks
                                   /\ InOrder(SaidRanks) => BlocksInOrder(spoken)
    BY Zenon DEF OrderInv
  <2> DEFINE s == Append(spoken, -1)
  <2>2. s \in Seq(Int) /\ s \o RanksLeft' = SaidRanks
    <3>1. RanksLeft = <<-1>> \o C
      BY <1>4, <1>7
    <3>2. spoken \o (<<-1>> \o C) = s \o C /\ s \in Seq(Int)
      BY <1>2, <1>5, OneMoreRank, Zenon
    <3> QED
      BY <1>3, <2>1, <3>1, <3>2, Zenon
  <2>3. Includes(s, spoken) /\ \E m \in DOMAIN s : s[m] = -1
    BY <1>5, AppendIncludes, Zenon
  <2>4. ASSUME InOrder(SaidRanks)
        PROVE  BlocksInOrder(s)'
    <3>1. BlocksInOrder(spoken)
      BY <2>1, <2>4
    <3>2. \A k \in DOMAIN spoken : spoken[k] <= -1
      <4>1. InOrder(s \o C)
        BY <1>3, <2>2, <2>4, Zenon
      <4> QED
        BY <1>2, <4>1, SpokenBelow
    <3>3. \A i \in 0..contentBlockIndex : Rank(content[i]) <= -1
      BY <1>1, <3>1, <3>2, BlocksBelow
    <3> HIDE DEF s
    <3>4. TextDelta.type = "text_delta"
      BY DEF TextDelta, Delta
    <3>5. ASSUME NEW d, d = TextDelta, Extends(d)
          PROVE  BlocksInOrder(s)'
      <4>1. InPlace(d, content[contentBlockIndex])
        BY <3>4, <3>5 DEF InPlace
      <4> QED
        BY <1>1, <2>3, <3>1, <3>5, <4>1, ExtendsOrder
    <3>6. ASSUME NEW b, Opens(b), b.type = "text", b.deltas = <<TextDelta>>
          PROVE  BlocksInOrder(s)'
      <4>1. ~textOpen
        <5>1. contentBlockIndex' = contentBlockIndex + 1 /\ contentBlockIndex \in Int
          BY <1>1, <3>6 DEF Opens, TypeOK
        <5> QED
          BY <1>7, <5>1 DEF Text
      <4>2. Rank(b) = -1
        BY <3>6 DEF Rank
      <4>3. ASSUME NEW i \in 0..contentBlockIndex
            PROVE  Rank(content[i]) < Rank(b)
        <5> DEFINE n == contentBlockIndex
        <5>1. n \in 0..n /\ (i = n \/ Rank(content[i]) < Rank(content[n]))
          BY <3>1, LastIsHighest
        <5>2. content[n].type # "text"
          BY <1>1, <4>1, <5>1 DEF ShapeInv
        <5>3. Rank(content[n]) < -1 /\ Rank(content[i]) \in Int /\ Rank(content[n]) \in Int
          BY <3>3, <5>1, <5>2, RankTells
        <5> QED
          BY <4>2, <5>1, <5>3
      <4>4. \A k \in DOMAIN b.deltas : InPlace(b.deltas[k], b)
        BY <3>4, <3>6 DEF InPlace
      <4> QED
        BY <1>1, <2>3, <3>1, <3>6, <4>2, <4>3, <4>4, OpensOrder
    <3> QED
      BY <1>7, <3>5, <3>6, TextOnBlocks
  <2> HIDE DEF s
  <2> QED
    BY <1>1, <2>2, <2>4, OrderStep
<1> QED
  BY <1>6, <1>7

\* So does an entry of its tool calls.
LEMMA ToolCallOrder ==
    ASSUME IInv, DeltaStages, ShapeInv, OrderInv, ToolCall
    PROVE  OrderInv'
<1> DEFINE n == contentBlockIndex
           C == Callers(Tail(rest))
<1>0. PICK t \in ToolIdx : t = Caller
  BY ToolCallOutcome
<1>1. /\ TypeOK /\ pc = "tools" /\ pc' = "tools" /\ seen' = seen /\ rest # <<>>
      /\ pc \notin {"epilogue", "returned"}
      /\ rest \in Seq(ToolEntry) /\ rest' = Tail(rest) /\ Tail(rest) \in Seq(ToolEntry)
      /\ t \in Nat /\ t \in Int
  BY ToolCallOutcome, LinesAssumption DEF IInv, TypeOK, ToolCall
<1>2. C \in Seq(Int)
  BY <1>1, CallersAreNumbers
<1>3. RanksLeft = <<t>> \o C /\ RanksLeft' = C
  <2>1. Callers(rest) = <<t>> \o C
    BY <1>0, <1>1, CallersHead DEF Caller
  <2>2. (pc = "tools" => RanksLeft = Callers(rest))'
    BY RanksLeftByStage, PTL
  <2>3. Callers(rest)' = C
    BY <1>1, Zenon DEF Callers
  <2> QED
    BY <1>1, <2>1, <2>2, <2>3, RanksLeftByStage
<1> HIDE DEF C
<1>4. PICK spoken \in Seq(Int) : /\ spoken \o RanksLeft = SaidRanks
                                 /\ InOrder(SaidRanks) => BlocksInOrder(spoken)
  BY Zenon DEF OrderInv
<1> DEFINE s == Append(spoken, t)
<1>5. s \in Seq(Int) /\ s \o RanksLeft' = SaidRanks
  <2>1. spoken \o (<<t>> \o C) = s \o C /\ s \in Seq(Int)
    BY <1>1, <1>2, OneMoreRank, Zenon
  <2> QED
    BY <1>3, <1>4, <2>1, Zenon
<1>6. Includes(s, spoken) /\ \E m \in DOMAIN s : s[m] = t
  BY <1>1, AppendIncludes, Zenon
<1>7. ASSUME InOrder(SaidRanks)
      PROVE  BlocksInOrder(s)'
  <2>1. BlocksInOrder(spoken)
    BY <1>4, <1>7
  <2>2. \A i \in 0..n : Rank(content[i]) <= t
    <3>1. InOrder(s \o C)
      BY <1>3, <1>5, <1>7, Zenon
    <3>2. \A k \in DOMAIN spoken : spoken[k] <= t
      BY <1>1, <1>2, <3>1, SpokenBelow
    <3> QED
      BY <1>1, <2>1, <3>2, BlocksBelow
  <2> HIDE DEF s
  <2>3. ArgsDelta.type = "input_json_delta" /\ ArgsDelta.call = t
    BY <1>0 DEF ArgsDelta, Delta
  <2>4. PICK x \in ToolCallType : Buffers(x) \/ SendsOn(x) \/ Begins(x)
    BY ToolCallOutcome
  <2>5. CASE Buffers(x)
    <3>1. UNCHANGED blockVars
      BY <2>5 DEF Buffers
    <3> QED
      BY <1>1, <1>6, <2>1, <3>1, SameOrder
  <2>6. CASE SendsOn(x)
    <3>1. PICK d : d = ArgsDelta /\ Extends(d)
      BY <2>6 DEF SendsOn
    <3>2. toolCalls[t].started
      BY <1>0, <2>6 DEF SendsOn
    <3>3. PICK i \in 0..n : content[i].type = "tool_use" /\ content[i].call = t
      BY <1>1, <3>2 DEF ShapeInv
    <3>4. i = n
      <4>1. n \in 0..n /\ (i = n \/ Rank(content[i]) < Rank(content[n]))
        BY <2>1, LastIsHighest
      <4>2. Rank(content[i]) = t /\ Rank(content[n]) <= t /\ Rank(content[n]) \in Int
        BY <2>2, <3>3, <4>1, RankTells
      <4> QED
        BY <1>1, <4>1, <4>2
    <3>5. InPlace(d, content[n])
      BY <2>3, <3>1, <3>3, <3>4 DEF InPlace
    <3> QED
      BY <1>1, <1>6, <2>1, <3>1, <3>5, ExtendsOrder
  <2>7. CASE Begins(x)
    <3>1. PICK b : /\ Opens(b) /\ b.type = "tool_use" /\ b.call = t
                   /\ b.deltas = (IF Known.args = <<>> THEN <<>> ELSE <<ArgsDelta>>)
      BY <1>0, <2>7 DEF Begins
    <3>2. ~toolCalls[t].started
      BY <1>0, <2>7 DEF Begins
    <3>3. Rank(b) = t
      BY <3>1 DEF Rank
    <3>4. ASSUME NEW i \in 0..n
          PROVE  Rank(content[i]) < Rank(b)
      <4>1. Rank(content[i]) # t
        <5> SUFFICES ASSUME Rank(content[i]) = t PROVE FALSE
          OBVIOUS
        <5>1. content[i].type = "tool_use" /\ content[i].call = t
          BY <1>1, RankTells
        <5> QED
          BY <3>2, <5>1 DEF IInv, StartedMatchesBlock
      <4> QED
        BY <1>1, <2>2, <3>3, <4>1, RankTells
    <3>5. \A k \in DOMAIN b.deltas : InPlace(b.deltas[k], b)
      BY <2>3, <3>1 DEF InPlace
    <3> QED
      BY <1>1, <1>6, <2>1, <3>1, <3>3, <3>4, <3>5, OpensOrder
  <2> QED
    BY <2>4, <2>5, <2>6, <2>7
<1> HIDE DEF s
<1> QED
  BY <1>1, <1>5, <1>7, OrderStep

\* So do the two steps that end the message.
LEMMA EndOrder ==
    ASSUME IInv, OrderInv, GuaranteeBlock \/ Epilogue
    PROVE  OrderInv'
<1> DEFINE n == contentBlockIndex
<1>1. TypeOK /\ seen' = seen
  BY DEF IInv, GuaranteeBlock, Epilogue
<1>2. RanksLeft = <<>> /\ RanksLeft' = <<>>
  <2>1. (pc \notin {"line", "reasoning", "text", "tools"} => RanksLeft = <<>>)'
    BY RanksLeftByStage, PTL
  <2> QED
    BY <2>1, RanksLeftByStage DEF GuaranteeBlock, Epilogue
<1>3. PICK spoken \in Seq(Int) : /\ spoken \o RanksLeft = SaidRanks
                                 /\ InOrder(SaidRanks) => BlocksInOrder(spoken)
  BY Zenon DEF OrderInv
<1>4. spoken \o RanksLeft' = SaidRanks
  BY <1>2, <1>3, Zenon
<1>5. CASE GuaranteeBlock /\ n # -1
  BY <1>1, <1>2, <1>5, SilentOrder DEF GuaranteeBlock, blockVars
<1>6. CASE GuaranteeBlock /\ n = -1
  <2> DEFINE b == Block("text", NoCall, NoStr, NoStr)
  <2>1. b \in BlockType /\ b.stops = 0 /\ b.deltas = <<>> /\ b.type = "text"
    BY DEF Block, BlockType
  <2>2. /\ contentBlockIndex' = contentBlockIndex + 1 /\ content' = openBlock(content, b)
        /\ contentBlockIndex' = 0 /\ pc = "after" /\ pc' = "epilogue"
    BY <1>6 DEF GuaranteeBlock
  <2> HIDE DEF b
  <2>3. Opens(b)
    BY <1>1, <2>1, <2>2, OpensBare
  <2>4. content'[0] = b
    BY <1>1, <1>6, <2>3, OpensChange
  <2>5. Guaranteed'
    BY <2>1, <2>2, <2>4 DEF Guaranteed
  <2>6. \A k \in DOMAIN b.deltas : InPlace(b.deltas[k], b)
    BY <2>1
  <2>7. \A i \in 0..n : Rank(content[i]) < Rank(b)
    BY <1>6
  <2>8. Includes(spoken, spoken)
    BY DEF Includes
  <2>9. BlocksInOrder(spoken) => BlocksInOrder(spoken)'
    BY <1>1, <2>2, <2>3, <2>5, <2>6, <2>7, <2>8, OpensOrder
  <2> QED
    BY <1>1, <1>3, <1>4, <2>9, OrderStep
<1>7. CASE Epilogue
  <2>1. /\ n' = n /\ pc = "epilogue" /\ pc' = "returned"
        /\ DOMAIN content = 0..n /\ DOMAIN content' = 0..n
        /\ \A j \in 0..n : SameBlock(content'[j], content[j])
                           /\ content'[j].deltas = content[j].deltas
    BY <1>1, <1>7, EpilogueChange DEF Epilogue
  <2>2. \A j \in 0..n : Rank(content'[j]) = Rank(content[j])
    BY <2>1, SameRank
  <2>3. Guaranteed => Guaranteed'
    BY <2>1 DEF Guaranteed, SameBlock
  <2>4. ToolArgsInPlace => ToolArgsInPlace'
    BY <2>1 DEF ToolArgsInPlace, SameBlock
  <2>5. BlocksInOrder(spoken) => BlocksInOrder(spoken)'
    BY <2>1, <2>2, <2>3, <2>4 DEF BlocksInOrder
  <2> QED
    BY <1>1, <1>3, <1>4, <2>5, OrderStep
<1> QED
  BY <1>5, <1>6, <1>7

\* There is an order before the first line.
LEMMA InitOrder ==
    ASSUME Init
    PROVE  OrderInv
<1>1. seen = <<>> /\ contentBlockIndex = -1 /\ pc = "loop" /\ content = <<>>
  BY DEF Init
<1>2. seen \in Seq(Lines) /\ <<>> \in Seq(Int) /\ <<>> \o <<>> = <<>>
  BY <1>1
<1>3. SaidRanks = <<>>
  BY <1>1, <1>2, SaidRanksMaps, FlatMapEmpty, Zenon
<1>4. RanksLeft = <<>>
  BY <1>1, RanksLeftByStage
<1>5. BlocksInOrder(<<>>)
  BY <1>1 DEF BlocksInOrder, ToolArgsInPlace
<1> QED
  BY <1>2, <1>3, <1>4, <1>5, Zenon DEF OrderInv

\* Every step keeps it.
LEMMA StepOrder ==
    ASSUME IInv, DeltaStages, ShapeInv, OrderInv, [Next]_vars
    PROVE  OrderInv'
<1> USE DEF callVars
<1>1. ASSUME UNCHANGED <<blockVars, seen>>, pc \in {"epilogue", "returned"} => pc' = pc,
             RanksLeft' = RanksLeft
      PROVE  OrderInv'
  BY <1>1, SilentOrder
<1>2. /\ pc \notin {"line", "reasoning", "text", "tools"} => RanksLeft = <<>>
      /\ pc' \notin {"line", "reasoning", "text", "tools"} => RanksLeft' = <<>>
  <2>1. (pc \notin {"line", "reasoning", "text", "tools"} => RanksLeft = <<>>)'
    BY RanksLeftByStage, PTL
  <2> QED
    BY <2>1, RanksLeftByStage
<1>3. ASSUME pc = "line", ~HasDelta(line)
      PROVE  RanksLeft = <<>>
  BY <1>3, RanksLeftByStage
<1>4. CASE UNCHANGED vars
  <2>1. RanksLeft' = RanksLeft
    <3>1. line' = line /\ rest' = rest /\ pc' = pc
      BY <1>4 DEF vars, line
    <3> QED
      BY <3>1, Zenon DEF RanksLeft, ReasoningAhead, Ranks, Callers, HasDelta
  <2> QED
    BY <1>1, <1>4, <2>1 DEF vars
<1>5. CASE \E l \in Lines : ReceiveLine(l)
  BY <1>5, ReceiveOrder
<1>6. CASE StillConnected \/ Disconnect \/ EndOfStream \/ ReadError \/ Stall \/ ReturnOnAbort
  BY <1>1, <1>2, <1>6
  DEF StillConnected, Disconnect, EndOfStream, ReadError, Stall, ReturnOnAbort
<1>7. CASE SkipLine \/ Done \/ ErrorFrame
  BY <1>1, <1>2, <1>3, <1>7 DEF SkipLine, Done, ErrorFrame, HasDelta
<1>8. CASE Chunk
  <2>1. RanksLeft' = RanksLeft
    <3>1. CASE ~line.delta
      BY <1>2, <1>3, <1>8, <3>1 DEF Chunk, HasDelta
    <3>2. CASE line.delta
      <4>1. pc = "line" /\ pc' = "reasoning" /\ line' = line /\ HasDelta(line)
        BY <1>8, <3>2 DEF Chunk, line, HasDelta
      <4>2. (pc = "reasoning" => RanksLeft = Ranks(line))'
        BY RanksLeftByStage, PTL
      <4>3. Ranks(line)' = Ranks(line)
        BY <4>1, Zenon DEF Ranks
      <4> QED
        BY <4>1, <4>2, <4>3, RanksLeftByStage
    <3> QED
      BY <3>1, <3>2
  <2> QED
    BY <1>1, <1>8, <2>1 DEF Chunk
<1>9. CASE Finish
  <2>1. RanksLeft = <<>>
    <3>1. pc = "tools" /\ rest = <<>>
      BY <1>9 DEF Finish
    <3>2. Callers(<<>>) = <<>>
      BY DEF Callers
    <3> QED
      BY <3>1, <3>2, RanksLeftByStage
  <2> QED
    BY <1>1, <1>2, <1>9, <2>1 DEF Finish
<1> QED
  BY <1>4, <1>5, <1>6, <1>7, <1>8, <1>9, ReasoningOrder, TextOrder, ToolCallOrder, EndOrder
  DEF Next, FromOutside, ProcessLine, AfterLoop, Returned

-----------------------------------------------------------------------------
(***************************************************************************)
(* Ids and names: the steps.                                               *)
(***************************************************************************)

\* The entries left, by stage.
LEMMA EntriesLeftByStage ==
    /\ pc = "line" => EntriesLeft = IF HasDelta(line) THEN line.tools ELSE <<>>
    /\ pc \in {"reasoning", "text"} => EntriesLeft = line.tools
    /\ pc = "tools" => EntriesLeft = rest
    /\ pc \notin {"line", "reasoning", "text", "tools"} => EntriesLeft = <<>>
  BY DEF EntriesLeft, TextAhead, ReasoningAhead

\* The blocks of calls are those there were.
CallBlocksKept ==
    \A i \in 0..contentBlockIndex' : content'[i].type = "tool_use" =>
        \E j \in 0..contentBlockIndex : SameBlock(content'[i], content[j])

\* They are when the last block is extended.
LEMMA ExtendsKeepsCalls ==
    ASSUME TypeOK, NEW d, Extends(d)
    PROVE  CallBlocksKept
  BY ExtendsChange DEF CallBlocksKept

\* When a block that is not of a call is opened.
LEMMA OpensKeepsCalls ==
    ASSUME TypeOK, NEW b, Opens(b), b.type # "tool_use"
    PROVE  CallBlocksKept
  BY OpensChange DEF CallBlocksKept

\* And when all are left alone.
LEMMA SameKeepsCalls ==
    ASSUME UNCHANGED blockVars
    PROVE  CallBlocksKept
  BY DEF CallBlocksKept, blockVars, SameBlock

\* What is identified stays so if calls and their blocks do.
LEMMA StaysIdentified ==
    ASSUME NEW h, Identified(h), toolCalls' = toolCalls, CallBlocksKept
    PROVE  Identified(h)'
<1>1. \A i \in 0..contentBlockIndex' : content'[i].type = "tool_use" =>
        /\ GivesId(h, content'[i].call, content'[i].id)
        /\ GivesName(h, content'[i].call, content'[i].name)
  <2> SUFFICES ASSUME NEW i \in 0..contentBlockIndex', content'[i].type = "tool_use"
               PROVE  /\ GivesId(h, content'[i].call, content'[i].id)
                      /\ GivesName(h, content'[i].call, content'[i].name)
    OBVIOUS
  <2>1. PICK j \in 0..contentBlockIndex : SameBlock(content'[i], content[j])
    BY DEF CallBlocksKept
  <2>2. /\ content[j].type = "tool_use" /\ content'[i].call = content[j].call
        /\ content'[i].id = content[j].id /\ content'[i].name = content[j].name
    BY <2>1 DEF SameBlock
  <2> QED
    BY <2>2 DEF Identified
<1>2. \A s : CanStart(s)' <=> CanStart(s)
  BY DEF CanStart
<1> QED
  BY <1>1, <1>2, Zenon DEF Identified, GivesId, GivesName

\* A step that takes no line and no entry.
LEMMA SilentIdentity ==
    ASSUME IdentityInv, seen' = seen, EntriesLeft' = EntriesLeft, toolCalls' = toolCalls,
           CallBlocksKept
    PROVE  IdentityInv'
<1>1. PICK h \in Seq(ToolEntry) : h \o EntriesLeft = Entries /\ Identified(h)
  BY Zenon DEF IdentityInv
<1>2. Entries' = Entries
  BY RanksSame
<1>3. h \o EntriesLeft' = Entries'
  BY <1>1, <1>2, Zenon
<1>4. Identified(h)'
  BY <1>1, StaysIdentified
<1> QED
  BY <1>3, <1>4, Zenon DEF IdentityInv

\* A line received: its entries are those left.
LEMMA ReceiveIdentity ==
    ASSUME IInv, IdentityInv, NEW l \in Lines, ReceiveLine(l)
    PROVE  IdentityInv'
<1>1. /\ seen \in Seq(Lines) /\ seen' = Append(seen, l) /\ pc = "select" /\ pc' = "line"
      /\ UNCHANGED blockVars /\ toolCalls' = toolCalls
  BY DEF IInv, TypeOK, ReceiveLine, callVars
<1>2. line' = l
  BY <1>1 DEF line, Last
<1>3. EntriesLeft' = EntriesIn[l]
  <2>1. (pc = "line" => EntriesLeft = IF HasDelta(line) THEN line.tools ELSE <<>>)'
    BY EntriesLeftByStage, PTL
  <2>2. HasDelta(line)' <=> HasDelta(l)
    BY <1>2, Zenon DEF HasDelta
  <2> QED
    BY <1>1, <1>2, <2>1, <2>2 DEF EntriesIn
<1>4. PICK h \in Seq(ToolEntry) : h \o EntriesLeft = Entries /\ Identified(h)
  BY Zenon DEF IdentityInv
<1>5. h = Entries
  <2>1. h \o <<>> = h
    OBVIOUS
  <2> QED
    BY <1>1, <1>4, <2>1, EntriesLeftByStage
<1>6. h \o EntriesLeft' = Entries'
  BY <1>1, <1>3, <1>5, ReceiveRanks
<1>7. Identified(h)'
  BY <1>1, <1>4, SameKeepsCalls, StaysIdentified
<1> QED
  BY <1>6, <1>7, Zenon DEF IdentityInv

\* What is given stays given, and an entry gives what it says.
LEMMA GivesMore ==
    ASSUME NEW h \in Seq(ToolEntry), NEW e \in ToolEntry
    PROVE  /\ \A t, v : GivesId(h, t, v) => GivesId(Append(h, e), t, v)
           /\ \A t, v : GivesName(h, t, v) => GivesName(Append(h, e), t, v)
           /\ e.id # NoStr => GivesId(Append(h, e), IndexOf(e), e.id)
           /\ e.name # NoStr => GivesName(Append(h, e), IndexOf(e), e.name)
<1> DEFINE u == Append(h, e)
<1>1. /\ \A k \in DOMAIN h : k \in DOMAIN u /\ u[k] = h[k]
      /\ Len(h) + 1 \in DOMAIN u /\ u[Len(h) + 1] = e
  BY AppendedElements
<1> HIDE DEF u
<1>2. /\ \A t, v : GivesId(h, t, v) => GivesId(u, t, v)
      /\ \A t, v : GivesName(h, t, v) => GivesName(u, t, v)
  BY <1>1 DEF GivesId, GivesName
<1>3. /\ e.id # NoStr => GivesId(u, IndexOf(e), e.id)
      /\ e.name # NoStr => GivesName(u, IndexOf(e), e.name)
  BY <1>1 DEF GivesId, GivesName
<1> QED
  BY <1>2, <1>3 DEF u

\* An entry is of a call.
LEMMA EntryIndex ==
    ASSUME NEW e \in ToolEntry
    PROVE  IndexOf(e) \in ToolIdx
  BY LinesAssumption DEF IndexOf, ToolEntry

\* An entry handled gives its call an id and a name.
LEMMA ToolCallIdentity ==
    ASSUME IInv, IdentityInv, ToolCall
    PROVE  IdentityInv'
<1>0. PICK t \in ToolIdx, e \in ToolEntry : t = Caller /\ e = Head(rest) /\ rest # <<>>
  <2>1. rest \in Seq(ToolEntry) /\ rest # <<>>
    BY DEF IInv, TypeOK, ToolCall
  <2> QED
    BY <2>1, ToolCallOutcome
<1>1. /\ TypeOK /\ pc = "tools" /\ pc' = "tools" /\ seen' = seen
      /\ rest' = Tail(rest) /\ rest' \in Seq(ToolEntry) /\ rest = <<e>> \o rest'
      /\ IndexOf(e) = t
  <2>1. rest \in Seq(ToolEntry) /\ rest' = Tail(rest)
    BY DEF IInv, TypeOK, ToolCall
  <2>2. rest = <<Head(rest)>> \o Tail(rest)
    BY <1>0, <2>1
  <2> QED
    BY <1>0, <2>1, <2>2 DEF IInv, ToolCall, Caller
<1>2. EntriesLeft = rest /\ EntriesLeft' = rest'
  <2>1. (pc = "tools" => EntriesLeft = rest)'
    BY EntriesLeftByStage, PTL
  <2> QED
    BY <1>1, <2>1, EntriesLeftByStage
<1>3. PICK h \in Seq(ToolEntry) : h \o EntriesLeft = Entries /\ Identified(h)
  BY Zenon DEF IdentityInv
<1> DEFINE u == Append(h, e)
<1>4. u \in Seq(ToolEntry) /\ u \o EntriesLeft' = Entries'
  <2>0. \A sp, z \in Seq(ToolEntry) : \A r \in ToolEntry :
          sp \o (<<r>> \o z) = Append(sp, r) \o z /\ Append(sp, r) \in Seq(ToolEntry)
    BY OneMoreOf, Zenon
  <2>1. h \o (<<e>> \o rest') = u \o rest' /\ u \in Seq(ToolEntry)
    BY <1>1, <2>0
  <2> QED
    BY <1>1, <1>2, <1>3, <2>1, RanksSame
<1>5. PICK x \in ToolCallType :
        /\ toolCalls' = [toolCalls EXCEPT ![t] = x]
        /\ x.id = Known.id /\ x.name = Known.name
        /\ Buffers(x) \/ SendsOn(x) \/ Begins(x)
  BY <1>0, ToolCallOutcome
<1>6. /\ toolCalls'[t] = x
      /\ \A s \in ToolIdx : s # t => toolCalls'[s] = toolCalls[s]
  BY <1>5, <1>0, CallsChange
<1>7. /\ x.id = IF e.id = NoStr THEN toolCalls[t].id ELSE e.id
      /\ x.name = IF e.name = NoStr THEN toolCalls[t].name ELSE e.name
      /\ Known.started = toolCalls[t].started
  <2>1. toolCalls[t] \in ToolCallType
    BY <1>1 DEF TypeOK
  <2> QED
    BY <1>0, <1>5, <2>1 DEF Known, Accumulate, ToolCallType
<1>8. /\ \A s, v : GivesId(h, s, v) => GivesId(u, s, v)
      /\ \A s, v : GivesName(h, s, v) => GivesName(u, s, v)
      /\ e.id # NoStr => GivesId(u, t, e.id)
      /\ e.name # NoStr => GivesName(u, t, e.name)
  BY <1>1, GivesMore
<1>9. ASSUME NEW k \in DOMAIN u
      PROVE  /\ u[k].id # NoStr => toolCalls'[IndexOf(u[k])].id # NoStr
             /\ u[k].name # NoStr => toolCalls'[IndexOf(u[k])].name # NoStr
  <2>1. (k \in DOMAIN h /\ u[k] = h[k]) \/ u[k] = e
    BY AppendedElements
  <2>2. CASE u[k] = e
    BY <1>1, <1>6, <1>7, <2>2
  <2>3. CASE k \in DOMAIN h /\ u[k] = h[k]
    <3>1. /\ u[k].id # NoStr => toolCalls[IndexOf(u[k])].id # NoStr
          /\ u[k].name # NoStr => toolCalls[IndexOf(u[k])].name # NoStr
      BY <1>3, <2>3 DEF Identified
    <3>2. IndexOf(u[k]) \in ToolIdx
      <4>1. u[k] \in ToolEntry
        BY <2>3
      <4> QED
        BY <4>1, EntryIndex
    <3> QED
      BY <1>6, <1>7, <3>1, <3>2
  <2> QED
    BY <2>1, <2>2, <2>3
<1> HIDE DEF u
<1>10. ASSUME NEW s \in ToolIdx
       PROVE  /\ toolCalls'[s].id # NoStr => GivesId(u, s, toolCalls'[s].id)
              /\ toolCalls'[s].name # NoStr => GivesName(u, s, toolCalls'[s].name)
  <2>1. /\ toolCalls[s].id # NoStr => GivesId(u, s, toolCalls[s].id)
        /\ toolCalls[s].name # NoStr => GivesName(u, s, toolCalls[s].name)
    BY <1>3, <1>8 DEF Identified
  <2> QED
    BY <1>6, <1>7, <1>8, <2>1
<1>11. ASSUME NEW s \in ToolIdx
       PROVE  toolCalls'[s].started \/ ~CanStart(toolCalls'[s])
  <2>1. toolCalls[s].started \/ ~CanStart(toolCalls[s])
    BY <1>3 DEF Identified
  <2>2. x.started \/ ~CanStart(x)
    <3>1. CASE Buffers(x)
      BY <1>0, <1>5, <1>7, <3>1 DEF Buffers, CanStart
    <3>2. CASE SendsOn(x) \/ Begins(x)
      BY <3>2 DEF SendsOn, Begins
    <3> QED
      BY <1>5, <3>1, <3>2
  <2> QED
    BY <1>6, <2>1, <2>2
<1>12. ASSUME NEW i \in 0..contentBlockIndex', content'[i].type = "tool_use"
       PROVE  /\ GivesId(u, content'[i].call, content'[i].id)
              /\ GivesName(u, content'[i].call, content'[i].name)
  <2>1. \A j \in 0..contentBlockIndex : content[j].type = "tool_use" =>
          /\ GivesId(u, content[j].call, content[j].id)
          /\ GivesName(u, content[j].call, content[j].name)
    BY <1>3, <1>8 DEF Identified
  <2>2. ASSUME CallBlocksKept
        PROVE  /\ GivesId(u, content'[i].call, content'[i].id)
               /\ GivesName(u, content'[i].call, content'[i].name)
    BY <1>12, <2>1, <2>2 DEF CallBlocksKept, SameBlock
  <2>3. CASE Buffers(x)
    BY <2>2, <2>3, SameKeepsCalls DEF Buffers
  <2>4. CASE SendsOn(x)
    BY <1>1, <2>2, <2>4, ExtendsKeepsCalls DEF SendsOn
  <2>5. CASE Begins(x)
    <3>1. PICK b : /\ Opens(b) /\ b.type = "tool_use" /\ b.call = t
                   /\ b.id = x.id /\ b.name = x.name
      BY <1>0, <1>5, <2>5 DEF Begins
    <3>2. x.id # NoStr /\ x.name # NoStr
      BY <1>5, <2>5 DEF Begins, CanStart
    <3>3. GivesId(u, t, x.id) /\ GivesName(u, t, x.name)
      BY <1>6, <1>10, <3>2
    <3>4. CASE i = contentBlockIndex + 1
      BY <1>1, <3>1, <3>3, <3>4, OpensChange
    <3>5. CASE i # contentBlockIndex + 1
      <4>1. i \in 0..contentBlockIndex /\ SameBlock(content'[i], content[i])
        BY <1>1, <3>1, <3>5, OpensChange
      <4> QED
        BY <1>12, <2>1, <4>1 DEF SameBlock
    <3> QED
      BY <3>4, <3>5
  <2> QED
    BY <1>5, <2>3, <2>4, <2>5
<1>13. Identified(u)'
  BY <1>9, <1>10, <1>11, <1>12, Zenon DEF Identified, GivesId, GivesName, CanStart
<1> QED
  BY <1>4, <1>13, Zenon DEF IdentityInv

\* Before the first line nothing is identified.
LEMMA InitIdentity ==
    ASSUME Init
    PROVE  IdentityInv
<1>1. /\ seen = <<>> /\ contentBlockIndex = -1 /\ pc = "loop"
      /\ toolCalls = [t \in ToolIdx |-> NewToolCall]
  BY DEF Init
<1>2. seen \in Seq(Lines) /\ <<>> \in Seq(ToolEntry) /\ <<>> \o <<>> = <<>>
  BY <1>1
<1>3. Entries = <<>>
  BY <1>1, <1>2, SaidRanksMaps, FlatMapEmpty, Zenon
<1>4. EntriesLeft = <<>>
  BY <1>1, EntriesLeftByStage
<1>5. Identified(<<>>)
  BY <1>1 DEF Identified, NewToolCall, CanStart
<1> QED
  BY <1>2, <1>3, <1>4, <1>5, Zenon DEF IdentityInv

\* Every step keeps what is identified.
LEMMA StepIdentity ==
    ASSUME IInv, DeltaStages, IdentityInv, [Next]_vars
    PROVE  IdentityInv'
<1> USE DEF callVars
<1>1. TypeOK
  BY DEF IInv
<1>2. ASSUME UNCHANGED <<blockVars, toolCalls, seen>>, EntriesLeft' = EntriesLeft
      PROVE  IdentityInv'
  BY <1>2, SameKeepsCalls, SilentIdentity
<1>3. /\ pc \notin {"line", "reasoning", "text", "tools"} => EntriesLeft = <<>>
      /\ pc' \notin {"line", "reasoning", "text", "tools"} => EntriesLeft' = <<>>
  <2>1. (pc \notin {"line", "reasoning", "text", "tools"} => EntriesLeft = <<>>)'
    BY EntriesLeftByStage, PTL
  <2> QED
    BY <2>1, EntriesLeftByStage
<1>4. ASSUME pc = "line", ~HasDelta(line)
      PROVE  EntriesLeft = <<>>
  BY <1>4, EntriesLeftByStage
<1>5. /\ pc' \in {"reasoning", "text"} => EntriesLeft' = line'.tools
      /\ pc' = "tools" => EntriesLeft' = rest'
  <2>1. (/\ pc \in {"reasoning", "text"} => EntriesLeft = line.tools
         /\ pc = "tools" => EntriesLeft = rest)'
    BY EntriesLeftByStage, PTL
  <2> QED
    BY <2>1
<1>6. seen' = seen => line' = line
  BY DEF line
<1>7. CASE UNCHANGED vars
  <2>1. EntriesLeft' = EntriesLeft
    <3>1. line' = line /\ rest' = rest /\ pc' = pc
      BY <1>6, <1>7 DEF vars
    <3> QED
      BY <3>1, Zenon DEF EntriesLeft, TextAhead, ReasoningAhead, HasDelta
  <2> QED
    BY <1>2, <1>7, <2>1 DEF vars
<1>8. CASE \E l \in Lines : ReceiveLine(l)
  BY <1>8, ReceiveIdentity
<1>9. CASE StillConnected \/ Disconnect \/ EndOfStream \/ ReadError \/ Stall \/ ReturnOnAbort
  BY <1>2, <1>3, <1>9
  DEF StillConnected, Disconnect, EndOfStream, ReadError, Stall, ReturnOnAbort
<1>10. CASE SkipLine \/ Done \/ ErrorFrame
  BY <1>2, <1>3, <1>4, <1>10 DEF SkipLine, Done, ErrorFrame, HasDelta
<1>11. CASE Chunk
  <2>1. EntriesLeft' = EntriesLeft
    <3>1. CASE ~line.delta
      BY <1>3, <1>4, <1>11, <3>1 DEF Chunk, HasDelta
    <3>2. CASE line.delta
      <4>1. pc = "line" /\ pc' = "reasoning" /\ line' = line /\ HasDelta(line)
        BY <1>6, <1>11, <3>2 DEF Chunk, HasDelta
      <4> QED
        BY <1>5, <4>1, EntriesLeftByStage
    <3> QED
      BY <3>1, <3>2
  <2> QED
    BY <1>2, <1>11, <2>1 DEF Chunk
<1>12. CASE Reasoning
  <2>1. /\ pc = "reasoning" /\ pc' = "text" /\ line' = line
        /\ seen' = seen /\ toolCalls' = toolCalls
    BY <1>6, <1>12 DEF Reasoning
  <2>2. CallBlocksKept
    <3>1. ASSUME NEW b, Opens(b), b.type = "thinking" PROVE CallBlocksKept
      BY <1>1, <3>1, OpensKeepsCalls
    <3> QED
      BY <1>1, <1>12, <3>1, ReasoningOnBlocks, ExtendsKeepsCalls, SameKeepsCalls
  <2> QED
    BY <1>5, <2>1, <2>2, EntriesLeftByStage, SilentIdentity
<1>13. CASE Text
  <2>1. /\ pc = "text" /\ pc' = "tools" /\ line' = line /\ rest' = line.tools
        /\ seen' = seen /\ toolCalls' = toolCalls
    BY <1>6, <1>13 DEF Text
  <2>2. CallBlocksKept
    <3>1. ASSUME NEW b, Opens(b), b.type = "text" PROVE CallBlocksKept
      BY <1>1, <3>1, OpensKeepsCalls
    <3> QED
      BY <1>1, <1>13, <3>1, TextOnBlocks, ExtendsKeepsCalls, SameKeepsCalls
  <2> QED
    BY <1>5, <2>1, <2>2, EntriesLeftByStage, SilentIdentity
<1>14. CASE Finish
  <2>1. EntriesLeft = <<>>
    BY <1>14, EntriesLeftByStage DEF Finish
  <2> QED
    BY <1>2, <1>3, <1>14, <2>1 DEF Finish
<1>15. CASE GuaranteeBlock
  <2>1. /\ pc = "after" /\ pc' = "epilogue" /\ seen' = seen /\ toolCalls' = toolCalls
    BY <1>15 DEF GuaranteeBlock
  <2>2. CallBlocksKept
    <3>1. CASE contentBlockIndex # -1
      BY <1>15, <3>1, SameKeepsCalls DEF GuaranteeBlock, blockVars
    <3>2. CASE contentBlockIndex = -1
      <4> DEFINE b == Block("text", NoCall, NoStr, NoStr)
      <4>1. b \in BlockType /\ b.stops = 0 /\ b.deltas = <<>> /\ b.type = "text"
        BY DEF Block, BlockType
      <4>2. contentBlockIndex' = contentBlockIndex + 1 /\ content' = openBlock(content, b)
        BY <1>15, <3>2 DEF GuaranteeBlock
      <4> HIDE DEF b
      <4> QED
        BY <1>1, <4>1, <4>2, OpensBare, OpensKeepsCalls
    <3> QED
      BY <3>1, <3>2
  <2> QED
    BY <1>3, <2>1, <2>2, SilentIdentity
<1>16. CASE Epilogue
  <2>1. /\ pc = "epilogue" /\ pc' = "returned" /\ seen' = seen /\ toolCalls' = toolCalls
    BY <1>16 DEF Epilogue
  <2>2. CallBlocksKept
    BY <1>1, <1>16, EpilogueChange DEF CallBlocksKept
  <2> QED
    BY <1>3, <2>1, <2>2, SilentIdentity
<1> QED
  BY <1>7, <1>8, <1>9, <1>10, <1>11, <1>12, <1>13, <1>14, <1>15, <1>16, ToolCallIdentity
  DEF Next, FromOutside, ProcessLine, AfterLoop, Returned

-----------------------------------------------------------------------------
(***************************************************************************)
(* The calls in order.                                                     *)
(***************************************************************************)

\* The numbers of a set in their order, by CHOOSE.
Listing(S) ==
    CHOOSE order \in [1..Cardinality(S) -> S] :
        \A i, j \in DOMAIN order : i < j => order[i] < order[j]

\* If the elements of a set can be listed in order, then the list that is chosen
\* has them all.
LEMMA ChosenOrder ==
    ASSUME NEW S \in SUBSET Nat, NEW k \in Nat, NEW f \in [1..k -> S], Increasing(f, k),
           \A x \in S : \E i \in 1..k : f[i] = x
    PROVE  /\ Listing(S) \in [1..k -> S] /\ Increasing(Listing(S), k)
           /\ \A x \in S : \E i \in 1..k : Listing(S)[i] = x
<1> DEFINE o == Listing(S)
<1> HIDE DEF o
<1>1. \A g \in [1..k -> S] : Increasing(g, k) => g \in Injection(1..k, S)
  <2> SUFFICES ASSUME NEW g \in [1..k -> S], Increasing(g, k),
                      NEW a \in 1..k, NEW b \in 1..k, g[a] = g[b]
               PROVE  a = b
    BY DEF Injection, IsInjective
  <2>1. a < b \/ b < a \/ a = b
    OBVIOUS
  <2>2. g[a] \in Nat
    <3>1. g[a] \in S
      OBVIOUS
    <3> QED
      BY <3>1
  <2> QED
    BY <2>1, <2>2 DEF Increasing
<1>2. f \in Surjection(1..k, S)
  BY DEF Surjection
<1>3. Cardinality(S) = k /\ IsFiniteSet(S)
  <2>1. ExistsBijection(1..k, S)
    BY <1>1, <1>2 DEF ExistsBijection, Bijection
  <2> QED
    BY <2>1, FS_CountingElements, FS_NatBijection
<1>4. o \in [1..k -> S] /\ Increasing(o, k)
  <2> DEFINE Listed(g) == \A i, j \in DOMAIN g : i < j => g[i] < g[j]
  <2>1. \A g \in [1..k -> S] : Listed(g) <=> Increasing(g, k)
    BY DEF Increasing
  <2>2. o = CHOOSE order \in [1..k -> S] : Listed(order)
    BY <1>3, Zenon DEF o, Listing
  <2> HIDE DEF Listed
  <2>3. Listed(f)
    BY <2>1
  <2>4. o \in [1..k -> S] /\ Listed(o)
    BY <2>2, <2>3
  <2> QED
    BY <2>1, <2>4
<1>5. o \in Surjection(1..k, S)
  <2>1. IsFiniteSet(1..k) /\ Cardinality(1..k) = k
    BY FS_Interval
  <2> QED
    BY <1>1, <1>3, <1>4, <2>1, FS_Injection
<1> QED
  BY <1>4, <1>5 DEF Surjection, o

-----------------------------------------------------------------------------
(***************************************************************************)
(* When the message is complete.                                           *)
(***************************************************************************)

\* What holds then.
Ended ==
    /\ IInv /\ DeliveryInv /\ ReportInv
    /\ ShapeInv /\ OrderInv /\ IdentityInv
    /\ ending = "complete" /\ final.stopReason # "error" /\ OrderlyUpstream

\* The arguments sent for a call are those in its entries.
LEMMA SentArgsInEntries ==
    ASSUME seen \in Seq(Lines), NEW t
    PROVE  SentArgs(t) = ArgsIn(t, Entries)
<1>1. /\ EntriesIn \in [Lines -> Seq(ToolEntry)]
      /\ ArgsFor(t) \in [ToolEntry -> Seq(Frags)]
      /\ ArgsOfIn(t) \in [Lines -> Seq(Frags)]
  BY LineMaps, ArgsForType, LineParts
<1>2. ASSUME NEW l \in Lines
      PROVE  ArgsOfIn(t)[l] = FlatMap(ArgsFor(t), EntriesIn[l])
  <2>1. l.tools \in Seq(ToolEntry)
    BY LinesAssumption DEF Line
  <2>2. CASE HasDelta(l)
    <3>1. ArgsOfIn(t)[l] = ArgsIn(t, l.tools) /\ EntriesIn[l] = l.tools
      BY <2>2 DEF ArgsOfIn, ArgsOf, EntriesIn
    <3> QED
      BY <2>1, <3>1, ArgsInMaps
  <2>3. CASE ~HasDelta(l)
    <3>1. ArgsOfIn(t)[l] = <<>> /\ EntriesIn[l] = <<>>
      BY <2>3 DEF ArgsOfIn, EntriesIn
    <3> QED
      BY <3>1, FlatMapEmpty
  <2> QED
    BY <2>2, <2>3
<1>3. Composes(ArgsOfIn(t), ArgsFor(t), EntriesIn, Lines)
  BY <1>1, <1>2, FlatMapCompose
<1>4. FlatMap(ArgsFor(t), FlatMap(EntriesIn, seen)) = FlatMap(ArgsOfIn(t), seen)
  BY <1>3 DEF Composes
<1>5. ArgsIn(t, Entries) = FlatMap(ArgsFor(t), Entries)
  BY SaidRanksMaps, ArgsInMaps
<1> QED
  BY <1>4, <1>5, SaidRanksMaps, SentMaps

\* Everything was handled and sent.
LEMMA EndedFacts ==
    ASSUME Ended
    PROVE  /\ contentBlockIndex \in Nat /\ content \in [0..contentBlockIndex -> BlockType]
           /\ seen \in Seq(Lines) /\ Entries \in Seq(ToolEntry)
           /\ pc = "returned"
           /\ BlocksInOrder(SaidRanks)
           /\ Identified(Entries)
           /\ Delivered("thinking_delta", NoCall) = SentReasoning
           /\ Delivered("text_delta", NoCall) = SentText
           /\ \A t \in ToolIdx : toolCalls[t].started =>
                Delivered("input_json_delta", t) = ArgsIn(t, Entries)
<1>1. TypeOK /\ seen \in Seq(Lines) /\ pc = "returned"
  BY DEF Ended, IInv, TypeOK, EndingMatchesStage
<1>2. contentBlockIndex \in Nat /\ content \in [0..contentBlockIndex -> BlockType]
  BY DEF Ended, IInv, TypeOK, StopsMatched
<1>3. Entries \in Seq(ToolEntry) /\ SaidRanks \in Seq(Int)
  BY <1>1, SaidRanksMaps
<1>4. RanksLeft = <<>> /\ EntriesLeft = <<>> /\ ReasoningLeft = <<>> /\ TextLeft = <<>>
  BY <1>1, RanksLeftByStage, NothingLeft
<1>5. BlocksInOrder(SaidRanks)
  <2>1. InOrder(SaidRanks)
    BY Zenon DEF Ended, OrderlyUpstream, SaidRanks, InOrder
  <2>2. PICK spoken \in Seq(Int) : /\ spoken \o RanksLeft = SaidRanks
                                   /\ InOrder(SaidRanks) => BlocksInOrder(spoken)
    BY Zenon DEF Ended, OrderInv
  <2>3. spoken \o <<>> = spoken
    OBVIOUS
  <2> QED
    BY <1>4, <2>1, <2>2, <2>3, Zenon
<1>6. Identified(Entries)
  <2>1. PICK h \in Seq(ToolEntry) : h \o EntriesLeft = Entries /\ Identified(h)
    BY Zenon DEF Ended, IdentityInv
  <2>2. h \o <<>> = h
    OBVIOUS
  <2> QED
    BY <1>4, <2>1, <2>2, Zenon
<1>7. /\ Delivered("thinking_delta", NoCall) = SentReasoning
      /\ Delivered("text_delta", NoCall) = SentText
  <2> DEFINE x == Delivered("thinking_delta", NoCall)
             y == Delivered("text_delta", NoCall)
  <2>1. x \in Seq(Frags) /\ y \in Seq(Frags)
    BY <1>1, DeliveredType
  <2>2. x \o <<>> = SentReasoning /\ y \o <<>> = SentText
    BY <1>4, Zenon DEF Ended, DeliveryInv
  <2> HIDE DEF x, y
  <2>3. x \o <<>> = x /\ y \o <<>> = y
    BY <2>1
  <2> QED
    BY <2>2, <2>3 DEF x, y
<1>8. ASSUME NEW t \in ToolIdx, toolCalls[t].started
      PROVE  Delivered("input_json_delta", t) = ArgsIn(t, Entries)
  <2> DEFINE x == Delivered("input_json_delta", t)
  <2>1. x \in Seq(Frags)
    BY <1>1, DeliveredType
  <2>2. x \o (toolCalls[t].args \o ArgsIn(t, EntriesLeft)) = SentArgs(t)
        /\ toolCalls[t].args = <<>>
    BY <1>8, Zenon DEF Ended, DeliveryInv
  <2>3. ArgsIn(t, EntriesLeft) = <<>>
    BY <1>4, ArgsInEmpty, Zenon
  <2> HIDE DEF x
  <2>4. x \o (<<>> \o <<>>) = x
    BY <2>1
  <2> QED
    BY <1>1, <2>2, <2>3, <2>4, SentArgsInEntries, Zenon DEF x
<1> QED
  BY <1>1, <1>2, <1>3, <1>5, <1>6, <1>7, <1>8

-----------------------------------------------------------------------------
(***************************************************************************)
(* What a block has is what was delivered of its kind.                     *)
(***************************************************************************)

\* What was delivered of a kind, block by block.
LEMMA DeliveredByBlock ==
    ASSUME TypeOK, contentBlockIndex \in Nat, NEW type, NEW call,
           NEW m, m = [j \in 1..(contentBlockIndex + 1) |->
                         DataOf(content[j - 1].deltas, type, call)]
    PROVE  m \in Seq(Seq(Frags)) /\ Delivered(type, call) = FlattenSeq(m)
<1> DEFINE n == contentBlockIndex
           S == Seq(DeltaType)
           D == [j \in 1..(n + 1) |-> content[j - 1].deltas]
           h == Carried(type, call)
           same == [x \in S |-> x]
           each == [x \in S |-> FlatMap(h, x)]
<1>1. \A j \in 1..(n + 1) : content[j - 1].deltas \in S
  <2> SUFFICES ASSUME NEW j \in 1..(n + 1) PROVE content[j - 1].deltas \in S
    OBVIOUS
  <2>1. j - 1 \in 0..n
    OBVIOUS
  <2>2. content[j - 1] \in BlockType
    BY <2>1 DEF TypeOK
  <2> QED
    BY <2>2 DEF BlockType
<1>2. D \in Seq(S) /\ DOMAIN D = 1..(n + 1) /\ \A j \in 1..(n + 1) : D[j] = content[j - 1].deltas
  BY <1>1
<1>3. h \in [DeltaType -> Seq(Frags)]
  BY CarriedType
<1>4. AllDeltas = FlattenSeq(D)
  BY Zenon DEF AllDeltas
<1> HIDE DEF S, D, h, same, each
<1>5. same \in [S -> Seq(DeltaType)] /\ \A x \in S : same[x] = x
  BY DEF same, S
<1>6. each \in [S -> Seq(Frags)] /\ \A x \in S : each[x] = FlatMap(h, x)
  BY <1>3, FlatMapType DEF each, S
<1>7. Mapped(same, D) = D
  <2>1. \A j \in DOMAIN D : same[D[j]] = D[j]
    BY <1>2, <1>5
  <2>2. D = [j \in DOMAIN D |-> D[j]]
    BY <1>2 DEF S
  <2> QED
    BY <2>1, <2>2 DEF Mapped
<1>8. Delivered(type, call) = FlatMap(h, AllDeltas)
  BY AllDeltasType, DataOfMaps DEF Delivered, h
<1>9. FlatMap(h, FlatMap(same, D)) = FlatMap(each, D)
  <2>1. \A x \in S : each[x] = FlatMap(h, same[x])
    BY <1>5, <1>6
  <2>2. Composes(each, h, same, S)
    BY <1>3, <1>5, <1>6, <2>1, FlatMapCompose
  <2> QED
    BY <1>2, <2>2 DEF Composes
<1>10. Mapped(each, D) = m
  <2>1. \A j \in 1..(n + 1) : each[D[j]] = DataOf(content[j - 1].deltas, type, call)
    BY <1>1, <1>2, <1>6, DataOfMaps DEF h, S
  <2> QED
    BY <1>2, <2>1 DEF Mapped
<1>11. Mapped(each, D) \in Seq(Seq(Frags))
  BY <1>2, <1>6, MappedType
<1>12. FlatMap(same, D) = AllDeltas /\ FlatMap(each, D) = FlattenSeq(m)
  BY <1>4, <1>7, <1>10, Zenon DEF FlatMap
<1> QED
  BY <1>8, <1>9, <1>10, <1>11, <1>12, Zenon

\* Deltas that are not of a kind have no data of it.
LEMMA NoDataOf ==
    ASSUME NEW ds \in Seq(DeltaType), NEW type, NEW call,
           \A k \in DOMAIN ds : ~(ds[k].type = type /\ ds[k].call = call)
    PROVE  DataOf(ds, type, call) = <<>>
<1> DEFINE S == {d \in DeltaType : ~(d.type = type /\ d.call = call)}
<1>1. ds \in Seq(S)
  OBVIOUS
<1>2. \A d \in S : Carried(type, call)[d] = <<>>
  BY DEF Carried
<1> HIDE DEF S
<1>3. FlatMap(Carried(type, call), ds) = <<>>
  BY <1>1, <1>2, FlatMapNothing
<1> QED
  BY <1>3, DataOfMaps

\* Those that all are have only data of it.
LEMMA AllDataOf ==
    ASSUME NEW ds \in Seq(DeltaType), NEW type, NEW call,
           \A k \in DOMAIN ds : ds[k].type = type /\ ds[k].call = call
    PROVE  DataOf(ds, type, call) = FlattenSeq([k \in DOMAIN ds |-> ds[k].data])
<1>1. [k \in DOMAIN ds |-> IF ds[k].type = type /\ ds[k].call = call THEN ds[k].data ELSE <<>>]
        = [k \in DOMAIN ds |-> ds[k].data]
  OBVIOUS
<1> QED
  BY <1>1, Zenon DEF DataOf

\* The kind of data of a block.
DataType(b) ==
    CASE b.type = "thinking" -> "thinking_delta"
      [] b.type = "text"     -> "text_delta"
      [] OTHER               -> "input_json_delta"
DataCall(b) == IF b.type = "tool_use" THEN b.call ELSE NoCall

\* The deltas of a block are of this kind.
LEMMA DeltasOfKind ==
    ASSUME Ended, NEW i \in 0..contentBlockIndex
    PROVE  /\ content[i].deltas \in Seq(DeltaType)
           /\ \A k \in DOMAIN content[i].deltas :
                /\ content[i].deltas[k].type = DataType(content[i])
                /\ content[i].deltas[k].call = DataCall(content[i])
<1>1. content[i] \in BlockType /\ DOMAIN content = 0..contentBlockIndex /\ i \in DOMAIN content
  BY EndedFacts
<1>2. content[i].deltas \in Seq(DeltaType) /\ content[i].type \in {"thinking", "text", "tool_use"}
  BY <1>1 DEF BlockType
<1>3. ASSUME NEW k \in DOMAIN content[i].deltas
      PROVE  /\ content[i].deltas[k].type = DataType(content[i])
             /\ content[i].deltas[k].call = DataCall(content[i])
  <2> DEFINE d == content[i].deltas[k]
  <2>1. d.type \in {"thinking_delta", "text_delta", "input_json_delta"}
    <3>1. d \in DeltaType
      BY <1>2
    <3> QED
      BY <3>1 DEF DeltaType
  <2>2. /\ d.type = "thinking_delta" => content[i].type = "thinking"
        /\ d.type = "text_delta" => content[i].type = "text"
    BY <1>1 DEF Ended, IInv, DeltasInTheirBlock
  <2>3. d.type = "input_json_delta" => content[i].type = "tool_use" /\ content[i].call = d.call
    BY <1>1, EndedFacts DEF BlocksInOrder, ToolArgsInPlace
  <2>4. d.type # "input_json_delta" => d.call = NoCall
    BY DEF Ended, ShapeInv, ForNoCall
  <2> HIDE DEF d
  <2>5. d.type = DataType(content[i]) /\ d.call = DataCall(content[i])
    BY <2>1, <2>2, <2>3, <2>4 DEF DataType, DataCall
  <2> QED
    BY <2>5 DEF d
<1> QED
  BY <1>2, <1>3

\* No two blocks are of the same kind.
LEMMA KindsDiffer ==
    ASSUME Ended, NEW i \in 0..contentBlockIndex, NEW j \in 0..contentBlockIndex, i # j
    PROVE  ~(DataType(content[i]) = DataType(content[j])
              /\ DataCall(content[i]) = DataCall(content[j]))
<1>1. IInv /\ BlocksInOrder(SaidRanks) /\ contentBlockIndex \in Nat
  BY EndedFacts DEF Ended
<1>2. Rank(content[i]) # Rank(content[j])
  <2>1. i < j \/ j < i
    BY <1>1
  <2>2. Rank(content[i]) \in Int /\ Rank(content[j]) \in Int
    BY <1>1, RankTells
  <2> QED
    BY <1>1, <2>1, <2>2 DEF BlocksInOrder
<1>3. /\ content[i].type \in {"thinking", "text", "tool_use"}
      /\ content[j].type \in {"thinking", "text", "tool_use"}
  BY <1>1, RankTells
<1> QED
  BY <1>2, <1>3 DEF DataType, DataCall, Rank

\* So the data of a block are those delivered of its kind.
LEMMA BlockData ==
    ASSUME Ended, NEW i \in 0..contentBlockIndex
    PROVE  FlattenSeq([k \in DOMAIN content[i].deltas |-> content[i].deltas[k].data])
             = Delivered(DataType(content[i]), DataCall(content[i]))
<1> DEFINE n == contentBlockIndex
           type == DataType(content[i])
           call == DataCall(content[i])
           m == [j \in 1..(n + 1) |-> DataOf(content[j - 1].deltas, type, call)]
<1>1. TypeOK /\ n \in Nat
  BY EndedFacts DEF Ended, IInv
<1>2. m \in Seq(Seq(Frags)) /\ Delivered(type, call) = FlattenSeq(m)
  BY <1>1, DeliveredByBlock
<1>3. ASSUME NEW j \in 1..(n + 1), j # i + 1
      PROVE  m[j] = <<>>
  <2>1. j - 1 \in 0..n /\ j - 1 # i
    BY <1>1, <1>3
  <2>2. DataOf(content[j - 1].deltas, type, call) = <<>>
    BY <2>1, DeltasOfKind, KindsDiffer, NoDataOf
  <2> QED
    BY <2>2
<1>4. m[i + 1] = FlattenSeq([k \in DOMAIN content[i].deltas |-> content[i].deltas[k].data])
  <2>1. i + 1 \in 1..(n + 1) /\ (i + 1) - 1 = i
    BY <1>1
  <2>2. m[i + 1] = DataOf(content[i].deltas, type, call)
    BY <2>1
  <2>3. DataOf(content[i].deltas, type, call)
          = FlattenSeq([k \in DOMAIN content[i].deltas |-> content[i].deltas[k].data])
    BY DeltasOfKind, AllDataOf
  <2> QED
    BY <2>2, <2>3
<1>5. i + 1 \in DOMAIN m /\ Only(m, i + 1)
  BY <1>1, <1>3 DEF Only
<1> HIDE DEF m, type, call
<1>6. FlattenSeq(m) = m[i + 1]
  BY <1>2, <1>5, FlattenOnly
<1> QED
  BY <1>2, <1>4, <1>6 DEF type, call

\* What was delivered of a kind was so in a block of that kind.
LEMMA DeliveredHasBlock ==
    ASSUME Ended, NEW type, NEW call, Delivered(type, call) # <<>>
    PROVE  \E i \in 0..contentBlockIndex :
             DataType(content[i]) = type /\ DataCall(content[i]) = call
<1> DEFINE n == contentBlockIndex
           m == [j \in 1..(n + 1) |-> DataOf(content[j - 1].deltas, type, call)]
<1>1. TypeOK /\ n \in Nat
  BY EndedFacts DEF Ended, IInv
<1>2. m \in Seq(Seq(Frags)) /\ Delivered(type, call) = FlattenSeq(m)
  BY <1>1, DeliveredByBlock
<1>3. PICK j \in 1..(n + 1) : m[j] # <<>>
  <2>1. DOMAIN m = 1..(n + 1)
    OBVIOUS
  <2> HIDE DEF m
  <2>2. \E j \in DOMAIN m : m[j] # <<>>
    BY <1>2, FlattenOnly
  <2> QED
    BY <2>1, <2>2
<1>4. PICK i \in 0..n : i = j - 1
  BY <1>1
<1>5. DataOf(content[i].deltas, type, call) # <<>>
  BY <1>3, <1>4
<1>6. PICK k \in DOMAIN content[i].deltas :
        content[i].deltas[k].type = type /\ content[i].deltas[k].call = call
  BY <1>5, DeltasOfKind, NoDataOf
<1> QED
  BY <1>6, DeltasOfKind

\* Something was delivered of the kind of a block that has data.
LEMMA BlockDelivers ==
    ASSUME Ended, NEW i \in 0..contentBlockIndex, content[i].type # "tool_use",
           HasData(content[i])
    PROVE  Delivered(DataType(content[i]), DataCall(content[i])) # <<>>
<1> DEFINE ds == content[i].deltas
           m == [k \in DOMAIN ds |-> ds[k].data]
<1>1. ds \in Seq(DeltaType)
  BY DeltasOfKind
<1> HIDE DEF ds
<1>2. \A k \in DOMAIN ds : ds[k].data \in Seq(Frags)
  <2> SUFFICES ASSUME NEW k \in DOMAIN ds PROVE ds[k].data \in Seq(Frags)
    OBVIOUS
  <2>1. ds[k] \in DeltaType
    BY <1>1
  <2> QED
    BY <2>1 DEF DeltaType
<1>3. m \in Seq(Seq(Frags)) /\ DOMAIN m = DOMAIN ds
  BY <1>1, <1>2
<1>4. PICK k \in DOMAIN ds : ds[k].data # <<>>
  BY DEF HasData, ds
<1>5. k \in DOMAIN m /\ m[k] # <<>>
  BY <1>4
<1>6. FlattenSeq(m) = Delivered(DataType(content[i]), DataCall(content[i]))
  BY BlockData DEF ds
<1> HIDE DEF m
<1>7. FlattenSeq(m) # <<>>
  BY <1>3, <1>5, FlattenOnly
<1> QED
  BY <1>6, <1>7

-----------------------------------------------------------------------------
(***************************************************************************)
(* Calls and their blocks.                                                 *)
(***************************************************************************)

\* A call with an id and a name was given them by entries.
LEMMA CallGiven ==
    ASSUME NEW t
    PROVE  /\ CallOf(t).id # NoStr =>
                \E k \in DOMAIN Entries : IndexOf(Entries[k]) = t /\ Entries[k].id # NoStr
           /\ CallOf(t).name # NoStr =>
                \E k \in DOMAIN Entries : IndexOf(Entries[k]) = t /\ Entries[k].name # NoStr
<1> DEFINE ids == [k \in DOMAIN Entries |-> IF IndexOf(Entries[k]) = t THEN Entries[k].id ELSE NoStr]
           names == [k \in DOMAIN Entries |->
                       IF IndexOf(Entries[k]) = t THEN Entries[k].name ELSE NoStr]
<1>1. CallOf(t).id = LastGiven(ids, NoStr, NoStr) /\ CallOf(t).name = LastGiven(names, NoStr, NoStr)
  BY DEF CallOf, Says
<1>2. CallOf(t).id # NoStr => \E k \in DOMAIN ids : ids[k] # NoStr
  <2> HIDE DEF ids
  <2> QED
    BY <1>1 DEF LastGiven
<1>3. CallOf(t).name # NoStr => \E k \in DOMAIN names : names[k] # NoStr
  <2> HIDE DEF names
  <2> QED
    BY <1>1 DEF LastGiven
<1> QED
  BY <1>2, <1>3

\* A call that was named has started and has a block.
LEMMA CallHasBlock ==
    ASSUME Ended, NEW t \in CallsNamed
    PROVE  /\ t \in ToolIdx /\ toolCalls[t].started
           /\ \E i \in 0..contentBlockIndex : content[i].type = "tool_use" /\ content[i].call = t
<1>1. Entries \in Seq(ToolEntry) /\ Identified(Entries)
  BY EndedFacts
<1>2. t \in ToolIdx
  <2>1. PICK k \in DOMAIN Entries : t = IndexOf(Entries[k])
    BY DEF CallsNamed
  <2>2. Entries[k] \in ToolEntry
    BY <1>1
  <2> QED
    BY <2>1, <2>2, EntryIndex
<1>3. CallOf(t).id # NoStr /\ CallOf(t).name # NoStr
  BY DEF Ended, OrderlyUpstream
<1>4. toolCalls[t].id # NoStr /\ toolCalls[t].name # NoStr
  BY <1>1, <1>3, CallGiven DEF Identified
<1>5. toolCalls[t].started
  BY <1>1, <1>2, <1>4 DEF Identified, CanStart
<1> QED
  BY <1>2, <1>5 DEF Ended, ShapeInv

\* A block of a call is of one that was named, and has its id and name.
LEMMA BlockOfCall ==
    ASSUME Ended, NEW i \in 0..contentBlockIndex, content[i].type = "tool_use"
    PROVE  /\ content[i].call \in CallsNamed
           /\ content[i].id = CallOf(content[i].call).id
           /\ content[i].name = CallOf(content[i].call).name
<1> DEFINE t == content[i].call
<1>1. GivesId(Entries, t, content[i].id) /\ GivesName(Entries, t, content[i].name)
  BY EndedFacts DEF Identified
<1>2. PICK k \in DOMAIN Entries : IndexOf(Entries[k]) = t /\ Entries[k].id = content[i].id
  BY <1>1 DEF GivesId
<1>3. PICK l \in DOMAIN Entries : IndexOf(Entries[l]) = t /\ Entries[l].name = content[i].name
  BY <1>1 DEF GivesName
<1>4. content[i].id # NoStr /\ content[i].name # NoStr
  BY <1>1 DEF GivesId, GivesName
<1>5. t \in CallsNamed
  BY <1>2 DEF CallsNamed
<1>6. \A j \in DOMAIN Entries : /\ Entries[j].id \in {NoStr, CallOf(IndexOf(Entries[j])).id}
                                /\ Entries[j].name \in {NoStr, CallOf(IndexOf(Entries[j])).name}
  BY Zenon DEF Ended, OrderlyUpstream
<1> HIDE DEF t
<1>7. content[i].id = CallOf(t).id
  BY <1>2, <1>4, <1>6
<1>8. content[i].name = CallOf(t).name
  BY <1>3, <1>4, <1>6
<1> QED
  BY <1>5, <1>7, <1>8 DEF t

\* The block of a rank in the message of the completion, which leaves out the
\* arguments of the calls in bare.
BlockOfRank(r, bare) ==
    CASE r = -2 -> Prose("thinking", SentReasoning)
      [] r = -1 -> Prose("text", SentText)
      [] OTHER  -> ToolUse(CallOf(r).id, CallOf(r).name, Input(CallWhole(r, bare)))

\* The block at index i as a client assembles it, but for the inputs left out.
BlockAt(i, bare) == WithoutInput(Assembled(content[i]), content[i].call, bare)

\* The arguments of a call in the completion mean what those streamed do.
LEMMA InputAgrees ==
    ASSUME Ended, NEW t \in CallsNamed, NEW bare \in SUBSET CallsWithoutArgs
    PROVE  Input(CallWhole(t, bare)) =
             IF t \in bare THEN Null
             ELSE IF CallOf(t).args = <<>> THEN EmptyObject ELSE Parsed(CallOf(t).args)
<1>1. CallOf(t).args \in JsonTexts \cup {<<>>}
  BY DEF Ended, OrderlyUpstream
<1>2. /\ CallWhole(t, bare).args = CallOf(t).args
      /\ CallWhole(t, bare).given <=> t \notin bare
  BY DEF CallWhole, Call
<1> QED
  BY <1>1, <1>2, JsonTextsAssumption DEF Input

\* The blocks that a client assembles are these.
LEMMA AssembledBlock ==
    ASSUME Ended, NEW i \in 0..contentBlockIndex, NEW bare \in SUBSET CallsWithoutArgs
    PROVE  BlockAt(i, bare) = BlockOfRank(Rank(content[i]), bare)
<1> DEFINE b == content[i]
           data == FlattenSeq([k \in DOMAIN content[i].deltas |-> content[i].deltas[k].data])
           input == IF data = <<>> THEN EmptyObject ELSE Parsed(data)
<1>1. data = Delivered(DataType(b), DataCall(b))
  BY BlockData
<1>2. Assembled(b) = IF b.type # "tool_use" THEN Prose(b.type, data)
                                            ELSE ToolUse(b.id, b.name, input)
  BY Zenon DEF Assembled
<1> HIDE DEF data
<1>3. IInv /\ b.type \in {"thinking", "text", "tool_use"}
  BY RankTells DEF Ended
<1>4. CASE b.type = "thinking"
  <2>1. data = SentReasoning
    BY <1>1, <1>4, EndedFacts DEF DataType, DataCall
  <2>2. Rank(b) = -2
    BY <1>4 DEF Rank
  <2> QED
    BY <1>2, <1>4, <2>1, <2>2 DEF BlockOfRank, BlockAt, WithoutInput, Prose
<1>5. CASE b.type = "text"
  <2>1. data = SentText
    BY <1>1, <1>5, EndedFacts DEF DataType, DataCall
  <2>2. Rank(b) = -1
    BY <1>5 DEF Rank
  <2> QED
    BY <1>2, <1>5, <2>1, <2>2 DEF BlockOfRank, BlockAt, WithoutInput, Prose
<1>6. CASE b.type = "tool_use"
  <2> DEFINE t == b.call
             c == CallOf(t)
  <2>1. t \in CallsNamed /\ b.id = c.id /\ b.name = c.name
    BY <1>6, BlockOfCall
  <2>2. t \in ToolIdx /\ toolCalls[t].started
    BY <2>1, CallHasBlock
  <2>3. data = c.args
    BY <1>1, <1>6, <2>2, EndedFacts DEF DataType, DataCall, CallOf
  <2>4. Input(CallWhole(t, bare)) = IF t \in bare THEN Null ELSE input
    BY <2>1, <2>3, InputAgrees
  <2>5. Rank(b) = t /\ t # -1 /\ t # -2
    BY <1>3, <1>6, RankTells
  <2>6. BlockOfRank(Rank(b), bare) = ToolUse(c.id, c.name, Input(CallWhole(t, bare)))
    BY <2>5 DEF BlockOfRank
  <2>7. Assembled(b) = ToolUse(c.id, c.name, input)
    BY <1>2, <1>6, <2>1
  <2>8. BlockAt(i, bare) = WithoutInput(ToolUse(c.id, c.name, input), t, bare)
    BY <2>7 DEF BlockAt
  <2> HIDE DEF c, t, input
  <2>9. WithoutInput(ToolUse(c.id, c.name, input), t, bare) =
          ToolUse(c.id, c.name, IF t \in bare THEN Null ELSE input)
    BY DEF WithoutInput, ToolUse
  <2> QED
    BY <2>4, <2>6, <2>8, <2>9
<1> QED
  BY <1>3, <1>4, <1>5, <1>6

-----------------------------------------------------------------------------
(***************************************************************************)
(* The ranks of the blocks are those of the completion's parts.            *)
(***************************************************************************)

\* The calls are listed in order, and the list has all of them.
LEMMA CallsListed ==
    ASSUME Ended
    PROVE  \E k \in Nat : /\ CallsInOrder \in [1..k -> CallsNamed]
                          /\ Increasing(CallsInOrder, k)
                          /\ \A t \in CallsNamed : \E i \in 1..k : CallsInOrder[i] = t
<1> DEFINE n == contentBlockIndex
           B == {i \in 0..n : content[i].type = "tool_use"}
<1>1. n \in Nat /\ IInv /\ BlocksInOrder(SaidRanks)
  BY EndedFacts DEF Ended
<1>2. CallsNamed \in SUBSET Nat
  BY CallHasBlock, LinesAssumption
<1>3. B \in SUBSET Nat /\ n + 1 \in Nat
  BY <1>1
<1>4. PICK k \in Nat : \E f \in [1..k -> Nat] :
        /\ Increasing(f, k)
        /\ \A i \in 1..k : f[i] \in B /\ f[i] < n + 1
        /\ \A x \in B : x < n + 1 => \E i \in 1..k : f[i] = x
  <2> HIDE DEF B
  <2> QED
    BY <1>3, Enumerated
<1>5. PICK f \in [1..k -> Nat] :
        /\ Increasing(f, k)
        /\ \A i \in 1..k : f[i] \in B /\ f[i] < n + 1
        /\ \A x \in B : x < n + 1 => \E i \in 1..k : f[i] = x
  BY <1>4
<1> DEFINE F == [i \in 1..k |-> content[f[i]].call]
<1>6. \A i \in 1..k : f[i] \in 0..n /\ content[f[i]].type = "tool_use"
  BY <1>5
<1>7. F \in [1..k -> CallsNamed]
  BY <1>6, BlockOfCall
<1>8. Increasing(F, k)
  <2> SUFFICES ASSUME NEW i \in 1..k, NEW j \in 1..k, i < j
               PROVE  F[i] < F[j]
    BY DEF Increasing
  <2>1. f[i] < f[j]
    BY <1>5 DEF Increasing
  <2>2. Rank(content[f[i]]) < Rank(content[f[j]])
    BY <1>1, <1>6, <2>1 DEF BlocksInOrder
  <2> QED
    BY <1>1, <1>6, <2>2, RankTells
<1>9. \A t \in CallsNamed : \E i \in 1..k : F[i] = t
  <2> SUFFICES ASSUME NEW t \in CallsNamed PROVE \E i \in 1..k : F[i] = t
    OBVIOUS
  <2>1. PICK j \in 0..n : content[j].type = "tool_use" /\ content[j].call = t
    BY CallHasBlock
  <2>2. j \in B /\ j < n + 1
    BY <1>1, <2>1
  <2>3. PICK i \in 1..k : f[i] = j
    BY <1>5, <2>2
  <2> QED
    BY <2>1, <2>3
<1> HIDE DEF F
<1>10. CallsInOrder = Listing(CallsNamed)
  BY Zenon DEF CallsInOrder, Listing
<1> QED
  BY <1>2, <1>7, <1>8, <1>9, <1>10, ChosenOrder

\* e is increasing and has the elements of a, b and c.
JoinsInOrder(e, a, b, c, k) ==
    /\ e \in Seq(Int) /\ Increasing(e, Len(e))
    /\ \A i \in 1..Len(e) : \/ e[i] = -2 /\ a # <<>>
                            \/ e[i] = -1 /\ b # <<>>
                            \/ \E j \in 1..k : e[i] = c[j]
    /\ a # <<>> => \E i \in 1..Len(e) : e[i] = -2
    /\ b # <<>> => \E i \in 1..Len(e) : e[i] = -1
    /\ \A j \in 1..k : \E i \in 1..Len(e) : e[i] = c[j]

\* Reasoning, text and calls in order, put together.
LEMMA PutTogether ==
    ASSUME NEW a, a = <<>> \/ a = <<-2>>, NEW b, b = <<>> \/ b = <<-1>>,
           NEW k \in Nat, NEW c, c \in [1..k -> Nat], Increasing(c, k)
    PROVE  JoinsInOrder((a \o b) \o c, a, b, c, k)
<1> DEFINE p == a \o b
           e == p \o c
<1>1. c \in Seq(Nat) /\ Len(c) = k /\ DOMAIN c = 1..k
  OBVIOUS
<1>2. /\ p \in Seq(Int) /\ Len(p) \in 0..2
      /\ \A i, j \in 1..Len(p) : i < j => p[i] < p[j]
      /\ \A i \in 1..Len(p) : (p[i] = -2 /\ a # <<>>) \/ (p[i] = -1 /\ b # <<>>)
      /\ a # <<>> => \E i \in 1..Len(p) : p[i] = -2
      /\ b # <<>> => \E i \in 1..Len(p) : p[i] = -1
  <2>1. CASE a = <<>> /\ b = <<>>
    BY <2>1
  <2>2. CASE a = <<-2>> /\ b = <<>>
    <3>1. p = <<-2>>
      BY <2>2
    <3> QED
      BY <2>2, <3>1
  <2>3. CASE a = <<>> /\ b = <<-1>>
    <3>1. p = <<-1>>
      BY <2>3
    <3> QED
      BY <2>3, <3>1
  <2>4. CASE a = <<-2>> /\ b = <<-1>>
    <3>1. p = Append(<<-2>>, -1)
      BY <2>4
    <3>2. <<-2>> \in Seq(Int) /\ Len(<<-2>>) = 1 /\ -1 \in Int
      OBVIOUS
    <3>3. p \in Seq(Int) /\ Len(p) = 2 /\ p[1] = -2 /\ p[2] = -1
      BY <3>1, <3>2
    <3> HIDE DEF p
    <3>4. \A i \in 1..Len(p) : i = 1 \/ i = 2
      BY <3>3
    <3> QED
      BY <2>4, <3>3, <3>4
  <2> QED
    BY <2>1, <2>2, <2>3, <2>4
<1>3. e = p \o c
  OBVIOUS
<1> HIDE DEF p, e
<1>4. c \in Seq(Int)
  BY <1>1
<1>5. e \in Seq(Int) /\ Len(e) = Len(p) + k
  BY <1>1, <1>2, <1>3, <1>4, ConcatProperties
<1>6. /\ \A i \in 1..Len(p) : i \in 1..Len(e) /\ e[i] = p[i]
      /\ \A j \in 1..k : Len(p) + j \in 1..Len(e) /\ e[Len(p) + j] = c[j]
  BY <1>1, <1>2, <1>3, <1>4, <1>5
<1>7. \A i \in 1..Len(e) : i \in 1..Len(p) \/ (i > Len(p) /\ i - Len(p) \in 1..k /\ e[i] = c[i - Len(p)])
  BY <1>1, <1>2, <1>3, <1>4, <1>5
<1>8. Increasing(e, Len(e))
  <2> SUFFICES ASSUME NEW i \in 1..Len(e), NEW j \in 1..Len(e), i < j
               PROVE  e[i] < e[j]
    BY DEF Increasing
  <2>1. CASE i \in 1..Len(p) /\ j \in 1..Len(p)
    BY <1>2, <1>6, <2>1
  <2>2. CASE i \in 1..Len(p) /\ j \notin 1..Len(p)
    <3>1. e[j] \in Nat
      BY <1>7, <2>2
    <3>2. e[i] \in {-1, -2}
      BY <1>2, <1>6, <2>2
    <3> QED
      BY <3>1, <3>2
  <2>3. CASE i \notin 1..Len(p)
    <3>1. j \notin 1..Len(p)
      BY <1>2, <2>3
    <3> DEFINE x == i - Len(p)
               y == j - Len(p)
    <3>2. x \in 1..k /\ e[i] = c[x] /\ y \in 1..k /\ e[j] = c[y]
      BY <1>7, <2>3, <3>1
    <3>3. x < y
      BY <1>2, <1>5
    <3> HIDE DEF x, y
    <3> QED
      BY <3>2, <3>3 DEF Increasing
  <2> QED
    BY <2>1, <2>2, <2>3
<1>9. \A i \in 1..Len(e) : \/ e[i] = -2 /\ a # <<>>
                           \/ e[i] = -1 /\ b # <<>>
                           \/ \E j \in 1..k : e[i] = c[j]
  BY <1>2, <1>6, <1>7
<1>10. /\ a # <<>> => \E i \in 1..Len(e) : e[i] = -2
       /\ b # <<>> => \E i \in 1..Len(e) : e[i] = -1
  BY <1>2, <1>6
<1>11. \A j \in 1..k : \E i \in 1..Len(e) : e[i] = c[j]
  BY <1>6
<1>12. JoinsInOrder(e, a, b, c, k)
  BY <1>5, <1>8, <1>9, <1>10, <1>11 DEF JoinsInOrder
<1> QED
  BY <1>12 DEF e, p

\* The parts of the completion that are there, by their ranks, in the order in
\* which contentBlocks puts them.
PartRanks ==
    ((IF SentReasoning = <<>> THEN <<>> ELSE <<-2>>)
        \o (IF SentText = <<>> THEN <<>> ELSE <<-1>>)) \o CallsInOrder

\* A block with data is of a part that is there.
LEMMA BlockHasPart ==
    ASSUME Ended, ~Guaranteed, NEW j \in 0..contentBlockIndex
    PROVE  \/ Rank(content[j]) = -2 /\ SentReasoning # <<>>
           \/ Rank(content[j]) = -1 /\ SentText # <<>>
           \/ Rank(content[j]) \in CallsNamed
<1> DEFINE b == content[j]
<1>1. IInv /\ b.type \in {"thinking", "text", "tool_use"}
  BY RankTells DEF Ended
<1>2. HasData(b)
  BY DEF Ended, ShapeInv
<1>3. CASE b.type = "thinking"
  BY <1>2, <1>3, BlockDelivers, EndedFacts DEF Rank, DataType, DataCall
<1>4. CASE b.type = "text"
  BY <1>2, <1>4, BlockDelivers, EndedFacts DEF Rank, DataType, DataCall
<1>5. CASE b.type = "tool_use"
  BY <1>5, BlockOfCall DEF Rank
<1> QED
  BY <1>1, <1>3, <1>4, <1>5

\* A part that is there has a block.
LEMMA PartHasBlock ==
    ASSUME Ended
    PROVE  /\ SentReasoning # <<>> => \E j \in 0..contentBlockIndex : Rank(content[j]) = -2
           /\ SentText # <<>> => \E j \in 0..contentBlockIndex : Rank(content[j]) = -1
           /\ \A t \in CallsNamed : \E j \in 0..contentBlockIndex : Rank(content[j]) = t
<1>1. ASSUME SentReasoning # <<>>
      PROVE  \E j \in 0..contentBlockIndex : Rank(content[j]) = -2
  <2>1. PICK j \in 0..contentBlockIndex : DataType(content[j]) = "thinking_delta"
    BY <1>1, DeliveredHasBlock, EndedFacts
  <2> QED
    BY <2>1 DEF DataType, Rank
<1>2. ASSUME SentText # <<>>
      PROVE  \E j \in 0..contentBlockIndex : Rank(content[j]) = -1
  <2>1. PICK j \in 0..contentBlockIndex : DataType(content[j]) = "text_delta"
    BY <1>2, DeliveredHasBlock, EndedFacts
  <2>2. content[j].type = "text"
    BY <2>1, RankTells DEF DataType, Ended
  <2> QED
    BY <2>2 DEF Rank
<1>3. ASSUME NEW t \in CallsNamed
      PROVE  \E j \in 0..contentBlockIndex : Rank(content[j]) = t
  BY CallHasBlock DEF Rank
<1> QED
  BY <1>1, <1>2, <1>3

\* The blocks are those of the parts, in their order.
LEMMA RanksAgree ==
    ASSUME Ended, ~Guaranteed
    PROVE  /\ PartRanks \in Seq(Int) /\ Len(PartRanks) = contentBlockIndex + 1
           /\ \A i \in 1..(contentBlockIndex + 1) : PartRanks[i] = Rank(content[i - 1])
<1> DEFINE n == contentBlockIndex + 1
           a == IF SentReasoning = <<>> THEN <<>> ELSE <<-2>>
           b == IF SentText = <<>> THEN <<>> ELSE <<-1>>
           c == CallsInOrder
           e == PartRanks
           g == [i \in 1..n |-> Rank(content[i - 1])]
<1>1. n \in Nat /\ contentBlockIndex \in Nat /\ IInv /\ BlocksInOrder(SaidRanks)
  BY EndedFacts DEF Ended
<1>2. PICK k \in Nat : /\ c \in [1..k -> CallsNamed] /\ Increasing(c, k)
                       /\ \A t \in CallsNamed : \E i \in 1..k : c[i] = t
  BY CallsListed
<1>3. c \in [1..k -> Nat]
  <2>1. CallsNamed \subseteq Nat
    BY CallHasBlock, LinesAssumption
  <2> QED
    BY <1>2, <2>1
<1>4. /\ a = <<>> \/ a = <<-2>>
      /\ b = <<>> \/ b = <<-1>>
      /\ a # <<>> <=> SentReasoning # <<>>
      /\ b # <<>> <=> SentText # <<>>
  OBVIOUS
<1>5. e = (a \o b) \o c
  BY DEF PartRanks
<1> HIDE DEF a, b, c, e
<1>6. /\ e \in Seq(Int) /\ Increasing(e, Len(e))
      /\ \A i \in 1..Len(e) : \/ e[i] = -2 /\ a # <<>>
                              \/ e[i] = -1 /\ b # <<>>
                              \/ \E j \in 1..k : e[i] = c[j]
      /\ a # <<>> => \E i \in 1..Len(e) : e[i] = -2
      /\ b # <<>> => \E i \in 1..Len(e) : e[i] = -1
      /\ \A j \in 1..k : \E i \in 1..Len(e) : e[i] = c[j]
  <2>1. JoinsInOrder((a \o b) \o c, a, b, c, k)
    BY <1>2, <1>3, <1>4, PutTogether, Zenon
  <2> QED
    BY <1>5, <2>1, Zenon DEF JoinsInOrder
<1>7. g \in [1..n -> Int] /\ Increasing(g, n)
  <2>1. \A i \in 1..n : i - 1 \in 0..contentBlockIndex
    BY <1>1
  <2>2. \A i \in 1..n : Rank(content[i - 1]) \in Int
    BY <1>1, <2>1, RankTells
  <2>3. \A i, j \in 1..n : i < j => Rank(content[i - 1]) < Rank(content[j - 1])
    BY <1>1, <2>1 DEF BlocksInOrder
  <2> QED
    BY <2>2, <2>3 DEF Increasing
<1>8. \A i \in 1..n : i - 1 \in 0..contentBlockIndex /\ g[i] = Rank(content[i - 1])
  BY <1>1
<1>9. \A j \in 0..contentBlockIndex : j + 1 \in 1..n /\ g[j + 1] = Rank(content[j])
  BY <1>1
<1> HIDE DEF g, n
<1>10. Covered(g, n, e, Len(e))
  <2> SUFFICES ASSUME NEW i \in 1..n PROVE \E m \in 1..Len(e) : g[i] = e[m]
    BY DEF Covered
  <2>1. \/ g[i] = -2 /\ SentReasoning # <<>>
        \/ g[i] = -1 /\ SentText # <<>>
        \/ g[i] \in CallsNamed
    BY <1>8, BlockHasPart
  <2>2. g[i] \in CallsNamed => \E j \in 1..k : g[i] = c[j]
    BY <1>2
  <2> QED
    BY <1>4, <1>6, <2>1, <2>2
<1>11. Covered(e, Len(e), g, n)
  <2> SUFFICES ASSUME NEW i \in 1..Len(e) PROVE \E m \in 1..n : e[i] = g[m]
    BY DEF Covered
  <2>1. \/ e[i] = -2 /\ SentReasoning # <<>>
        \/ e[i] = -1 /\ SentText # <<>>
        \/ e[i] \in CallsNamed
    BY <1>2, <1>4, <1>6
  <2>2. \E j \in 0..contentBlockIndex : Rank(content[j]) = e[i]
    BY <2>1, PartHasBlock
  <2> QED
    BY <1>9, <2>2
<1>12. Len(e) \in Nat /\ e \in [1..Len(e) -> Int]
  BY <1>6
<1>13. n = Len(e) /\ \A i \in 1..n : g[i] = e[i]
  BY <1>1, <1>6, <1>7, <1>10, <1>11, <1>12, IncreasingUnique
<1> QED
  BY <1>6, <1>8, <1>13 DEF n, e

-----------------------------------------------------------------------------
(***************************************************************************)
(* The content of the message.                                             *)
(***************************************************************************)

\* The blocks of the parts.
PartBlocks(bare) == [r \in Int |-> BlockOfRank(r, bare)]

\* Each call of the completion is a block.
LEMMA BlocksOfCalls ==
    ASSUME NEW bare, NEW T, NEW c \in Seq(T), NEW P,
           \A t \in T : ToolUseBlock(CallWhole(t, bare)) = <<P[t]>>
    PROVE  ToolUseBlocks([i \in DOMAIN c |-> CallWhole(c[i], bare)]) = Mapped(P, c)
<1> DEFINE f == [t \in T |-> P[t]]
           g == [t \in T |-> ToolUseBlock(CallWhole(t, bare))]
           B == {P[t] : t \in T}
           calls == [i \in DOMAIN c |-> CallWhole(c[i], bare)]
<1>1. \A i \in DOMAIN c : c[i] \in T
  OBVIOUS
<1>2. f \in [T -> B]
  OBVIOUS
<1>3. \A t \in T : g[t] = <<f[t]>>
  OBVIOUS
<1>4. [i \in DOMAIN calls |-> ToolUseBlock(calls[i])] = Mapped(g, c)
  BY <1>1 DEF Mapped
<1>5. Mapped(f, c) = Mapped(P, c)
  BY <1>1 DEF Mapped
<1> HIDE DEF f, g, B, calls
<1>6. FlatMap(g, c) = Mapped(f, c)
  BY <1>2, <1>3, FlatMapValues
<1>7. ToolUseBlocks(calls) = FlatMap(g, c)
  BY <1>4, Zenon DEF ToolUseBlocks, FlatMap
<1> QED
  BY <1>5, <1>6, <1>7 DEF calls

\* The completion is put together from its parts.
LEMMA BlocksOfParts ==
    ASSUME Ended, NEW bare \in SUBSET CallsWithoutArgs
    PROVE  ProseBlock("thinking", SentReasoning) \o ProseBlock("text", SentText)
               \o ToolUseBlocks([i \in DOMAIN CallsInOrder |-> CallWhole(CallsInOrder[i], bare)])
             = Mapped(PartBlocks(bare), PartRanks)
<1> DEFINE a == IF SentReasoning = <<>> THEN <<>> ELSE <<-2>>
           b == IF SentText = <<>> THEN <<>> ELSE <<-1>>
           c == CallsInOrder
           B == {BlockOfRank(r, bare) : r \in Int}
           P == PartBlocks(bare)
<1>1. P \in [Int -> B]
  BY DEF PartBlocks
<1>2. ProseBlock("thinking", SentReasoning) = Mapped(P, a)
  <2>1. Mapped(P, <<>>) = <<>>
    BY DEF Mapped
  <2>2. Mapped(P, <<-2>>) = <<P[-2]>>
    BY MappedSingle
  <2>3. P[-2] = Prose("thinking", SentReasoning)
    BY DEF PartBlocks, BlockOfRank
  <2>4. CASE SentReasoning = <<>>
    BY <2>1, <2>4 DEF ProseBlock
  <2>5. CASE SentReasoning # <<>>
    BY <2>2, <2>3, <2>5 DEF ProseBlock
  <2> QED
    BY <2>4, <2>5
<1>3. ProseBlock("text", SentText) = Mapped(P, b)
  <2>1. Mapped(P, <<>>) = <<>>
    BY DEF Mapped
  <2>2. Mapped(P, <<-1>>) = <<P[-1]>>
    BY MappedSingle
  <2>3. P[-1] = Prose("text", SentText)
    BY DEF PartBlocks, BlockOfRank
  <2>4. CASE SentText = <<>>
    BY <2>1, <2>4 DEF ProseBlock
  <2>5. CASE SentText # <<>>
    BY <2>2, <2>3, <2>5 DEF ProseBlock
  <2> QED
    BY <2>4, <2>5
<1>4. PICK k \in Nat : c \in [1..k -> CallsNamed]
  BY CallsListed
<1>5. CallsNamed \subseteq Nat
  BY CallHasBlock, LinesAssumption
<1>6. c \in Seq(Int)
  <2>1. c \in [1..k -> Nat]
    BY <1>4, <1>5
  <2> HIDE DEF c
  <2> QED
    BY <2>1
<1>7. ToolUseBlocks([i \in DOMAIN c |-> CallWhole(c[i], bare)]) = Mapped(P, c)
  <2>1. c \in Seq(CallsNamed)
    <3> HIDE DEF c
    <3> QED
      BY <1>4
  <2>2. ASSUME NEW t \in CallsNamed PROVE ToolUseBlock(CallWhole(t, bare)) = <<P[t]>>
    <3>1. t \in Nat
      BY <1>5
    <3>2. P[t] = ToolUse(CallOf(t).id, CallOf(t).name, Input(CallWhole(t, bare)))
      BY <3>1 DEF PartBlocks, BlockOfRank
    <3>3. /\ CallWhole(t, bare).function = TRUE
          /\ CallWhole(t, bare).id = CallOf(t).id /\ CallWhole(t, bare).name = CallOf(t).name
      BY DEF CallWhole, Call
    <3> QED
      BY <3>2, <3>3 DEF ToolUseBlock
  <2> HIDE DEF c, P
  <2> QED
    BY <2>1, <2>2, BlocksOfCalls
<1>8. a \in Seq(Int) /\ b \in Seq(Int)
  OBVIOUS
<1> HIDE DEF a, b, c, B, P
<1>9. a \o b \in Seq(Int)
  BY <1>8
<1>0. MapsInTurn(P, Int)
  BY <1>1, MappedConcat
<1>10. Mapped(P, (a \o b) \o c) = Mapped(P, a \o b) \o Mapped(P, c)
  BY <1>0, <1>6, <1>9, Zenon DEF MapsInTurn
<1>11. Mapped(P, a \o b) = Mapped(P, a) \o Mapped(P, b)
  BY <1>0, <1>8, Zenon DEF MapsInTurn
<1>12. PartRanks = (a \o b) \o c
  BY DEF PartRanks, a, b, c
<1> QED
  BY <1>2, <1>3, <1>7, <1>10, <1>11, <1>12, Zenon DEF c, P

\* Without content, there are no parts.
LEMMA NoParts ==
    ASSUME Ended, Guaranteed, NEW bare
    PROVE  /\ Mapped(PartBlocks(bare), PartRanks) = <<>>
           /\ contentBlockIndex = 0 /\ BlockAt(0, bare) = Prose("text", <<>>)
<1>1. /\ contentBlockIndex = 0 /\ 0 \in 0..contentBlockIndex /\ content[0].type = "text"
      /\ content[0].deltas = <<>>
  BY DEF Guaranteed
<1>2. Rank(content[0]) = -1 /\ \A j \in 0..contentBlockIndex : j = 0
  BY <1>1 DEF Rank
<1>3. SentReasoning = <<>>
  BY <1>2, PartHasBlock
<1>4. CallsNamed = {}
  <2> SUFFICES ASSUME NEW t \in CallsNamed PROVE FALSE
    OBVIOUS
  <2>1. t \in Nat
    BY CallHasBlock, LinesAssumption
  <2>2. t = -1
    BY <1>2, PartHasBlock
  <2> QED
    BY <2>1, <2>2
<1>5. FlattenSeq([k \in DOMAIN content[0].deltas |-> content[0].deltas[k].data]) = <<>>
  <2>1. [k \in DOMAIN content[0].deltas |-> content[0].deltas[k].data] = <<>>
    BY <1>1
  <2> QED
    BY <2>1, FlattenEmpty, Zenon
<1>6. SentText = <<>>
  <2>1. Delivered("text_delta", NoCall) = <<>>
    BY <1>1, <1>5, BlockData DEF DataType, DataCall
  <2> QED
    BY <2>1, EndedFacts
<1>7. CallsInOrder = <<>>
  <2>1. PICK k \in Nat : CallsInOrder \in [1..k -> CallsNamed]
    BY CallsListed
  <2>2. k = 0
    BY <1>4, <2>1
  <2> QED
    BY <2>1, <2>2
<1>8. PartRanks = <<>>
  BY <1>3, <1>6, <1>7 DEF PartRanks
<1>9. BlockAt(0, bare) = Prose("text", <<>>)
  BY <1>1, <1>5 DEF Assembled, BlockAt, WithoutInput, Prose
<1> QED
  BY <1>1, <1>8, <1>9 DEF Mapped

\* The content of the completion is what the client of the stream has assembled.
LEMMA ContentAgrees ==
    ASSUME Ended, NEW bare \in SUBSET CallsWithoutArgs
    PROVE  contentBlocks(CompletionStreamed(bare))
             = [i \in 1..(contentBlockIndex + 1) |-> BlockAt(i - 1, bare)]
<1> DEFINE blocks == Mapped(PartBlocks(bare), PartRanks)
           n == contentBlockIndex + 1
<1>1. contentBlocks(CompletionStreamed(bare)) =
        IF blocks = <<>> THEN <<Prose("text", <<>>)>> ELSE blocks
  <2>1. /\ CompletionStreamed(bare).reasoning = SentReasoning
        /\ CompletionStreamed(bare).content = SentText
        /\ CompletionStreamed(bare).calls = [i \in DOMAIN CallsInOrder |-> CallWhole(CallsInOrder[i], bare)]
    BY DEF CompletionStreamed, Completion, SentReasoning, SentText
  <2> HIDE DEF blocks
  <2> QED
    BY <2>1, BlocksOfParts, Zenon DEF contentBlocks, blocks
<1>2. CASE Guaranteed
  <2>1. blocks = <<>> /\ contentBlockIndex = 0 /\ BlockAt(0, bare) = Prose("text", <<>>)
    BY <1>2, NoParts
  <2> QED
    BY <1>1, <2>1
<1>3. CASE ~Guaranteed
  <2>1. n \in Nat /\ n >= 1
    BY EndedFacts
  <2>2. /\ PartRanks \in Seq(Int) /\ Len(PartRanks) = n
        /\ \A i \in 1..n : PartRanks[i] = Rank(content[i - 1])
    BY <1>3, RanksAgree
  <2>3. DOMAIN PartRanks = 1..n /\ \A i \in 1..n : PartRanks[i] \in Int
    BY <2>2
  <2>4. \A i \in 1..n : PartBlocks(bare)[PartRanks[i]] = BlockAt(i - 1, bare)
    <3> SUFFICES ASSUME NEW i \in 1..n
                 PROVE  PartBlocks(bare)[PartRanks[i]] = BlockAt(i - 1, bare)
      OBVIOUS
    <3>1. i - 1 \in 0..contentBlockIndex
      BY EndedFacts
    <3>2. BlockAt(i - 1, bare) = BlockOfRank(Rank(content[i - 1]), bare)
      BY <3>1, AssembledBlock
    <3> QED
      BY <2>2, <2>3, <3>2 DEF PartBlocks
  <2>5. blocks = [i \in 1..n |-> BlockAt(i - 1, bare)]
    BY <2>3, <2>4 DEF Mapped
  <2>6. blocks # <<>>
    <3>1. DOMAIN blocks = 1..n
      BY <2>3 DEF Mapped
    <3>2. 1 \in DOMAIN blocks
      BY <2>1, <3>1
    <3> HIDE DEF blocks
    <3> QED
      BY <3>2
  <2> QED
    BY <1>1, <2>5, <2>6
<1> QED
  BY <1>2, <1>3

-----------------------------------------------------------------------------
(***************************************************************************)
(* The stop reason and the tokens, and the theorem.                        *)
(***************************************************************************)

\* A default takes the place of what is absent, and of nothing else.
LEMMA LastGivenDefault ==
    ASSUME NEW n \in Nat, NEW v, DOMAIN v = 1..n, NEW absent, NEW default
    PROVE  LastGiven(v, absent, default)
             = IF LastGiven(v, absent, absent) = absent THEN default
                                                        ELSE LastGiven(v, absent, absent)
<1> DEFINE given == {k \in DOMAIN v : v[k] # absent}
<1>1. CASE given = {}
  BY <1>1 DEF LastGiven
<1>2. CASE given # {}
  <2>1. given \in SUBSET (1..n)
    OBVIOUS
  <2>2. Max(given) \in given
    <3> HIDE DEF given
    <3> QED
      BY <1>2, <2>1, MaxInBounds
  <2>3. v[Max(given)] # absent
    BY <2>2
  <2>4. /\ LastGiven(v, absent, default) = v[Max(given)]
        /\ LastGiven(v, absent, absent) = v[Max(given)]
    BY <1>2, Zenon DEF LastGiven
  <2> HIDE DEF given
  <2> QED
    BY <2>3, <2>4
<1> QED
  BY <1>1, <1>2

\* The completion has the tokens of the report.
LEMMA UsageAgrees ==
    ASSUME Ended, NEW bare
    PROVE  (IF CompletionStreamed(bare).usage = NoUsage THEN 0 ELSE CompletionStreamed(bare).usage)
             = final.outputTokens
<1> DEFINE u == [k \in DOMAIN seen |-> IF seen[k].kind = "chunk" THEN seen[k].usage ELSE NoUsage]
           n == Len(seen)
<1>1. CompletionStreamed(bare).usage = LastGiven(u, NoUsage, NoUsage)
  BY DEF CompletionStreamed, Completion
<1>2. final.outputTokens = LastGiven(u, NoUsage, 0)
  <2>1. /\ final = [stopReason |-> stopReason, outputTokens |-> outputTokens]
        /\ outputTokens = UsageIn(UsageNoted) /\ UsageNoted = seen
    BY EndedFacts DEF Ended, ReportInv, UsageNoted
  <2>2. UsageIn(seen) = LastGiven(u, NoUsage, 0)
    BY Zenon DEF UsageIn
  <2> HIDE DEF u
  <2> QED
    BY <2>1, <2>2
<1>3. n \in Nat /\ DOMAIN u = 1..n
  BY EndedFacts
<1> HIDE DEF u, n
<1> QED
  BY <1>1, <1>2, <1>3, LastGivenDefault

\* The completion has the stop reason of the report.
LEMMA FinishAgrees ==
    ASSUME Ended, NEW bare
    PROVE  mapFinishReason(CompletionStreamed(bare).finish) = final.stopReason
<1> DEFINE f == [k \in DOMAIN seen |-> seen[k].finish]
           h == [k \in DOMAIN seen |-> IF HasDelta(seen[k]) THEN seen[k].finish ELSE NoStr]
           n == Len(seen)
<1>1. CompletionStreamed(bare).finish = LastGiven(f, NoStr, NoStr)
  BY DEF CompletionStreamed, Completion
<1>2. f = h
  BY DEF Ended, OrderlyUpstream
<1>3. final.stopReason = mapFinishReason(LastGiven(h, NoStr, "stop"))
  <2>1. /\ final = [stopReason |-> stopReason, outputTokens |-> outputTokens]
        /\ stopReason = "error" \/ stopReason = mapFinishReason(FinishIn(FinishNoted))
        /\ FinishNoted = seen /\ final.stopReason # "error"
    BY EndedFacts DEF Ended, ReportInv, FinishNoted
  <2>2. FinishIn(seen) = LastGiven(h, NoStr, "stop")
    BY Zenon DEF FinishIn
  <2> HIDE DEF h
  <2> QED
    BY <2>1, <2>2
<1>4. n \in Nat /\ DOMAIN h = 1..n
  BY EndedFacts
<1> HIDE DEF f, h, n
<1>5. LastGiven(h, NoStr, "stop") = IF LastGiven(h, NoStr, NoStr) = NoStr THEN "stop"
                                    ELSE LastGiven(h, NoStr, NoStr)
  BY <1>4, LastGivenDefault
<1>6. mapFinishReason("stop") = mapFinishReason(NoStr)
  BY DEF mapFinishReason, NoStr
<1> QED
  BY <1>1, <1>2, <1>3, <1>5, <1>6

\* When the message is complete, it means the completion.
LEMMA EndedMeansCompletion ==
    ASSUME Ended, NEW bare \in SUBSET CallsWithoutArgs
    PROVE  ConvertOpenAIToClaudeResponse(CompletionStreamed(bare)) =
             [type          |-> "message",
              content       |-> [i \in 1..(contentBlockIndex + 1) |-> BlockAt(i - 1, bare)],
              stop_reason   |-> final.stopReason,
              output_tokens |-> final.outputTokens]
<1>1. CompletionStreamed(bare).usable = TRUE
  BY DEF CompletionStreamed, Completion
<1> QED
  BY <1>1, ContentAgrees, UsageAgrees, FinishAgrees, Zenon DEF ConvertOpenAIToClaudeResponse

\* The inductive invariant.
ConversionInv ==
    /\ IInv /\ DeliveryInv /\ ReportInv
    /\ ShapeInv /\ OrderInv /\ IdentityInv

\* It holds in every state: the order of what is said is that of the blocks, and
\* the calls are identified by what was said of them.
THEOREM ConversionInvariance == Spec => []ConversionInv
<1>1. Init => ConversionInv
  BY InitIInv, InitDelivery, InitReport, InitShape, InitOrder, InitIdentity DEF ConversionInv
<1>2. ConversionInv /\ [Next]_vars => ConversionInv'
  <2> SUFFICES ASSUME ConversionInv, [Next]_vars PROVE ConversionInv'
    OBVIOUS
  <2>1. IInv /\ DeliveryInv /\ ReportInv /\ ShapeInv /\ OrderInv /\ IdentityInv /\ DeltaStages
    BY DEF ConversionInv, DeliveryInv
  <2>2. IInv' /\ DeliveryInv'
    BY <2>1, NextIInv, StepDelivery
  <2>3. ReportInv' /\ ShapeInv'
    BY <2>1, StepReport, StepShape
  <2>4. OrderInv' /\ IdentityInv'
    BY <2>1, StepOrder, StepIdentity
  <2> QED
    BY <2>2, <2>3, <2>4 DEF ConversionInv
<1> QED
  BY <1>1, <1>2, PTL DEF Spec

\* A client gets the same message with stream and without: whatever the upstream
\* sends, in whatever pieces, if it keeps to Claude's order then the blocks that
\* a client assembles from the stream, the stop reason and the tokens are those
\* that ConvertOpenAIToClaudeResponse makes of the same answer sent whole.  Only
\* the input of a call whose arguments are left out is null instead of {}.
THEOREM StreamAlwaysMeansCompletion == Spec => []StreamMeansCompletion
<1>1. ConversionInv => StreamMeansCompletion
  <2> SUFFICES ASSUME ConversionInv, ending = "complete", final.stopReason # "error",
                      OrderlyUpstream
               PROVE  Ended
    <3> SUFFICES ASSUME Ended, ending = "complete", final.stopReason # "error", OrderlyUpstream,
                        NEW bare \in SUBSET CallsWithoutArgs
                 PROVE  ConvertOpenAIToClaudeResponse(CompletionStreamed(bare)) =
                          [type          |-> "message",
                           content       |-> [i \in 1..(contentBlockIndex + 1) |->
                               WithoutInput(Assembled(content[i - 1]), content[i - 1].call, bare)],
                           stop_reason   |-> final.stopReason,
                           output_tokens |-> final.outputTokens]
      BY Zenon DEF StreamMeansCompletion
    <3> QED
      BY EndedMeansCompletion, Zenon DEF BlockAt
  <2> QED
    BY Zenon DEF ConversionInv, Ended
<1> QED
  BY <1>1, ConversionInvariance, PTL
=============================================================================
