----------------------- MODULE RequestConversionProofs -----------------------
(***************************************************************************)
(* Theorems about RequestConversion, for every set of texts, ids, results  *)
(* and contents, every configuration and conversations of any length.      *)
(***************************************************************************)
EXTENDS RequestConversion, InductionLemmas, FiniteSetTheorems

Frags == Fragments \cup {newline}
Words == Fragments \cup {"image"}

UserBlock == TextBlock \cup ImageBlock \cup ToolResultBlock
AssistantBlock == TextBlock \cup ThinkingBlock \cup ToolUseBlock
Block == UserBlock \cup AssistantBlock

-----------------------------------------------------------------------------
(***************************************************************************)
(* Routing.                                                                *)
(***************************************************************************)
\* What does not change and what follows from it.
SendInv ==
    /\ MinTokens(raw) \in Int /\ MaxTokens(raw) \in Int /\ max_tokens \in Int
    /\ sent = Send

\* Every request is sent as the configuration and the name of its model say.
LEMMA SendAlways == Spec => []SendInv
<1>1. Init => SendInv
  BY StartsAssumption DEF Init, SendInv, MinTokens, MaxTokens
<1>2. ASSUME SendInv, [Next]_vars PROVE SendInv'
  <2>1. UNCHANGED settings /\ sent' = sent
    <3>1. CASE Next
      BY <1>2, <3>1, Zenon DEF Next, UserSpeaks, AssistantSpeaks, SystemSpeaks, Turn, SendInv
    <3>2. CASE UNCHANGED vars
      BY <3>2 DEF vars
    <3> QED
      BY <1>2, <3>1, <3>2
  <2>2. Send' = Send
    BY <2>1, Zenon DEF settings, Send
  <2> QED
    BY <1>2, <2>1, <2>2 DEF SendInv, settings, MinTokens, MaxTokens
<1> QED
  BY <1>1, <1>2, PTL DEF Spec

\* The limits are kept whatever they are.
THEOREM TokensAlwaysWithinLimits == Spec => []TokensWithinLimits
<1>1. SendInv => TokensWithinLimits
  <2> SUFFICES ASSUME SendInv PROVE TokensWithinLimits
    OBVIOUS
  <2> DEFINE a == MinTokens(raw)
             b == MaxTokens(raw)
  <2>1. sent.max_tokens = Clamp(raw, max_tokens)
    BY DEF SendInv, Send
  <2>2. a \in Int /\ b \in Int /\ max_tokens \in Int
    BY DEF SendInv
  <2>3. Clamp(raw, max_tokens) = LET m == IF max_tokens < a THEN a ELSE max_tokens
                                 IN IF m > b THEN b ELSE m
    BY DEF Clamp
  <2> HIDE DEF a, b
  <2>4. /\ sent.max_tokens <= b
        /\ a <= b => sent.max_tokens >= a
        /\ max_tokens \in a..b => sent.max_tokens = max_tokens
    BY <2>1, <2>2, <2>3
  <2> QED
    BY <2>4 DEF TokensWithinLimits, a, b
<1> QED
  BY <1>1, SendAlways, PTL

\* Keys and URLs that are given for a tier are not given elsewhere, too.
TiersDiffer ==
    \A t \in Tiers :
        /\ raw[t].key # Unset =>
               raw[t].key # raw.key /\ \A u \in Tiers \ {t} : raw[u].key # raw[t].key
        /\ raw[t].url # Unset =>
               raw[t].url # BaseURL(raw) /\ \A u \in Tiers \ {t} : raw[u].url # raw[t].url

\* Where that is so, no tier's key or URL is ever used for another's model.
THEOREM TiersAlwaysKeepTogether == Spec => [](TiersDiffer => TiersKeepTogether)
<1>1. SendInv => (TiersDiffer => TiersKeepTogether)
  <2> SUFFICES ASSUME SendInv, TiersDiffer, NEW t \in Tiers
               PROVE  /\ raw[t].key # Unset /\ sent.key = raw[t].key =>
                             /\ sent.model = NameOf(raw, t)
                             /\ sent.url = strOr(raw[t].url, BaseURL(raw))
                      /\ raw[t].url # Unset /\ sent.url = raw[t].url =>
                             sent.model = NameOf(raw, t)
    BY DEF TiersKeepTogether
  <2>1. /\ sent.key = GetModelConfig(raw, model).key
        /\ sent.url = GetModelConfig(raw, model).url
        /\ sent.model = GetModelConfig(raw, model).model
    BY DEF SendInv, Send, MapClaudeModelToOpenAI
  <2>2. CASE model.prefix # Unset
    <3>1. sent.key = raw.key /\ sent.url = BaseURL(raw)
      BY <2>1, <2>2 DEF GetModelConfig
    <3> QED
      BY <3>1 DEF TiersDiffer
  <2>3. CASE model.prefix = Unset
    <3> DEFINE u == TierFor(model)
    <3>1. u \in Tiers
      BY DEF TierFor, Tiers
    <3>2. GetModelConfig(raw, model) = Tier(raw, u)
      BY <2>3 DEF GetModelConfig
    <3> HIDE DEF u
    <3>3. /\ sent.key = strOr(raw[u].key, raw.key)
          /\ sent.url = strOr(raw[u].url, BaseURL(raw))
          /\ sent.model = NameOf(raw, u)
      BY <2>1, <3>2 DEF Tier
    <3>4. CASE u = t
      BY <3>3, <3>4
    <3>5. CASE u # t
      <4>1. /\ raw[t].key # Unset => sent.key # raw[t].key
            /\ raw[t].url # Unset => sent.url # raw[t].url
        BY <3>1, <3>3, <3>5 DEF TiersDiffer, strOr
      <4> QED
        BY <4>1
    <3> QED
      BY <3>4, <3>5
  <2> QED
    BY <2>2, <2>3
<1> QED
  BY <1>1, SendAlways, PTL

-----------------------------------------------------------------------------
(***************************************************************************)
(* What Collect gives, as flattened maps.                                  *)
(***************************************************************************)
\* What there is to know of a block of each type.
LEMMA BlockKinds ==
    ASSUME NEW b \in Block
    PROVE  /\ b.type = "text" => b \in TextBlock /\ b.text \in Texts
           /\ b.type = "image" => b \in ImageBlock /\ b.source \in {"base64", "url"}
           /\ b.type = "tool_use" => b \in ToolUseBlock /\ b.id \in ToolIds
           /\ b.type = "tool_result" =>
                  b \in ToolResultBlock /\ b.id \in ToolIds /\ b.result \in Results
           /\ "text" \in DOMAIN b <=> b.type = "text"
  BY DEF Block, UserBlock, AssistantBlock, TextBlock, ImageBlock, ThinkingBlock, ToolUseBlock,
         ToolResultBlock

\* A sequence over a set is one over a larger set.
LEMMA LargerSet ==
    ASSUME NEW S, NEW T, S \subseteq T
    PROVE  \A s \in Seq(S) : s \in Seq(T)
  OBVIOUS

\* Texts are made of fragments.
LEMMA TextType ==
    ASSUME NEW t \in Texts
    PROVE  t \in Seq(Fragments) /\ t \in Seq(Frags)
<1>1. t \in Seq(Fragments)
  BY TextsAssumption
<1>2. Fragments \subseteq Frags
  BY DEF Frags
<1> QED
  BY <1>1, <1>2, LargerSet

textsOf == [b \in Block |-> IF b.type = "text" THEN <<b.text>> ELSE <<>>]
partsOf ==
    [b \in Block |->
        IF b.type = "text" \/ (b.type = "image" /\ b.source = "base64") THEN <<b>> ELSE <<>>]
restOf == [b \in Block |-> IF b.type # "tool_result" THEN <<b>> ELSE <<>>]
resultsOf ==
    [b \in Block |->
        IF b.type = "tool_result" THEN <<ToolMsg(b.id, ResultText(b.result))>> ELSE <<>>]
usesOf == [b \in Block |-> IF b.type = "tool_use" THEN <<b.id>> ELSE <<>>]
answersOf == [b \in Block |-> IF b.type = "tool_result" THEN <<b.id>> ELSE <<>>]
wordsOf == [b \in Block |-> SaidInBlock(b)]
allTextOf == [b \in Block |-> IF "text" \in DOMAIN b THEN b.text ELSE <<>>]
keptOf == [f \in Frags |-> IF f # newline THEN <<f>> ELSE <<>>]

\* An element of a sequence is in its set.
LEMMA ElementsIn ==
    ASSUME NEW S, NEW s \in Seq(S)
    PROVE  \A i \in DOMAIN s : s[i] \in S
  OBVIOUS

\* The loops over the blocks of a content.
LEMMA BlockLoops ==
    ASSUME NEW s \in Seq(Block)
    PROVE  /\ TextsIn(s) = FlatMap(textsOf, s)
           /\ Parts(s) = FlatMap(partsOf, s)
           /\ nonToolResultBlocks(s) = FlatMap(restOf, s)
           /\ convertClaudeToolResults(s) = FlatMap(resultsOf, s)
           /\ IdsIn(Blocks(s), "tool_use") = FlatMap(usesOf, s)
           /\ IdsIn(Blocks(s), "tool_result") = FlatMap(answersOf, s)
           /\ SaidIn(Blocks(s)) = FlatMap(wordsOf, s)
           /\ AllText(Blocks(s)) = FlatMap(allTextOf, s)
<1> USE DEF Collect, Select, FlatMap, Mapped
<1>1. \A i \in DOMAIN s : s[i] \in Block
  BY ElementsIn
<1>2. TextsIn(s) = FlatMap(textsOf, s)
  BY <1>1 DEF TextsIn, textsOf
<1>3. Parts(s) = FlatMap(partsOf, s)
  BY <1>1 DEF Parts, partsOf
<1>4. nonToolResultBlocks(s) = FlatMap(restOf, s)
  BY <1>1 DEF nonToolResultBlocks, restOf
<1>5. convertClaudeToolResults(s) = FlatMap(resultsOf, s)
  BY <1>1 DEF convertClaudeToolResults, resultsOf
<1>6. Blocks(s).kind = "blocks" /\ Blocks(s).blocks = s
  BY DEF Blocks
<1>7. IdsIn(Blocks(s), "tool_use") = FlatMap(usesOf, s)
  BY <1>1, <1>6 DEF IdsIn, usesOf
<1>8. IdsIn(Blocks(s), "tool_result") = FlatMap(answersOf, s)
  BY <1>1, <1>6 DEF IdsIn, answersOf
<1>9. SaidIn(Blocks(s)) = FlatMap(wordsOf, s)
  BY <1>1, <1>6 DEF SaidIn, wordsOf
<1>10. AllText(Blocks(s)) = FlatMap(allTextOf, s)
  BY <1>1, <1>6 DEF AllText, allTextOf
<1> QED
  BY <1>2, <1>3, <1>4, <1>5, <1>7, <1>8, <1>9, <1>10

Part == TextBlock \cup ImagePart

wordOf == [w \in Words |-> IF w # "image" THEN <<w>> ELSE <<>>]
textItself == [t \in Texts |-> t]
nextLine == [t \in Texts |-> <<newline>> \o t]

\* The maps give sequences.
LEMMA MapTypes ==
    /\ textsOf \in [Block -> Seq(Texts)]
    /\ partsOf \in [Block -> Seq(Part)]
    /\ restOf \in [Block -> Seq(Block)]
    /\ usesOf \in [Block -> Seq(ToolIds)]
    /\ answersOf \in [Block -> Seq(ToolIds)]
    /\ allTextOf \in [Block -> Seq(Fragments)]
    /\ keptOf \in [Frags -> Seq(Fragments)]
    /\ wordOf \in [Words -> Seq(Words)]
    /\ textItself \in [Texts -> Seq(Fragments)]
    /\ nextLine \in [Texts -> Seq(Frags)]
<1>1. \A S : <<>> \in Seq(S)
  BY EmptySeq
<1>2. \A S : \A x \in S : <<x>> \in Seq(S)
  OBVIOUS
<1>3. textsOf \in [Block -> Seq(Texts)]
  BY <1>1, <1>2, BlockKinds DEF textsOf
<1>4. partsOf \in [Block -> Seq(Part)]
  <2>1. ASSUME NEW b \in Block, b.type = "text" \/ (b.type = "image" /\ b.source = "base64")
        PROVE  b \in Part
    <3>1. CASE b.type = "text"
      BY <3>1, BlockKinds DEF Part
    <3>2. CASE b.type = "image" /\ b.source = "base64"
      <4>1. b \in ImageBlock
        BY <3>2, BlockKinds
      <4> QED
        BY <3>2, <4>1 DEF Part, ImageBlock, ImagePart
    <3> QED
      BY <2>1, <3>1, <3>2
  <2> QED
    BY <1>1, <1>2, <2>1 DEF partsOf
<1>5. restOf \in [Block -> Seq(Block)]
  BY <1>1, <1>2 DEF restOf
<1>6. usesOf \in [Block -> Seq(ToolIds)]
  BY <1>1, <1>2, BlockKinds DEF usesOf
<1>7. answersOf \in [Block -> Seq(ToolIds)]
  BY <1>1, <1>2, BlockKinds DEF answersOf
<1>8. allTextOf \in [Block -> Seq(Fragments)]
  <2>1. ASSUME NEW b \in Block, "text" \in DOMAIN b PROVE b.text \in Seq(Fragments)
    BY <2>1, BlockKinds, TextType
  <2> QED
    BY <1>1, <2>1 DEF allTextOf
<1>9. keptOf \in [Frags -> Seq(Fragments)]
  BY <1>1, <1>2 DEF keptOf, Frags
<1>10. wordOf \in [Words -> Seq(Words)]
  BY <1>1, <1>2 DEF wordOf
<1>11. textItself \in [Texts -> Seq(Fragments)]
  BY TextType DEF textItself
<1>12. nextLine \in [Texts -> Seq(Frags)]
  <2>1. ASSUME NEW t \in Texts PROVE <<newline>> \o t \in Seq(Frags)
    <3>1. t \in Seq(Frags) /\ newline \in Frags
      BY TextType DEF Frags
    <3>2. <<newline>> \in Seq(Frags)
      BY <1>2, <3>1
    <3> QED
      BY <3>1, <3>2, ConcatProperties
  <2> QED
    BY <2>1 DEF nextLine
<1> QED
  BY <1>3, <1>4, <1>5, <1>6, <1>7, <1>8, <1>9, <1>10, <1>11, <1>12

\* What is said in a text is all of it but the line breaks.
LEMMA SaidIsFlatMap ==
    ASSUME NEW t \in Seq(Frags)
    PROVE  Said(t) = FlatMap(keptOf, t)
<1>1. \A i \in DOMAIN t : t[i] \in Frags
  BY ElementsIn
<1> QED
  BY <1>1 DEF Said, Select, Collect, FlatMap, Mapped, keptOf

\* A text of the client's is said as it is.
LEMMA SaidText ==
    ASSUME NEW t \in Texts
    PROVE  Said(t) = t
<1>1. t \in Seq(Fragments) /\ t \in Seq(Frags)
  BY TextType
<1>2. \A f \in Fragments : keptOf[f] = <<f>>
  BY TextsAssumption DEF keptOf, Frags
<1>3. FlatMap(keptOf, t) = t
  BY <1>1, <1>2, FlatMapIdentity
<1> QED
  BY <1>1, <1>3, SaidIsFlatMap

\* Joined texts say what each of them says.
LEMMA SaidJoin ==
    ASSUME NEW ts \in Seq(Texts)
    PROVE  Join(ts) \in Seq(Frags) /\ Said(Join(ts)) = FlatMap(textItself, ts)
<1>1. CASE ts = <<>>
  <2>1. Join(ts) = <<>>
    BY <1>1 DEF Join
  <2>2. <<>> \in Seq(Frags)
    BY EmptySeq
  <2>3. Said(<<>>) = <<>>
    BY <2>2, SaidIsFlatMap, FlatMapEmpty
  <2> QED
    BY <1>1, <2>1, <2>2, <2>3, FlatMapEmpty
<1>2. CASE ts # <<>>
  <2> DEFINE first == Head(ts)
             rest == Tail(ts)
             lines == FlatMap(nextLine, rest)
  <2>1. first \in Texts /\ rest \in Seq(Texts)
    BY <1>2
  <2>2. Join(ts) = first \o lines
    <3>1. Join(ts) = first \o Collect(rest, LAMBDA t : <<newline>> \o t)
      BY <1>2 DEF Join
    <3>2. \A i \in DOMAIN rest : rest[i] \in Texts
      BY <2>1, ElementsIn
    <3>3. Collect(rest, LAMBDA t : <<newline>> \o t) = FlatMap(nextLine, rest)
      <4> HIDE DEF rest
      <4> QED
        BY <3>2 DEF Collect, FlatMap, Mapped, nextLine
    <3> QED
      BY <3>1, <3>3
  <2> HIDE DEF first, rest
  <2>3. first \in Seq(Frags) /\ lines \in Seq(Frags)
    BY <2>1, TextType, MapTypes, FlatMapType
  <2>4. first \o lines \in Seq(Frags)
    BY <2>3, ConcatProperties
  <2>5. FlatMap(keptOf, first \o lines) = FlatMap(keptOf, first) \o FlatMap(keptOf, lines)
    <3>1. Distributes(keptOf, Frags)
      BY MapTypes, FlatMapConcat
    <3> QED
      BY <2>3, <3>1, Zenon DEF Distributes
  <2>6. ASSUME NEW t \in Texts PROVE textItself[t] = FlatMap(keptOf, nextLine[t])
    <3>1. t \in Seq(Frags) /\ newline \in Frags /\ <<newline>> \in Seq(Frags)
      BY TextType DEF Frags
    <3>2. nextLine[t] = <<newline>> \o t
      BY DEF nextLine
    <3>3. FlatMap(keptOf, <<newline>> \o t) = FlatMap(keptOf, <<newline>>) \o FlatMap(keptOf, t)
      <4>1. Distributes(keptOf, Frags)
        BY MapTypes, FlatMapConcat
      <4> QED
        BY <3>1, <4>1, Zenon DEF Distributes
    <3>4. FlatMap(keptOf, <<newline>>) = <<>>
      <4>1. keptOf[newline] = <<>>
        BY <3>1 DEF keptOf
      <4>2. FlatMap(keptOf, <<newline>>) = keptOf[newline]
        BY <3>1, MapTypes, FlatMapSingle
      <4> QED
        BY <4>1, <4>2
    <3>5. FlatMap(keptOf, t) = t
      BY <3>1, SaidIsFlatMap, SaidText
    <3>6. <<>> \o t = t /\ textItself[t] = t
      BY <3>1 DEF textItself
    <3> QED
      BY <3>2, <3>3, <3>4, <3>5, <3>6, Zenon
  <2>7. FlatMap(keptOf, lines) = FlatMap(textItself, rest)
    <3>1. Composes(textItself, keptOf, nextLine, Texts)
      BY <2>6, MapTypes, FlatMapCompose
    <3> QED
      BY <2>1, <3>1, Zenon DEF Composes
  <2>8. FlatMap(textItself, ts) = textItself[first] \o FlatMap(textItself, rest)
    BY <1>2, MapTypes, FlatMapHead DEF first, rest
  <2>9. textItself[first] = first /\ FlatMap(keptOf, first) = first
    <3>1. FlatMap(keptOf, first) = first
      BY <2>1, <2>3, SaidIsFlatMap, SaidText
    <3> QED
      BY <2>1, <3>1 DEF textItself
  <2>10. Said(first \o lines) = FlatMap(keptOf, first \o lines)
    BY <2>4, SaidIsFlatMap
  <2>11. Said(Join(ts)) = FlatMap(textItself, ts)
    BY <2>2, <2>5, <2>7, <2>8, <2>9, <2>10, Zenon
  <2> QED
    BY <2>2, <2>4, <2>11
<1> QED
  BY <1>1, <1>2

\* Joined, the texts of the blocks say all of their text.
LEMMA SaidTexts ==
    ASSUME NEW s \in Seq(Block)
    PROVE  /\ Join(TextsIn(s)) \in Seq(Frags)
           /\ Said(Join(TextsIn(s))) = FlatMap(allTextOf, s)
<1>1. TextsIn(s) = FlatMap(textsOf, s)
  BY BlockLoops
<1>2. FlatMap(textsOf, s) \in Seq(Texts)
  BY MapTypes, FlatMapType
<1>3. ASSUME NEW b \in Block PROVE allTextOf[b] = FlatMap(textItself, textsOf[b])
  <2>1. CASE b.type = "text"
    <3>1. b.text \in Texts /\ textsOf[b] = <<b.text>> /\ allTextOf[b] = b.text
      BY <2>1, BlockKinds DEF textsOf, allTextOf
    <3>2. \A t \in Texts : FlatMap(textItself, <<t>>) = t
      <4> TAKE t \in Texts
      <4>1. textItself \in [Texts -> Seq(Fragments)]
        BY MapTypes
      <4>2. FlatMap(textItself, <<t>>) = textItself[t]
        BY <4>1, FlatMapSingle
      <4> QED
        BY <4>2 DEF textItself
    <3> QED
      BY <3>1, <3>2, Zenon
  <2>2. CASE b.type # "text"
    <3>1. textsOf[b] = <<>> /\ allTextOf[b] = <<>>
      BY <2>2, BlockKinds DEF textsOf, allTextOf
    <3> QED
      BY <3>1, FlatMapEmpty
  <2> QED
    BY <2>1, <2>2
<1>4. FlatMap(textItself, FlatMap(textsOf, s)) = FlatMap(allTextOf, s)
  <2>1. Composes(allTextOf, textItself, textsOf, Block)
    BY <1>3, MapTypes, FlatMapCompose
  <2> QED
    BY <2>1, Zenon DEF Composes
<1> QED
  BY <1>1, <1>2, <1>4, SaidJoin

\* A content is missing, a string or a sequence of blocks.
LEMMA ContentKinds ==
    ASSUME NEW B, NEW c, IsContent(c, B)
    PROVE  c = NoContent \/ (\E t \in Texts : c = Str(t)) \/ (\E s \in Seq(B) : c = Blocks(s))
  BY DEF IsContent

\* What a block says is its text, or that it is an image.
LEMMA WordsOfBlock ==
    ASSUME NEW b \in Block
    PROVE  /\ b.type = "text" => wordsOf[b] = b.text /\ allTextOf[b] = b.text
           /\ b.type = "image" /\ b.source = "base64" => wordsOf[b] = <<"image">>
           /\ b.type = "image" /\ b.source # "base64" => wordsOf[b] = <<>>
           /\ b.type \notin {"text", "image"} => wordsOf[b] = <<>>
           /\ b.type # "text" => allTextOf[b] = <<>>
           /\ b.type = "text" \/ (b.type = "image" /\ b.source = "base64") <=> partsOf[b] = <<b>>
           /\ partsOf[b] # <<b>> => partsOf[b] = <<>>
<1>1. b.type = "text" => Said(b.text) = b.text
  BY BlockKinds, SaidText
<1>2. "text" \in DOMAIN b <=> b.type = "text"
  BY BlockKinds
<1>3. wordsOf[b] = SaidInBlock(b)
  BY DEF wordsOf
<1>4. <<b>> # <<>>
  OBVIOUS
<1> QED
  BY <1>1, <1>2, <1>3, <1>4 DEF SaidInBlock, allTextOf, partsOf

\* Words of blocks are words, and those that are no image are its text.
LEMMA WordsTyped ==
    /\ wordsOf \in [Block -> Seq(Words)]
    /\ \A b \in Block : FlatMap(wordOf, wordsOf[b]) = allTextOf[b]
<1>1. ASSUME NEW b \in Block
      PROVE  wordsOf[b] \in Seq(Words) /\ FlatMap(wordOf, wordsOf[b]) = allTextOf[b]
  <2>1. CASE b.type = "text"
    <3>1. wordsOf[b] = b.text /\ allTextOf[b] = b.text /\ b.text \in Texts
      BY <2>1, WordsOfBlock, BlockKinds
    <3>2. b.text \in Seq(Fragments) /\ Fragments \subseteq Words
      BY <3>1, TextType DEF Words
    <3>3. b.text \in Seq(Words)
      BY <3>2, LargerSet
    <3>4. \A f \in Fragments : wordOf[f] = <<f>>
      BY TextsAssumption DEF wordOf, Words
    <3>5. FlatMap(wordOf, b.text) = b.text
      <4>1. PICK t \in Seq(Fragments) : t = b.text
        BY <3>2
      <4>2. FlatMap(wordOf, t) = t
        BY <3>4, FlatMapIdentity
      <4> QED
        BY <4>1, <4>2
    <3> QED
      BY <3>1, <3>3, <3>5
  <2>2. CASE b.type = "image" /\ b.source = "base64"
    <3>1. wordsOf[b] = <<"image">> /\ allTextOf[b] = <<>>
      BY <2>2, WordsOfBlock
    <3>2. PICK w : w = "image"
      OBVIOUS
    <3>3. w \in Words /\ wordOf[w] = <<>> /\ <<w>> \in Seq(Words)
      BY <3>2 DEF Words, wordOf
    <3>4. FlatMap(wordOf, <<w>>) = wordOf[w]
      BY <3>3, MapTypes, FlatMapSingle
    <3> QED
      BY <3>1, <3>2, <3>3, <3>4
  <2>3. CASE b.type # "text" /\ ~(b.type = "image" /\ b.source = "base64")
    <3>1. wordsOf[b] = <<>> /\ allTextOf[b] = <<>>
      BY <2>3, WordsOfBlock
    <3>2. <<>> \in Seq(Words)
      BY EmptySeq
    <3> QED
      BY <3>1, <3>2, FlatMapEmpty
  <2> QED
    BY <2>1, <2>2, <2>3
<1>2. wordsOf \in [Block -> Seq(Words)]
  <2>1. \A b \in Block : SaidInBlock(b) \in Seq(Words)
    BY <1>1 DEF wordsOf
  <2> QED
    BY <2>1 DEF wordsOf
<1> QED
  BY <1>1, <1>2

\* Counting takes of a content what is said in it, without the images.
LEMMA AllTextIsSaid ==
    ASSUME NEW c, IsContent(c, Block)
    PROVE  /\ SaidIn(c) \in Seq(Words)
           /\ FlatMap(wordOf, SaidIn(c)) = AllText(c)
<1>1. CASE c = NoContent
  <2>1. SaidIn(c) = <<>> /\ AllText(c) = <<>>
    BY <1>1 DEF NoContent, SaidIn, AllText
  <2> QED
    BY <2>1, EmptySeq, FlatMapEmpty
<1>2. ASSUME NEW t \in Texts, c = Str(t)
      PROVE  SaidIn(c) \in Seq(Words) /\ FlatMap(wordOf, SaidIn(c)) = AllText(c)
  <2>1. SaidIn(c) = t /\ AllText(c) = t
    BY <1>2, SaidText DEF Str, SaidIn, AllText
  <2>2. t \in Seq(Fragments) /\ Fragments \subseteq Words
    BY TextType DEF Words
  <2>3. t \in Seq(Words)
    BY <2>2, LargerSet
  <2>4. \A f \in Fragments : wordOf[f] = <<f>>
    BY TextsAssumption DEF wordOf, Words
  <2>5. FlatMap(wordOf, t) = t
    BY <2>2, <2>4, FlatMapIdentity
  <2> QED
    BY <2>1, <2>3, <2>5
<1>3. ASSUME NEW s \in Seq(Block), c = Blocks(s)
      PROVE  SaidIn(c) \in Seq(Words) /\ FlatMap(wordOf, SaidIn(c)) = AllText(c)
  <2>1. SaidIn(c) = FlatMap(wordsOf, s) /\ AllText(c) = FlatMap(allTextOf, s)
    BY <1>3, BlockLoops
  <2>2. FlatMap(wordsOf, s) \in Seq(Words)
    BY WordsTyped, FlatMapType
  <2>3. Composes(allTextOf, wordOf, wordsOf, Block)
    <3>1. allTextOf \in [Block -> Seq(Words)]
      <4>1. Fragments \subseteq Words
        BY DEF Words
      <4>2. \A b \in Block : allTextOf[b] \in Seq(Words)
        BY <4>1, MapTypes, LargerSet
      <4> QED
        BY <4>2 DEF allTextOf
    <3>2. \A b \in Block : allTextOf[b] = FlatMap(wordOf, wordsOf[b])
      BY WordsTyped
    <3> QED
      BY <3>1, <3>2, MapTypes, WordsTyped, FlatMapCompose
  <2>4. FlatMap(wordOf, FlatMap(wordsOf, s)) = FlatMap(allTextOf, s)
    BY <2>3, Zenon DEF Composes
  <2> QED
    BY <2>1, <2>2, <2>4
<1> QED
  BY <1>1, <1>2, <1>3, ContentKinds

\* The text of a content says all of its text.
LEMMA TextOfContent ==
    ASSUME NEW c, IsContent(c, Block)
    PROVE  /\ extractTextFromContent(c) \in Seq(Frags)
           /\ Said(extractTextFromContent(c)) = AllText(c)
<1>1. CASE c = NoContent
  <2>1. extractTextFromContent(c) = <<>> /\ AllText(c) = <<>>
    BY <1>1 DEF NoContent, extractTextFromContent, AllText
  <2>2. <<>> \in Seq(Frags)
    BY EmptySeq
  <2>3. Said(<<>>) = <<>>
    BY <2>2, SaidIsFlatMap, FlatMapEmpty
  <2> QED
    BY <2>1, <2>2, <2>3
<1>2. ASSUME NEW t \in Texts, c = Str(t)
      PROVE  /\ extractTextFromContent(c) \in Seq(Frags)
             /\ Said(extractTextFromContent(c)) = AllText(c)
  <2>1. extractTextFromContent(c) = t /\ AllText(c) = t
    BY <1>2 DEF Str, extractTextFromContent, AllText
  <2> QED
    BY <2>1, TextType, SaidText
<1>3. ASSUME NEW s \in Seq(Block), c = Blocks(s)
      PROVE  /\ extractTextFromContent(c) \in Seq(Frags)
             /\ Said(extractTextFromContent(c)) = AllText(c)
  <2>1. extractTextFromContent(c) = Join(TextsIn(s))
    BY <1>3 DEF Blocks, extractTextFromContent
  <2>2. AllText(c) = FlatMap(allTextOf, s)
    BY <1>3, BlockLoops
  <2> QED
    BY <2>1, <2>2, SaidTexts
<1> QED
  BY <1>1, <1>2, <1>3, ContentKinds

-----------------------------------------------------------------------------
(***************************************************************************)
(* The messages of a request.                                              *)
(***************************************************************************)
UserMessage ==
    [role : {"user"}, content : Seq(Frags) \cup {PrintedNil}, parts : Seq(Part),
     calls : {<<>>}, id : {NoId}]
AssistantMessage ==
    [role : {"assistant"}, content : Seq(Frags), parts : {<<>>}, calls : Seq(ToolIds), id : {NoId}]
SystemMessages ==
    [role : {"system"}, content : Seq(Frags), parts : {<<>>}, calls : {<<>>}, id : {NoId}]
ToolMessage ==
    [role : {"tool"}, content : {ResultText(c) : c \in Results}, parts : {<<>>},
     calls : {<<>>}, id : ToolIds]

\* Messages of the fields their roles allow.
Message ==
    {m \in UserMessage \cup AssistantMessage \cup SystemMessages \cup ToolMessage :
        /\ m.parts # <<>> => m.content = <<>>
        /\ m.role = "tool" => ~IsBlank(m.content)}

\* A turn of a role becomes messages of that role, and of tools.
MessageOf(role) == {m \in Message : m.role \in {role, "tool"}}

\* The messages of tools, and all others.
Tool == {m \in Message : m.role = "tool"}
NoTool == {m \in Message : m.role # "tool"}

saidAs(role) == [m \in Message |-> IF m.role = role THEN SaidOf(m) ELSE <<>>]
spokenOf == [m \in Message |-> IF m.role = "tool" THEN <<>> ELSE SaidOf(m)]
callsOf == [m \in Message |-> m.calls]
idsOf == [m \in Message |-> IF m.role = "tool" THEN <<m.id>> ELSE <<>>]

\* The message made of a text and of parts: see Msg.
LEMMA MadeMessages ==
    ASSUME NEW text, NEW parts, NEW calls, NEW id
    PROVE  /\ Msg("user", text) = [role |-> "user", content |-> text, parts |-> <<>>,
                                   calls |-> <<>>, id |-> NoId]
           /\ Msg("system", text) = [role |-> "system", content |-> text, parts |-> <<>>,
                                     calls |-> <<>>, id |-> NoId]
           /\ [Msg("user", <<>>) EXCEPT !.parts = parts] =
                  [role |-> "user", content |-> <<>>, parts |-> parts, calls |-> <<>>, id |-> NoId]
           /\ [Msg("assistant", text) EXCEPT !.calls = calls] =
                  [role |-> "assistant", content |-> text, parts |-> <<>>, calls |-> calls,
                   id |-> NoId]
           /\ ToolMsg(id, text) = [role |-> "tool", content |-> text, parts |-> <<>>,
                                   calls |-> <<>>, id |-> id]
  BY DEF Msg, ToolMsg

\* No text of fragments is what the code prints for nil.
LEMMA NeverPrintedNil == PrintedNil \notin Seq(Frags)
<1>1. PrintedNil[1] = "<nil>" /\ 1 \in DOMAIN PrintedNil
  BY DEF PrintedNil
<1>2. "<nil>" \notin Frags
  BY TextsAssumption DEF Frags, newline
<1> QED
  BY <1>1, <1>2, ElementsIn

\* Parts are blocks that are kept.
LEMMA PartFacts ==
    ASSUME NEW x \in Part
    PROVE  x \in Block /\ partsOf[x] = <<x>>
<1>1. x \in Block
  BY DEF Part, Block, UserBlock, TextBlock, ImagePart, ImageBlock
<1>2. x.type = "text" \/ (x.type = "image" /\ x.source = "base64")
  BY DEF Part, TextBlock, ImagePart
<1> QED
  BY <1>1, <1>2 DEF partsOf

\* What a message says, by its content and its parts.
LEMMA SaidOfMessage ==
    ASSUME NEW m, m.content \in Seq(Frags), m.parts \in Seq(Part)
    PROVE  /\ SaidOf(m) = Said(m.content) \o FlatMap(wordsOf, m.parts)
           /\ SaidOf(m) \in Seq(Words)
           /\ m.parts = <<>> => SaidOf(m) = Said(m.content)
           /\ m.content = <<>> => SaidOf(m) = FlatMap(wordsOf, m.parts)
<1> DEFINE a == Said(m.content)
           b == FlatMap(wordsOf, m.parts)
<1>1. m.parts \in Seq(Block)
  BY PartFacts, LargerSet
<1>2. Collect(m.parts, SaidInBlock) = b
  <2>1. \A i \in DOMAIN m.parts : m.parts[i] \in Block
    BY <1>1, ElementsIn
  <2> QED
    BY <2>1 DEF Collect, FlatMap, Mapped, wordsOf
<1>3. SaidOf(m) = a \o b
  BY <1>2, NeverPrintedNil DEF SaidOf
<1>4. a \in Seq(Words) /\ b \in Seq(Words)
  <2>1. a \in Seq(Fragments)
    <3>1. a = FlatMap(keptOf, m.content)
      BY SaidIsFlatMap
    <3>2. FlatMap(keptOf, m.content) \in Seq(Fragments)
      <4> HIDE DEF a, b
      <4> QED
        BY MapTypes, FlatMapType
    <3> QED
      BY <3>1, <3>2, Zenon
  <2>2. Fragments \subseteq Words
    BY DEF Words
  <2> QED
    BY <1>1, <2>1, <2>2, LargerSet, WordsTyped, FlatMapType
<1>5. m.parts = <<>> => b = <<>>
  BY FlatMapEmpty
<1>6. m.content = <<>> => a = <<>>
  BY SaidIsFlatMap, FlatMapEmpty
<1> HIDE DEF a, b
<1>7. a \o b \in Seq(Words) /\ a \o <<>> = a /\ <<>> \o b = b
  BY <1>4, ConcatProperties
<1>8. m.parts = <<>> => SaidOf(m) = a
  BY <1>3, <1>5, <1>7
<1>9. m.content = <<>> => SaidOf(m) = b
  BY <1>3, <1>6, <1>7
<1> QED
  BY <1>3, <1>7, <1>8, <1>9 DEF a, b

\* The measures of a message.
LEMMA MessageTypes ==
    /\ \A role \in {"system", "user", "assistant"} : saidAs(role) \in [Message -> Seq(Words)]
    /\ spokenOf \in [Message -> Seq(Words)]
    /\ callsOf \in [Message -> Seq(ToolIds)]
    /\ idsOf \in [Message -> Seq(ToolIds)]
<1>1. ASSUME NEW m \in Message, m.role # "tool" PROVE SaidOf(m) \in Seq(Words)
  <2>1. CASE m.content = PrintedNil
    BY <2>1, EmptySeq DEF SaidOf
  <2>2. CASE m.content # PrintedNil
    <3>1. m \in UserMessage \cup AssistantMessage \cup SystemMessages
      BY <1>1 DEF Message, ToolMessage
    <3>2. m.content \in Seq(Frags)
      BY <2>2, <3>1 DEF UserMessage, AssistantMessage, SystemMessages
    <3>3. m.parts \in Seq(Part)
      BY <3>1, EmptySeq DEF UserMessage, AssistantMessage, SystemMessages
    <3> QED
      BY <3>2, <3>3, SaidOfMessage
  <2> QED
    BY <2>1, <2>2
<1>2. \A S : <<>> \in Seq(S)
  BY EmptySeq
<1>3. ASSUME NEW role \in {"system", "user", "assistant"}
      PROVE  saidAs(role) \in [Message -> Seq(Words)]
  BY <1>1, <1>2 DEF saidAs
<1>4. spokenOf \in [Message -> Seq(Words)]
  BY <1>1, <1>2 DEF spokenOf
<1>5. callsOf \in [Message -> Seq(ToolIds)]
  BY <1>2 DEF callsOf, Message, UserMessage, AssistantMessage, SystemMessages, ToolMessage
<1>6. idsOf \in [Message -> Seq(ToolIds)]
  <2>1. \A m \in Message : m.role = "tool" => m.id \in ToolIds
    BY DEF Message, UserMessage, AssistantMessage, SystemMessages, ToolMessage
  <2>2. \A x \in ToolIds : <<x>> \in Seq(ToolIds)
    OBVIOUS
  <2> QED
    BY <1>2, <2>1, <2>2 DEF idsOf
<1> QED
  BY <1>3, <1>4, <1>5, <1>6

-----------------------------------------------------------------------------
(***************************************************************************)
(* One turn: what becomes of it says what it says.                         *)
(***************************************************************************)
\* The messages ms keep what content c, of a turn of the given role, says.
Kept(ms, role, c) ==
    /\ ms \in Seq(MessageOf(role))
    /\ FlatMap(saidAs(role), ms) = SaidIn(c)
    /\ FlatMap(callsOf, ms) = IdsIn(c, "tool_use")
    /\ FlatMap(idsOf, ms) = IdsIn(c, "tool_result")

\* Content without something to keep may be dropped.
LEMMA KeptByNone ==
    ASSUME NEW role, NEW c, SaidIn(c) = <<>>, IdsIn(c, "tool_use") = <<>>,
           IdsIn(c, "tool_result") = <<>>
    PROVE  Kept(<<>>, role, c)
<1>1. <<>> \in Seq(MessageOf(role))
  BY EmptySeq
<1>2. \A g : FlatMap(g, <<>>) = <<>>
  BY FlatMapEmpty
<1> QED
  BY <1>1, <1>2, Zenon DEF Kept

\* It is kept by a single message that says the same.
LEMMA KeptByOne ==
    ASSUME NEW role \in {"system", "user", "assistant"}, NEW c, NEW m \in Message, m.role = role,
           SaidOf(m) = SaidIn(c), m.calls = IdsIn(c, "tool_use"), IdsIn(c, "tool_result") = <<>>
    PROVE  Kept(<<m>>, role, c)
<1>1. m \in MessageOf(role)
  BY DEF MessageOf
<1>2. <<m>> \in Seq(MessageOf(role))
  BY <1>1
<1>3. FlatMap(saidAs(role), <<m>>) = saidAs(role)[m]
  <2>1. saidAs(role) \in [Message -> Seq(Words)]
    BY MessageTypes
  <2> QED
    BY <2>1, FlatMapSingle
<1>4. FlatMap(callsOf, <<m>>) = callsOf[m]
  BY MessageTypes, FlatMapSingle
<1>5. FlatMap(idsOf, <<m>>) = idsOf[m]
  BY MessageTypes, FlatMapSingle
<1>6. saidAs(role)[m] = SaidOf(m) /\ callsOf[m] = m.calls /\ idsOf[m] = <<>>
  BY DEF saidAs, callsOf, idsOf
<1> QED
  BY <1>2, <1>3, <1>4, <1>5, <1>6 DEF Kept

\* A content of fewer kinds of blocks is one of more.
LEMMA MoreBlocks ==
    ASSUME NEW B, NEW D, B \subseteq D, NEW c, IsContent(c, B)
    PROVE  IsContent(c, D)
<1>1. \A s \in Seq(B) : s \in Seq(D)
  BY LargerSet
<1> QED
  BY <1>1 DEF IsContent

Without(type) == {b \in Block : b.type # type}

\* Where there are no images, all that is said is text.
LEMMA SaidWithoutImages ==
    ASSUME NEW c, IsContent(c, Without("image"))
    PROVE  SaidIn(c) = AllText(c)
<1>1. CASE c = NoContent
  BY <1>1 DEF NoContent, SaidIn, AllText
<1>2. ASSUME NEW t \in Texts, c = Str(t) PROVE SaidIn(c) = AllText(c)
  BY <1>2, SaidText DEF Str, SaidIn, AllText
<1>3. ASSUME NEW s \in Seq(Without("image")), c = Blocks(s) PROVE SaidIn(c) = AllText(c)
  <2>1. s \in Seq(Block)
    BY LargerSet DEF Without
  <2>2. \A b \in Without("image") : wordsOf[b] = allTextOf[b]
    BY WordsOfBlock DEF Without
  <2>3. FlatMap(wordsOf, s) = FlatMap(allTextOf, s)
    BY <2>2, FlatMapSame
  <2> QED
    BY <1>3, <2>1, <2>3, BlockLoops
<1> QED
  BY <1>1, <1>2, <1>3, ContentKinds

\* Where there are no calls there are no ids of calls.
LEMMA NoCalls ==
    ASSUME NEW c, IsContent(c, Without("tool_use"))
    PROVE  IdsIn(c, "tool_use") = <<>>
<1>1. CASE c.kind # "blocks"
  BY <1>1 DEF IdsIn
<1>2. ASSUME NEW s \in Seq(Without("tool_use")), c = Blocks(s) PROVE IdsIn(c, "tool_use") = <<>>
  <2>1. s \in Seq(Block)
    BY LargerSet DEF Without
  <2>2. \A b \in Without("tool_use") : usesOf[b] = <<>>
    BY DEF Without, usesOf
  <2>3. FlatMap(usesOf, s) = <<>>
    BY <2>2, FlatMapNothing
  <2> QED
    BY <1>2, <2>1, <2>3, BlockLoops
<1>3. c.kind = "blocks" => \E s \in Seq(Without("tool_use")) : c = Blocks(s)
  BY DEF IsContent, NoContent, Str
<1> QED
  BY <1>1, <1>2, <1>3

\* Where there are no results there are no ids of results.
LEMMA NoResults ==
    ASSUME NEW c, IsContent(c, Without("tool_result"))
    PROVE  IdsIn(c, "tool_result") = <<>>
<1>1. CASE c.kind # "blocks"
  BY <1>1 DEF IdsIn
<1>2. ASSUME NEW s \in Seq(Without("tool_result")), c = Blocks(s)
      PROVE  IdsIn(c, "tool_result") = <<>>
  <2>1. s \in Seq(Block)
    BY LargerSet DEF Without
  <2>2. \A b \in Without("tool_result") : answersOf[b] = <<>>
    BY DEF Without, answersOf
  <2>3. FlatMap(answersOf, s) = <<>>
    BY <2>2, FlatMapNothing
  <2> QED
    BY <1>2, <2>1, <2>3, BlockLoops
<1>3. c.kind = "blocks" => \E s \in Seq(Without("tool_result")) : c = Blocks(s)
  BY DEF IsContent, NoContent, Str
<1> QED
  BY <1>1, <1>2, <1>3

\* Which blocks the turns of a role do without.
LEMMA KindsOfBlocks ==
    /\ TextBlock \subseteq Block
    /\ TextBlock \subseteq Without("image")
    /\ TextBlock \subseteq Without("tool_use")
    /\ TextBlock \subseteq Without("tool_result")
    /\ UserBlock \subseteq Block
    /\ UserBlock \subseteq Without("tool_use")
    /\ AssistantBlock \subseteq Block
    /\ AssistantBlock \subseteq Without("image")
    /\ AssistantBlock \subseteq Without("tool_result")
  BY DEF Without, Block, UserBlock, AssistantBlock, TextBlock, ImageBlock, ThinkingBlock,
         ToolUseBlock, ToolResultBlock

\* A turn of the role system.
LEMMA SystemKept ==
    ASSUME NEW c, IsContent(c, TextBlock)
    PROVE  Kept(convertClaudeSystemMessage(c), "system", c)
<1> DEFINE text == extractTextFromContent(c)
           m == Msg("system", text)
<1>1. /\ IsContent(c, Block) /\ IsContent(c, Without("image"))
      /\ IsContent(c, Without("tool_use")) /\ IsContent(c, Without("tool_result"))
  BY KindsOfBlocks, MoreBlocks
<1>2. text \in Seq(Frags) /\ Said(text) = SaidIn(c)
  BY <1>1, TextOfContent, SaidWithoutImages
<1>3. IdsIn(c, "tool_use") = <<>> /\ IdsIn(c, "tool_result") = <<>>
  BY <1>1, NoCalls, NoResults
<1>4. m = [role |-> "system", content |-> text, parts |-> <<>>, calls |-> <<>>, id |-> NoId]
  BY MadeMessages
<1>5. convertClaudeSystemMessage(c) = <<m>>
  BY DEF convertClaudeSystemMessage
<1> HIDE DEF text, m
<1>6. m \in Message /\ m.role = "system" /\ m.calls = <<>> /\ m.content = text /\ m.parts = <<>>
  BY <1>2, <1>4 DEF Message, SystemMessages
<1>7. SaidOf(m) = SaidIn(c)
  <2>1. m.content \in Seq(Frags) /\ m.parts \in Seq(Part)
    BY <1>2, <1>6, EmptySeq
  <2>2. SaidOf(m) = Said(m.content)
    BY <1>6, <2>1, SaidOfMessage
  <2> QED
    BY <1>2, <1>6, <2>2
<1> QED
  BY <1>3, <1>5, <1>6, <1>7, KeptByOne

\* The ids of a content's calls.
LEMMA CallIds ==
    ASSUME NEW c, IsContent(c, Block)
    PROVE  IdsIn(c, "tool_use") \in Seq(ToolIds)
<1>1. CASE c.kind # "blocks"
  BY <1>1, EmptySeq DEF IdsIn
<1>2. CASE c.kind = "blocks"
  <2>1. PICK s \in Seq(Block) : c = Blocks(s)
    BY <1>2 DEF IsContent, NoContent, Str
  <2>2. IdsIn(c, "tool_use") = FlatMap(usesOf, s)
    BY <2>1, BlockLoops
  <2>3. FlatMap(usesOf, s) \in Seq(ToolIds)
    BY MapTypes, FlatMapType
  <2> QED
    BY <2>2, <2>3
<1> QED
  BY <1>1, <1>2

\* A turn of the assistant's.
LEMMA AssistantKept ==
    ASSUME NEW c, IsContent(c, AssistantBlock)
    PROVE  Kept(convertClaudeAssistantMessage(c), "assistant", c)
<1> DEFINE text == extractTextFromContent(c)
           calls == IdsIn(c, "tool_use")
           m == [Msg("assistant", text) EXCEPT !.calls = calls]
<1>1. /\ IsContent(c, Block) /\ IsContent(c, Without("image"))
      /\ IsContent(c, Without("tool_result"))
  BY KindsOfBlocks, MoreBlocks
<1>2. text \in Seq(Frags) /\ Said(text) = SaidIn(c)
  BY <1>1, TextOfContent, SaidWithoutImages
<1>3. IdsIn(c, "tool_result") = <<>>
  BY <1>1, NoResults
<1>4. m = [role |-> "assistant", content |-> text, parts |-> <<>>, calls |-> calls, id |-> NoId]
  BY MadeMessages
<1>5. convertClaudeAssistantMessage(c) = IF text = <<>> /\ calls = <<>> THEN <<>> ELSE <<m>>
  BY DEF convertClaudeAssistantMessage
<1>6. calls \in Seq(ToolIds)
  BY <1>1, CallIds
<1> HIDE DEF m
<1>7. CASE text = <<>> /\ calls = <<>>
  <2>1. SaidIn(c) = <<>>
    BY <1>2, <1>7, SaidIsFlatMap, FlatMapEmpty
  <2> QED
    BY <1>3, <1>5, <1>7, <2>1, KeptByNone
<1>8. CASE ~(text = <<>> /\ calls = <<>>)
  <2> HIDE DEF text, calls
  <2>1. /\ m.role = "assistant" /\ m.calls = calls /\ m.content = text /\ m.parts = <<>>
        /\ m \in AssistantMessage
    BY <1>2, <1>4, <1>6 DEF AssistantMessage
  <2>2. m \in Message
    BY <2>1 DEF Message
  <2>3. SaidOf(m) = SaidIn(c)
    <3>1. m.content \in Seq(Frags) /\ m.parts \in Seq(Part)
      BY <1>2, <2>1, EmptySeq
    <3>2. SaidOf(m) = Said(m.content)
      BY <2>1, <3>1, SaidOfMessage
    <3> QED
      BY <1>2, <2>1, <3>2
  <2>4. Kept(<<m>>, "assistant", c)
    BY <1>3, <2>1, <2>2, <2>3, KeptByOne DEF calls
  <2> QED
    BY <1>5, <1>8, <2>4
<1> QED
  BY <1>7, <1>8

\* What is left of a user's turn without the results.
RestBlock == TextBlock \cup ImageBlock

\* A user's turn, or the rest of it.
LEMMA UserMessageKept ==
    ASSUME NEW c, IsContent(c, RestBlock)
    PROVE  Kept(convertClaudeUserMessage(c), "user", c)
<1>1. RestBlock \subseteq Block /\ RestBlock \subseteq Without("tool_use")
      /\ RestBlock \subseteq Without("tool_result")
  BY DEF RestBlock, Without, Block, UserBlock, AssistantBlock, TextBlock, ImageBlock
<1>2. /\ IsContent(c, Block)
      /\ IdsIn(c, "tool_use") = <<>> /\ IdsIn(c, "tool_result") = <<>>
  BY <1>1, MoreBlocks, NoCalls, NoResults
<1>3. CASE c = NoContent
  <2> DEFINE m == Msg("user", PrintedNil)
  <2>1. convertClaudeUserMessage(c) = <<m>> /\ SaidIn(c) = <<>>
    BY <1>3 DEF NoContent, convertClaudeUserMessage, SaidIn
  <2>2. m = [role |-> "user", content |-> PrintedNil, parts |-> <<>>, calls |-> <<>>, id |-> NoId]
    BY MadeMessages
  <2> HIDE DEF m
  <2>3. m \in UserMessage /\ m.content = PrintedNil /\ m.role = "user" /\ m.calls = <<>>
        /\ m.parts = <<>>
    BY <2>2, EmptySeq DEF UserMessage
  <2>4. m \in Message
    BY <2>3 DEF Message
  <2>5. SaidOf(m) = SaidIn(c)
    BY <2>1, <2>3 DEF SaidOf
  <2> QED
    BY <1>2, <2>1, <2>3, <2>4, <2>5, KeptByOne
<1>4. ASSUME NEW s \in Seq(RestBlock), c = Blocks(s), Has(s, "image")
      PROVE  Kept(convertClaudeUserMessage(c), "user", c)
  <2> DEFINE parts == Parts(s)
             m == [Msg("user", <<>>) EXCEPT !.parts = parts]
  <2>1. s \in Seq(Block)
    BY <1>1, LargerSet
  <2>2. parts = FlatMap(partsOf, s) /\ SaidIn(c) = FlatMap(wordsOf, s)
    BY <1>4, <2>1, BlockLoops
  <2>3. convertClaudeUserMessage(c) = IF parts = <<>> THEN <<>> ELSE <<m>>
    BY <1>4 DEF convertClaudeUserMessage, Blocks
  <2>4. parts \in Seq(Part)
    <3>1. FlatMap(partsOf, s) \in Seq(Part)
      BY <2>1, MapTypes, FlatMapType
    <3> QED
      BY <2>2, <3>1
  <2>5. m = [role |-> "user", content |-> <<>>, parts |-> parts, calls |-> <<>>, id |-> NoId]
    BY MadeMessages
  <2> HIDE DEF parts, m
  <2>6. FlatMap(wordsOf, parts) = SaidIn(c)
    <3>1. ASSUME NEW b \in Block PROVE wordsOf[b] = FlatMap(wordsOf, partsOf[b])
      <4>1. CASE partsOf[b] = <<b>>
        <5>1. FlatMap(wordsOf, <<b>>) = wordsOf[b]
          BY WordsTyped, FlatMapSingle
        <5> QED
          BY <4>1, <5>1
      <4>2. CASE partsOf[b] # <<b>>
        <5>1. partsOf[b] = <<>> /\ wordsOf[b] = <<>>
          BY <4>2, WordsOfBlock
        <5> QED
          BY <5>1, FlatMapEmpty
      <4> QED
        BY <4>1, <4>2
    <3>2. partsOf \in [Block -> Seq(Block)]
      <4>1. Part \subseteq Block
        BY PartFacts
      <4>2. \A b \in Block : partsOf[b] \in Seq(Block)
        BY <4>1, MapTypes, LargerSet
      <4> QED
        BY <4>2 DEF partsOf
    <3>3. Composes(wordsOf, wordsOf, partsOf, Block)
      BY <3>1, <3>2, WordsTyped, FlatMapCompose
    <3>4. FlatMap(wordsOf, FlatMap(partsOf, s)) = FlatMap(wordsOf, s)
      BY <2>1, <3>3, Zenon DEF Composes
    <3> QED
      BY <2>2, <3>4
  <2>7. CASE parts = <<>>
    <3>1. SaidIn(c) = <<>>
      BY <2>6, <2>7, FlatMapEmpty
    <3> QED
      BY <1>2, <2>3, <2>7, <3>1, KeptByNone
  <2>8. CASE parts # <<>>
    <3>1. /\ m.role = "user" /\ m.calls = <<>> /\ m.content = <<>> /\ m.parts = parts
          /\ m \in UserMessage
      BY <2>4, <2>5, EmptySeq DEF UserMessage
    <3>2. m \in Message
      BY <3>1 DEF Message
    <3>3. SaidOf(m) = SaidIn(c)
      <4>1. m.content \in Seq(Frags) /\ m.parts \in Seq(Part)
        BY <2>4, <3>1, EmptySeq
      <4>2. SaidOf(m) = FlatMap(wordsOf, m.parts)
        BY <3>1, <4>1, SaidOfMessage
      <4> QED
        BY <2>6, <3>1, <4>2
    <3>4. Kept(<<m>>, "user", c)
      BY <1>2, <3>1, <3>2, <3>3, KeptByOne
    <3> QED
      BY <2>3, <2>8, <3>4
  <2> QED
    BY <2>7, <2>8
<1>5. ASSUME IsContent(c, Without("image")), c # NoContent,
             c.kind = "blocks" => ~Has(c.blocks, "image")
      PROVE  Kept(convertClaudeUserMessage(c), "user", c)
  <2> DEFINE text == extractTextFromContent(c)
             m == Msg("user", text)
  <2>1. c.kind # "none"
    BY <1>5 DEF IsContent, Str
  <2>2. convertClaudeUserMessage(c) = IF text = <<>> THEN <<>> ELSE <<m>>
    BY <1>5, <2>1 DEF convertClaudeUserMessage
  <2>3. text \in Seq(Frags) /\ Said(text) = SaidIn(c)
    BY <1>2, <1>5, TextOfContent, SaidWithoutImages
  <2>4. m = [role |-> "user", content |-> text, parts |-> <<>>, calls |-> <<>>, id |-> NoId]
    BY MadeMessages
  <2> HIDE DEF text, m
  <2>5. CASE text = <<>>
    <3>1. SaidIn(c) = <<>>
      BY <2>3, <2>5, SaidIsFlatMap, FlatMapEmpty
    <3> QED
      BY <1>2, <2>2, <2>5, <3>1, KeptByNone
  <2>6. CASE text # <<>>
    <3>1. /\ m.role = "user" /\ m.calls = <<>> /\ m.content = text /\ m.parts = <<>>
          /\ m \in UserMessage
      BY <2>3, <2>4, EmptySeq DEF UserMessage
    <3>2. m \in Message
      BY <3>1 DEF Message
    <3>3. SaidOf(m) = SaidIn(c)
      <4>1. m.content \in Seq(Frags) /\ m.parts \in Seq(Part)
        BY <2>3, <3>1, EmptySeq
      <4>2. SaidOf(m) = Said(m.content)
        BY <3>1, <4>1, SaidOfMessage
      <4> QED
        BY <2>3, <3>1, <4>2
    <3>4. Kept(<<m>>, "user", c)
      BY <1>2, <3>1, <3>2, <3>3, KeptByOne
    <3> QED
      BY <2>2, <2>6, <3>4
  <2> QED
    BY <2>5, <2>6
<1>6. ASSUME NEW t \in Texts, c = Str(t)
      PROVE  Kept(convertClaudeUserMessage(c), "user", c)
  BY <1>5, <1>6 DEF IsContent, NoContent, Str
<1>7. ASSUME NEW s \in Seq(RestBlock), c = Blocks(s), ~Has(s, "image")
      PROVE  Kept(convertClaudeUserMessage(c), "user", c)
  <2>1. \A i \in DOMAIN s : s[i] \in Without("image")
    <3>1. \A i \in DOMAIN s : s[i] \in Block
      BY <1>1, ElementsIn
    <3> QED
      BY <1>7, <3>1 DEF Has, Without
  <2>2. s \in Seq(Without("image"))
    BY <2>1
  <2>3. c.kind = "blocks" /\ c.blocks = s /\ c # NoContent
    BY <1>7 DEF Blocks, NoContent
  <2> QED
    BY <1>5, <1>7, <2>2, <2>3 DEF IsContent
<1> QED
  BY <1>3, <1>4, <1>6, <1>7, ContentKinds

\* The messages the results of a user's turn become.
LEMMA ResultsKept ==
    ASSUME NEW s \in Seq(UserBlock)
    PROVE  /\ FlatMap(resultsOf, s) \in Seq(Tool)
           /\ FlatMap(resultsOf, s) \in Seq(MessageOf("user"))
           /\ FlatMap(saidAs("user"), FlatMap(resultsOf, s)) = <<>>
           /\ FlatMap(callsOf, FlatMap(resultsOf, s)) = <<>>
           /\ FlatMap(idsOf, FlatMap(resultsOf, s)) = FlatMap(answersOf, s)
<1> DEFINE results == FlatMap(resultsOf, s)
<1>1. s \in Seq(Block)
  BY KindsOfBlocks, LargerSet
<1>2. ASSUME NEW b \in Block, b.type = "tool_result"
      PROVE  /\ ToolMsg(b.id, ResultText(b.result)) \in Tool
             /\ ToolMsg(b.id, ResultText(b.result)).id = b.id
  <2> DEFINE text == ResultText(b.result)
             m == ToolMsg(b.id, text)
  <2>1. m = [role |-> "tool", content |-> text, parts |-> <<>>, calls |-> <<>>, id |-> b.id]
    BY MadeMessages
  <2>2. b.id \in ToolIds /\ b.result \in Results
    BY <1>2, BlockKinds
  <2>3. text \in {ResultText(c) : c \in Results}
    BY <2>2
  <2>4. ~IsBlank(text)
    <3>1. ~IsBlank(NoOutput)
      <4>1. NoOutput[1] = "(no output)" /\ 1 \in DOMAIN NoOutput
        BY DEF NoOutput
      <4>2. "(no output)" \notin Blanks \cup {newline}
        BY TextsAssumption DEF newline
      <4> QED
        BY <4>1, <4>2 DEF IsBlank
    <3> QED
      BY <3>1 DEF ResultText
  <2> HIDE DEF text, m
  <2>5. m \in ToolMessage /\ m.role = "tool" /\ m.content = text /\ m.parts = <<>> /\ m.id = b.id
    BY <2>1, <2>2, <2>3 DEF ToolMessage
  <2>6. m \in Message
    BY <2>4, <2>5 DEF Message
  <2> QED
    BY <2>5, <2>6 DEF Tool, m, text
<1>3. resultsOf \in [Block -> Seq(Tool)]
  <2>1. <<>> \in Seq(Tool) /\ \A x \in Tool : <<x>> \in Seq(Tool)
    BY EmptySeq
  <2> QED
    BY <1>2, <2>1 DEF resultsOf
<1>4. results \in Seq(Tool)
  BY <1>1, <1>3, FlatMapType
<1>5. results \in Seq(MessageOf("user"))
  <2>1. Tool \subseteq MessageOf("user")
    BY DEF Tool, MessageOf
  <2> QED
    BY <1>4, <2>1, LargerSet
<1>6. FlatMap(saidAs("user"), results) = <<>>
  <2>1. \A m \in Tool : saidAs("user")[m] = <<>>
    BY DEF Tool, saidAs
  <2> HIDE DEF results
  <2> QED
    BY <1>4, <2>1, FlatMapNothing
<1>7. FlatMap(callsOf, results) = <<>>
  <2>1. \A m \in Tool : callsOf[m] = <<>>
    BY DEF Tool, callsOf, Message, UserMessage, AssistantMessage, SystemMessages, ToolMessage
  <2> HIDE DEF results
  <2> QED
    BY <1>4, <2>1, FlatMapNothing
<1>8. FlatMap(idsOf, results) = FlatMap(answersOf, s)
  <2>1. ASSUME NEW b \in Block PROVE answersOf[b] = FlatMap(idsOf, resultsOf[b])
    <3>1. CASE b.type = "tool_result"
      <4>1. PICK m : m = ToolMsg(b.id, ResultText(b.result))
        OBVIOUS
      <4>2. m \in Tool /\ m.id = b.id
        BY <1>2, <3>1, <4>1
      <4>3. m \in Message /\ m.role = "tool"
        BY <4>2 DEF Tool
      <4>4. FlatMap(idsOf, <<m>>) = idsOf[m]
        BY <4>3, MessageTypes, FlatMapSingle
      <4>5. idsOf[m] = <<b.id>>
        BY <4>2, <4>3 DEF idsOf
      <4>6. resultsOf[b] = <<m>> /\ answersOf[b] = <<b.id>>
        BY <3>1, <4>1 DEF resultsOf, answersOf
      <4> QED
        BY <4>4, <4>5, <4>6
    <3>2. CASE b.type # "tool_result"
      <4>1. resultsOf[b] = <<>> /\ answersOf[b] = <<>>
        BY <3>2 DEF resultsOf, answersOf
      <4> QED
        BY <4>1, FlatMapEmpty
    <3> QED
      BY <3>1, <3>2
  <2>2. resultsOf \in [Block -> Seq(Message)]
    <3>1. \A b \in Block : resultsOf[b] \in Seq(Message)
      <4>1. Tool \subseteq Message
        BY DEF Tool
      <4> QED
        BY <1>3, <4>1, LargerSet
    <3> QED
      BY <3>1 DEF resultsOf
  <2>3. Composes(answersOf, idsOf, resultsOf, Block)
    BY <2>1, <2>2, MapTypes, MessageTypes, FlatMapCompose
  <2> QED
    BY <1>1, <2>3, Zenon DEF Composes
<1> QED
  BY <1>4, <1>5, <1>6, <1>7, <1>8

\* A map that gives nothing for results gives the same without them.
LEMMA RestGives ==
    ASSUME NEW s \in Seq(Block), NEW A, NEW g \in [Block -> Seq(A)],
           \A b \in Block : b.type = "tool_result" => g[b] = <<>>
    PROVE  FlatMap(g, nonToolResultBlocks(s)) = FlatMap(g, s)
<1>1. ASSUME NEW b \in Block PROVE g[b] = FlatMap(g, restOf[b])
  <2>1. CASE b.type = "tool_result"
    <3>1. restOf[b] = <<>> /\ g[b] = <<>>
      BY <2>1 DEF restOf
    <3> QED
      BY <3>1, FlatMapEmpty
  <2>2. CASE b.type # "tool_result"
    <3>1. restOf[b] = <<b>>
      BY <2>2 DEF restOf
    <3>2. FlatMap(g, <<b>>) = g[b]
      BY FlatMapSingle
    <3> QED
      BY <3>1, <3>2
  <2> QED
    BY <2>1, <2>2
<1>2. Composes(g, g, restOf, Block)
  BY <1>1, MapTypes, FlatMapCompose
<1>3. nonToolResultBlocks(s) = FlatMap(restOf, s)
  BY BlockLoops
<1> QED
  BY <1>2, <1>3, Zenon DEF Composes

\* What is left without the results says the same.
LEMMA RestKept ==
    ASSUME NEW s \in Seq(UserBlock)
    PROVE  /\ nonToolResultBlocks(s) \in Seq(RestBlock)
           /\ SaidIn(Blocks(nonToolResultBlocks(s))) = SaidIn(Blocks(s))
<1> DEFINE rest == nonToolResultBlocks(s)
<1>1. s \in Seq(Block)
  BY KindsOfBlocks, LargerSet
<1>2. rest = FlatMap(restOf, s)
  BY <1>1, BlockLoops
<1>3. rest \in Seq(RestBlock)
  <2> DEFINE only == [b \in UserBlock |-> restOf[b]]
  <2>1. ASSUME NEW b \in UserBlock PROVE restOf[b] \in Seq(RestBlock)
    <3>1. b \in Block
      BY KindsOfBlocks
    <3>2. CASE b.type = "tool_result"
      BY <3>1, <3>2, EmptySeq DEF restOf
    <3>3. CASE b.type # "tool_result"
      <4>1. b \in RestBlock
        BY <3>3 DEF UserBlock, RestBlock, ToolResultBlock
      <4>2. restOf[b] = <<b>>
        BY <3>1, <3>3 DEF restOf
      <4> QED
        BY <4>1, <4>2
    <3> QED
      BY <3>2, <3>3
  <2>2. only \in [UserBlock -> Seq(RestBlock)] /\ \A b \in UserBlock : only[b] = restOf[b]
    BY <2>1
  <2> HIDE DEF only, rest
  <2>3. FlatMap(only, s) \in Seq(RestBlock)
    BY <2>2, FlatMapType
  <2>4. FlatMap(only, s) = FlatMap(restOf, s)
    BY <2>2, FlatMapSame
  <2> QED
    BY <1>2, <2>3, <2>4
<1>4. SaidIn(Blocks(rest)) = SaidIn(Blocks(s))
  <2>1. RestBlock \subseteq Block
    BY DEF RestBlock, Block, UserBlock
  <2>2. rest \in Seq(Block)
    BY <1>3, <2>1, LargerSet
  <2> HIDE DEF rest
  <2>3. SaidIn(Blocks(rest)) = FlatMap(wordsOf, rest) /\ SaidIn(Blocks(s)) = FlatMap(wordsOf, s)
    BY <1>1, <2>2, BlockLoops
  <2>4. \A b \in Block : b.type = "tool_result" => wordsOf[b] = <<>>
    BY WordsOfBlock
  <2>5. FlatMap(wordsOf, rest) = FlatMap(wordsOf, s)
    BY <1>1, <2>4, WordsTyped, RestGives DEF rest
  <2> QED
    BY <2>3, <2>5
<1> QED
  BY <1>3, <1>4

\* A user's content without results.
LEMMA RestIsAll ==
    ASSUME NEW c, IsContent(c, UserBlock), ~containsToolResultBlock(c)
    PROVE  UserTurn(c) = convertClaudeUserMessage(c) /\ IsContent(c, RestBlock)
<1>1. ASSUME NEW s \in Seq(UserBlock), c = Blocks(s) PROVE IsContent(c, RestBlock)
  <2>1. c.kind = "blocks" /\ c.blocks = s
    BY <1>1 DEF Blocks
  <2>2. ~Has(s, "tool_result")
    BY <2>1 DEF containsToolResultBlock
  <2>3. \A i \in DOMAIN s : s[i] \in RestBlock
    <3>1. \A i \in DOMAIN s : s[i] \in UserBlock
      BY ElementsIn
    <3> QED
      BY <2>2, <3>1 DEF Has, UserBlock, RestBlock, ToolResultBlock
  <2>4. s \in Seq(RestBlock)
    BY <2>3
  <2> QED
    BY <1>1, <2>1, <2>4 DEF IsContent
<1> QED
  BY <1>1, ContentKinds DEF IsContent, UserTurn

\* A user's content with results: they come first, then the rest.
LEMMA ResultsThenRest ==
    ASSUME NEW c, IsContent(c, UserBlock), containsToolResultBlock(c)
    PROVE  \E s \in Seq(UserBlock) :
               /\ c = Blocks(s) /\ c.kind = "blocks" /\ c.blocks = s /\ s \in Seq(Block)
               /\ UserTurn(c) = FlatMap(resultsOf, s)
                                   \o convertClaudeUserMessage(Blocks(nonToolResultBlocks(s)))
<1>1. PICK s \in Seq(UserBlock) : c = Blocks(s)
  BY DEF containsToolResultBlock, IsContent, NoContent, Str
<1>2. c.kind = "blocks" /\ c.blocks = s /\ s \in Seq(Block)
  BY <1>1, KindsOfBlocks, LargerSet DEF Blocks
<1>3. UserTurn(c) = convertClaudeToolResults(s)
                      \o convertClaudeUserMessage(Blocks(nonToolResultBlocks(s)))
  BY <1>2 DEF UserTurn
<1>4. convertClaudeToolResults(s) = FlatMap(resultsOf, s)
  BY <1>2, BlockLoops
<1> QED
  BY <1>1, <1>2, <1>3, <1>4

\* A user's turn with results: they come first, the rest follows.
LEMMA UserTurnKept ==
    ASSUME NEW c, IsContent(c, UserBlock)
    PROVE  Kept(UserTurn(c), "user", c)
<1>1. ASSUME ~containsToolResultBlock(c) PROVE Kept(UserTurn(c), "user", c)
  BY <1>1, RestIsAll, UserMessageKept
<1>2. ASSUME containsToolResultBlock(c) PROVE Kept(UserTurn(c), "user", c)
  <2>1. PICK s \in Seq(UserBlock) :
            /\ c = Blocks(s) /\ c.kind = "blocks" /\ c.blocks = s /\ s \in Seq(Block)
            /\ UserTurn(c) = FlatMap(resultsOf, s)
                                \o convertClaudeUserMessage(Blocks(nonToolResultBlocks(s)))
    BY <1>2, ResultsThenRest
  <2> DEFINE results == FlatMap(resultsOf, s)
             rest == nonToolResultBlocks(s)
             said == convertClaudeUserMessage(Blocks(rest))
  <2>2. s \in Seq(Block)
    BY <2>1
  <2>3. UserTurn(c) = results \o said
    BY <2>1
  <2>4. rest \in Seq(RestBlock) /\ SaidIn(Blocks(rest)) = SaidIn(c)
    BY <2>1, RestKept
  <2>5. IsContent(Blocks(rest), RestBlock)
    BY <2>4 DEF IsContent, Blocks
  <2>6. Kept(said, "user", Blocks(rest))
    BY <2>5, UserMessageKept
  <2>7. IdsIn(Blocks(rest), "tool_use") = <<>> /\ IdsIn(Blocks(rest), "tool_result") = <<>>
    <3>1. RestBlock \subseteq Without("tool_use") /\ RestBlock \subseteq Without("tool_result")
      BY DEF RestBlock, Without, Block, UserBlock, TextBlock, ImageBlock
    <3>2. IsContent(Blocks(rest), Without("tool_use"))
      BY <2>5, <3>1, MoreBlocks
    <3>3. IsContent(Blocks(rest), Without("tool_result"))
      BY <2>5, <3>1, MoreBlocks
    <3> QED
      BY <3>2, <3>3, NoCalls, NoResults
  <2>8. IdsIn(c, "tool_use") = <<>>
    BY KindsOfBlocks, MoreBlocks, NoCalls
  <2>9. IdsIn(c, "tool_result") = FlatMap(answersOf, s)
    BY <2>1, <2>2, BlockLoops
  <2>10. /\ results \in Seq(MessageOf("user"))
         /\ FlatMap(saidAs("user"), results) = <<>>
         /\ FlatMap(callsOf, results) = <<>>
         /\ FlatMap(idsOf, results) = FlatMap(answersOf, s)
    BY ResultsKept
  <2>11. /\ said \in Seq(MessageOf("user"))
         /\ FlatMap(saidAs("user"), said) = SaidIn(c)
         /\ FlatMap(callsOf, said) = <<>>
         /\ FlatMap(idsOf, said) = <<>>
    BY <2>4, <2>6, <2>7 DEF Kept
  <2>12. results \in Seq(Message) /\ said \in Seq(Message)
    BY <2>10, <2>11, LargerSet DEF MessageOf
  <2>13. /\ Distributes(saidAs("user"), Message)
         /\ Distributes(callsOf, Message)
         /\ Distributes(idsOf, Message)
    BY MessageTypes, FlatMapConcat
  <2> HIDE DEF results, said, rest
  <2>14. results \o said \in Seq(MessageOf("user"))
    BY <2>10, <2>11, ConcatProperties
  <2>15. FlatMap(saidAs("user"), results \o said) = <<>> \o SaidIn(c)
    <3>1. FlatMap(saidAs("user"), results \o said) =
            FlatMap(saidAs("user"), results) \o FlatMap(saidAs("user"), said)
      BY <2>12, <2>13 DEF Distributes
    <3> QED
      BY <2>10, <2>11, <3>1, Zenon
  <2>16. FlatMap(callsOf, results \o said) = <<>> \o <<>>
    <3>1. FlatMap(callsOf, results \o said) = FlatMap(callsOf, results) \o FlatMap(callsOf, said)
      BY <2>12, <2>13 DEF Distributes
    <3> QED
      BY <2>10, <2>11, <3>1, Zenon
  <2>17. FlatMap(idsOf, results \o said) = FlatMap(answersOf, s) \o <<>>
    <3>1. FlatMap(idsOf, results \o said) = FlatMap(idsOf, results) \o FlatMap(idsOf, said)
      BY <2>12, <2>13 DEF Distributes
    <3> QED
      BY <2>10, <2>11, <3>1, Zenon
  <2>18. <<>> \o SaidIn(c) = SaidIn(c)
    <3>1. IsContent(c, Block)
      BY KindsOfBlocks, MoreBlocks
    <3> QED
      BY <3>1, AllTextIsSaid, ConcatProperties
  <2>19. FlatMap(answersOf, s) \o <<>> = FlatMap(answersOf, s)
    <3>1. FlatMap(answersOf, s) \in Seq(ToolIds)
      BY <2>2, MapTypes, FlatMapType
    <3> QED
      BY <3>1, ConcatProperties
  <2>20. <<>> \o <<>> = <<>>
    OBVIOUS
  <2> QED
    BY <2>3, <2>8, <2>9, <2>14, <2>15, <2>16, <2>17, <2>18, <2>19, <2>20, Zenon DEF Kept
<1> QED
  BY <1>1, <1>2

\* Every turn is kept.
LEMMA TurnKept ==
    ASSUME NEW m \in Turns
    PROVE  /\ m.role \in {"system", "user", "assistant"}
           /\ IsContent(m.content, Block)
           /\ Kept(ConvertTurn(m), m.role, m.content)
<1>1. CASE m \in UserTurns
  <2>1. m.role = "user" /\ IsContent(m.content, UserBlock)
    BY <1>1, ContentsAssumption DEF UserTurns, UserBlock
  <2>2. ConvertTurn(m) = UserTurn(m.content)
    BY <2>1 DEF ConvertTurn
  <2>3. IsContent(m.content, Block)
    BY <2>1, KindsOfBlocks, MoreBlocks
  <2> QED
    BY <2>1, <2>2, <2>3, UserTurnKept
<1>2. CASE m \in AssistantTurns
  <2>1. m.role = "assistant" /\ IsContent(m.content, AssistantBlock)
    BY <1>2, ContentsAssumption DEF AssistantTurns, AssistantBlock
  <2>2. ConvertTurn(m) = convertClaudeAssistantMessage(m.content)
    BY <2>1 DEF ConvertTurn
  <2>3. IsContent(m.content, Block)
    BY <2>1, KindsOfBlocks, MoreBlocks
  <2> QED
    BY <2>1, <2>2, <2>3, AssistantKept
<1>3. CASE m \in SystemTurns
  <2>1. m.role = "system" /\ IsContent(m.content, TextBlock)
    BY <1>3, ContentsAssumption DEF SystemTurns
  <2>2. ConvertTurn(m) = convertClaudeSystemMessage(m.content)
    BY <2>1 DEF ConvertTurn
  <2>3. IsContent(m.content, Block)
    BY <2>1, KindsOfBlocks, MoreBlocks
  <2> QED
    BY <2>1, <2>2, <2>3, SystemKept
<1> QED
  BY <1>1, <1>2, <1>3 DEF Turns

\* Of a prompt of text blocks, both ways of extracting a text give the same.
LEMMA PromptText ==
    ASSUME NEW c, IsContent(c, TextBlock)
    PROVE  extractSystemContent(c) = extractTextFromContent(c)
<1>1. ASSUME NEW s \in Seq(TextBlock), c = Blocks(s)
      PROVE  extractSystemContent(c) = extractTextFromContent(c)
  <2>1. c.kind = "blocks" /\ c.blocks = s
    BY <1>1 DEF Blocks
  <2>2. \A i \in DOMAIN s : s[i].type = "text" /\ "text" \in DOMAIN s[i]
    <3>1. \A b \in TextBlock : b.type = "text" /\ "text" \in DOMAIN b
      BY DEF TextBlock
    <3> QED
      BY <3>1, ElementsIn
  <2>3. Collect(s, LAMBDA b : IF "text" \in DOMAIN b THEN <<b.text>> ELSE <<>>) = TextsIn(s)
    BY <2>2 DEF Collect, TextsIn
  <2> QED
    BY <2>1, <2>3 DEF extractSystemContent, extractTextFromContent
<1>2. CASE c = NoContent
  BY <1>2 DEF extractSystemContent, extractTextFromContent, NoContent
<1>3. ASSUME NEW t \in Texts, c = Str(t)
      PROVE  extractSystemContent(c) = extractTextFromContent(c)
  BY <1>3 DEF extractSystemContent, extractTextFromContent, Str
<1> QED
  BY <1>1, <1>2, <1>3, ContentKinds

\* The system prompt is kept, too.
LEMMA SystemPromptKept ==
    ASSUME NEW c, IsContent(c, TextBlock)
    PROVE  /\ Kept(SystemMessage(c), "system", c)
           /\ IdsIn(c, "tool_use") = <<>> /\ IdsIn(c, "tool_result") = <<>>
<1> DEFINE text == extractTextFromContent(c)
<1>1. /\ IsContent(c, Block) /\ IsContent(c, Without("image"))
      /\ IsContent(c, Without("tool_use")) /\ IsContent(c, Without("tool_result"))
  BY KindsOfBlocks, MoreBlocks
<1>2. text \in Seq(Frags) /\ Said(text) = SaidIn(c)
  BY <1>1, TextOfContent, SaidWithoutImages
<1>3. IdsIn(c, "tool_use") = <<>> /\ IdsIn(c, "tool_result") = <<>>
  BY <1>1, NoCalls, NoResults
<1>4. extractSystemContent(c) = text
  BY PromptText
<1>5. CASE text = <<>>
  <2>1. SystemMessage(c) = <<>>
    BY <1>4, <1>5 DEF SystemMessage
  <2>2. SaidIn(c) = <<>>
    BY <1>2, <1>5, SaidIsFlatMap, FlatMapEmpty
  <2> QED
    BY <1>3, <2>1, <2>2, KeptByNone
<1>6. CASE text # <<>>
  <2>1. SystemMessage(c) = convertClaudeSystemMessage(c)
    BY <1>4, <1>6 DEF SystemMessage, convertClaudeSystemMessage
  <2> QED
    BY <1>3, <2>1, SystemKept
<1> QED
  BY <1>5, <1>6

-----------------------------------------------------------------------------
(***************************************************************************)
(* The whole request.                                                      *)
(***************************************************************************)
convertOf == [m \in Turns |-> ConvertTurn(m)]

\* The request is the system prompt and what becomes of each turn.
LEMMA RequestType ==
    ASSUME NEW sys, IsContent(sys, TextBlock), NEW ms \in Seq(Turns)
    PROVE  /\ convertOf \in [Turns -> Seq(Message)]
           /\ SystemMessage(sys) \in Seq(Message)
           /\ ConvertClaudeToOpenAI(sys, ms) = SystemMessage(sys) \o FlatMap(convertOf, ms)
           /\ ConvertClaudeToOpenAI(sys, ms) \in Seq(Message)
<1>1. \A role : MessageOf(role) \subseteq Message
  BY DEF MessageOf
<1>2. ASSUME NEW m \in Turns PROVE ConvertTurn(m) \in Seq(Message)
  <2>1. ConvertTurn(m) \in Seq(MessageOf(m.role))
    BY TurnKept DEF Kept
  <2> QED
    BY <1>1, <2>1, LargerSet
<1>3. convertOf \in [Turns -> Seq(Message)]
  BY <1>2 DEF convertOf
<1>4. SystemMessage(sys) \in Seq(Message)
  <2>1. SystemMessage(sys) \in Seq(MessageOf("system"))
    BY SystemPromptKept DEF Kept
  <2> QED
    BY <1>1, <2>1, LargerSet
<1>5. Collect(ms, ConvertTurn) = FlatMap(convertOf, ms)
  <2>1. \A i \in DOMAIN ms : ms[i] \in Turns
    BY ElementsIn
  <2> QED
    BY <2>1 DEF Collect, FlatMap, Mapped, convertOf
<1>6. FlatMap(convertOf, ms) \in Seq(Message)
  BY <1>3, FlatMapType
<1>7. SystemMessage(sys) \o FlatMap(convertOf, ms) \in Seq(Message)
  BY <1>4, <1>6, ConcatProperties
<1> QED
  BY <1>3, <1>4, <1>5, <1>7 DEF ConvertClaudeToOpenAI

\* Measure g of messages is the sum of what k gives of the turns.
Measures(g, k) ==
    \A sys, ms : IsContent(sys, TextBlock) /\ ms \in Seq(Turns) =>
        FlatMap(g, ConvertClaudeToOpenAI(sys, ms)) =
            FlatMap(g, SystemMessage(sys)) \o FlatMap(k, ms)

\* It is so if it is so for each turn.
LEMMA RequestMeasure ==
    ASSUME NEW A, NEW g \in [Message -> Seq(A)], NEW k \in [Turns -> Seq(A)],
           \A m \in Turns : k[m] = FlatMap(g, ConvertTurn(m))
    PROVE  Measures(g, k)
<1> SUFFICES ASSUME NEW sys, NEW ms, IsContent(sys, TextBlock), ms \in Seq(Turns)
             PROVE  FlatMap(g, ConvertClaudeToOpenAI(sys, ms)) =
                        FlatMap(g, SystemMessage(sys)) \o FlatMap(k, ms)
  BY DEF Measures
<1>1. /\ convertOf \in [Turns -> Seq(Message)]
      /\ SystemMessage(sys) \in Seq(Message)
      /\ ConvertClaudeToOpenAI(sys, ms) = SystemMessage(sys) \o FlatMap(convertOf, ms)
  BY RequestType
<1>2. FlatMap(convertOf, ms) \in Seq(Message)
  BY <1>1, FlatMapType
<1>3. Distributes(g, Message)
  BY FlatMapConcat
<1>4. \A m \in Turns : k[m] = FlatMap(g, convertOf[m])
  BY DEF convertOf
<1>5. Composes(k, g, convertOf, Turns)
  BY <1>1, <1>4, FlatMapCompose
<1>6. FlatMap(g, FlatMap(convertOf, ms)) = FlatMap(k, ms)
  BY <1>5, Zenon DEF Composes
<1> QED
  BY <1>1, <1>2, <1>3, <1>6, Zenon DEF Distributes

\* The conversation keeps to the protocol, and the request is made of it.
ConversionInv ==
    /\ messages \in Seq(Turns)
    /\ KeepsProtocol(messages)
    /\ IsContent(system, TextBlock)
    /\ request = ConvertClaudeToOpenAI(system, messages)

\* It does so from the first request on.
LEMMA ConversionAlways == Spec => []ConversionInv
<1>1. Init => ConversionInv
  BY StartsAssumption, Zenon DEF Init, ConversionInv
<1>2. ASSUME ConversionInv, [Next]_vars PROVE ConversionInv'
  <2>1. CASE UNCHANGED vars
    BY <1>2, <2>1, Zenon DEF vars, settings, ConversionInv
  <2>2. ASSUME NEW m \in Turns, MayFollow(messages, m), Turn(m) PROVE ConversionInv'
    <3>1. /\ messages' = Append(messages, m) /\ system' = system
          /\ request' = ConvertClaudeToOpenAI(system, messages')
      BY <2>2, Zenon DEF Turn, settings
    <3>2. messages \in Seq(Turns)
      BY <1>2 DEF ConversionInv
    <3>3. Append(messages, m) \in Seq(Turns)
      BY <3>2
    <3>4. KeepsProtocol(Append(messages, m))
      <4> DEFINE ms == Append(messages, m)
                 k == Len(messages)
      <4>1. k \in Nat /\ DOMAIN ms = 1..(k + 1) /\ ms[k + 1] = m
        BY <3>2
      <4>2. SubSeq(ms, 1, k) = messages
        BY <3>2
      <4>3. \A n \in 1..k : ms[n] = messages[n] /\ SubSeq(ms, 1, n - 1) = SubSeq(messages, 1, n - 1)
        BY <3>2
      <4>4. \A n \in 1..k : MayFollow(SubSeq(messages, 1, n - 1), messages[n])
        BY <1>2, <3>2 DEF ConversionInv, KeepsProtocol
      <4>5. ASSUME NEW n \in DOMAIN ms PROVE MayFollow(SubSeq(ms, 1, n - 1), ms[n])
        <5>1. CASE n \in 1..k
          BY <4>3, <4>4, <5>1
        <5>2. CASE n \notin 1..k
          <6>1. n = k + 1 /\ n - 1 = k
            BY <4>1, <5>2
          <6> HIDE DEF ms, k
          <6> QED
            BY <2>2, <4>1, <4>2, <6>1
        <5> QED
          BY <5>1, <5>2
      <4> QED
        BY <4>5 DEF KeepsProtocol
    <3>5. IsContent(system', TextBlock)
      BY <1>2, <3>1 DEF ConversionInv
    <3> QED
      BY <3>1, <3>3, <3>4, <3>5, Zenon DEF ConversionInv
  <2> QED
    BY <1>2, <2>1, <2>2 DEF Next, UserSpeaks, AssistantSpeaks, SystemSpeaks, Turns
<1> QED
  BY <1>1, <1>2, PTL DEF Spec

\* Every message of the request is one of Message.
LEMMA RequestTyped ==
    ASSUME ConversionInv
    PROVE  request \in Seq(Message) /\ \A i \in DOMAIN request : request[i] \in Message
<1>1. request \in Seq(Message)
  BY RequestType DEF ConversionInv
<1> QED
  BY <1>1, ElementsIn

\* Every message of every request has the fields its role allows.
THEOREM TypeCorrect == Spec => []TypeOK
<1>1. ASSUME NEW m \in Message
      PROVE  /\ m.role \in {"system", "user", "assistant", "tool"}
             /\ m.parts \in Seq(TextBlock \cup ImagePart)
             /\ m.calls \in Seq(ToolIds)
             /\ m.parts # <<>> => m.role = "user" /\ m.content = <<>>
             /\ m.calls # <<>> => m.role = "assistant"
             /\ m.role = "tool" <=> m.id # NoId
  <2>1. \A S : <<>> \in Seq(S)
    BY EmptySeq
  <2>2. CASE m \in UserMessage
    BY <2>1, <2>2 DEF Message, UserMessage, Part
  <2>3. CASE m \in AssistantMessage
    BY <2>1, <2>3 DEF AssistantMessage
  <2>4. CASE m \in SystemMessages
    BY <2>1, <2>4 DEF SystemMessages
  <2>5. CASE m \in ToolMessage
    BY <2>1, <2>5, TextsAssumption DEF ToolMessage
  <2> QED
    BY <2>2, <2>3, <2>4, <2>5 DEF Message
<1>2. ConversionInv => TypeOK
  BY <1>1, RequestTyped DEF TypeOK
<1> QED
  BY <1>2, ConversionAlways, PTL

\* Of a turn of another role, a role says nothing.
LEMMA OthersSayNothing ==
    ASSUME NEW m \in Turns, NEW role \in {"system", "user", "assistant"}, m.role # role
    PROVE  FlatMap(saidAs(role), ConvertTurn(m)) = <<>>
<1>1. ConvertTurn(m) \in Seq(MessageOf(m.role))
  BY TurnKept DEF Kept
<1>2. \A x \in MessageOf(m.role) : saidAs(role)[x] = <<>>
  BY DEF MessageOf, saidAs
<1> QED
  BY <1>1, <1>2, FlatMapNothing

\* The loops over the messages of the request and over the turns.
LEMMA RequestLoops ==
    ASSUME ConversionInv
    PROVE  /\ \A role : SaidAfter(role) = FlatMap(saidAs(role), request)
           /\ Collect(request, LAMBDA m : m.calls) = FlatMap(callsOf, request)
           /\ Collect(request, LAMBDA m : IF m.role = "tool" THEN <<m.id>> ELSE <<>>) =
                  FlatMap(idsOf, request)
<1>1. \A i \in DOMAIN request : request[i] \in Message
  BY RequestTyped
<1>2. ASSUME NEW role PROVE SaidAfter(role) = FlatMap(saidAs(role), request)
  BY <1>1 DEF SaidAfter, Collect, FlatMap, Mapped, saidAs
<1>3. Collect(request, LAMBDA m : m.calls) = FlatMap(callsOf, request)
  BY <1>1 DEF Collect, FlatMap, Mapped, callsOf
<1>4. Collect(request, LAMBDA m : IF m.role = "tool" THEN <<m.id>> ELSE <<>>) =
          FlatMap(idsOf, request)
  BY <1>1 DEF Collect, FlatMap, Mapped, idsOf
<1> QED
  BY <1>2, <1>3, <1>4

saidTurns(role) == [m \in Turns |-> IF m.role = role THEN SaidIn(m.content) ELSE <<>>]
callsTurns == [m \in Turns |-> IdsIn(m.content, "tool_use")]
idsTurns == [m \in Turns |-> IdsIn(m.content, "tool_result")]
textTurns == [m \in Turns |-> AllText(m.content)]

\* The same of the turns.
LEMMA TurnLoops ==
    ASSUME NEW ms \in Seq(Turns)
    PROVE  /\ \A role : Collect(ms, LAMBDA m : IF m.role = role THEN SaidIn(m.content) ELSE <<>>)
                            = FlatMap(saidTurns(role), ms)
           /\ Collect(ms, LAMBDA m : IdsIn(m.content, "tool_use")) = FlatMap(callsTurns, ms)
           /\ Collect(ms, LAMBDA m : IdsIn(m.content, "tool_result")) = FlatMap(idsTurns, ms)
           /\ TextOfTurns(ms) = FlatMap(textTurns, ms)
<1>1. \A i \in DOMAIN ms : ms[i] \in Turns
  BY ElementsIn
<1>2. ASSUME NEW role
      PROVE  Collect(ms, LAMBDA m : IF m.role = role THEN SaidIn(m.content) ELSE <<>>)
                 = FlatMap(saidTurns(role), ms)
  BY <1>1 DEF Collect, FlatMap, Mapped, saidTurns
<1>3. Collect(ms, LAMBDA m : IdsIn(m.content, "tool_use")) = FlatMap(callsTurns, ms)
  BY <1>1 DEF Collect, FlatMap, Mapped, callsTurns
<1>4. Collect(ms, LAMBDA m : IdsIn(m.content, "tool_result")) = FlatMap(idsTurns, ms)
  BY <1>1 DEF Collect, FlatMap, Mapped, idsTurns
<1>5. TextOfTurns(ms) = FlatMap(textTurns, ms)
  BY <1>1 DEF TextOfTurns, Collect, FlatMap, Mapped, textTurns
<1> QED
  BY <1>2, <1>3, <1>4, <1>5

\* What the measures give for a turn.
LEMMA TurnMeasures ==
    ASSUME NEW m \in Turns
    PROVE  /\ FlatMap(callsOf, ConvertTurn(m)) = callsTurns[m]
           /\ FlatMap(idsOf, ConvertTurn(m)) = idsTurns[m]
           /\ callsTurns[m] \in Seq(ToolIds) /\ idsTurns[m] \in Seq(ToolIds)
           /\ ConvertTurn(m) \in Seq(Message)
           /\ FlatMap(spokenOf, ConvertTurn(m)) = SaidIn(m.content)
<1>1. /\ m.role \in {"system", "user", "assistant"}
      /\ Kept(ConvertTurn(m), m.role, m.content)
  BY TurnKept
<1>2. ConvertTurn(m) \in Seq(MessageOf(m.role))
  BY <1>1 DEF Kept
<1>3. ConvertTurn(m) \in Seq(Message)
  BY <1>2, LargerSet DEF MessageOf
<1>4. FlatMap(callsOf, ConvertTurn(m)) = callsTurns[m]
  BY <1>1 DEF Kept, callsTurns
<1>5. FlatMap(idsOf, ConvertTurn(m)) = idsTurns[m]
  BY <1>1 DEF Kept, idsTurns
<1>6. FlatMap(callsOf, ConvertTurn(m)) \in Seq(ToolIds)
  BY <1>3, MessageTypes, FlatMapType
<1>7. FlatMap(idsOf, ConvertTurn(m)) \in Seq(ToolIds)
  BY <1>3, MessageTypes, FlatMapType
<1>8. FlatMap(spokenOf, ConvertTurn(m)) = SaidIn(m.content)
  <2>1. \A x \in MessageOf(m.role) : spokenOf[x] = saidAs(m.role)[x]
    BY <1>1 DEF MessageOf, spokenOf, saidAs
  <2>2. FlatMap(spokenOf, ConvertTurn(m)) = FlatMap(saidAs(m.role), ConvertTurn(m))
    BY <1>2, <2>1, FlatMapSame
  <2> QED
    BY <1>1, <2>2 DEF Kept
<1> QED
  BY <1>3, <1>4, <1>5, <1>6, <1>7, <1>8

\* Nothing is lost, repeated, reordered or put into another's mouth, however
\* long the conversation is and whatever its turns are made of.
THEOREM NothingEverLost == Spec => []NothingLost
<1>1. ASSUME ConversionInv PROVE NothingLost
  <2> DEFINE first == SystemMessage(system)
  <2>1. /\ messages \in Seq(Turns) /\ IsContent(system, TextBlock)
        /\ request = ConvertClaudeToOpenAI(system, messages)
    BY <1>1 DEF ConversionInv
  <2>2. /\ Kept(first, "system", system)
        /\ IdsIn(system, "tool_use") = <<>> /\ IdsIn(system, "tool_result") = <<>>
    BY <2>1, SystemPromptKept
  <2>3. first \in Seq(MessageOf("system"))
    BY <2>2 DEF Kept
  <2> HIDE DEF first
  <2>4. ASSUME NEW role \in {"system", "user", "assistant"}
        PROVE  SaidAfter(role) = SaidBefore(role)
    <3> DEFINE g == saidAs(role)
               k == saidTurns(role)
               sys == IF role = "system" THEN SaidIn(system) ELSE <<>>
    <3>1. g \in [Message -> Seq(Words)]
      BY MessageTypes
    <3>2. ASSUME NEW m \in Turns PROVE k[m] = FlatMap(g, ConvertTurn(m))
      <4>1. CASE m.role = role
        <5>1. FlatMap(g, ConvertTurn(m)) = SaidIn(m.content)
          BY <4>1, TurnKept DEF Kept
        <5> QED
          BY <4>1, <5>1 DEF saidTurns
      <4>2. CASE m.role # role
        <5>1. FlatMap(g, ConvertTurn(m)) = <<>>
          BY <4>2, OthersSayNothing
        <5> QED
          BY <4>2, <5>1 DEF saidTurns
      <4> QED
        BY <4>1, <4>2
    <3>3. k \in [Turns -> Seq(Words)]
      <4>1. \A m \in Turns : SaidIn(m.content) \in Seq(Words)
        BY TurnKept, AllTextIsSaid
      <4> QED
        BY <4>1, EmptySeq DEF saidTurns
    <3>4. FlatMap(g, first) = sys
      <4>1. CASE role = "system"
        BY <2>2, <4>1 DEF Kept
      <4>2. CASE role # "system"
        <5>1. \A x \in MessageOf("system") : g[x] = <<>>
          BY <4>2 DEF MessageOf, saidAs
        <5> HIDE DEF g
        <5>2. FlatMap(g, first) = <<>>
          BY <2>3, <5>1, FlatMapNothing
        <5> QED
          BY <4>2, <5>2
      <4> QED
        BY <4>1, <4>2
    <3>5. SaidAfter(role) = FlatMap(g, request)
      BY <1>1, RequestLoops
    <3>6. SaidBefore(role) = sys \o FlatMap(k, messages)
      BY <2>1, TurnLoops DEF SaidBefore
    <3> HIDE DEF g, k, sys
    <3>7. FlatMap(g, request) = FlatMap(g, first) \o FlatMap(k, messages)
      <4>1. Measures(g, k)
        BY <3>1, <3>2, <3>3, RequestMeasure
      <4> QED
        BY <2>1, <4>1, Zenon DEF Measures, first
    <3> QED
      BY <3>4, <3>5, <3>6, <3>7, Zenon
  <2>5. Collect(request, LAMBDA m : m.calls) =
            Collect(messages, LAMBDA m : IdsIn(m.content, "tool_use"))
    <3>1. callsTurns \in [Turns -> Seq(ToolIds)]
      <4>1. \A m \in Turns : callsTurns[m] \in Seq(ToolIds)
        BY TurnMeasures
      <4> QED
        BY <4>1 DEF callsTurns
    <3>2. \A m \in Turns : callsTurns[m] = FlatMap(callsOf, ConvertTurn(m))
      BY TurnMeasures
    <3>3. FlatMap(callsOf, request) = FlatMap(callsOf, first) \o FlatMap(callsTurns, messages)
      <4>1. Measures(callsOf, callsTurns)
        BY <3>1, <3>2, MessageTypes, RequestMeasure
      <4> QED
        BY <2>1, <4>1, Zenon DEF Measures, first
    <3>4. FlatMap(callsOf, first) = <<>>
      BY <2>2 DEF Kept
    <3>5. <<>> \o FlatMap(callsTurns, messages) = FlatMap(callsTurns, messages)
      <4>1. FlatMap(callsTurns, messages) \in Seq(ToolIds)
        BY <2>1, <3>1, FlatMapType
      <4> QED
        BY <4>1, ConcatProperties
    <3>6. FlatMap(callsOf, request) = FlatMap(callsTurns, messages)
      BY <3>3, <3>4, <3>5, Zenon
    <3> QED
      BY <1>1, <2>1, <3>6, RequestLoops, TurnLoops
  <2>6. Collect(request, LAMBDA m : IF m.role = "tool" THEN <<m.id>> ELSE <<>>) =
            Collect(messages, LAMBDA m : IdsIn(m.content, "tool_result"))
    <3>1. idsTurns \in [Turns -> Seq(ToolIds)]
      <4>1. \A m \in Turns : idsTurns[m] \in Seq(ToolIds)
        BY TurnMeasures
      <4> QED
        BY <4>1 DEF idsTurns
    <3>2. \A m \in Turns : idsTurns[m] = FlatMap(idsOf, ConvertTurn(m))
      BY TurnMeasures
    <3>3. FlatMap(idsOf, request) = FlatMap(idsOf, first) \o FlatMap(idsTurns, messages)
      <4>1. Measures(idsOf, idsTurns)
        BY <3>1, <3>2, MessageTypes, RequestMeasure
      <4> QED
        BY <2>1, <4>1, Zenon DEF Measures, first
    <3>4. FlatMap(idsOf, first) = <<>>
      BY <2>2 DEF Kept
    <3>5. <<>> \o FlatMap(idsTurns, messages) = FlatMap(idsTurns, messages)
      <4>1. FlatMap(idsTurns, messages) \in Seq(ToolIds)
        BY <2>1, <3>1, FlatMapType
      <4> QED
        BY <4>1, ConcatProperties
    <3>6. FlatMap(idsOf, request) = FlatMap(idsTurns, messages)
      BY <3>3, <3>4, <3>5, Zenon
    <3> QED
      BY <1>1, <2>1, <3>6, RequestLoops, TurnLoops
  <2> QED
    BY <2>4, <2>5, <2>6 DEF NothingLost
<1> QED
  BY <1>1, ConversionAlways, PTL

writtenOf == [m \in Message |-> FlatMap(wordOf, spokenOf[m])]

\* What is said in a message, without the images, is measured by writtenOf.
LEMMA WrittenMeasure ==
    /\ writtenOf \in [Message -> Seq(Words)]
    /\ Composes(writtenOf, wordOf, spokenOf, Message)
    /\ textTurns \in [Turns -> Seq(Words)]
    /\ \A m \in Turns : textTurns[m] = FlatMap(writtenOf, ConvertTurn(m))
<1>1. ASSUME NEW m \in Message PROVE FlatMap(wordOf, spokenOf[m]) \in Seq(Words)
  <2>1. spokenOf[m] \in Seq(Words)
    BY MessageTypes
  <2> QED
    BY <2>1, MapTypes, FlatMapType
<1>2. writtenOf \in [Message -> Seq(Words)]
  BY <1>1 DEF writtenOf
<1>3. Composes(writtenOf, wordOf, spokenOf, Message)
  <2>1. \A m \in Message : writtenOf[m] = FlatMap(wordOf, spokenOf[m])
    BY DEF writtenOf
  <2> QED
    BY <1>2, <2>1, MapTypes, MessageTypes, FlatMapCompose
<1>4. ASSUME NEW m \in Turns
      PROVE  /\ textTurns[m] \in Seq(Words)
             /\ textTurns[m] = FlatMap(writtenOf, ConvertTurn(m))
  <2>1. IsContent(m.content, Block)
    BY TurnKept
  <2>2. SaidIn(m.content) \in Seq(Words) /\ FlatMap(wordOf, SaidIn(m.content)) = textTurns[m]
    BY <2>1, AllTextIsSaid DEF textTurns
  <2>3. FlatMap(wordOf, SaidIn(m.content)) \in Seq(Words)
    BY <2>2, MapTypes, FlatMapType
  <2>4. /\ ConvertTurn(m) \in Seq(Message)
        /\ FlatMap(spokenOf, ConvertTurn(m)) = SaidIn(m.content)
    BY TurnMeasures
  <2>5. FlatMap(wordOf, FlatMap(spokenOf, ConvertTurn(m))) = FlatMap(writtenOf, ConvertTurn(m))
    BY <1>3, <2>4, Zenon DEF Composes
  <2> QED
    BY <2>2, <2>3, <2>4, <2>5, Zenon
<1>5. textTurns \in [Turns -> Seq(Words)]
  <2>1. \A m \in Turns : textTurns[m] \in Seq(Words)
    BY <1>4
  <2> QED
    BY <2>1 DEF textTurns
<1> QED
  BY <1>2, <1>3, <1>4, <1>5

\* The length of two joined texts.
LEMMA JoinedLength ==
    ASSUME NEW A, NEW a \in Seq(A), NEW b \in Seq(A)
    PROVE  Len(a \o b) = Len(a) + Len(b)
  OBVIOUS

-----------------------------------------------------------------------------
(***************************************************************************)
(* What the proxy adds to what is said, and the messages that say nothing. *)
(***************************************************************************)
Letters == Frags \cup {"<nil>"}

addedOf == [f \in Letters |-> IF f \in Glue THEN <<f>> ELSE <<>>]
othersOf == [f \in Letters |-> IF f \notin Glue THEN <<f>> ELSE <<>>]
breakOf == [t \in Texts |-> <<newline>>]

\* The glue in a message, the rest of its text, and its role if it is silent.
glueOf == [m \in Message |-> FlatMap(addedOf, TextOf(m))]
plainOf == [m \in Message |-> FlatMap(othersOf, TextOf(m))]
textOf == [m \in Message |-> TextOf(m)]
silentOf == [m \in Message |-> IF m.role # "tool" /\ Silent(m) THEN <<m.role>> ELSE <<>>]

\* What the proxy adds is not what somebody said.
LEMMA LetterMaps ==
    /\ addedOf \in [Letters -> Seq(Letters)]
    /\ othersOf \in [Letters -> Seq(Letters)]
    /\ breakOf \in [Texts -> Seq(Letters)]
    /\ Fragments \subseteq Letters /\ Frags \subseteq Letters
    /\ newline \in Letters /\ "<nil>" \in Letters
    /\ \A f \in Fragments : addedOf[f] = <<>> /\ othersOf[f] = <<f>>
    /\ \A f \in Frags : othersOf[f] = keptOf[f]
    /\ addedOf[newline] = <<newline>>
    /\ addedOf["<nil>"] = <<"<nil>">> /\ othersOf["<nil>"] = <<>>
<1>1. \A S : <<>> \in Seq(S) /\ \A x \in S : <<x>> \in Seq(S)
  BY EmptySeq
<1>2. /\ Fragments \subseteq Letters /\ Frags \subseteq Letters
      /\ newline \in Letters /\ "<nil>" \in Letters
  BY DEF Letters, Frags
<1>3. \A f \in Fragments : f \notin Glue
  BY TextsAssumption DEF Glue
<1>4. newline \in Glue /\ "<nil>" \in Glue /\ \A f \in Frags : f \in Glue <=> f = newline
  BY TextsAssumption DEF Glue, Frags, newline
<1>5. addedOf \in [Letters -> Seq(Letters)] /\ othersOf \in [Letters -> Seq(Letters)]
  BY <1>1 DEF addedOf, othersOf
<1>6. breakOf \in [Texts -> Seq(Letters)]
  BY <1>1, <1>2 DEF breakOf
<1>7. /\ \A f \in Fragments : addedOf[f] = <<>> /\ othersOf[f] = <<f>>
      /\ \A f \in Frags : othersOf[f] = keptOf[f]
  BY <1>2, <1>3, <1>4 DEF addedOf, othersOf, keptOf
<1>8. addedOf[newline] = <<newline>> /\ addedOf["<nil>"] = <<"<nil>">> /\ othersOf["<nil>"] = <<>>
  BY <1>2, <1>4 DEF addedOf, othersOf
<1> QED
  BY <1>2, <1>5, <1>6, <1>7, <1>8

\* A text of fragments has no glue.
LEMMA NoGlue ==
    ASSUME NEW t \in Seq(Fragments)
    PROVE  FlatMap(addedOf, t) = <<>> /\ FlatMap(othersOf, t) = t
<1>1. \A f \in Fragments : addedOf[f] = <<>> /\ othersOf[f] = <<f>>
  BY LetterMaps
<1> QED
  BY <1>1, FlatMapNothing, FlatMapIdentity

\* What %v prints for nil is nothing else.
LEMMA NilIsGlue == FlatMap(addedOf, PrintedNil) = PrintedNil /\ FlatMap(othersOf, PrintedNil) = <<>>
<1>1. PICK f : f = "<nil>"
  OBVIOUS
<1>2. f \in Letters /\ addedOf[f] = <<f>> /\ othersOf[f] = <<>>
  BY <1>1, LetterMaps
<1>3. addedOf \in [Letters -> Seq(Letters)] /\ othersOf \in [Letters -> Seq(Letters)]
  BY LetterMaps
<1>4. FlatMap(addedOf, <<f>>) = addedOf[f]
  BY <1>2, <1>3, FlatMapSingle
<1>5. FlatMap(othersOf, <<f>>) = othersOf[f]
  BY <1>2, <1>3, FlatMapSingle
<1> QED
  BY <1>1, <1>2, <1>4, <1>5 DEF PrintedNil

\* Joined texts have a line break for every text after the first.
LEMMA GlueOfJoin ==
    ASSUME NEW ts \in Seq(Texts)
    PROVE  FlatMap(addedOf, Join(ts)) = Joints(ts)
<1>1. CASE ts = <<>>
  BY <1>1, FlatMapEmpty DEF Join, Joints
<1>2. CASE ts # <<>>
  <2> DEFINE first == Head(ts)
             rest == Tail(ts)
             lines == FlatMap(nextLine, rest)
  <2>1. first \in Texts /\ rest \in Seq(Texts)
    BY <1>2
  <2>2. Join(ts) = first \o lines /\ Joints(ts) = FlatMap(breakOf, rest)
    <3>1. /\ Join(ts) = first \o Collect(rest, LAMBDA t : <<newline>> \o t)
          /\ Joints(ts) = Collect(rest, LAMBDA t : <<newline>>)
      BY <1>2 DEF Join, Joints
    <3>2. \A i \in DOMAIN rest : rest[i] \in Texts
      BY <2>1, ElementsIn
    <3> HIDE DEF rest
    <3>3. Collect(rest, LAMBDA t : <<newline>> \o t) = FlatMap(nextLine, rest)
      BY <3>2 DEF Collect, FlatMap, Mapped, nextLine
    <3>4. Collect(rest, LAMBDA t : <<newline>>) = FlatMap(breakOf, rest)
      BY <3>2 DEF Collect, FlatMap, Mapped, breakOf
    <3> QED
      BY <3>1, <3>3, <3>4
  <2> HIDE DEF first, rest
  <2>3. Distributes(addedOf, Letters)
    BY LetterMaps, FlatMapConcat
  <2>4. nextLine \in [Texts -> Seq(Letters)]
    <3>1. \A t \in Texts : nextLine[t] \in Seq(Letters)
      BY MapTypes, LetterMaps, LargerSet
    <3> QED
      BY <3>1 DEF nextLine
  <2>5. ASSUME NEW t \in Texts PROVE breakOf[t] = FlatMap(addedOf, nextLine[t])
    <3>1. t \in Seq(Fragments) /\ t \in Seq(Letters) /\ <<newline>> \in Seq(Letters)
      BY TextType, LetterMaps, LargerSet
    <3>2. nextLine[t] = <<newline>> \o t
      BY DEF nextLine
    <3>3. FlatMap(addedOf, <<newline>> \o t) = FlatMap(addedOf, <<newline>>) \o FlatMap(addedOf, t)
      BY <2>3, <3>1, Zenon DEF Distributes
    <3>4. FlatMap(addedOf, <<newline>>) = <<newline>>
      <4>1. FlatMap(addedOf, <<newline>>) = addedOf[newline]
        BY LetterMaps, FlatMapSingle
      <4> QED
        BY <4>1, LetterMaps
    <3>5. FlatMap(addedOf, t) = <<>>
      BY <3>1, NoGlue
    <3>6. <<newline>> \o <<>> = <<newline>> /\ breakOf[t] = <<newline>>
      BY DEF breakOf
    <3> QED
      BY <3>2, <3>3, <3>4, <3>5, <3>6, Zenon
  <2>6. FlatMap(addedOf, lines) = FlatMap(breakOf, rest)
    <3>1. Composes(breakOf, addedOf, nextLine, Texts)
      BY <2>4, <2>5, LetterMaps, FlatMapCompose
    <3> QED
      BY <2>1, <3>1, Zenon DEF Composes
  <2>7. first \in Seq(Letters) /\ lines \in Seq(Letters)
    <3>1. first \in Seq(Fragments)
      BY <2>1, TextType
    <3>2. first \in Seq(Letters)
      BY <3>1, LetterMaps, LargerSet
    <3> QED
      BY <2>1, <2>4, <3>2, FlatMapType
  <2>8. FlatMap(addedOf, first) = <<>>
    BY <2>1, TextType, NoGlue
  <2>9. FlatMap(addedOf, first \o lines) = FlatMap(addedOf, first) \o FlatMap(addedOf, lines)
    BY <2>3, <2>7, Zenon DEF Distributes
  <2>10. FlatMap(breakOf, rest) \in Seq(Letters)
    BY <2>1, LetterMaps, FlatMapType
  <2>11. <<>> \o FlatMap(breakOf, rest) = FlatMap(breakOf, rest)
    BY <2>10, ConcatProperties
  <2> QED
    BY <2>2, <2>6, <2>8, <2>9, <2>11, Zenon
<1> QED
  BY <1>1, <1>2

\* Texts that say nothing are joined to nothing, unless there are several.
LEMMA JoinOfNothing ==
    ASSUME NEW ts \in Seq(Texts), Said(Join(ts)) = <<>>
    PROVE  Join(ts) # <<>> <=> Len(ts) > 1
<1>1. CASE ts = <<>>
  <2>1. Join(ts) = <<>>
    BY <1>1, Zenon DEF Join
  <2> QED
    BY <1>1, <2>1
<1>2. CASE ts # <<>>
  <2>1. Joints(ts) = FlatMap(breakOf, Tail(ts))
    <3>1. Joints(ts) = Collect(Tail(ts), LAMBDA t : <<newline>>)
      BY <1>2 DEF Joints
    <3>2. PICK rest \in Seq(Texts) : rest = Tail(ts)
      <4>1. Tail(ts) \in Seq(Texts)
        BY <1>2
      <4> QED
        BY <4>1, Zenon
    <3>3. \A i \in DOMAIN rest : rest[i] \in Texts
      BY ElementsIn
    <3>4. Collect(rest, LAMBDA t : <<newline>>) = FlatMap(breakOf, rest)
      BY <3>3 DEF Collect, FlatMap, Mapped, breakOf
    <3> QED
      BY <3>1, <3>2, <3>4
  <2>2. CASE Len(ts) = 1
    <3>1. PICK t \in Texts : ts = <<t>>
      BY <2>2
    <3>2. Head(ts) = t /\ Tail(ts) = <<>>
      BY <3>1
    <3>3. Join(ts) = t
      <4>1. Join(ts) = t \o Collect(<<>>, LAMBDA u : <<newline>> \o u)
        BY <1>2, <3>2, Zenon DEF Join
      <4>2. Collect(<<>>, LAMBDA u : <<newline>> \o u) = <<>>
        <5>1. Collect(<<>>, LAMBDA u : <<newline>> \o u) = FlatMap(nextLine, <<>>)
          BY DEF Collect, FlatMap, Mapped
        <5> QED
          BY <5>1, FlatMapEmpty
      <4>3. t \o <<>> = t
        BY TextType, ConcatProperties
      <4> QED
        BY <4>1, <4>2, <4>3, Zenon
    <3>4. Said(t) = t
      BY SaidText
    <3> QED
      BY <2>2, <3>3, <3>4
  <2>3. CASE Len(ts) > 1
    <3>1. Tail(ts) \in Seq(Texts) /\ Tail(ts) # <<>>
      BY <2>3
    <3>2. FlatMap(breakOf, Tail(ts)) # <<>>
      <4> DEFINE rest == Tail(ts)
      <4>1. Mapped(breakOf, rest) \in Seq(Seq(Letters))
        BY <3>1, LetterMaps, MappedType
      <4>2. 1 \in DOMAIN rest /\ rest[1] \in Texts
        BY <3>1
      <4>3. 1 \in DOMAIN Mapped(breakOf, rest) /\ Mapped(breakOf, rest)[1] = <<newline>>
        BY <4>2 DEF Mapped, breakOf
      <4> HIDE DEF rest
      <4>4. <<newline>> # <<>>
        OBVIOUS
      <4>5. FlattenSeq(Mapped(breakOf, rest)) # <<>>
        BY <4>1, <4>3, <4>4, FlattenOnly
      <4> QED
        BY <4>5 DEF FlatMap, rest
    <3>3. Join(ts) # <<>>
      BY <2>1, <3>2, GlueOfJoin, FlatMapEmpty
    <3> QED
      BY <2>3, <3>3
  <2>4. Len(ts) \in Nat /\ Len(ts) # 0
    BY <1>2
  <2> QED
    BY <2>2, <2>3, <2>4
<1> QED
  BY <1>1, <1>2

\* The parts of a message have the text of their texts, and no glue.
LEMMA TextOfParts ==
    ASSUME NEW parts \in Seq(Part)
    PROVE  /\ parts \in Seq(Block)
           /\ FlattenSeq(TextsIn(parts)) = FlatMap(allTextOf, parts)
           /\ FlatMap(allTextOf, parts) \in Seq(Fragments)
           /\ FlatMap(wordOf, FlatMap(wordsOf, parts)) = FlatMap(allTextOf, parts)
<1>1. parts \in Seq(Block)
  BY PartFacts, LargerSet
<1>2. PICK ts \in Seq(Texts) : ts = TextsIn(parts)
  <2>1. TextsIn(parts) \in Seq(Texts)
    <3>1. FlatMap(textsOf, parts) \in Seq(Texts)
      BY <1>1, MapTypes, FlatMapType
    <3> QED
      BY <1>1, <3>1, BlockLoops
  <2> QED
    BY <2>1, Zenon
<1>3. FlattenSeq(ts) = FlatMap(textItself, ts)
  <2>1. Mapped(textItself, ts) = ts
    <3>1. \A i \in DOMAIN ts : ts[i] \in Texts
      BY ElementsIn
    <3>2. DOMAIN ts = 1..Len(ts) /\ ts = [i \in 1..Len(ts) |-> ts[i]]
      OBVIOUS
    <3> QED
      BY <3>1, <3>2 DEF Mapped, textItself
  <2> QED
    BY <2>1 DEF FlatMap
<1>4. FlatMap(textItself, ts) = FlatMap(allTextOf, parts)
  BY <1>1, <1>2, SaidJoin, SaidTexts
<1>5. FlatMap(allTextOf, parts) \in Seq(Fragments)
  BY <1>1, MapTypes, FlatMapType
<1>6. FlatMap(wordOf, FlatMap(wordsOf, parts)) = FlatMap(allTextOf, parts)
  <2>1. IsContent(Blocks(parts), Block)
    BY <1>1 DEF IsContent, Blocks
  <2> QED
    BY <1>1, <2>1, AllTextIsSaid, BlockLoops
<1> QED
  BY <1>1, <1>2, <1>3, <1>4, <1>5, <1>6

\* The text of a message is that of its parts, if it has any, or its content.
LEMMA TextOfMessage ==
    ASSUME NEW m \in Message
    PROVE  /\ m.role = "tool" => TextOf(m) = <<>>
           /\ m.role # "tool" /\ m.parts # <<>> =>
                  /\ m.parts \in Seq(Part) /\ m.content = <<>>
                  /\ TextOf(m) = FlatMap(allTextOf, m.parts)
           /\ m.role # "tool" /\ m.parts = <<>> =>
                  /\ m.content \in Seq(Frags) \cup {PrintedNil}
                  /\ TextOf(m) = m.content
           /\ TextOf(m) \in Seq(Letters)
<1>1. CASE m.role = "tool"
  BY <1>1, EmptySeq DEF TextOf
<1>2. CASE m.role # "tool"
  <2>1. m \in UserMessage \cup AssistantMessage \cup SystemMessages
    BY <1>2 DEF Message, ToolMessage
  <2>2. /\ m.content \in Seq(Frags) \cup {PrintedNil} /\ m.parts \in Seq(Part)
        /\ m.parts # <<>> => m.content = <<>>
    BY <2>1, EmptySeq DEF Message, UserMessage, AssistantMessage, SystemMessages
  <2>3. TextOf(m) = m.content \o FlatMap(allTextOf, m.parts)
    BY <1>2, <2>2, TextOfParts DEF TextOf
  <2>4. m.content \in Seq(Letters) /\ FlatMap(allTextOf, m.parts) \in Seq(Letters)
    <3>1. \A t \in Seq(Frags) : t \in Seq(Letters)
      BY LetterMaps, LargerSet
    <3>2. PrintedNil \in Seq(Letters)
      BY LetterMaps DEF PrintedNil
    <3>3. FlatMap(allTextOf, m.parts) \in Seq(Fragments)
      BY <2>2, TextOfParts
    <3> QED
      BY <2>2, <3>1, <3>2, <3>3, LetterMaps, LargerSet
  <2>5. m.parts = <<>> => TextOf(m) = m.content
    <3>1. m.content \o <<>> = m.content
      BY <2>4, ConcatProperties
    <3> QED
      BY <2>3, <3>1, FlatMapEmpty
  <2>6. m.parts # <<>> => TextOf(m) = FlatMap(allTextOf, m.parts)
    <3>1. <<>> \o FlatMap(allTextOf, m.parts) = FlatMap(allTextOf, m.parts)
      BY <2>4, ConcatProperties
    <3> QED
      BY <2>2, <2>3, <3>1
  <2>7. TextOf(m) \in Seq(Letters)
    BY <2>3, <2>4, ConcatProperties
  <2> QED
    BY <1>2, <2>2, <2>5, <2>6, <2>7
<1> QED
  BY <1>1, <1>2

\* What a message says, without the images, is its text without the glue.
LEMMA PlainIsWritten == \A m \in Message : plainOf[m] = writtenOf[m]
<1> SUFFICES ASSUME NEW m \in Message
             PROVE  FlatMap(othersOf, TextOf(m)) = FlatMap(wordOf, spokenOf[m])
  BY DEF plainOf, writtenOf
<1>1. CASE m.role = "tool"
  BY <1>1, TextOfMessage, FlatMapEmpty DEF spokenOf
<1>2. CASE m.role # "tool" /\ m.parts # <<>>
  <2>1. /\ m.parts \in Seq(Part) /\ m.content = <<>>
        /\ TextOf(m) = FlatMap(allTextOf, m.parts)
    BY <1>2, TextOfMessage
  <2>2. spokenOf[m] = FlatMap(wordsOf, m.parts)
    <3>1. m.content \in Seq(Frags)
      BY <2>1, EmptySeq
    <3>2. SaidOf(m) = FlatMap(wordsOf, m.parts)
      BY <2>1, <3>1, SaidOfMessage
    <3> QED
      BY <1>2, <3>2 DEF spokenOf
  <2>3. /\ FlatMap(allTextOf, m.parts) \in Seq(Fragments)
        /\ FlatMap(wordOf, FlatMap(wordsOf, m.parts)) = FlatMap(allTextOf, m.parts)
    BY <2>1, TextOfParts
  <2> QED
    BY <2>1, <2>2, <2>3, NoGlue
<1>3. CASE m.role # "tool" /\ m.parts = <<>> /\ m.content = PrintedNil
  <2>1. TextOf(m) = PrintedNil
    BY <1>3, TextOfMessage
  <2>2. spokenOf[m] = <<>>
    BY <1>3 DEF spokenOf, SaidOf
  <2> QED
    BY <2>1, <2>2, NilIsGlue, FlatMapEmpty
<1>4. CASE m.role # "tool" /\ m.parts = <<>> /\ m.content # PrintedNil
  <2>1. m.content \in Seq(Frags) /\ TextOf(m) = m.content
    BY <1>4, TextOfMessage
  <2>2. PICK t \in Seq(Frags) : t = m.content
    BY <2>1
  <2>3. FlatMap(othersOf, t) = FlatMap(keptOf, t)
    <3>1. \A f \in Frags : othersOf[f] = keptOf[f]
      BY LetterMaps
    <3> QED
      BY <3>1, FlatMapSame
  <2>4. Said(t) = FlatMap(keptOf, t) /\ Said(t) \in Seq(Fragments)
    <3>1. FlatMap(keptOf, t) \in Seq(Fragments)
      BY MapTypes, FlatMapType
    <3> QED
      BY <3>1, SaidIsFlatMap
  <2>5. spokenOf[m] = Said(t)
    <3>1. m.parts \in Seq(Part)
      BY <1>4, EmptySeq
    <3>2. SaidOf(m) = Said(m.content)
      BY <1>4, <2>1, <3>1, SaidOfMessage
    <3> QED
      BY <1>4, <2>2, <3>2 DEF spokenOf
  <2>6. FlatMap(wordOf, Said(t)) = Said(t)
    <3>1. \A f \in Fragments : wordOf[f] = <<f>>
      BY TextsAssumption DEF wordOf, Words
    <3> QED
      BY <2>4, <3>1, FlatMapIdentity
  <2> QED
    BY <2>1, <2>2, <2>3, <2>4, <2>5, <2>6
<1> QED
  BY <1>1, <1>2, <1>3, <1>4

\* The measures of a message.
LEMMA GlueTypes ==
    /\ glueOf \in [Message -> Seq(Letters)]
    /\ textOf \in [Message -> Seq(Letters)]
    /\ silentOf \in [Message -> Seq({"system", "user", "assistant"})]
    /\ \A m \in Tool : glueOf[m] = <<>> /\ silentOf[m] = <<>>
<1>1. ASSUME NEW m \in Message
      PROVE  TextOf(m) \in Seq(Letters) /\ FlatMap(addedOf, TextOf(m)) \in Seq(Letters)
  <2>1. PICK t \in Seq(Letters) : t = TextOf(m)
    <3>1. TextOf(m) \in Seq(Letters)
      BY TextOfMessage
    <3> QED
      BY <3>1, Zenon
  <2>2. FlatMap(addedOf, t) \in Seq(Letters)
    BY LetterMaps, FlatMapType
  <2> QED
    BY <2>1, <2>2
<1>2. glueOf \in [Message -> Seq(Letters)] /\ textOf \in [Message -> Seq(Letters)]
  BY <1>1 DEF glueOf, textOf
<1>3. silentOf \in [Message -> Seq({"system", "user", "assistant"})]
  <2> DEFINE Roles == {"system", "user", "assistant"}
  <2>1. \A m \in Message : m.role # "tool" => m.role \in Roles
    BY DEF Message, UserMessage, AssistantMessage, SystemMessages, ToolMessage
  <2>2. \A S : <<>> \in Seq(S) /\ \A x \in S : <<x>> \in Seq(S)
    BY EmptySeq
  <2> HIDE DEF Roles
  <2>3. silentOf \in [Message -> Seq(Roles)]
    BY <2>1, <2>2 DEF silentOf
  <2> QED
    BY <2>3 DEF Roles
<1>4. ASSUME NEW m \in Tool PROVE glueOf[m] = <<>> /\ silentOf[m] = <<>>
  <2>1. m \in Message /\ m.role = "tool"
    BY DEF Tool
  <2> QED
    BY <2>1, TextOfMessage, FlatMapEmpty DEF glueOf, silentOf
<1> QED
  BY <1>2, <1>3, <1>4

\* A content without images, as a text: its glue, and when it is empty.
LEMMA GlueOfContent ==
    ASSUME NEW c, IsContent(c, Without("image"))
    PROVE  /\ c.kind = "blocks" => ~Has(c.blocks, "image")
           /\ FlatMap(addedOf, extractTextFromContent(c)) =
                  IF c.kind = "blocks" THEN Joints(TextsIn(c.blocks)) ELSE <<>>
           /\ SaidIn(c) = <<>> =>
                  (extractTextFromContent(c) # <<>> <=>
                      c.kind = "blocks" /\ Len(TextsIn(c.blocks)) > 1)
<1> DEFINE text == extractTextFromContent(c)
<1>1. CASE c = NoContent
  <2>1. text = <<>> /\ c.kind # "blocks"
    BY <1>1 DEF NoContent, extractTextFromContent
  <2> QED
    BY <2>1, FlatMapEmpty
<1>2. ASSUME NEW t \in Texts, c = Str(t)
      PROVE  /\ c.kind # "blocks" /\ FlatMap(addedOf, text) = <<>>
             /\ SaidIn(c) = <<>> => text = <<>>
  <2>1. text = t /\ SaidIn(c) = t /\ c.kind # "blocks"
    BY <1>2, SaidText DEF Str, extractTextFromContent, SaidIn
  <2>2. FlatMap(addedOf, t) = <<>>
    BY TextType, NoGlue
  <2> QED
    BY <2>1, <2>2
<1>3. ASSUME NEW s \in Seq(Without("image")), c = Blocks(s)
      PROVE  /\ c.kind = "blocks" /\ ~Has(c.blocks, "image")
             /\ FlatMap(addedOf, text) = Joints(TextsIn(c.blocks))
             /\ SaidIn(c) = <<>> => (text # <<>> <=> Len(TextsIn(c.blocks)) > 1)
  <2>1. c.kind = "blocks" /\ c.blocks = s
    BY <1>3 DEF Blocks
  <2>2. ~Has(s, "image")
    <3>1. \A i \in DOMAIN s : s[i] \in Without("image")
      BY ElementsIn
    <3> QED
      BY <3>1 DEF Has, Without
  <2>3. s \in Seq(Block)
    BY LargerSet DEF Without
  <2>4. PICK ts \in Seq(Texts) : ts = TextsIn(s)
    <3>1. FlatMap(textsOf, s) \in Seq(Texts)
      BY <2>3, MapTypes, FlatMapType
    <3>2. TextsIn(s) \in Seq(Texts)
      BY <2>3, <3>1, BlockLoops
    <3> QED
      BY <3>2, Zenon
  <2>5. text = Join(ts)
    BY <2>1, <2>4 DEF extractTextFromContent
  <2>6. FlatMap(addedOf, Join(ts)) = Joints(ts)
    BY GlueOfJoin
  <2>7. SaidIn(c) = Said(Join(ts))
    <3>1. IsContent(c, Block)
      BY <1>3, <2>1, <2>3 DEF IsContent
    <3> QED
      BY <2>5, <3>1, TextOfContent, SaidWithoutImages
  <2>8. Said(Join(ts)) = <<>> => (Join(ts) # <<>> <=> Len(ts) > 1)
    BY JoinOfNothing
  <2> QED
    BY <2>1, <2>2, <2>4, <2>5, <2>6, <2>7, <2>8
<1> QED
  BY <1>1, <1>2, <1>3, ContentKinds

\* Messages ms of a role are as silent and have as much glue as content c of
\* a turn, or of a prompt, is expected to give.
Measured(ms, role, as, c) ==
    /\ FlatMap(silentOf, ms) = IF SentThoughSilent(as, c) THEN <<role>> ELSE <<>>
    /\ FlatMap(glueOf, ms) = GlueOf(as, c)

\* One message is measured by itself.
LEMMA OneMeasured ==
    ASSUME NEW m \in Message
    PROVE  FlatMap(silentOf, <<m>>) = silentOf[m] /\ FlatMap(glueOf, <<m>>) = glueOf[m]
<1>1. FlatMap(silentOf, <<m>>) = silentOf[m]
  BY GlueTypes, FlatMapSingle, Zenon
<1>2. FlatMap(glueOf, <<m>>) = glueOf[m]
  BY GlueTypes, FlatMapSingle, Zenon
<1> QED
  BY <1>1, <1>2

\* A content that goes as a text.
LEMMA TextMeasured ==
    ASSUME NEW c, IsContent(c, Without("image")), IsContent(c, Block), NEW as, NEW m \in Message,
           m.role # "tool", m.content = extractTextFromContent(c), m.parts = <<>>,
           m.calls = IdsIn(c, "tool_use"), as # "user" \/ c.kind # "none", NEW ms,
           ms = IF as # "system" /\ m.content = <<>> /\ m.calls = <<>> THEN <<>> ELSE <<m>>
    PROVE  Measured(ms, m.role, as, c)
<1> DEFINE text == extractTextFromContent(c)
           texts == IF c.kind = "blocks" THEN TextsIn(c.blocks) ELSE <<>>
<1>1. text \in Seq(Frags) /\ Said(text) = SaidIn(c)
  BY TextOfContent, SaidWithoutImages
<1>2. SaidOf(m) = SaidIn(c)
  <2>1. m.content \in Seq(Frags) /\ m.parts \in Seq(Part)
    BY <1>1, EmptySeq
  <2>2. SaidOf(m) = Said(m.content)
    BY <2>1, SaidOfMessage
  <2> QED
    BY <1>1, <2>2
<1>3. silentOf[m] = IF m.calls = <<>> /\ SaidIn(c) = <<>> THEN <<m.role>> ELSE <<>>
  BY <1>2 DEF silentOf, Silent
<1>4. glueOf[m] = FlatMap(addedOf, text)
  BY TextOfMessage DEF glueOf
<1>5. FlatMap(addedOf, text) = GlueOf(as, c)
  <2>1. FlatMap(addedOf, text) = IF c.kind = "blocks" THEN Joints(TextsIn(c.blocks)) ELSE <<>>
    BY GlueOfContent
  <2>2. c.kind = "blocks" => ~Has(c.blocks, "image")
    BY GlueOfContent
  <2>3. GlueOf(as, c) = IF c.kind = "blocks" THEN Joints(TextsIn(c.blocks)) ELSE <<>>
    BY <2>2, Zenon DEF GlueOf
  <2> QED
    BY <2>1, <2>3
<1>6. SentThoughSilent(as, c) <=>
          /\ SaidIn(c) = <<>> /\ m.calls = <<>>
          /\ as = "system" \/ Len(texts) > 1
  <2>1. texts # <<>> => c.kind = "blocks"
    OBVIOUS
  <2>2. ~(texts # <<>> /\ Has(c.blocks, "image"))
    BY <2>1, GlueOfContent, Zenon
  <2> QED
    BY <2>2, Zenon DEF SentThoughSilent
<1>7. SaidIn(c) = <<>> => (text # <<>> <=> Len(texts) > 1)
  <2>1. SaidIn(c) = <<>> => (text # <<>> <=> c.kind = "blocks" /\ Len(TextsIn(c.blocks)) > 1)
    BY GlueOfContent
  <2>2. c.kind # "blocks" => ~(Len(texts) > 1)
    OBVIOUS
  <2>3. c.kind = "blocks" => texts = TextsIn(c.blocks)
    OBVIOUS
  <2> HIDE DEF texts, text
  <2> QED
    BY <2>1, <2>2, <2>3
<1>8. text = <<>> => FlatMap(addedOf, text) = <<>> /\ SaidIn(c) = <<>>
  BY <1>1, SaidIsFlatMap, FlatMapEmpty
<1> HIDE DEF text, texts
<1>9. m.content = text
  BY DEF text
<1>10. CASE ms = <<m>>
  <2>1. FlatMap(silentOf, ms) = IF SentThoughSilent(as, c) THEN <<m.role>> ELSE <<>>
    <3>1. FlatMap(silentOf, ms) = silentOf[m]
      BY <1>10, OneMeasured
    <3>2. m.calls = <<>> /\ SaidIn(c) = <<>> /\ as # "system" => text # <<>>
      <4>1. <<m>> # <<>>
        OBVIOUS
      <4> QED
        BY <1>9, <1>10, <4>1
    <3>3. SentThoughSilent(as, c) <=> SaidIn(c) = <<>> /\ m.calls = <<>>
      BY <1>6, <1>7, <3>2, Zenon
    <3> QED
      BY <1>3, <3>1, <3>3
  <2>2. FlatMap(glueOf, ms) = GlueOf(as, c)
    BY <1>4, <1>5, <1>10, OneMeasured
  <2> QED
    BY <2>1, <2>2, Zenon DEF Measured
<1>11. CASE ms # <<m>>
  <2>1. as # "system" /\ text = <<>> /\ m.calls = <<>> /\ ms = <<>>
    BY <1>9, <1>11
  <2>2. ~SentThoughSilent(as, c)
    BY <1>6, <1>7, <2>1, Zenon
  <2>3. FlatMap(silentOf, ms) = <<>> /\ FlatMap(glueOf, ms) = <<>>
    BY <2>1, FlatMapEmpty
  <2> QED
    BY <1>5, <1>8, <2>1, <2>2, <2>3, Zenon DEF Measured
<1> QED
  BY <1>10, <1>11

\* The messages made of a text of fragments.
LEMMA TextMessages ==
    ASSUME NEW text \in Seq(Frags), NEW calls \in Seq(ToolIds)
    PROVE  /\ Msg("user", text) \in Message
           /\ Msg("system", text) \in Message
           /\ [Msg("assistant", text) EXCEPT !.calls = calls] \in Message
<1>1. PICK u : u = Msg("user", text)
  OBVIOUS
<1>2. PICK s : s = Msg("system", text)
  OBVIOUS
<1>3. PICK a : a = [Msg("assistant", text) EXCEPT !.calls = calls]
  OBVIOUS
<1>4. u = [role |-> "user", content |-> text, parts |-> <<>>, calls |-> <<>>, id |-> NoId]
  BY <1>1, MadeMessages
<1>5. s = [role |-> "system", content |-> text, parts |-> <<>>, calls |-> <<>>, id |-> NoId]
  BY <1>2, MadeMessages
<1>6. a = [role |-> "assistant", content |-> text, parts |-> <<>>, calls |-> calls, id |-> NoId]
  BY <1>3 DEF Msg
<1>7. u \in UserMessage /\ u.parts = <<>> /\ u.role # "tool"
  BY <1>4, EmptySeq DEF UserMessage
<1>8. s \in SystemMessages /\ s.parts = <<>> /\ s.role # "tool"
  BY <1>5 DEF SystemMessages
<1>9. a \in AssistantMessage /\ a.parts = <<>> /\ a.role # "tool"
  BY <1>6 DEF AssistantMessage
<1>10. u \in Message /\ s \in Message /\ a \in Message
  BY <1>7, <1>8, <1>9 DEF Message
<1> QED
  BY <1>1, <1>2, <1>3, <1>10

\* Blocks that say nothing give parts if and only if they have texts.
LEMMA PartsOfNothing ==
    ASSUME NEW s \in Seq(Block), FlatMap(wordsOf, s) = <<>>
    PROVE  FlatMap(partsOf, s) = <<>> <=> FlatMap(textsOf, s) = <<>>
<1>1. /\ Mapped(wordsOf, s) \in Seq(Seq(Words))
      /\ Mapped(partsOf, s) \in Seq(Seq(Part))
      /\ Mapped(textsOf, s) \in Seq(Seq(Texts))
  <2>1. /\ wordsOf \in [Block -> Seq(Words)] /\ partsOf \in [Block -> Seq(Part)]
        /\ textsOf \in [Block -> Seq(Texts)]
    BY WordsTyped, MapTypes
  <2>2. Mapped(wordsOf, s) \in Seq(Seq(Words))
    BY <2>1, MappedType
  <2>3. Mapped(partsOf, s) \in Seq(Seq(Part))
    BY <2>1, MappedType
  <2>4. Mapped(textsOf, s) \in Seq(Seq(Texts))
    BY <2>1, MappedType
  <2> QED
    BY <2>2, <2>3, <2>4
<1>2. \A g : DOMAIN Mapped(g, s) = DOMAIN s /\ \A i \in DOMAIN s : Mapped(g, s)[i] = g[s[i]]
  BY DEF Mapped
<1>3. \A i \in DOMAIN s : s[i] \in Block
  BY ElementsIn
<1>4. \A i \in DOMAIN s : wordsOf[s[i]] = <<>>
  <2>1. FlattenSeq(Mapped(wordsOf, s)) = <<>>
    BY DEF FlatMap
  <2>2. \A j \in DOMAIN Mapped(wordsOf, s) : Mapped(wordsOf, s)[j] = <<>>
    BY <1>1, <2>1, FlattenOnly
  <2> QED
    BY <1>2, <2>2
<1>5. ASSUME NEW b \in Block, wordsOf[b] = <<>> PROVE partsOf[b] = <<>> <=> textsOf[b] = <<>>
  <2>1. ~(b.type = "image" /\ b.source = "base64")
    <3>1. <<"image">> # <<>>
      OBVIOUS
    <3> QED
      BY <1>5, <3>1, WordsOfBlock
  <2>2. <<b>> # <<>> /\ <<b.text>> # <<>>
    OBVIOUS
  <2> QED
    BY <2>1, <2>2 DEF partsOf, textsOf
<1>6. FlatMap(partsOf, s) = <<>> <=> \A i \in DOMAIN s : partsOf[s[i]] = <<>>
  <2>1. FlattenSeq(Mapped(partsOf, s)) = <<>> <=>
            \A j \in DOMAIN Mapped(partsOf, s) : Mapped(partsOf, s)[j] = <<>>
    BY <1>1, FlattenOnly
  <2> QED
    BY <1>2, <2>1 DEF FlatMap
<1>7. FlatMap(textsOf, s) = <<>> <=> \A i \in DOMAIN s : textsOf[s[i]] = <<>>
  <2>1. FlattenSeq(Mapped(textsOf, s)) = <<>> <=>
            \A j \in DOMAIN Mapped(textsOf, s) : Mapped(textsOf, s)[j] = <<>>
    BY <1>1, FlattenOnly
  <2> QED
    BY <1>2, <2>1 DEF FlatMap
<1> QED
  BY <1>3, <1>4, <1>5, <1>6, <1>7

\* A user's turn, or the rest of it.
LEMMA UserMessageMeasured ==
    ASSUME NEW c, IsContent(c, RestBlock)
    PROVE  Measured(convertClaudeUserMessage(c), "user", "user", c)
<1>1. RestBlock \subseteq Block /\ RestBlock \subseteq Without("tool_use")
  BY DEF RestBlock, Without, Block, UserBlock, AssistantBlock, TextBlock, ImageBlock
<1>2. IsContent(c, Block) /\ IdsIn(c, "tool_use") = <<>>
  BY <1>1, MoreBlocks, NoCalls
<1>3. CASE c = NoContent
  <2>1. PICK m : m = Msg("user", PrintedNil)
    OBVIOUS
  <2>2. m = [role |-> "user", content |-> PrintedNil, parts |-> <<>>, calls |-> <<>>, id |-> NoId]
    BY <2>1, MadeMessages
  <2>3. m \in Message /\ m.role = "user" /\ m.content = PrintedNil /\ m.parts = <<>> /\ m.calls = <<>>
    <3>1. m \in UserMessage
      BY <2>2, EmptySeq DEF UserMessage
    <3> QED
      BY <2>2, <3>1 DEF Message
  <2>4. convertClaudeUserMessage(c) = <<m>> /\ SaidIn(c) = <<>> /\ c.kind = "none"
    BY <1>3, <2>1 DEF NoContent, convertClaudeUserMessage, SaidIn
  <2>5. silentOf[m] = <<"user">>
    BY <2>3 DEF silentOf, Silent, SaidOf
  <2>6. glueOf[m] = PrintedNil
    <3>1. TextOf(m) = PrintedNil
      BY <2>3, TextOfMessage
    <3> QED
      BY <2>3, <3>1, NilIsGlue DEF glueOf
  <2>7. SentThoughSilent("user", c)
    BY <1>2, <2>4, Zenon DEF SentThoughSilent
  <2>8. GlueOf("user", c) = PrintedNil
    BY <2>4, Zenon DEF GlueOf
  <2> QED
    BY <2>3, <2>4, <2>5, <2>6, <2>7, <2>8, OneMeasured DEF Measured
<1>4. ASSUME NEW s \in Seq(RestBlock), c = Blocks(s), Has(s, "image")
      PROVE  Measured(convertClaudeUserMessage(c), "user", "user", c)
  <2>1. c.kind = "blocks" /\ c.blocks = s
    BY <1>4 DEF Blocks
  <2>2. s \in Seq(Block)
    BY <1>1, LargerSet
  <2>3. PICK parts \in Seq(Part) : parts = Parts(s) /\ parts = FlatMap(partsOf, s)
    <3>1. FlatMap(partsOf, s) \in Seq(Part)
      BY <2>2, MapTypes, FlatMapType
    <3>2. Parts(s) = FlatMap(partsOf, s)
      BY <2>2, BlockLoops
    <3> QED
      BY <3>1, <3>2, Zenon
  <2>4. PICK m : m = [Msg("user", <<>>) EXCEPT !.parts = parts]
    OBVIOUS
  <2>5. m = [role |-> "user", content |-> <<>>, parts |-> parts, calls |-> <<>>, id |-> NoId]
    BY <2>4, MadeMessages
  <2>6. m \in Message /\ m.role = "user" /\ m.content = <<>> /\ m.parts = parts /\ m.calls = <<>>
    <3>1. m \in UserMessage
      BY <2>5, EmptySeq DEF UserMessage
    <3> QED
      BY <2>5, <3>1 DEF Message
  <2>7. convertClaudeUserMessage(c) = IF parts = <<>> THEN <<>> ELSE <<m>>
    BY <1>4, <2>1, <2>3, <2>4 DEF convertClaudeUserMessage
  <2>8. Kept(convertClaudeUserMessage(c), "user", c)
    BY UserMessageKept
  <2>9. GlueOf("user", c) = <<>>
    <3>1. c.kind # "none"
      BY <2>1
    <3> QED
      BY <1>4, <2>1, <3>1, Zenon DEF GlueOf
  <2>10. SaidIn(c) = <<>> => (parts = <<>> <=> TextsIn(s) = <<>>)
    <3>1. SaidIn(c) = FlatMap(wordsOf, s) /\ TextsIn(s) = FlatMap(textsOf, s)
      BY <1>4, <2>2, BlockLoops
    <3> QED
      BY <2>2, <2>3, <3>1, PartsOfNothing
  <2>11. SentThoughSilent("user", c) <=> SaidIn(c) = <<>> /\ TextsIn(s) # <<>>
    <3>1. Len(TextsIn(s)) > 1 => TextsIn(s) # <<>>
      <4>1. Len(<<>>) = 0
        OBVIOUS
      <4> QED
        BY <4>1
    <3>2. c.kind # "none"
      BY <2>1
    <3> QED
      BY <1>2, <1>4, <2>1, <3>1, <3>2, Zenon DEF SentThoughSilent
  <2>12. CASE parts = <<>>
    <3>1. convertClaudeUserMessage(c) = <<>>
      BY <2>7, <2>12
    <3>2. ~SentThoughSilent("user", c)
      BY <2>10, <2>11, <2>12
    <3> QED
      BY <2>9, <3>1, <3>2, FlatMapEmpty DEF Measured
  <2>13. CASE parts # <<>>
    <3>1. convertClaudeUserMessage(c) = <<m>>
      BY <2>7, <2>13
    <3>2. SaidOf(m) = SaidIn(c)
      <4>1. FlatMap(saidAs("user"), <<m>>) = SaidIn(c)
        BY <2>8, <3>1 DEF Kept
      <4>2. saidAs("user") \in [Message -> Seq(Words)]
        BY MessageTypes
      <4>3. FlatMap(saidAs("user"), <<m>>) = saidAs("user")[m]
        BY <2>6, <4>2, FlatMapSingle
      <4> QED
        BY <2>6, <4>1, <4>3 DEF saidAs
    <3>3. silentOf[m] = IF SaidIn(c) = <<>> THEN <<"user">> ELSE <<>>
      BY <2>6, <3>2 DEF silentOf, Silent
    <3>4. glueOf[m] = <<>>
      <4>1. TextOf(m) = FlatMap(allTextOf, parts)
        BY <2>6, <2>13, TextOfMessage
      <4>2. FlatMap(allTextOf, parts) \in Seq(Fragments)
        BY TextOfParts
      <4> QED
        BY <2>6, <4>1, <4>2, NoGlue DEF glueOf
    <3>5. SentThoughSilent("user", c) <=> SaidIn(c) = <<>>
      BY <2>10, <2>11, <2>13
    <3> QED
      BY <2>6, <2>9, <3>1, <3>3, <3>4, <3>5, OneMeasured DEF Measured
  <2> QED
    BY <2>12, <2>13
<1>5. ASSUME IsContent(c, Without("image")), c # NoContent
      PROVE  Measured(convertClaudeUserMessage(c), "user", "user", c)
  <2>1. PICK text \in Seq(Frags) : text = extractTextFromContent(c)
    BY <1>2, TextOfContent
  <2>2. c.kind # "none"
    BY <1>5 DEF IsContent, Str
  <2>3. ~(c.kind = "blocks" /\ Has(c.blocks, "image"))
    BY <1>5, GlueOfContent
  <2>4. PICK m : m = Msg("user", text)
    OBVIOUS
  <2>5. m \in Message
    BY <2>4, TextMessages, EmptySeq
  <2>6. m.role = "user" /\ m.content = text /\ m.parts = <<>> /\ m.calls = <<>>
    BY <2>4 DEF Msg
  <2>7. convertClaudeUserMessage(c) = IF text = <<>> THEN <<>> ELSE <<m>>
    BY <2>1, <2>2, <2>3, <2>4 DEF convertClaudeUserMessage
  <2> QED
    BY <1>2, <1>5, <2>1, <2>2, <2>5, <2>6, <2>7, TextMeasured
<1>6. ASSUME NEW t \in Texts, c = Str(t)
      PROVE  Measured(convertClaudeUserMessage(c), "user", "user", c)
  BY <1>5, <1>6 DEF IsContent, NoContent, Str
<1>7. ASSUME NEW s \in Seq(RestBlock), c = Blocks(s), ~Has(s, "image")
      PROVE  Measured(convertClaudeUserMessage(c), "user", "user", c)
  <2>1. \A i \in DOMAIN s : s[i] \in Without("image")
    <3>1. \A i \in DOMAIN s : s[i] \in Block
      BY <1>1, ElementsIn
    <3> QED
      BY <1>7, <3>1 DEF Has, Without
  <2>2. s \in Seq(Without("image"))
    BY <2>1
  <2>3. c.kind = "blocks" /\ c.blocks = s /\ c # NoContent
    BY <1>7 DEF Blocks, NoContent
  <2> QED
    BY <1>5, <1>7, <2>2, <2>3 DEF IsContent
<1> QED
  BY <1>3, <1>4, <1>6, <1>7, ContentKinds

imagesOf == [b \in Block |-> IF b.type = "image" THEN <<b>> ELSE <<>>]

\* Whether there is an image among the blocks.
LEMMA HasImage ==
    ASSUME NEW s \in Seq(Block)
    PROVE  Has(s, "image") <=> FlatMap(imagesOf, s) # <<>>
<1>1. imagesOf \in [Block -> Seq(Block)]
  <2>1. <<>> \in Seq(Block) /\ \A x \in Block : <<x>> \in Seq(Block)
    BY EmptySeq
  <2> QED
    BY <2>1 DEF imagesOf
<1>2. Mapped(imagesOf, s) \in Seq(Seq(Block))
  BY <1>1, MappedType
<1>3. /\ DOMAIN Mapped(imagesOf, s) = DOMAIN s
      /\ \A i \in DOMAIN s : Mapped(imagesOf, s)[i] = imagesOf[s[i]]
  BY DEF Mapped
<1>4. FlattenSeq(Mapped(imagesOf, s)) = <<>> <=>
          \A j \in DOMAIN Mapped(imagesOf, s) : Mapped(imagesOf, s)[j] = <<>>
  BY <1>2, FlattenOnly
<1>5. \A i \in DOMAIN s : imagesOf[s[i]] = <<>> <=> s[i].type # "image"
  <2>1. \A i \in DOMAIN s : s[i] \in Block
    BY ElementsIn
  <2>2. \A x : <<x>> # <<>>
    OBVIOUS
  <2> QED
    BY <2>1, <2>2 DEF imagesOf
<1> QED
  BY <1>3, <1>4, <1>5 DEF Has, FlatMap

\* Without the results, a content has the texts and the images it had.
LEMMA RestLike ==
    ASSUME NEW s \in Seq(UserBlock)
    PROVE  /\ TextsIn(nonToolResultBlocks(s)) = TextsIn(s)
           /\ Has(nonToolResultBlocks(s), "image") <=> Has(s, "image")
<1>1. s \in Seq(Block)
  BY KindsOfBlocks, LargerSet
<1>2. PICK rest \in Seq(Block) : rest = nonToolResultBlocks(s)
  <2>1. nonToolResultBlocks(s) \in Seq(RestBlock)
    BY RestKept
  <2>2. RestBlock \subseteq Block
    BY DEF RestBlock, Block, UserBlock
  <2>3. nonToolResultBlocks(s) \in Seq(Block)
    BY <2>1, <2>2, LargerSet
  <2> QED
    BY <2>3, Zenon
<1>3. FlatMap(textsOf, rest) = FlatMap(textsOf, s)
  <2>1. textsOf \in [Block -> Seq(Texts)]
    BY MapTypes
  <2>2. \A b \in Block : b.type = "tool_result" => textsOf[b] = <<>>
    BY DEF textsOf
  <2> QED
    BY <1>1, <1>2, <2>1, <2>2, RestGives
<1>4. FlatMap(imagesOf, rest) = FlatMap(imagesOf, s)
  <2>1. imagesOf \in [Block -> Seq(Block)]
    <3>1. <<>> \in Seq(Block) /\ \A x \in Block : <<x>> \in Seq(Block)
      BY EmptySeq
    <3> QED
      BY <3>1 DEF imagesOf
  <2>2. \A b \in Block : b.type = "tool_result" => imagesOf[b] = <<>>
    BY DEF imagesOf
  <2> QED
    BY <1>1, <1>2, <2>1, <2>2, RestGives
<1>5. TextsIn(rest) = FlatMap(textsOf, rest) /\ TextsIn(s) = FlatMap(textsOf, s)
  BY <1>1, BlockLoops
<1>6. /\ Has(rest, "image") <=> FlatMap(imagesOf, rest) # <<>>
      /\ Has(s, "image") <=> FlatMap(imagesOf, s) # <<>>
  BY <1>1, HasImage
<1> QED
  BY <1>2, <1>3, <1>4, <1>5, <1>6

\* A user's turn: results of tools are not counted.
LEMMA UserTurnMeasured ==
    ASSUME NEW c, IsContent(c, UserBlock)
    PROVE  Measured(UserTurn(c), "user", "user", c)
<1>1. ASSUME ~containsToolResultBlock(c) PROVE Measured(UserTurn(c), "user", "user", c)
  BY <1>1, RestIsAll, UserMessageMeasured
<1>2. ASSUME containsToolResultBlock(c) PROVE Measured(UserTurn(c), "user", "user", c)
  <2>1. PICK s \in Seq(UserBlock) :
            /\ c = Blocks(s) /\ c.kind = "blocks" /\ c.blocks = s /\ s \in Seq(Block)
            /\ UserTurn(c) = FlatMap(resultsOf, s)
                                \o convertClaudeUserMessage(Blocks(nonToolResultBlocks(s)))
    BY <1>2, ResultsThenRest
  <2>2. PICK rest \in Seq(RestBlock) : rest = nonToolResultBlocks(s)
    <3>1. nonToolResultBlocks(s) \in Seq(RestBlock)
      BY RestKept
    <3> QED
      BY <3>1, Zenon
  <2>3. PICK d : d = Blocks(rest)
    OBVIOUS
  <2>4. d.kind = "blocks" /\ d.blocks = rest /\ IsContent(d, RestBlock)
    BY <2>3 DEF Blocks, IsContent
  <2>5. /\ SaidIn(d) = SaidIn(c) /\ TextsIn(rest) = TextsIn(s)
        /\ Has(rest, "image") <=> Has(s, "image")
    BY <2>1, <2>2, <2>3, RestKept, RestLike
  <2>6. IdsIn(c, "tool_use") = <<>> /\ IdsIn(d, "tool_use") = <<>>
    <3>1. RestBlock \subseteq Without("tool_use")
      BY DEF RestBlock, Without, Block, UserBlock, TextBlock, ImageBlock
    <3>2. IsContent(d, Without("tool_use"))
      BY <2>4, <3>1, MoreBlocks
    <3>3. IsContent(c, Without("tool_use"))
      BY KindsOfBlocks, MoreBlocks
    <3> QED
      BY <3>2, <3>3, NoCalls
  <2>7. SentThoughSilent("user", d) <=> SentThoughSilent("user", c)
    BY <2>1, <2>4, <2>5, <2>6, Zenon DEF SentThoughSilent
  <2>8. GlueOf("user", d) = GlueOf("user", c)
    <3>1. \A role : GlueOf(role, d) = IF Has(rest, "image") THEN <<>> ELSE Joints(TextsIn(rest))
      BY <2>4 DEF GlueOf
    <3>2. \A role : GlueOf(role, c) = IF Has(s, "image") THEN <<>> ELSE Joints(TextsIn(s))
      BY <2>1 DEF GlueOf
    <3> QED
      BY <2>5, <3>1, <3>2
  <2>9. PICK said \in Seq(Message) :
            said = convertClaudeUserMessage(d) /\ Measured(said, "user", "user", d)
    <3>1. Kept(convertClaudeUserMessage(d), "user", d)
      BY <2>4, UserMessageKept
    <3>2. convertClaudeUserMessage(d) \in Seq(Message)
      BY <3>1, LargerSet DEF Kept, MessageOf
    <3>3. Measured(convertClaudeUserMessage(d), "user", "user", d)
      BY <2>4, UserMessageMeasured
    <3> QED
      BY <3>2, <3>3, Zenon
  <2>10. PICK results \in Seq(Tool) : results = FlatMap(resultsOf, s)
    <3>1. FlatMap(resultsOf, s) \in Seq(Tool)
      BY ResultsKept
    <3> QED
      BY <3>1, Zenon
  <2>11. results \in Seq(Message)
    BY LargerSet DEF Tool
  <2>12. FlatMap(silentOf, results) = <<>> /\ FlatMap(glueOf, results) = <<>>
    <3>1. \A m \in Tool : glueOf[m] = <<>> /\ silentOf[m] = <<>>
      BY GlueTypes
    <3> QED
      BY <3>1, FlatMapNothing
  <2>13. Distributes(silentOf, Message) /\ Distributes(glueOf, Message)
    BY GlueTypes, FlatMapConcat
  <2>14. /\ FlatMap(silentOf, results \o said) = <<>> \o FlatMap(silentOf, said)
         /\ FlatMap(glueOf, results \o said) = <<>> \o FlatMap(glueOf, said)
    BY <2>11, <2>12, <2>13, Zenon DEF Distributes
  <2>15. /\ <<>> \o FlatMap(silentOf, said) = FlatMap(silentOf, said)
         /\ <<>> \o FlatMap(glueOf, said) = FlatMap(glueOf, said)
    <3>1. FlatMap(silentOf, said) \in Seq({"system", "user", "assistant"})
      BY GlueTypes, FlatMapType
    <3>2. FlatMap(glueOf, said) \in Seq(Letters)
      BY GlueTypes, FlatMapType
    <3> QED
      BY <3>1, <3>2, ConcatProperties
  <2>16. UserTurn(c) = results \o said
    BY <2>1, <2>2, <2>3, <2>9, <2>10, Zenon
  <2> QED
    BY <2>7, <2>8, <2>9, <2>14, <2>15, <2>16 DEF Measured
<1> QED
  BY <1>1, <1>2

\* The assistant's turns, the system's, and the prompt.
LEMMA OthersMeasured ==
    /\ \A c : IsContent(c, AssistantBlock) =>
           Measured(convertClaudeAssistantMessage(c), "assistant", "assistant", c)
    /\ \A c : IsContent(c, TextBlock) =>
           /\ Measured(convertClaudeSystemMessage(c), "system", "system", c)
           /\ Measured(SystemMessage(c), "system", "prompt", c)
<1>1. ASSUME NEW c, IsContent(c, AssistantBlock)
      PROVE  Measured(convertClaudeAssistantMessage(c), "assistant", "assistant", c)
  <2>1. IsContent(c, Block) /\ IsContent(c, Without("image"))
    BY <1>1, KindsOfBlocks, MoreBlocks
  <2>2. PICK text \in Seq(Frags) : text = extractTextFromContent(c)
    BY <2>1, TextOfContent
  <2>3. PICK calls \in Seq(ToolIds) : calls = IdsIn(c, "tool_use")
    BY <2>1, CallIds
  <2>4. PICK m : m = [Msg("assistant", text) EXCEPT !.calls = calls]
    OBVIOUS
  <2>5. m \in Message
    BY <2>4, TextMessages
  <2>6. m.role = "assistant" /\ m.content = text /\ m.parts = <<>> /\ m.calls = calls
    BY <2>4 DEF Msg
  <2>7. convertClaudeAssistantMessage(c) = IF text = <<>> /\ calls = <<>> THEN <<>> ELSE <<m>>
    BY <2>2, <2>3, <2>4 DEF convertClaudeAssistantMessage
  <2> QED
    BY <2>1, <2>2, <2>3, <2>5, <2>6, <2>7, TextMeasured
<1>2. ASSUME NEW c, IsContent(c, TextBlock)
      PROVE  /\ Measured(convertClaudeSystemMessage(c), "system", "system", c)
             /\ Measured(SystemMessage(c), "system", "prompt", c)
  <2>1. IsContent(c, Block) /\ IsContent(c, Without("image")) /\ IdsIn(c, "tool_use") = <<>>
    BY <1>2, KindsOfBlocks, MoreBlocks, NoCalls
  <2>2. PICK text \in Seq(Frags) : text = extractTextFromContent(c)
    BY <2>1, TextOfContent
  <2>3. PICK m : m = Msg("system", text)
    OBVIOUS
  <2>4. m \in Message
    BY <2>3, TextMessages, EmptySeq
  <2>5. m.role = "system" /\ m.content = text /\ m.parts = <<>> /\ m.calls = <<>>
    BY <2>3 DEF Msg
  <2>6. convertClaudeSystemMessage(c) = <<m>>
    BY <2>2, <2>3 DEF convertClaudeSystemMessage
  <2>7. SystemMessage(c) = IF text = <<>> THEN <<>> ELSE <<m>>
    <3>1. extractSystemContent(c) = text
      BY <1>2, <2>2, PromptText
    <3> QED
      BY <2>3, <3>1 DEF SystemMessage
  <2>8. Measured(convertClaudeSystemMessage(c), "system", "system", c)
    BY <2>1, <2>2, <2>4, <2>5, <2>6, TextMeasured
  <2>9. Measured(SystemMessage(c), "system", "prompt", c)
    BY <2>1, <2>2, <2>4, <2>5, <2>7, TextMeasured
  <2> QED
    BY <2>8, <2>9
<1> QED
  BY <1>1, <1>2

\* Every turn.
LEMMA TurnMeasured ==
    ASSUME NEW m \in Turns
    PROVE  Measured(ConvertTurn(m), m.role, m.role, m.content)
<1>1. CASE m \in UserTurns
  <2>1. m.role = "user" /\ IsContent(m.content, UserBlock)
    BY <1>1, ContentsAssumption DEF UserTurns, UserBlock
  <2>2. ConvertTurn(m) = UserTurn(m.content)
    BY <2>1 DEF ConvertTurn
  <2> QED
    BY <2>1, <2>2, UserTurnMeasured
<1>2. CASE m \in AssistantTurns
  <2>1. m.role = "assistant" /\ IsContent(m.content, AssistantBlock)
    BY <1>2, ContentsAssumption DEF AssistantTurns, AssistantBlock
  <2>2. ConvertTurn(m) = convertClaudeAssistantMessage(m.content)
    BY <2>1 DEF ConvertTurn
  <2> QED
    BY <2>1, <2>2, OthersMeasured
<1>3. CASE m \in SystemTurns
  <2>1. m.role = "system" /\ IsContent(m.content, TextBlock)
    BY <1>3, ContentsAssumption DEF SystemTurns
  <2>2. ConvertTurn(m) = convertClaudeSystemMessage(m.content)
    BY <2>1 DEF ConvertTurn
  <2> QED
    BY <2>1, <2>2, OthersMeasured
<1> QED
  BY <1>1, <1>2, <1>3 DEF Turns

silentTurns ==
    [m \in Turns |-> IF SentThoughSilent(m.role, m.content) THEN <<m.role>> ELSE <<>>]
glueTurns == [m \in Turns |-> GlueOf(m.role, m.content)]

\* The loops over messages and turns.
LEMMA MeasuringLoops ==
    ASSUME ConversionInv
    PROVE  /\ Collect(request, LAMBDA m : IF m.role # "tool" /\ Silent(m) THEN <<m.role>> ELSE <<>>)
                  = FlatMap(silentOf, request)
           /\ Collect(messages, LAMBDA m :
                  IF SentThoughSilent(m.role, m.content) THEN <<m.role>> ELSE <<>>)
                  = FlatMap(silentTurns, messages)
           /\ Collect(request, TextOf) = FlatMap(textOf, request)
           /\ Collect(messages, LAMBDA m : GlueOf(m.role, m.content)) = FlatMap(glueTurns, messages)
<1>1. \A i \in DOMAIN request : request[i] \in Message
  BY RequestTyped
<1>2. \A i \in DOMAIN messages : messages[i] \in Turns
  BY ElementsIn DEF ConversionInv
<1>3. Collect(request, LAMBDA m : IF m.role # "tool" /\ Silent(m) THEN <<m.role>> ELSE <<>>)
          = FlatMap(silentOf, request)
  BY <1>1 DEF Collect, FlatMap, Mapped, silentOf
<1>4. Collect(messages, LAMBDA m :
          IF SentThoughSilent(m.role, m.content) THEN <<m.role>> ELSE <<>>)
          = FlatMap(silentTurns, messages)
  BY <1>2 DEF Collect, FlatMap, Mapped, silentTurns
<1>5. Collect(request, TextOf) = FlatMap(textOf, request)
  BY <1>1 DEF Collect, FlatMap, Mapped, textOf
<1>6. Collect(messages, LAMBDA m : GlueOf(m.role, m.content)) = FlatMap(glueTurns, messages)
  BY <1>2 DEF Collect, FlatMap, Mapped, glueTurns
<1> QED
  BY <1>3, <1>4, <1>5, <1>6

\* The measures of the request are those of the turns, one after the other.
LEMMA MeasuresAdd == Measures(silentOf, silentTurns) /\ Measures(glueOf, glueTurns)
<1>1. ASSUME NEW m \in Turns
      PROVE  /\ silentTurns[m] = FlatMap(silentOf, ConvertTurn(m))
             /\ glueTurns[m] = FlatMap(glueOf, ConvertTurn(m))
             /\ silentTurns[m] \in Seq({"system", "user", "assistant"})
             /\ glueTurns[m] \in Seq(Letters)
  <2>1. Measured(ConvertTurn(m), m.role, m.role, m.content)
    BY TurnMeasured
  <2>2. ConvertTurn(m) \in Seq(Message)
    BY TurnMeasures
  <2>3. silentTurns[m] = FlatMap(silentOf, ConvertTurn(m))
    BY <2>1 DEF Measured, silentTurns
  <2>4. glueTurns[m] = FlatMap(glueOf, ConvertTurn(m))
    BY <2>1 DEF Measured, glueTurns
  <2>5. FlatMap(silentOf, ConvertTurn(m)) \in Seq({"system", "user", "assistant"})
    BY <2>2, GlueTypes, FlatMapType
  <2>6. FlatMap(glueOf, ConvertTurn(m)) \in Seq(Letters)
    BY <2>2, GlueTypes, FlatMapType
  <2> QED
    BY <2>3, <2>4, <2>5, <2>6
<1>2. silentTurns \in [Turns -> Seq({"system", "user", "assistant"})]
  <2>1. \A m \in Turns : silentTurns[m] \in Seq({"system", "user", "assistant"})
    BY <1>1
  <2> QED
    BY <2>1 DEF silentTurns
<1>3. glueTurns \in [Turns -> Seq(Letters)]
  <2>1. \A m \in Turns : glueTurns[m] \in Seq(Letters)
    BY <1>1
  <2> QED
    BY <2>1 DEF glueTurns
<1>4. Measures(silentOf, silentTurns)
  BY <1>1, <1>2, GlueTypes, RequestMeasure
<1>5. Measures(glueOf, glueTurns)
  BY <1>1, <1>3, GlueTypes, RequestMeasure
<1> QED
  BY <1>4, <1>5

\* The messages in which nobody says anything are those of the exceptions, in
\* their order, whatever the turns are made of; and no result of a tool is
\* only white space.
THEOREM SilentTurnsAlwaysDropped == Spec => []SilentTurnsDropped
<1>1. ASSUME ConversionInv PROVE SilentTurnsDropped
  <2>1. /\ messages \in Seq(Turns) /\ IsContent(system, TextBlock)
        /\ request = ConvertClaudeToOpenAI(system, messages)
    BY <1>1 DEF ConversionInv
  <2>2. FlatMap(silentOf, request) =
            FlatMap(silentOf, SystemMessage(system)) \o FlatMap(silentTurns, messages)
    BY <2>1, MeasuresAdd, Zenon DEF Measures
  <2>3. FlatMap(silentOf, SystemMessage(system)) =
            IF SentThoughSilent("prompt", system) THEN <<"system">> ELSE <<>>
    BY <2>1, OthersMeasured DEF Measured
  <2>4. \A i \in DOMAIN request : request[i].role = "tool" => ~IsBlank(request[i].content)
    BY <1>1, RequestTyped DEF Message
  <2> QED
    BY <1>1, <2>2, <2>3, <2>4, MeasuringLoops, Zenon DEF SilentTurnsDropped
<1> QED
  BY <1>1, ConversionAlways, PTL

\* A text apart from what the proxy added, and that alone.
LEMMA GlueApart ==
    ASSUME NEW t \in Seq(Letters)
    PROVE  /\ Select(t, LAMBDA f : f \notin Glue) = FlatMap(othersOf, t)
           /\ Select(t, LAMBDA f : f \in Glue) = FlatMap(addedOf, t)
<1>1. \A i \in DOMAIN t : t[i] \in Letters
  BY ElementsIn
<1>2. Select(t, LAMBDA f : f \notin Glue) = FlatMap(othersOf, t)
  BY <1>1 DEF Select, Collect, FlatMap, Mapped, othersOf
<1>3. Select(t, LAMBDA f : f \in Glue) = FlatMap(addedOf, t)
  BY <1>1 DEF Select, Collect, FlatMap, Mapped, addedOf
<1> QED
  BY <1>2, <1>3

\* So it is for the text of a request, message by message.
LEMMA GlueApartInRequest ==
    ASSUME NEW ms \in Seq(Message)
    PROVE  /\ FlatMap(textOf, ms) \in Seq(Letters)
           /\ FlatMap(othersOf, FlatMap(textOf, ms)) = FlatMap(writtenOf, ms)
           /\ FlatMap(addedOf, FlatMap(textOf, ms)) = FlatMap(glueOf, ms)
<1>1. textOf \in [Message -> Seq(Letters)]
  BY GlueTypes
<1>2. FlatMap(textOf, ms) \in Seq(Letters)
  BY <1>1, FlatMapType
<1>3. othersOf \in [Letters -> Seq(Letters)] /\ addedOf \in [Letters -> Seq(Letters)]
  BY LetterMaps
<1>4. /\ plainOf \in [Message -> Seq(Letters)]
      /\ \A m \in Message : plainOf[m] = FlatMap(othersOf, textOf[m])
  <2>1. ASSUME NEW m \in Message
        PROVE  plainOf[m] = FlatMap(othersOf, textOf[m]) /\ plainOf[m] \in Seq(Letters)
    <3>1. plainOf[m] = FlatMap(othersOf, textOf[m])
      BY DEF plainOf, textOf
    <3>2. PICK t \in Seq(Letters) : t = textOf[m]
      <4>1. textOf[m] \in Seq(Letters)
        BY <1>1
      <4> QED
        BY <4>1, Zenon
    <3>3. FlatMap(othersOf, t) \in Seq(Letters)
      BY <1>3, FlatMapType
    <3> QED
      BY <3>1, <3>2, <3>3
  <2> QED
    BY <2>1 DEF plainOf
<1>5. Composes(plainOf, othersOf, textOf, Message)
  BY <1>1, <1>3, <1>4, FlatMapCompose
<1>6. \A m \in Message : glueOf[m] = FlatMap(addedOf, textOf[m])
  BY DEF glueOf, textOf
<1>7. Composes(glueOf, addedOf, textOf, Message)
  BY <1>1, <1>3, <1>6, GlueTypes, FlatMapCompose
<1>8. FlatMap(plainOf, ms) = FlatMap(writtenOf, ms)
  BY PlainIsWritten, FlatMapSame
<1>9. FlatMap(othersOf, FlatMap(textOf, ms)) = FlatMap(plainOf, ms)
  BY <1>5, Zenon DEF Composes
<1>10. FlatMap(addedOf, FlatMap(textOf, ms)) = FlatMap(glueOf, ms)
  BY <1>7, Zenon DEF Composes
<1> QED
  BY <1>2, <1>8, <1>9, <1>10

\* The estimate is that of the text that is sent apart from line breaks of joins
\* and "<nil>"s, of which there are as many as joins and contents that are
\* missing; so it is for every request.
THEOREM CountAlwaysAgrees == Spec => []CountAgrees
<1>1. ASSUME ConversionInv PROVE CountAgrees
  <2> DEFINE first == SystemMessage(system)
             text == Collect(request, TextOf)
             counted == Select(text, LAMBDA f : f \notin Glue)
  <2>1. /\ messages \in Seq(Turns) /\ IsContent(system, TextBlock)
        /\ request = ConvertClaudeToOpenAI(system, messages)
        /\ request \in Seq(Message)
    BY <1>1, RequestTyped DEF ConversionInv
  <2>2. text = FlatMap(textOf, request) /\ text \in Seq(Letters)
    BY <1>1, <2>1, MeasuringLoops, GlueApartInRequest
  <2>3. counted = FlatMap(writtenOf, request)
    <3>1. FlatMap(othersOf, FlatMap(textOf, request)) = FlatMap(writtenOf, request)
      BY <2>1, GlueApartInRequest
    <3> HIDE DEF text
    <3>2. counted = FlatMap(othersOf, text)
      BY <2>2, GlueApart
    <3> QED
      BY <2>2, <3>1, <3>2, Zenon
  <2>4. Select(text, LAMBDA f : f \in Glue) = FlatMap(glueOf, request)
    <3>1. FlatMap(addedOf, FlatMap(textOf, request)) = FlatMap(glueOf, request)
      BY <2>1, GlueApartInRequest
    <3> HIDE DEF text
    <3>2. Select(text, LAMBDA f : f \in Glue) = FlatMap(addedOf, text)
      BY <2>2, GlueApart
    <3> QED
      BY <2>2, <3>1, <3>2, Zenon
  <2>5. FlatMap(glueOf, request) = FlatMap(glueOf, first) \o FlatMap(glueTurns, messages)
    BY <2>1, MeasuresAdd, Zenon DEF Measures
  <2>6. FlatMap(glueOf, first) = GlueOf("prompt", system)
    BY <2>1, OthersMeasured DEF Measured
  <2>7. Collect(messages, LAMBDA m : GlueOf(m.role, m.content)) = FlatMap(glueTurns, messages)
    BY <1>1, MeasuringLoops
  <2>8. FlatMap(writtenOf, request) = FlatMap(writtenOf, first) \o FlatMap(textTurns, messages)
    <3>1. Measures(writtenOf, textTurns)
      BY WrittenMeasure, RequestMeasure
    <3> QED
      BY <2>1, <3>1, Zenon DEF Measures
  <2>9. FlatMap(writtenOf, first) = AllText(system)
    <3>1. Kept(first, "system", system)
      BY <2>1, SystemPromptKept
    <3>2. first \in Seq(MessageOf("system"))
      BY <3>1 DEF Kept
    <3>3. first \in Seq(Message)
      BY <3>2, LargerSet DEF MessageOf
    <3>4. FlatMap(spokenOf, first) = SaidIn(system)
      <4>1. \A x \in MessageOf("system") : spokenOf[x] = saidAs("system")[x]
        BY DEF MessageOf, spokenOf, saidAs
      <4> HIDE DEF first
      <4>2. FlatMap(spokenOf, first) = FlatMap(saidAs("system"), first)
        BY <3>2, <4>1, FlatMapSame
      <4> QED
        BY <3>1, <4>2 DEF Kept
    <3>5. FlatMap(wordOf, SaidIn(system)) = AllText(system)
      <4>1. IsContent(system, Block)
        BY <2>1, KindsOfBlocks, MoreBlocks
      <4> QED
        BY <4>1, AllTextIsSaid
    <3>6. FlatMap(wordOf, FlatMap(spokenOf, first)) = FlatMap(writtenOf, first)
      BY <3>3, WrittenMeasure, Zenon DEF Composes
    <3> QED
      BY <3>4, <3>5, <3>6, Zenon
  <2>10. TextOfTurns(messages) = FlatMap(textTurns, messages)
    BY <2>1, TurnLoops
  <2>11. AllText(system) \in Seq(Words) /\ FlatMap(textTurns, messages) \in Seq(Words)
    <3>1. first \in Seq(Message)
      BY <2>1, RequestType
    <3> HIDE DEF first
    <3>2. FlatMap(writtenOf, first) \in Seq(Words)
      BY <3>1, WrittenMeasure, FlatMapType
    <3>3. FlatMap(textTurns, messages) \in Seq(Words)
      BY <2>1, WrittenMeasure, FlatMapType
    <3> QED
      BY <2>9, <3>2, <3>3
  <2> HIDE DEF first, counted
  <2>12. counted = AllText(system) \o TextOfTurns(messages)
    BY <2>3, <2>8, <2>9, <2>10, Zenon
  <2>13. Len(counted) = Len(AllText(system)) + Len(TextOfTurns(messages))
    BY <2>10, <2>11, <2>12, JoinedLength
  <2>14. CountTokens(system, messages) = Tokens(Len(counted))
    BY <2>13 DEF CountTokens
  <2>15. Select(text, LAMBDA f : f \in Glue) =
             GlueOf("prompt", system) \o Collect(messages, LAMBDA m : GlueOf(m.role, m.content))
    BY <2>4, <2>5, <2>6, <2>7, Zenon
  <2> QED
    BY <2>14, <2>15 DEF CountAgrees, counted
<1> QED
  BY <1>1, ConversionAlways, PTL

-----------------------------------------------------------------------------
(***************************************************************************)
(* Calls and results, from turn to turn.                                   *)
(***************************************************************************)
\* Messages ms consist of the results in ids and at most one other message, with
\* the given calls.
Shaped(ms, ids, calls) ==
    \E results \in Seq(Tool), said \in Seq(NoTool) :
        /\ ms = results \o said
        /\ Len(results) = Len(ids) /\ \A k \in 1..Len(ids) : results[k].id = ids[k]
        /\ Len(said) <= 1
        /\ said = <<>> => calls = <<>>
        /\ said # <<>> => said[1].calls = calls

\* What the messages of tools and the others have of calls and of ids.
LEMMA ToolFacts ==
    /\ Tool \subseteq Message /\ NoTool \subseteq Message
    /\ \A m \in Tool : callsOf[m] = <<>> /\ idsOf[m] = <<m.id>> /\ m.calls = <<>>
    /\ \A m \in NoTool : callsOf[m] = m.calls /\ idsOf[m] = <<>>
<1>1. \A m \in Tool : m.calls = <<>>
  BY DEF Tool, Message, UserMessage, AssistantMessage, SystemMessages, ToolMessage
<1> QED
  BY <1>1 DEF Tool, NoTool, callsOf, idsOf

\* A sequence of one element.
LEMMA OneElement ==
    ASSUME NEW S, NEW s \in Seq(S), Len(s) <= 1, s # <<>>
    PROVE  s[1] \in S /\ s = <<s[1]>> /\ Len(s) = 1
<1>1. Len(s) \in Nat /\ Len(s) # 0
  BY EmptySeq
<1>2. Len(s) = 1
  BY <1>1
<1> QED
  BY <1>2

\* The ids of tool messages are those of the results, one by one.
LEMMA IdsOfResults ==
    ASSUME NEW results \in Seq(Tool)
    PROVE  /\ FlatMap(idsOf, results) = [k \in DOMAIN results |-> results[k].id]
           /\ FlatMap(callsOf, results) = <<>>
<1> DEFINE idOf == [m \in Tool |-> m.id]
<1>1. PICK B : idOf \in [Tool -> B]
  <2>1. idOf \in [Tool -> {m.id : m \in Tool}]
    OBVIOUS
  <2> QED
    BY <2>1
<1>2. \A m \in Tool : idsOf[m] = <<idOf[m]>>
  BY ToolFacts
<1>3. FlatMap(idsOf, results) = Mapped(idOf, results)
  <2> HIDE DEF idOf
  <2> QED
    BY <1>1, <1>2, FlatMapValues
<1>4. Mapped(idOf, results) = [k \in DOMAIN results |-> results[k].id]
  <2>1. \A k \in DOMAIN results : results[k] \in Tool
    BY ElementsIn
  <2> QED
    BY <2>1 DEF Mapped
<1>5. FlatMap(callsOf, results) = <<>>
  BY ToolFacts, FlatMapNothing
<1> QED
  BY <1>3, <1>4, <1>5

\* The calls of at most one message that is no tool's.
LEMMA CallsOfSaid ==
    ASSUME NEW said \in Seq(NoTool), Len(said) <= 1
    PROVE  /\ FlatMap(idsOf, said) = <<>>
           /\ said = <<>> => FlatMap(callsOf, said) = <<>>
           /\ said # <<>> => FlatMap(callsOf, said) = said[1].calls
<1>1. FlatMap(idsOf, said) = <<>>
  BY ToolFacts, FlatMapNothing
<1>2. said = <<>> => FlatMap(callsOf, said) = <<>>
  BY FlatMapEmpty
<1>3. ASSUME said # <<>> PROVE FlatMap(callsOf, said) = said[1].calls
  <2>1. PICK m : m = said[1]
    OBVIOUS
  <2>2. m \in NoTool /\ said = <<m>>
    BY <1>3, <2>1, OneElement
  <2>3. m \in Message /\ callsOf[m] = m.calls
    BY <2>2, ToolFacts
  <2>4. FlatMap(callsOf, <<m>>) = callsOf[m]
    BY <2>3, MessageTypes, FlatMapSingle
  <2> QED
    BY <2>1, <2>2, <2>3, <2>4, Zenon
<1> QED
  BY <1>1, <1>2, <1>3

\* What keeps a content in this order has that shape.
LEMMA KeptIsShaped ==
    ASSUME NEW role, NEW c, NEW results \in Seq(Tool), NEW said \in Seq(NoTool), Len(said) <= 1,
           Kept(results \o said, role, c)
    PROVE  Shaped(results \o said, IdsIn(c, "tool_result"), IdsIn(c, "tool_use"))
<1> DEFINE ids == [k \in DOMAIN results |-> results[k].id]
           calls == FlatMap(callsOf, said)
<1>1. results \in Seq(Message) /\ said \in Seq(Message)
  BY ToolFacts, LargerSet
<1>2. Distributes(idsOf, Message) /\ Distributes(callsOf, Message)
  BY MessageTypes, FlatMapConcat
<1>3. FlatMap(idsOf, results \o said) = FlatMap(idsOf, results) \o FlatMap(idsOf, said)
  BY <1>1, <1>2, Zenon DEF Distributes
<1>4. FlatMap(callsOf, results \o said) = FlatMap(callsOf, results) \o FlatMap(callsOf, said)
  BY <1>1, <1>2, Zenon DEF Distributes
<1>5. FlatMap(idsOf, results) \in Seq(ToolIds) /\ FlatMap(callsOf, said) \in Seq(ToolIds)
  BY <1>1, MessageTypes, FlatMapType
<1>6. IdsIn(c, "tool_result") = FlatMap(idsOf, results)
  <2>1. FlatMap(idsOf, results) \o <<>> = FlatMap(idsOf, results)
    BY <1>5, ConcatProperties
  <2>2. FlatMap(idsOf, said) = <<>>
    BY CallsOfSaid
  <2>3. FlatMap(idsOf, results \o said) = IdsIn(c, "tool_result")
    BY DEF Kept
  <2> QED
    BY <1>3, <2>1, <2>2, <2>3, Zenon
<1>7. IdsIn(c, "tool_use") = calls
  <2>1. <<>> \o FlatMap(callsOf, said) = FlatMap(callsOf, said)
    BY <1>5, ConcatProperties
  <2>2. FlatMap(callsOf, results) = <<>>
    BY IdsOfResults
  <2>3. FlatMap(callsOf, results \o said) = IdsIn(c, "tool_use")
    BY DEF Kept
  <2> QED
    BY <1>4, <2>1, <2>2, <2>3, Zenon
<1>8. IdsIn(c, "tool_result") = ids
  BY <1>6, IdsOfResults
<1>9. Len(results) = Len(ids) /\ \A k \in 1..Len(ids) : results[k].id = ids[k]
  OBVIOUS
<1>10. said = <<>> => calls = <<>>
  BY CallsOfSaid
<1>11. said # <<>> => said[1].calls = calls
  BY CallsOfSaid
<1> HIDE DEF ids, calls
<1>12. Shaped(results \o said, ids, calls)
  BY <1>9, <1>10, <1>11 DEF Shaped
<1> QED
  BY <1>7, <1>8, <1>12, Zenon

\* At most one message, which is not a tool's.
LEMMA OneMessage ==
    ASSUME NEW role, NEW ms \in Seq(MessageOf(role)),
           ms = <<>> \/ \E m : ms = <<m>> /\ m.role # "tool"
    PROVE  ms \in Seq(NoTool) /\ Len(ms) <= 1
<1>1. CASE ms = <<>>
  BY <1>1, EmptySeq
<1>2. ASSUME NEW m, ms = <<m>>, m.role # "tool" PROVE ms \in Seq(NoTool) /\ Len(ms) <= 1
  <2>1. ms[1] = m /\ 1 \in DOMAIN ms
    BY <1>2
  <2>2. m \in MessageOf(role)
    BY <2>1, ElementsIn
  <2>3. m \in NoTool
    BY <1>2, <2>2 DEF MessageOf, NoTool
  <2>4. <<m>> \in Seq(NoTool) /\ Len(<<m>>) <= 1
    BY <2>3
  <2> QED
    BY <1>2, <2>4
<1> QED
  BY <1>1, <1>2

\* A turn that becomes at most one message.
LEMMA OneIsShaped ==
    ASSUME NEW role, NEW c, NEW ms, Kept(ms, role, c),
           ms = <<>> \/ \E m : ms = <<m>> /\ m.role # "tool"
    PROVE  Shaped(ms, IdsIn(c, "tool_result"), IdsIn(c, "tool_use"))
<1>1. ms \in Seq(MessageOf(role))
  BY DEF Kept
<1>2. ms \in Seq(NoTool) /\ Len(ms) <= 1
  BY <1>1, OneMessage
<1>3. <<>> \in Seq(Tool)
  BY EmptySeq
<1>4. <<>> \o ms = ms
  BY <1>2, ConcatProperties
<1>5. Kept(<<>> \o ms, role, c)
  BY <1>4, Zenon
<1>6. Shaped(<<>> \o ms, IdsIn(c, "tool_result"), IdsIn(c, "tool_use"))
  BY <1>2, <1>3, <1>5, KeptIsShaped
<1> QED
  BY <1>4, <1>6, Zenon

\* The user's message, if there is one.
LEMMA UserMessageShape ==
    ASSUME NEW c
    PROVE  convertClaudeUserMessage(c) = <<>>
           \/ \E m : convertClaudeUserMessage(c) = <<m>> /\ m.role # "tool"
<1>1. ASSUME NEW text PROVE Msg("user", text).role # "tool"
  BY DEF Msg
<1>2. ASSUME NEW parts PROVE [Msg("user", <<>>) EXCEPT !.parts = parts].role # "tool"
  BY DEF Msg
<1>3. CASE c.kind = "none"
  BY <1>1, <1>3, Zenon DEF convertClaudeUserMessage
<1>4. CASE c.kind # "none" /\ c.kind = "blocks" /\ Has(c.blocks, "image")
  <2>1. convertClaudeUserMessage(c) =
            IF Parts(c.blocks) = <<>> THEN <<>>
            ELSE <<[Msg("user", <<>>) EXCEPT !.parts = Parts(c.blocks)]>>
    BY <1>4 DEF convertClaudeUserMessage
  <2> QED
    BY <1>2, <2>1, Zenon
<1>5. CASE c.kind # "none" /\ ~(c.kind = "blocks" /\ Has(c.blocks, "image"))
  <2>1. PICK text : text = extractTextFromContent(c)
    OBVIOUS
  <2>2. convertClaudeUserMessage(c) = IF text = <<>> THEN <<>> ELSE <<Msg("user", text)>>
    BY <1>5, <2>1 DEF convertClaudeUserMessage
  <2> QED
    BY <1>1, <2>2, Zenon
<1> QED
  BY <1>3, <1>4, <1>5

\* Every turn becomes messages of that shape.
LEMMA ShapeOfTurn ==
    ASSUME NEW m \in Turns
    PROVE  Shaped(ConvertTurn(m), IdsIn(m.content, "tool_result"), IdsIn(m.content, "tool_use"))
<1>1. PICK c : c = m.content
  OBVIOUS
<1>2. Kept(ConvertTurn(m), m.role, c)
  BY <1>1, TurnKept, Zenon
<1>3. CASE m \in UserTurns
  <2>1. m.role = "user" /\ IsContent(c, UserBlock)
    BY <1>1, <1>3, ContentsAssumption DEF UserTurns, UserBlock
  <2>2. ConvertTurn(m) = UserTurn(c)
    BY <1>1, <2>1 DEF ConvertTurn
  <2>3. CASE ~containsToolResultBlock(c)
    <3>1. ConvertTurn(m) = convertClaudeUserMessage(c)
      BY <2>2, <2>3 DEF UserTurn
    <3> QED
      BY <1>1, <1>2, <3>1, UserMessageShape, OneIsShaped, Zenon
  <2>4. CASE containsToolResultBlock(c)
    <3>1. PICK s \in Seq(UserBlock) : c = Blocks(s)
      BY <2>1, <2>4 DEF containsToolResultBlock, IsContent, NoContent, Str
    <3>2. c.blocks = s /\ s \in Seq(Block)
      BY <3>1, KindsOfBlocks, LargerSet DEF Blocks
    <3>3. PICK results : results = FlatMap(resultsOf, s)
      OBVIOUS
    <3>4. PICK rest : rest = Blocks(nonToolResultBlocks(s))
      OBVIOUS
    <3>5. PICK said : said = convertClaudeUserMessage(rest)
      OBVIOUS
    <3>6. ConvertTurn(m) = results \o said
      <4>1. UserTurn(c) = convertClaudeToolResults(s) \o said
        BY <2>4, <3>2, <3>4, <3>5 DEF UserTurn
      <4>2. convertClaudeToolResults(s) = results
        BY <3>2, <3>3, BlockLoops
      <4> QED
        BY <2>2, <4>1, <4>2
    <3>7. results \in Seq(Tool)
      BY <3>3, ResultsKept
    <3>8. IsContent(rest, RestBlock)
      <4>1. nonToolResultBlocks(s) \in Seq(RestBlock)
        BY RestKept
      <4> QED
        BY <3>4, <4>1 DEF IsContent, Blocks
    <3>9. said \in Seq(MessageOf("user"))
      BY <3>5, <3>8, UserMessageKept DEF Kept
    <3>10. said \in Seq(NoTool) /\ Len(said) <= 1
      BY <3>5, <3>9, UserMessageShape, OneMessage
    <3>11. Kept(results \o said, m.role, c)
      BY <1>2, <3>6, Zenon
    <3>12. Shaped(results \o said, IdsIn(c, "tool_result"), IdsIn(c, "tool_use"))
      BY <3>7, <3>10, <3>11, KeptIsShaped
    <3> QED
      BY <1>1, <3>6, <3>12, Zenon
  <2> QED
    BY <2>3, <2>4
<1>4. CASE m \in AssistantTurns
  <2>1. m.role = "assistant"
    BY <1>4 DEF AssistantTurns
  <2>2. ConvertTurn(m) = convertClaudeAssistantMessage(c)
    BY <1>1, <2>1 DEF ConvertTurn
  <2>3. ConvertTurn(m) = <<>> \/ \E x : ConvertTurn(m) = <<x>> /\ x.role # "tool"
    <3>1. ASSUME NEW text, NEW calls
          PROVE  [Msg("assistant", text) EXCEPT !.calls = calls].role # "tool"
      BY DEF Msg
    <3> QED
      BY <2>2, <3>1, Zenon DEF convertClaudeAssistantMessage
  <2> QED
    BY <1>1, <1>2, <2>3, OneIsShaped, Zenon
<1>5. CASE m \in SystemTurns
  <2>1. m.role = "system"
    BY <1>5 DEF SystemTurns
  <2>2. ConvertTurn(m) = convertClaudeSystemMessage(c)
    BY <1>1, <2>1 DEF ConvertTurn
  <2>3. ConvertTurn(m) = <<>> \/ \E x : ConvertTurn(m) = <<x>> /\ x.role # "tool"
    <3>1. ASSUME NEW text PROVE Msg("system", text).role # "tool"
      BY DEF Msg
    <3> QED
      BY <2>2, <3>1, Zenon DEF convertClaudeSystemMessage
  <2> QED
    BY <1>1, <1>2, <2>3, OneIsShaped, Zenon
<1> QED
  BY <1>3, <1>4, <1>5 DEF Turns

\* Sequences without repetition of the same elements are equally long.
LEMMA AsManyElements ==
    ASSUME NEW S, NEW a \in Seq(S), NEW b \in Seq(S), IsInjective(a), IsInjective(b),
           ToSet(a) = ToSet(b)
    PROVE  Len(a) = Len(b)
<1>1. ASSUME NEW s \in Seq(S), IsInjective(s) PROVE Cardinality(ToSet(s)) = Len(s)
  <2>1. DOMAIN s = 1..Len(s) /\ Len(s) \in Nat
    OBVIOUS
  <2>2. s \in [1..Len(s) -> ToSet(s)]
    BY <2>1 DEF ToSet
  <2>3. s \in Bijection(1..Len(s), ToSet(s))
    BY <1>1, <2>1, <2>2 DEF IsInjective, ToSet, Bijection, Injection, Surjection
  <2>4. ExistsBijection(1..Len(s), ToSet(s))
    BY <2>3 DEF ExistsBijection
  <2> QED
    BY <2>1, <2>4, FS_CountingElements
<1> QED
  BY <1>1

\* Sequence q consists of a, of length k, and b, of length n.
Consists(q, a, k, b, n) ==
    /\ Len(q) = k + n
    /\ DOMAIN q = 1..(k + n)
    /\ \A i \in 1..k : q[i] = a[i]
    /\ \A i \in 1..n : q[k + i] = b[i]

\* So does the one after the other.
LEMMA ConcatElements ==
    ASSUME NEW S, NEW a \in Seq(S), NEW b \in Seq(S), NEW k \in Nat, NEW n \in Nat,
           k = Len(a), n = Len(b)
    PROVE  Consists(a \o b, a, k, b, n)
<1>1. a \o b \in Seq(S) /\ Len(a \o b) = k + n
  OBVIOUS
<1>2. DOMAIN (a \o b) = 1..(k + n)
  BY <1>1
<1>3. \A i \in 1..k : (a \o b)[i] = a[i]
  OBVIOUS
<1>4. \A i \in 1..n : (a \o b)[k + i] = b[i]
  OBVIOUS
<1> QED
  BY <1>1, <1>2, <1>3, <1>4 DEF Consists

\* The calls of the last message of r, each of which is made once, are P.
Awaits(r, P) ==
    IF r = <<>> THEN P = {} ELSE IsInjective(r[Len(r)].calls) /\ ToSet(r[Len(r)].calls) = P

\* Whoever answers the calls in P and makes new ones keeps calls and results together.
LEMMA AnswersKept ==
    ASSUME NEW r \in Seq(Message), NEW ms \in Seq(Message), NEW ids \in Seq(ToolIds),
           NEW calls \in Seq(ToolIds), Shaped(ms, ids, calls), IsInjective(ids),
           CallsAnswered(r), Awaits(r, ToSet(ids))
    PROVE  CallsAnswered(r \o ms)
<1>1. PICK results \in Seq(Tool), said \in Seq(NoTool) :
          /\ ms = results \o said
          /\ Len(results) = Len(ids) /\ \A k \in 1..Len(ids) : results[k].id = ids[k]
          /\ Len(said) <= 1
  BY DEF Shaped
<1>2. PICK q : q = r \o ms
  OBVIOUS
<1>3. PICK l \in Nat : l = Len(r)
  OBVIOUS
<1>4. PICK n \in Nat : n = Len(ids)
  OBVIOUS
<1>5. PICK o \in Nat : o = Len(said) /\ o <= 1
  BY <1>1
<1>6. /\ Len(ms) = n + o
      /\ \A k \in 1..n : ms[k] = results[k]
      /\ \A k \in 1..o : ms[n + k] = said[k]
  <2>1. results \in Seq(Message) /\ said \in Seq(Message)
    BY ToolFacts, LargerSet
  <2>2. Len(results) = n /\ Len(said) = o
    BY <1>1, <1>4, <1>5
  <2>3. ms = results \o said
    BY <1>1
  <2>4. Consists(results \o said, results, n, said, o)
    BY <2>1, <2>2, ConcatElements
  <2> QED
    BY <2>3, <2>4 DEF Consists
<1>7. /\ Len(q) = l + (n + o)
      /\ DOMAIN q = 1..(l + (n + o))
  <2>1. n + o \in Nat
    OBVIOUS
  <2>2. Consists(r \o ms, r, l, ms, n + o)
    BY <1>3, <1>6, <2>1, ConcatElements
  <2> QED
    BY <1>2, <2>2 DEF Consists
<1>8. \A i \in 1..l : q[i] = r[i]
  BY <1>2, <1>3
<1>9. \A k \in 1..(n + o) : q[l + k] = ms[k]
  <2>1. n + o \in Nat
    OBVIOUS
  <2>2. Consists(r \o ms, r, l, ms, n + o)
    BY <1>3, <1>6, <2>1, ConcatElements
  <2> QED
    BY <1>2, <2>2 DEF Consists
<1>10. \A k \in 1..n : q[l + k].id = ids[k] /\ q[l + k].calls = <<>>
  <2> SUFFICES ASSUME NEW k \in 1..n PROVE q[l + k].id = ids[k] /\ q[l + k].calls = <<>>
    OBVIOUS
  <2>1. ms[k] = results[k] /\ k \in DOMAIN results
    BY <1>1, <1>4, <1>6
  <2>2. results[k] \in Tool
    BY <2>1, ElementsIn
  <2>3. q[l + k] = results[k]
    <3>1. k \in 1..(n + o)
      OBVIOUS
    <3>2. q[l + k] = ms[k]
      BY <1>9, <3>1
    <3> QED
      BY <2>1, <3>2
  <2>4. results[k].id = ids[k]
    BY <1>1, <1>4
  <2> QED
    BY <2>2, <2>3, <2>4, ToolFacts
<1>11. ASSUME o = 1 PROVE q[l + (n + 1)].role # "tool"
  <2>1. ms[n + 1] = said[1] /\ 1 \in DOMAIN said
    <3>1. 1 \in 1..o
      BY <1>11
    <3> QED
      BY <1>5, <1>6, <3>1
  <2>2. said[1] \in NoTool
    BY <2>1, ElementsIn
  <2>3. q[l + (n + 1)] = ms[n + 1]
    <3>1. n + 1 \in 1..(n + o)
      BY <1>11
    <3> QED
      BY <1>9, <3>1
  <2> QED
    BY <2>1, <2>2, <2>3 DEF NoTool
<1>12. ASSUME NEW i \in 1..(l + (n + o)), i > l
       PROVE  (\E k \in 1..n : i = l + k) \/ (o = 1 /\ i = l + (n + 1))
  <2>1. i - l \in 1..(n + o) /\ i = l + (i - l)
    BY <1>12
  <2> QED
    BY <1>5, <2>1
<1>13. \A i \in 1..l : r[i].calls \in Seq(ToolIds)
  <2>1. \A m \in Message : m.calls \in Seq(ToolIds)
    BY MessageTypes DEF callsOf
  <2>2. \A i \in 1..l : r[i] \in Message
    BY <1>3, ElementsIn
  <2> QED
    BY <2>1, <2>2
<1>14. ASSUME l # 0
       PROVE  /\ Len(q[l].calls) = n
              /\ ToSet(q[l].calls) = ToSet(ids)
  <2>1. r # <<>> /\ l \in 1..l
    BY <1>3, <1>14
  <2>2. IsInjective(r[l].calls) /\ ToSet(r[l].calls) = ToSet(ids)
    BY <1>3, <2>1 DEF Awaits
  <2>3. r[l].calls \in Seq(ToolIds)
    BY <1>13, <2>1
  <2>4. Len(r[l].calls) = Len(ids)
    BY <2>2, <2>3, AsManyElements
  <2>5. q[l] = r[l]
    BY <1>8, <2>1
  <2> QED
    BY <1>4, <2>2, <2>4, <2>5
<1>15. ASSUME NEW i \in DOMAIN q, q[i].calls # <<>>, i < Len(q) PROVE Answered(q, i)
  <2>1. i \in Nat /\ i >= 1 /\ i <= l + (n + o)
    BY <1>7
  <2>2. CASE i < l
    <3>1. i \in DOMAIN r /\ i < Len(r) /\ q[i] = r[i] /\ i \in 1..l
      BY <1>3, <1>8, <2>1, <2>2
    <3>2. Answered(r, i)
      BY <1>15, <3>1 DEF CallsAnswered
    <3>3. PICK k \in Nat : k = Len(r[i].calls)
      BY <1>13, <3>1
    <3>4. i + k <= l /\ {r[j].id : j \in (i + 1)..(i + k)} = ToSet(r[i].calls)
      BY <1>3, <3>2, <3>3 DEF Answered
    <3>5. \A j \in (i + 1)..(i + k) : q[j] = r[j]
      BY <1>8, <2>1, <3>4
    <3>6. {q[j].id : j \in (i + 1)..(i + k)} = {r[j].id : j \in (i + 1)..(i + k)}
      BY <3>5
    <3>7. i + k <= Len(q)
      BY <1>7, <2>1, <3>4
    <3> QED
      BY <3>1, <3>3, <3>4, <3>6, <3>7 DEF Answered
  <2>3. CASE i = l
    <3>1. l # 0
      BY <2>1, <2>3
    <3>2. {q[j].id : j \in (l + 1)..(l + n)} = {ids[k] : k \in 1..n}
      <4>1. ASSUME NEW k \in 1..n
            PROVE  ids[k] \in {q[j].id : j \in (l + 1)..(l + n)}
        <5>1. l + k \in (l + 1)..(l + n) /\ q[l + k].id = ids[k]
          BY <1>10
        <5> QED
          BY <5>1
      <4>2. ASSUME NEW j \in (l + 1)..(l + n)
            PROVE  q[j].id \in {ids[k] : k \in 1..n}
        <5>1. PICK k \in 1..n : j = l + k
          <6>1. j - l \in 1..n /\ j = l + (j - l)
            OBVIOUS
          <6> QED
            BY <6>1
        <5>2. q[j].id = ids[k]
          BY <1>10, <5>1
        <5> QED
          BY <5>2
      <4> QED
        BY <4>1, <4>2
    <3>3. {ids[k] : k \in 1..n} = ToSet(ids)
      <4>1. DOMAIN ids = 1..n
        BY <1>4
      <4> QED
        BY <4>1, Zenon DEF ToSet
    <3>4. l + n <= Len(q)
      BY <1>7
    <3> QED
      BY <1>14, <2>3, <3>1, <3>2, <3>3, <3>4 DEF Answered
  <2>4. CASE i > l
    <3>1. i \in 1..(l + (n + o))
      BY <2>1
    <3>2. CASE \E k \in 1..n : i = l + k
      BY <1>10, <1>15, <3>2
    <3>3. CASE o = 1 /\ i = l + (n + 1)
      BY <1>7, <1>15, <3>3
    <3> QED
      BY <1>12, <2>4, <3>1, <3>2, <3>3
  <2> QED
    BY <2>1, <2>2, <2>3, <2>4
<1>16. ASSUME NEW j \in DOMAIN q, q[j].role = "tool"
       PROVE  \E i \in 1..(j - 1) : j <= i + Len(q[i].calls)
  <2>1. j \in Nat /\ j \in 1..(l + (n + o))
    BY <1>7
  <2>2. CASE j <= l
    <3>1. j \in DOMAIN r /\ q[j] = r[j]
      BY <1>3, <1>8, <2>1, <2>2
    <3>2. PICK i \in 1..(j - 1) : j <= i + Len(r[i].calls)
      BY <1>16, <3>1 DEF CallsAnswered
    <3>3. q[i] = r[i]
      <4>1. i \in 1..l
        BY <2>1, <2>2
      <4> QED
        BY <1>8, <4>1
    <3> QED
      BY <3>2, <3>3
  <2>3. ASSUME NEW k \in 1..n, j = l + k PROVE \E i \in 1..(j - 1) : j <= i + Len(q[i].calls)
    <3>1. l # 0
      <4>1. ids[k] \in ToSet(ids)
        <5>1. k \in DOMAIN ids
          BY <1>4
        <5> QED
          BY <5>1 DEF ToSet
      <4> QED
        BY <1>3, <4>1, EmptySeq DEF Awaits
    <3>2. l \in 1..(j - 1) /\ j <= l + n
      BY <2>3, <3>1
    <3> QED
      BY <1>14, <3>1, <3>2
  <2>4. CASE o = 1 /\ j = l + (n + 1)
    BY <1>11, <1>16, <2>4
  <2>5. CASE j > l
    <3>1. (\E k \in 1..n : j = l + k) \/ (o = 1 /\ j = l + (n + 1))
      BY <1>12, <2>1, <2>5
    <3> QED
      BY <2>3, <2>4, <3>1
  <2> QED
    BY <2>1, <2>2, <2>5
<1>17. CallsAnswered(q)
  BY <1>15, <1>16 DEF CallsAnswered
<1> QED
  BY <1>2, <1>17

\* Its calls are then what is awaited.
LEMMA CallsAwaited ==
    ASSUME NEW r \in Seq(Message), NEW ms \in Seq(Message), NEW ids \in Seq(ToolIds),
           NEW calls \in Seq(ToolIds), Shaped(ms, ids, calls), IsInjective(calls),
           Awaits(r, ToSet(ids))
    PROVE  Awaits(r \o ms, ToSet(calls))
<1>1. PICK results \in Seq(Tool), said \in Seq(NoTool) :
          /\ ms = results \o said
          /\ Len(results) = Len(ids)
          /\ Len(said) <= 1
          /\ said = <<>> => calls = <<>>
          /\ said # <<>> => said[1].calls = calls
  BY DEF Shaped
<1>2. results \in Seq(Message) /\ said \in Seq(Message)
  BY ToolFacts, LargerSet
<1>3. ToSet(<<>>) = {} /\ IsInjective(<<>>)
  BY DEF ToSet, IsInjective
<1>4. CASE said # <<>>
  <2>1. Len(said) = 1
    <3>1. Len(said) <= 1
      BY <1>1
    <3> QED
      BY <1>4, <3>1, OneElement
  <2>2. PICK k \in Nat : k = Len(r) + Len(results)
    OBVIOUS
  <2>3. Len(ms) = Len(results) + 1 /\ ms[Len(results) + 1] = said[1]
    <3>1. 1 \in 1..1 /\ Len(results) \in Nat /\ 1 \in Nat
      OBVIOUS
    <3>2. Consists(results \o said, results, Len(results), said, 1)
      BY <1>2, <2>1, <3>1, ConcatElements
    <3> QED
      BY <1>1, <3>1, <3>2 DEF Consists
  <2>4. Len(r \o ms) = k + 1 /\ (r \o ms)[k + 1] = ms[Len(results) + 1]
    <3>1. /\ Len(r) \in Nat /\ Len(ms) \in Nat /\ Len(results) \in Nat
          /\ k + 1 = Len(r) + Len(ms)
          /\ k + 1 = Len(r) + (Len(results) + 1)
          /\ Len(results) + 1 \in 1..Len(ms)
      BY <2>2, <2>3
    <3>2. Consists(r \o ms, r, Len(r), ms, Len(ms))
      BY <3>1, ConcatElements
    <3>3. (r \o ms)[Len(r) + (Len(results) + 1)] = ms[Len(results) + 1]
      BY <3>1, <3>2 DEF Consists
    <3> QED
      BY <3>1, <3>2, <3>3 DEF Consists
  <2>5. (r \o ms)[Len(r \o ms)].calls = calls
    BY <1>1, <1>4, <2>3, <2>4
  <2>6. r \o ms # <<>>
    BY <2>4, EmptySeq
  <2> QED
    BY <2>5, <2>6 DEF Awaits
<1>5. CASE said = <<>> /\ results # <<>>
  <2>1. calls = <<>> /\ ms = results
    <3>1. results \o <<>> = results
      BY ConcatProperties
    <3> QED
      BY <1>1, <1>5, <3>1
  <2>2. PICK n \in Nat : n = Len(results)
    OBVIOUS
  <2>3. n # 0 /\ n \in 1..n
    BY <1>5, <2>2, EmptySeq
  <2>4. results[n] \in Tool
    BY <2>2, <2>3, ElementsIn
  <2>5. Len(r \o ms) = Len(r) + n /\ (r \o ms)[Len(r) + n] = results[n]
    <3>1. Len(r) \in Nat
      OBVIOUS
    <3>2. Consists(r \o ms, r, Len(r), ms, n)
      BY <2>1, <2>2, <3>1, ConcatElements
    <3> QED
      BY <2>1, <2>3, <3>2 DEF Consists
  <2>6. (r \o ms)[Len(r \o ms)].calls = <<>>
    BY <2>4, <2>5, ToolFacts
  <2>7. r \o ms # <<>>
    BY <2>3, <2>5, EmptySeq
  <2> QED
    BY <1>3, <2>1, <2>6, <2>7 DEF Awaits
<1>6. CASE said = <<>> /\ results = <<>>
  <2>1. calls = <<>> /\ ms = <<>> /\ ids = <<>>
    BY <1>1, <1>6, EmptySeq
  <2>2. r \o ms = r
    BY <2>1, ConcatProperties
  <2> QED
    BY <1>3, <2>1, <2>2, Zenon
<1> QED
  BY <1>4, <1>5, <1>6

\* A turn that may follow answers the calls that are pending; its own are then.
LEMMA TurnAnswers ==
    ASSUME NEW ms \in Seq(Turns), NEW m \in Turns, MayFollow(ms, m)
    PROVE  /\ IsInjective(IdsIn(m.content, "tool_result"))
           /\ IsInjective(IdsIn(m.content, "tool_use"))
           /\ ToSet(IdsIn(m.content, "tool_result")) = Pending(ms)
           /\ ToSet(IdsIn(m.content, "tool_use")) = Pending(Append(ms, m))
<1>1. ToSet(<<>>) = {} /\ IsInjective(<<>>)
  BY DEF ToSet, IsInjective
<1>2. Append(ms, m) # <<>> /\ Last(Append(ms, m)) = m
  <2>1. Append(ms, m) # <<>> /\ Append(ms, m)[Len(Append(ms, m))] = m
    OBVIOUS
  <2> QED
    BY <2>1 DEF Last
<1>3. Pending(Append(ms, m)) =
          IF m.role # "assistant" THEN {} ELSE ToSet(IdsIn(m.content, "tool_use"))
  BY <1>2 DEF Pending
<1>4. CASE m \in UserTurns
  <2>1. m.role = "user" /\ IsContent(m.content, UserBlock)
    BY <1>4, ContentsAssumption DEF UserTurns, UserBlock
  <2>2. IdsIn(m.content, "tool_use") = <<>>
    <3>1. IsContent(m.content, Without("tool_use"))
      BY <2>1, KindsOfBlocks, MoreBlocks
    <3> QED
      BY <3>1, NoCalls
  <2>3. /\ IsInjective(IdsIn(m.content, "tool_result"))
        /\ ToSet(IdsIn(m.content, "tool_result")) = Pending(ms)
    BY <2>1 DEF MayFollow
  <2> QED
    BY <1>1, <1>3, <2>1, <2>2, <2>3
<1>5. CASE m \in AssistantTurns
  <2>1. m.role = "assistant" /\ IsContent(m.content, AssistantBlock)
    BY <1>5, ContentsAssumption DEF AssistantTurns, AssistantBlock
  <2>2. IdsIn(m.content, "tool_result") = <<>>
    <3>1. IsContent(m.content, Without("tool_result"))
      BY <2>1, KindsOfBlocks, MoreBlocks
    <3> QED
      BY <3>1, NoResults
  <2>3. Last(ms).role # "assistant" /\ IsInjective(IdsIn(m.content, "tool_use"))
    BY <2>1 DEF MayFollow
  <2>4. Pending(ms) = {}
    BY <2>3 DEF Pending
  <2> QED
    BY <1>1, <1>3, <2>1, <2>2, <2>3, <2>4
<1>6. CASE m \in SystemTurns
  <2>1. m.role = "system" /\ IsContent(m.content, TextBlock)
    BY <1>6, ContentsAssumption DEF SystemTurns
  <2>2. IdsIn(m.content, "tool_use") = <<>> /\ IdsIn(m.content, "tool_result") = <<>>
    <3>1. IsContent(m.content, Without("tool_use")) /\ IsContent(m.content, Without("tool_result"))
      BY <2>1, KindsOfBlocks, MoreBlocks
    <3> QED
      BY <3>1, NoCalls, NoResults
  <2>3. Pending(ms) = {}
    BY <2>1 DEF MayFollow
  <2> QED
    BY <1>1, <1>3, <2>1, <2>2, <2>3
<1> QED
  BY <1>4, <1>5, <1>6 DEF Turns

\* What was so before a conversation's last turn.
LEMMA ProtocolBefore ==
    ASSUME NEW ms \in Seq(Turns), NEW m \in Turns, KeepsProtocol(Append(ms, m))
    PROVE  KeepsProtocol(ms) /\ MayFollow(ms, m)
<1> DEFINE all == Append(ms, m)
           k == Len(ms)
<1>1. k \in Nat /\ DOMAIN all = 1..(k + 1) /\ all[k + 1] = m /\ DOMAIN ms = 1..k
  OBVIOUS
<1>2. SubSeq(all, 1, k) = ms
  OBVIOUS
<1>3. \A n \in 1..k : all[n] = ms[n] /\ SubSeq(all, 1, n - 1) = SubSeq(ms, 1, n - 1)
  OBVIOUS
<1>4. \A n \in 1..(k + 1) : MayFollow(SubSeq(all, 1, n - 1), all[n])
  BY <1>1 DEF KeepsProtocol
<1> HIDE DEF all, k
<1>5. KeepsProtocol(ms)
  <2>1. \A n \in 1..k : n \in 1..(k + 1)
    BY <1>1
  <2> QED
    BY <1>1, <1>3, <1>4, <2>1 DEF KeepsProtocol
<1>6. MayFollow(ms, m)
  <2>1. k + 1 \in 1..(k + 1) /\ (k + 1) - 1 = k
    BY <1>1
  <2> QED
    BY <1>1, <1>2, <1>4, <2>1
<1> QED
  BY <1>5, <1>6

\* Request r, made of turns ms, awaits the answers to the calls of the last turn,
\* and all others are answered.
Follows(r, ms) == CallsAnswered(r) /\ Awaits(r, Pending(ms))

\* So it is for every system prompt alone,
LEMMA PromptFollows ==
    ASSUME NEW sys, IsContent(sys, TextBlock)
    PROVE  Follows(ConvertClaudeToOpenAI(sys, <<>>), <<>>)
<1>1. PICK r : r = SystemMessage(sys)
  OBVIOUS
<1>2. <<>> \in Seq(Turns)
  BY EmptySeq
<1>3. ConvertClaudeToOpenAI(sys, <<>>) = r
  <2>1. ConvertClaudeToOpenAI(sys, <<>>) = r \o FlatMap(convertOf, <<>>)
    BY <1>1, <1>2, RequestType
  <2>2. FlatMap(convertOf, <<>>) = <<>>
    BY FlatMapEmpty
  <2>3. r \in Seq(Message)
    BY <1>1, <1>2, RequestType
  <2> QED
    BY <2>1, <2>2, <2>3, ConcatProperties
<1>4. Pending(<<>>) = {} /\ ToSet(<<>>) = {} /\ IsInjective(<<>>)
  BY DEF Pending, ToSet, IsInjective
<1>5. CASE r = <<>>
  BY <1>3, <1>4, <1>5 DEF Follows, CallsAnswered, Awaits
<1>6. ASSUME NEW text, r = <<Msg("system", text)>> PROVE Follows(r, <<>>)
  <2>1. PICK x : x = Msg("system", text)
    OBVIOUS
  <2>2. x.calls = <<>> /\ x.role # "tool"
    BY <2>1 DEF Msg
  <2>3. Len(r) = 1 /\ r[1] = x /\ DOMAIN r = {1} /\ r # <<>>
    BY <1>6, <2>1
  <2> QED
    BY <1>4, <2>2, <2>3 DEF Follows, CallsAnswered, Awaits
<1>7. r = <<>> \/ \E text : r = <<Msg("system", text)>>
  BY <1>1 DEF SystemMessage
<1> QED
  BY <1>3, <1>5, <1>6, <1>7

\* and so it stays with every turn.
LEMMA TurnFollows ==
    ASSUME NEW r \in Seq(Message), NEW ms \in Seq(Turns), NEW m \in Turns, MayFollow(ms, m),
           Follows(r, ms)
    PROVE  Follows(r \o ConvertTurn(m), Append(ms, m))
<1>1. PICK ids : ids = IdsIn(m.content, "tool_result")
  OBVIOUS
<1>2. PICK calls : calls = IdsIn(m.content, "tool_use")
  OBVIOUS
<1>3. /\ IsInjective(ids) /\ IsInjective(calls)
      /\ ToSet(ids) = Pending(ms) /\ ToSet(calls) = Pending(Append(ms, m))
  BY <1>1, <1>2, TurnAnswers
<1>4. Shaped(ConvertTurn(m), ids, calls)
  BY <1>1, <1>2, ShapeOfTurn, Zenon
<1>5. ids \in Seq(ToolIds) /\ calls \in Seq(ToolIds) /\ ConvertTurn(m) \in Seq(Message)
  BY <1>1, <1>2, TurnMeasures DEF callsTurns, idsTurns
<1>6. CallsAnswered(r) /\ Awaits(r, ToSet(ids))
  BY <1>3 DEF Follows
<1>7. CallsAnswered(r \o ConvertTurn(m))
  BY <1>3, <1>4, <1>5, <1>6, AnswersKept
<1>8. Awaits(r \o ConvertTurn(m), ToSet(calls))
  BY <1>3, <1>4, <1>5, <1>6, CallsAwaited
<1> QED
  BY <1>3, <1>7, <1>8 DEF Follows

\* So it is for every conversation that keeps to the protocol.
LEMMA ConversationFollows ==
    ASSUME NEW sys, IsContent(sys, TextBlock)
    PROVE  \A ms \in Seq(Turns) : KeepsProtocol(ms) => Follows(ConvertClaudeToOpenAI(sys, ms), ms)
<1> DEFINE T == {ms \in Seq(Turns) :
                    KeepsProtocol(ms) => Follows(ConvertClaudeToOpenAI(sys, ms), ms)}
<1>1. <<>> \in T
  BY PromptFollows, EmptySeq
<1>2. ASSUME NEW ms \in Seq(Turns), ms \in T, NEW m \in Turns PROVE Append(ms, m) \in T
  <2>1. Append(ms, m) \in Seq(Turns)
    OBVIOUS
  <2>2. ASSUME KeepsProtocol(Append(ms, m))
        PROVE  Follows(ConvertClaudeToOpenAI(sys, Append(ms, m)), Append(ms, m))
    <3>1. PICK r : r = ConvertClaudeToOpenAI(sys, ms)
      OBVIOUS
    <3>2. PICK t : t = FlatMap(convertOf, ms)
      OBVIOUS
    <3>3. KeepsProtocol(ms) /\ MayFollow(ms, m)
      BY <2>2, ProtocolBefore
    <3>4. r \in Seq(Message) /\ convertOf \in [Turns -> Seq(Message)]
      BY <3>1, RequestType
    <3>5. SystemMessage(sys) \in Seq(Message) /\ r = SystemMessage(sys) \o t
      BY <3>1, <3>2, RequestType
    <3>6. t \in Seq(Message) /\ ConvertTurn(m) \in Seq(Message)
      <4>1. t \in Seq(Message)
        BY <3>2, <3>4, FlatMapType
      <4> QED
        BY <4>1, TurnMeasures
    <3>7. FlatMap(convertOf, Append(ms, m)) = t \o ConvertTurn(m)
      <4>1. FlatMap(convertOf, Append(ms, m)) = FlatMap(convertOf, ms) \o convertOf[m]
        BY <3>4, FlatMapAppend
      <4> QED
        BY <3>2, <4>1 DEF convertOf
    <3>8. ConvertClaudeToOpenAI(sys, Append(ms, m)) = SystemMessage(sys) \o (t \o ConvertTurn(m))
      BY <2>1, <3>7, RequestType
    <3>9. SystemMessage(sys) \o (t \o ConvertTurn(m)) = r \o ConvertTurn(m)
      <4>1. SystemMessage(sys) \o (t \o ConvertTurn(m)) = (SystemMessage(sys) \o t) \o ConvertTurn(m)
        BY <3>5, <3>6, ConcatAssociative
      <4> QED
        BY <3>5, <4>1, Zenon
    <3>10. Follows(r, ms)
      BY <1>2, <3>1, <3>3
    <3>11. Follows(r \o ConvertTurn(m), Append(ms, m))
      BY <3>3, <3>4, <3>10, TurnFollows
    <3> QED
      BY <3>8, <3>9, <3>11, Zenon
  <2> QED
    BY <2>1, <2>2
<1>3. Seq(Turns) \subseteq T
  <2> HIDE DEF T
  <2> QED
    BY <1>1, <1>2, SequenceInduction
<1> QED
  BY <1>3

\* Results of tools always follow their calls at once, one for each, and there are
\* no others, whatever the turns of the conversation become.
THEOREM ResultsAlwaysFollowCalls == Spec => []ToolResultsFollowCalls
<1>1. ConversionInv => ToolResultsFollowCalls
  BY ConversationFollows DEF ConversionInv, Follows, ToolResultsFollowCalls
<1> QED
  BY <1>1, ConversionAlways, PTL
=============================================================================
