-------------------------- MODULE RequestConversion --------------------------
(***************************************************************************)
(* What becomes of a Claude request: its messages                          *)
(* (ConvertClaudeToOpenAI, internal/converter/request.go), the model and   *)
(* the limit in the converted request, the key and URL the handler sends   *)
(* it with (CreateMessage, internal/handler/handler.go), and the estimate  *)
(* CountTokens gives of it.  A Claude client sends the whole conversation  *)
(* with every request, so the state is a conversation that grows by a turn *)
(* at a time, and what the proxy makes of it.                              *)
(*                                                                         *)
(* A text is a sequence of fragments: newline is what strings.Join puts    *)
(* between two texts (a client's own line breaks are fragments of its      *)
(* texts), and fragments in Blanks are white space.  Names and inputs of   *)
(* tools are carried along unchanged and left out.                         *)
(***************************************************************************)
EXTENDS Routing, SequencesExt

CONSTANTS
    Texts,           \* the texts of strings and blocks, <<>> among them
    Blanks,          \* the fragments that are white space
    ToolIds,         \* ids of tool calls
    NoId,
    Results,         \* the contents a tool_result block can have
    UserContents, AssistantContents, SystemContents,  \* of turns
    Starts,          \* the configurations, and the requests to start from
    MaxTurns         \* how long a conversation gets at most

VARIABLES
    raw,        \* config.yaml
    model,      \* the Claude request: its model,
    max_tokens, \* its limit,
    system,     \* its system field
    messages,   \* and the conversation
    request,    \* the messages of the OpenAI request
    sent        \* its model and limit, and the key and URL it is sent with

settings == <<raw, model, max_tokens, system>>
vars == <<settings, messages, request, sent>>

newline == "\n"

\* Content is a string, a sequence of blocks, or missing.
NoContent == [kind |-> "none"]
Str(t) == [kind |-> "string", text |-> t]
Blocks(s) == [kind |-> "blocks", blocks |-> s]

\* The text of what has no text: its JSON, and what %v prints for nil.
Json == <<"json">>
PrintedNil == <<"<nil>">>
NoOutput == <<"(no output)">>

-----------------------------------------------------------------------------
(***************************************************************************)
(* Helpers.                                                                *)
(***************************************************************************)
\* What the elements of s give, one after the other: a loop that appends.
Collect(s, Each(_)) == FlattenSeq([i \in DOMAIN s |-> Each(s[i])])

Select(s, Test(_)) == Collect(s, LAMBDA x : IF Test(x) THEN <<x>> ELSE <<>>)

Has(blocks, type) == \E i \in DOMAIN blocks : blocks[i].type = type

TextsIn(blocks) == Collect(blocks, LAMBDA b : IF b.type = "text" THEN <<b.text>> ELSE <<>>)

\* strings.Join(texts, "\n")
Join(texts) ==
    IF texts = <<>> THEN <<>>
    ELSE Head(texts) \o Collect(Tail(texts), LAMBDA t : <<newline>> \o t)

\* strings.TrimSpace(t) == ""
IsBlank(t) == \A i \in DOMAIN t : t[i] \in Blanks \cup {newline}

extractTextFromContent(c) ==
    CASE c.kind = "string" -> c.text
      [] c.kind = "blocks" -> Join(TextsIn(c.blocks))
      [] OTHER             -> <<>>

\* The system field: whatever has a text counts, of any type.
extractSystemContent(c) ==
    CASE c.kind = "string" -> c.text
      [] c.kind = "blocks" ->
            Join(Collect(c.blocks, LAMBDA b : IF "text" \in DOMAIN b THEN <<b.text>> ELSE <<>>))
      [] OTHER -> <<>>

\* In contrast to extractTextFromContent, blocks without text are kept as JSON.
parseToolResultContent(c) ==
    IF c.kind = "blocks" /\ TextsIn(c.blocks) = <<>> THEN Json
                                                    ELSE extractTextFromContent(c)

\* A message of the request.  Assistant messages without text have no content
\* key; <<>> stands for that, too.
Msg(role, text) ==
    [role |-> role, content |-> text, parts |-> <<>>, calls |-> <<>>, id |-> NoId]

ToolMsg(id, text) == [Msg("tool", text) EXCEPT !.id = id]

-----------------------------------------------------------------------------
(***************************************************************************)
(* One turn.  Each operator gives the messages a turn becomes; none is the *)
(* code's nil.                                                             *)
(***************************************************************************)
\* Faulty: images given by URL are passed on.
PartsOfAnySource(blocks) ==
    Select(blocks, LAMBDA b : b.type \in {"text", "image"})

\* The parts of a user message with images; images by URL are left out.
Parts(blocks) ==
    Select(blocks, LAMBDA b : b.type = "text" \/ (b.type = "image" /\ b.source = "base64"))

convertClaudeUserMessage(c) ==
    CASE c.kind = "none" -> <<Msg("user", PrintedNil)>>
      [] c.kind = "blocks" /\ Has(c.blocks, "image") ->
            IF Parts(c.blocks) = <<>> THEN <<>>
            ELSE <<[Msg("user", <<>>) EXCEPT !.parts = Parts(c.blocks)]>>
      [] OTHER ->
            LET text == extractTextFromContent(c) IN
                IF text = <<>> THEN <<>> ELSE <<Msg("user", text)>>

\* Faulty: only content that is missing altogether is replaced.
ResultTextOrEmpty(c) ==
    IF c.kind = "none" THEN NoOutput ELSE parseToolResultContent(c)

\* What a tool message says: never only white space.
ResultText(c) ==
    LET text == parseToolResultContent(c) IN IF IsBlank(text) THEN NoOutput ELSE text

convertClaudeToolResults(blocks) ==
    Collect(blocks, LAMBDA b :
        IF b.type = "tool_result" THEN <<ToolMsg(b.id, ResultText(b.result))>> ELSE <<>>)

nonToolResultBlocks(blocks) == Select(blocks, LAMBDA b : b.type # "tool_result")

\* The ids of the blocks of a type, in order.
IdsIn(c, type) ==
    IF c.kind # "blocks" THEN <<>>
    ELSE Collect(c.blocks, LAMBDA b : IF b.type = type THEN <<b.id>> ELSE <<>>)

\* Faulty: a turn of thinking alone becomes a message, too.
AssistantMessageAlways(c) ==
    <<[Msg("assistant", extractTextFromContent(c)) EXCEPT !.calls = IdsIn(c, "tool_use")]>>

convertClaudeAssistantMessage(c) ==
    LET text == extractTextFromContent(c)
        calls == IdsIn(c, "tool_use")
    IN IF text = <<>> /\ calls = <<>> THEN <<>>
       ELSE <<[Msg("assistant", text) EXCEPT !.calls = calls]>>

convertClaudeSystemMessage(c) == <<Msg("system", extractTextFromContent(c))>>

containsToolResultBlock(c) == c.kind = "blocks" /\ Has(c.blocks, "tool_result")

\* Faulty: what the user says comes before the results of the tools.
UserTurnInOrder(c) ==
    IF containsToolResultBlock(c)
    THEN convertClaudeUserMessage(Blocks(nonToolResultBlocks(c.blocks)))
            \o convertClaudeToolResults(c.blocks)
    ELSE convertClaudeUserMessage(c)

\* Faulty: what the user says beside the results of the tools is dropped.
UserTurnResultsOnly(c) ==
    IF containsToolResultBlock(c) THEN convertClaudeToolResults(c.blocks)
                                  ELSE convertClaudeUserMessage(c)

\* Tool results first, then the rest of the turn as a user message.
UserTurn(c) ==
    IF containsToolResultBlock(c)
    THEN convertClaudeToolResults(c.blocks)
            \o convertClaudeUserMessage(Blocks(nonToolResultBlocks(c.blocks)))
    ELSE convertClaudeUserMessage(c)

\* A turn of any other role is dropped; no client's turn has one (see Turns).
ConvertTurn(m) ==
    CASE m.role = "user"      -> UserTurn(m.content)
      [] m.role = "assistant" -> convertClaudeAssistantMessage(m.content)
      [] m.role = "system"    -> convertClaudeSystemMessage(m.content)
      [] OTHER                -> <<>>

-----------------------------------------------------------------------------
\* The system prompt, if it has text.
SystemMessage(c) ==
    LET text == extractSystemContent(c) IN
        IF text = <<>> THEN <<>> ELSE <<Msg("system", text)>>

ConvertClaudeToOpenAI(sys, ms) ==
    SystemMessage(sys) \o Collect(ms, ConvertTurn)

\* The handler looks the model up for the key and the URL, the converter once
\* more for the name.
Send ==
    LET upstream == GetModelConfig(raw, model) IN
        [model      |-> MapClaudeModelToOpenAI(raw, model),
         max_tokens |-> Clamp(raw, max_tokens),
         key        |-> upstream.key,
         url        |-> upstream.url]

\* All text of a content: that of a string or of every block with a text.
AllText(c) ==
    CASE c.kind = "string" -> c.text
      [] c.kind = "blocks" ->
            Collect(c.blocks, LAMBDA b : IF "text" \in DOMAIN b THEN b.text ELSE <<>>)
      [] OTHER -> <<>>

TextOfTurns(ms) == Collect(ms, LAMBDA m : AllText(m.content))

Tokens(chars) == IF chars < 4 THEN 1 ELSE chars \div 4

\* Faulty: the system field is not counted.
CountTokensOfTurns(sys, ms) ==
    Tokens(Len(TextOfTurns(ms)))

\* The estimate for a request that has not been sent yet.
CountTokens(sys, ms) ==
    Tokens(Len(AllText(sys)) + Len(TextOfTurns(ms)))

-----------------------------------------------------------------------------
(***************************************************************************)
(* A client keeps to Claude's protocol: every call has an id of its own    *)
(* and is answered, once, in the turn that follows it.                     *)
(***************************************************************************)
UserTurns == [role : {"user"}, content : UserContents]
AssistantTurns == [role : {"assistant"}, content : AssistantContents]
SystemTurns == [role : {"system"}, content : SystemContents]
Turns == UserTurns \cup AssistantTurns \cup SystemTurns

\* The calls of the last turn of ms, which its successor must answer.
Pending(ms) ==
    IF ms = <<>> \/ Last(ms).role # "assistant" THEN {}
    ELSE ToSet(IdsIn(Last(ms).content, "tool_use"))

UsedIds(ms) == UNION {ToSet(IdsIn(ms[i].content, "tool_use")) : i \in DOMAIN ms}

\* Whether turn m may be the next one after ms.
MayFollow(ms, m) ==
    CASE m.role = "user" ->
            LET ids == IdsIn(m.content, "tool_result") IN
                IsInjective(ids) /\ ToSet(ids) = Pending(ms)
      [] m.role = "assistant" ->
            LET ids == IdsIn(m.content, "tool_use") IN
                /\ ms # <<>> /\ Last(ms).role # "assistant"
                /\ IsInjective(ids) /\ ToSet(ids) \cap UsedIds(ms) = {}
      [] m.role = "system" -> Pending(ms) = {}

KeepsProtocol(ms) == \A n \in DOMAIN ms : MayFollow(SubSeq(ms, 1, n - 1), ms[n])

-----------------------------------------------------------------------------
(***************************************************************************)
(* What the constants stand for.                                           *)
(***************************************************************************)
Fragments == UNION {ToSet(t) : t \in Texts}

TextBlock == [type : {"text"}, text : Texts]
ImageBlock == [type : {"image"}, source : {"base64", "url"}]
ThinkingBlock == [type : {"thinking"}]
ToolUseBlock == [type : {"tool_use"}, id : ToolIds]
ToolResultBlock == [type : {"tool_result"}, id : ToolIds, result : Results]

\* A content whose blocks, if it has any, are in the given set.
IsContent(c, blocks) ==
    \/ c = NoContent
    \/ \E t \in Texts : c = Str(t)
    \/ c.kind = "blocks" /\ c = Blocks(c.blocks) /\ c.blocks \in Seq(blocks)

\* What the proxy itself writes is not what somebody said, and what it writes
\* for an empty result is not empty.
ASSUME TextsAssumption ==
    /\ \A t \in Texts : t \in Seq(Fragments)
    /\ newline \notin Fragments /\ "<nil>" \notin Fragments /\ "image" \notin Fragments
    /\ "(no output)" \notin Blanks
    /\ NoId \notin ToolIds

ASSUME ContentsAssumption ==
    /\ \A c \in UserContents : IsContent(c, TextBlock \cup ImageBlock \cup ToolResultBlock)
    /\ \A c \in AssistantContents : IsContent(c, TextBlock \cup ThinkingBlock \cup ToolUseBlock)
    /\ \A c \in SystemContents : IsContent(c, TextBlock)

ASSUME StartsAssumption ==
    \A s \in Starts :
        /\ MinTokens(s.raw) \in Int /\ MaxTokens(s.raw) \in Int /\ s.max_tokens \in Int
        /\ IsContent(s.system, TextBlock)
        /\ s.messages \in Seq(Turns)
        /\ KeepsProtocol(s.messages)

-----------------------------------------------------------------------------
Init ==
    /\ \E s \in Starts :
        /\ raw = s.raw
        /\ model = s.model
        /\ max_tokens = s.max_tokens
        /\ system = s.system
        /\ messages = s.messages
    /\ request = ConvertClaudeToOpenAI(system, messages)
    /\ sent = Send

\* The client's next request has one more turn.
Turn(m) ==
    /\ messages' = Append(messages, m)
    /\ request' = ConvertClaudeToOpenAI(system, messages')
    /\ sent' = Send
    /\ UNCHANGED settings

UserSpeaks ==
    /\ Len(messages) < MaxTurns
    /\ \E m \in UserTurns : MayFollow(messages, m) /\ Turn(m)

AssistantSpeaks ==
    /\ Len(messages) < MaxTurns
    /\ \E m \in AssistantTurns : MayFollow(messages, m) /\ Turn(m)

SystemSpeaks ==
    /\ Len(messages) < MaxTurns
    /\ \E m \in SystemTurns : MayFollow(messages, m) /\ Turn(m)

Next == UserSpeaks \/ AssistantSpeaks \/ SystemSpeaks

Spec == Init /\ [][Next]_vars

-----------------------------------------------------------------------------
ImagePart == [type : {"image"}, source : {"base64"}]

\* Each message has the fields its role allows, and images are inline.
TypeOK ==
    \A i \in DOMAIN request :
        LET m == request[i] IN
            /\ m.role \in {"system", "user", "assistant", "tool"}
            /\ m.parts \in Seq(TextBlock \cup ImagePart)
            /\ m.calls \in Seq(ToolIds)
            /\ m.parts # <<>> => m.role = "user" /\ m.content = <<>>
            /\ m.calls # <<>> => m.role = "assistant"
            /\ m.role = "tool" <=> m.id # NoId

\* The messages that follow message i of r answer its calls, one each.
Answered(r, i) ==
    LET n == Len(r[i].calls) IN
        /\ i + n <= Len(r)
        /\ {r[j].id : j \in (i + 1)..(i + n)} = ToSet(r[i].calls)

\* All calls are answered but those of the last message, and nothing else is.
CallsAnswered(r) ==
    /\ \A i \in DOMAIN r : r[i].calls # <<>> /\ i < Len(r) => Answered(r, i)
    /\ \A j \in DOMAIN r : r[j].role = "tool" => \E i \in 1..(j - 1) : j <= i + Len(r[i].calls)

\* OpenAI's protocol: an assistant message with tool calls is followed at once
\* by one tool message per call, wherever in the Claude turn the results stood
\* and whatever stood beside them; and there are no other tool messages.
ToolResultsFollowCalls == CallsAnswered(request)

\* What belongs to one tier stays together: a key given for a tier leaves only
\* with that tier's model and for that tier's URL, and a URL given for a tier
\* is only asked for that tier's model, whatever is left to its fallback and
\* although the name and the destination are looked up separately.
TiersKeepTogether ==
    \A t \in Tiers :
        /\ raw[t].key # Unset /\ sent.key = raw[t].key =>
               sent.model = NameOf(raw, t) /\ sent.url = strOr(raw[t].url, BaseURL(raw))
        /\ raw[t].url # Unset /\ sent.url = raw[t].url => sent.model = NameOf(raw, t)

\* The upper limit is never exceeded, not even when the limits are configured
\* the wrong way round; the lower one holds when they are not; and a request
\* within both is left alone.
TokensWithinLimits ==
    /\ sent.max_tokens <= MaxTokens(raw)
    /\ MinTokens(raw) <= MaxTokens(raw) => sent.max_tokens >= MinTokens(raw)
    /\ max_tokens \in MinTokens(raw)..MaxTokens(raw) => sent.max_tokens = max_tokens

-----------------------------------------------------------------------------
\* The fragments of a text that were said by somebody.
Said(t) == Select(t, LAMBDA f : f # newline)

SaidInBlock(b) ==
    CASE b.type = "text"                            -> Said(b.text)
      [] b.type = "image" /\ b.source = "base64"    -> <<"image">>
      [] OTHER                                      -> <<>>

\* Texts and inline images of a turn, in order.
SaidIn(c) ==
    CASE c.kind = "string" -> Said(c.text)
      [] c.kind = "blocks" -> Collect(c.blocks, SaidInBlock)
      [] OTHER             -> <<>>

\* The same of a message of the request.  What %v prints for content that is
\* missing was said by nobody.
SaidOf(m) ==
    IF m.content = PrintedNil THEN <<>> ELSE Said(m.content) \o Collect(m.parts, SaidInBlock)

\* What turns and messages of a role say, one after the other.
SaidBefore(role) ==
    (IF role = "system" THEN SaidIn(system) ELSE <<>>)
        \o Collect(messages, LAMBDA m : IF m.role = role THEN SaidIn(m.content) ELSE <<>>)

SaidAfter(role) ==
    Collect(request, LAMBDA m : IF m.role = role THEN SaidOf(m) ELSE <<>>)

\* Nothing the conversation says is lost, repeated, reordered or put into
\* another's mouth, although turns are split, joined and dropped: texts and
\* inline images of each role, calls and results are those of the conversation.
\* Of calls and results it is the ids that are compared.
NothingLost ==
    /\ \A role \in {"system", "user", "assistant"} : SaidAfter(role) = SaidBefore(role)
    /\ Collect(request, LAMBDA m : m.calls) =
         Collect(messages, LAMBDA m : IdsIn(m.content, "tool_use"))
    /\ Collect(request, LAMBDA m : IF m.role = "tool" THEN <<m.id>> ELSE <<>>) =
         Collect(messages, LAMBDA m : IdsIn(m.content, "tool_result"))

\* A message without calls in which nobody says anything.  One of calls alone
\* has no content key, on purpose.
Silent(m) == m.calls = <<>> /\ SaidOf(m) = <<>>

\* What says nothing becomes no message, with these exceptions: turns of the
\* role system, a user's turn whose content is missing (sent as "<nil>"), one
\* with an image that is left out and with texts, all empty (sent as empty text
\* parts), and any content with several empty texts (sent as the line breaks
\* between them).  The system field goes by the role prompt.
SentThoughSilent(role, c) ==
    LET texts == IF c.kind = "blocks" THEN TextsIn(c.blocks) ELSE <<>>
    IN /\ SaidIn(c) = <<>> /\ IdsIn(c, "tool_use") = <<>>
       /\ \/ role = "system"
          \/ role = "user" /\ c.kind = "none"
          \/ texts # <<>> /\ Has(c.blocks, "image")
          \/ Len(texts) > 1

\* Strict upstreams reject empty messages.  So turns with nothing to convert are
\* dropped, each of those and no other: the silent messages of a request are
\* those of the exceptions, in their order; and tools that return nothing, or
\* only white space, are given a word to say.
SilentTurnsDropped ==
    /\ Collect(request, LAMBDA m : IF m.role # "tool" /\ Silent(m) THEN <<m.role>> ELSE <<>>) =
         (IF SentThoughSilent("prompt", system) THEN <<"system">> ELSE <<>>)
           \o Collect(messages, LAMBDA m :
                IF SentThoughSilent(m.role, m.content) THEN <<m.role>> ELSE <<>>)
    /\ \A i \in DOMAIN request : request[i].role = "tool" => ~IsBlank(request[i].content)

\* One of the exceptions contradicts what a test says of messages: "No message
\* may carry empty or missing content".  A system message has text.
SystemTurnsHaveText ==
    \A i \in DOMAIN request : request[i].role = "system" => request[i].content # <<>>

-----------------------------------------------------------------------------
\* What the proxy itself adds to what is said: the line breaks between joined
\* texts, and what %v prints for content that is missing.
Glue == {newline, "<nil>"}

\* The text of a message as it is sent; results of tools are not counted.
TextOf(m) == IF m.role = "tool" THEN <<>> ELSE m.content \o FlattenSeq(TextsIn(m.parts))

\* A line break for every text after the first.
Joints(texts) ==
    IF texts = <<>> THEN <<>> ELSE Collect(Tail(texts), LAMBDA t : <<newline>>)

\* What the proxy adds to a content: nothing to a string, and nothing between
\* texts that go as parts beside an image.
GlueOf(role, c) ==
    CASE role = "user" /\ c.kind = "none"               -> PrintedNil
      [] c.kind = "blocks" /\ ~Has(c.blocks, "image")   -> Joints(TextsIn(c.blocks))
      [] OTHER                                          -> <<>>

\* Counting walks through the conversation in its own way, and yet counts every
\* text that is sent for system prompt and turns, once, and none that is
\* dropped.  What it leaves out of that is what the proxy adds, no more and no
\* less: a line break for every join and a "<nil>" for every content that is
\* missing.  Calls, images and results of tools are counted by neither side.
CountAgrees ==
    LET text == Collect(request, TextOf) IN
        /\ CountTokens(system, messages) = Tokens(Len(Select(text, LAMBDA f : f \notin Glue)))
        /\ Select(text, LAMBDA f : f \in Glue) =
             GlueOf("prompt", system) \o Collect(messages, LAMBDA m : GlueOf(m.role, m.content))
=============================================================================
