------------------------ MODULE MCRequestConversion ------------------------
(***************************************************************************)
(* RequestConversion with turns of up to three blocks: texts that are      *)
(* empty, blank or not, images inline and by URL, two tool calls and tool  *)
(* results of every form parseToolResultContent tells apart; and with      *)
(* configurations whose tiers and limits are given, left out or at odds.   *)
(***************************************************************************)
EXTENDS RequestConversion

CONSTANTS call_a, call_b

MCToolIds == {call_a, call_b}
MCTexts == {<<>>, <<"a", "b", "c">>, <<" ">>, <<"r">>, <<"a">>, <<"b">>}
Short == {<<>>, <<"a", "b", "c">>}
MCBlanks == {" "}

Text(t) == [type |-> "text", text |-> t]
Image(source) == [type |-> "image", source |-> source]
Thinking == [type |-> "thinking"]
ToolUse(id) == [type |-> "tool_use", id |-> id]
ToolResult(id, c) == [type |-> "tool_result", id |-> id, result |-> c]

MCResults == {NoContent, Str(<<" ">>), Str(<<"r">>), Blocks(<<Image("base64")>>),
              Blocks(<<Text(<<>>), Text(<<>>)>>)}

Content(blocks) ==
    {Str(t) : t \in Short} \cup {NoContent} \cup {Blocks(s) : s \in SeqOf(blocks, 3)}

MCUserContents ==
    Content({Text(t) : t \in Short} \cup {Image("base64"), Image("url")}
            \cup {ToolResult(id, c) : id \in MCToolIds, c \in MCResults})

MCAssistantContents ==
    Content({Text(t) : t \in Short} \cup {Thinking} \cup {ToolUse(id) : id \in MCToolIds})

MCSystemContents == {Str(t) : t \in Short} \cup {Blocks(<<Text(<<"a">>), Text(<<"b">>)>>)}

-----------------------------------------------------------------------------
\* A tier of config.yaml, its fields given or left out.
TierOf(name, key, url) == [name |-> name, key |-> key, url |-> url]
NoTier == TierOf(Unset, Unset, Unset)

Configured(url, big, middle, small) ==
    [key |-> "key", url |-> url, big |-> big, middle |-> middle, small |-> small,
     minTokensLimit |-> NoLimit, maxTokensLimit |-> NoLimit,
     minTokens |-> NoLimit, maxTokens |-> NoLimit]

DefaultConfig == Configured(Unset, NoTier, NoTier, NoTier)

\* Each tier with all, some or none of its fields.
SomeOf(name, key, url) ==
    {TierOf(n, k, u) : n \in {Unset, name}, k \in {Unset, key}, u \in {Unset, url}}

MCConfigs ==
    {Configured(u, b, m, s) :
        u \in {Unset, "url"},
        b \in SomeOf("big", "big key", "big url"),
        m \in SomeOf("middle", "middle key", "middle url"),
        s \in {NoTier, TierOf("small", "small key", "small url")}}

Name(prefix, words) == [prefix |-> prefix, words |-> words, text |-> "a model"]
Sonnet == Name(Unset, {"sonnet"})

MCNames == {Name(p, w) : p \in {Unset, "gpt-"},
                         w \in {{}, {"haiku"}, {"sonnet"}, {"haiku", "sonnet"}, {"opus"}}}

\* Limits left out, zero, and the wrong way round.
MCLimits ==
    {[DefaultConfig EXCEPT !.minTokensLimit = a, !.maxTokensLimit = b, !.minTokens = c, !.maxTokens = d] :
        a \in {NoLimit, Limit(0), Limit(300)}, b \in {NoLimit, Limit(200)},
        c \in {NoLimit, Limit(250)}, d \in {NoLimit, Limit(0), Limit(300)}}

-----------------------------------------------------------------------------
Start(config, name, n, sys, ms) ==
    [raw |-> config, model |-> name, max_tokens |-> n, system |-> sys, messages |-> ms]

Says(role, c) == [role |-> role, content |-> c]
Greeting == Str(<<"a", "b", "c">>)

\* Either a turn of each role, calls and results among them, is still to come,
\* or the results of one call and then the next call.
Openings ==
    {<<Says("system", Greeting), Says("user", Greeting)>>,
     <<Says("user", Greeting), Says("assistant", Blocks(<<ToolUse(call_a)>>))>>}

SystemPrompts ==
    {NoContent, Blocks(<<Text(<<"a">>), Text(<<>>)>>), Blocks(<<Text(<<>>), Text(<<>>)>>)}

\* All conversations with one configuration, and all configurations with one
\* conversation, which is already as long as it gets.
Finished == [i \in 1..MaxTurns |-> Says("user", Greeting)]

MCStarts ==
    {Start(DefaultConfig, Sonnet, 1000, sys, ms) : sys \in SystemPrompts, ms \in Openings}
    \cup {Start(config, name, 1000, NoContent, Finished) : config \in MCConfigs, name \in MCNames}
    \cup {Start(config, Sonnet, n, NoContent, Finished) :
            config \in MCLimits, n \in {0, 1, 200, 270, 5000}}
=============================================================================
