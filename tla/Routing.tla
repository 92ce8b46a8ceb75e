------------------------------- MODULE Routing -------------------------------
(***************************************************************************)
(* Where a request is sent, and under which limits: the fallbacks of the   *)
(* configuration (buildConfig, internal/config/config.go) and the choice   *)
(* of a tier by the name of a Claude model (GetModelConfig,                *)
(* internal/modelmanager/modelmanager.go).  All of it is constant once the *)
(* server has started.                                                     *)
(*                                                                         *)
(* A raw configuration has a key and a url, a name, key and url for each   *)
(* tier, and four limits.  A model name is what GetModelConfig sees of it: *)
(* a prefix it knows, or none, and the words it contains.                  *)
(***************************************************************************)
EXTENDS Integers

\* A string left empty, and a number left out.
Unset == ""
NoLimit == [set |-> FALSE]
Limit(n) == [set |-> TRUE, value |-> n]

strOr(v, fallback) == IF v # Unset THEN v ELSE fallback
intOr(v, fallback) == IF v.set THEN v.value ELSE fallback

Tiers == {"big", "middle", "small"}

\* The model of a tier: a middle tier without a name uses big's, and that is
\* the only fallback from tier to tier.
NameOf(raw, tier) ==
    CASE tier = "small"  -> strOr(raw.small.name, "gpt-4o-mini")
      [] tier = "big"    -> strOr(raw.big.name, "gpt-4o")
      [] tier = "middle" -> strOr(raw.middle.name, strOr(raw.big.name, "gpt-4o"))

\* The part of the Config that does not belong to a tier.
BaseURL(raw) == strOr(raw.url, "https://api.openai.com/v1")

\* Faulty: the middle tier takes its key from the big one, like its name.
TierFromBig(raw, tier) ==
    [model |-> NameOf(raw, tier),
     key   |-> strOr(raw[tier].key, IF tier = "middle" THEN strOr(raw.big.key, raw.key)
                                                       ELSE raw.key),
     url   |-> strOr(raw[tier].url, BaseURL(raw))]

\* A tier of the Config: keys and URLs fall back to the common ones.
Tier(raw, tier) ==
    [model |-> NameOf(raw, tier),
     key   |-> strOr(raw[tier].key, raw.key),
     url   |-> strOr(raw[tier].url, BaseURL(raw))]

MinTokens(raw) == intOr(raw.minTokens, intOr(raw.minTokensLimit, 100))
MaxTokens(raw) == intOr(raw.maxTokens, intOr(raw.maxTokensLimit, 4096))

\* The words are looked for in this order; opus, fable and all others are big.
TierFor(name) ==
    IF "haiku" \in name.words THEN "small"
    ELSE IF "sonnet" \in name.words THEN "middle"
    ELSE "big"

\* A name with a known prefix is a model of the common upstream already.
GetModelConfig(raw, name) ==
    IF name.prefix # Unset
    THEN [model |-> name.text, key |-> raw.key, url |-> BaseURL(raw)]
    ELSE Tier(raw, TierFor(name))

MapClaudeModelToOpenAI(raw, name) == GetModelConfig(raw, name).model

\* Faulty: the limits are applied in the other order.
ClampUpperFirst(raw, n) ==
    LET m == IF n > MaxTokens(raw) THEN MaxTokens(raw) ELSE n IN
        IF m < MinTokens(raw) THEN MinTokens(raw) ELSE m

\* The lower limit first, the upper one second.
Clamp(raw, n) ==
    LET m == IF n < MinTokens(raw) THEN MinTokens(raw) ELSE n IN
        IF m > MaxTokens(raw) THEN MaxTokens(raw) ELSE m
=============================================================================
