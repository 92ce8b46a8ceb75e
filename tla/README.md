# TLA+ models of claude-code-proxy

A verification development for the proxy in `src/`: an HTTP server, written in
Go, that accepts requests of the Claude Messages API, sends them to an upstream
with an OpenAI-compatible API, and converts the answers back. A streamed answer is
converted event by event while it arrives.

TLC checks the models on small instances. TLAPS proves for every value of the
constants, and hence for streams, conversations and numbers of requests of any
size, all safety properties that TLC checks but one: that a streamed message is
well formed, carries all the upstream said and implements an abstract
specification of what a Claude client is promised; that nothing is lost between
the goroutines of the converter; that a conversation survives its conversion;
that the rate limiter keeps to its rate; that concurrent requests keep the
registry of the upstream client exact; and that a graceful shutdown cuts no
request off.

    tlc -config MCStreamBlocks.cfg MCStreamBlocks      # any run of the table below
    tlapm StreamBlocksProofs.tla                       # any module of proofs

The modules of proofs are `InductionLemmas`, `StreamBlocksProofs`, `ResponseConversionProofs`,
`StreamConverterProofs`, `RateLimiterProofs`, `RequestConversionProofs`, `MessageHandlerProofs` and
`ServerProofs`.

## 1. Inventory

### Components

**Streaming converter** (`internal/converter/response.go`,
`ConvertOpenAIStreamingToClaude`). One call per streaming request, two goroutines.
The *pump* scans the upstream's body and sends lines through a channel of 64
items. The *main loop* selects between a line, the channel's close, a read error, the
request's context and an idle timer, and hands each line to `processLine`.
State: `contentBlockIndex`, the flags `thinkingOpen` and `textOpen`, `textIndex`,
a map `toolCalls` of half-received calls, usage and stop reason, `abort`; the
channel, `stopCh`, the timer. After the loop an epilogue closes the message.
*Hard*: any alternation of reasoning, text and tool calls; calls whose id, name
and arguments come in any order; errors and ends racing with buffered lines; a
timer that expires while a line is being processed; a pump that must not outlive
its request.
*Correct when*: each block is started and stopped once, deltas go to the block
they belong to, nothing the upstream said is lost, one ending per message, the loop
ends when its upstream ends or falls silent, and the pump ends with it.

**Upstream client** (`internal/client/openai.go`). Shared by all requests. State:
the registry `ActiveRequests`, a map under a read-write lock from request ids to
cancel functions; two HTTP clients, one with a timeout and one, for streams, without.
Operations: `CreateChatCompletion`, `CreateChatCompletionStream`, `CancelRequest`,
`trackRequest`, `untrackRequest`, `trackedReadCloser.Close`, `ClaudeError`.
*Hard*: concurrent requests, failures on every path, ids on whose uniqueness everything rests.
*Correct when*: the registry holds exactly the requests in progress, a
cancellation hits its own request only, every body is closed, every request is
answered.

**`POST /v1/messages`** (`internal/handler/handler.go`, `CreateMessage`,
`decodeJSONBody`, `writeUpstreamError`). Decodes and converts the request, calls
the upstream client, converts or streams the answer. Keeps no state of its own.
*Correct when*: an upstream's failure reaches the client as the Claude error of its
status, with its Retry-After, and never as a message.

**Rate limiter** (`internal/handler/ratelimit.go`). A bucket of tokens per client IP,
under a mutex; a goroutine evicts old buckets every two windows until `Stop`.
*Hard*: window boundaries, eviction racing with requests.
*Correct when*: no client gets more than a fixed window allows or is denied without
having used its rate, denials end, the map does not grow for ever.

**Request conversion** (`internal/converter/request.go`). Pure functions. Turns are
split (tool results become messages of their own), joined (texts) and dropped
(turns without content).
*Correct when*: tool results directly follow their calls, turns that say nothing become
no message (section 6 has the exceptions), nothing is lost or reordered.

**Response conversion without stream** (`internal/converter/response.go`,
`ConvertOpenAIToClaudeResponse`). Pure. *Correct when*: it delivers what the stream
would have delivered.

**Routing and configuration** (`internal/modelmanager`, `internal/config`). Maps
model names to one of three tiers, each with a model, key and URL that fall back
to common ones; limits for `max_tokens` that fall back to older names and then to
defaults. Constant after start.
*Hard*: name and destination of a request are looked up separately; every field may be missing.
*Correct when*: a tier's key goes to that tier's URL with that tier's model, and limits hold.

**API key check** (`internal/handler/middleware.go`). Stateless.

**Server** (`cmd/server/main.go`). Routes with the rate limiter before the key check,
CORS, graceful shutdown within 30 s. State: what `main` is waiting for, and the connections
`net/http` keeps.
*Hard*: a signal, a failure of `Serve` or the deadline while requests are anywhere on their way.
*Correct when*: a graceful exit cuts nobody off, a refused request goes nowhere, the process ends.

**Informational handlers** (`CountTokens`, `ListModels`, `HealthCheck`,
`TestConnection`, `Root`). One response each; `TestConnection` is a client of the upstream like
`CreateMessage`, and `CountTokens` walks through the conversation as the conversion does.

### How they interact

    client --HTTP--> rate limiter --> key check --> CreateMessage
                                                      |  ConvertClaudeToOpenAI (pure)
                                                      v
                       registry <---- upstream client ----> upstream
                          ^                |  body
                          | CancelRequest  v
                          +-------- streaming converter <--channel-- pump
                                           |
    client <--SSE--------------------------+

The converter receives the upstream's body, the request's context, and a callback
`cancelFn` that is `CancelRequest` of its own id. When it returns, the handler's
deferred `stream.Close()` untracks the request and closes the body, which is also what
frees a pump blocked in a read.

`PROJECT.json` lists the hazards of each component at the lines where they bite,
with the properties that watch them.

## 2. Modules

| Module | Models |
|---|---|
| `SSE` | what a line of the upstream's stream can be, as far as `processLine` tells lines apart |
| `ClaudeMessage` | abstract: a streamed message as its client assembles it |
| `StreamBlocks` | main loop, `processLine`, epilogue |
| `InductionLemmas` | induction over sequences; what `FlattenSeq` gives of a longer sequence |
| `StreamBlocksProofs` | inductive invariant of `StreamBlocks`; that it implements `ClaudeMessage`, delivers all the upstream said, in its place, and reports how it ended |
| `ResponseConversion` | `ConvertOpenAIToClaudeResponse`, compared with `StreamBlocks` |
| `ResponseConversionProofs` | that a client gets the same message from both |
| `StreamPump` | the pump goroutine and the two ends of its channel |
| `StreamConverter` | composes `StreamBlocks` and `StreamPump` with the timer, the client's going and the handler's close |
| `StreamConverterProofs` | `StreamConverter` implements `StreamBlocks`; its channel, timer and endings |
| `MessageHandler` | `CreateMessage`, `TestConnection` and the upstream client for concurrent requests |
| `MessageHandlerProofs` | inductive invariant of `MessageHandler` and what follows from it |
| `RateLimiter` | `Allow`, `cleanup`, `Stop`, ticker and clock |
| `RateLimiterProofs` | what a client's history tells of its bucket |
| `Routing` | fallbacks of `buildConfig`, `GetModelConfig`, the clamp of `max_tokens` |
| `RequestConversion` | messages, model and limit of `ConvertClaudeToOpenAI`, where the request is sent, `CountTokens` |
| `RequestConversionProofs` | what is kept of a turn, and of a conversation; limits and tiers |
| `Server` | routes and middlewares in front of `MessageHandler`, and the life of the process |
| `ServerProofs` | inductive invariant of `Server` and what follows from it |
| `MC*` | the small sets TLC works with |

Definitions that begin with the comment *Faulty* are plausible mistakes in the
definition below them. They are used by no specification: putting one in
the place of its original must make TLC report the property named beside it in
`PROJECT.json` (`mutants`), which shows that the property has teeth.

### Streaming converter

`StreamBlocks` has one variable per variable of the Go function, and `pc` for where the
goroutine is. A line is processed in the stages of the code, one action each:
`Chunk` (usage), `Reasoning`, `Text`, `ToolCall` (once per entry of `tool_calls`,
kept in `rest`), `Finish`; `SkipLine`, `Done` and `ErrorFrame` are the lines that
have no delta. `ReturnOnAbort`, `GuaranteeBlock` and `Epilogue` follow the loop.

The events written are not kept as a list but as what they amount to: `content[i]` is the block
with wire index `i`, its deltas in order, and the number of
`content_block_stop` events it got. `WriteStart`, `WriteDelta` and
`WriteStop` are the three events' effects, so a second start of an index, a delta after
a stop or a second stop would all be seen. `ending` is how the message ended: with
`message_stop`, with an `error` event, or cut because the client has gone. A delta remembers
the upstream's call it came from; the wire format does not, but the properties need it.

Where lines come from is open in `StreamBlocks`: any line, the end, an error, a stall
or a disconnect at any time. `StreamConverter` closes the system. Its actions join an
operation of the channel (`Pump!Take`, `Pump!Drained`) with one of the loop
(`Blocks!ReceiveLine`, `Blocks!ReadError`, `Blocks!EndOfStream`). The choice
between ready cases of a `select` is random in Go, so it is nondeterministic here,
in the main loop and in the pump. The idle timer may expire
while the main goroutine is busy; taking a line re-arms it in the same step, since
only the main goroutine looks at the timer (`Stop`, the drain and `Reset` are one step).
`firedAt`, `firedSilent` and `scanned` are history variables.

`ResponseConversion` adds the function that converts an answer that was not streamed.
`CompletionStreamed` is the answer the lines seen so far amount to, and
`StreamMeansCompletion` compares what the two functions make of it, for upstreams that keep to Claude's
order (`OrderlyUpstream`); for others the two differ by design, since a stream is converted in the
order it arrives. An entry of `tool_calls` without function is skipped; one whose arguments are absent or no string
has nil for its input (`Null`), which is sent as `null`, while arguments that do not parse become `{}` (`Input`).
An upstream that streams no arguments for a call may leave them empty in the completion or leave them out:
`StreamMeansCompletion` is about every choice of such calls (`bare`), and says that the two messages agree
but for the `null` of those calls (section 6).

Strings are sequences of fragments; wording, message ids, input and cached token counts (which
are only logged) and the flushing of the response are left out. Writes to a client
that has gone fail silently in the code and change nothing; the model keeps
them in `content`.

### Requests and registry

In `MessageHandler` each request has a `kind` (a message, a stream or a connection test, which calls
`CreateChatCompletion` too and answers 200 whatever happens) and a `phase`, and one action is one operation
between two points where another goroutine can interfere: `trackRequest`, the wait for
headers, the reading of the body, `untrackRequest`, the answer. `CancelRequest` is two
actions, `CancelLookup` under the read lock and `CancelCall` after its release;
`Close` and `CloseBody` are the two halves of `trackedReadCloser.Close`.
A converter either ends or cancels first (`StreamEnds`, `CancelLookup`); what it does
before is `StreamConverter`'s business.
The order of `CreateChatCompletion`, which parses the body before it looks at the
status, is in `ResultOf`. Request ids are taken to be unique (122 random bits); the
mutant `DecodeAnyId` shows what the registry does otherwise.

### Rate limiter

`Allow` and a pass of `cleanup` hold the mutex throughout and are one step each. Time is
discrete; a bucket's `lastReset` is kept as its age, capped at twice
the window, the largest value the code compares it with. The ticker's channel holds one tick.
`recent` is a history of the requests allowed in the last window.
Elapsed time in whole ticks and requests at any moment between them
put requests before, on and after each boundary.

### Request conversion

The state is a Claude request, whose conversation grows by a turn, and what the proxy makes of it:
`request`, the messages of the OpenAI request, and `sent`, its model and limit and the key and URL it is sent
with. The client repeats the whole conversation each time.
The operators have the functions' names. The client follows Claude's protocol: a call has an id of
its own and is answered, once, in the next turn. Where the answer stands in that turn and what stands beside it
is open. Texts are sequences of fragments, so that joining with a newline and the
test for white space are modelled by what they do; names and inputs of tools and
media types are carried along unchanged by the code and left out.

`NothingLost` compares what is *said*, turn for turn and message for message: the texts without the line breaks of joins, the inline
images, the ids of calls and of results. What the proxy adds is the subject of two other properties. `SilentTurnsDropped`
lists, in order, the messages in which nobody says anything, and equates them with the turns for which
`SentThoughSilent` holds: turns of the role system, a user's turn without content (sent as `<nil>`), an image by URL beside
texts that are all empty, and several empty texts, which are joined to line breaks. Any other
message that says nothing, and any such turn that is dropped, violates it. `CountAgrees` splits the text that
is sent into what was said, which is what `CountTokens` counts, and the rest (`Glue`), which must be one line
break for every join and one `<nil>` for every missing content. Calls, images and results of tools are counted by neither side.
Turns of a role other than user, assistant and system are dropped by the code (`ConvertTurn`), though `CountTokens` would count them;
no client's turn has one.

`Routing` takes a raw configuration with any field left out. A model's name is the prefix and the words
`GetModelConfig` looks for in it. `Send` joins what two functions look up separately: the model
(`ConvertClaudeToOpenAI`) and the key and URL (`CreateMessage`). `CountTokens` repeats the conversation with
a walk of its own; a fragment stands for a character, of which four are a token.

### Server

`Server` puts the gates a request passes in front of its handler: accepting the connection, CORS and open
routes, the rate limiter, the key check. `Handler` is an instance of `MessageHandler` with the same variables; a step of a
request in its handler is a step of that module. What `Allow` answers is open, since `RateLimiter` is
about it. `process` is where `main` is: serving, signalled, waiting in `Shutdown`, quiet, exited,
or killed by `log.Fatalf`. `net/http` is modelled by what `main` uses of it: `Shutdown` refuses new connections
and returns when no connection is active or its context ends. Every request has a connection of its own; a connection
without a request may be closed at any time.

## 3. Runs

| Run | Instance | Shows |
|---|---|---|
| `stream_blocks` | every sequence of ≤ 4 lines out of 17 | blocks matched, deltas in their blocks, arguments in place for upstreams that finish one call before the next, one block per call, nothing lost, usage and stop reason right, the same message as without stream but for inputs left out, and `ClaudeMessage` implemented |
| `stream_converter` | ≤ 3 lines out of 5, channel of 2 | lines in order, buffered lines never dropped for an error, broken reads reported, a line resets the timer, the converter returns if no more lines come, the pump exits |
| `message_handler` | 2 requests of any kind, 6 upstream answers | registry exact, bodies closed, cancellation hits its own request, failures reported, completions and tests answered |
| `rate_limiter` | 2 clients, 3 requests per window of 3 ticks | tokens account for requests, bursts bounded, denials justified and ending, stale buckets evicted |
| `request_conversion` | 4 turns of ≤ 3 blocks, 2 calls; 256 configurations of tiers with 10 model names, 36 of limits with 5 values | results follow their calls, turns that say nothing dropped but for the named exceptions, nothing lost, the estimate counts the text sent without what the proxy adds, a tier's key, URL and model stay together, limits hold |
| `server` | 2 requests on any route, 2 upstream answers | a graceful exit cuts nobody off, a refused request is answered once, the limiter outlives the requests, a signal ends the process |
| `interleaved_calls`, `late_thinking`, `slow_client`, `plain_text_error`, `silent_upstream`, `empty_system_turn` | as above | violations, section 6 |

### Why the bounds are enough

`stream_blocks`: `processLine` reacts to a line and to a few flags that speak of
the last block. Four lines suffice to open three different blocks and come back to an
earlier kind, to announce a call in two entries with arguments before and after, and to interleave two
calls; the alphabet has a line for each branch of `processLine`, two of them with several stages at
once. One line has a finish reason without delta and one only usage, which the two conversions could treat
differently. Two calls are enough because entries of different calls only meet through the last block.
The proofs remove the bounds.

`stream_converter`: a channel of two can be empty, partly full and full; three lines
fill it with the pump holding one more. The pump never looks at how many lines came before.
The proofs remove the bounds for the safety properties.

`message_handler`: requests meet only in the registry, one entry each. Two give every
interleaving of two operations on it. The proofs remove the bound.

`server`: requests meet in the registry and in `Quiet`, which looks at all of them; with two, one can be over, on its way
or late while the other is anywhere. The proofs remove the bound for the safety properties.

`rate_limiter`: rate 3 tells "one token left" from "none" and "all"; a window of 3 ticks has
a moment inside it that is neither its first nor its last; two clients show that
they do not share a bucket. The state is finite without any bound on time.
The proofs are for every rate, window and number of clients.

`request_conversion`: a turn is converted by itself; turns meet only where
results follow calls, which two consecutive turns show. Three blocks
place two results around a text in every order. Openings let the remaining two turns be a call
and its results, or results and the next call.
Where a request goes and how many tokens it may have does not depend on its conversation (the code looks at
neither when it does the other), so configurations are combined with one conversation only. Each field of the
big and middle tiers is given or left out independently of the others, the small tier's all together:
no fallback leads to or from it.
The proofs remove the bounds on the length of conversations and turns, on texts and on configurations.
Limits are left out, zero and the wrong way round.
Conversations really do stop, hence `CHECK_DEADLOCK FALSE`; all other runs check for deadlock.

### Fairness

`StreamConverter`: weak fairness of the main goroutine, the pump, the expiry of the
timer, the handler's return, and of reads failing once their request is cancelled or body closed
(`net/http` guarantees that). The upstream need not send or end anything: it may stay silent for ever. But it must not send for ever:
each line re-arms the timer, a blank keep-alive too, and the code has no other limit, so a stream without end keeps its converter for as long
as the client stays. `ConverterReturns` therefore has that lines cease to come (`<>[][FALSE]_scanned`) for its hypothesis. In the
instance `MaxLines` makes them cease, which is also why weak fairness of the timer's expiry is enough there.
`PumpExits` starts from a converter that has returned and has no such hypothesis.
Fairness of the main goroutine includes its writes: the server sets no write timeout
(`cmd/server/main.go`), so a client that neither reads nor closes its connection could block a write. That a
client eventually does one of the two is an assumption the code does not enforce.

`MessageHandler`: handlers are scheduled, except while their converter runs, which need not end (`Scheduled`); and a wait
ends if its context has ended or, for requests without stream, by the timeout of `httpClient` (which takes a `request_timeout`
greater than zero).

`Server`: `main` is scheduled and the timer of the 30 seconds expires. Nothing else is fair: handlers, clients and
upstream may stop where they are, and a signal still ends the process.

`RateLimiter`: the clock advances and the cleanup goroutine is scheduled. No request need ever come.
`StreamBlocks` and `RequestConversion` are checked for safety only.

## 4. Proofs

The theorems about the converter hold for every value of the constants that satisfies `LinesAssumption`
(`SSE`: lines are well-typed, indices are naturals with 0 among them, ids and names are not the empty string) and
`MaxLinesAssumption` (`StreamBlocks`: a natural number).

`StreamBlocksProofs` proves `Spec => []IInv` (`Invariance`) and from it `TypeCorrect`, `BlocksAlwaysMatched`,
`DeltasAlwaysInTheirBlock` and `OneBlockPerCallAlways`.
None of the three block properties is inductive. `DeltasInTheirBlock` needs to know that
`thinkingOpen` and `textOpen` speak of the *last* block and that `textIndex` is its index
(`FlagsMatchBlock`): otherwise a delta could go to a block of another type, or to a closed one. `OneBlockPerCall` needs that
a block's call is marked as started (`StartedMatchesBlock`). `BlocksMatched`
needs that only the epilogue makes a message complete, that it does so once, and that it comes after
`GuaranteeBlock` (`EndingMatchesStage`).

The argument has three layers. `DeltaWritten`, `StopWritten` and `BlockOpened` say what the
three events do to the message. `ReasoningOnBlocks`, `TextOnBlocks` and `ToolCallOnBlocks` say that a stage of
`processLine` changes the message in one of two ways, `Extends` or `Opens`, or not at all. `ExtendKeepsBlocks` and
`OpenKeepsBlocks` say that these two keep the invariant. `NextIInv` puts them together, one step per action.

The same module proves `MessagePromiseKept`: `Spec => Message!Spec`, where `Message` is `ClaudeMessage` with
the blocks `0..contentBlockIndex` read as a sequence. The same two ways turn
up as `ClaudeMessage`'s actions: `Extends` is `Extend` (`ExtendsIsExtend`), `Opens` is `Open`
(`OpensIsOpen`), `Epilogue` is `Complete`, and an error frame, a stall or a disconnect is `Fail`.
The rest stutters.

**Induction over data.** Much of what follows is about sequences of any length: lines, deltas, messages,
turns. The library's induction theorems take a predicate as a parameter, which no installed prover can
instantiate. `InductionLemmas` states induction for a *set* instead (`SetInduction`: a set that has 0 and with each of its
numbers the next one has all numbers), which it derives from `NatLessThanWellFounded` and `WFMin`;
`SequenceInduction` follows. From the definition of `FlattenSeq` they give
`FlattenAppend`, and with it what loops that append do (`FlatMap`): they distribute over
concatenation (`FlatMapConcat`), and two of them in a row are one (`FlatMapCompose`).

**Delivery.** `StreamBlocksProofs` also proves `NothingLost`, `ReportFaithful` and `ToolArgsInPlaceInOrder`. While a line
is being processed they do not hold, so their invariants say what is still to come: what was delivered, followed by what is
held back in `toolCalls` and by what is left of the line, is what was sent (`DeliveryInv`); usage and finish
reason are those of all lines but the current one until `Chunk` and `Finish` have looked at it (`ReportInv`).
`PlaceInv` is about the order in which calls are spoken of: if the block of a call that has started is not
the last one, then somebody else was spoken of after it (`Interrupted`).

**With and without stream.** `ResponseConversionProofs` proves `StreamMeansCompletion`: for an upstream that keeps to Claude's order,
the client of a stream puts together the message that `ConvertOpenAIToClaudeResponse` makes of the same answer sent whole,
with `{}` where that message has `null` for arguments that were left out.
Thinking, text and each call get a rank (-2, -1, the index). Three invariants hold while lines are processed:
`ShapeInv` (the flags are set while the last block is of their type, a started call has a block, only the guaranteed block is without data),
`OrderInv` (the blocks are of ranks that were spoken, in increasing order, and the arguments are in place) and
`IdentityInv` (ids and names are those that entries gave, and a call that has both has started). Order is conditional
on what the *whole* stream says, of which a step only sees a prefix; so `OrderInv` splits the stream into what was spoken and what is
left (`RanksLeft`). At the end (`Ended`), the ranks of the blocks and those of the parts of the completion are two increasing
sequences with the same values, hence equal (`RanksAgree`, from `IncreasingUnique`), and a block has what
its part has (`AssembledBlock`): its data are all data of its kind, since no other block is of that kind (`BlockData`).
That `CallsInOrder`, a CHOOSE, lists every call follows from the blocks, which list them too (`CallsListed`).
`NoParts` is the case of an answer without content. Stop reason and tokens are those of `ReportInv`.
The only assumption beyond the converter's is `JsonTextsAssumption` (the empty text is not JSON).

**The closed system.** `StreamConverterProofs` proves `ConverterIsBlocks`: every step of the converter with its pump, channel,
timer, client and handler is a step of `StreamBlocks` or leaves it alone. So all theorems about
the main loop hold of the system. Its own invariant relates the two goroutines: what is in the channel, in the pump's hands and
already taken is what was scanned, in order (`LinesInOrder`, inductive by itself); an error item is the last one and the pump
has left (`PumpInv`); how the loop ended tells what was read (`Outcome`); and an expiry that counts
is of the current silence (`TimerInv`). `WholeBodyAlwaysDelivered` joins both halves: a message that completes without
`[DONE]` has the thinking and the text of the whole body.

**Rate limiter.** The properties are about a client's history, and the invariant explains its bucket by it (`Explained`). A
bucket in its window began with a request and has counted all since, and of those that came before and are not yet a window old there are
less than a rate (`Current`); a bucket past its window has let nothing through since (`Past`); a client without bucket has
no history (`Fresh`). `BurstBound` is not inductive by itself: that the first of the window's requests is the reset,
and that the ones before are less than a rate, must be carried through the passing of time, where both move at once.

**Conversation.** `RequestConversionProofs` proves every property of the run `request_conversion`. What becomes of a turn is shown
turn by turn (`TurnKept`: texts, images, calls and results are those of the turn), carried over to the conversation by
`RequestMeasure`, and to the reachable states by `ConversionAlways`. `ToolResultsFollowCalls` needs induction over the
conversation: a turn becomes results, then at most one other message (`ShapeOfTurn`); what is invariant from turn to turn
is that the last message's calls are those the protocol says are pending (`Follows`). As many results as calls follow because
both are without repetition and have the same elements (`AsManyElements`). `SilentTurnsDropped` and `CountAgrees` are measures of the
same kind: of a turn's messages, the roles of those that say nothing and the text the proxy added are what the turn's content
foretells (`Measured`, `TurnMeasured`; `GlueOfJoin` and `JoinOfNothing` for what `strings.Join` adds), and measures of turns
add up to those of the request (`MeasuresAdd`).
Assumed are what constants stand for (`TextsAssumption`, `ContentsAssumption`, `StartsAssumption`: contents have the blocks
that the role's turns can have, conversations to start from keep to the protocol), and, for `TiersKeepTogether`, that no two tiers
are given the same key or URL (`TiersDiffer`): two tiers that share a key on purpose cannot be told apart
by it.

**Requests and server.** `MessageHandlerProofs` proves `RegistryExact`, `NoBodyLeft`, `CancelHitsOwnRequest` and `FailuresReported` for any
set of requests, ids and upstream answers that satisfies `RequestsAssumption` (the values that stand for nothing are
not values). Apart from uniqueness of ids, which `generateUUID` gives, nothing is
assumed of how requests interleave. The invariant adds to the properties:
`IdsOwn`, without which removing one entry could remove another's; `CancelOwn`, by which a converter
between the lookup and the call holds its own cancel function (the entry it found was its own by
`RegistryExact`); `ReplyFits` and `ErrFits`, which carry what is known of the upstream's answer to
the moment it is reported; and `Answered`, which the server needs.
A step of one request leaves `InOrder` of the others alone (`OthersInOrder`), and the registry changes in three ways only, which
`RegistryKept`, `Unregistered` and `TrackKeeps` are about.

`ServerProofs` builds on it: `HandlersKeep` carries the handlers' invariant over to the server's
instance of them. The server adds `GatesFit` (a request outside its handler has not begun, one with an answer is over) and
`StaysQuiet`: what `Shutdown` saw when it found the connections quiet is still so when `main` returns. From these follow
`GracefulMeansAnswered`, `OneAnswer` and `CleanupOutlivesRequests`.
It also proves that the server's handlers are those of `MessageHandler` (`HandlersAsAlone`: initial states map to initial
states, every step to a step or a stutter), so that gates and shutdown take nothing away from what was proved of them (`HandlersKeepTheirWord`).

*Only model-checked*: liveness (`ConverterReturns`, `PumpExits`, `DenialsEnd`, `StaleEvicted`,
`CompletionsAnswered`, `SignalEnds`), which is out of the prover's reach. The violations of section 6 are counterexamples.

## 5. Not modelled

- The fields of a request that are copied or renamed one by one (`temperature`, `stop`, `top_p`,
  `convertTools`, `convertToolChoice`): no state, and nothing to hold them against but themselves.
- `buildURL`, `setHeaders`, `extractErrorMessage`, `ClassifyOpenAIError`: they build strings.
- `clientIP`: a key of the limiter stands for a client. The header a client's API key is read from and
  the comparison with the configured one: `WrongKey` may happen whenever a key is configured.
- The constant answers of `ListModels`, `HealthCheck` and `Root`; the headers of CORS.
- Finding, reading and parsing the configuration file, the command line, `Validate`, `SecurityWarnings`, the banner: I/O and wording.
- Two concurrent calls of `RateLimiter.Stop`: `main` makes one.
- Connections that carry more than one request, and `net/http`'s own races: `Shutdown` is taken at its word.
- A write that blocks because a client reads no more (section 3, Fairness).
- The struct declarations of `internal/model`: what the code reads of them appears in the modules that read it.

## 6. Where the code and what is said of it disagree

Each of these is a run in which TLC finds the quoted statement violated.

- `interleaved_calls`: an `input_json_delta` goes to the block opened last
  (`response.go:453`), whichever call it belongs to. If an upstream interleaves the fragments of two calls,
  a client that concatenates them, as the comment at 448 expects, gets the second call's input with
  the first's mixed in. `ToolArgsInPlaceInOrder` shows that upstreams that
  finish one call before they say anything else are served right.
- `late_thinking`: reasoning that comes after text opens a thinking block there; the comment at 201 says that
  thinking precedes text and tool calls.
- `slow_client`: the timer also runs while the converter writes. When it expires meanwhile, the next
  `select` has a line and an expired timer to choose from, and may report a stall of an upstream that
  has been sending (`src/README.md:30`, `response.go:499`).
- `plain_text_error`: without stream, an error response that is not JSON becomes
  502 without Retry-After, since parsing comes before the status (`openai.go:107`, `src/README.md:28`).
- `silent_upstream`: with stream, nothing but the client's disconnect ends the wait
  for an upstream's headers; the idle timer starts with the converter (`src/README.md:213`).
- `empty_system_turn`: a turn of the role `system` without text becomes a message with empty content, which
  other roles' conversions take care to avoid (`request.go:268`, `converter_test.go:465`).

Three more statements about messages are contradicted in the model of the passing run `request_conversion`. `SilentTurnsDropped` states
the first two as exceptions, exactly.

- Beside an image, an empty text becomes a part. If the image is left out because it is given by URL,
  the message's only part is the empty text (`request.go:225`), where the comment at 142 has a message with "empty text and no
  image parts" dropped.
- A user's turn without content is printed with `%v` and sent as `<nil>` (`request.go:235`), where the same comment
  has it dropped.
- An assistant's turn of calls alone has no content key (`request.go:287`), on purpose, says the comment
  at 289; the test's comment has no message with "empty or missing content" (`converter_test.go:465`).

Of the following, nothing in the repository says otherwise.

- A completion whose call has no arguments, or arguments that are no string, gives the client `"input": null`
  (`response.go:70`); the stream of the same call gives `{}`. `StreamMeansCompletion` states the difference.
- Two empty texts, in a turn or in the system field, are joined to a line break, which counts as content and is sent (`request.go:172`, 420).
- What is sent as `<nil>`, and the line breaks of joins, are not part of `CountTokens`'s estimate. `CountAgrees` states the difference.
- A turn of an unknown role is dropped without an error (`request.go:38`), and `CountTokens` counts its text.

Two concern configuration. `TestConnection` sends the small
tier's model name to the key and URL of `GetModelConfig("small_model")`, a name that contains none of the words looked for and therefore
belongs to the big tier (`handler.go:352`): with tiers on different upstreams it tests a combination that no
message uses. And a configuration without limits allows 4096 tokens (`config.go:226`), where `src/README.md:222`
gives 64000 as the default.

## 7. Plan

Done, in this order: `SSE`, `StreamBlocks`, `ClaudeMessage`, `StreamPump`, `StreamConverter`, `RateLimiter`,
`MessageHandler`, `StreamBlocksProofs`, `RequestConversion`, `ResponseConversion`, `Routing`,
`Server`, `MessageHandlerProofs`, `ServerProofs`, `InductionLemmas`, `StreamConverterProofs`,
`RateLimiterProofs`, `RequestConversionProofs`, `ResponseConversionProofs`.

To come: the safety half of the liveness properties, as measures that steps decrease (what is left of a line, of the channel, of
a shutdown); `StreamMeansCompletion` carried over to the closed system, as `NothingLost` is.
