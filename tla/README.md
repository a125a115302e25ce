# Freyja, specified and proved

This directory holds TLA+ specifications of Freyja, a Rust client for language
models, the TLC configurations that check them on small instances, and proofs
that TLAPS checks for instances of every size. It describes the code under
`src/`; paths below are relative to the repository.

## The system

Freyja sends a *transcript* to a model and runs the tools the model asks for.

| Component | Source | State it keeps | Operations | Made correct by |
|---|---|---|---|---|
| repair | `src/repair.rs` | none; one scan keeps the open calls | `repair(messages)` | what it leaves is accepted by every provider; what needed nothing is untouched |
| windows | `src/helper/window.rs`, `src/counter.rs` | none | `split`, `reassemble`, `cut_by_groups`, `cut_by_tokens`, the two windows | an exchange is never cut apart, no instruction is lost, the budget is used |
| in-memory storage | `src/builtin/memory.rs` | turns, window, cached summary | `load`, `append`, `clear`, `restore` | a cached summary stands for the turns it replaces |
| JSONL storage | `src/builtin/jsonl.rs` | a file, and an in-memory storage over it | `open`, `load`, `append`, `clear` | acknowledged turns survive; the file can always be opened |
| agent loop | `src/agent.rs` | the tools and their definitions; the transcript of one run, turns, tool choice, calls in flight | `tool`, `guard`, `run_loop`, `dispatch` | results pair with calls and come from the tool declared, the ceiling holds, a failed run leaves no trace, runs end |
| conversation | `src/conversation.rs`, `src/storage.rs` | an agent and a backend | `send`, `send_with`, `clear` | every request is sendable, only new turns are stored, an approval is never lost |
| streaming | `src/stream/*`, `src/dialect/*/stream.rs` | bytes, partial calls, the response so far | `next`, `into_response` | a drained stream is the response `generate` returns |
| request dialects | `src/dialect/*/request.rs` | none | `build`, `streaming` | legal turns stay legal on the wire; what is asked is said or refused |
| response dialects | `src/dialect/*/response.rs` | none | `parse` | as a drained stream |
| client, transport | `src/client.rs`, `src/transport/mod.rs` | one call: where it was sent, what has arrived | `generate`, `generate_as`, `stream` | the credential stays at its origin; an answer is whole; every call returns |
| errors | `src/error.rs` | none | `from_status`, `is_retryable`, `retry_after`, printing | only what may change is retried, at the pace asked for |
| retry loop | `examples/retry.rs` | attempts, the wait | `generate_with_retry` | as above |
| endpoint | `src/endpoint/*` | headers, parameters, what is secret, fields of the body | the builder methods, `url`, `Debug` | names that collide go out once; what is secret is not printed |
| request | `src/model/request.rs`, `src/model/tools.rs` | what is asked, extra fields | the builder methods | fields merge in the documented order |
| strict schemas | `src/model/schema.rs` | none | `strict_schema` | the rewritten schema means what was written |
| macros, heuristic counter, summarizer | `macros/`, `src/builtin/heuristic.rs`, `src/summarize.rs` | none | pure functions, one request | unit tests |

How they interact. `Conversation::send` calls `Storage::load`, pushes the
caller's turn, calls `repair`, refuses the turn if repair took any of it, moves
the transcript into `Agent::run_loop`, and appends the turn and what the run
added. `run_loop` calls `Client::generate` for each turn and runs the requested
tools concurrently through `buffered(8)`. `InMemoryStorage::load` calls the
windows and perhaps a summarizing model; `JsonlStorage` writes through to its
file before it changes the memory it holds. A call of the client takes the
request and the configuration, has a dialect build the body, merges the fields
of both into it, makes the address and the headers, posts them, and reads an
answer or hands an `EventStream` over; an error tells a loop around the call
whether to try again. `EventStream::next` moves bytes through an `SseBuffer`, a
dialect's decoder and the `Assembler` into a queue of events; `into_response`
takes what the assembler holds.

What is hard here: a process that dies, or a write that fails, between any two
steps of a store; a cache keyed by a count while the thing counted grows; tools
that finish in any order; a future dropped at any await; backends that cut the
transcript anywhere; ids that come from elsewhere; a body that arrives in any
chunks and stops at any of them; redirects that form chains; statuses that mean
two things; names that are the same in another case; settings that four
providers name differently or not at all; schemas rewritten at every depth.
`PROJECT.json` lists each of these hazards with its line and with the properties
that are about it.

## Modules

`Transcript` defines messages, repair and the windows as sets of positions: the
calls open at a position, the positions at which a group starts, the parts that
are kept. `TranscriptLoops` writes the same algorithms as the loops of the code,
and `WireRequest_proofs` proves that the two agree on every transcript.
Everything else uses `Transcript`, whose definitions are short enough to reason
about.

| Module | Models | Variables |
|---|---|---|
| `Picks` | keeping some positions of a sequence, as repair, windows and headers do | none |
| `Transcript` | repair and windows, as definitions | none |
| `TranscriptLoops` | repair and windows, as the loops of the code | `h`, a growing transcript |
| `WireRequest` | the turns in the `build` of each dialect's `request.rs` | none; its properties are of `h` |
| `InMemoryStorage` | `builtin/memory.rs` | `messages`, `summary`, `config` (window and summarizer), `view` (the last load) |
| `JsonlStorage` | `builtin/jsonl.rs`, over `InMemoryStorage` | plus `file`, `images` (what power loss may leave), `open`, `acked` (history variable) |
| `DurableTranscript` | the abstract log that `JsonlStorage` implements | `log`, `possible` |
| `AgentLoop` | registration of tools, `run_loop`, `dispatch` | `transcript`, `turns`, `choice`, `calls`, `begun`, `finished`, `outputs`, `stop`, `phase`, `given` |
| `Conversation` | `send_with` and `clear`, over `AgentLoop` and any backend | plus `stored`, `turn` |
| `Sse` | `stream/sse.rs`: bytes into frames | none |
| `Assembler` | `stream/assembler.rs`: deltas into events and a response | none |
| `AnthropicStream`, `GeminiStream`, `ChatStream`, `ResponsesStream` | the `stream.rs` and the parsing half of the `response.rs` of each dialect, and the frames its provider sends | none |
| `EventStream` | `stream/event.rs`, over the six above and an endpoint | `sent`, `read`, `live`, `buffer`, `decoder`, `asm`, `closed`, `drained`, `failed`, and the histories `decoded` and `seen` |
| `Errors` | `error.rs` | none |
| `Exchange` | one call: `client.rs` and `transport/mod.rs` | `call`, `fits`, `phase`, `visited`, `status`, `asked`, `seconds`, `body`, `read`, `outcome` |
| `Retry` | `examples/retry.rs`, over `Exchange` | plus `attempt`, `wait`, `caller` |
| `Endpoint` | `endpoint/*`, and the address and headers of `transport/mod.rs` | none |
| `RequestBody` | requests, tools, the settings in each `build`, and merging | none |
| `StrictSchema` | `model/schema.rs`, and what a schema accepts | none |
| `Address` | builder calls about the endpoint and what is posted beside the body, over `Endpoint` | `concern`, `config`, `made` (history of the calls), `sent` |
| `Request` | all builder calls and the request they post, over the three above | plus `request`, `posted` |
| `Counting` | nothing: what the proofs know of bounded sets, counts, picks, loops and sequences put end to end | |
| `*_proofs` | nothing: theorems about the module they extend | |
| `MC*` | constants for TLC | |

An operation of the code is one action: `MemoryLoad`, `MemoryAppend`,
`MemoryClear`; `Open`, `OpenNew`, `Load`, `AppendTurns`, `Clear`; `Ask`,
`ReplyArrives`, `RequestFails`, `CallFinishes`, `GiveUp`; `Send`, `Store`. A
call of `next` is a loop, and each turn of it is an action of `EventStream`:
`HandOver`, `DecodeFrame`, `TakeChunk`, `BodyBreaks`, `BodyEnds`, `Finish`. A
call of the client awaits the endpoint several times, and each await ends in an
action of `Exchange`: `Send`, then `SendFails`, `Redirected` or `HeadArrives`,
then `ChunkArrives`, `BodyBreaks` or `BodyEnds`; around it `Retry` has `Finish`,
`Sleep` and `Wake`. In `Request` each builder method is an action (`SetHeader`,
`SetSecretQuery`, `SetBody`, `SetField`, ...), and so is each way to a client
that posts (`PostAsNew`, `PostWithoutKey`, `PostFromEnv`). Where an operation
can stop half way it has a second action, `...CutShort`, whose outcomes are
every state the half-done operation can leave. A load that is dropped while its
summary is being made has changed nothing, so it is a stuttering step.
`PROJECT.json` maps each definition to its lines.

Definitions introduced by "A slip:" are plausible mistakes in the definition
that follows them. Nothing uses them; replacing the definition by its slip must
break a property, which is how each property is known to say something.

Abstractions:

- A message is a role and parts; a part is a call, a result, or text, which
  stands for every kind of content that repair and the windows pass over.
  `WireRequest` tells texts, images and provider state apart, since dialects
  refuse, move or leave behind each of them differently. What the endpoints
  accept is external, taken from the comments that record measurements of them.
- `WireRequest` has the turns and the instructions of a request, `RequestBody`
  everything else it says, and each has the other as one field. The arguments
  of a call and the bytes of an image are not looked into; a malformed one is
  the refusal `InvalidRequest` of `Exchange`.
- The text of a summary is modelled by the turns it was made from, each at its
  place, so that a property can ask what a summary stands for.
- A file is what reading it would find: its turns, its last summary, whether a
  line does not parse, whether bytes follow the last newline. Bytes and JSON
  are left out.
- An output of a tool is the id of the call it came from and what kind of
  answer it is: of which tool, an error, denied, or unknown.
- A URL of `Exchange` is its scheme, host, port and path; an address of
  `Request` is whether it parses, its path and its parameters. A header is a
  name, told apart as the code compares names, and a value. `Request` has three
  concerns, the address, the question and the merging, and the calls of one
  behaviour are about one of them: no code reads what two of them set, but the
  merging, which has some of the question in it.
- A body of an answer is the widths of its characters, whether it names an
  exhausted quota, and whether the parsers accept it. A JSON value of a request
  is a tree of strings.
- A schema may have any of the keywords the rewriting knows. Those that it drops
  narrow what is accepted and are not read by `Accepts`. Those that strict mode
  rejects and the rewriting leaves on purpose (`allOf`, `not`, `if`, `then`,
  `else`, `contains`, `propertyNames`) are not read either: such a schema must
  still be refused (`StillRefused`), what is inside is rewritten like the rest,
  and nothing is said of its meaning, as no answer comes of it. A schema with both
  `oneOf` and `anyOf` loses the second; none of the run has both, and the
  variants of a `oneOf` exclude each other.
- In a stream, a byte is a line end or stands for the rest of one line, since
  nothing between two line ends matters to framing. A text is the sequence of
  its fragments. A JSON object is a sequence of numbers, its opening, its
  members as written and its closing, so that a fragment of one, and the
  sorting of one that is parsed and written again, can be told from the whole.
- Providers send a payload on one `data:` line and with the fields they
  document; a step of Gemini's `model_output` has one text part. Response ids,
  model names and metadata are left out; status and token counts are kept.
- Outside streams, token usage and the wording of answers and errors are left
  out.

## Runs

| Run | Shows | Bounds |
|---|---|---|
| `transcript` | the loops agree with the definitions; repair and windows do what their callers rely on; what repair leaves, every dialect builds and its endpoint accepts, Chat Completions where each result is a tool turn of its own; no builder loses or moves a part | every transcript of up to 5 messages from 9 kinds, 2 ids; budgets that fall inside and between groups |
| `memory` | the summary cache is sound, and a summary neither loses a turn nor widens the window | 8 messages; windows of 1, 2, 4 groups and 0, 4, 7 tokens, or none |
| `jsonl` | durability, agreement of memory and disk, true summaries after any crash, refinement of `DurableTranscript` | 5 messages; 6 contents unsettled at a time |
| `agent_loop` | pairing, which tool answers, the ceiling, the failing path, termination | 3 turns, 4 calls in one turn, ceiling of 2; a tool registered twice, one that fails, one denied, a name unknown |
| `conversation` | requests over any backend, refusals, approvals, what is stored | 5 stored messages before a send, 2 turns a run |
| `stream` | in every dialect, however the body is cut: frames arrive whole; a drained stream is the parsed response; events and response agree; the status tells a cut answer; every stream ends | 9 answers; LF and CRLF; chunks of 1 to 7 bytes; a failure after any frame; ceilings of 15 and 110 bytes |
| `client` | the credential stays home; an answer is whole; what is printed is readable; a retry is warranted and paced; every call returns | 3 attempts, 3 hops over 6 URLs, bodies of up to 6 bytes under a ceiling of 5, 3 bytes in print, delays below, between and above the two limits |
| `request` | colliding headers go out once; secrets are not printed; the address printed is the one posted to; later fields win; nothing asked is dropped; strict schemas are strict wherever a schema stands and, where optional members can be null, keep their meaning | 3 calls about the address or the merging, 2 about the question; 17 schemas, answers three deep |

Four more runs expect a violation; each is a finding, described below.

Why the bounds are enough. Two calls open at once, one answered and one not,
with something between, is the smallest transcript that tells the rules of
repair apart, and it fits in five messages with room for a group on either side.
Eight messages hold an exchange with tools, one cut short, its late answer and a
plain one, so a group can grow after it was counted. Five messages in a file are
two appends of two and one of one, with every prefix of each on the disk. Four
calls under a ceiling of two fill the slots twice. A chunk of seven bytes holds
two small frames, and smaller ones split every separator at every place. The
longest frame sent has eight bytes, so no answer reaches `MaxFrame` with a chunk
to spare, and a frame that never ends does. `MaxStream` lets the longest answer
through with one kind of line end and not with the other. The answers have
blocks side by side, calls with no arguments and with members out of order,
calls whose fragments are interleaved, thoughts with signatures, and blocks the
parser does not model. A redirect of the `client` run keeps the origin by
another path or by a port in full, or differs in one part of it; of the two
limits on a wait, one of the delays asked for falls inside both, one between
them and one outside. Two calls with one name, one of them in another case or
classified later, and one of another name are three; a setting and one that
meets it are two. `MaxLen`, `MaxMessages`, `MaxImages`, `MaxStored`, `MaxTurns`,
`MaxChunk`, `MaxFrame`, `MaxStream`, `MaxCalls` and `Asked` are the bounds, and
so is `concern`. In the code, with other values, are `MaxTurns`
(`Agent::max_turns`), `MaxConcurrent`, `MaxFrame`, `MaxStream`, `MaxRedirects`,
`MaxBody`, `BodyInMessage`, `MaxRetryAfter`, `MaxAttempts` and `MaxBackoff`,
each the constant of that name.

Deadlock is checked except where the system stops: a transcript at its bound, a
run that is over, a drained stream, a call that has returned, and a request that
is posted.

Fairness is assumed of `AgentLoop`, weakly, for each of its steps: the executor
polls the run while it can move, a request is answered or times out
(`transport/mod.rs` sets timeouts), and every tool returns. The last is the
caller's obligation, as `docs/building-an-agent.md` says. It is assumed of
`EventStream`, weakly, for its next step as a whole: the caller calls `next`
until it returns `None`, after an error too; a body that neither brings bytes
nor ends is broken by the read timeout of `client.rs`; a connection that has
failed brings no more bytes. It is assumed of `Retry`, weakly, for its next step
as a whole: timers fire, and a wait for the endpoint ends with something from it
or with the read timeout of `default_http`. None of the endpoint's answers is
promised. The fairness of `EventStream` is written with `CanMove`, which spells
out `ENABLED StreamNext`, because TLC is slow to find out for itself.

## What the code does otherwise than it says

- **A summary written in part** (`jsonl_summary_glue`). `load` ignores the
  error, and the next append is written after the fragment. The append is
  acknowledged and the file can no longer be opened. The comment says nothing
  is lost.
- **A call never answered** (`conversation_groups`). A reply cut short at its
  call is stored, its group stays open, and every later turn joins it, so a
  window bounds nothing from then on. The comment on `window` describes groups
  as single messages and exchanges.
- **A call cut in its arguments** (`stream_cut_call`). `close` finishes what is
  pending, so a body that stops early yields the call with the part of its
  arguments that arrived, before `Done` says `Incomplete`.
  `docs/reference/streaming.md` says the arguments of a `ToolCall` event always
  parse.
- **An optional member that cannot be null** (`request_untyped`). `make_nullable`
  widens a `type` and nothing else, and the member has become required: one
  written as `anyOf`, `$ref` or `enum` alone must now be present and may not be
  null, and so must one with a `type` and an `enum` without null, whose `enum`
  still excludes it. The run has one of each, and either alone violates the
  property. `docs/reference/requests.md` says an absent member becomes one that
  may be null.

Smaller ones, met while modelling and not runs of their own. Repair indexes the
first call and the first result of an id, so an id that comes again in a later
exchange loses a half that has its other half (`ReusedIds = TRUE` shows it);
Gemini's parser gives every call without an id the empty one. A window of zero
groups covers the newest group with a summary, and what joins it later does not
change the count, so the summary serves on (`PositiveWindows` is the assumption
that excludes it). The assembler turns empty arguments into `{}` in every
dialect, the parser of the Responses dialect only absent ones. `into_response`
succeeds from the end of the body on, while its documentation says from the
`None` of `next`; `ResponseIsFinal` shows that nothing is lost by it. A Chat
frame whose `usage` is `null` reads as counts of zero, so a stream cut before
its last frame reports zero tokens where it knows none. Adjacent refusal parts
of the Responses dialect become one part of a drained stream and stay two in the
parser, and an empty text block of Anthropic is a part of the parsed response
and none of the stream; the answers of the run have neither. A window may leave
an assistant turn as the oldest that is not an instruction, and no builder puts
another before it, while `docs/reference/wire/anthropic.md` says the first
message must be `user`; `AnthropicAccepts` states the rules on calls alone. An
example in the comments of `client.rs` (line 180) handles the refusal of a
capability that no dialect with that preset refuses any more. The parameters of
the base URL itself are printed as they are.

## Proofs

`Counting` and the `*_proofs` modules hold theorems for every value of the
constants: transcripts, batches, replies, files and bodies of every length, any
costs, windows, ceilings and limits. `PROJECT.json` lists the results; those
that state a property of a run are below with what they assume beyond the
`ASSUME` of the module, which every run evaluates.

| Theorem | Establishes | Assumes |
|---|---|---|
| `WireRequest_proofs!LoopsAlwaysAgree` | `Spec => []LoopsAgree` | nothing |
| `WireRequest_proofs!RepairIsAlwaysSound` | `Spec => []RepairIsSound` | no id is used twice |
| `WireRequest_proofs!WindowsAreAlwaysSound` | `Spec => []WindowsAreSound` | no id is used twice |
| `WireRequest_proofs!TokenWindowsAreTight` | `Spec => []TokenWindowIsTight` | nothing |
| `WireRequest_proofs!GroupsSettle` | `Spec => OlderGroupsAreSettled` | nothing |
| `Storage_proofs!SummaryCountIsAKey` | `Spec => []SummaryIsOfItsGroups` | no window of zero groups |
| `Storage_proofs!LoadsTellTheWhole` | `Spec => []ViewTellsTheWhole` | no window of zero groups |
| `Storage_proofs!AcknowledgedAppendsSurvive` | `JsonlSpec => []AcknowledgedSurvive` | summary writes are whole or absent; a failed storage is dropped |
| `Storage_proofs!MemoryMatchesTheFile` | `JsonlSpec => []MemoryIsTheFile` | the same |
| `Storage_proofs!JsonlIsDurable` | `JsonlSpec => ImplementsDurableTranscript` | the same |
| `Storage_proofs!StoredSummariesAreKeyed` | `JsonlSpec => []StoredSummaryIsOfItsGroups` | the same, and no window of zero groups |
| `Conversation_proofs!CeilingAlwaysHolds` | `LoopSpec => []CeilingHolds` | nothing |
| `Conversation_proofs!OutputsAreOfTheirCalls` | `LoopSpec => []OutputsAreTheirCalls` | nothing |
| `Conversation_proofs!RunAlwaysKeepsTheGiven` | `LoopSpec => []RunKeepsTheGiven` | nothing |
| `Conversation_proofs!EveryRequestIsSendable` | `ConversationSpec => []EveryRequestOfAConversationIsSendable` | nothing |
| `Conversation_proofs!OnlyNewTurns` | `ConversationSpec => OnlyNewTurnsAreStored` | nothing |
| `Conversation_proofs!TextIsTaken` | `ConversationSpec => []TextIsNeverRefused` | nothing |
| `Conversation_proofs!ApprovalIsTaken` | `ConversationSpec => []ApprovalIsAccepted` | the windows keep a group |
| `Client_proofs!CredentialNeverLeaves` | `RetrySpec => []CredentialStaysHome` | nothing |
| `Client_proofs!AnswersAreAlwaysWhole` | `RetrySpec => []AnswersAreWhole` | nothing |
| `Client_proofs!RetriesAreAlwaysWarranted` | `RetrySpec => []RetriesAreWarranted` | nothing |
| `Client_proofs!WaitAlwaysFollowsTheEndpoint` | `RetrySpec => []WaitFollowsTheEndpoint` | nothing |
| `Client_proofs!PrintedIsAlwaysReadable` | `RetrySpec => []PrintedBodiesAreReadable` | nothing |
| `WireRequest_proofs!TranscriptsAreSentWhole` | `Spec => []TranscriptIsSentWhole` | nothing |
| `WireRequest_proofs!RepairedIsAlwaysAccepted` | `Spec => []RepairedIsAccepted`, which for Chat Completions is about transcripts of one result a turn | no id is used twice; messages are ordinary |
| `EventStream_proofs!FramesAlwaysArriveWhole` | `StreamSpec => []FramesArriveWhole` | nothing |
| `EventStream_proofs!EventsAlwaysAddUp` | `StreamSpec => []EventsAddUp` | nothing |
| `EventStream_proofs!ResponseStaysFinal` | `StreamSpec => ResponseIsFinal` | nothing |
| `StreamedResponse_proofs!DrainedIsAlwaysTheResponse` | `StreamSpec => []DrainedIsTheResponse` | nothing |
| `StreamedResponse_proofs!FinishedIsAlwaysWhole` | `StreamSpec => []FinishedIsWhole` | nothing |
| `Client_proofs!HeadersAlwaysGoOutOnce` | `AddressSpec => []HeadersGoOutOnce` | nothing |
| `Client_proofs!NoSecretIsEverPrinted` | `AddressSpec => []SecretsAreNeverPrinted` | nothing |
| `Client_proofs!PrintedUrlIsAlwaysTheSentOne` | `AddressSpec => []PrintedUrlIsTheSentOne` | nothing |

What the `ASSUME`s say: costs, budgets, delays and limits are natural numbers,
statuses have three digits, a reply holds calls and texts, no caller's message
is the agent's instruction, no turn is the preamble of a summary, no pinned
message has a call or a result in it; an answer is of one of the four dialects, has
the fields that its API documents, with no empty text, no refusal of the Responses
API right after another and objects spelled as objects (`AnswersAreDocumented`; a
stream of one that has these differs from its response, as said above), and
comes in frames of one payload or none; each call of a builder brings a value of
its own, which the base URL does not hold, nor does it hold the key, so that a
value can be followed to where it is printed. A message is `Ordinary` if it is what the
doc comments of `model/message.rs` (lines 73 to 101) say of its role: instructions
are text, images are the user's and calls the assistant's, and tool turns hold
results alone; the messages of the run are (`MessagesAreOrdinary`). `Conversation` needs no assumption on ids
because its actions build it in: a reply makes calls with ids not used before,
as a provider does. Each assumption of the table is needed: TLC finds a
counterexample without it. A call answered twice has its second result in a
group of its own, which outlives the call in a window; an id that comes again
loses a half to repair that has its other half. Windows of zero groups and summary
writes that tear are described above; a storage used after a failed append
writes the next one into the middle of a line; a window that keeps no group
returns none of the calls an approval answers. `LoopsAgree` holds wherever ids
come again too, so it is the algorithms that do so and not only their definitions.

### The arguments

*The groups settle.* Whether a call is open at a position depends only on the
messages before it (`OpenBeforeIsSettled`), so positions where groups start
never move (`BoundariesAreSettled`) and the messages of every group but the
newest never change (`OldestAreSettled`).

*What is picked.* Repair, windows and views are all picks: `Pick(s, S)` is what
`s` has at the positions of `S`, in order. It is defined by ranks, the count of
the positions of `S` up to one, and ranks of positions in order are what most of
the lemmas about windows come down to (`CountsGrow`, `LastRanks`). Its other
face is `InOrder`: a sequence is a pick exactly if some increasing map lists the
positions it came from (`PickIsInOrder`, `InOrderIsPick`). Appending, joining
and filtering picks follow from that (`PickedLast`, `PickedInARow`,
`PickedAgain`).

*Repair.* An order is kept among the parts kept, so a call and its result that
are both kept have between them what they had before, and that is results alone,
or the call would be broken (`NothingBetween`). Where no call is answered twice,
one is kept exactly if the other is. So what is left is sendable
(`RepairIsSendable`), and where all was sendable every part is kept
(`SendablePassesThrough`). That no id is used twice is carried by `OnceInv`.

*Windows.* An exchange is in one group (`ExchangeIsInOneGroup`), and a window has
the whole of a group or its pinned messages, which make no calls; what a window
has of the exchange of a transcript is then in the same order
(`ReassembledIsDrawn`, `WindowIsSendable`). The cost of a window is the sum over
what it keeps (`WindowCosts`, through `PickCosts` and `CostsInARow`), so the
shallowest cut that fits is found among the costs of the groups, and the one
before it does not fit (`TokenCutIsTheFirstThatFits`, `TokenCutIsTight`).

*The loops.* A loop is the function from the count of its iterations to its
locals; that such a function exists is `LoopHasStates`, and `CountingUp` is the
only induction. For each loop there is a statement of what its locals are after
`i` messages or `k` groups: `ScannedUpTo` for repair, `SplitUpTo` for split,
`CutUpTo` for the newest-first loop. The drained set is what was open at an
intruder, the first-occurrence indexes are the least positions, `start` is the
greatest boundary so far, and the saturated remainder is the budget less what was
paid, or nought when the newest group alone went over it. Since the loops compute
what `Transcript` defines, every theorem about those definitions is about them.

*The cache.* A summary is made at a cut that leaves at least one group in view:
by groups because half of a positive window is positive, by tokens because the
newest group is always taken (`TokenCutKeepsTheNewest`). So what it covers is
settled when it is made (`CacheInv`). A view is the window, or a summary on top of
what a deeper cut leaves in view, or was superseded (`ViewInv`); every turn is
then in view or among those the summary was made from (`SummarizedTells`,
`ViewLosesNothing`), and a deeper cut is no wider (`ViewStaysWithin`).

*The file.* `AcknowledgedSurvive` is not inductive: it says nothing of a torn
tail, and the next append after one damages the file. `Durability` adds that an
open storage has the turns of its file and no torn tail, that the file is among
the images, and that every image extends what was acknowledged and has no damaged
line. Each action is one step of the proof. From the same invariant each step maps
to `DurableTranscript`: an append to `Commit`, one cut short to `CutShort`, a clear
to `Reset` or `ResetCutShort`, what syncs a header or a summary to `Settle`, a loss
of power to `PowerLoss`, and the rest to a stutter. `Keyed` says
of every image, and of memory, what `StandsFor` says of a summary, so that what is
read back after any crash is right.

*A run.* `Slots` says that at most `MaxConcurrent` more calls have begun than were
yielded and that what was yielded has finished, so the calls in flight lie in an
interval of that length. `Paired` says that an output is that of the call in its
place, whatever finished first. `Consistent` says of an agent that its tools and
definitions lie side by side and no name is there twice; registration keeps it, so
the tool that dispatch finds is the one declared. `Keeping` says where the
instruction is: in front while a request is out and nowhere else, which is what
lets it be taken off by position; what is behind it extends the transcript the run
was handed.

*A conversation.* `ConversationInv` says that the backend uses no id twice and
that the transcript of a send is, but for the instruction, a sendable one whose
part from the caller's turn on has no id in common with the backend (`Serving`).
A send starts so because any view of the backend answers no call twice, and repair
makes it sendable (`SendStarts`); a reply joins it with new ids and its results
answer it whole (`ReplyJoins`, `ResultsJoin`); any part of it that is stored leaves
the backend as it was before (`StoringKeeps`). A text is never refused because
repair takes no part of it; an approval is accepted because a window that keeps a
group has the last message, and the calls that end the transcript are in it
(`LastIsInView`).

*A call.* `Visits` says that every URL a call was sent to has the origin of the
configuration; the hop before is compared with the next one, and origins compare
transitively once the port is effective (`SameOriginIsAtHome`). `OutcomeInv` says
where an outcome comes from: it was decided here, or by the transport, or by a
status whose body was read to its end. Each property about answers, retries and
waits reads off one of the cases. Of a printed body, the ends of characters
increase, so the greatest boundary within the limit is one of them
(`CappedIsReadable`).

*What is sent.* Each builder is a sequence of pieces, one or none for each part,
put end to end, so what is on the wire at a place is the piece of some part
(`Counting`). No piece is lost, so nothing of the transcript is; texts, calls and
results keep their order. A message of results that follows a message of calls
stays behind it, since what repair leaves is sendable and no ordinary message
between two of them adds a piece (`RepairedIsAccepted`, a dialect at a time).

*A stream.* `Arrives` says that the buffer holds what was sent right after the
frames taken, and that an earlier search has ruled out only what cannot begin a
separator. No separator is found before a frame's own, since a payload is one line
and a frame's own is the first empty one; an overlap of three bytes is what CRLF
twice needs. So each frame is taken as it was sent, however it was cut.
`Telling` says that what was handed over and what is queued tell what the assembler
captured: one delta tells at most one event and captures just that, so do calls
that are flushed, `Done` is told once as the body ends, and what comes after that
only hands over.

*A streamed response.* Each dialect is taken one part of an answer at a time: its
frames lead the decoder and the assembler from one state at rest to the next, with
just what the parser makes of that part added (`StreamedResponse_proofs`). No frame
before the last part says how the answer ended, so wherever the frames stop the
status is still incomplete or the content is whole (`Settled`). `Following` says that
the decoder and the assembler of a stream are where the frames it has decoded lead,
and a closed one has what they lead to; with `Arrives`, both theorems follow. An answer
of any length is a chain of states, one for each part and in it one for each
frame; that the last is led to from the first is an induction over its positions,
by a set of them that counting up fills (`CountingUp`).

*An address.* `AddressInv` says that a configuration keeps what the calls said, in
their order and no more (`Keeps`: its lists are picks from the calls), and that
what was sent is what it makes of them. The properties read the calls, not the
configuration. Headers are the required ones and then those said (`LaidOut`), so
the greatest position of a name in any case is the last call that said it
(`LastIsSaid`), and picking the greatest positions leaves one of each
(`LastIsKept`). Whatever the configuration holds is named as a secret or was
brought by a call that does not classify it (`KeptIsOpenOrSecret`); so is each
parameter of the address, with the credential under a name that counts as secret
(`AddressIsOpenOrSecret`), and what is printed withholds these (`PrintedIsOpen`).
Both addresses have the same names in the same places (`PrintedLikeSent`), so what
is left of them without the name of the credential does too (`OthersAlike`).
`AddressSpec` takes in any call about the body, of which it knows only that it sets
`body`, `tokenField` and `defaultModel`. A step of `RequestSpec` sets those, by
`ConfigureBody`, or is one of `CallsOfTheAddress` or `Posts`, or asks something
and leaves the configuration alone: each is a step of `AddressSpec`.

### Only model-checked

- Liveness: `RunEnds`, `Drains`, `CallReturns`. The prover has no rules for
  fairness.
- What is posted: `LaterFieldsWin`, `NothingAskedIsDropped` and the two of rewritten
  schemas. Merging and schemas are recursive over trees, so nothing can be proved in
  `Request`, nor that `RequestSpec` implements `AddressSpec`, which its actions show.

## Not modelled

- Two processes over one file, and two conversations over one backend. The
  documentation leaves both to the caller.
- A file system that reorders a truncation after a later synced write.
- A `reqwest` client of the caller's own, which brings its own redirects and
  timeouts.
- The text of an error of `read_body`, which has no configuration to redact by;
  `RedactUrlIn` is that of an error of `send`.
- `Client::check`, which changes nothing: it is whether `Build` refuses.
- What a provider does with a request beyond accepting or refusing its turns.
- Parsers of responses on bodies that are not of their shape: one outcome,
  `InvalidResponse`.
- The components listed as `not_modelled` in `PROJECT.json`.
