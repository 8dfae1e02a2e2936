# mycursor in TLA+

mycursor puts a payload in front of Cursor's JavaScript bundles. The payload
sends Cursor's model requests to a local server, which answers them with the
user's own provider keys or passes them on to the official API; an extension
keeps that server running, and a CLI installs and removes the payload. Most of
the code that can go wrong does so over time: two calls that meet by an id, a
socket that does not know its destination yet, a file that is read while it is
written, a process that ends later than expected. This directory holds TLA+
modules for those parts, TLC configurations that check them on small instances,
and TLAPS proofs of the results that matter most, for every value of the
constants.

Contents: [the system](#1-the-system), [the modules](#2-the-modules),
[the runs](#3-the-runs), [fairness](#4-fairness), [proofs](#5-proofs),
[what the code does not keep](#6-what-the-code-does-not-keep),
[what is not modelled](#7-what-is-not-modelled), [the plan](#8-the-plan),
[running it](#9-running-it). Paths are relative to `src/packages/`.

## 1. The system

    Cursor's main / agent process        Cursor's renderer (no file system)
    +--------------------------+         +---------------------------+
    | payload: layers over     |         | payload: fetch, WebSocket |
    | http, http2, net, tls,   |         | follows /mycursor/events  |
    | fetch, dns, ws           |         +-------------+-------------+
    |  uplink resolver         |                       | EventSource
    |  config store ---watch---+----+                  |
    +-----------+--------------+    |                  |
                | HTTP/1.1 or HTTP/2 to 127.0.0.1      |
    +-----------v-----------------------v---------------v-----+
    | local server: multiplexer, verdict, RPC handlers,       |
    | agent sessions and turns, proxy, control routes,        |
    | knowledge store, config store                           |
    +--+----------------+----------------------+--------------+
       | providers       | official API         | ~/.mycursor/*.json
    +--v--+           +--v--+                +--v-----------------+
    | BYOK|           |api2 |                | config, providers, |
    +-----+           +-----+                | knowledge, schema  |
                                             +--^-----------------+
    extension (one per window): supervisor of   |   CLI: install,
    the server process, panel, toggle ----------+   uninstall, ...

### Inventory

For each component: the state it keeps, its operations, whom it meets, what is
hard about it, and what makes it correct. The parts in **bold** have
modules of their own.

**Agent session rendezvous** (`server/src/agent/session.ts`,
`server/src/rpc/handlers/agent-run.ts`). A map from request id to a session
with parked messages and waiting streams; a sweeper interval. `append`, `next`,
`close`, `dispose`, the sweep. Called by the RunSSE and BidiAppend handlers,
which arrive on different transports in either order, time out, and are
retried. Correct when messages and streams of one id are paired one to one,
no stream waits beside a parked message, and nothing waits or stays
forever.

**Agent turn** (`server/src/agent/turn.ts`, `providers/src/transport/http.ts`,
`server/src/openai/routes.ts`). A generator: the conversation, the round, the
pending server tool calls; below it the HTTP attempts with their back-off;
above it three consumers that write a response. Hard: the client leaves at any
moment, failures before and after something was shown, client and server tools
called in one answer, retries that did not hear an abort, a proxy that falls
silent. Correct when the response ends once and in the right way, client calls
are delivered, or named where the protocol has no message for them, and work for
a client that left stops.

**Installer** (`patcher/src/pipeline.ts`, `backup/backup-store.ts`,
`integrity/product-checksums.ts`, the CLI's install and uninstall). State is on
disk: bundles, `product.json`, a backup beside each. Plan, apply, verify, roll
back, restore. Hard: a failure or a kill between any two file system calls,
Cursor updates that replace the files but not the backups, newer toolkits.
Correct when the shipped bytes can always be had back, a failed run leaves each
bundle as it was or as shipped, an uninstall restores, and a success means the current payload is in place.

**Uplink resolver** (`interceptor/src/runtime/uplink.ts`, `context.ts`, the
layers). A cached target with its time, one shared probe, the time at which a
wait ran out. `current`, `waitForTarget`, `invalidate`. Hard: a server that
appears late, dies, or moves; requests that share a probe with deadlines of
their own; configuration changes while a probe is in flight. Correct when holds
are bounded, only the first request pays for an absent server, and stale
answers last no longer than the TTL.

**Deferred socket** (`interceptor/src/runtime/deferred-socket.ts`,
`layers/http2.ts`). A Duplex that is given out before its destination is known:
the writes that wait, the recorded settings, the attached socket. Hard: the
client writes, tunes, ends or gives up at any point of an attachment that may
fail or come late. Correct when it is an ordered pipe, answers every write and
leaves no socket behind.

**Request dispatch and upstream proxy** (`server/src/server.ts`,
`rpc/dispatcher.ts`, `rpc/handlers/*`, `upstream/proxy.ts`,
`listener/exchange.ts`). Per request: the body, whether a response began, the
upstream request. Verdict, handler (serves, declines or throws), forward,
relay. Hard: failures after the head went out, a body that was read before the
handler declined, HTTP/1.1 and HTTP/2 that end a response differently. Correct
when a response is one honest answer and the official API is asked once.

**Configuration document, stores and event stream** (`core/src/config/*`,
`server/src/control/routes.ts`, `interceptor/src/renderer/state.ts`,
`extension/src/panel/provider.ts`). One file, five writers (a person, the
server's toggle, the panel, the fallback toggle, the installer), a live store
with watcher and debounce in every process, and a broadcaster for renderers.
Hard: half-written documents, events that collapse, a renderer that connects
while a revision is published. Correct when a good revision is never dropped
for a passing bad one and everybody ends with the document on disk.

**Server supervisor** (`extension/src/server-process.ts`, `extension.ts`). Per
window: the child, a state, the shared start attempt, a `stopping` flag. Start,
adopt, wait, stop, restart, dispose, the exit handler. Hard: several windows,
servers that are slow or come up after the deadline, exit events that arrive
after the next start. Correct when nothing it did not start is stopped, nothing
it started is lost, crashes are told from stops, and a start comes back.

**Knowledge store** (`server/src/knowledge/store.ts`,
`rpc/handlers/knowledge-base.ts`). One JSON document, and a copy of it in every
server that was asked for a note. Add, update, remove, list; a call that changes
the document writes it back whole. Hard: two servers with a copy each, a damaged
file that is read as empty, a write that fails after the copy was changed, a
reply that cannot be encoded. Correct when a note that was acknowledged is kept
and no other one is lost with it.

**Protocol multiplexer** (`core/src/net/protocol-multiplexer.ts`; the listeners
in `server/src/launch.ts`). Per connection: the bytes sniffed and a timer. Hard:
the HTTP/2 preface in pieces, a timer, an error or an end with part of it read.
Correct when every connection is handed over once, with all its bytes in order,
to the right parser.

**Renderer interception** (`interceptor/src/renderer/`). A readiness verdict
with its age and one shared probe; wrappers of fetch, which retries once against
the original address, and of WebSocket. Hard: a probe in
flight when its verdict is withdrawn, a body that can be read once, a WebSocket
whose failure withdraws nothing. Correct when a failed redirect is not a failed
prompt and a dead server is left.

Interception layers (`interceptor/src/runtime/layers/`). Wrappers of Node's
networking, without state of their own apart from what the uplink and the
deferred socket keep. Correct when a request that is not captured is untouched
and one that is keeps its body and its method.

**Provider adapters and transport** (`providers/src/`). Per call: the messages
of the request, the proxy and its tunnel, the SSE parser's buffer, the fragments
of tool calls. Hard: histories that an API does not accept as they are, an
answer to CONNECT in pieces, blocks cut anywhere. Correct when the model is told
what the client said, and the turn what the model said, in order and whole.

**Tool assembly** (`core/src/tools/registry.ts`, `server/src/agent/tool-assembly.ts`,
`native-tools.ts`, `mcp-tools.ts`, `protocol.ts`). The declarations of a request
become one registry, and a call finds its way back from a name. Hard: one name
is the client's, an MCP server's, an alias and the server's at once. Correct
when a client's tool is never shadowed and a call reaches what the model was
shown.

**Routing** (`core/src/routing/`). A table of rules, a host matcher that
remembers its answers, and a router that is replaced with the configuration.
Correct when the most specific rule that claims a path decides, by the
configuration in force.

**Wire codecs and Connect framing** (`protocol/src/wire/`, `protocol/src/connect/`).
The decoder keeps the bytes of an unfinished frame. Correct when cutting a
stream into other chunks changes nothing, a cut message is not taken for a whole
one, and a client of each protocol understands what is answered.

**Schema codec** (`protocol/src/schema/message-codec.ts`). Messages by a schema
that was recovered from another release. Correct when decoding, editing one
field and encoding again loses nothing, what the schema lacks included.

**Descriptor store and schema command** (`server/src/schema/descriptor-store.ts`,
`cli/src/commands/schema.ts`, `patcher/src/schema/`). The store keeps the parsed
schema with the modification time it was read at; the command reads the bundles
and writes the document. Hard: an upgrade, a replacement or a deletion between
two file system calls of either; text that is no field table. Correct when the
server decodes with what the last extraction left, and the extraction fails
where it does not understand.

**Provider registry and model list** (`providers/src/registry.ts`,
`server/src/rpc/handlers/available-models.ts`, `agent/turn.ts`). Lookups over
`providers.json`, read at two different times: for the list and for the turn.
Correct when a turn goes to the provider the picker showed.

Web search, turn context, TLS material, VSIX packing and discovery, CLI and
status, panel webview, tests and scripts: data handling, encoding or
presentation; see [section 7](#7-what-is-not-modelled).

## 2. The modules

| part | module | abstract specification | checked by | proved in |
|---|---|---|---|---|
| session rendezvous | `SessionRegistry` | `Rendezvous` | `MCSessionRegistry` | `SessionRegistryProofs` |
| agent turn | `AgentTurn` | `TurnReply` | `MCAgentTurn` | `AgentTurnProofs` |
| tool assembly and egress | `ToolRoute` | - | `MCAgentTurn` | `AgentTurnProofs` |
| history to request | `Conversation` | - | `MCAgentTurn` | `AgentTurnProofs` |
| answer to events | `ProviderStream` | - | `MCAgentTurn` | `AgentTurnProofs` |
| proxy and tunnel | `ProxyTunnel` | - | `MCAgentTurn` | `AgentTurnProofs` |
| installer | `Installer` | - | `MCInstaller` | `InstallerProofs` |
| uplink resolver | `Uplink` | - | `MCUplink` | `UplinkProofs` |
| supervisor | `ServerSupervisor` | - | `MCServerSupervisor` | `ServerSupervisorProofs` |
| configuration | `ConfigStore`, `ConfigFeed` (extends it) | - | `MCServerFiles`, `MCConfigFeed` | `ConfigProofs` |
| knowledge store | `KnowledgeStore` | - | `MCServerFiles` | `ConfigProofs` |
| descriptor store, schema command | `DescriptorStore` | - | `MCServerFiles` | `ConfigProofs` |
| literals of the bundles | `LiteralReader` | - | `MCServerFiles` | `ConfigProofs` |
| deferred socket | `DeferredSocket` | `OrderedPipe` | `MCLocalSockets` | `DeferredSocketProofs` |
| protocol multiplexer | `ProtocolMultiplexer` | `OrderedPipe` | `MCLocalSockets` | `DeferredSocketProofs` |
| renderer interception | `RendererRoute` | - | `MCLocalSockets` | `DeferredSocketProofs` |
| request path | `RequestPath` | `HonestAnswer` | `MCRequestPath` | `RequestPathProofs` |
| RPC protocols and frames | `RpcFraming` | - | `MCRequestPath` | `AgentTurnProofs` |
| protobuf wire format | `WireFormat` | - | `MCRequestPath` | `AgentTurnProofs` |
| schema codec | `MessageCodec` | - | `MCRequestPath` | `RequestPathProofs` |
| routing | `RequestRouting` | - | `MCRequestPath` | `RequestPathProofs` |
| models, list and turn | `ModelCatalogue` | - | `MCRequestPath`, `MCModelCatalogue` | `RequestPathProofs` |

Four of the MC modules hold several parts of one layer that do not share state.
Their variable `part` says whose behaviour it is, and the others rest at one of
their initial states: the run visits the states of each part after the other,
not their product. `MCAgentTurn`, `MCServerFiles`, `MCLocalSockets` and
`MCRequestPath` are of this kind. Nothing composes across parts there; where
components do interact, a module composes them (`ConfigFeed` the stores, the
writers, the server and the renderers; `AgentTurn` the transport, the runner and
the consumers; `SessionRegistry` the registry and both handlers).

JavaScript runs one callback at a time, so an action is one run of the event
loop (a callback and the microtasks it starts) unless a module says otherwise;
what separates two actions of one request is an `await`. Where processes share
something (files, the port), an action is one system call. A definition whose
comment begins with *Faulty* is not part of any specification: it is a
plausible wrong version of the definition below it, kept to show that the
properties tell the two apart.

### SessionRegistry

One RunSSE call and one BidiAppend call make a turn; they share a request id.
`live` is the `sessions` map, `queued[r]` and `waiters[r]` the two arrays of a
session, `sweeper` whether the interval is set, `aged` the sessions older than
`sessionTtlMs`. `stream`, `append` and `taken` are where each call's handler is
and what `next()` gave it; `ready` is the check both handlers begin with.

| action | code |
|---|---|
| `Open`, `Unreadable`, `Arrive`, `Empty` | the guards of `handleRunSse` and `handleBidiAppend` before the registry |
| `Join` | `next()`: a parked message, or a waiter with a timer |
| `Park` | `append()`: the oldest waiter, or the queue |
| `Timeout` | the waiter's timer, and the `close()` the handler does on `null` |
| `Resume` | the handler with its message: serves a run request, closes otherwise |
| `Finish` | the `finally` of the handler |
| `Age`, `Sweep`, `Dispose` | the interval's tick, shutdown |
| `Reconfigure` | a schema or a model appears or disappears between the calls |

`Resume` is apart from `Park` because several request bodies can end in one
tick, before the continuation of the first promise runs. Message bytes are cut
down to whether `decodeRunRequest` accepts them; timers fire at any moment.

### AgentTurn

One turn of any of the three consumers (`ingress`). `phase` is where the runner
is, `round` the rounds of server tools, `attempt` and `deaf` the HTTP attempt
in flight and whether it was issued after the abort, `events`, `pending`,
`answered` and `handedOff` the provider's answer so far, `emitted` whether the
runner yielded anything, `reply` and `shown` the response, `finished` whether
the consumer was told `done`. `made`, `delivered`, `named` and `late` count for
the properties. The runner is pulled by its consumer, so an event, the runner's
reaction and the consumer's are one action; `ClientLeaves` comes between any
two. `Resolve` is the model lookup and the turn's start; `Issue`, `TunnelOpens`,
`AttemptAnswered`, `AttemptFails`, `Retry` and `AskFails` are `http.ts`; `Text`, `Usage`,
`ClientCall`, `ServerCall`, `StreamFails` the provider's events; `AnswerEnds`,
`ToolsBegin`, `RoundsSpent` the three ways to take the end of an answer
(`turn.ts:147-180`); `ToolEnds` one server tool. The three consumers differ in
`Finish`, `Throw`, `Show` and `Caught`.

`ClientCall` has two kinds of call: of a tool the agent protocol has a message
for, and of one it has none for, or of an MCP tool while the schema lacks the
struct types. The second reaches the agent's client as a line of text
(`AsLine`, `protocol.ts:361-385`), and counts as handed over all the same. `route`
is how the provider is reached: directly, over a proxy in the clear, or by a tunnel,
whose CONNECT is the phase `tunnel`. `FallsSilent` is a peer behind a proxy that
says nothing more and keeps the connection: no timer runs there, and only an
issued request hears the abort, so the turn may be `Held` for good.

### ToolRoute

`wanted` and `policy` are what the request and the user ask for; `mcp`,
`declared`, `owner`, `listed` and `executors` what is made of them; `sent` where
the last call went. Every loop of the code is an action per element: `ReadMcp`
(`mcp-tools.ts`, the first declaration of a name stays), `Declare` (catalogue
before MCP, and the subagent's restriction), `Seed` and `Augment` (the registry:
the client's tools, then the server's where the name is free), `CallTool` (the
server's executors, then MCP, then the catalogue with its aliases and near
misses). The model may call any name.

### Conversation

`ReadEntry` makes one chat message of one entry of the history (`protocol.ts`),
`Complete` adds the latest message and the system prompt, `Convert` takes one
chat message into the request: `ToOpenAi` (a result is a message of its own),
or `SplitSystem` with `ToTurns` for Anthropic and Gemini, whose turns must
alternate (`JoinTurn`). A part is its kind and its place, so that order and
completeness can be told.

### ProxyTunnel

One attempt, from `resolveProxy` (`IsLoopback`, `IsExempt`, `Candidates`) over
`Connected`, `BannerArrives` (the answer to CONNECT, line by line) to the head of
the response. `leg` is how far it is, `aborted` whether an abort came and
whether anybody listened, `apiSpeaks` whether what took the request ever says
something. The timeout of `http.ts:104` is armed on the connection Node makes
itself and not on one it was handed (`:105-108`), which nothing under `src/` shows:
it is Node's behaviour, and `Timed` has it. The attempts one after the other are `AgentTurn`'s.

### ProviderStream

`Receive` takes the next symbols of the body, of any number, into `unparsed`
(the parser's buffer), so that the body may be cut anywhere; `TakeBlock` takes a
block as soon as `FindBoundary` finds its end, `TakeTail` the rest when the
stream ended: the last block may lack its blank line, or its line end too
(`given.lacks`). `Consume` is the adapter's
`switch` on the payload, for the three adapters: texts pass on, fragments are
put together in `slots`, errors end it, and `FinishStream` gives the calls and
`done`.

### Installer

Files are targets (bundles) and `product.json`; a bundle is a Cursor release
with at most one payload in front (`strip` comes before `prepend`), named by
the toolkit build; a checksum is the content it was computed from. `op`, `step`
and `todo` say which call a command makes next on which file, so that a kill
(`Crash`) or a failing call (`ApplyFails`, `RestoreFails`, `ChecksumFails`) can
come between any two. `Install` is `planInstall` with `--force` or without;
`ApplyBackup`, `ApplyWrite`, `ApplyVerify` the loop of `applyPlan`;
`ChecksumBackup`, `ChecksumWrite` `updateChecksums`; `RestoreCopy`,
`RestoreRemove`, `RestoreNothing` `restoreBackup` in a rollback and in an
uninstall. Writes go through a rename and are whole; copies are not, and leave
a torn file (`TornVersion`) when cut short. Discovery goes by content, so it
finds every whole bundle and may miss a torn one (`Discovered`). Between
commands Cursor updates itself (`Upgrade`, replacing the directory or leaving
backups behind), the toolkit is updated (`NewBuild`) and backups are deleted by
hand (`DeleteBackup`); `lost` and `spoiled` remember what nobody inside the
toolkit can repair, and the properties except just those files.

### Uplink

The resolver's `cache`, `probe` (the candidates left, and when the one being
asked was asked) and `exhausted`; per request `where`, `deadline`, `wake`, the
`port` the socket layer commits to, and the `result`. Time is discrete and
passes (`Tick`) only when no timer is due. `Request` is a layer's call with
everything it does in its first tick (`current`, `awaitUplink`,
`waitForTarget`); `Wake` the end of a retry delay; `ProbeAnswered` and
`ProbeRefused` one candidate's answer, with all requests that wait for the
probe going on in the same tick (`ProbeEnds`). `Reconfigure` is the
configuration listener with `invalidate`; it does not stop a probe in flight,
which the model keeps. `Flip` is a server that comes or goes.

### DeferredSocket

The class's own fields (`connecting`, `attached`, `pending`, `endRequested`,
`destroyed`, `recorded`), the factory, the real socket, and the client's side.
`Hand`, `Final`, `AutoEnd` and `AutoDestroy` are what Node's stream classes do
around the overridden methods: one `_write` at a time, `_final` after the last
write was answered, `allowHalfOpen` false. `FactoryResolves` is the attachment
(`attach`, the replay of settings), `Ready` what happens once there is a
connected socket, `Connects`, `SockError`, `SockClose`, `Data`, `PeerEnd` its
events, `ClientSets` the tuning calls. The factory's decision between the
server and the official API is `Uplink`'s `Outcome`.

### ProtocolMultiplexer

Bytes are numbered. `Sniff`, `SniffTimeout`, `EndWhileSniffed` and `SocketError`
are the four listeners of a connection that is not told apart yet; `HandTo` is
`hand`: the bytes put back, the listeners taken off, the resume of the next tick
(`Resume`). `HandByAlpn` is the TLS way. `Flow` is Node: a flowing socket gives
its reader what was put back, then what is in the kernel, then the end. The
bytes put back are part of the state, so one lost, doubled or out of place is
seen.

### RendererRoute

`Fetch` and `Connect` are the wrappers at the moment of the call: by a verdict
that is known and fresh (`Known`), or waiting for the shared probe (`Probe`).
`ProbeAnswered` is the server's answer, `ProbeSettles` the moment the page sees
it and writes the verdict; an invalidation can come between. `RedirectFails`
withdraws the verdict and retries where the body allows, `Refused` is the same
with the server down.

### RequestPath

One captured request: what was asked (`request`, with the kind of path, the
upgrade and whether a local answer needs HTTP/2 trailers), its `body`, the
`stage` of the promise `handle` returns, the response (`answer`), and the
request upstream (`upstream`, `given`, `asked`, `fetched`). `Verdict` is
`server.ts` and the dispatcher up to the first await, one disjunct per way out;
`Handler` the handlers and what the dispatcher does when they decline or throw;
`OfficialApi` the callbacks of the upstream request, for `fetch` (the model
list) and `forward` (everything else). `SendJson`, `SendAnswer`, `BeginStream`,
`WritePart`, `EndStream` are the methods of `exchange.ts`, with a second head
refused and trailers over HTTP/2 sent where the stream is not ready for them.
A turn inside this path is `AgentTurn`'s; here it is a stream that begins,
grows and ends. Headers, bodies and the status counters are left out.

### RpcFraming

One call of one of four protocols. `Understood` is what the server makes of the
content type and of the body, `UnaryResponse`, `ErrorResponse`, `StreamMessage`
and `CloseStream` what it writes (`Envelope`, `StreamEnd`), with gRPC's trailers
that are sent too early (`exchange.ts:195`). A stream over unary Connect is
written bare, and nothing tells two of its messages, or one and a failure, apart
(`Blurred`). The client takes the body in chunks
cut anywhere (`TakeChunk`, the incremental decoder of `envelope.ts`: `TakeFrame` is
one turn of its loop, `Drained` the whole of it).

### WireFormat

`EncodeFields` is the writer: varints, fixed words, length-delimited bytes.
`ReadField` is one turn of the reader on a message of which any prefix may have
arrived; `ReadFails` its errors. `Left` is the writer's shift (what remains of a
number behind so many digits), `Joined` the reader's (the digits put together).
Bytes and words are scaled: a group has `Group` values instead of 128 and a word
`WordSize` instead of 2^64, so that the largest, the negative and the over-long
numbers exist. `WellFormed` is what a caller can give the writer: a field number
from 1, a number that fits its type, bytes.

### MessageCodec

`Decode`, `EditField`, `Encode`: the object the handler sees is `value`, with the
raw fields it kept. `TakeField` is the loop of `decodeMessage`, `ApplyDecoded` the
switch on the descriptor (single, repeated, packed, map, nested, or a type the
schema lacks), `EncodeField` its inverse.

`decodeMessage` and `encodeMessage` call themselves for a nested message. A
RECURSIVE operator cannot be proved about, so the inner call is a constant
operator: `DecodeInner`, `EncodeInner`, and `InnerMeaning` for the reader.
`NestingAssumption` says that each does to a message of `Messages` what the outer
operator does, which is what the code's call of the same function is; the
configuration gives them those very operators, so TLC runs the recursion. The
model has no fuel and no bound on the nesting: `Depth` only bounds the messages
the property speaks of (`Kept[Depth]`), and may be any number.

What a message means to a reader (`Meaning`) follows the rules of protobuf and
not the codec. A text is a sequence of pieces, two kinds of which a decoder
minds: `DecodeText` drops a leading byte order mark and replaces what is not UTF-8,
as `new TextDecoder()` does (`message-codec.ts:167`). The codec does change some
messages (`Changed`: such a text where the schema has a string, map keys included,
an enum beyond 2^53, that is a negative one, an enum in a map, a nested message sent
in several parts, and what else an entry of a map has than its key and value);
`RoundTrip` is about all others, at every level.

### RequestRouting

`ParseRule` and `Compile` are the rule list, `Match` the precedence, `Resolve` the
router's decision, `Remember` the host matcher's memory with its limit
(`CacheLimit`), `Recompile` what a new configuration does to all of it. Texts are
sequences of tokens.

### ModelCatalogue

`EditProviders` is a person at `providers.json`; `Revised` the server that made a
registry of it; `ListModels` the list a client gets (`WithOurs` over the official
one), `ListElsewhere` the list while the mode is off; `Turn` a turn on a model
that was picked, by the registry of that moment.

### ConfigStore and ConfigFeed

`ConfigStore` has the file, its five kinds of writer, and a store in each
process: `up`, `watching`, `events` (names the watcher has yet to report),
`timer` (the debounce), `active` and `counter` (the revision). A document is
three fields that different writers own, `byok`, `web` and `rest`; reading it
is one step, writing it in place is two (`HandBegin`, `HandFinish`), between which
the file may be missing or `Damaged`, half written or with a mistake in it; and the
panel's read and write are two (`PanelSave`, `ExtWrite`). `Reload` is the
retention of the last good revision; the number a retained reload took is given
back, as in the code. `ConfigFeed` extends it with the broadcaster and the
renderers: `React` is what any step of the above does to the streams,
`Connect`, `Deliver` and `Drop` the renderers' side. A renderer that was
reloaded starts from the configuration baked into its bundle.

### KnowledgeStore

`noteFile` is the document on disk, `holder[s]` a server and its copy. A call is
one step, because nothing else runs in its process between the read and the
write: `AddNote`, `UpdateNote`, `RemoveNote`, `ListNotes`, each of them reading
the file first if its server has not yet (`Loaded`). `SaveNotes` may fail after
the copy was changed; `Told` may fail to encode the reply, so the caller does
not learn of a success. `EndServer` and `DamageNotes` are what happens to it.
`told`, `lost`, `unsaved` and `stale` record what the callers know and what could
make it untrue, for the property.

### DescriptorStore

The server's reload is the calls it makes on the file system, one step each
(`RefreshIfChanged`, `ReloadSchema`, `ReadDocument`, `NoteTime`: stat, exists,
read, stat), and so is the
command (`RunSchema`, `Extract`, `WriteDocument`, or `EndWithoutWriting` at any of
them). `Upgrade`, `Damage` and `Delete` come between. A document is told from
another by its modification time.

### LiteralReader

One step reads one token (`ReadKey`, `ReadValue`, `CloseLiteral`); `TakeSite` is the
scan for the matching bracket that the reader is then held to (`MatchBracket`,
`SkipString`). `Written` is the bundler's side: what a value looks like in a
bundle, with its spaces and trailing commas; a value inside of another is written by
the constant `WriteInner`, which the run sets to `Written` itself. A text that is
none is any short text of the characters the scans tell apart.

The two scans do not read alike everywhere. The reader takes whatever follows a `!`
for a digit (`Negates`), and a call's argument up to the parenthesis that matches,
whatever brackets of another kind are in it (`Hides`): `[a([)]]` is matched to its
last bracket and read to the one before. A literal that is accepted then ends before
its span does, which `MovesOn` has to allow; nothing a bundler writes is of that kind,
and the run has such texts among those that are no table.

### ServerSupervisor

Per window `child`, `state`, `stopping`, `flight` (the shared attempt: first
probe, pause, later probes), `seen` (what the port answered) and `restarting`;
per process its life, its parent, whether it was sent SIGTERM and whether its
exit event was handled. A probe is two steps, the moment the port answers
(`ProbeAnswered`) and the moment the window goes on with it (`Adopt`, `Launch`,
`Ready`, `NotYet`), because a stop or an exit can come between. `Check` and
`GiveUp` are the loop's head and its deadline, `Halt` is `stop()` as stop,
restart and deactivation use it. `Binds` and `Ends` are the server processes;
`ExitHandled` is the exit handler, which forgets whatever child the window
holds by then, the one that ended or a later one.

`calm` records that nothing has gone against what the supervisor assumes:
servers answer a probe within a second and come up within fifteen, an exit
event is handled before the next start, and no two windows start servers at
once. Two of its promises hold only then, and say so.

## 3. The runs

Every property of every passing run is refuted when one definition is replaced
by its *Faulty* neighbour (`PROJECT.json`, `mutants`).

| run | what it checks | result |
|---|---|---|
| `session` | `NoMissedMeeting`: never a parked message beside a waiting stream. `ImplementsRendezvous`: every step is one of `Rendezvous`, so a stream gets one message of its own id and a message goes to one stream, whatever the timers and the sweeper do; which of several the code takes, the oldest, the contract leaves open. `NothingStays`: no stream waits and no session stays for ever. | holds |
| `turn` | The turn: `NoNewWorkAfterClose` (after the agent's client left no provider is asked again, one tool at most is begun, only the retries of the call in progress go out), `CallsReachClient` (a response that ended well carries every client call, as a call or, on the agent stream, as a line that names the unknown tool), `DoneIsLast`, `TurnEnds` (unless a silent proxy holds the turn and no abort was heard) and `ImplementsReply` (one end, no protocol error after something was shown). The tools: `OfferHolds` (a client's tool is never shadowed, and a call reaches the tool the model was shown). The history: `TalkConveyed` (the request alternates where the API asks for it and says all the client said, in order). The connection: `TunnelSettles` (the proxy that should be used, nothing written before it agreed, no response after an abort that was heard, and an end unless the proxy never ends its answer, or what is behind it is silent). The answer: `AnswerFaithful` (what the provider said, in order, calls whole, however the bytes are cut). | holds |
| `installer` | `BackupsPristine`, `Recoverable` (the shipped bytes are in the file or its backup), `UndoRestores` (a rolled-back run leaves each bundle as found or as shipped and `product.json` as it was, an uninstall what was shipped), `InstalledIsCurrent` (a success means the current payload, also after interrupted runs). | holds |
| `installer_checksum_failure` | `FailureRestores`: "Applies a plan, restoring every file it touched if any step fails" (`pipeline.ts:112`). | violated |
| `uplink` | `HeldBounded` (no request waits longer than the budget and a round of probes), `OnlyFirstPays`, `FollowsServers` (no server that is gone, or of an older configuration, is used beyond the TTL; one that came back is used within a TTL and a round of probes). | holds |
| `supervisor` | `ChildrenAccounted` (while `calm`, a window knows of each server it started whether it lives, was stopped or crashed), `StartReturns` (always). | holds |
| `supervisor_two_windows` | `NeverSecondServer`: "it never starts a second server" (`server-process.ts:9`): no window launches one while another comes up or serves and every probe so far told the truth. | violated |
| `config` | The configuration: `LastGoodKept`, `CaughtUp` (a connected renderer that got all that was sent routes by what the server has active), `RenderersConverge` (and ends with the document on disk). The notes: `NotesKept` (what was acknowledged is in the file or in a server that could not write it, unless it went with a damaged file, the end of such a server, or a write by a server that had read the file before). The schema: `SchemaFollows` (a request that met one file throughout is served from it; a document of the installed release was taken from that release). The literals: `LiteralsRead` (every step moves on; what a bundler wrote is read as it was written; what is accepted ends where its brackets match, unless a `!` negates something else or a call holds brackets that do not pair). | holds |
| `config_save_torn` | `SaveKeepsRest`: the panel's guide says a Save leaves the rest of the document alone; the document that is written over is the one it read, or what a person would read there. | violated |
| `socket` | The deferred socket: `ImplementsPipe`, `NothingLeftOpen`, `WritesAnswered`. The multiplexer: `HandedWhole` (it implements `OrderedPipe`, with the right parser unless the client was slower than the sniffing, and what was written is passed on). The page: `GivesWay` (a failed redirect is not a failed call where the body allows it, nobody waits for ever on a shared probe, a server that is gone for good is left). | holds |
| `request` | The exchange: `AskedOnce`, `ImplementsHonestAnswer`, `Settles` (the exchange ends, or waits on a turn). The protocols: `AnswerUnderstood` (the client takes the messages for what they are, in order, and learns how the call ended, except over gRPC and of a stream over unary Connect). The bytes: `WireFaithful` (what is read is what was written, and a cut message is never taken for a whole one). The codec: `RoundTrip` (decode, edit, encode loses nothing, but for the messages of `Changed`). The router: `RoutedByConfig` (a decision is that of the configuration in force). The models: `PickedIsServed` (a turn goes to the provider the list named, unless the document changed in between). | holds |
| `own_models_refused` | `OwnModelsStay`: "switching BYOK on does not take away the models the user already had" (`available-models.ts:15`). | violated |

The runs `turn`, `config`, `socket` and `request` check several parts, one after
the other ([section 2](#2-the-modules)). A property of one part holds of the
behaviours of the others because that part rests there at an initial state.

### Bounds, and why they are enough

- `session`: three streams, two of them on one id (a retried RunSSE), a run
  request and another message on that id. Pairing involves two messages and two
  waiters of one id; the third stream shows that ids do not disturb each other.
  The safety part is proved for any number.
- `turn`: two rounds instead of six, so that a follow-up round has a
  predecessor and a successor; the three attempts of the code; answers of three
  events, enough for one answer to hold text or usage, a client call and a
  server call in any order. Proved for all values, liveness apart.
- `installer`: two targets, one of them listed in `product.json`; two releases
  and two builds, so that a file can be fresh, patched, patched by an older
  build or newer than its backup. `MaxHarmed = 0` means that one act of harm
  (a deleted backup, an upgrade that leaves backups, a torn backup) happens,
  and no second one after it; every command may still be killed or fail any
  number of times. Proved for any number of each, and for any harm.
- `uplink`: two ports, two configurations (one holds requests and tries both
  ports, one passes them through and names one port), one request through each
  kind of layer, two changes. With a TTL of 2 and the other times 1 a probe, a
  retry and an expiry all come apart; at time 7 the longest property (a TTL, a
  round of probes and one more) has had room after the last change. Proved for
  any requests, ports, configurations, changes and times.
- `supervisor`: two windows are a race; two processes besides the one from a
  terminal are an old and a new server, which is what late exits and second
  starts need. `Spare` keeps commands from running out of processes in the
  middle of a start. `ChildrenAccounted` is proved for any number of both.
- `config`, the feed: two writes (each with its two halves) and two lost streams
  or restarts, one store and one renderer. Stores do not see each other, and
  renderers do not either, so a second of a kind adds no behaviour; what two
  stores could disagree about is proved for any number of them.
  The notes: two servers, two notes, two calls that are no addition, entries of
  one repository and of all: enough for a stale write, a removal and a list. Proved for
  any number of each.
  The schema: four documents and two releases: a document from before the
  server's load, one within it and one after, and an upgrade between any two
  calls; proved for any number of both. The literals: field tables of every construct the generator emits, with
  brackets and quotes inside strings and calls; every text of two characters
  between brackets, calls that hold a bracket, and one beyond each limit (depth 3 for the code's, span 50,
  strings of 8).
- `socket`: three chunks written: one that waits for the socket, one after it,
  and one more; two read. Proved for any number, liveness apart. The multiplexer:
  a preface of three bytes and up to five written, so that it comes in any
  pieces with bytes behind it; the page: two calls, of every kind, that share a
  probe. Safety is proved for any preface, any bytes and any calls.
- `request`, the exchange: answers of up to three parts, of every kind of path.
  Proved for any number of parts, liveness apart.
  The protocols: bytes of four values and a length of two, answers of two
  messages, the longest of which needs both. The bytes: groups of four values,
  words of 32, messages of two fields and all their prefixes: a number of one, of
  several and of too many groups. The codec: one field of every kind, texts that are
  clean and that are not, two wire fields, which is what replacing, repeating and
  merging need, and messages two
  deep (`Depth`), so that a nested one holds fields the schema lacks and one more
  message; proved for any schema, number of fields, width and depth. The router:
  two configurations of rules with overlapping claims and of lines that are
  none, a memory of one host, so that it is evicted; proved for rules and paths of
  any length and any hosts. The models: providers that
  are off, without a key, with an id twice and with one of Cursor's; one edit; proved
  for any.
- `turn`, the tools: a name that is Cursor's and the server's, one that is an
  alias and an MCP tool's, one near miss, one that is only the server's. The
  history: up to three entries, which is what consecutive results need; proved for
  any number. The tools and the connection are proved for any lists and replies. The
  connection: local, exempt and other hosts and some that only look it; answers
  to CONNECT that agree, refuse, hold the number elsewhere, or are cut short. The
  answer: three blocks of every kind, both line ends, a last block that lacks none,
  one or two of its line ends, two parallel calls (`ParallelCalls`) of which one
  comes in fragments; proved for any number of blocks and calls.

`CHECK_DEADLOCK FALSE` is set where the system really may stop: all calls are
answered, the turn is over, the exchange is finished, nobody writes or issues a
command any more, and in `uplink` the clock has reached `MaxTime`. The
installer's runs are checked for deadlock: another command can always be run.

## 4. Fairness

What must happen is only what the code or the runtime makes happen. Nobody has
to send a request, issue a command, save a file, start or crash.

- `session`: timers that are set fire (`Timeout`, `Sweep`), continuations run
  (`Resume`), sessions get older (`Age`). No fairness for clients, turns or
  operators.
- `turn`: `WF(~Held /\ Step)`. The runner is never idle: a direct provider call has
  a timeout, a pause a timer, a server tool a timeout of its own. A wait on a peer
  behind a proxy that fell silent is owed nothing, unless the abort reached it: the
  property then ends in the turn's end or in that wait. The connection's own steps
  and its timer (`WF(Moves)`); a proxy need not answer CONNECT, and a request that
  went through one is owed an end only if the API speaks. Each is owed in
  behaviours of its own part only, as a part that rests could not take it.
- `supervisor`: the steps of an attempt go on (`WF(Supervise(w))`); the
  deadline is looked at between two probes only, so it is enabled again and
  again rather than for ever, hence `SF(GiveUp(w))`. A server that was started
  comes to bind or end, one that was sent SIGTERM ends, exit events arrive.
- `config`: watch events are reported, debounce timers fire, an EventSource
  reconnects by itself, and what was sent over an open stream arrives. The
  server need not be restarted: the property speaks of a server that is up.
  Nobody has to call the knowledge base, ask for the schema or extract it, and
  the reader's promise is about every step it takes.
- `socket`: the factory settles (its wait has a budget, `Uplink`'s
  `HeldBounded`), a connecting socket connects or fails, a connected one takes
  what is written, Node does its part. The peer need not send or end.
  The multiplexer's timer fires and its resume runs, and a socket that flows gives
  what it has; a probe of the page is answered or its time is up, verdicts grow
  old, and the calls of a page that fail or wait go on. No call has to be made,
  no client has to write.
- `request`: the server's own steps run; upstream answers, closes, or its
  timeout fires; a client that stays sends its body. Not the steps of a turn
  (`InTurn`): one that a silent proxy holds never answers, so an exchange may wait on
  a turn for good, and `Settles` says that it waits on nothing else. On HTTP/1.1 the last is
  enforced by Node's `requestTimeout`; on HTTP/2 it is an assumption. The other
  parts claim safety only.
- `installer` and `uplink` claim safety only. `uplink` states its promises with
  times, so that "eventually" is not needed.

## 5. Proofs

TLAPS proves the following for every value of the constants that meets the
named assumptions of the modules: `SessionAssumption`, `TurnAssumption`,
`ToolAssumption`, `TunnelAssumption`, `ConversationAssumption`,
`InstallerAssumption` with `NoFileAssumption`, `UplinkAssumption`,
`SupervisorAssumption`, `ServerAssumption` and the two `BoundsAssumption`,
`MuxAssumption`, `PartsAssumption`, `CatalogueAssumption`, `RouteAssumption`,
`FramingAssumption`, `WireAssumption`, `StreamAssumption`, `CodecAssumption`,
`SchemaAssumption`, `MessagesAssumption`, `NestingAssumption`, `LiteralAssumption`.
TLC evaluates them in every run, with the assumptions of the modules without
theorems. They say no more than the types of the constants: which calls carry
which id, that a limit is a number, that the server is one of the stores, that
no port has the name of an outcome and no process that of nobody, that a user
cannot send a call or a tool an image, that a message fits its length field and no
field has the number 0, that a call of an answer has one of its indices, that fields are what the writer can be given
and that the reader follows as many groups as a word needs, that a schema
describes a field number once, that a sender uses the form the schema gives a
field, that what is edited is a single scalar, and that an anchor leads to a text
that begins with a bracket. The one that says more is
`NestingAssumption`: that the inner call of a function that calls itself is a
call of that function ([MessageCodec](#messagecodec)).

**SessionRegistryProofs**: `TypeCorrect`, `MeetingNeverMissed`,
`WaitersReachable`, `SweeperAlwaysArmed`, `EachParkedOnce`,
`RegistryImplementsRendezvous`. The inductive invariant adds to
`NoMissedMeeting` that every waiting stream is listed once, in a live session
(`WaiterReachable`), that every listed stream waits for that id (`WaitersWait`),
and that the sweeper is armed while a session exists. Without the first, an
append could give its message to a stream that left; without the last, a parked
message could stay for good, which is what the sweeper is for. The refinement
maps each step to one of `Rendezvous` or to none: what it needs besides is that
a queue holds messages of its own id, each once and acknowledged (`ParkedOnce`),
since a message parked twice would be paired twice.

**AgentTurnProofs**, the turn: `TypeCorrect`, `ClientGoneWorkStops`, `DoneComesLast`,
`CallsAreDelivered`, `HandOffIsFinal`, `TurnImplementsReply`. The invariant says how the tally of
late work depends on the phase (`LateWork`: retries are fewer than the attempts
so far, a late tool is the last thing), that a client's call was made in the
answer being read or the turn is over (`HandedOver`), and what the response can
be while the turn runs (`ReplyOpen`: nothing is shown before something was
yielded, the buffered endpoint shows nothing). The last is what makes each step
a step of `TurnReply`: a failure before `emitted` may be a protocol error,
because nothing can have been shown.

The tools: `OfferIsHeld`, for any catalogue, MCP tools, aliases, restriction and
policy. The invariant follows the assembly (`Progress`): while the client's tools
are taken the registry has exactly the declared names worked through, each with
the first tool that had it, and from then on all of them; that each name is
listed once and with a tool of that name (`RegistryHolds`); and where a
declaration can come from (`DeclaredFrom`, `McpNamed`). A call looks its name up
in another order than the declaration did, and the theorem says for which names
the two agree.

The connection: `WrittenToTheRightPlace` and `AbortsHold`, from an invariant that
says which legs a call can be on (`OnItsWay`), that only what was agreed to was
written (`AgreedFirst`), and when an outcome is known (`ComesOut`).

The history: `TalkIsConveyed`, for any history of any length and the three APIs.
The invariant says that the chat messages are those of the entries read, with the
prompt before and the latest message behind (`Reading`, `Converting`), and that
what the request says so far is the meaning of the messages converted so far, one
after the other; each `Convert` adds the meaning of its message, whether it
appends a turn, extends the last one, or goes to the system prompt. The last
needs that the prompt is the first message; the OpenAI form, which joins the
texts of a message that calls, needs that no such message has an image.

The frames: `AnswersAreUnderstood`, for messages and answers of any length and a
body cut anywhere. The invariant says what the answer is so far, frame by frame,
and that the bytes held and those still to come are the bytes of some frames
which, behind those already decoded, are the answer's (`FramedAnswer`); and that
no whole frame waits. It is needed because the theorem speaks of what was decoded
and the decoder only ever sees bytes. The frame that stands whole at the head of
those bytes is the first of those frames, whatever follows (`HeadTaken`), so each
turn of the decoder's loop keeps it (`MidwayOn`), and after as many turns as there
are bytes no whole frame is left (`DrainedRight`). Over unary Connect there is nothing
to decode: the body is the message, or the code is the status, or the stream is
blurred (`PlainAnswer`).

The bytes: `WireIsFaithful`, for any well-formed fields, any number of them, a
message cut at any byte, any size of a group and of a word. The invariant,
`WireInv`, says that the reader stands right behind the fields it has read, that
those are the first of the fields written, and that it has failed only where the
message is cut. So what lies before it is the next field as far as it is there
(`Standing`). The digits a number is taken apart into come together to it again
(`LeftPlaced`, `PutTogether`), the byte that ends a varint is the first without the
bit (`VarintRead`), and so each read finds the value behind which it goes on, or
fails because bytes are missing (`Found`: `FixedRead`, `BytesRead`, `PayloadRead`,
`FieldFound`).

The answer: `AnswerIsFaithful`, for any number of blocks and of calls, either line
end, and a body cut anywhere. The theorem speaks of blocks and the parser sees
symbols, so the invariant, `AnswerInv`, says that while the answer is read the
parser is right behind some number of blocks (`Waiting`) and that what it gave the
turn and what is put together in the slots is what those blocks say (`Told`). Where
each block lies in the body is known (`BlocksLaid`), so the first blank line in the
buffer is that of the next block, and is found only when all of it is there: half
of a CRLF blank line is none (`BoundaryFound`). A step then takes exactly that block
(`BlockTaken`, `TailTaken`), and what the adapter does with it is what one more block
adds to the meaning (`OneMore`, `OneMorePart`, `Consumed`). At the end the slots, in
the order of their indices, are the calls that were begun (`CallsMeant`).

**InstallerProofs**: `TypeCorrect`, `BackupsStayPristine`, `AlwaysRecoverable`,
`InstalledStaysCurrent`, `UndoneIsRestored`. A backup stays free
of the toolkit's own work because no file is written before it is backed up;
the invariant needs that in the other direction (`BackedUp`: a file with a
payload has a backup, unless that backup was deleted) and where a command can
be (`Progress`: before a write there is a backup, and before a backup is
removed its file is clean). On that rests a second invariant, `Achieved`, of
what every command has done so far. Each file that is not spoiled has a way back
(`Sound`): its backup is what the release ships, or it has none and is that
itself but for a payload; and a backup is only removed from beside its copy
(`Copied`), which is why `restoreBackup` copies first. The targets an install has
dealt with are current (`Installing`), what it has touched can be put back, or is
as shipped again, and the rest and `product.json` are as they were (`Undoing`), and what an uninstall has dealt with is as
shipped or the outcome says otherwise (`Uninstalling`). All of it holds for any
number of targets, releases, builds and failures, whatever the harm bound.

**ConfigProofs**: `TypeCorrect`, `NumbersGrow`, `LastGoodRetained` for
`ConfigStore`; `FeedTypeCorrect`, `FeedCaughtUp`, `FeedKeepsLastGood` for
`ConfigFeed`. `NumbersGrow` needs that the counter is the active revision's
number (`Counted`), because a retained reload takes a number and gives it back.
`FeedCaughtUp` follows from `FeedInv`: the last element of a stream, or the
view where the stream is empty, is the server's active document.

The schema: `SchemaIsFollowed`. The server and the command make their calls with
anything in between, so the invariant says what each knows after each call: a
modification time belongs to one document (`TimesTellApart`), a request that saw
no change holds the time and the registry of the file it will serve
(`RequestKnows`), and no document names a release later than the one its bundles
were of (`NamedNoLater`).

The notes: `NotesAreKept`, for any number of servers and calls. What a caller
was told is in the file or in a server that failed to write it
(`SomewhereNoted`), and a server that is not behind finds all of the file
(`FindsTheFile`). A write replaces the whole file by one copy, so the proof of
each call is about all the other notes.

The literals: `ReaderMovesOn`, for any text, tables, and bounds. The invariant
(`ReaderInv`) follows two scans of one text. Every open literal was opened at a bracket
before the place the reader is at (`Nested`), so what is read lies in the text; and
the scan for the first bracket's partner comes by every place where the reader stops
between two tokens, with as many brackets open as open literals are of the first one's
kind (`Followed`, `OnPath`, `Levels`). So the bracket that closes the outermost literal
is the one that closes the scan. It rests on what either does with a token: a string
is passed over as it is read (`StringEnds`), keys, blanks and scalars have no brackets
(`PlainMarks`, `ScalarPath`), a call whose brackets pair is passed with as many open as
before (`PathShift`), and what is cut off behind the match changes nothing before it
(`MatchedPart`).

**UplinkProofs**: `TypeCorrect`, `HoldsAreBounded`, `OneRequestPays`,
`DecisionsFollowServers`. What is known of the past is kept in three places: the
probe in flight, the cache and `exhaustedAt`. The invariant says of each how old
it can be and what was true when it was made: the candidates a probe no longer
asks did not answer when they were asked, or the probe began before they came
(`ProbeInv`, `BegunBy`); a negative answer in the cache, and a failed wait, mean
that no server up now had been up for a round (`CacheInv`, `ExhaustedInv`,
`Denied`); a request waits on a probe it joined within its budget (`WaitInv`);
and a wait that failed is remembered until something changes (`FailedWait`). The
bounds of the three properties are sums of these ages.

**ServerSupervisorProofs**: `TypeCorrect`, `ChildrenKnown`, `OneServerWhileCalm`.
A window has three fields to know its processes by: `child`, `stopping` and the
state of its attempt. While `calm`, every process of an open window whose exit is
still to come is its child, or was stopped and the window says so (`HoldInv`). A
start could break that in two ways: while an older child still comes up, which
the attempt in flight excludes (`Waits`), and while another server has the port
and the probe did not see it, which needs two servers alive (`OneAlive`) or the
one from the terminal (`TerminalGone`). Everything that ends `calm` is needed;
[section 6](#6-what-the-code-does-not-keep) shows what happens without it.

**DeferredSocketProofs**: `Invariance`, `NeverLeftOpen`,
`SocketImplementsPipe`. The invariant says that before there is a connected
socket at most one write waits and nothing was sent (Node hands over one write
at a time), and afterwards what was sent is the first `handed` chunks, then the
end (`Sending`); and which states the socket can be in (`Sockets`). `OrderedPipe`
then follows step by step.

The multiplexer: `MuxImplementsPipe`, `ChosenRightly`, for a preface of any length.
While it is undecided, what was read is the first bytes, fewer than the preface
(`Undecided`); afterwards the parser's bytes, then those put back, then those in
the kernel are all of them in order (`InFront`). The three listeners that can
decide, and the error that means nobody will, each keep that.

The page: `RedirectsAreHarmless`. A call waits only while a probe is under way,
and a WebSocket never does (`WaitsForAProbe`).

**RequestPathProofs**: `TypeCorrect`, `NeverAskedAgain`, `ResponseIsHonest`.
The invariant (`Written`, `Counted`) says that nothing is written before the
stages that write, that a relay has shown exactly what upstream gave, and how
often upstream was asked at each stage. The refinement is the point: in each
error path either no head went out, and one answer is sent, or the connection
is destroyed.

The models: `PickedModelsAreServed`. As long as nobody edited the document since
the list was made, the registry was built from it, and what the picker shows of
the user's own models is what a turn will find (`ReadAsShown`).

The router: `RoutedByTheConfig`, for rules, paths, hosts and tables of any length.
The invariant is small (`Remembers`: the host memory says what the configuration
says; `Decided`: the last decision is the one it calls for); the work is in the
lemmas about the rule table, from the texts up: parsing a line and normalising a
path give the same claims (`MatchFacts`), and the table's candidates, tried from
the longest prefix down, come to the most specific line that claims the path, the
first where there are two (`SameOffers`, `PrefixOffers`, `CandidateFacts`).

The codec: `CodecRoundTrip`, for any schema, any widths, messages of any number of
fields and nested to any depth. The invariant, `CodecInv`, is short: the object is
what came, decoded, with the edited field set, and what goes on is that object,
encoded. The work is to show that nothing is lost on the way. Each scalar comes
back with its meaning (`ScalarKept`: sign, zig-zag and the 2^53 of a number, by the
arithmetic of quotients and remainders; `TextKept` for a text that is clean). Decoding takes one wire field after the
other, and after each the object says what the wire fields so far say (`Agrees`,
`HoldsOne`): a list is longer by the elements of the field (`SameList`), a map has
the entry at its key (`SameEntry`), another field has the latest value
(`SameOne`). Encoding writes each field so that it is read the same (`WrittenAs`:
`RepeatedWritten`, `PackedWritten`, `MapWritten`, `OneWritten`), and mixes no two
of them up (`MessageOnWire`). Together that is one level (`Level`), with an edit
or without; the levels are an induction over the depth (`KeptSteps`,
`KeptRestored`), in which a message is kept if the codec does not change it and
keeps those inside it (`SentFine`).

### How induction is done

The prover cannot use the library's induction principles, which take a
predicate as a parameter. Where a proof is by induction all the same
(`RequestRouting`, `Conversation`, `RpcFraming`, `WireFormat`, `ProviderStream`,
`MessageCodec`, `LiteralReader`), the predicate is a set: the numbers, or the
sequences, that have the property. The least number outside the set, which exists
because `<` is well-founded on `Nat` (`WFMin`), gives the contradiction
(`Inductive`, `SeqInductive`). That a recursive function has the values its
definition says is proved in the same way (`Recursion`, `Agreement`; `RunsOn` for
one on all of `Nat`, `Chosen` for one that is a step after the other). These modules are written with such functions for this
reason, and `FlattenSeq` of the community modules is unfolded to one (`FlattenUnfolds`).

### Model-checked only

Liveness (`NothingStays`, `TurnEnds`, `StartReturns`, `RenderersConverge`,
`WritesAnswered`, `Settles`, and the liveness in `TunnelSettles`, `HandedWhole` and
`GivesWay`) is outside what the prover does; the safety parts of the last three
are proved. Of `LiteralsRead` the last part stays with TLC too, that a table is read
as the value it was written from: it speaks of what `Written` does all the way down.
Every invariant of a passing run is proved.

## 6. What the code does not keep

Four statements of the repository are refuted by a run.

1. `patcher/src/pipeline.ts:112` says that a failing step restores every file
   touched. `updateChecksums` is called outside the `try` (line 173): when
   `product.json` cannot be read, backed up or written, all targets stay
   patched. Run `installer_checksum_failure`.
2. `extension/src/server-process.ts:9` says that it never starts a second
   server, and line 69 that several windows share one attempt. The attempt is a
   field of each window's supervisor: a window that opens
   while the server another one started is still coming up truthfully finds nothing
   and starts a second one; the port decides, and the exit of the loser is taken for a
   crash. Run `supervisor_two_windows`.
3. `docs/配置面板.md:122` says that a Save of the panel leaves the rest of the
   document alone. When the document does not parse as it is read, half written or
   with a mistake in it, `panel/provider.ts:116` takes the defaults and saves them:
   the routes, ports and hosts that stand in the file are gone. Run `config_save_torn`.

4. `server/src/rpc/handlers/available-models.ts:15` says that switching BYOK on
   does not take away the models the user already had. With any provider
   configured every turn is served locally (`agent-run.ts:91`), and a turn on one
   of Cursor's own models, which the list still shows, ends in an error
   (`turn.ts:92`). Run `own_models_refused`.

Other behaviour met while modelling, which the models contain and no property
forbids; a maintainer may want to know:

- Session: after RunSSE timed out and was forwarded, the run request that
  comes late is parked locally and acknowledged, so each half of the turn went
  elsewhere. A first message that is no run request closes the session.
- Turn: only the usage of the last answer reaches the client
  (`agent-run.ts:151`). A usage event counts as something yielded, so a failure
  after it is reported inside the stream though nothing was shown
  (`turn.ts:148` and `:84`). A call of a tool the agent protocol has no message for,
  or of an MCP tool without the struct types, is a line of text on the agent stream
  (`protocol.ts:369-376`); it counts as the client's, so the turn ends well without
  it, the server calls of the same answer unanswered (`turn.ts:154`).
- Installer: rolling back a refresh restores the shipped file, not the payload
  that was there, and leaves the old payload's checksum in `product.json`.
  Where a backup was deleted, a refresh backs up the patched file. A backup
  that survived an upgrade is restored over the newer release. A run killed
  after the last target leaves checksums that a later install does not repair,
  since nothing is stale. A torn backup is trusted.
- Uplink: a probe in flight when the configuration changes writes its answer,
  for the old port, after the invalidation; `AnsweredLately` bounds how long
  that lasts. The socket layer fixes its port before it waits, so it connects
  to the local port even when the tunnel answered. A probe's timeout is one of
  inactivity: a listener that trickles bytes holds it, and every request that
  shares it.
- Supervisor: an exit that is handled after the next start is taken for a crash
  of the new server, which is then out of reach. A stop during the last probe
  of a start is overwritten by `running`. Reloading a window stops the server
  the other windows use.
- Configuration: the server's toggle writes back the document it has loaded,
  which may be a debounce behind the last save. A missing document publishes
  the defaults. A store that was opened before `~/.mycursor` existed never
  watches it. A change of `providers.json` alone is not noticed.
- Deferred socket: `setTimeout`, `ref` and `unref` made before the attachment
  are not replayed.
- Request path: upstream closing in the middle of a relayed answer makes the
  truncated answer look complete, as the length header is not passed on. Local
  gRPC answers over HTTP/2 are destroyed with their head out, because trailers
  are sent before the stream is ready for them (`exchange.ts:195`), and
  streamed ones end without a status. `proxy.fetch` does not look at the
  upstream policy `reject`. `UploadConversationBlobs` is forwarded although its
  comment says that it is accepted and discarded. A handler that throws is not
  recorded. The upstream request goes on when its client left. A model list
  that could not be fetched is asked for a second time. No WebSocket is served
  under the policy `route`. A note is stored locally and its request forwarded
  when the reply cannot be encoded (`knowledge-base.ts:66`).
- Tools: a name that Cursor's catalogue and an MCP server share is offered as
  Cursor's and called as the MCP tool (`protocol.ts:181` and `:364`). A
  subagent's list of tools restricts what is offered, not what a call may reach.
  Without the schema's struct types a call of an MCP tool falls to the native
  resolution and its near misses.
- History and answers: a round's own text is left out of the follow-up request
  when it had server calls (`turn.ts:178`). Gemini's calls are numbered from
  `call_1` in every answer, and its results carry that id as their name.
- Connection: for plain HTTP through a proxy the request line has the path
  alone (`http.ts:102`, `:156`). An abort during CONNECT is not heard, and a proxy
  that closes or falls silent in its answer keeps the attempt for ever (`:160`). Nor
  does a timer run on a request through a proxy (`:105-108`): an API that is silent
  there holds the attempt until an abort, and the turn with it.
  A host `127.example.com` counts as loopback (`proxy.ts:23`).
- RPC: a JSON request is answered with protobuf bytes. A request that comes in
  frames cannot be read and is forwarded: nobody looks at the flag that says so
  (`content-type.ts:18`). A stream asked for over unary Connect is answered with bare
  messages, one after the other, and nothing that ends them.
- Codec: an enum in a map is written as text, and a negative enum number is
  read as a huge one (`message-codec.ts:121`, `:313`). A nested message that was sent in two
  parts is not merged. A text of a described field loses a leading byte order mark, and
  bytes that are not UTF-8 become U+FFFD (`:167`), in fields nobody edits too.
- Models: `providers.json` is read at another time for the list than for the turn.
- Renderer: a redirected `Request` loses its method and body (`layers.ts:76`); a
  body that was read once is not sent again; a probe that was in flight when a
  verdict was withdrawn puts it back (`readiness.ts:53`).
- Multiplexer: the timer hands on a socket that is destroyed by then. At
  shutdown the server waits for HTTP/2 sessions and for connections it is still
  sniffing, and a second signal is ignored.
- Notes: a damaged file is served as empty and replaced by the next note, though
  `store.ts:119` says that it is left on disk. Two servers lose each other's notes.
  Two notes of one millisecond are listed oldest first.
- Schema: a document that is replaced between the server's read and its stat
  (`descriptor-store.ts:62`) is not seen until it changes once more. One that is
  deleted keeps being served, except in a race of two calls (line 54). The
  command says to restart the server although the server reloads (`schema.ts:101`).
  The reader takes whatever character follows `!` (`bundle-scanner.ts:219`), and
  entries without a comma between them.

## 7. What is not modelled

Left out as components: web search back ends, turn context and model parameters
(data handling: the turn sees a tool that succeeds or fails); TLS material and
the VSIX writer (encodings, made once); the scoring of bundles in discovery and
platform layouts (the installer takes the targets as given); argument parsing of
the layers, the construction of URLs and the replacement of Node's functions; the
CLI's output, the status bar, the webview's presentation; tests and build
scripts.

Inside the modelled parts: the installer's manifest (nothing that changes an
installation reads it); the spawn `error` event of the supervisor; headers and
counters of the request path, and the two system calls of one configuration
read, which are one step; the JSON schemas of tools and the conversion of their
arguments; the parameters of provider requests; floating and fixed-width fields,
bytes and non-text map keys of the codec; the search for a table's anchor in a
bundle and the resolution of references between tables; how the listeners are
opened and closed.

## 8. The plan

Done: all components with state over time, and the pure ones with a hazard of
their own. Next, in this order.

1. **Shutdown**: the listeners, the sniffed connections and the HTTP/2 sessions
   of a server that is told to end (`server/src/launch.ts`), beneath the
   supervisor's `Ends`.
2. **Composition**: `Uplink` with `DeferredSocket` (the factory is its client),
   and `RendererRoute` with `ConfigFeed` (the router it asks is the renderer's
   view).
3. **Extraction**: from the tables `LiteralReader` reads to a schema, with names
   that are resolved across bundles.

## 9. Running it

    tlc -workers 2 -config MCSessionRegistry.cfg MCSessionRegistry
    tlapm SessionRegistryProofs.tla

Runs take from seconds to a minute and a half; the longest are the installer
(2.4 million states), `config` and `socket`. `PROJECT.json` lists the runs with
their configurations, the mutants, the lines of source each definition stands
for, the hazards and the theorems.
