# A TLA+ model of llm-provider

llm-provider is a Go gateway that serves the OpenAI chat, responses and
embeddings APIs in front of several backends: the Codex App Server (a child
process spoken to over JSON-RPC), the ChatGPT backend, Anthropic, and any
OpenAI-compatible service. This directory models its concurrent core in TLA+,
checks the models with TLC on small instances, and proves the most important
safety properties with TLAPS for all instances.

The first part of this file is the inventory of the system, the second the
modules, the third the runs, the fourth the proofs, and the last what is left.

## 1. The system

### Components and their state

| component | source | state | operations |
|---|---|---|---|
| Codex turn and delegated tool callbacks | `providers/codex/stream.go`, `provider.go:369-394, 844-1145` | one `turnState` per turn: queue of chunks, parked callbacks with `queued`/`delivered`, `awaitingTools`, `done`, `err`, `closed`, a one-token `wake` channel | reader: `handleNotification`, `handleDynamicToolCall`, `failConnection`; streams: `recv`, `close`; requests with tool results: `resumeDelegatedTurn` |
| Codex turn registry | `provider.go:264-366, 970-1145` | `Provider.active` (thread -> turn) and `Provider.turns` (turn id -> turn), under `Provider.mu`; `conversationMu` | reserve a thread, `turn/start`, look a notification's turn up, `removeTurn` |
| Codex JSON-RPC connection | `provider.go:742-888, 1129-1172`, `transport.go` | `startMu`, `started`, `closed`, `readDone`, `pending` (id -> channel of capacity one), the process | `ensureStarted`, `callStarted`, `readLoop`, `failConnection`, `Close` |
| Codex conversation checkpoints | `conversation_registry.go`, `provider.go:264-457` | cache entries `lineage:` (transcript), `head:` (thread), `session:` (scope); `loaded`; the threads' content at App Server | infer, fork, resume or create a thread; save three entries when a turn ends |
| Codex conversation cache | `conversation_cache.go` | a map and a list of entries under one mutex, with a bound and times to live; a Redis variant | `Get`, `Set`, `Delete`, `Close` |
| Gateway runtime generations | `cmd/llm-provider/runtime.go` | `current`, `closed`, one WaitGroup per generation | `ServeHTTP`, `Reload`, `Close` |
| Configuration watcher and process life | `cmd/llm-provider/config_watcher.go`, `main.go` | fsnotify events, debounce timer, `reloadRequests` (capacity one), the worker, the signal context | `Run`, its worker, `run` |
| Gateway construction, routing, model cache | `gateway/gateway.go`, `chatgpt.go` | per route `cachedModels` and `authProfile` under `modelMu` | `NewContext`, `refreshModelCache`, `syncChatGPTModels`, `Close` |
| HTTP handlers | `gateway/http.go`, `embeddings.go`, `wire.go` | none beyond a request; the client keeps `conversation_id` | `handleChatCompletions`, `streamChat` and the rest |
| Responses adapter | `gateway/responses.go` | the open items of one stream: text, calls by index, output indexes | `streamAdaptedResponse`, `responseOutput`, `responseInputMessages` |
| Prompt cache policy | `gateway/prompt_cache.go` | none; the ids it makes come back with later requests | `preparePromptCache`, `prepareResponseCache` |
| ChatGPT sign-in and profiles | `providers/chatgpt/auth.go`, `storage*.go` | one file of accounts under a lock file: client id, subject and tokens of each, the active one, the pending sign-in; a goroutine for each sign-in | `StartLogin`, `completeLogin`, `accessToken`, `Select`, `Disconnect`, `Close` |
| ChatGPT backend streams | `providers/chatgpt/provider.go` | per stream: `completed`, item snapshots by index, phases, the text passed on | `responseStream.Recv`, `chatStream.Recv`, `CreateResponse`, `collectResponseOutput` |
| Anthropic and OpenAI-compatible providers | `providers/anthropic`, `providers/openai` | none beyond a request and its stream | `sseStream.Recv`, `convertMessages`, `toChatResponse` |
| Request construction, configuration files, common types | `providers/codex/input.go`, `options.go`, `gateway/config.go`, `types.go`, `capabilities.go`, `client.go` | none | parsing, lookup |

### How they interact

An HTTP request enters `gatewayRuntime.ServeHTTP`, which pins it to a gateway
generation. The generation's Gateway routes it to a provider. For Codex,
`ChatStream` takes `conversationMu`, finds a thread (explicit id, checkpoint,
scope or a new one), reserves it in `active`, calls `turn/start` over JSON-RPC
and returns a stream. One reader goroutine per provider applies every message of
App Server to the turn it belongs to. When the model calls a tool that only the
API caller can run, the callback is *parked* in the turn, shown to the caller as
a tool call, and the HTTP response ends; the caller's next request brings the
result, is matched with the parked callback, writes the JSON-RPC response and
reads on. Meanwhile the configuration may change: the watcher reloads the
runtime, which retires a generation and closes its providers when its last
request has returned.

### What is hard

- *Two HTTP requests share one turn*: the stream that showed a callback is closed
  by a deferred call that may run after the request with the result has begun
  (`stream.go:284`, `http.go:89-142`).
- *A check and its consequence lie in different critical sections*: `removeTurn`
  (`provider.go:1111`), the test of `active` and the reservation, writing a result
  and acknowledging it, the end of a turn and saving its checkpoint.
- *Fallible neighbours*: App Server dies, callers go away in the middle of a
  stream, cache entries fail one by one, handshakes fail half-way.
- *Shutdown*: `Close` races a reload, a retired generation still has requests, a
  lost connection must release calls that register late.
- *Two copies of the truth*: a refresh token is used up at the authorization server
  before its successor is on disk, and a sign-in that takes minutes reads the store in
  three separate uses of its lock (`auth.go:191`, `:371`).
- *One answer, several readers*: a backend's stream is passed on as Chat chunks, as
  Responses events, or collected; the three must agree on the text, the calls and on whether
  the answer is finished (`responses.go:431`, `chatgpt/provider.go:276, 368`).
- *An id that travels*: the client's `conversation_id` is a thread for Codex, a cache key
  for others, and comes back on any route (`prompt_cache.go:32`).
- *Waits without a bound*: a parked callback, a generation with a long stream.

`PROJECT.json` lists each of these at its line under `hazards`, with the properties
that are about it. A hazard without a property has a note: among them are the waits without a
bound, which the liveness properties assume to end, an App Server that died and is not
started again, and a status that is never shown.

### What makes the components correct

- Turn: each callback is shown once and answered exactly once, none is stranded,
  flags, queue and list agree, streams end.
- Registry: a turn that is over does not keep its thread; turns of one thread run
  one at a time; a stream is given its own turn's messages.
- Connection: one process, nothing before the handshake, no send that blocks the
  reader, no call left waiting on a dead connection.
- Checkpoints: a turn runs on a thread that holds exactly the transcript its request
  extends; a checkpoint can always be resumed or forked.
- Sign-in: a client id, once issued, and the subject of an account are kept through every
  failure; no session is left live and forgotten; the refresh token on disk is the one
  the server expects; a sign-in that has ended blocks nobody.
- Model cache: the choices shown are those of the active account, or become so.
- Prompt cache: a conversation keeps the key the gateway chose for it; what the client or the
  configuration says goes first; the gateway's ids are nobody's conversation.
- Streams and adapter: events come in pairs and in order, an answer is the same however it is
  read, it goes back to the backend as it was said, and only a finished one counts as one.
- Conversation cache: it forgets only what expired or was used least, and never
  answers with another value.
- Runtime and process: no request on a closed Gateway, no Gateway leaked, the last
  valid configuration gets served, the process ends.

## 2. The modules

One action stands for one critical section, one write on the transport, or one
`select`; so every interleaving of goroutines that the locks allow is a behaviour
of the model. Definitions marked `\* mutant` are planted faults: each is a wrong
version of the definition after it and is used by no specification. For every property, a
fault of the code is named in `PROJECT.json` that makes TLC find it violated.

| module | models | state and actions |
|---|---|---|
| `ToolCallbacks` | the promise about callbacks, independent of queues, flags and locks | `status` of each callback; `Ask`, `Park`, `Refuse`, `Show`, `Answer` |
| `DelegatedTools` | one `turnState`, its reader, its streams, the requests that resume it | variables carry the fields' names; `queued` and `delivered` are the sets of callbacks whose flag is set; `ReaderStep`, `StreamStep`, `ResumeStep` |
| `TurnRegistry` | `active` and `turns` for one thread | `ChatStream` from reservation to stream, `close`, the reader with its lookup; App Server as a queue of messages (`wire`) |
| `JsonRpc` | the connection | `ensureStarted` under `startMu`, `callStarted`, `readLoop`, `failConnection`, `Close` |
| `ConversationCheckpoints` | inference of threads | `lineage`, `head`, `session`; `resolveInferredThread` and `prepareThread` step by step; the three writes at the end of a turn |
| `ChatGptAuth` | providers that share a credential directory, and the authorization server's sessions | `file` is `accounts.dat`, `op` the renewal or disconnect that holds its lock; `StartLogin`, the steps of the sign-in's goroutine, renewal and disconnect as request, answer and `Finish`, `Select`, `Close`, `Crash`, and time |
| `GatewayRuntime` | generations | `ServeHTTP`, `Reload`, `Close` |
| `ConfigReload` | watcher, worker and `run`, composed with `GatewayRuntime` by `INSTANCE` | `HandleEvent`, `TimerFires`, the worker, `Interrupt`, `ServerReturns`, the deferred calls |
| `ModelCatalog` | the model choices of a ChatGPT route | requests that take an account action, read the status and sync, step by step (`doing`); the periodic refresh (`refreshing`) |
| `CacheAffinity` | the prompt cache key of a conversation | `Prepare` is `preparePromptCache`, `ResponseKey` is `prepareResponseCache`; `ChatTurn`, `ResponseTurn`, `StartOver` of a client on any routes; `exchange` is what the backend got |
| `ChatMessages` | messages, chunks and fragments of calls | operators |
| `SortedIndexes` | `sort.Ints` over the indexes of a map, for the two modules that sort | `Ascending`, by what it returns; a comparison passed as an operator would put it out of the provers' reach |
| `ResponseAdapter` | `streamAdaptedResponse` and `responseOutput` | the adapter as a record that `Receive`, `Complete` and `Fail` transform; `WellOrdered`, `NoHoles` |
| `AnthropicMessages` | `convertMessages`, `toChatResponse`, `responseInputMessages` | operators, and what the Messages API demands |
| `AdaptedTurn` | one answer of Anthropic or Codex and its callers, composed of the three above | the events of `sseStream.Recv`, the chunks of a Codex turn, both kinds of streaming callers after each, and `AskAgain` |
| `ChatGptStream` | one answer of the ChatGPT backend and its callers | the events of the backend; `Recv`, `CollectResponseOutput` |
| `LruCache` | `memoryConversationCache` | `Get`, `Set`, `Delete`, `CloseCache`, time; `promised` and `after` record what a caller may expect |
| `*_proofs` | lemmas and theorems; `Conversations_proofs` is about `ConversationCheckpoints` and `LruCache` | |
| `MCGateway` | the parts of a Gateway that share no step, one at a time: `subject` chooses which at the start | routes, block forms and item kinds of the runs; the fairness of each part |
| other `MC*` | symmetry sets, and the environments of the checkpoint and sign-in runs | |

`DelegatedTools` refines `ToolCallbacks` with the mapping `Status`. `ConfigReload`
uses the actions of `GatewayRuntime` unchanged, with the worker as the only caller
of `Reload`.

### What is abstracted, and what is assumed of the outside

- *App Server* is external. It is known by the messages `provider.go` handles: it
  sends them in order, ends a turn only when its callbacks were answered or it was
  interrupted, runs the turns of a thread one after the other, and completes an
  interrupted turn like any other. `turn/completed` names its turn inside `turn`,
  where the lookup at `provider.go:977-983` does not read it, so it is found by its thread.
- *Text* is one value: chunks matter as things that stand in the queue. Token
  usage, phases, and the index of a parallel call are left out.
- *Callers* send only results of callbacks they were shown.
- A *thread*, a *turn* and the *transcript* that ends with its answer are all identified
  by the request that made them: the cache's SHA-256 of a transcript is a name
  for it. Two callers that send byte-for-byte equal transcripts are one name in the code
  and would be two in the model; they are left out.
- A request that names its conversation only by scope sends no history, so on a fresh
  thread the conversation begins anew; README.md:671-673 documents that. `PrepareFresh`
  says so: it resets what the request extends.
- The cache's eviction, expiry, time-outs and the Redis server are a `Get` or `Set` that
  may fail, one kind of entry at a time.
- The *authorization server* is external. It opens a session for a code, accepts each refresh
  token once, and ends the session when it issues no next one or sees a used one. Access
  tokens come and go with refresh tokens; when one expires is free. A refresh token is
  a session and a number. Scopes, `earliest_refresh_at` and e-mail addresses are left out.
- A random profile name or client id is never issued twice. An account in which nothing was
  written yet is as good as none, so a new account takes any blank one.
- A failing `save` may have replaced the file: `replaceFile` syncs the directory after
  the rename.
- Explicit conversation ids and tool-result continuations are not part of
  `ConversationCheckpoints`; `DelegatedTools` has the latter.
- *Text and arguments* of a streamed answer are sequences of fragments, each named by its
  block and place, so that losing, doubling, swapping or misplacing one shows. An
  output index stands for the item id. A call without arguments is the empty object on both ways
  (`AsJSON`), as `convertMessages` and `toChatResponse` make it. The arguments that come back
  are JSON: for others, such as those of a call cut off by `max_tokens`, `convertMessages` returns an error
  (`anthropic/provider.go:326-329`) and no request is sent.
- *Codex text* is commentary, the final answer, or has no phase (`note`, `text`, `plain`): App Server's
  messages name one, but `provider.go:1003` does not need it.
- *Anthropic* and the *ChatGPT backend* are external: blocks come one after the other and
  each delta belongs to the block that is open; item snapshots come in any order, with or
  without ids; `response.completed` repeats any of the items in their order, so that one may come
  under an index that another has; an `output_item` event may lack its item, and any stream may end or
  fail at every step.
- An upstream stream is pulled: one `Recv` is one action with everything its handler writes.
- A *catalogue* of models is named by the account it was listed for.
- A call with an in-process `ToolHandler` is left out: it does not park.

## 3. The runs

`tlc -workers 2 -config X.cfg M` with the module and file of each run. All runs allow
deadlock: requests, callbacks and writes are finite sets, so the system really stops when they are
used up. What must not stop is stated as liveness.

| run | instance | shows |
|---|---|---|
| `delegated` | 3 callbacks, 3 requests, one text chunk, sequential exposure, lossy, repeated results | all safety properties of a turn, and `ImplementsToolCallbacks` |
| `delegated_live` | 2 parallel callbacks, 3 requests, no losses, callers that wait for the end of a stream | `CallbackResolved`, `StreamsEnd` |
| `delegated_late_close` | 1 callback, 2 requests, no losses | *violation* of `ResumedTurnContinues` |
| `turns` | 2 requests, 2 texts, callers that may leave and callers that stay | reservation, order of turns and liveness |
| `turns_two` | 3 requests that may be abandoned | *violation* of `OneTurnPerThread` |
| `gateway` | `GatewayRuntime`: 2 requests, 2 concurrent reloads, 3 replacements. `ModelCatalog`: 2 accounts, 2 concurrent requests, 3 in all, the refresh. `CacheAffinity`: 13 routes of 7 kinds, with and without configured keys, 4 ids. `AdaptedTurn`: 3 blocks of up to 2 parts. `ChatGptStream`: 3 items. `LruCache`: 3 keys, a bound of 2, 2 values, 3 times | `GatewayRuntime`'s safety and `ReloadEnds`; `CatalogueIsActive`, `CatalogueRecovers`; `CallersKeepControl`, `AffinityIsStable`; `EventsWellFormed`, `SameEitherWay`, `ReplayedAsSaid`; `OnlyFinishedCompletes`, `AnswerIsWhole`; `CacheOnlyForgets` |
| `responses_tools` | the turns of `gateway`, answered through the Responses API | *violation* of `AdapterKeepsCalls` |
| `config` | 2 requests, 2 writes of the file, 2 replacements | the composition: `LastConfigServed`, `ShutdownCompletes`, clean exit |
| `checkpoints` | 4 requests, in an orderly and in an unruly environment | history, forks, inference |
| `checkpoints_abandoned` | 3 requests, one disturbance: abandoned turns | *violation* of `RightHistory` |
| `auth` | 2 sign-ins, 2 accounts, 2 providers, 2 users, 1 renewal per session, in four environments | registrations are kept, no session is forgotten, the stored token is current, what is pending is under way (in `IInv`) |
| `rpc` | 3 concurrent calls | the connection's safety, and `LostConnectionReleases` |

### Why the bounds are enough to be interesting

- Three callbacks are what it takes for one to be shown, one to wait behind it and
  one to arrive in between; three requests give an original stream, one that resumes and
  one that comes with the same results. `MaxText = 1` still puts text before,
  between and after tool chunks.
- Two requests on a thread give a turn and the successor its messages may be mistaken
  for. With liveness three are too many for a short run; the third matters for safety only,
  where `turns_two` has it and the theorem of section 4 covers any number.
- Two reloads and `Close` give every pair of callers that may own a generation. Three
  replacements let one of the reloads come back.
- Two writes: one arrives while the worker loads or reloads the other, which is when
  a request may be dropped.
- Four requests give a conversation, its continuation, a branch from the older checkpoint
  and a turn that continues either branch.
- Two sign-ins: one that is late and the one that takes its place, for one account or for
  two, by one user or by two, in one provider or in two. One renewal is enough for a stored
  token to be an old one.
- Two accounts and two requests at a time: a list that was asked for under one account is
  stored after the other was selected. A third request lets somebody look afterwards.
- Four ids: a conversation goes from a keyed route to Codex and back, and begins anew.
- Three blocks: two calls with text before, between or after them, or two texts around a
  call; blocks without any part, thoughts, commentary and text without a phase.
- Three items of the ChatGPT backend, with ids on all, some or none: a snapshot, one that is missing and
  one that the terminal event repeats, at its own index or at that of the snapshot.
- Three keys in a cache of two: the third evicts.
- Three calls: one performs the handshake, one waits for `startMu`, one registers
  late.

Symmetry is used for safety only: callbacks and the requests other than the first are
interchangeable, the requests of `ConversationCheckpoints` are, and so are the sign-ins,
accounts, providers and users of `ChatGptAuth`.

### Environments of the checkpoints

`ConversationCheckpoints` chooses at the start what may happen around it
(`Environments`): which kinds of cache entry may fail, whether turns may be abandoned,
whether requests overlap, whether App Server unloads threads and refuses to resume or fork
them. `HistoryWhenCalm` states the exact history when turns come one after the other, none is
abandoned and head entries are kept, through every other failure. Outside of that
`RightHistory` fails in three ways: an abandoned turn (the run), a second request that
comes between the end of a turn and its checkpoint (`conversation_registry.go:246`), and a
head entry that was lost (`:80`). The last two can be seen by giving `Environments` only
`alone |-> FALSE`, or only `faults |-> {"head"}`. What holds in all of them is
`HistoryComplete` (also of every thread that a checkpoint names) and `InferredNeverRefused`.

### Environments of the sign-ins

`ChatGptAuth` chooses at the start which troubles a behaviour may meet (`faults`). The run
takes them in four groups, as all together are too many states for a short run: a busy lock
and closed providers; lost answers and unconfirmed revocations; failing saves; crashes.
`IInv` and `RegistrationKept` hold in each. `SessionsAccounted` leaves out crashes:
a process that ends between the exchange and the store takes the tokens with it.
`StoredTokenIsCurrent` is about troubles that do not come between the server's
rotation and the save; a lost answer, a failing save or a crash leaves the used token on
disk and the next renewal ends the session. `PendingIsRunning` leaves out what may
prevent the last write of a sign-in; ten minutes then release the next one.
A session whose revocation was not confirmed is known to its sign-in; the provider's
README.md:61-63 lets the status say so, which the code does unless another sign-in has taken over
or the lock stayed busy for five seconds.

### The parts of the gateway run

`MCGateway` puts six components in one run that never take a step together: `subject` is
chosen at the start, and the variables of the others rest in an initial state. That a
component is sequential per request (`CacheAffinity`, `AdaptedTurn`, `ChatGptStream`) or has one
lock (`LruCache`) makes it small; what is hard is the sequence of calls or events, and
TLC takes every one within the bounds.

- `CatalogueIsActive` is stated for the time between two ticks of the refresh, for accounts that are
  taken up one after the other: a refresh that began under the account before stores its
  models whatever happened since (`gateway.go:481`), and a sync that compares only names cannot
  notice an account that came back. `CatalogueRecovers` covers both: in the end the choices are the active
  account's or none.
- `SameEitherWay` holds for answers that ended with their own end. A connection that closes early
  (`Cut`) is passed on as the end of the answer. Commentary of Codex reaches a streaming Responses
  caller as part of the message, so the comparison with the collected answer leaves it out
  (`Commented`); types.go:225-228 speaks of Chat chunks only. And `codex.Chat` collects the text of the
  final answer alone if there is any and all text otherwise (`codex/provider.go:220-240`), while a
  reader of the Chat stream takes what is not commentary: the two differ for an answer that has a final answer
  and text without a phase, or commentary alone (`HeardOtherwise`), and agree on every other.
- `AnswerIsWhole`: whatever a snapshot or the terminal event brought is in the collected answer
  once, in order if the terminal array begins with the answer (`Prefix`), and in any case if the items have
  ids (`EachOnce`: the snapshots keep their order, the others take the free indexes or go to the end). Items
  without ids in an array that leaves out earlier ones are told apart by their index alone, and
  the code then drops some. A Chat stream may be refused ("terminal text differs") when deltas came without their
  item's announcement or the answer lacks what was streamed; `Orderly` says when it must not be.
- `AffinityIsStable` counts the keys that the gateway chose in one conversation. A Codex
  thread begins another, as its id replaces the gateway's.

### What the four violations say

1. `delegated_late_close`. A callback is shown; the caller answers it at once with a second
   request; its result is acknowledged and `awaitingTools` is cleared. Only now does the
   first handler reach its deferred `Close`. It finds a turn that is not waiting and not
   done, closes and interrupts it. README.md:757-760 promises that the same turn can
   continue. (The turn is closed, so the second stream ends early.)
2. `turns_two`. A turn is abandoned and interrupted, and a second request reserves its thread.
   The end of the first turn is matched by thread to the second, or its late
   `removeTurn` deletes the second's reservation, and a third turn starts beside it.
   provider.go:268-269 says reservations are serialized so that two requests cannot both
   start on one thread.
3. `checkpoints_abandoned`. An abandoned turn is in the thread but moves no head entry: the
   next request that extends the same checkpoint reuses the thread, with a turn its transcript does not
   have. README.md:662-666 describes a thread and turn for "the exact caller-visible transcript".

4. `responses_tools`. A Responses caller sends back the output it was given, with the result of
   the call. `responseInputMessages` turns the `function_call` item into an empty message, which
   `convertMessages` drops: Anthropic gets a tool result without its call. README.md:275-277 says that Chat
   providers are adapted for "the common text/message/function-tool subset". Through the Chat API the
   same exchange keeps its calls (`ReplayedAsSaid`).

### Fairness

Goroutines that can take a step do so (weak fairness per goroutine: the Go scheduler
starves no runnable goroutine). Beyond that:

- `DelegatedTools`: a caller sends the results it owes; without it `CallbackResolved` cannot hold, as the
  code has no timeout for a parked callback. App Server need not send anything.
- `TurnRegistry`: App Server takes up or refuses every `turn/start` and ends every turn.
  Nobody need leave or cancel.
- `GatewayRuntime`, `ConfigReload`: handlers return, builds and sign-ins end, and
  the HTTP server returns once it was told to. The code bounds none of these but the
  sign-in, by the reload's context. In `config` a build fails only when the
  process stops (`Flaky = FALSE`): the code tries a failed reload again only when the
  file changes, so `LastConfigServed` does not hold with `Flaky = TRUE`.
- `ModelCatalog`: the ticker ticks and each refresh ends, as it has a time limit
  (`gateway.go:496`). Requests need not go on.
- `CacheAffinity`, `AdaptedTurn`, `ChatGptStream`, `LruCache`: none. `MCSpec` gives the fairness of
  `GatewayRuntime` and `ModelCatalog` to the behaviours whose subject they are.
- `ChatGptAuth`: none; its properties are safety.
- `JsonRpc`: nothing but the goroutines. App Server need not answer, no context need end.

## 4. The proofs

`tlapm M.tla` checks them; the theorems hold for all values of the constants that satisfy
the named assumptions, which say only that sets of callbacks are finite, that bounds are numbers,
of which kind a block or an item is, and that special values are not members of the model's
sets. `UnsetAssumption` says that the backend names every call; one theorem, `AnswerReplayed`, has
a hypothesis of its own (below).

**`DelegatedTools_proofs`** (any callbacks, requests, `Parallel`, `Lossy`, `Patient`, `Retries`).
The properties are not inductive one by one. That the request which answered a callback
still finds it parked (`AcknowledgeSucceeds`) needs that no other request can
acknowledge between its two steps, that is, `HolderOwns`: the holder of
`conversationMu` has only parked and delivered callbacks left to answer.
`CallbackAccounted` needs `ParkedOnce` (parked callbacks are distinct and were issued,
and `awaitingTools` says whether there are any); `NoStrandedCallback` and `FlagsMatchQueue`
need each other, since a callback is exposed when its flags say it is not.
`IInv` is their conjunction with the types. The proof has one lemma per action
(`...Inv`) with one step per conjunct; those that queue callbacks rest on a lemma about
`QueueDelegatedTools`, which in turn rests on facts about sequences without repetition
(`AppendSet`, `TailSet`, `RemoveSet`). From `Invariance` follow `TypeCorrect`, `NoCallbackLost`,
`NoCallbackStranded`, `AcknowledgeSucceeds`, `ClosedTurnIsEmpty`; `CallbackShownOnce` is the action property, and
`Implementation` shows that every step maps to one step of `ToolCallbacks` or leaves
every status as it was.

**`TurnRegistry_proofs`** (any number of requests on a thread). `NoStaleReservation` says who
will remove a reservation. It is inductive together with `KnownTurns`: a request that has
not started is known to nobody (so that `Finish` and `Close` do not hit it), and a turn the
reader is about to finish no longer holds the thread.
`TurnsAreSeparate` proves `OwnTurnOnly` for callers that stay (`~abandon`; for others it is refuted
by `turns_two`). A message finds its turn by the thread, so what protects a stream is the
order of everything that is under way: `PipelineIsActive` (all of it is of the request that holds the
thread), `InOrder` (the answer to `turn/start` is the first message and is taken before the next,
the end of the turn is the last) and `OthersAreOver` (every other turn is off the registry or about to
be marked done). `TurnRegistry_proofs` has one lemma each for the request, App Server and the reader.

**`GatewayRuntime_proofs`** (any number of requests, reloads and generations). `RunsOnOpenGateway` needs
that a WaitGroup counts exactly the requests pinned to its generation
(`MembersArePinned`), that a retired generation is not published again
(`RetiredForGood`), and that two callers never own the same generation (`OwnersDiffer`).
`NoGatewayLeaked` is part of the same invariant.

**`ConfigReload_proofs`** (any number of requests, writes and replacements). Every step of the
process is a step of `GatewayRuntime` or leaves its variables alone (`ProcessUsesRuntime`), so
the invariant proved there holds here: it is used through an instance (`Proved`), and the
lemmas `Same...` say that this is the instance the process is built from. `CleanExit` adds
who waits for whom (`ExitOrder`): the worker is inside `Reload` exactly while it says so, the
watcher has waited for it and `run()` for the watcher, so that at the exit nobody is left
who could own a Gateway that is not closed.

**`JsonRpc_proofs`** (any number of calls). `HandshakeFirst` needs to know that a call may reach
a process that lives only after `initialized`, unless the transport was closed (`AfterHandshake`):
a handshake that failed half-way frees `startMu` with the process still up. `ReaderNeverBlocks`
needs that a message which is not registered yet is known to nobody (`UnsentIsFresh`), since
registering it twice, or after its response, would meet a full channel.

**`Gateway_proofs`** (any accounts, concurrent requests, routes, ids and items).
`CatalogueIsActive` rests on an order: accounts are taken up one after the other, what a request
listed is not older than the status it holds (`Honest`), and the cache is not older than the
status it was synced with nor newer than the active account (`CacheInOrder`).
`AffinityIsStable` rests on `KeyIsHeld`: the key that the gateway chose is the id the client
holds. `CallersKeepControl` needs nothing of the past, only every case of a request.
`OnlyFinishedCompletes` is inductive with what callers know before the end (`EndsFollow`).

The theorems about the answers that are streamed compare what loops over chunks, blocks, calls and
items compute. The library's induction theorems cannot be instantiated, but the principle of the
least number is a theorem about sets (`WFMin`, `NatLessThanWellFounded`), and from it follows induction on a set
of numbers, `NatSetInduction`: for each such loop there is a lemma that the set of lengths for
which it does what it should contains 0 and, with a number, the next. So `Ascending` sorts
any finite set, and in one way only (`AscendingFacts`, `AscendingIs`), `FlattenSeq` goes on by
concatenation (`FlattenAppend`, `FamilyStep`), and the fold behind `ConvertMessages` goes on by
`ConvertMessage` (`Converted`).

- `CollectedWhole` (`AnswerIsWhole`): `WholeInv` says what a Chat caller heard at each moment
  (`HeardSoFar`: the deltas of the items that are open or over, in order) and which malformed event ended a caller
  before the backend did (`EndsAsRead`). `CollectResponseOutput` fills one place after the other
  (`FilledSteps`). It is shown to sort what finished or what `response.completed` repeats, if the array begins
  with the answer (`OutputIsListed`), so that both texts are made of the same pieces; and to keep every item
  that has an id once, whatever the array lists (`HoldsOnce`, `OutputEach`).
- `AdapterStreamsWellFormed` (`EventsWellFormed`): `AdapterOpen` is the state of the adapter before
  its end. The announced indexes are 0 up to `next`, none has ended, the deltas of an index spell
  what the adapter holds for it, and each index is that of the text or of one call (`Books`).
  A chunk keeps all of it; from it, closing every item yields a complete output.
- `StreamedAsCollected` (`SameEitherWay`): `TurnInv` adds `CallersInv`, which says that until the
  stream breaks off the Chat caller and the adapter hold exactly what was said so far (`SaidSoFar`):
  the text of the blocks with the part that is under way, and one entry per tool block under its index
  (`TextsOfTold` relates the texts that each caller keeps by phase). It
  needs that later calls have greater indexes on either backend (`IndexGrows`), so that two
  calls never meet and sorting by index gives back the order of the blocks.
- `AnswerReplayed` (`ReplayedAsSaid`): `TurnInv` once more, at the end of the stream. Its hypothesis
  `Apis = {"chat"}` is what the property is about: a Responses caller does not get as much, which
  `responses_tools` shows. `convertMessages` is followed through the request with any number of results, in
  any order (`RequestConverted`).

**`Conversations_proofs`** (any number of requests, any subset of environments). `IInv` of
`ConversationCheckpoints` has six parts. `InTurn`: between its inference and its start a request
holds `conversationMu`. `Reserved`: a thread is reserved by the request that runs on
it, and a request that is about to start has looked under the lock; this gives
`InferenceIsNotRefused`. `ThreadsKnown`: a thread is known to nobody but its creator until its first
turn has started. `Transcripts`: transcripts and threads name each turn once, so "up to
this turn" is one place, and a fork cuts where the checkpoint says. `HistoryKept`: the thread of a
checkpoint has the checkpoint's turns in order, from the inference to the entry that is saved for
the request; it is inductive as threads only grow and forks keep the part up to the checkpoint
(`KeepsFork`), and gives `NoTurnIsMissing` in every environment. `CalmHistory` holds where
`Calm` does: threads begin with the transcript, and the head entry tells whether more
follows; it gives `HistoryIsExact`. The lemma `Frame` and its kin say once what each step leaves alone,
so that a proof about one part need not open every action.
For the cache, `CacheForgetsOnlyOld` (any keys, values, positive bound and clock) rests on
`InOrder`: what stands before a key in the list was used after it. So the last key of a full list has as
many later ones as the bound says, and that is what is pushed out; with `Listed` (the list has the
keys of the map, each once) the size of the map is the length of the list. `RemoveFirst` and `Front` are
reasoned about by position (`RemoveFirstFacts`, `ToFrontFacts`, `FrontOfList`).

**`ChatGptAuth_proofs`** (any number of sign-ins, accounts, providers, subjects and
renewals, all faults together). `StoreInv` says what a sign-in knows at each of its steps
(`LoginKnows`), what is stored of an account and that its tokens are of a sign-in past its own use
of them (`AccountInOrder`), that no session is stored twice (`OneAccountEach`), and that the operation that
holds the lock knows what its token became at the server (`OpHoldsAccount`). From it follow, step by
step, the parts of `IInv` about sign-ins, `RegistrationIsForGood` (the action property: who is about to
write a registration or a subject has read that it is missing or the same),
`NoSessionForgotten` and `TokenNeverStale`. The run checks four groups of faults; the
theorems cover any.

Only model-checked, and why:

- liveness (`CallbackResolved`, `StreamsEnd`, `ThreadIsFreed`, `StreamEventuallyEnds`, `ReloadEnds`,
  `CatalogueRecovers`, `LastConfigServed`, `ShutdownCompletes`, `LostConnectionReleases`): the
  provers have no rule for fairness. So the fairness of a goroutine is a premise TLC checks these
  properties under, and nothing is proved from it;
- `AdapterKeepsCalls` and the other properties of the four runs that end in a violation: the code
  does not have them.

The inductive invariants of `DelegatedTools`, `GatewayRuntime`, `ConversationCheckpoints` and
`ChatGptAuth` are checked by the runs too; those of `TurnRegistry`, `JsonRpc`, `ConfigReload`, the cache and the
gateway's parts are written beside their proofs, and what they imply is checked.

## 5. Not modelled, and the plan

1. Proofs: every safety invariant and action property that a run checks is a theorem. What is left
   is liveness, which stays with TLC.
2. `ChatGptAuth` with two troubles at a time on one account, and that a sign-in ends although
   its lock is polled.
3. In-process tool handlers of Codex, and explicit conversation ids.

Left out for good: request construction, configuration parsing, model capabilities, embeddings
and the OpenAI-compatible provider but for its raw stream, which translate one request or read
one file and share no state; storage of files and Redis, which are I/O; the sign-in probe under
`experiments`, which is not part of the program.
