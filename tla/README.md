# TLA+ models of humane-system-hook

TLA+ modules, TLC configurations and TLAPS proofs for the server, hooks and
bridges that keep a Humane Ai Pin working without Humane's cloud.  Every
definition is translated from the source; `PROJECT.json` maps it to its lines.

## 1. The system

| Part | Files | State it keeps | Operations | Hard behaviour |
|---|---|---|---|---|
| gRPC deduplication | `server-rs/src/dedup.rs` | in-flight map, response cache | one middleware run per request, `clear` | concurrent identical requests, dropped futures, clear during a run |
| Capture broker | `server-rs/src/capture_broker.rs`, `api.rs` | latest frame, generation, `Notify` | `publish`, `wait_for_capture` | wakeups between check and sleep, timeouts |
| eSIM bridge, Rust side | `server-rs/src/esim.rs` | request records, acceptance senders, command queue, broadcast channel | HTTP handlers, bridge task, pruning | messages before anyone listens, lost connections, overrun receivers |
| eSIM bridge, device side | `server/.../Esim*.kt` | connected clients, event store | relay of requests and results | attribution of results, several threads |
| eSIM hook | `hook/.../Esim*.kt` | the current operation's context, event queue | one intent at a time in, results out | the context is overwritten while an operation runs |
| Live image store | `server-rs/src/synapse/image_store.rs` | images per run | `put`, `get_refresh` | capacity, expiry, order with the broker |
| AiBus | `server-rs/src/services/aibus/` | handlers behind an `RwLock` | gRPC methods | replaced while requests run |
| HTTP API, settings | `server-rs/src/api.rs`, `config.rs` | shared configuration, event stream | settings update, hot reload, uploads of contacts | partial failure between file, memory and handlers |
| Conversations | `server-rs/src/db.rs`, `synapse/conversation.rs` | SQLite rows | read the turns, save and merge a row | the current question inferred from the order of turns, background saves out of order |
| Capture upload, media | `services/capture.rs`, `storage.rs`, `main.rs` | rows and directories | create, upload, complete, fail, delete | half-done steps, calls that outlive their handler, retried uploads |
| Contacts | `services/contacts.rs`, `api/contacts.rs`, `db/contacts.rs`, `ContactsHooks.kt` | rows with deletion marks, reset flag | change, import, sync by pages, reset | equal times, two reads, a reset that overruns its wait |
| Agent, providers, memory | `server-rs/src/llm/` | memvid file | one call to a model | external |
| Server runtime | `server/.../Server*.kt`, `NativeBridge.kt` | native process, run state | start, stop, supervise | start and stop races |
| USB and adb bridges | `CenterUsbBridge.kt`, `AdbWifiBridge.kt` | running flag, sockets | pump bytes | stop during accept |
| Injector | `injector/` | installed packages | inject on boot | interrupted installs |
| Interaction hooks | `HandTrackingTimeoutHooks.kt`, `TouchpadActionManagerHooks.kt`, ... | flags, posted timers | replace single methods | timers of an earlier gesture |
| Music and voice | `MusicHooks.kt`, `Spotify*.kt`, `HumaneTtsHooks.kt` | player threads, buffers | play, pause, seek | reader thread against control |

How they interact.  The pin's programs call the Rust server over gRPC
(deduplicated in front of AiBus).  Agents and the settings page call its HTTP
API.  For eSIM and radios the HTTP API hands commands to the bridge task, which
talks line by line over TCP (port 16790) to `EsimBridgeServer` in the Android
service; that starts an intent in the vendor's LPA, where the hook emits
events to the socket server of the Android service, whose event store
broadcasts results back over the bridge.  The Android service also runs the
Rust server as a native process.  A camera frame arrives by the gRPC method
AnalyzeImage and is given to the image store and to the capture broker.

What makes each part correct, in a sentence: the deduplication runs a handler
once and never mixes answers up; the broker returns the next frame to everyone
who waits; the bridge answers every HTTP client and shows a request's true
outcome; the event store gives a result to the request that asked for it; the
image store returns a run's own image while it is fresh, and the agent hears
exactly what was said before; the runtime loses sight of no server it
started but one it could not stop; a settings update takes effect everywhere or nowhere and survives a
restart; the media store lists no memory whose files are gone; a saved exchange
stays in the log; the device's contacts follow the server's.

## 2. Modules

| Module | Models | Kind |
|---|---|---|
| `GrpcDedup` | `dedup.rs`, `AiBus::replace` and `DedupHandle::clear` as the settings reload calls them | state machine |
| `CaptureBroker` | `capture_broker.rs` and `wait_for_live_photo` of `api.rs` | state machine |
| `EsimBridge` | `esim.rs`, with `EsimBridgeServer.kt` as its environment | state machine |
| `RunImages` | what a store of run images promises | abstract specification |
| `LiveImageStore` | `image_store.rs` | state machine |
| `LiveImageHistory` | the store with the history `RunImages` speaks of | refinement |
| `Conversations` | `synapse/conversation.rs`, and what `db.rs` makes of a saved question | operators |
| `Understand` | `services/aibus/understand.rs`, `vision.rs`: a device in conversation | composes `Conversations` and `LiveImageStore` |
| `ConversationLog` | `db.rs`: the tasks that write the log | state machine on `Conversations` |
| `OpenAiProxy` | `bin/openai-proxy.rs`: the history it makes of a chat | state machine on `Conversations` |
| `Settings` | `update_settings` and `persist_config` of `api.rs`, `config.rs`, the start in `main.rs` | state machine |
| `Media` | `services/capture.rs`, `storage.rs`, the upload handler of `main.rs` | state machine |
| `Contacts` | `api/contacts.rs`, `db/contacts.rs`, `services/contacts.rs`, `ContactsHooks.kt` | state machine |
| `EsimEvents` | the LPA's operations and the events of `EsimEventEmitter.kt` | vocabulary |
| `EsimHook` | `EsimLpaHooks.kt` (capture), `EsimOperationContext.kt`, `EsimEventEmitter.kt` | state machine |
| `EsimEventStore` | `EsimEventStore.kt` | state machine |
| `EsimPipeline` | hook, sender, socket loop and store together | composition |
| `CarrierLock` | the bypass flag and the delete protection of `EsimLpaHooks.kt` | state machine |
| `BF25Parser` | `parseBF25` of `EsimLpaHooks.kt` | algorithm, step by step |
| `ServerRuntime` | `ServerRuntime.kt`, with `NativeBridge.kt` as it uses it | state machine |
| `Stores` | `LiveImageHistory`, `ConversationLog`, `Media` and `Contacts` side by side | composition |
| `GrpcDedupProofs`, `CaptureBrokerProofs`, `EsimBridgeProofs`, `EsimPipelineProofs`, `SettingsProofs`, `UnderstandProofs` | the module of that name | theorems |
| `StoresProofs` | the four stores | theorems |
| `DeviceProofs` | `CarrierLock`, `BF25Parser`, `ServerRuntime` | theorems |
| `MCGrpcDedup`, `MCCaptureBroker`, `MCEsimBridge`, `MCUnderstand`, `MCOpenAiProxy`, `MCSettings` | the constants of the runs | for TLC |
| `MCStores` | small instances of the four stores | for TLC |
| `MCEsimPipeline` | small instances of `EsimPipeline`, `CarrierLock`, `BF25Parser` and `ServerRuntime` | for TLC |

`MCStores` and `MCEsimPipeline` put parts that share no state into one run.
Each initial state belongs to one part (`part`), and in its behaviours the
others stand still, so TLC explores the sum of their state spaces, not the
product, and each property is that of its part.

### GrpcDedup

A request is one run of `dedup_middleware`; `pc` names the await point it is
at.  Each of the two locked blocks is one action (`CacheHit`, `Join` and `Lead`
are the outcomes of the first, `Publish` is the second), because a tokio mutex
makes it atomic; `RunHandler` is the moment `AiBus` picks its handlers, and
`Collect` the moment the response is stamped.  `inflight` maps a key to the
request that created the registered channel.  That is enough to name a channel,
since a request creates at most one and the map holds the only sender: a
channel is closed exactly when the map no longer holds it.  `Drop` is hyper
dropping the future of a request whose client went away.  `epoch` counts the
configurations AiBus has had; `lastClear`, `clears`, `arrived` and `completed`
are history variables for the properties.

### CaptureBroker

An agent's call goes through `check` (under the lock), `checked` (lock free)
and `armed` (the `Notified` future exists).  `Publish` marks the armed calls
only: `notify_waiters` leaves no permit.  `late` is the call's deadline having
passed, and `HangUp` the client going away.  A client may name a generation the
broker has not reached; `Begin` asks for more than the larger of the two.
`began`, `named` and `due` are history: where the call started, what its client
named, and whether it ever slept while a frame for it was there.

### EsimBridge

A request is one call of an HTTP handler.  Its kind selects the path through
`esim.rs`.  The bridge task is `Connect`, `WriteCommand`, `WriteFails`,
`Disconnect` and, for a line read, `Handle` up to the unlock of the record map
followed by `Broadcast`; `handling` is the message in between.  A receiver of
the broadcast channel is a bounded sequence that loses its oldest message when
it is full, and `lagged` is the error it then gets.  Pruning keeps the most
recently updated records and leaves ties open, as the sort over a hash map does.
The environment is what `EsimBridgeServer.kt` sends: acceptance or refusal on
the connection that carried the request, answers to simple requests, results in
any number (up to a bound) and order, also after a reconnection, and an error
that names no request when the dispatch throws.  The clock is in units of the
time-to-live.

On a host that is not Android, `EsimBridge::start` creates a bridge whose queue
is closed; every request then fails at once, and that build is not modelled.

### LiveImageStore

Both operations hold the store's mutex from end to end, so `Put` and
`GetRefresh` are one action each: prune, then insert or look.  Pruning keeps the
entries younger than the lifetime, and of those the most recently used up to the
cap; entries used at the same instant may be kept or dropped.  `RunImages` is
the promise the two callers rely on, stated without a map or a capacity: an
image is found again under its own run while it is fresh and fewer than
`MAX_IMAGES` other runs were used since.  `LiveImageHistory` adds what was put,
used and found, and `ImplementsRunImages` is the refinement.

### EsimPipeline

`EsimHook` is the side in the vendor's LPA process.  `StartCommand`,
`WriteContext` (four writes: two of `clear`, two assignments), `EmitStarted` and
`SetOff` are the main thread in `onStartCommand`.  A callback of an operation
reads the context twice, the action first (`BeginEmit`) and the request id when
the event is made (`ReadRequestId`), and then queues the event (`Offer`).  The
fields `iccid`, `nickname` and the like only decorate events and are left out.
What the LPA calls back is the environment (`Successes`, `Failures`): the
properties of a listing in any order, a getter's success before its value, a
mutation's result or error, and for a download the sequences of results its
listeners can produce.  `Deliver` sends one event and handles it, since one
thread sends and one reads and each event has a connection of its own; `Lose` is
a send that fails.

`EsimEventStore` follows the event store field by field.  `onEvent` is
synchronized and one action; the three forwarding handlers differ only in what
can be terminal and are one action, and the three getters' synthesizing
functions differ only in names.  The store's `of` fields and those of the events
are history: whose callbacks a piece of information comes from.  `got` is what
listeners are told under each request id.

`CarrierLock` runs the vendor's work on an intent against the flag, and
`BF25Parser` runs the parser's loop over every layout of elements up to a bound;
an element is a tag, a size and what the vendor's code makes of it, and the data
may be cut off at any byte.

### ServerRuntime

The main thread runs `start` and `stop`, one after the other, since only
callbacks of `ServerService` call them; the supervisor is one thread that, once
started, loops for ever.  What is synchronized on `stateLock` is one action, and
what is read outside it an action of its own: `stop` may come between the
supervisor's look at `desiredRunning` (`Ask`), its look at the process (`Look`)
and its start of one (`Restart`), and `start` may put a new process in place of
the one whose end the supervisor sees (`SeeExit`).  Processes end by themselves
(`Crash`) and launches fail (`StartFails`, `RestartFails`) any number of times.
`NativeBridge.stop` may fail to end a process, which `stop` does not notice or only
logs: `GiveUp` leaves it running, and the history variable `forsaken` knows it.
It is the exception of both properties, since the supervisor may be waiting for
just that process.
Waits between tries, the state listener and the log threads are left out.

### Settings

`update_settings` holds the write lock of the shared configuration from `Begin`
to its return; `pc` is where it is.  `Begin` validates and changes the
configuration in memory at once; the memory is opened, the agent built, the
handlers replaced, the dedup cache cleared, and `persist_config` copies the file,
truncates it and writes it, each an action since it can fail or be the last one
before a crash.  A client that goes away ends the update at an await
(`Abandon`); `persist_config` does not await.  `Start` is `Config::load`: the
local file is merged over the main one, defaults fill in the rest, and what it
refuses keeps the server down.

Fields of `Config` that the code treats alike are one key: a setting an update
writes and may clear (`api_key`, `system_prompt`, `display_name`), one it always
writes, a number, a path, one that is read-only and one no update writes.  A TOML
table is a function on the keys it holds.  `Normal` is what the code makes of an
empty string, a zero or the text of the default prompt; `Encoded` is `as i64`
with `MaxI64` as the width.  `left` records what an interrupted update left
behind the memory, `complete` what the file held when last written in full.
Calls go on meanwhile: a leader picks the handlers in force (`Choose`) and fills
the cache later (`Publish`), any number of them, so `running` is the settings
chosen by leaders that have not ended and `outrun` those of leaders that a
clear of the cache found at work.

### Conversations, Understand, ConversationLog and OpenAiProxy

`Conversations` holds the pure part: what `extract_history` makes of the turns
(it leaves out the last question of the user and silent turns), which
conversation id it finds, and how `save_understand_conversation` finds and
rewrites the row of a conversation.

In `Understand` a device asks in several conversations at once and sends all the
turns each time.  `Receive` is a request that has reached its handlers; `Look` is
one look at the image store, which takes the mutex anew for each earlier question
and then for the current one; after the last the agent has the question.
`Respond` is its answer, `Scene` sends the device to its camera, `Photograph` and
`Analyze` are AnalyzeImage before and after the picture is stored, and `Attach` is
a device that sends the picture inline, in the turn of its question: it stands
there from then on, comes before any stored one, and the last of all turns goes
with the current question (`MostRecent`).  `Reload` is a settings update, which
starts with an empty image store; a call that is between two looks, or about to
store, stays with the handlers it began with, and `old` is what their store held.
The picture of a run is named like the run.  The model behind it answers anything.

`ConversationLog` is the other end of an answer: a detached task per answer that
reaches the database in any order, or fails.  How the answer came about does not
matter there, so a question is asked and answered, or given up.  A tick is the
ten minutes within which a save may rewrite a row.  `said` notes which message
each conversation gave to the log for which place: two conversations the log
could mix up are those that gave it the same message for the same place
(`Apart`).  That is coarser than what the device remembers of its talk: an
answer that was lost on the way is in the log of its conversation although the
device never heard it, and shifts the places of what follows only there.

In `OpenAiProxy` a chat client adds messages of any role, the proxy takes the
last question out of them and passes the others as turns.

### Media

A handler of the capture service holds the store's mutex and makes one call
after the other to the file system or the database.  `holder` is that handler
with the calls it has yet to make, and each call (`Do`) is a step.  A handler
whose client goes away is dropped and frees the mutex, while the call it waited
for is carried out later by its blocking thread (`Dropped`, `Late`); a call may
fail (`Fails`), which ends the handler, or a thumbnail or body, which is left out
(`part`); the server may be killed within a call (`Crash`, `Half`).  The device
retries uploads; the portal (`shown`) follows events that are sent at the end of
a handler (`Announce`) and lists anew after a crash; it is not told (`Untold`)
when its stream skipped the event, or when what was created could not be read
back for it.  `Onward` is the handler
with a part of its work done: thumbnails are saved one after the other.

### Contacts

`people` is the table, in which a deleted contact keeps its row.  A write takes
the present millisecond as its time; an import is one transaction whose items
find their contacts by id, phone number or email address (`Targets`).  The
device's sync worker is external: it asks for everything (two reads, `AskAll` and
`ListDeleted`) or for what is newer than its cursor, applies the pages and keeps
the greatest time it saw.  The hook's reset thread claims the flag, clears the
contacts and forgets the cursor, while the sync waits two seconds for it at most
(`HookDone`).  The clearing may fail, which the hook only logs (`ClearFails`), and
so may the commit of the cursor (`CommitFails`).  `missed`, `lost` and `crossed`
are the exceptions the properties name, all observable in the code.

## 3. What the runs show

| Run | Instance | Shows |
|---|---|---|
| `GrpcDedup` | 3 requests, 2 keys (lifetimes 2 and 1), 1 tick, 1 reload, 1 drop | a key has one leader until the first reload; answers are for the right key; a follower has something to wait for; only requests that led at a clear may bring back answers of the old configuration; a request the cache answers came while the answer lived, and before the first reload a key's handlers run once per lifetime; every follower is answered unless its leader was dropped |
| `GrpcDedupDropped` | 3 requests, 1 drop | violation: no takeover after a dropped leader |
| `GrpcDedupReload` | 3 requests, 1 reload | violation: several leaders after a clear |
| `CaptureBroker` | 2 agents, 2 frames | calls return only frames published after they began and newer than their client named; a sleeping call has missed nothing since it fell asleep; a call times out only if no frame for it was there at any moment it slept; every call returns |
| `CaptureBrokerLostWakeup` | 2 agents, 2 frames | violation: a call sleeps although its frame is there |
| `EsimBridgeMixed` | a getter, a download, a simple request; 1 reply, 1 cut, 1 failed dispatch; channel of 1 | every unresolved acceptance is held by the queue or the connection; a timeout means no usable event was there |
| `EsimBridgePrune` | a getter and a download; 2 replies each, room for 1 record, 1 tick that makes records old, 1 cut, 1 client gone | a listening handler cannot miss its final event; an ended record holds the event that ended it; the first final event stays; every handler ends, with one exception |
| `EsimPipeline`, intents | any 2 of 8 (2 listings, 3 getters of which one without an id, 2 downloads, a deletion), one pair may overlap; 1 lost event | with nothing lost or overlapping a request hears of its own operation only, and in any case of no earlier one; a result fits its request also under overlap; nothing follows a download's final event; every request hears its final event |
| ... carrier lock | 2 downloads, a deletion, another intent, in turn | a protected profile is deleted only if its name could not be read |
| ... parser | up to 3 elements of 8 digits, cut anywhere, 2 iterations | every field that can be read is read |
| ... runtime | 5 processes, of which 1 at a time runs on after `stop` gave up on it; starts, stops, ends and failed launches without bound | a server that runs is in use or being stopped, unless `stop` gave up on it; while one is desired and supervised it runs again and again, unless the supervisor waits for such a one |
| `Settings` | 2 updates of 10 kinds (4 refused), 2 crashes, 3 files, 2 local files, `MaxI64` 1, on the device | a refused update changed nothing; a finished one left no old answers but those of leaders that were at it when the cache was cleared; settings survive a restart; what keeps the server down; when the last good file is lost |
| `Understand` | 2 conversations, 3 runs, room for 1 image, lifetime 2, 2 ticks, 1 reload, 2 losses | the agent hears the whole conversation before the question, each earlier question with its own picture, and with the question its own picture or the last one sent inline; a picture that is fresh and not displaced is used |
| `ProxyHistory` | a chat of up to 3 messages | violation: the proxy's history lacks a question |
| `Stores`, images | 3 runs, 2 frames, room for 1, lifetime 2, 3 ticks | the store implements `RunImages`, and holds at most one image more than its cap |
| ... log | 2 conversations, 3 questions (2 texts), an answer or silence, 2 ticks, 1 loss | a saved exchange stays in the log |
| ... media | 1 memory, 1 asset, 2 thumbnails, 3 faults | a complete memory has its files; a listed one its directory and last thumbnail; the portal agrees |
| ... contacts | 2 contacts, 2 cards, pages of 1, 3 writes, 2 milliseconds, 1 mishap | the device's copy is the server's as of its cursor; no reset is lost but in the four named ways |

Each property whose statement has an exception has it because the code gives no
more, and no line of the repository excludes the case:

- `OnlyOwnEvents` and `DownloadEndsOnce` hold as long as intents do not overlap
  (`overlapped` records whether they did): an event that a callback makes while
  the context is rewritten may carry the new request id, or the old action with
  the new id, and is forwarded under it.
- `EveryOperationReported` excepts overlap, loss, and operations that end with
  an intent result the event store does not know, whose requests are never
  told.  It is stated as `[]<>` of all requests: what a request was told is
  never taken back, so this is the stronger form, and one temporal formula
  instead of one per request.
- `EveryWaiterAnswered` excepts followers of a dropped leader (section 4), and
  `EveryHandlerEnds` a request that the device refuses after its record was
  pruned: `handle_incoming_message` resolves a refused acceptance only through
  the record, so that handler waits until the connection ends.
- `OneServer` excepts processes that `stop` could not end, and `ServerComesBack`
  the time in which the supervisor waits for one of them.
- `SettingsInForce`, `NoOldAnswers` and `SurvivesRestart` except what a client
  left behind that went away during its update, until the next one ends;
  `NoOldAnswers` also the answers of leaders that had chosen their handlers
  before and had not ended when the cache was cleared.
- `RefusesOnlyUnsound` and `SurvivesRestart` except a number that does not fit
  the file; the former also a relative memory path, which an update lets through
  when it turns the memory off and the local file turns it on again.
- `ExchangesKept` excepts a conversation whose saves overtook each other or
  failed, and two that gave the log the same message for the same place.
- `CompleteMeansUploaded` excepts files that a retried upload cut off, or that
  went to the unknown bucket; `RowsHaveFiles` a memory whose deletion has begun;
  `PortalAgrees` memories whose last change the portal was not told of: the
  handler was dropped or failed, it could not read back what it had created, or
  a slow portal's stream skipped the event.
- `CopyFollows` excepts changes whose time had already been sent or that fell
  between the two reads of a full listing (`missed`), a reset that overran its
  two seconds into a sync, and one that cleared the contacts and not the cursor,
  because the device died or the commit failed (`crossed`).
- `ResetKept` excepts a reset that was lost (`lost`) with the answer to its claim,
  with the server's memory, with the device's process after the claim, or because
  the device's contacts could not be cleared.

Bounds.  Two requests of a key and one more are enough for every pairing of
leader, follower and latecomer, and the third may be a second follower or a
request for the other key.  One reload separates before, during and after; after
the one tick an entry of the lifetime 1 has expired while one of the lifetime 2
is fresh.  Two agents let a frame wake one call while the other is between its
check and its sleep.  In `EsimBridgeMixed` a channel of capacity one is the
smallest that overruns, and one of each kind of request shares the connection
that is cut; `EsimBridgePrune` has room for fewer records than requests, and a
lifetime of 0, so that after one tick the records are old.  Its replies are
reduced to those that can end a request or report a step of a download; the
refusals and the errors of the other run come from the device's own actions.

In the pipeline two intents are what can be confused, two of a kind included, one
of the eight has no id and so writes a context with an empty one, and may arrive
while a listing runs; one lost event is enough to lose any announcement or
property, and the two listings differ in count (one profile and none).  The
parser's limit of iterations is below the number of elements, so that it is met.
Five processes are the one in use, the one `stop` is ending, the one it gave up on
(`MaxForsaken`), the one the supervisor waits for, and the one a launch makes.

Two updates are what one can find left behind by another, two crashes let a
restart be interrupted again; each request and each file stands for one way the
code treats a key, and `MaxI64` is 1 so that 2 does not fit.  In `Understand`
two conversations compete for room for one image; three runs give one of them a
second question, with its history, within two ticks an image is refreshed or
grows old while the question waits, and of two losses one may hit each conversation.  In the stores
three runs with room for one make pruning choose, also among ties; three
questions give a conversation a second and a third exchange, or two
conversations the same place, and two ticks pass the time within which a row is
rewritten.  Three faults cut off an upload, drop its retry and crash the server;
two thumbnails are what a count can be wrong by, and pages of one contact make a
listing of two have an end.  Two milliseconds are equal or different.
`Understand` and `Stores` use symmetry of conversations (and texts), which the
code treats alike; neither checks a liveness property.

Deadlock is not checked where the bounds let every request end
(`CHECK_DEADLOCK FALSE`); `CaptureBroker` can always start another call and is
checked for it.

Fairness.  Tokio polls a future that was woken, so each handler's own steps are
weakly fair; time passes, so a deadline comes (`CaptureBroker`); the bridge
task runs, connects again and writes what is queued; and, for
`EveryHandlerEnds` only, a device that has read a request accepts, refuses or
answers it (no failed dispatch, which is the one case in which it does not).
In the pipeline the threads of the hook and of the socket server run
(`HookStep`, `Deliver`); the LPA is assumed to call back until its operation
has ended.  In the runtime both threads run, and a launch that is tried over and
over succeeds once (strong fairness of `Restart`; without it nobody could bring
the server back).  No fairness is assumed of clients, of frames arriving, of
connections or of results.  That handlers return is assumed where `RunHandler`
is fair.

## 4. Findings

With a run:

- `GrpcDedupDropped`: the comment at `dedup.rs:220` promises a takeover when
  the leader is dropped; the sender stays in the map, so its followers hang.
- `GrpcDedupReload`: the comment at `dedup.rs:29` promises one handler
  invocation; after a clear all followers of a key invoke it.
- `CaptureBrokerLostWakeup`: the comment at `capture_broker.rs:92` promises
  the frame or a timeout; a frame that arrives between the check and the
  creation of the `Notified` future is slept over until the timeout.
- `ProxyHistory`: `conversation.rs:41` skips "the current run's user_request",
  which the OpenAI proxy has already taken out of the turns
  (`openai-proxy.rs:319`); the question before it is skipped instead.

Met while modelling, without a run of their own:

- eSIM.  An intent that arrives during a download clears the carrier lock's flag,
  and the vendor's check then deletes the profile (`CarrierLock` with
  `Overlap = TRUE`), although the comment at `EsimLpaHooks.kt:505` calls that
  branch unreachable.  The comment at `EsimSocketServer.kt:12` says that Rust
  connects to it; the hook does (`EsimEventEmitter.kt:121`).  Commands queued
  while disconnected run after a reconnection, when their clients have gone
  (`esim.rs:184`).
- Deduplication.  The key is path and body only, so calls that differ in their
  run id share an answer (`dedup.rs:189`), and error responses are cached too
  (`dedup.rs:276`).
- Images.  "Hard cap" (`image_store.rs:11`): a put inserts after it has pruned, so
  one image more is held (`BoundedByOneMore`).  The "latest UserRequest"
  (`vision.rs:14`) is the latest one with a picture, so an older question's
  picture may accompany the current one (`AgentHearsConversation` excepts it).  Calls without a run id all share the
  run "unknown" (`synapse/mod.rs:9`).  A handler chosen before a reload puts its
  picture into a store nobody reads (`Analyze`).  The simple backend drops
  the pictures of the history (`dumb_backend.rs:166`).
- Conversations.  The row of a conversation is found by one message's place, role
  and text; `created_at` is not refreshed, so it forks after ten minutes.
- Settings.  The comment at `config.rs:81` says that a configured key overrides
  the environment; the environment wins (`config.rs:550`).  An update may save
  what `Config::load` refuses (`Unsound`).  `config.toml.bak` is written and
  never read, and a second failed save copies the broken file over it.
- Media.  `thumbnail_count` is the index of the last thumbnail saved plus one, not
  the "number of thumbnails saved" (`storage.rs:23`).  A failed upload sends no
  event; a retried CreateMemory makes a second memory; a file whose owner cannot
  be looked up goes to the unknown bucket and is not found again.
- Contacts.  A change in a millisecond that was already sent, or after the clock
  was set back, never reaches the device; an import by name alone adds the
  contact again when it is retried; a PUT brings a deleted contact back.  The
  reset is taken by the claim and not confirmed: a lost answer, a device that
  dies, and contacts that cannot be cleared (`ContactsHooks.kt:49`) lose it, as
  does a restart of the server.
- Runtime.  A supervisor that read `desiredRunning` before `stop` may start a server
  after it, which lives until the next stop.  The listener may be told "stopped"
  last while a replacement runs (`ServerRuntime.kt:137`).  A first launch that
  fails leaves no supervisor, so nothing tries again (`ServerRuntime.kt:51`).  A
  process that outlives both waits of `stop` is lost to view
  (`ServerRuntime.kt:68`); a supervisor that waits for it starts no other until it
  ends, whatever is desired meanwhile.
- The event stream skips what a slow portal missed, and only logs it
  (`api.rs:1516`), and a memory that cannot be read back after its creation
  (`capture.rs:220`) has no event: the exceptions of `PortalAgrees`.

## 5. What is proved

The theorems hold for every value of the constants that satisfies the named
assumptions (lifetimes and bounds are naturals, `NONE` is no value).

`GrpcDedupProofs`.  The inductive invariant `IInv` adds to the types: a
registered channel belongs to a request with that key (`Registered`), a
follower subscribed to a channel of its own key (`Subscribed`), a request that
has collected holds a response it produced itself (`Holding`), everything in
the cache, on a channel or answered was produced for its key (`RightKey`),
without a reload a leader is the one its key is registered to (`OneLeader`),
a response from before the last clear is held only by those who led at it
(`StaleHeld`), an entry is stamped with the moment its request had the whole
answer (`Timely`, `Stamped`), and before the first clear two lifetimes of a key
do not meet (`Spaced`: every published answer is the cached one, older, or
dead).  None of the properties is inductive by itself: `SingleFlight` needs
`OneLeader` because the map, not the program counters, elects; `ReplyMatchesKey`
needs the keys of subscriptions; and `OncePerLifetime` needs both, since the
next leader is elected against the cache and the map, not against the answers
there have been.  From it follow `TypeOK`, `ReplyMatchesKey`, `SingleFlight`,
`WaitersHaveSource`, `StaleOnlyFromInFlight` and `OncePerLifetime`.

`CaptureBrokerProofs`.  `IInv` ties the generation of the latest frame to the
broker's, and an armed call that was not woken to the generation at which it
armed; a call asks for no less than the generation it began at and the one its
client named (`AsksForMore`), and a call for which a frame was there while it
slept still sees one as newer, at its timer as at the top of its loop, or has
returned it (`DueIsSeen`).  From it follow `TypeOK`, `ReturnsNewerFrame`,
`WakesEverySleeper` and `TimeoutMissesNothing`.

`EsimBridgeProofs`.  `IInv` adds to the types: which kinds of request take which
path through `esim.rs`, and that simple requests leave no record (`Paths`); that
acceptance senders live only as long as their connection
(`PendingIsConnected`); that a record's final event is an event of its own
request (`OwnFinal`); and that a command is queued once and written once, so a
request the device has not acted on has no final event (`WrittenOnce`).  The last
is why `NoOrphanAcceptance` and `NoFinalMissed` are not inductive alone: without
it, a request could be ended before its handler has queued it.  From it follow
`TypeOK`, `NoOrphanAcceptance`, `NoFinalMissed`, `StatusHasFinal`,
`FinalEventStable` and `TimeoutMeansUnanswered`, for any number of requests and
any capacity of the channel and of the record map.

`UnderstandProofs`.  The argument of the image store, taken into the conversation
that uses it: a conversation that waits has its run (`HasRun`), a picture in the
store is its run's own and was used when noted (`Recorded`, `UsedBefore`), and
what is not in the store is not owed to anyone (`Forgotten`).  `Shown` says what a
call holds for the agent between any two of its looks, and that its own look is
the last it has to make unless a picture was sent inline: other conversations'
looks, and reloads, leave it alone (`Steady`).  From these follows
`PictureIsUsed`, for any number of conversations, runs, images and reloads.
`TalkOK` says what the turns of a device look like: a request comes
first, each has its run and no answer has one, and the question a conversation
waits for is its last turn and the only one of its run.  Hence the last request,
which `extract_history` leaves out, is the current question and not an earlier one
(`EarlierIsFront`), the pictures beside the history are of earlier runs
(`EarlierRuns`), and the first run is that of the first turn (`IdIsFirst`);
`AgentHearsConversation` follows from `Shown`.

`SettingsProofs`.  Three invariants, one for each place an update changes.
`InForce` says what handlers and cache hold at every step of an update, and so
what a refused or finished one leaves: `SettingsInForce` and `NoOldAnswers`.
`Restart` says which of the two configurations, the new one or the copy kept for
the way back, loading the file or the document would bring back, key by key; it
rests on `DocumentKept`, that what is written is what is read, and on `Clean`,
that no setting is the text of the default prompt and none lacks a value that
has a default.  It gives `SurvivesRestart`, and `EchoChangesNothing`: a client
that sends back the settings it was shown changes none.  `Refusals` adds what
`Config::load` checks of the settings in memory, `Prepared`, and that what an
update writes passes these checks unless it is unsound (`DocumentStarts`); it
gives `RefusesOnlyUnsound`.  `Copies` says that a file on the disk is whole,
empty or cut, and a cut one's backup whole or empty; it gives `BackupLosesLast`.

`EsimPipelineProofs`.  Events of callbacks may be torn, so nothing is claimed of
their action and id together.  `IInv` says instead that when the main thread
announces an operation the context holds that operation's action and id
(`ContextOK`), that every announcement in the queue with an id has its request's
action (`AStart`, `QueueOK`), hence so has the store's current pair
(`CurrentOK`), and that only the store makes events of the result types
(`GotOK`).  From it follow `TypeOK` and `ResultFitsRequest`, for any intents,
overlapping or not, and any loss.

`SerialInv` is about intents that do not overlap, any number of them, one after
the other.  Operations begin once (`BegunOK`), and what runs is the latest one,
whose action and id the context holds (`AloneOK`).  The queue is in the order in
which they began, each operation's announcement before its other events
(`OrderOK`); what a request was told is of operations no older than the queue
(`KnownOK`); and neither what the store has collected for the current request nor
what any request was told is of an operation that began before that request
(`NotStaleOK`).  If nothing was lost, the first event in the queue announces the
operation it belongs to or is of the current one (`CompleteOK`): then a request
hears of its own operation only, and with losses of none that was over before it
began: `OnlyOwnEvents`.  `DownloadOK` follows a download from its announcement
until its last event has left the queue; nothing else resets its
end mark, so its final event is its last: `DownloadEndsOnce`.

`DeviceProofs`.  `OneServer` is not inductive alone: `stop` takes the
process into `toStop`, which must be free then, and it is while the main thread
is not about to run `Kill` or `GiveUp` (`NothingTaken`).  With it `RuntimeTypeOK` and `OneServer` follow,
for any number of processes.  For the carrier lock, under the assumption that no
intent arrives before the last one's work is over: one intent is at work
(`OneAtWork`) and a deletion runs with names in the open (`DeletesOpenly`), since
each intent begins by clearing the flag; `ProtectedKept` follows for any number of
intents.  Without the assumption it is false (section 4).  For the parser
`ParserInv` says where the loop stands: at the beginning of the k-th element,
after passing the k - 1 before it, with the fields of those; and that at the end
it has the fields of exactly the elements that can be reached.  `ReadsAllFields`
follows for metadata of any length, of any tags and lengths of elements, cut
anywhere.

`StoresProofs`, the images.  `ImagesInv` adds that an entry holds the last frame
and the last use of its run (`ImagesRecorded`), and that whatever the store no
longer holds it may forget (`ImagesForgotten`).  The latter is what makes the
refinement go through: a run dropped for capacity leaves `MAX_IMAGES` runs used no
earlier, and the set of such rivals only grows until the run is put again.  From
it follow `TypeOK`, `BoundedByOneMore`, and `ImplementsRunImages`: initial states
map to initial states, and every step to a step of `RunImages` or a stutter.

The memories.  `MediaInv` says what each handler may still have to do
(`HolderOK`), what every call left behind by a dropped one needs (`LateOK`: a row
is inserted only where the directory is or the deletion has begun, a thumbnail is
counted only when its file is whole, a memory completed only when all was sent),
that nothing else touches a memory while it is created and its thumbnails are
counted in order (`Unborn`, `CreationAlone`), that what was sent is whole but for
the named excuses (`SentOK`, `Writing`), and that the portal agrees on every
memory no handler is at work on and none left unseen (`AgreesBut`).
`RowsHaveFiles` is not inductive without `LateOK` and `CreationAlone`: the calls
that would break it are those on their way in a handler, or outliving one.  From
it follow `MTypeOK`, `RowsHaveFiles`, `CompleteMeansUploaded` and `PortalAgrees`,
for any memories, assets and thumbnails and any number of faults.

The contacts.  `ContactsInv` says that the device's copy is right for every
contact whose last change was sent and not missed (`CopyOK`); that a full listing
which waits for the deleted contacts has every live one as it is (`ListedOK`);
and that the pages on their way have whatever changed after the cursor, as it is
now, numbered and counted right, with those that arrived applied (`SyncOK`,
`SendingOK`).  Two things are needed beyond the steps: that cutting a list into
pages loses none of it (`CutIntoPages`), and that an import, contact after contact
of its batch, leaves every row as it was or rewritten at its time
(`ImportIsRewritten`).  From it follow `CTypeOK`, `CopyFollows` and `ResetKept`,
for any contacts and batches and any size of a page.

The log.  `LogInv` says that questions are numbered as they are asked and a waiting
one is the last turn (`QuestionsOK`), that a task, however late, tells its question
with all that was said before it and what the device heard of the answer
(`SavesOK`), that the last run saved of a conversation is told by some row
(`LatestKept`), and that what the device heard was saved or is about to be
(`HeardSaved`).  A row that tells a question has every exchange before it, because
what is spoken only grows (`SpokenGrows`, `SpokenTogether`): `ExchangesKept`.  A
save rewrites a row only if the row holds the message before the question at its
place (`RowsAfterSave`); another conversation's row that does would have given the
log the same message for the same place.  In looking for this invariant it turned out that
`ExchangesKept` needs its second exception as it is stated now: an earlier form
compared what two devices had heard turn by turn, and TLC found, with six
questions, a reply lost on the way that moves one conversation's places in the log
against the other's.  From `LogInv` follow `LogTypeOK` and `ExchangesKept`, for any
number of conversations, questions and losses; and with the types of the others
`StoresTyped`.

Induction.  The provers cannot instantiate an induction theorem that takes an
operator.  Where a proof needs induction (over the elements of the metadata, the
items of a batch, the turns of a talk) it goes over a set of numbers: a set that
holds 0 and with each number the next holds all (`SetInduction`, from the
well-foundedness of <).  The functions defined by recursion are unfolded the same
way (`SpokenUnfolds`).

Only model-checked: liveness (`EveryWaiterAnswered`, `EveryCallReturns` and
`EveryHandlerEnds` of the server, `EveryOperationReported` and `ServerComesBack` of
the device), which is outside the prover's reach, and the violations.

## 6. Not modelled

`PROJECT.json` lists every component with its status.  Left out, with reasons:

- Constant stubs, the single-method bypass and interaction hooks, and prompt
  texts: they keep no state, or only the vendor's, whose classes and threads are
  not in the repository.
- AiBus lookups: conversions of third-party answers; the only state is the last
  location.
- Agent and LLM providers: the result of a model is arbitrary, and the loop that
  calls tools is the library's.  `Understand` lets it answer anything.
- Long-term memory: it is the memvid library behind one mutex, and what that
  library's frame ids and commits mean is not in the repository.
- Music and voice: players over web services and the librespot process, whose
  protocol and timing are not in the repository.
- USB and network bridges, the injector, the scripts: byte pumps started and
  stopped by the Android framework, and sequences of shell commands.
- Of modelled components: the start and stop of the eSIM socket servers; the list
  of events kept with an eSIM record; the mDNS announcement and the log threads
  of the runtime, the Android service around it, and the first configuration it
  writes; the routes of `api/dev.rs` and `api/device.rs`, which read logs and
  forward commands; the streaming of the proxy's answer; the vendor's contact
  filter.
