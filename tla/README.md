# Verification of ilink-gateway

TLA+ models of the gateway in this repository, the TLC runs that check them and
the theorems TLAPS proves about them.

## 1. The system

The repository holds two gateways between a chat platform and local agents, and
two agents. All paths are below `src/`.

| Component | State it keeps | Operations | Modelled in |
|---|---|---|---|
| **WeChat gateway, long-poll loop** (`gateway/src/main.rs` 214-456) | `sync_buf`, `DedupCache`, the message at hand, `message_contexts` | `get_updates`, dedup, quoted replies, routing, inline answers, recording the context, media download, socket push, errcode -14 | `WechatGateway` |
| **Router and queues** (`router/router.rs`, `agents/queue.rs`) | `active_agent`, one queue per agent | `handle_incoming`, `route_to_agent`, `/use` and the other commands, admission policies, enqueue, `dequeue_all`, `update_last_media` | `WechatGateway`; its mutex in `RouterLock` |
| **Agent registry** (`agents/registry.rs`, `main.rs` 458-476) | registered agents, their status and `last_seen` | register, `mark_online`, `check_heartbeat` | `RouterLock`; membership in `WechatGateway` |
| **HTTP API** (`api/server.rs`) | none of its own | register, poll, reply, status | `WechatGateway`; on the runtime's workers in `RouterLock` |
| **Reply processor** (`main.rs` 800-969) | the reply channel, the reply at hand | look the asker up, send the messages of a reply, save the `agent_context` of each | `WechatGateway` |
| **Send path** (`main.rs` 458-798) | `CircuitBreaker`, `TypingTicketCache` | `resilient_send`, `with_typing`, ticket fetch with one request in flight | `SendPath` |
| **Agent WebSockets** (`api/ws.rs`, `agents/ws_registry.rs`) | `WsRegistry`, a channel and two tasks per connection | register, push, unregister, write, read, ping | `AgentSocket` |
| **SQLite store** (`storage/sqlite_store.rs`) | `msg_agent_context`, `credentials`, `gateway_state` | save and look up contexts, save and load credentials, save and load the state | `SqliteStore`, which implements `QuoteTable`; as the loop sees it `WechatGateway` |
| **QR login** (`main.rs` 130-190, 971-1095; `ilink/client.rs` 115-149) | the client's host, the deadline, the refreshes | show and poll a QR code, follow redirects, refresh it, save the credentials | `Login`, with `SqliteStore` |
| **`/cmd`** (`router/commands.rs`, `router.rs` 256-276) | the command that runs | parse, block, run under the router's mutex, time out, truncate | `RouterLock` |
| **CDN media** (`ilink/media.rs`, `ilink/download.rs`, `main.rs` 407-436, 859-966, 1200-1290) | the cached files, the objects at the CDN, the upload at hand | download and decrypt, encrypt and upload, refer to it in a message | `Media` |
| **iLink client and types** (`ilink/client.rs`, `ilink/types.rs`) | none that changes | HTTP requests, their fields | in part, by the modules of the callers |
| **Configuration** (`config.rs`) | none that changes | environment | its values are constants |
| **Feishu gateway, events to agents** (`feishu-gateway/internal`: `feishu/ws.go`, `router`, `agent`, `dedup`, `msgctx`, `api`) | registry, queues, active agent, dedup cache, message contexts, SQLite | `handleEvent` in a goroutine per event, `HandleIncoming`, register, poll, `downloadMediaAsync`, cleanup | `FeishuEvents` |
| **Feishu gateway, replies** (`reply/processor.go`, `breaker`, `feishu/client.go`, `api/handler.go` 67) | bounded reply channel, the reply at hand, breaker | `handleReply`, `Run`, `handle`, `send` with its fallback, the client's gate and mark | `FeishuReplies` |
| **Feishu gateway, SDK, event parsing, configuration** | none that changes | conversions, environment | not modelled |
| **Claude Code adapter** (`client/claude-code-adapter`) | running queries and their queues per (wxid, cwd), pending approvals, sessions, streaming batcher | messages, `/compact`, `/cd`, `/resume`, approvals, tool calls, saves | not modelled |
| **Hermes plugin** (`client/hermes-wechat-plugin`) | last agent context | register/poll loop, splitting and sending replies | not modelled |

How they interact. The long-poll loop takes messages from the platform and puts
them into the queue of the active agent, or of the agent that wrote the message
a user quotes. Agents drain their queue with `poll` or are pushed to over a
socket, and answer with `reply` (HTTP or socket). A reply goes through a channel
to the reply processor, which looks the asker up in `message_contexts`, sends
through the shared send path, and keeps the id of what it sent with the agent's
name in SQLite, where the loop finds it when a user quotes that message. Loop,
reply processor, API handlers, sockets and the purge task are tokio tasks; they
share the router, the contexts, the store and the send path through mutexes.
Mostly one is held at a time; two at a time are, always in this order, the router
and then the contexts (`main.rs` 277-308, a routed quote), the store
(`api/server.rs` 110-122, a registration) or a queue. Two mutexes are held over an
await: the router's while `/cmd` runs, and the store's while a login runs
(`main.rs` 132-140), when no other task uses the store.

The Feishu gateway has the same path, but no loop: the SDK runs the handler of
each event in a goroutine of its own, downloads are goroutines too, agents only
poll, and replies go through a channel of bounded depth to one goroutine that
shares a circuit breaker with those that answer commands and download files.

What is hard in it. No critical section covers a whole message: between queueing
a message, recording its context, and attaching its files, agents poll and
answer, `/use` switches the active agent, contexts are purged. `sync_buf`
advances before the messages of a response are handled; a crash or errcode -14
has the platform deliver again; the dedup cache forgets after 300 s. Two tasks
share the breaker and the typing tickets. Connections of one agent are opened and
closed in any order. The store's methods are several statements without a
transaction. The router's mutex blocks threads, and a command keeps it for as
long as it runs. Downloads and uploads share a directory and fail half-way.

What makes each part correct:

* loop: at-least-once delivery, duplicates only beyond the dedup window, files
  only with the message they came with, a context for what waits in a queue;
* router: refused senders and groups get nothing into a queue, quotes of what is
  still known go to the author;
* reply processor: an answer goes to the user who asked;
* send path: a message is taken by the platform at most once, no send begins
  while the breaker should be open, one ticket fetch per user, the typing
  indicator ends, every send ends;
* Feishu events: a message is queued once although its event is pushed again
  while it is handled, with a context to answer it; refused or unaddressed
  messages leave no trace in a queue;
* Feishu replies: in the order posted; a POST returns even if the processor
  hangs; the breaker silences for the cooldown and then lets calls through;
* sockets: in order, once, to the right agent; a replaced connection is not
  pushed to again but delivers what it accepted;
* store: bounded, keeps the latest contexts, never loses a login;
* login: ends in time, and the loop talks to the host its credentials are for;
* registry and `/cmd`: who is marked offline was quiet, who is quiet is marked
  so; a command ends, and nobody who asks waits for ever behind it;
* media: a path given to an agent leads to a file of that message, and what a
  user is sent opens to the file the agent named.

## 2. The modules

Each definition that models code is listed with its lines in `PROJECT.json`
under `map`. A definition called `Variant` in its comment is a plausible bug; it
is used by no specification, only by the mutants of `PROJECT.json`, which show
that each property can fail.

### WechatGateway

One action per critical section, and per step between two awaits. A mutex that is
locked while another is held belongs to that one's critical section.

| Variables | In the code |
|---|---|
| `inbox`, `acked`, `sent` | the platform: messages posted, the highest one a `sync_buf` has acknowledged, messages it took from the reply processor |
| `pc`, `next`, `upto`, `refAgent`, `target` | where the loop is in the response, the agent found for a quote, `active_agent` as read with the routing decision |
| `cursor`, `wakeAt`, `seen` | `sync_buf`, the pause after errcode -14, `DedupCache` |
| `registered`, `active`, `queue` | `Router` |
| `ctxs`, `replies`, `proc` | `message_contexts`, the reply channel, the reply being processed |
| `savedActive`, `stored` | SQLite: `gateway_state`, `msg_agent_context` |
| `handled` | history: messages the loop has finished with at least once |
| `saved` | history: messages of the gateway whose row was written |
| `excused` | history: the takes of quoting messages whose author could not be told, since the row was not written or no longer among the latest, or the author was not registered |

The actions follow the loop: `GetUpdates` or `SessionTimeout`, then per message
`SkipBot`, `SkipDuplicate` or `TakeMessage` (dedup, and the lookup of the quoted
message under the store's lock); `RouteQuoted`/`RefuseQuoted` (`route_to_agent`
and the insert of the context, both under the router's lock, which end the
message), or `Refuse`/`AnswerInline`/`RouteToActive` (`handle_incoming`) with what
follows: `SendInline`, or `Record`, `AttachMedia`/`MediaFailed` and
`Push`/`NoTarget`. `Allowed` is the two policies: a group's message is judged by
its group, any other by its sender; `Blocked` is what they refuse.
`Register`, `Poll`, `Answer` and `SendFirst` are the agents' calls, the last two
over HTTP or a socket alike. `TakeReply`, `DropReply`, `SendKeep`, `SendForget`,
`SendFails` and `SaveContext` are the reply processor. `PurgeContexts` is the
cleanup task, `Tick` the clock, `CrashRestart` the end of the process and the
next start: the memory is gone, `active_agent` comes back from SQLite.

What is assumed of the platform (it is not in the repository): a request's
`sync_buf` acknowledges everything up to it; an empty `sync_buf` makes the
platform start again anywhere among what is acknowledged; a response without
`get_updates_buf` leaves the old one. Every user message has an id of its own.
Agents put their own name into the `agent_context` of a reply, as both agents of
this repository do. The clock does not run backwards within one process.

### SendPath

`resilient_send` and `with_typing` as the two tasks run them. A task's `st` names
the await or lock it is at. All instants are kept as the time left, which `Tick`
reduces; no bound on time is needed. The platform's answers are `ok`, errcode -2
(`limit`), -14 (`session`), another errcode (`refused`) and no answer
(`broken`), in which case it may have taken the message or not. `quiet` is a
history variable: the cooldown that the last failure should have started.

### AgentSocket

`WsRegistry` and, for each connection, the reader (`handle_socket`), the send
task and the agent's end. `Push` is one critical section of the registry;
`Write` may still seem to succeed when the other end is gone. The reader ends
because the other end is gone (`ReadEnds`) or by an error of the socket while it is
still there (`ReadFails`); either way the send task is aborted.

### QuoteTable, SqliteStore and Login

`Login` is the program from its start to its loop, `SqliteStore` the tables it
and the loop use, `QuoteTable` what the table of contexts promises.

| Variables | In the code |
|---|---|
| `rows`, `creds`, `clock` | `msg_agent_context`, `credentials`, `UNIXEPOCH()` |
| `saving` | `save_msg_agent_context` is between its INSERT and its DELETE |
| `phase`, `host`, `got`, `expired`, `elapsed` | where `main` and `qr_login_and_save` are, the client's base URL, what the platform confirmed, `expired_retries`, the time since the deadline was set |
| `saves`, `order`, `setBack`, `missed` | histories |

The statements of `save_msg_agent_context` and of `save_credentials` are one
action each; `NextRow` is how SQLite chooses rowids. The SELECT COUNT and the
DELETE are one action, since the connection's mutex is held and only the program
writes the file. A statement may fail, the program may end at each point (`End`)
and the clock may be set back. Every poll of the QR code takes any time up to
the client's time limit and gives any answer; a missing `baseurl` means the
built-in host, another missing field ends the program or is replaced by
`"unknown"` (one of `Accounts`).

`LatestKept` is a refinement: `SqliteStore` implements `QuoteTable` (`INSTANCE
QuoteTable WITH known <- DOMAIN rows, sooner <- SavedSooner, trusted <- ~setBack`),
the messages it knows being those with a row, `sooner` the pairs of them in the
order of their last saves. The code has no such order: its SELECT sorts by
`created_at` and `rowid`, and an `INSERT OR REPLACE` gives a row a new rowid.
That the two agree, as long as the clock is not set back, is what the run shows
and `TableKeepsLatest` proves.

### RouterLock

Who holds the router's `std::sync::Mutex` and who waits for it, with the threads
they wait on.

| Variables | In the code |
|---|---|
| `registry`, `active`, `saved` | `AgentRegistry` with the age of each `last_seen`, `active_agent`, its copy in SQLite |
| `main`, `cmd` | `idle`, running a `/cmd` (which holds the router), sending the answer, or ended by a panic; the time and the output of the command |
| `waiting`, `blocked` | tasks no worker of the runtime has taken; the task each worker is blocked with in `lock()` |
| `pending`, `hb`, `quiet` | the request each agent awaits, the checker's sleep, and a history of when an agent was last heard of |

`main` is not a worker: `#[tokio::main]` runs it on the thread that called it. A
worker that takes a task does it at once if the router is free, and is blocked
otherwise. Timers and the ends of processes are noticed by a worker that is not
blocked (`Driven`). An agent asks once at a time, but its HTTP client may give up
and ask again while the first handler still waits (`Repeat`, bounded by
`MaxTries`); a handler blocked in `lock()` is not cancelled. `Parse` is
`parse_command` on split words, an output is the widths of its characters.

### Media

| Variables | In the code |
|---|---|
| `files` | the agent's files and the cache directory |
| `cdn` | the platform's objects |
| `now`, `last`, `held` | the downloads of the message at hand, the last entry of the agent's queue, an entry the agent took |
| `job`, `sent` | the reply with files at hand and what is known of its upload; the media messages the platform took |

A message's downloads run at the same time and end in any order; each may fail.
A ciphertext is its key and the padded bytes, which is what AES-ECB keeps of
them; the padding is modelled byte for byte, since the code takes it off
unchecked. Another key makes `Garbage` of it, and so does a ciphertext whose last
block is short, which the code fills with zeros (`Blocks`). `Configured` is
`GW_CDN_BASE_URL`. A message without a text never gets to its files (the guard of
`Receive`).
A cached file is named by its message and its kind. Messages
have an id and go to one agent: the rest of the loop is `WechatGateway`'s.

### FeishuEvents

One action per critical section: no goroutine holds two of these locks at once.

| Variables | In the code |
|---|---|
| `inbox` | the platform: messages users have posted |
| `handlers` | one goroutine per pushed event: where `handleEvent` is, the agent it queued to, the download that follows |
| `seen`, `ctxs` | `dedup.Cache`, `msgctx.Store` |
| `registered`, `active`, `queue` | `agent.Registry`, `State.activeAgent`, `agent.MessageQueue` |
| `calls` | where each agent's register request is |
| `savedActive` | SQLite: `gateway_state.active_agent` |

A handler is `SkipDuplicate` or `RecordNew` (`CheckAndRecord`), then `Answer`,
`FindAgent` and `Switch` (`/use` looks the agent up under one lock and makes it
active under another), or `ReadActive` and `Enqueue`, then `PutContext`, and the
download as `Backfill` or `DownloadFails`. A registration is `Register`,
`Activate`, `Save`; `Poll` is the drain of `DequeueAll` (the check before it
cannot fail once it has succeeded, since agents are never taken out of the
registry). An agent has one registration under way at a time, as all clients in
this repository do. `Cleanup` may run at any time, which includes every five
minutes. `CrashRestart` ends the process and starts it again.

### FeishuReplies

`ch` and `waiting` are the Go channel and the goroutines blocked in its send,
which the runtime serves in order. `job` is the processor's reply: at the
client's `gate` or in the `call`, with the operation (`upload`, `reply`, `send`, or
`fallback`, the `SendMessage` after a `ReplyMessage` that failed in its call). `breaker` is
`Breaker` with the time its instants still matter: a failure counts until its age
exceeds `Window`, an opening until its age exceeds `Cooldown`, which is one tick
more than each. `Others` are the goroutines of `SendText` and
`DownloadResource`. `last` and `quiet` are histories. Whether the context of a
message is known when its reply is taken is a choice (`Targets`): `FeishuEvents`
has the contexts. The platform refuses a message id given as a user's id; a call
without an answer may have been taken.

## 3. What is checked

| Run | Question and result |
|---|---|
| `wechat_inbound` | With session timeouts, redelivery, `/use` during a download and a crash: every message is eventually handled, unless a download never ends (`EveryMessageHandled`), and none is acknowledged before (`AckedAreHandled`); duplicates lie `DedupTtl` apart (`DuplicatesAreLate`); what waits can be answered (`AnswerableWhileQueued`); files reach the message they came with (`MediaIsOwn`). Holds. |
| `wechat_replies` | With admitted and refused users and groups, two agents, replies of two messages, quotes before and after the save, trimmed rows and a crash: nothing refused is queued (`RefusedNeverQueued`), a quote goes to the author whenever the author could be told (`QuoteReachesAuthor`), an answer to the asker (`AnswersGoToAsker`). Holds. |
| `wechat_refused` | `RefusedStaysOut`: nothing of a refused sender gets into a queue. Violated, see section 6. |
| `send_path` | Two senders, one user, all answers: `AtMostOnce`, `OneFetchEach`, `TypingEnds`, `QuietAfterFailure`, `EverySendEnds`. Holds. |
| `agent_socket` | Three connections, two agents: `ReplacedForGood`, `EndedIsForgotten`, `InOrderOnce`, `AcceptedArrives`. Holds. |
| `login_store` | A login and the store, with every answer of the platform, failing statements, a clock set back and the end of the process at every point: `LoopUsesSaved`, `LoginInTime`, `LoginEnds`, `CredentialsStay`, `RowsBounded`, and the refinement `LatestKept`. Holds. |
| `router_lock` | One agent, four workers, all commands: `OfflineIsQuiet`, `QuietGoesOffline`, `CmdEnds`, `RequestsServed`. Holds. |
| `router_deadlock` | The same with two workers. `CmdEnds` is violated, see section 6. |
| `media` | Messages of several files, downloads and uploads that fail, crashes: `PathLeadsToOwn`, `SentOpens`, `ReplyEnds`. Holds. |
| `feishu_events` | Two agents, two pushes of messages of every kind, a crash: `DuplicatesAreLate`, `AnswerableWhileQueued`, `OnlyAdmittedQueued`. Holds. |
| `feishu_replies` | Four replies through a channel of one, another goroutine on the breaker: `InOrder`, `QuietAfterFailure` (which leaves the fallback after a failed reply aside), `EveryPostReturns`, `BreakerRecovers`. Holds. |
| `feishu_fallback` | `FallbackIsCalled`: what follows a failed `ReplyMessage` is a call of `SendMessage`. Violated, see section 6. |

Bounds, and why they are enough.

* `wechat_inbound`: two messages (a response of two, and a redelivery of either
  while the other is at hand), two agents (a switch), one crash, a clock of two
  units of 300 s. `DedupTtl` = 1, `CtxTtl` = `Pause` = 2 are the ratios of the
  code (300, 600 and 600 s), so a message can come again within and beyond the
  dedup window and a context can be purged. The shapes are a message with a file
  and a `/use`. No replies: they change nothing the properties read.
* `wechat_replies`: two messages, one reply of up to two parts, one crash; both
  users, since a wrong addressee needs two, and an admitted and a refused group,
  since a refused user may write in the one and an admitted one in the other. Time
  stands still: ages only decide what is purged, which drops a reply but never
  redirects it. No message of these shapes names an agent, so the agents are
  symmetric.
* `StoreCap` = 2 drops a row when the second is saved, as `>=` in the code does.
* `send_path`: one unit is 8 s for the pauses 1, 2, 4, 8 s, 30 s and 10 s, each
  rounded to the unit; a ticket lives for 5 units, longer than a whole sequence
  of pauses and short enough to expire between two sends and during a slow one.
  `Threshold` is 1 as in `main.rs`. The two senders are all there are.
* `agent_socket`: an old, a new and a third connection, two messages.
* `login_store`: a limit of two with four messages and five saves, so that rows
  are dropped, replaced and dropped again; one missed trim; a clock of three
  values, so that rows of one second, of different ones and of a time set back
  meet. Times of the login are in units of the request's limit: `Deadline` 4 (the
  code's 480 s are 5.3 of its 90 s), three refreshes as in the code, two hosts of
  which any may be the configured, the redirected or the confirmed one. One
  account: nothing compares accounts.
* `router_lock`: the ratios of 30 s (`Interval`), 60 s (`Timeout`) and 30 s
  (`DefaultTime`); a command of 90 s outlives a heartbeat's timeout. One agent
  with two requests at a time, the checker and one more make four workers as
  many as may ever wait, so that one is always free; two are fewer, as on a
  machine of two cores. Other agents would add waiters, and none of the
  properties relates two. The commands are every branch of `parse_command`; the
  outputs one that fits, one cut between characters and one cut inside one.
* `media`: blocks of two bytes and files of none to three bytes (no, half, whole
  and one and a half blocks), two of which end like a padding; three messages
  with a file that is never downloaded, two images of which one has another's
  key, a voice with a text and no key, an image alone and an image with a text;
  one of the ciphertexts lacks its last byte; replies of the agent's own files and
  of a cached one. One reference may be given
  to an upload: a second upload changes nothing of the first.
* `feishu_events`: two pushes are two messages or one pushed twice, at work at
  the same time; two agents for `/use`. Both ages are one unit (`GW_DEDUP_TTL` is
  configurable, the contexts' 10 min are not) and the clock has two, so that
  entries are forgotten and contexts cleaned up. The shapes are a message with a
  file, `/use`, a command without effect, a refused sender's message with a file,
  and a group message with and without a mention.
* `feishu_replies`: `Depth` 1 and four replies: one at hand, one in the channel,
  two waiting, so that handlers give up and are let in in either order. Every
  reply is a text with a file, which takes all operations. `Threshold`, and
  `Window` = `Cooldown`, are as in `main.go`. One other goroutine is enough for a
  success or a failure that comes in between; two give the same kinds of steps.

Deadlock is checked in every run but that of `AgentSocket`, where each
connection ends for good and is not opened again.

Fairness. `FairSpec` of `WechatGateway` asks that the task of the loop is
scheduled where it is ready or awaits a request of the iLink client, which has a
time limit of 90 s, and that time passes; users, agents, replies, session timeouts
and crashes owe nothing. It asks nothing where the loop is `Outside`: awaiting
downloads, whose client has no time limit (`main.rs` 119), or running an inline
command, which may be a `/cmd` that stands still for good (`router_deadlock`).
`EveryMessageHandled` therefore says that every message is handled or the loop
stays `Outside` for ever: nothing else can stop it. `SendPath` asks the same of
each task: every request ends, if only by the 90 s timeout of the HTTP client
(`ilink/client.rs`). `AgentSocket` asks that both tasks of a connection are
scheduled, and that a reader learns of an end that is gone (the 30 s ping, and
TCP); a socket owes no error.
`FeishuReplies` asks that time passes and that a handler whose timer has fired is
scheduled, and nothing of the processor: the SDK's calls have no time limit.
`Login` asks that a login goes on, since its requests have time limits. `Media`
asks that the reply processor does, for the same reason, and nothing of the
downloads. `RouterLock` asks that a free worker
takes what waits, that whoever waits for a free router gets it (with the code's
mutex, in no order), that driven timers fire, and that what comes in leaves
moments in which nothing is left to do but to let time pass (`[]<>Idle`, or the
process has ended): steps take no time in the model, and without it an agent
could ask infinitely often before the next tick. It asks nothing of agents, nor
of the processes of commands.

## 4. What is proved

`WechatGatewayProofs` holds for every number of agents, users, messages, parts,
ticks and crashes, from `GatewayAssumption` alone (the constants have their
types, the durations are positive, and `NoAgent`, `NoUser` are no agent, no
user).

* `TypeInvariant`, `TypeCorrect` (`[]TypeOK`). `TypeOK` is not inductive: that a
  new entry has a time needs `pc = "route" => next \in DOMAIN seen`, and that
  files go to an agent needs `pc = "media" => target \in Agents`. Both are
  `StepOK`; `TypeInv` is the conjunction. One step of the proof per action,
  under it one per conjunct of the type the action disturbs; `TypeFrame` does
  the others.
* `AtLeastOnce` (`[]AckedAreHandled`). `AckInv` adds what the order of the
  loop's steps achieves: everything up to `sync_buf` is handled or still ahead
  in the response (`next..upto`), so that when the next request acknowledges it,
  nothing is ahead; and whatever the dedup cache would skip is handled or in the
  loop's hands, so that skipping it loses nothing. The cache is in memory, and
  empty after a crash, like `sync_buf`.
* `DuplicatesOnlyLate` (`[]DuplicatesAreLate`). `DupInv` adds that for every
  queued entry the cache still has the message with a time no earlier, or the
  entry is `DedupTtl` old (`EntrySeen`); hence a message about to be routed, for
  which the cache had no entry, has no young entry in any queue.
* `RefusedOut` (`[]RefusedNeverQueued`), for any policies on users and groups.
  `RefusedInv` adds that a queued message is one the platform has delivered, whose
  sender and group therefore do not change.
* `AnswersReachAsker` (`[]AnswersGoToAsker`). `AskerInv` follows the sender's
  name from the context over the reply being processed to what the platform
  took.

* `MediaStaysOwn` (`[]MediaIsOwn`). `update_last_media` writes into the last
  entry, whatever it is. `MediaInv` adds why this is the right one
  (`LastIsCurrent`): while an admitted message waits for its files, the queue it
  was given to is empty or ends with it, since only the loop appends and an agent
  takes all or nothing.
* `QuoteFindsAuthor` (`[]QuoteReachesAuthor`). The exceptions are part of the
  statement: a take of a quoting message is `excused` when the quoted row is not
  written (its save is to come, or a crash came before it, or nothing was saved), or
  `StoreCap - 1` later rows are, and when the author is not registered at the
  routing. For every other one, `QuoteInv` adds that a row written among the latest
  is still there (`RowsLatest`: a trim removes a row only once there are enough
  later ones; `RowIsNew`: the message being saved has no row yet), that a row
  names its author, and that what the loop has read is the author of the message at
  hand or excused (`ReadIsAuthor`).
* `QueuedIsAnswerable` (`[]AnswerableWhileQueued`). `AnswerInv` adds that a
  context is at least as young as the entry it answers, so that the cleanup takes
  it only when the entry is `CtxTtl` old; for this, the time a message was
  recorded in the dedup cache is never ahead of the clock.

`SendPathProofs` holds for any number of senders and users and all durations,
from `SendAssumption`. `SendInv` says what a task knows at each await (`TaskOK`:
nothing was accepted before a send is over; whoever is to show the indicator has
a ticket in the cache), that no two tasks fetch for one user, and that whatever
indicator is on has a task at a step from which it will be taken back. From it
follow `TakenOnce` (`AtMostOnce`), `OneFetch` (`OneFetchEach`) and
`TypingIsTakenBack` (`TypingEnds`). `QuietIsKept` (`QuietAfterFailure`, an action
property) rests on `BreakerInv`: with the program's threshold of one the breaker
is open at least as long as the cooldown of the last failure, whichever of the
tasks failed.

`AgentSocketProofs` holds for any agents and connections, from
`SocketAssumption`. `NewestOrNone` (`ReplacedForGood`) and `NoneEnded`
(`EndedIsForgotten`) follow from `SlotInv`: whatever is registered was opened
under that name, and its handler has not passed its `unregister`; since that
removes by name, whatever is there, no older one can be left behind.
`DeliveredInOrder` (`InOrderOnce`) follows from `OrderInv`: what a connection
received comes before what is in its channel, both ascend and are its agent's,
and two connections, received or waiting, have no message in common (`Apart`).

`LoginProofs` holds for any accounts, hosts, limits and tables, from
`LoginAssumption` and `StoreAssumption`.

* `LoginInv` says what the code's order of steps achieves: until the INSERT there
  is no row, from the confirmation on the login is a complete one, and what was
  inserted is what was confirmed. From it follow `HostIsSaved`
  (`[]LoopUsesSaved`), over every redirect and restart, and `LoginKept`
  (`CredentialsStay`, an action property): a login is started only without a row,
  so that the DELETE of `save_credentials` never removes one.
* `LoginTypeCorrect`, `TableBounded` (`RowsBounded`) and `LoginIsInTime`
  (`LoginInTime`) follow from `FullInv`. That SQLite finds a new rowid needs that
  rowids do not exceed the number of saves. `TimeInv` says how late each phase can
  be: in time before a poll, one request late after it, two after a new code.
* `TableKeepsLatest` (`LatestKept`) is the refinement. `OrderInv` says that rowids
  ascend with the order of the last saves, and `created_at` too, unless the clock
  was set back. Then an `Insert` is `Remember`, a `Trim` that removes a row is
  `Forget`, setting the clock back is `Distrust` and all other steps are
  stutters; for the `Trim`, the row its SELECT finds is first in both orders.

`RouterLockProofs` holds for any workers (a finite set), agents, commands and
durations, from `RouterLockAssumption` and `NoneAssumption` (the value that stands
for nothing is no task, entry or command). `LockInv` has the discipline of the
lock: no task is on two workers, or on one and waiting, and there is a command
exactly while `main` runs one. `LockTypeCorrect` is `[]TypeOK`. `OfflineHasReason`
(`OfflineIsQuiet`, an action property) needs `SeenInv`: the age of an agent's entry
is at most the time since it last asked, or one of its requests still waits for the
router; and, as requests are repeated, `TriesInv`: the ones that wait are no later
than the last.

`MediaProofs` holds for every block size up to 255 (`BlockAssumption`; the code's
is 16) and files of every length and any bytes (`ContentsAssumption`).
`PadLenBounds` and `PadShape` say what the padding is; `PadRoundTrip` that taking
off as many bytes as the last one says, unchecked, restores the file; `Opens` that
a file encrypted with a key decrypts to itself with it; `CiphertextSize` that the
announced size is of whole blocks and exceeds the file's by at least a byte and at
most a block. On these rest two invariants, for any messages and replies that
satisfy `MessagesAssumption`: the platform gives no id twice, what a message
refers to is at the CDN, and the agent's own files are not in the cache directory.
`MediaInv` says of each file, in the cache or the agent's own, what it may hold
(`Rightful`), and of each entry, download, reply at work and message sent which
file it leads to. `PathsAreOwn` (`[]PathLeadsToOwn`) is the way in: a file in the
cache is overwritten only by another of the same message and kind. `SentCanBeOpened`
(`[]SentOpens`) is the way out: key, reference, sizes and file stay together over
the steps of an upload, and an object at the CDN is not changed.

`FeishuEventsProofs` holds for any number of agents, users, events and crashes,
from `EventsAssumption`, with any number of handlers at work.

* `AdmittedOnly` (`[]OnlyAdmittedQueued`). `EventsInv` says what a handler knows at
  each stage: one that queues, records or downloads has an admitted message and an
  agent. A file attached to the wrong entry is therefore an admitted sender's, too.
* `QueuedOnceATtl` (`[]DuplicatesAreLate`). `DupInv` relates three kinds of pairs of
  the same message: two handlers that have not queued yet, a handler and an entry,
  two entries. Each pair is more than `DedupTtl` apart, since for each of them the
  cache still has the message with a time no earlier (`Recorded`), or that time has
  passed.
* `FeishuQueuedIsAnswerable` (`[]AnswerableWhileQueued`). `AnswerInv` says of each
  entry that its context is no older than the entry, or its handler is about to put
  it; that the handler meant is that entry's comes from `DupInv`.

`FeishuRepliesProofs` holds for channels of any depth, any number of replies and of
other goroutines, from `RepliesAssumption`. `TakenInOrder` (`InOrder`, an action
property): `ChannelInv` says that whoever waits finds the channel full, so that no
handler that comes later overtakes it, and `SentInv` that numbers ascend from what
was sent over the reply at work and the channel to those who wait, also when some
of these give up. `FailureSilences` (`QuietAfterFailure`): `QuietInv` says that the
breaker is open for at least the rest of the cooldown. The fallback is exempted in
the statement; as the breaker is open then, it does not get through either, unless
another goroutine's call succeeds in between.

Each of these inductive invariants was an invariant of the run of its module
before it was proved. What is defined by recursion cannot be unfolded in these
proofs: `SendPath` therefore writes out which failures stay in the window
(`Aged`), and `QuoteTable` orders messages by a set of pairs. `RouterLock` adds up
the widths of an output by a fold; no theorem depends on the sum.

Only model-checked: the liveness properties (`EveryMessageHandled`,
`EverySendEnds`, `AcceptedArrives`, `LoginEnds`, `QuietGoesOffline`, `CmdEnds`,
`RequestsServed`, `ReplyEnds`, `EveryPostReturns`, `BreakerRecovers`), for which
no proof of ENABLED or fairness is possible here. Each invariant and each action
property that a passing run checks is proved.

## 5. What is left out

* Text: message bodies, formatting, Markdown, the parsing of commands in the
  Feishu gateway.
* Headers and encodings of iLink requests. AES itself: a ciphertext opens with
  its key and with no other, and only if its last block is whole.
* Writing a file is one step: a crash in the middle of it leaves a cut file that
  nobody has the path of yet. Names of cached files without a message id, and
  the cache's cleanup, which the WeChat gateway does not have.
* The dedup key of a message without an id (`0:md5(text)`): the platform gives
  every user message an id.
* The order in which `std::sync::Mutex` serves those who wait, which is not
  specified, and who waits for other locks than the router's. The store's is held
  over the login, before any other task uses it; otherwise each is held for a few
  statements without an await, and whoever holds one of these takes no other, so
  that nobody waits in a circle.
* In the Feishu gateway also the online status, the cleanup of the media cache (a
  file that is a week old), a reply channel of depth 0, which no default sets,
  and the end of the process while replies wait: they are lost with its memory.
* The response of a poll getting lost: the protocol has no acknowledgement.

Not modelled as a whole: the configuration, which is read once; the Feishu SDK,
event parsing and media types, whose outcomes are choices of the Feishu modules;
the Claude Code adapter and the Hermes plugin, which are clients of the gateway in
other languages. The models have their requests at any time, in any order and
repeated, so what holds of the gateways does not depend on them; what they promise
to their own users is not covered. The hazards met while reading them are in
`PROJECT.json`.

## 6. Findings

Three runs show a disagreement.

* `wechat_refused`, `RefusedStaysOut` (`main.rs` 428): `handle_incoming` returns
  `Ok(None)` both for a queued message and for one of a refused sender. For the
  latter, `main` goes on to download its files, and `update_last_media` gives
  them to another user's queued message. `router.rs` 136 says "drop disallowed
  senders silently".
* `router_deadlock`, `CmdEnds` (`router.rs` 268): `/cmd` runs under the router's
  mutex, for which requests and the heartbeat checker wait with a blocking
  `lock()` on the runtime's workers. When all of them wait, nobody drives the
  timer, and the timeout `commands.rs` 86 promises never fires. Nobody notices the
  end of the command's process either, so the gateway stands still for good, even
  if the process ends by itself. As many workers as may wait are enough
  (`router_lock`), but nothing relates the number of workers, which is that of the
  cores, to the number of requests.
* `feishu_fallback`, `FallbackIsCalled` (`reply/processor.go` 133): the failure of
  `ReplyMessage` opens the breaker, whose threshold is 1 (`main.go` 56), and the
  `SendMessage` it falls back to is rejected at the client's gate, unless another
  goroutine's call succeeds in between. A reply to a recalled message is lost.
  `processor.go` 120-121 and `docs/feishu.md` 240 say that it falls back, and
  `processor_test.go` 552 tests it, with a client that has no breaker.

Others were met while modelling. The models have the behaviour; no run is spent
on them.

* `api/ws.rs` 127: the clean-up of an old connection unregisters by name, and
  takes out the sender of the connection that replaced it. `ws_registry.rs` 4
  says "new one replaces old".
* `main.rs` 774: errcode -14 on the last of the four attempts strips the token of
  a request that is never sent. `docs/wechat.md` 381 promises a retry without it.
* `feishu/ws.go` 188: `UpdateLastMedia` fills the last message of the agent's
  queue, whatever it is when the download ends. `ws.go` 151 says it "fills the
  queued message".
* `router/router.rs` 149: a message of an image, a video or an untranscribed voice
  alone is answered with the error "Message has no text content". `README.md` 88-90
  and `docs/phase-3.md` 163 say such files are downloaded and polled by the agent.
* `ilink/media.rs` 186: without `upload_full_url` the URL of an upload is
  `.../c2c/c2c?...`, since `ILINK_CDN_BASE_URL` ends in `/c2c`.
* `main.rs` 119: the client of the downloads has no time limit, unlike the
  others; a CDN that does not answer stops the long-poll loop.
* `main.rs` 1212-1258: files (as opposed to images, voices and videos) are never
  downloaded, although `extract_media_info` announces them to the agent, without a
  path.
* `main.rs` 1264: cached files are named by message and kind, so that two images of
  one message overwrite each other (`PathLeadsToOwn` allows it).
* `main.rs` 388 and `feishu/ws.go` 116: a message is queued before its context is
  recorded; an agent that polls and answers in between has its reply dropped by the
  one gateway, and sent to nobody by the other (`AnswerableWhileQueued` exempts it).
* `main.rs` 914-966: when an upload fails, the user is sent the error instead of
  the reply's text, and of a reply with several files all but the first are only
  named.
* `agents/registry.rs` 28 says `registered_at` is preserved when an agent
  registers again; `register` overwrites it.
* `storage/sqlite_store.rs` 183: the test is `>=` after the insert, so one row
  less is kept than the comment at 163 says.
* `router/commands.rs` 114: `truncate` panics inside a character; the panic ends
  `main` (`Panic` in `RouterLock`).

## 7. Plan

1. `Mailbox`, an abstract queue per agent that a message enters at most once per
   dedup window, which `WechatGateway` and `FeishuEvents` both implement, with the
   two refinements proved from `DupInv` of each.
2. The circuit breaker of both gateways as one abstract specification, which
   `SendPath` and `FeishuReplies` implement.
3. A model of the Claude Code adapter: running queries per (wxid, cwd), the queue
   behind them, `/compact`, approvals and their timers, old sessions that end
   late.
