# A verification of the proxy and its chat bot

The repository is a proxy that speaks the Anthropic Messages API and forwards
requests to other model providers, together with a chat bot (Telegram, Discord)
that runs Claude Code processes against that proxy, one message at a time per
conversation. This directory models the parts whose correctness depends on the
order in which things happen or on how pieces of data are cut and put together
again, checks them with TLC, and proves the central properties with TLAPS.

## 1. Inventory

Everything runs on one asyncio event loop, except the timer threads of the
session store, the transcription thread and the CLI processes. A step is atomic
between two suspension points (`await` of something that is not ready, `yield`
of an async generator), and every model takes its steps from there.

| part | source | state | operations | hard part |
|---|---|---|---|---|
| message tree and queue | `messaging/trees/*` | nodes and their states, a FIFO queue, the current node and task, the maps of the manager | create a tree, add a reply, enqueue and start, next, cancel a node / branch / tree / all, fail a node with its children, remove a branch | cancellation of a task at every suspension, replies that arrive during a `/clear`, hand-over in a `finally` |
| conversation handler | `messaging/handler.py`, `node_event_pipeline.py`, `event_parser.py` | per task: the captured session id, the transcript | admit a message, process a node, handle CLI events, `/stop` | late events after a cancellation, state looked up before an await |
| chat commands | `messaging/commands.py` | a branch or everything being cleared | `/stop`, `/clear`, `/stats` | they run next to everything else |
| transcript | `messaging/transcript.py` | segments, open blocks, a stack of subagents | apply an event | results that come out of order, or with a suffixed id |
| chat platforms, voice | `messaging/platforms/*`, `messaging/voice.py` | pending notes, the connection | start, retry a call, take a voice note | a `/clear` at any moment of a transcription |
| messaging limiter | `messaging/limiter.py` | a list and a map of queued sends, the worker, a flood pause | enqueue, fire and forget with retries, worker, shutdown | compaction of updates with callers waiting on each |
| CLI sessions | `cli/manager.py`, `cli/session.py`, `cli/process_registry.py` | pending and real sessions, one lock, a process per session, the registered pids | get or create, register the real id, remove, stop all, kill at exit | a lock held while a process dies; a second cancellation in the clean-up |
| session store | `messaging/session.py` | trees, node map and message log; dirty flag; timer | save, remove, clear, debounced write, flush, load | snapshots written by timer threads outside the lock |
| server, registry | `api/runtime.py`, `cli/entrypoints.py`, `providers/registry.py`, `api/admin_routes.py` | the registry in use, its clients, the steps of a shut-down | start, serve, drain, shut down, restart; get a client, clean up; apply, import, switch profile | a registry replaced and cleaned under a request |
| settings | `config/settings.py`, `config/paths.py`, `api/admin_config.py` | layered files, the cached settings, the active profile | load, show, validate, write, import, switch | which layer wins after a write; what is shown against what is used |
| request pipeline | `api/services.py` | one request: providers, keys, attempts | gather, queue, try, fall back, race, bury | retries after the first bytes went out |
| response delivery | `api/services.py`, `core/reliability/dedup.py`, `cache.py` | in-flight requests, multiplexers, the cache | look up, join, consume, iterate, cache, evict | readers that join late, read slowly or go away |
| circuit breaker, key pool | `core/reliability/*` | states and counters, keys with cooldowns and quotas | guard a call, force; hand out, mark, change, save, load | results of calls that began in another state |
| rate limits | `core/rate_limit.py`, `providers/rate_limit.py` | times of the last acquisitions; blocked-until, slots | acquire, wait, block, slot, retry | sleepers and newcomers race for a place |
| model router | `api/model_router.py` | sticky sessions, the last good provider | resolve, route, remember | memory that outlives the settings it was made under |
| provider streams | `providers/openai_compat.py`, `anthropic_messages.py`, `core/anthropic/*` | open blocks, block indexes, held-back events | chunk, close, recover | events that must nest whatever the upstream sends and wherever it breaks |
| parsers and mending | `core/anthropic/thinking.py`, `tools.py`, `stream_recovery.py` | a buffer and a mode | feed, flush, repair | tags cut between chunks; replies that repeat what was said |
| conversion, bodies | `core/anthropic/conversion.py`, `native_messages_request.py`, `providers/deepseek`, `providers/nvidia_nim` | none but the message being built | convert, sanitise, rename and rename back | order of calls, results and what was said after them |
| detection, adapters, catalogue, web tools, tracing, rendering, scripts | see section 6 | none, or counters that nothing reads back | | |

How they interact: the platform calls the handler for each message; the handler
adds the message to its tree, saves the tree in the session store and enqueues
it; the tree starts the task that runs `_process_node_impl`, which takes a
session from the session manager, reads the events of the process and writes
its progress through the messaging limiter. The process in turn sends HTTP
requests to the proxy, where the service routes them, looks for an identical
one, runs them through breaker, keys and rate limit, and a provider's transport
streams the answer back to everybody who waits for it. Commands reach into the
tree, the manager and the store, and the admin page into settings, keys and
registry, while all of that is going on.

What makes each part correct, in words: messages of a conversation are answered
one at a time, in order, each of them eventually, and what was stopped or
cleared stays so; no process survives its task, no two tasks share one; every
queued update is answered and the newest one is shown; no window of time sees
more calls than configured, and none is waited for in vain; what is on disk is
the latest state, or will be; a stream sent to a client is well-formed whatever
happens upstream, is of one attempt at its end, and says nothing twice; a client
in use is open; a setting that is shown is the one in use.

## 2. Plan

| step | modules | state |
|---|---|---|
| the conversation | `MessageTree`, with `Turns` as its abstract specification | done |
| what a conversation uses | `MessagingLimiter`, `CliSessions`, `SessionStore`, `Platform`, `Transcript` | done |
| an answer | `ChatStream`, `NativeStream`, with `ThinkTags`, `ToolText`, `Recovery`, `NimTools` for what they leave to others | done |
| a request | `Requests` (composes `CircuitBreaker` and `KeyPool`), `Delivery`, `ProviderLimiter` (extends `SlidingWindow`), `Routing`, `Conversion`, `Replay` | done |
| the process around it | `Server`, `ConfigFiles` | done |
| proofs | `MessageTree`, `SlidingWindow`, `ProviderLimiter`, `CliSessions`, `SessionStore`, `MessagingLimiter`, `Routing`, `Requests` with `CircuitBreaker` and `KeyPool`, `Delivery`, `ChatStream`, `NativeStream`, `Recovery`, `Conversion`, `Replay`, `Transcript`, `Platform`, `ConfigFiles`, `Server` | done |
| left | the intent guard, similarity hits and shadow request in front of `Requests`; a composition of `MessageTree` with `SessionStore` over `stored`; the parsers `ThinkTags` and `ToolText` and the names of `NimTools` as recursive functions, which could then be proved about | open |

Composition: `Requests` is composed with the breaker and the pool, whose state
all requests share, and `ProviderLimiter` with the window it waits in. `MessageTree`
knows of the session manager only that waiting for it takes time; `CliSessions`
knows of the tree only when it starts and cancels tasks. The variable `stored` of
`MessageTree` is the memory whose way to the disk `SessionStore` models.
`ChatStream` sees of the limiter that connecting succeeds or fails, and of the
parsers that a piece of content may turn out to be text, thinking or a call.
Parts that share no state are put side by side in one MC module (`MCRuntime`,
`MCReliability`, `MCUpstream`, `MCChatStream`): its variable `part` says, from the
initial state on, which of them a behaviour is about, and the others stand
still. That is a sum of their state spaces, not a product.

## 3. The modules

Definitions keep the names of the source where they can. A definition called
`X_Something` next to `X` is `X` with one plausible mistake in it; the
properties are known to notice it (`PROJECT.json`, "mutants"). It is used by
nothing else.

### Queues

`Remaining`, what is left of a queue when some leave it: `_SnapshotQueue` of the
tree, and the waiters of asyncio's lock and semaphore. It is a recursive function
on positions, so that the prover can be told what it returns. So is `Among`, the elements of a
sequence that are in a set, in their order, by which `Replay` and `Conversion`
pick blocks by their kind.

### MessageTree

One conversation: the tree of its messages, the queue and the task per node.

| code | model |
|---|---|
| `MessageTree._nodes`, `parent_id`, `MessageNode.state` | `nodes`, `parent`, `state` |
| `_queue`, `_is_processing`, `_current_node_id`, `_current_task` | `queue`, `is_processing`, `current_node_id`, `current_task` |
| `TreeRepository._trees`, `_node_to_tree` | `in_repo`, `node_to_tree` |
| `SessionStore` (the nodes saved for this tree) | `stored` |
| `_handle_message_impl` | `Arrive`, then `Admit` or `Reject` after the status message is sent |
| `process_node` around `_process_node_impl` | `Start`, `Skip`, `SessionReady`, `SessionInfo`, `Registered`, `ErrorEvent`, `Exit`, `Crash`, `Unwind`, `Cancelled`, `CancelledEarly`, `Finish`, one per suspension point |
| cancellation of a task before its first step | `DieBeforeStart`: asyncio never enters the coroutine |
| `/stop`, `/clear` as a reply | `Stop`; `ClearBegin`, then `ClearBranch` or `ClearRoot` after the deletion of the messages |
| `/stop`, `/clear` without a reply | `StopAll` or `ClearAll`, `StopAllKilled`, `ClearAllEnd` |

`stopped` is a history variable: the nodes a command moved to ERROR. Text,
status messages and the transcript are left out. Other conversations appear
only in that the session manager's lock may be taken. A session id is known to
a task at its start only if the session of a living task is found under its
parent's id (`CliSessions` shows that this does not happen; the tree's
properties do not depend on it).

`Turns` is what the tree promises: messages take turns, in the order they were
submitted, each at most once; a waiting one may be withdrawn. `TakesTurns` is the
refinement with `waiting` the queue, `active` the living tasks and `served`
those that were ever started.

### MessagingLimiter

The list of keys, the map from a key to the function to run and the futures
that wait, the worker with its three waits (flood pause, window, platform call).
Submissions are numbered, so that "newer" is comparable, and `shown` is what the
platform shows under each key. A platform call succeeds or fails as flood,
transient or other; a transient one may have reached the platform. Callers of
`enqueue` may be cancelled (`GiveUp`); callers of `fire_and_forget` are tasks
nobody holds and retry (`Retry`). Durations are left out.

### SlidingWindow

`StrictSlidingWindowLimiter.acquire` with a clock that counts units of its
resolution. A sleeping caller has a time to wake; from then on it tries again,
whenever it is scheduled. Jitter-free sleeping, as in the code, is the least
sleep; the model allows any longer one.

### CliSessions

The manager's three maps, its lock, a process per session, the registered pids.

- The lock is the sequence of its holder and those who wait: `asyncio.Lock` is
  first come, first served. Who gets it runs to its next suspension before
  anything else happens (`InTurn`, `Quiet`).
- `remove_session` and `stop_all` hold the lock while a process dies. A process
  obeys SIGTERM after any time, or is killed after the time-out (`Kill`), which
  only happens to a process somebody awaits in `CLISession.stop`.
- A cancelled task goes on as `Interrupted` says for each of its awaits. A second
  cancellation (of a `/stop` without a reply) is possible at every one of them.
- A reply uses its parent's session id as its temporary id, so that several
  replies share it. That is where this component is delicate.
- A process reports its id before it exits successfully, and closes its pipes
  only by exiting. `update_ui` and `tree.update_state` do not suspend: the first
  hands the edit to `fire_and_forget`, the lock of the second is never held
  across a suspension.
- `Shutdown` stops the sessions without cancelling the tasks, as
  `AppRuntime.shutdown` does; commands no longer arrive then.

### SessionStore

What the store holds is abstracted to a version, the number of the change it
contains; the file is the version written last. Each save cancels the timer and
starts another; a timer is a thread that fires, takes its snapshot under the
lock, writes outside of it and reports (`Fire`, `Snapshot` or `Idle`, `Land` or
`Fail`, `Written`). A cancellation comes too late for a thread that has fired.
`clear_all` and the flush at shut-down write on the event loop's thread. A failed
write leaves the store dirty and starts no timer. `Restart` is the end of the
process, whose daemon threads end with it, and `_load`.

### ChatStream

One answer, from the connection to `message_stop`.

| code | model |
|---|---|
| `SSEBuilder`, `ContentBlockManager`, `ToolCallState` | the record `sse`, its `tools`, and the operators from `Emit` to `CloseAll`, each from a builder to the next |
| `RecoveryHoldbackBuffer` | `held`, `committed`, and `Push`, in which the hold-back may end with any event, since it ends by time or by size |
| one turn of `async for chunk in stream` | `ThinkingChunk`, `TextChunk`, `FoundToolChunk`, `ToolCallChunk`, `FinishChunk` |
| `except Exception` | `Break` (retried, mended or reported) and `BreakForGood` |
| `_openai_recovery_events` | `RepairTools`, `ContinueText`, `RecoveryFails` |
| after the loop | `Complete` |

A chunk carries one thing, and content arrives as the parsers leave it, so a
piece of content may turn out to be text, thinking or a tool call. The arguments
of a tool are nothing, a piece of JSON or complete JSON. `early_retries` marks
the events, so that one can tell which attempt they are from. A client that goes
away just ends the behaviour: the generator is closed and no event follows.

### NativeStream

One answer of an upstream that speaks Anthropic's protocol itself. Its events go
through the block policy (`OnStart`, `OnDelta`, `OnStop` from
`native_sse_block_policy.py`), which drops thinking that is switched off, numbers
blocks anew and closes blocks that overlap. The tracker of
`emitted_sse_tracker.py` only observes: here it is a function of what the client
got and what is held back for it (`Starts`, `Arguments`, `OpenStack`,
`Salvageable`). `Break`, `BreakForGood`, `Retried`, `Recover`, `RepairTools`,
`ContinueText`, `RecoveryFails` and `Complete` are the ends of
`stream_response`. Upstream uses one index and one kind per block; blocks may
overlap, lack their start and have their stop repeated.

### Requests, CircuitBreaker, KeyPool

`Requests` is `_execute_request_with_retry_and_fallback` for what no cache and
no shortcut answers: `Gather` the providers that may take the request with a key
each, `Enqueue` and `LastGather` when there are none, then lanes (`Try`,
`LaneStep` with `FirstChunk`, `NextChunk`, `EndOfStream`, `AttemptFails`,
`LaneFails`, `Retry`), two of them at once in a race (`Settle`, `RaceLost`), and
`Bury` for the dead letter. A chunk names its provider, attempt and number, so
that one can tell what the client was given. It extends `CircuitBreaker` and
`KeyPool`, which all requests share; the semaphores are not shared, since every
HTTP request makes its own service. Of the breaker's clock only whether
`recovery_timeout` has passed matters (`Recover`); of the pool's, whether a
cooldown or the hour of a use is over (`CoolDown`, `Forget`).

### Delivery

How a response gets to its readers: `Answer` from the cache, or `Join` an
identical request that is being started (`RequestDeduplicator`), whose upstream
is read by a task of its own (`Pull`, `AppendChunk`, `Raise`, `TellError`, `End`,
`Finish`: `StreamMultiplexer._consume`) while each reader goes at its own pace
(`Register`, `Yield`, `Take`, `Sleep`, `Wake`, `ReadAll`, `Close`: `iterate`). The
multiplexer's lock is asyncio's, first come first served; a reader holds it
while its client takes a chunk. Clients may go away (`GoneJoining`,
`GoneYielding`, `Leave`, `Collect`); entries of the cache expire and are evicted.

### ProviderLimiter

`GlobalRateLimiter` of one provider, composed with the window it waits in: a
request holds a slot from before its first attempt until its stream is over
(`Open`, `Release`); each attempt looks at the reactive block (`Look`,
`Unblocked`), waits in the window (`Hold`, with the actions of `SlidingWindow`)
and is answered or refused (`Answered`, `Refused`, `Again`, `Fails`). A refusal
blocks the provider for its own backoff. Waiting callers may be cancelled.

### Routing

`ModelRouter` with what the module remembers between requests: the model each
session was given first and the last good provider. `Deciding` is the order of
the optional routers, `Preferred` the priority groups, `ResolveName` the names
of the gateway. The administrator changes the settings in between
(`ChangeSettings`). Names are records; texts are a set of traits.

### Conversion, Replay

`Conversion` rewrites a conversation message by message, one action per role
and form of content, with what has to be deferred behind the results of calls in
`pending` (`_PendingAfterTools`). A block is a kind and a number; a result has
the number of its call. A list of the client's is gone through block by block
(`UserList`), since a result may release what was deferred in the middle of it.
`Replay` is what a native body keeps of earlier turns:
DeepSeek's policy (`BuildDeepSeek`, which drops `DeepSeekDrops`) and the generic
one (`BuildNative`, `NativeDrops`).

### ThinkTags, ToolText, Recovery, NimTools

What the transports leave to pure code, under every cut and every answer of a
model. `ThinkTags` is the `<think>` parser character by character. `ToolText` is
`HeuristicToolParser` over pieces of text: a tag is cut wherever the parser could
tell the difference, and each piece can be followed to the client. `Recovery` is
which part of a reply is appended to a broken text, and which repair of broken
arguments is accepted. `NimTools` takes boolean schemas out of a tool, renames
parameters at every depth (`Aliased`), repeats the request once without a field
that NIM refused (`RetryWithout`), and gives the arguments that come back their
names again (`Restored`).

### Transcript

`TranscriptBuffer.apply` over every kind of event: segments, the blocks that are
open at each index, and the stack of subagents whose result has not come. Ids
are sequences, so that one can be the beginning of another, or missing. No id is
the beginning of an earlier one: that is the module's assumption, because the
code takes two ids for the same when one begins the other.

### Server

`serve()` around the application: start, serve, drain, the steps of
`AppRuntime.shutdown` under `best_effort` (`StepEnds`, `StepTimesOut`), exit or
restart. Registries are numbered, clients too; a client is created with the
settings of the request that asked first (`Get`). `Apply`, `Import` and
`ApplyAndRestart` are the admin page's posts, which replace the registry, and
`CloseNext` and `ApplyEnds` the cleanup of the old one, in which a close may
fail, or hang until the shut-down gives it up (`StepTimesOut`). Settings are their version.

### ConfigFiles

Where a setting comes from and what the page writes: a file is a function from
the fields it sets; the repo's `.env` lies below the managed file of the profile,
that below an explicit file, that below the environment (`Over`, `Loaded`,
`Shown`). `Target` is what a write puts into the file, with the template, locked
fields and masked secrets; `Pending` what the page says needs a restart.
`StartServer` reads the files again, inside the same process or a new one: the
files are chosen once per process, which is the third finding.

### Platform

The start of a platform with retries, the retry of API calls (`NetworkError`,
`LastChance`, `Refused`), and voice notes: announced, registered under both
message ids, transcribed on a thread, handled; `ClearReply` may cancel one at
any of these steps. Updates are handled concurrently, as Discord's are;
Telegram's library hands them over one at a time, which leaves fewer
behaviours.

## 4. The runs

| run | shows |
|---|---|
| `MessageTree_reply` | three replies in every tree shape, with reply-scoped `/stop` and `/clear`, failures and crashes: turns are serial and in order (`TurnsAreSerial`, `TakesTurns`), a pending node is always scheduled and the tree closed under parents (`TreeIsSound`), stopped stays stopped, the store mirrors the tree |
| `MessageTree_global` | a `/stop` or `/clear` without a reply around two replies: a busy tree has a living task, every pending message is dealt with |
| `CliSessions` | two tasks, replying to the same message or to none, with three global stops and a shutdown: no shared session, no process left behind, every live process registered or being stopped, slots freed; `stop_all` and cancelled tasks come to an end |
| `Runtime` | the server process, five parts, each on its own. Store: who is dirty has a timer, who is clean is written or being written (`StoreIsKept`), every change reaches the disk. Server: no request gets a closed client, a cleanup tries all (`ClientsAreKept`), the server comes back. Platform: a note that was called cancelled is not handled, every note ends. Limiter: list and map agree, no caller is forgotten, only a retry shows an older update (`QueueIsSound`), every caller is answered. Settings: a write changes what was posted and nothing else (`AppliedAsAsked`), and what is shown is used (`UsedAsShown`) |
| `ChatStream` | answers of up to three chunks with a break anywhere, one retry, every end of a recovery: well-formed at any time, whole at the end, of one attempt, without a lost block (`StreamIsWhole`), and it ends. With it: text is parsed once and in place, a mended answer repeats nothing, arguments come back from NIM under their names |
| `NativeStream` | five native events of two overlapping blocks, breaks, a retry and every end of a recovery: the same contract, and thinking that is off stays off |
| `Requests` | two requests on two providers with retries, fallback, race, blackout and a breaker that opens under the other: each ends, with one whole attempt or in the dead letters; markers and dead letters agree with the requests |
| `Reliability` | two readers of one response: both get all of it in order and are told its end, only whole answers are cached. A breaker with two overlapping calls: it counts failures in a row and stays open for its time. Three keys: each has its turn, a revoked one stays out over a restart |
| `Upstream` | three requests under one provider's limits (never more than the limit, nobody sleeps while there is room); conversations converted (nothing lost or doubled, results follow their call) and replayed; turns shown; streams cut every way; sessions routed (sticky until crowded out) |
| `MessageTree_stop_strands`, `ToolText_cuts`, `ConfigFiles_switch` | findings, see below |

Most invariants are conjunctions of named parts, each with a comment of its own.

### Bounds

`MessageTree`: four nodes give every tree of depth three, a queue of two behind
a running task and a `/clear` in the middle of a branch; the hazards need a
running node, a queued child and a newcomer. In the global runs three nodes
and one global command, whose effect is to reset the tree: a second one meets
only states the first one also meets, or two live tasks, which is a finding.
`CliSessions`: what one task can do to another takes two of them; two global
stops are needed for a cancellation in the clean-up of a cancellation, and a
third for one in what is left of that clean-up (`TrackedWhileAlive` below).

`Runtime`: with three timer threads two late ones overlap each other and a new
timer, and three versions leave each of them one of its own; a failure and a
restart each need one. Two posts of the admin page clean two registries at once
under a request; three clients are one more than a registry has entries, so that
one is made anew. A note is registered under two ids. Three submissions on two
keys allow a job in flight, a queued one and one that replaces it. Three fields
are a secret, the token, which has a rule of its own, and one that is not in the
template and needs a restart; two writes let the second find what the first left.

`ChatStream`: two chunks open two blocks and the third returns to the first kind
or gives the second tool its arguments; two tools make the flush and the repair
go over more than one; with one retry there is a first and a last attempt. Two
segments of text around or after a call meet every mode of the parser; the chunk
sizes cut every tag and also leave it whole. Five letters give a reply that
repeats all, some or nothing of the text. `NativeStream`: five events are two
blocks that open, get a delta each and overlap in their stops.

`Requests`: a fallback needs two providers, and with failures of either request
the breaker opens under the other; a threshold of one is enough for that.
`Reliability`: two readers are one that starts and one that joins late; two
contents of one hash, with answers of one and two chunks and a cache of one
entry, are joined, cached and evicted; a second call of the breaker leaves in another state than it entered; three keys let the
rotation go past one that is out. `Upstream`: with a limit of two and two slots
three callers compete, and five units are more than a window and a half; the
theorems hold without these bounds. Three messages with five blocks are a call,
its result and what was said after it; seven characters hold both tags with one
between them; three sessions crowd out one of the two that the map holds.

Callers of the rate limiter and replies are symmetric (`SYMMETRY`); runs with
liveness otherwise use no symmetry. Bounds on counters are constants with names
that end in `Max`, and `Horizon`. Deadlock is not checked since every system
here may come to rest.

### Fairness

Weak fairness of each task, handler, worker and command step: asyncio runs
every ready callback, sleeps end, and calls to the platform carry time-outs. Weak
fairness of the exit of a CLI process in `MessageTree`: a turn ends some day
(without it the tree waits, rightly). In `CliSessions` processes need not exit
by themselves; only `Kill` is fair, because `CLISession.stop` waits five
seconds. Timer threads are scheduled and writes return. Every wait of a stream
ends, for the connection, a chunk or a recovery, because the HTTP client has
time-outs; in `Requests` the watchdog ends an attempt that stalls. Chunks
themselves are not fair, an answer is just finite. In `Delivery` the producer
and the readers are scheduled, and a client takes its chunk or goes away. In
`Server` only the end of the serving, the time-out of a shut-down step and the
exit are fair: closing a client may hang for ever. The user's, the
administrator's and the provider's actions are never fair.

### Findings

With a run of their own:

1. *A `/stop` right after a message* (`MessageTree_stop_strands`). A task that is
   cancelled before its first step never enters `process_node`; the `finally`
   that would take the next node does not run and the conversation stays busy.
2. *Arguments cut behind a blank* (`ToolText_cuts`). While the textual parser
   reads arguments, a buffer that holds only a blank ends the call, so that a
   call written with a tag to a line loses its arguments for some cuts.
3. *A profile that is not used* (`ConfigFiles_switch`). The files of the settings
   are chosen when the class is made; a switch restarts the server inside the
   same process, which goes on with the old profile's file, while the page shows
   and writes that of the new one.

Stated as a property that no run of this directory checks; adding it to the cfg
named with it shows a behaviour:

- `OneConversation` (`MessageTree_global`): `cancel_tree` resets the tree while its
  task is still cleaning up; a new reply starts at once and the next one, queued,
  is started by the old task's hand-over (`queue_manager.py:568`).
- `StoppedMeansDead` (`CliSessions`): the clean-up of a stopped task removes, under
  the shared parent id, the session of the task that came after it; a following
  global `/stop` does not know that process (`cli/manager.py:114`).
- `TrackedWhileAlive` (`CliSessions`): a task that is cancelled once more while it waits
  for the standard error of the process it is stopping leaves through the `finally`
  of `start_task`, which unregisters the pid (`cli/session.py:249`, `283`). The shielded
  `stop` goes on and kills the process, so that `SessionsAreSound` says
  `TrackedOrStopped`; but an interrupt of the server in these seconds leaves a
  process that the safety net of `cli/process_registry.py:1-5` does not know.
- `ClearedStaysCleared` (`Runtime`): a timer thread took its snapshot before a
  `/clear` and replaces the file after it (`session.py:149`).
- `NoThinkingUnlessEnabled` (`ChatStream`): the recovery of a broken answer sends
  the reasoning of its own request (`openai_compat.py:572`).
- `OneAttempt` of `Requests`: a client whose provider broke off in the middle is
  given the next attempt from its beginning behind the part it has, although
  `services.py:74` says that failures in mid-stream propagate.
- `OnlyIdenticalShare` (`Reliability`): the hash of a request leaves out tools,
  limits and thinking, so that different requests share an answer
  (`services.py:138`).

Read while modelling, without a property:

- A child that failed with its parent stays in the queue; after a `/clear` of its
  branch `_process_next` makes the tree busy for a node it cannot find
  (`queue_manager.py:294`). A non-zero exit of a CLI process ends its node in
  COMPLETED, since it is parsed into an error and a complete event
  (`event_parser.py:173`). A global `/clear` does not cancel pending voice notes
  (`commands.py:232`); a failed transcription leaves its entry and its status
  message (`telegram.py:684-697`); a second attempt of `TelegramPlatform.start`
  always fails once the application was started (`telegram.py:156-171`).
- Shutdown of the messaging limiter never answers queued callers (`limiter.py:187`),
  and the flush at shut-down precedes the stop of the platform and the processes
  (`runtime.py:206`).
- `AppRuntime.shutdown` cleans the registry it was started with, not the one that
  `apply` put in its place (`runtime.py:229`); two overlapping posts drop a
  registry without cleaning it, and a client created while a cleanup waits is
  dropped open (`registry.py:528`). A request takes its settings when it arrives
  and its provider later, from whatever registry is current then.
- `import_config` neither replaces the providers nor restarts. What is pending a
  restart is forgotten by the next post in manual mode. A managed file that lacks
  fields leaves them to the repo's `.env` until the first write fills them in. The
  first write under a token that the environment locks puts the template's token
  into the file, which then wins. Values with single quotes or `${` do not come
  back as they were written (`_quote_env_value`).
- An event may follow `message_stop` in a native stream (`anthropic_messages.py:652`).
  Overlap is taken as long as possible, so a letter that was meant to be repeated
  can be swallowed. Text behind a bullet at the end of a stream is dropped.
- A sticky session keeps its model whatever its later requests ask for, and over
  changes of the settings; the failover memory goes round the settings' mapping;
  token counting does not go through the routers.
- Results of subagents that come neither innermost first nor exactly named close
  more than their own, so that text of one still running is shown.

## 5. Proofs

Every theorem holds for all values of the constants under the named assumption
of its module, which every run evaluates.

| module | theorems | invariant |
|---|---|---|
| `Queues_proofs` | (lemmas only) | |
| `MessageTree_proofs` | `Serial`, `StoreMirrors`, `StopsForGood`, `Closed`, `Sound`, `Working`, `TurnsAreTaken` | below |
| `CliSessions_proofs` | `Sessions` | `Inv`, below |
| `Upstream_proofs` | of the window: `Typing`, `Limit`, `SleepsWhenFull`; of the provider limiter: `LimiterIsUsed`, `LimiterKeepsLimit`; of routing: `Sticks`; of replay: `Replays`; of the transcript: `ShowsOuter`; of the conversion: `KeepsConversation` | `IInv`, `LimiterInv`, `RoutingInv`, `ReplayInv`, `TranscriptInv`, `ConversionInv`, below |
| `Requests_proofs` | of the breaker: `Counts`, `Keeps`; of the keys: `Turns`; of the requests: `AnswersEndWhole`, `Accounts`; of the delivery: `Delivers` | types and what the counters of each state hold; `TurnsInv`, `AttemptInv`, `AccountsInv`; `LockInv`, `StreamInv`, `WaitingShape`, below |
| `ChatStream_proofs` | `StreamsWhole`; of the recovered text: `Mends` | `StreamInv`; `MendInv`, below |
| `NativeStream_proofs` | `NativeStreamWhole` | `NInv`, below |
| `Runtime_proofs` | of the store: `StoreInvariant`, `TimerForDirty`, `CleanIsTaken`, `StoreKept`; of voice notes: `NotesCancelled`; of the settings: `Applies`, `Uses`; of the server: `KeepsClients`; of the messaging limiter: `Sends` | `StoreInv`, `NotesInv`, `FilesInv`, `ServerInv`, `SendsInv`, below |

*Queues.* What a queue of distinct elements is after an append, a removal at the
head and a removal from anywhere (`QueueAppend`, `QueueTail`, `QueueRemaining`): who is
in it, that nobody is in it twice, and, with `Before`, that nobody overtakes. What
`Remaining` computes needs an induction over the positions of the queue; it is
done once, by a least counterexample in a set of numbers (`LeastIndex`, `Reaches`),
as is what a fold keeps (`Folds`). `QueueAmong` says of `Among` who is in it, and
that two of them stand as they stood; `RemainingTwice` that to leave in two steps
is to leave in one, so that who leaves does not change what is picked of the
others (`AmongRemaining`).

*Message tree.* `Serial`, `StoreMirrors`, `StopsForGood` and `TurnsAreTaken` assume
`ReplyCommandsOnly`: no command without a reply is given. `StoreInv` adds to the
first two that a free tree has no living task and a cleared tree an empty queue
(`OneTask`), and that whatever is alive of a cleared tree has its cancellation
coming (`ClearedIsDying`), which is why no late save brings the tree back.
`StopInv` adds for the third that a task that may talk to its process is the
current node (`CurrentTalks`): `cancel_node` cancels only that one. A stopped
node then has nobody who could move it out of ERROR, and it is not admitted
again (`StoppedAreSilent`). The hypothesis is needed: `OneConversation` above is its
counterexample. `Closed` holds under every command; it rests on
`DescendantsProperties`: what `get_descendants` finds is closed under children,
and never the root.

`Sound` holds under every command too, and is `Closed`, types and that nothing
pending is forgotten. By itself the last is not inductive: `SoundInv` says who may
be in the queue (admitted, without a task, once), that the index of the
repository has the nodes of the tree, which node the tree's current task is of,
and that whoever has a cancellation coming is alive and not pending. `Working`
assumes `GlobalCommandsOnly`: with reply-scoped commands the first finding is a
counterexample. Its invariant is that a busy tree has a task that was entered
or is going to be (`HandsOver`). `TurnsAreTaken` is the refinement: every step of the
tree leaves queue, living tasks and started nodes alone, or is one step of
`Turns`; the withdrawal of a branch is one withdrawal of many messages.

*Sessions.* `SessionsAreSound` needs five further parts. `LockInv`: who is in the line
of the lock, once, and who stops a session is at its head. `CancelInv`: a cancelled
task is past its creation, and of two replies to one message one has ended or was
cancelled. `MapInv`: a session sits in the maps under the id its task will remove
it by, and a forwarding leads to an id that was reported. `NewInv`: a task that
waits for the lock to create its session finds none under its id, or `stop_all`
is in line before it; that is why `get_or_create_session` never hands out
another task's process. `ProcInv`: a process that runs on after its generator is
known to the manager or was taken out by somebody who is stopping it. The
attempt to prove that every live process is registered failed, rightly:
`TrackedWhileAlive` above is not an invariant.

*Sliding window.* `IInv` says that `times` is the end of the history and
everything popped is too old to count (`TimesAreRecent`), that the history is
ordered, that acquisitions `rate_limit` apart are at least a window apart
(`Spaced`), and that a sleeper waits for the oldest of the last `rate_limit`
acquisitions (`SleepersWaitForOldest`). The limit itself is not inductive: it says
nothing of the deque on which the next decision depends. The counting argument
(an interval with more acquisitions would contain two that are `rate_limit`
apart) rests on the library's facts about finite sets.

*Provider limiter.* Every step of it is a step of the window or leaves it alone
(`LimiterUsesWindow`), which carries the limit over. `SlotsInv` adds that nobody waits
for a slot twice, so that a slot that is handed over is counted once; `LooksInv`
that whoever looked after the last block sleeps exactly until its end, which is
why a late sleeper cannot open a stream through it.

*Routing.* `RoutingInv` relates the map of sessions to what each session was given
and to who came after it: whoever is behind a session in the map is one of its
newcomers (`LaterAreNewcomers`), so that a session that is dropped from the front of
a full map has as many of them as the map holds (`PinnedStep`), and one that was
forgotten keeps them until it comes again (`ForgottenWhenCrowded`).

*Messaging limiter.* `QueueIsSound` is not inductive either: that only a retry shows an older
update needs that the map's entry of a key is newer than the job in flight for
it (`OrderIsKept`), and that nobody is forgotten needs that callers of entries and
of the job wait (`EntriesAreSound`, `JobOfWorker`).

*Requests.* `AttemptInv`: outside a race at most one generator of a request is
alive, what it was given in a race is not sent before the race is settled, and
what was sent since the last first chunk is the beginning of the attempt that
streams (`StreamIsSent`). The property alone says nothing of an attempt under way.
`AccountsInv` adds that whoever is asked is on the list of those that may be
(`InReach`), which the types of breaker and pool need; that the environment, the
file and the administrator never list a key twice (`KeyLists`); and the two
accounts. That the first marker goes and not the request's own does no harm
because a waiting request has a marker (`LastGatherKept`). Gathering is a fold over
the candidates, and what it keeps is an induction (`Folds`, `FoldStays` of
`Queues_proofs`), again by a least counterexample.

*Keys.* `KeysTakeTurns` says what `get_key` does not do and nothing of the state in
which it does it. `TurnsInv` says that whoever waits for a key to be handed out may
be used and comes before it in the search (`Precedes`, by the order `Sooner` of
positions behind the index), and that a revoked key is marked in memory and, unless
the last write failed, in the file. Keys only join behind the others (`Extends`), so
no change but a removal moves a place (`TurnsStay`), and a removal or a restart lets
everybody wait anew. The key that is handed out goes behind all others
(`HandedTurns`), since the index then stands behind it. What `get_key` picks is the
first usable one in that order (`PickIs`), and what the environment and the file
make together keeps every mark of the file (`AddedAllIs`), an induction as above.

*Breaker, platform, store.* `BreakerKeepsCount` is an action property; its invariant
is the count. `NotesCancelled` needs `PairsPending`: the `/clear` may answer either of
the two messages of a note, and each must find the other. `StoreInv` is types, the
two facts of `TimerForDirty` and `CleanIsTaken`, and that what is on the disk has
landed.

*Delivery.* `LockInv`: a reader that takes a chunk or gives up with the lock holds the
lock of its stream, and nobody gives away a lock that another holds. `StreamInv`:
what a reader got is a prefix of its stream's chunks, all of them once it is told
the end; `done` is set exactly when the producer finishes or is over, so no chunk
follows it; what is cached are the chunks of a stream that is done without an
error, which therefore no longer changes.

*Settings.* `Applies` and `Uses` need no more than that what is cached of the settings
is what a load would give (`CachedIsLoaded`): every write drops the cached object
in the same step. The rest is what each shown value comes from (`ShownFrom`) and
what a write keeps of the file (`WrittenFile`, `KeptFrom`).

*Server.* That a registry in use hands out open clients is not inductive: a cleanup
of one registry must not close clients of another. `ClientsBelong` says that no two
registries share a client, and that the clients of a cleanup are of the registry
it cleans only, also after an error has put that registry back in use and new
clients were made in it. `Course` says when a registry exists and who may be at
work in each phase: the posts of the admin page are over before the shut-down's
cleanup begins, which cleans the registry the runtime made. A request, an apply
and a start add clients to one registry or empty one (`Grown`), and a cleanup that
leaves does so with its registry empty (`Released`); `GrownKeeps` is the part of the
induction they share. An admin page that replaced the registry leaves the
runtime's own one behind; the proof covers both.

*Streams.* `StreamsWhole` follows what went out or is held back as a journal. By
itself the property is not inductive: it does not say what the builder believes
of its blocks. `StreamInv` does. `Shape` says that the blocks of a builder have
indexes it gave out, that text and thinking are never open together and that each
tool has a block of its own; `Agrees` that each block the builder takes for open has
its start and no stop in the journal, and that every other has both. Each operation
of the builder keeps that (`Keeps`): it starts the next block (`KeepsStart`), goes
on with or stops one that is open (`KeepsGoingOn`), or changes nothing of either
(`KeepsStill`). The tools' deltas and stops are a run over the tools; what it
leaves is an induction over their number, again by a least counterexample
(`ToolDeltas`, `ToolStops`). At the end all blocks are closed (`ClosesAll`), and an
error, the reason and `message_stop` leave the blocks alone (`TrailGoesOn`,
`TrailEnds`). A retry starts over with an empty journal, which it may because
nothing was sent before the hold-back ended.

*Native streams.* Here the journal is `Emitted`: what the client has and what is held
back for it. It is `Carried`: every event stands where the contract allows it,
given the events before it. The state of the policy `Holds` it: the indexes given
out are those that were started, and the blocks it calls open are those that were
started and not stopped; and it `Tracks` the upstream: what it calls open is open
there, and it drops just the thinking that was not asked for. Whatever policy,
repairs and tails append therefore `Follows`, and a carried journal with what
follows appended is carried (`Joined`). That is one lemma in place of one
per handler, and needs no induction: a journal is compared with its parts
position by position. A repair may add a delta to a block that the state no
longer calls open, which is why `Placed` exempts it (`NeedsOpen`).

*Recovery.* `MendInv` says that the suffix is the one the code computes from what
is broken and the reply; the property is then about that computation. `OverlapIs`
is what the loop over lengths finds, the longest end of the text that begins the
reply, and `GoesOn` that a text goes on with what is left of the reply behind it.
For arguments, `Accepts` says that what is accepted makes them complete, whichever
of the candidates it came from (`Unwrapped`: fences and the space around).

*Replay.* Nothing that a body drops is a call or a result (`DropsAreNoTools`), so
calls and their results stay as they were (`AmongRemaining`). What `Remaining`
leaves stays in order (`OrderLeft`), and that thinking which led to a call goes with it
if thinking is on, and is nowhere if it is off, follows for each of the two
policies (`DeepSeekReplays`, `NativeReplays`). DeepSeek's drops images first and
decides about thinking on what is left; that makes no difference to whether a
result would be answered without the thought before its call (`UnsafeStays`).

*Transcript.* `ShownIsOuter` says nothing of the stack. `StackInv` says, where ids are
sent, that the entries of the stack can be given to Tasks that still run, another
Task to each, whose ids begin with the entry (`WaitsFor`). A result takes the last
entry that matches off the stack, and all above it. If the Task that ended was
given to another entry, further down, that one is given the Task of the entry
that was taken, whose id begins with it too: of two matching entries the later is
the longer (`TaskPops`). This needs the module's assumption: with the ids 1.1.0,
1.1.1 and 1.1, in this order, an entry could stay without a Task and hide the
rest of the answer. While results come innermost
first, entry and Task are at the same place. Where no ids are sent there are only
markers, and the stack is never longer than the list of running Tasks.

*Conversion.* That a conversation is kept is not inductive either: text behind a
call is deferred, so that the messages so far do not yet say everything. `Reads`
says that they say a set of blocks, each once, and that certain calls may still be answered,
those of the last message of the assistant. `Converting` says which: all blocks
that were sent but the deferred ones, and that these wait for just the calls that
may still be answered. Hence what is deferred goes out once, when the last of
them is answered, and behind it. Inside one list of the client's the same holds after
each of its blocks (`Converted`, `BlockConverts`), an induction over the blocks by
a least counterexample (`UserListConverts`, with `Reaches`).

Model-checked only: liveness and fairness, which are out of reach of the prover
(the temporal properties of the runs that are not action properties), and what
recursive operators compute (`TextIsParsedOnce`, `ArgumentsComeBack`,
`CutsDoNotMatter`), because the prover has no arithmetic in a module that
declares them. Every other invariant that a run expects to hold is proved.

## 6. Not modelled

`PROJECT.json` lists every part with its reason. Stateless dispatch and
translation field by field (HTTP routes, the intent guard's patterns, request
bodies of the OpenAI providers, provider adapters, tools and system prompts),
declarative data (provider catalogue, logging), pure I/O (installation scripts,
vendor clients, static pages, outgoing web tools) and layout (markdown, status
texts) have nothing to interleave and nothing to put in order. Tracing and analytics keep counters that
nothing reads back. The heartbeat checker, the background model-list refresh and
the warm-up start only under pytest (`runtime.py:146-170`). The similarity of
prompts (`cache.py:53`, a cosine over words) is left out of `Delivery`, where a
content is a value; the shadow request is left out of `Requests`, since its answer
goes to nobody. `smoke/` and `tests/` are read as statements about the program.
