# yuubot in TLA+

yuubot is a single-process asyncio daemon that runs LLM agents ("actors"). People and
chat integrations send messages to an actor; the actor holds conversations; a conversation
runs a turn loop of model streams and tool calls; tools start background tasks, run code in
pooled Jupyter kernels, and spend capabilities limited per turn. Everything runs on one event
loop, so every race in it is a race between coroutines at an `await`.

This directory holds TLA+ modules of the daemon, of the storage and the processes it lives on, of
what runs under it (shells, Codex) and of the part of its web client that follows a conversation; TLC instances that check them; and TLAPS
proofs. Paths below are relative to the repository root (`src/yuubot/...` is the Python
package, `design/` its documentation). How to run, from this directory:

    tlc -workers 2 -config MCTaskTree.cfg MCTaskTree      # any row of "What the runs check"
    tlapm TaskTreeProofs.tla                              # and every other *Proofs.tla

## Reading rules of the models

* **A step is the code between two suspension points.** asyncio switches coroutines only at
  an `await` that really suspends, so the stretch between two of them is one action, whole:
  early returns are guards or disjuncts, a trailing save or drain is part of the action.
  An `asyncio.Lock` that is never held across a suspension is no variable; one that is
  (`KernelPool._lock`, `_lease_locks`) is modelled with who holds it.
* **Cancellation is an action.** `Task.cancel()` marks; the `CancelledError` arrives at the
  next suspension, and what the handler does then is modelled separately, because another
  coroutine can run in between.
* **Data that no property can tell apart is left out**: text, exit codes, titles, usage,
  timestamps. A timer is an action that may happen at any moment.
* **A crash keeps the files.** Where something outlives the process (rows, files, a listening
  client), the daemon's death is an action that may come at any step and resets what is in memory.
* **One connection, one order.** All of the daemon's SQL goes through one connection with one
  thread. Statements of different coroutines interleave, but are carried out and answered in the order
  they were issued; Cron and McpAuth, which follow single rows, rely on that, Store models it.
* Definitions marked `mistake` are not part of a model: each is the model's definition
  changed the way a plausible bug would, and TLC refutes a property when it takes
  the definition's place. They show that the property depends on that line of the code.

## Inventory

| Component | State | Operations | Hard behaviour | Correct when | Module |
|---|---|---|---|---|---|
| Runtime task tree (`runtime/tasks.py`, `runtime/subagents.py`) | records: parent, status, `_accepting_children`, `_tree_changed`, `_child_notices`; asyncio tasks | put/schedule, end, wait for children, cascade cancel, subagent loop | submission against a cascade, cancel before the first step, a child's end against a parent about to sleep | trees end bottom-up; a cascade reaches everything; no lost wakeup | **TaskTree** implements **Nursery** |
| Task delivery coordinator (`runtime/tasks.py`, `runtime/core.py`, `actor/lifecycle.py`) | `delivery_state`, conversation queue, suppression, mailbox | schedule, queue, drain, skip, actor follow-up | result against a busy, interrupted or discarded conversation | at most one follow-up; every result delivered, queued behind a run, or skipped | **TaskDelivery** implements **Outbox** |
| Expiring index and cache (`runtime/expiring_index.py`, `cache.py`) | records with windows, times and sizes | put, get, list, touch, sweep | eviction by size inside a window, boundaries of time | a record stays for its window; what is past it fits the budget | **Retention** |
| Turn limits and fixer (`runtime/turn_limits.py`, `web/routes/turn_capabilities.py`) | counters per turn, reservations, held deliveries | reserve, commit, release, answer or detach | caller timeout against the task's end, both against an interrupt | never over the limit, no slot leaked, answer read once | **TurnCapabilities** implements **LimitedCalls** |
| Conversation run loop and manager (`chat/loop.py`) | run gate, stop event, claimed answer, history, row status; manager's map | send, notice, answer, interrupt, load, discard | two answers, interrupt at each await, object replaced during a run | one run at a time; an accepted interrupt ends it; every call gets a result | **Conversation** implements **RunGate**; **Dialogue** |
| Tool harness (`chat/harness.py`) | running tool tasks | gather, cancel, close | stop event during tools, bounded close | every call has a result | within Conversation, Dialogue, KernelPool |
| Kernel pool and workers (`python/pool.py`, `python/worker.py`, `tools/execute_python.py`, `tools/restart_kernel.py`) | workers, leases, lease locks, limiter slots | acquire, release, drop, purge, idle sweep, shutdown | crash, failed reset, close cut by its timeout, restart beside a call | a slot per kernel, a kernel per conversation | **KernelPool** |
| Actor lifecycle, mailbox, inbound, wakeup (`actor/lifecycle.py`, `app/service.py`, `runtime/inbound.py`, `wakeup.py`) | record, row, live Actor, mailbox registry, mailbox task | enable, disable, update, remove, load, deliver, receive | messages and a dying task between the awaits of a request; restart | a live actor hears what is sent to it; the row says what runs | **Actors** |
| Conversation feed (`chat/listener.py`, `chat/loop.py`, `web/ws.py`, the client's session hook) | versions, subscription, bounded frame queue, the client's version | open, close, send, publish, snapshot, gap, socket break | overflow of the queue, object replaced under a subscription | a client that is up to date has the newest version | **Feed** |
| Transcript of the web client (`conversation-transcript.ts`) | prefix, live blocks, older page | apply chunk, commit, snapshot, prepend | alternating parallel calls, a snapshot inside a step | everything said is shown once | **Transcript** |
| LLM gateway, turns (`llm/gateway.py`, `chat/loop.py`) | response state, living chunks | stream with fallback, record response | fallback after a partial answer, interrupt, lost write of the response state | one voice per message; a chained request covers every input once | **Turns** |
| Gateway administration (`app/service.py`, `runtime/store.py`) | clients, rows, keys, aliases | put, delete, refresh, restart | refresh beside a deletion, restart between two rows | an alias resolves, now and after a restart | **Gateway** |
| Cron (`runtime/cron/`, `app/cron.py`) | job row, APScheduler entry, run | register, pause, resume, delete, fire, restart | a run against delete or pause, a restart between action and row | a one-shot acts once; entries belong to active rows | **Cron** |
| MCP and OAuth attempts (`runtime/mcp.py`, `mcp_oauth.py`, `auth_attempts.py`) | server record and state, tokens, attempts, callbacks | configure, refresh, enable, disable, delete, attempt, callback, sweep | repeated callback, delete under a running attempt, writes answered late | a succeeded attempt stays so | **McpAuth** |
| Skills and integrations (`runtime/skills.py`, `app/service.py`) | memory, rows, tombstones, packages, instances | create, put, delete, refresh, configure, enable, disable | failure or restart between memory and table | a restart keeps the catalog | **Catalog** |
| Shares, copied skills (`runtime/shares.py`, `skills.py`) | directories, grants, backups | publish, revoke, sweep, copy | death between two file operations | nothing half copied is shown | **Copies** |
| Storage (`db/database.py`, `runtime/store.py`, `chat/history.py`) | one connection, its open transaction | execute, commit, transaction, extend | a plain writer commits another's transaction | what returned is durable; appends are a log | **Store** implements **AppendLog** |
| Migrations, daemon process, CLI and upgrade (`db/migrate.py`, `web/server.py`, `web/run_state.py`, `cli/commands.py`, `upgrade/`) | schema version, port, run state, service | serve, migrate, check, upgrade | two migrators, kills, failed listeners | a daemon serves a whole schema; a stale run state means a kill | **Daemon** |
| Import of the previous program (`db/import_legacy.py`) | target rows, mark, workspace | import, force, kill, rerun | death between the two transactions, history already extended | all or nothing; items before what was said since | **LegacyImport** |
| Event bus and hub (`runtime/events.py`) | one bounded queue, listeners, the hub's task | emit, listen, dispatch, stop | overflow by essential and by noisy events, a stop in the middle | an essential event is missed only if it was displaced or broken off | **EventBus** |
| Terminal and PTY (`runtime/pty_runner.py`, `streams.py`, `tools/bash.py`) | command, executor threads, streams, task | submit, feed, read, wait, cancel | threads shared by all shells, output after the exit, a second cancellation | a finished task has its whole output; a cancelled one no command | **Shell** |
| KV documents (`runtime/kv.py`, `web/routes/kv.py`) | files, directories, what pages have read | get, put with or without If-Match, delete | two pages, keys that share a file, a lost answer | an acknowledged edit stays | **Kv** |
| Codex sessions (`src/yext/codex.py`) | thread id, lock, processes | ask, give up, cancel, models | an ask given up between two events, a thread not yet announced | answers of a session are in one thread | **Codex** |
| Resources, other tools, in-kernel facades, the rest of the web client | files, requests | single writes and reads | - | - | not modelled |

How they meet: a WebSocket send, an actor notice or an answer enters a conversation's run gate
(Conversation). Each step of the run asks the model endpoints (Turns) with the history so far (Dialogue) and
publishes what comes to its subscribers (Feed), whose client folds it into blocks (Transcript). The run's
harness calls tools; `execute_python` leases a kernel (KernelPool), `web_search`/fixers reserve a slot
(TurnCapabilities), `bash`/`delegate` submit records (TaskTree), a shell's being the
task of a PTY (Shell). Code in a kernel may ask Codex (Codex) and, as pages do, edit documents (Kv). A root record that ends goes to the
coordinator, which asks the Conversation's gate and queues, skips or sends to the actor's mailbox
(TaskDelivery), while the registry keeps the record for its window (Retention); the actor (Actors) runs a
developer notice, which enters the gate again. Cron jobs and webhooks wake actors through the
same mailbox. The administrator's requests change memory and rows (Actors, Gateway, McpAuth, Catalog,
Copies, Cron), all rows go through one connection (Store), and the process itself starts, migrates,
stops and is replaced (Daemon, LegacyImport). Whatever happens is told to listeners over the bus (EventBus).

## The modules

Each `MC` module only gives the constants of its module values; every definition that stands for
code is in the component's module. Five components have an abstract specification of their own
(Nursery, Outbox, LimitedCalls, RunGate, AppendLog): what a caller may rely on, in the caller's terms, without the event
loop and the bookkeeping that keeps it. The component's module says at its end how its state shows the abstract one
(`INSTANCE ... WITH`); TLC checks the abstract specification as a PROPERTY of the detailed one, and it is proved.

### TaskTree (and TaskTreeProofs)

One record per member of `Tasks`; `Agents` have the subagent loop as their body. `status`,
`accepting`, `treeChanged`, `notices`, `delivery` are the fields of `RuntimeTaskRecord`; `point` is
where the record's asyncio task is suspended (`new`: `_run` not entered, `body`: in
`coro_factory`, `agent_wait`: the subagent loop awaits `_tree_changed`, `unwinding`: the body handles
its `CancelledError`, `tree_wait`: `_wait_for_children`). `Submit` is `put` + `schedule`; `Leave` is
the tail of `_run` after the body; `Finish` is `_finish`; `CancelFrom` is `cancel`, whose recursion is
the least set closed under active children (`Cascade`), written without recursion so that it can
be proved about. A child is submitted by anyone who knows its parent's id, not only by the parent
body (`POST /tasks` takes a parent id), which is why submission races with a cascade.

**Nursery** is structured concurrency: a task is opened under an open parent, a failure or a cancellation
closes a whole subtree in one step, and a task ends once, when nothing below it is live, as cancelled exactly
if it was cancelled. `Stage` is a record's place in it: an active record is open while it accepts children and
otherwise cancelling or failing, a terminal one has its final status. Callbacks, events, suspension points and
notices are stutters; the property is `TreeIsNursery`.

### TaskDelivery

Root tasks with `delivery="conversation"` against one conversation of one actor. `gate`, `queue`,
`suppressed` belong to the Conversation object the manager holds (`present`); a run whose object is
discarded goes on as `orphaned` and, because `_exit_run`'s drain looks the conversation up by id, drains
the queue of the new object. `Coordinate` is `schedule_task_delivery` with its four outcomes,
`ExitRun` is `drain_pending_task_deliveries` + `_exit_run` (no suspension between them), `ActorTakes`,
`ActorRuns`, `ActorFindsBusy`, `ActorLeaves` are the mailbox loop. `followUps` counts developer notices
per task and is what the properties read; it changes no behaviour.

**Outbox** is what a task may expect of its result: it is sent, kept for later or skipped; what was sent is taken in
the order it was sent, once; and what was made, lost or skipped stays so. `Post` is the mailbox behind the message
being opened, `Letter` a result's place: "kept" is queued behind a run, "made" has its follow-up. "lost" is
disagreement 2 below, the result that `ActorFindsBusy` puts back while its record says delivered; Outbox allows it, and
allows nothing to come of it later. Several results settle in one step when a queue is drained or an
interrupt comes (`Settles`). The property is `ResultsAreSettledOnce`.

### TurnCapabilities (and TurnCapabilitiesProofs)

`successes`, `inFlight` are the counters of `_TurnState`, `slot` a reservation's `_finished` and how it
finished, `caller` the HTTP request of the kernel, `delivery` the `delivery_state` of the fixer's record.
`Reserve`/`Refuse` are `reserve`, `Commit`/`Release` the reservation's methods, `CallerReturns`/
`CallerCancelled` the route after `wait_until_terminal_or_timeout`, `Settle` is `release_held_delivery`.
Tokens are used one after another (one conversation), and reservations of a closed turn may still
settle. `run` is the gate of the conversation: any runs follow one another, a user's opens a token (`OpenTurn`), and
`RunEnds` closes it, drains the queue (`Drained`) and releases the gate without a suspension between. `Deliver` has the three outcomes of
`schedule_task_delivery`: skipped while suppressed, queued behind a run, or put in the actor's mailbox, which is where the
model's "delivered" ends; the suppression expires, and the record of a queued result may be evicted (`Evict`). What becomes of
mail, and of the queue of a Conversation that is discarded during its run, is in TaskDelivery.

**LimitedCalls** has no counters, tasks or delivery states. A call is admitted exactly while its turn is open and has
room, where room is the limit minus the calls that hold or keep a place; a place is kept for good exactly by a call that was
of use; and the answer is told to the caller that waits, or promised and then followed up or waived. `Answer`
reads it from the caller and the record's delivery; a caller who was told and gets a follow-up too
would be "twice", which is no state of LimitedCalls. A queued answer is still a promise, and several may be settled in one step when a
run ends (`SomeSettled`). The property is `CallsAreLimited`.

### Conversation

`Objects` are `Conversation` instances, `held` the one in `ConversationManager._items`. A caller is a
coroutine: a user's send, an actor's developer notice, or an answer to `ask_user`. `phase` is the
await at which it is suspended. `asked` and `open` keep of the history only what later code looks at:
an `ask_user` call without result, and another call without result. `asked` exists twice, in memory
and in the database, since a second object is loaded from the latter. `StreamEnds` has one disjunct
per stop reason; whatever the reason is, `merge` keeps the calls whose arguments were complete (`CommitsAny`), and
only "tool_calls" goes on with them: a step that was interrupted, cut by its length or ended by a provider's "stop" may leave calls open.

**RunGate** has runners, gates and the word to stop. One runner at a time is past a gate; a run that was told begins no further
stream; and only its own end takes the word back. `Told` are the objects with a run and a set stop event or the
state "interrupting", so an interrupt that is swallowed by the start of a run, its end or by another interrupt would show as
a step RunGate does not have. A stream that is under way when the word comes may still end in tool calls. The property
is `RunsAreGated`.

### KernelPool

Conversations are the lease keys. `tool` is where the `execute_python` tool of each is suspended, in
`KernelPool.acquire` (`waiting`, `limiting`, `spawning`, `joining`), in `run_code` (`running`), in
`drop_leased_worker` (`dropping`, `ending`) or in `release` (`closing`, `resetting`, `discarding`). `_lock`
is held across an await only while a live kernel shuts down inside `_drop_worker_unlocked`; the
model keeps who queued before whom (`ahead`), because asyncio locks are first come, first served
and the order decides which conversation gets a kernel that was just spawned. `lost`, `stranded` and `taken` are
history variables: slots whose return a cancellation cut off, kernels that stay in the pool as "leased" although no lease
or tool has them, and whether a kernel was ever taken from the call that was starting it. The properties about slots and
exclusiveness name those exceptions instead of hiding them.

### Feed

One conversation id, one socket. `heldObj` is the object in the manager, `version` its counter
(`Conversation._version`), `subs` the object the listener is subscribed to, `frames` and `inHand` its queue
and the frame its worker is sending, `view` the client's `localVersionRef`, phase and
`resubscribingRef`. `QueueAfter` is `_enqueue_conversation_frame`, `PublishVersion` `_emit_delta` and
`_publish_commit` with the synchronous callbacks of the subscribers, `ClientFollows` the client's
handler with `RequestSnapshot`; a broken socket drops the queue and what is under way.

### Transcript

`committed` and `streamed` are the history items and the living chunks of the step, `transcript` the
client's state (`prefix`, `liveBlocks`, `continues`). The folding functions of
`conversation-transcript.ts` are operators on sequences; `ShowsWhatWasSaid` compares their result with a plain
reference: what was told, per kind and per call. A text is its length in copies of one letter, the
worst case for a client that recognises a continuation by its prefix.

### Turns

`route` is the target list of the alias, `attempt` and `turn` where the stream stands (Responses first,
then Chat Completions, per target), `chain` the response state in memory and `chainRow` in the database.
`standsFor` is what an endpoint remembers: for each response the inputs it stands for. `living` holds
which attempt each living chunk came from; fallback is only allowed before the first visible event.

### Dialogue

The history as inputs, texts, calls and results, one run after another. `StreamPauses`, `StreamCalls` and
`StreamEnds` commit a step in its three ways, `ResultsCommit` the results of its tools; `finished` collects the tools of the group, and `Messages` is what `_messages` of the gateway
makes of the history. `unsettled` holds the calls of a step that was cut or talked over, which the
property excepts: they are disagreement 4 below.

### Actors

`record`/`row` are the record in memory and in the table (version, enabled, status), `live` the
Actor object, `registry` its mailbox, `serving`/`handling` the mailbox task. `request` is the lifecycle
request under way and its await; each request's steps are separate actions, so that messages, a dying task and a
restart fall in between. `put_actor`'s three commits are one step here and three in Store.

### Cron

One job: `status` of its row, `entry` in APScheduler, `runAt` of its run, `admin`/`adminAt` of the request.
`cut` counts crashes between an action and the row that says so; `registered` counts registrations.
A run writes back the job as it read it: `RunPuts` does so whatever pause or delete did meanwhile.

### McpAuth

One server and its attempts. A row changes when its write is issued and the memory behind it when the write
is answered (`writing`, `WriteAnswered`); `task` is where an attempt's coroutine is, `future` the callback's
future. A cancelled task leaves an issued write to be done but never continues. Requests reach an attempt in three ways: the
callback with its token (`Callback`), a callback with `?error=`, which asks for no token and fails whatever is known
(`ErrorCallback`), and the administrator's `PUT` of any status (`PutStatus`); `CreateAttempt` is an attempt without a task. `overruled`
remembers the attempts that the last two gave a status against their task's; the property excepts them.

### Gateway

`client`, `apiKey`, `targets` in memory; `endpointRow`, `secret`, `targetsRow` stored; `change` is the one
request under way, `refreshing` the half-hourly refresh, which stores the settings it read whatever has
happened meanwhile. `GatewayInit` is a new database or what migration 013 makes of the single connection of earlier versions: the
endpoint "default" if there was a base_url, an alias on it if an actor named a model, each with or without the other, and a
stored key in a credential of its own (`legacyKey`), to which `KeyAtStart` falls back for "default". `unrouted` and `keyless` are
history variables for the exceptions of `AliasesResolve`: the migration's alias without an endpoint, and clients whose stored key a request on
credentials deleted.

### Catalog

Skills (custom, built-in, packaged) with their rows and tombstones, and one integration with its record,
running instance and row. Requests change memory first and tables later; a restart rebuilds memory
from the tables (`LoadedSkill`, `LoadedInstances`).

### Copies

The published directory of a share with its grant, and a skill in an actor's workspace with its staging
directory and backup. Every file operation is a step, after which the daemon may die.

### Store and AppendLog

Clients are coroutines: plain writers (`execute` then `commit`, as many pairs as the operation of
`runtime/store.py` has), `HistoryStore.extend`, and transactions of two statements. `pending` are the
changes of the connection's open transaction, whoever made them; `commit` makes all of them durable.
A rollback loses those of a plain writer too (see the defects below), so the property speaks of transactions.
AppendLog is the abstract specification: a log that grows by the next row. `Store!Log` is its
`INSTANCE ... WITH rows <- ` the durable rows of the appends, and `AppendsInOrder` its specification,
checked as a PROPERTY and proved.

### Daemon

Processes with a `role` (serve, migrate, check) and a `pc`; `script` says of each migration how much of it
is in the database (executescript commits statement by statement), `schemaRow` is the recorded version.
`port` and `runState` are what processes share; the upgrade script stops, migrates, checks and restarts.

### LegacyImport

The committed rows of the target (`stored`) and those of the import's open transaction (`uncommitted`), per
table; history rows carry their sequence number. `CreateOwnActor`, `ConfigureActor` and `Chat` are the daemon in
between two runs, so that a forced rerun meets a history that has grown.

### Retention

Records of tasks with their window (`owed` is the property's own account of it) and the index's metadata.
Nothing runs when a window ends: `Accessed` is the index after the eviction that every access does first.

### Shell

Shell tasks over one default executor. `toBegin` and `threads` are the blocking calls (`wait`, `read`, `write`,
`terminate`, and `reap` for the `wait` after it) no thread has begun and those that occupy one; `orphaned` are the
latter once their await is cancelled, because `asyncio.to_thread` cannot stop a thread. `shellTask` is where
`run_pty_process` and its task are, `reader` and `writer` the two loops, `caller` the bash tool. `command` is "left" when
the command has exited and a descendant still holds the terminal: `wait` returns then, `read` does not end. `read` decodes UTF-8 piecewise: one
that gets but a part of a character gives the empty string, which `_read_loop` takes for the end ("broken"), and bytes that are no UTF-8
raise, which fails the task ("failed"); both are `ReadBreaks`.
`CancelShell` covers the cancellation before the first step, in the wait (which starts `terminate_pty`) and
everywhere else. Output is counted in pieces: the trim of a stream to its last megabyte and the bound of its replay
to a new reader are left out.

### Codex

The asks of one `Session`, each a process working on a thread, and one `models()`. `Spawn` takes `_lock` and builds the command
from `_id`, `ReadEvent` notes an event and hands it to the consumer, `GiveUp` is the consumer that drops the generator there: `ask`
leaves the lock at once and `_ask` kills its process only when the event loop finalizes it (`Finalized`). `JudgeAsk` is what `_ask`
makes of the events and the exit code. Codex itself is external; that it announces its thread before any other event is an
assumption about it (`Announced`).

### EventBus

Events are numbered as they enter the queue, so `left` and `entered` are its content. `Emit` displaces the oldest event,
`EmitNoisy` gives way; `Dispatch`, `Hears` and `Dispatched` are the hub handing one event to the listeners of that moment,
`StopHub` its cancellation and `HubStopped` the end of the drain. `since`, `handed` and `brokenOff` are history variables. The
buffer of recent events is left out.

### Kv

Documents are files named by their key, whose last part loses what `with_suffix` takes for its suffix, so keys may share one
(`FileOf`); a value is the set of edits in it. `Collides` is `_assert_no_prefix_collision` as written: it looks at
files on the way to a document, but at a directory in its place only on the first level. A request does not suspend between
check and write, so a put is one step, cut by the end of the daemon or not.

## What the runs check

| Run | Instance | Shows |
|---|---|---|
| `task_tree` | 2 subagents + 1 plain task (45 thousand states) | a task ends only after its subtree; `TreeIsNursery`: it implements Nursery (in particular no cancellation is outrun by a submission); no wakeup is lost by an accepting parent; a cancelled body leaves, or is a shell's and held in its termination |
| `turn_capabilities` | 1 fixer call (limit 1), 3 searches (limit 2), 2 turns (673 thousand) | `TurnBudget`: the limit is never exceeded, counters are exactly the reservations, a call that ran holds no slot; `CallsAreLimited`: it implements LimitedCalls (in particular an answered caller gets no follow-up); where every run ends, a detached caller's answer is delivered, or was skipped or its record evicted |
| `task_delivery` | 2 plain tasks + 1 delegate (127 thousand) | `ResultsAreSettledOnce`: it implements Outbox (in particular at most one follow-up, and none for a skipped result); what is queued sits behind a taken gate; suppression is obeyed; every terminal task is decided about |
| `conversation` | 2 objects, 1 user, 1 notice, 2 answers (598 thousand) | `RunsAreGated`: it implements RunGate, per object (an accepted interrupt is not swallowed); an interrupt ends its run; an accepted answer keeps its question to itself; no row stays "active" with nobody running |
| `kernel_pool` | 2 conversations, 3 kernels, 2 slots, symmetric (137 thousand) | every slot is free, owned or lost to a cancelled shutdown, and a kernel in the pool is idle, leased, being reset or stranded; kernels are exclusive unless one was taken at its start; sweeps and restarts spare kernels in use |
| `services` | the eighteen components below, each small (734 thousand in all) | see the next table |
| `task_tree_wake`, `task_delivery_lost`, `conversation_two_runs`, `conversation_open_calls`, `kernel_pool_shared`, `feed_dropped` | as above; `kernel_pool_shared` with 3 conversations and 2 kernels, `feed_dropped` with a queue of 2 | the disagreements below |

The run `services` checks components that share no state with one another. Its module `MCServices` lets a
behaviour choose one of them at the start (`moving`) and then only that one moves, so that each is
explored completely and the states add up instead of multiplying. It says nothing about the
components' interaction; where they interact through shared state they are in one module.

| Component | Instance | Shows |
|---|---|---|
| Store | 1 plain writer, 2 appends, 1 two-statement transaction | `ReturnedIsDurable`; `AppendsInOrder`: it implements AppendLog |
| Feed | queue of 1, 2 versions, 2 objects | `ClientCatchesUp`: a synced client of a quiet, never replaced object has its newest version |
| Actors | 2 Actor objects, 2 versions of the record, 1 message | `LiveActorListens`, `RowTellsTheActor` |
| Cron | 3 firings, 4 requests, 2 crashes | `OneShotActsOnce` |
| Turns | 2 targets, routes of two and of one, 3 messages | `OneVoice`, `ChainCoversInputs` |
| McpAuth | 1 attempt, 3 edits, 2 requests on the attempt | `SucceededIsFinal` |
| Gateway | 2 endpoints, 1 alias, 3 requests, a new or a converted database | `AliasesResolve` |
| Copies | 1 share, 1 skill | `CopiesAreWhole` |
| Daemon | 3 processes, 2 migrations (one that cannot run twice), 1 kill | `ServesWholeSchema`, `StaleOnlyAfterKill` |
| Transcript | 2 calls, 2 pieces of text, 1 run, pages of 2 items | `ShowsWhatWasSaid` |
| Dialogue | 3 calls, 2 inputs | `RequestsAreAnswered` |
| LegacyImport | 2 conversations, 3 imports, 2 writes between | `ImportIsWhole` |
| Retention | 2 records of size 1 in a budget of 1, windows of 2 and 1, 4 ticks | `ResultsAreKept` |
| Catalog | 1 built-in and 1 custom skill, 1 integration with 2 names, 4 requests | `RestartKeepsCatalog` |
| Shell | 1 shell, 3 threads, 1 piece of output, 1 of input, 2 cancellations | `EndIsWhole` |
| Codex | 2 asks of a new or resumed session, 2 pages of models | `OneThread` |
| Kv | 2 pages, 3 keys of which two share a file and one is below another | `NoEditLost` |
| EventBus | 1 listener, a queue of 2, 4 events | `MissedIsDisplaced` |

The type invariants are part of the inductive invariants proved below and not listed with the runs, except that of
Transcript, which is only checked; nor are `OneRunPerObject` and `InterruptKeepsStop` of Conversation, `CancelReachesSubtree` of TaskTree,
`AnsweredOnce` of TurnCapabilities, `OneFollowUp` of TaskDelivery and `EntryIsActive` of Cron, which
are proved as well (the first five are parts of what a refinement says). Each is checked by adding it as an `INVARIANT` to the configuration of its module.

**Why the bounds are enough.** Three tasks give a chain of three (a cascade through a waiting
subagent), two siblings, and separate roots; each task is submitted once because ids are fresh. Three
searches for two slots race for the last slot while another is held or spent (the code's limits of
three and four add calls, not orders); a fixer's settling concerns its own call and its turn's counters,
so one is enough; two turns let a late commit meet a newer turn. Two plain results and one delegate give each branch of skipping an order of
two in the queue. Two objects are what a discard and a reload produce; the two answers are the
race `claim_question_answer` exists for. Two conversations over two slots make every idle kernel
contested; three kernel identities let one be unwinding while two are alive. A freshly spawned
kernel can be stolen only when a third conversation holds `_lock` and a second waits before the spawner,
so two conversations cannot show it and `kernel_pool_shared` has three. Nothing else in these five is
bounded: there are no counters beyond `followUps`, `successes` and `lost`, which the finite sets of
tasks, calls and slots bound.

In `services` two appends and a plain writer give a commit in the middle of a transaction and the next
sequence number read while another append is pending; a queue of one overflows at every second frame;
two Actor objects are what an update makes, and a third only repeats it; a one-shot job needs a
second registration and a crash after each of two actions; two targets are one fallback, and routes of one and of two let the
actor's model change; two requests on an attempt are a callback and its repetition, its failure or an administrator's status; three gateway
requests are two endpoints and an alias over them, or an endpoint, its alias, and the deletion; three processes
are two that migrate at the same time and the one the upgrade starts; three imports are a killed one, a refused one and a
forced one; two records in a budget for one make one of them go. Two of
three threads are taken by a shell's wait and read, and the third by its input or its termination; a second
cancellation is the one that breaks off a termination. A second ask is what a first one given up meets; two pages are one edit
and its rival; four events overflow a queue of two twice. Every bound is a constant of its module,
and every counter that exists only for a bound is commented so.

**Deadlock.** TLC looks for it everywhere but in `turn_capabilities`, where the system may stop (all
turns closed, all calls over), and in `services` and `feed_dropped`, where it stops when its bounds are used up. In `task_tree` a cancellation of a finished record is always
possible and changes nothing, so deadlock freedom says little there; the liveness property does the work.

**Fairness.** Weak fairness only, on what the event loop or a bound in the code guarantees, and on
nothing else:

* TaskTree: a ready asyncio task gets its step, and a cancelled subagent ends its cleanup (`Harness.close` gives each tool
  three seconds, `chat/harness.py:129`). No body must return by itself, so `CancelStopsBody` holds for bodies that would run for
  ever. The cleanup of a shell is *not* assumed to end: its `terminate_pty` waits for a thread of the executor that other shells may
  hold for ever (`runtime/pty_runner.py:50`), so the property lets a body that is not a subagent's stay there (`HeldInCleanup`), and
  says that the cancellation reaches it.
* TurnCapabilities: the fixer task starts and ends (requests have timeouts), the route's wait is bounded
  by `FIXER_SYNC_WAIT_S`, the delivery task runs. No run is assumed to end; `DetachedIsSettled` is conditional on it
  (`[]<>(run = "idle")`), because a queued answer waits for the end of the run.
* TaskDelivery: the coordinator's task runs. A run is *not* assumed to end.
* Conversation: writes return, streams and tools end within their timeouts. Discards and interrupts
  are never forced.
* KernelPool, and everything in `services`: safety only. Most of these steps are a person's requests, a
  crash or a network peer, which nothing makes happen.

## Where code and documentation disagree

Each of these is a run that TLC ends with a counterexample.

1. **A closed parent is not woken** (`task_tree_wake`, `runtime/tasks.py:454`). `_finish` sets the parent's
   event through `queue_child_notice`, which it calls only while the parent accepts children. A parent
   whose own body failed no longer accepts, so the end of its last (cancelled, slowly
   unwinding) child leaves it waiting. `design/system-design.md` 1.5 promises the wakeup.
2. **A delivered result can be lost** (`task_delivery_lost`, `actor/lifecycle.py:200`). The state is already
   `delivered` when the message is in the mailbox; if the conversation is busy when the actor takes it, the
   id goes back to the queue but the state does not, and the drain skips it.
3. **Two runs of one conversation** (`conversation_two_runs`, `chat/loop.py:767`). Discarding the object of a
   run leaves the run going; the next load makes a second object with a gate of its own.
4. **Calls without results** (`conversation_open_calls`, `chat/loop.py:513`). A stop event seen in the stream
   after a call's arguments were complete commits the call and ends the run without a result for it.
5. **One kernel for two conversations** (`kernel_pool_shared`, `python/pool.py:187`). A new worker is in the
   pool as "idle" before its spawner gets `_lock` to lease it; another acquire that queued earlier takes it.
6. **A client that waits for ever** (`feed_dropped`, `chat/listener.py:171`). A full frame queue is emptied, with a
   snapshot that is still in it. The comment there counts on the gap to trigger a re-snapshot, but the client that
   waits for one asks for no other. Only a broken
   socket gets it out.

## Defects no property forbids

The models contain what the code does in these places too; the properties except them by name or speak of
something weaker. No document of the repository promises otherwise, so they are no disagreements.

* *Conversation, Dialogue.* A notice ignores a pending question (`chat/loop.py:232`); a refused or
  interrupted step with an undecodable `ask_user` call leaves a question that nobody can answer
  (156, 283); a run that finds the gate taken leaves `_answer_claimed` set (308). A step that is cut by its length, or ends with "stop"
  although it has calls (the default of a Chat stream, `llm/gateway.py:477`), leaves them without results.
* *TaskDelivery, Retention.* Discarding a running conversation drops its queue (413); a queued
  result whose run outlasts the retention window is dropped silently (`runtime/tasks.py:725`).
* *Transcript.* Follow-up runs, text behind the calls of its step, and an older page requested
  before a snapshot are shown wrongly (`reconcileLiveBlocks`, `loadOlder`).
* *Store.* A statement of a plain writer executed inside somebody else's transaction is lost with that
  transaction's rollback, although its operation returns (`db/database.py:45`).
* *Actors.* Messages in the mailbox of an actor that is disabled are lost; an error of a run ends the
  mailbox task and the row still says running (`actor/lifecycle.py:164`).
* *Cron.* A run writes back the job it read: after pause the row is active again, after delete it
  returns (`cron/executor.py:151`). Only the scheduler's entry stays gone, until a restart.
* *Gateway.* A refresh writes older settings back, or the row of an endpoint that was deleted meanwhile
  (`app/service.py:489`); a crash before the credential is deleted leaves the key. The key of "default" that is cleared or was never
  stored comes back at the next start from the credential of the earlier version, while an edit of that endpoint leaves its client without a
  key until then (`app/service.py:426`, 444); a deleted credential stays in the client until it is replaced (973). Migration 013 may leave an
  alias on "default" without that endpoint (`013_openai_gateway.sql:47`). A full request to the
  Responses API leaves out the assistant's outputs (`llm/gateway.py:1260`).
* *McpAuth.* A refresh and the end of an attempt store the record they started with, over a disable or
  a delete (`app/service.py:864`, `mcp_oauth.py:115`). A callback with `?error=` is asked for no token and fails an attempt that has
  succeeded, and a PUT gives an attempt any status (`web/routes/mcp_oauth_callback.py:20`, `auth_attempts.py:30`).
* *Catalog.* An integration renamed while it runs leaves its old instance (`app/service.py:596`); a
  custom skill with a built-in's id, deleted, returns as the built-in one at the next start (1045).
* *Daemon, LegacyImport.* The run state is removed before the application has shut down, also that of a daemon
  that starts meanwhile (`web/server.py:143`); of two migrators the slower one can set
  `schema_version` back; a crash inside a script that cannot run twice makes every later start fail.
  A crash between the import's commit and its mark makes the next run refuse; a partly copied
  workspace is skipped by the rerun (`db/import_legacy.py:444`).
* *Shell.* The termination of a cancelled shell needs a free thread of the default executor, of which every running
  shell holds two (`runtime/pty_runner.py:50`): with enough shells a cancelled one goes on until another ends.
  A read that holds but a part of one character ends the reading loop (61): the task is done without the rest of its output, and a command
  that goes on writing may block on a full terminal. Bytes that are no UTF-8 fail the task.
* *KernelPool.* A reset that the close bound cuts off, or a dead lease that a later acquire overwrites, leaves a kernel in the pool as
  "leased" where nothing finds it: it keeps its slot until `shutdown()` (`chat/harness.py:133`, `python/pool.py:85`). A cut drop or restart
  loses its slot for good (145).
* *TaskTree.* Notices of children that end after the last wait of the subagent loop are read by nobody (`runtime/subagents.py:209`).
* *Codex.* An ask given up between two events leaves the session's lock before its process is killed (`src/yext/codex.py:200`): two
  processes may work on one thread for a while.
* *Kv.* A directory in the place of a document is only noticed on the first level, where an empty one that a
  deletion left refuses the document as well (`runtime/kv.py:162`, `_assert_no_prefix_collision`), and keys that differ behind their last dot share a file
  (`document_path`).

## What is proved

Eight modules hold theorems; each proves, for every value of the constants, the type invariant and the
safety properties named. Apart from TypeOK and `NoEditLost` none is inductive, so each proof is the induction over a stronger
invariant, with one step per action, from which the properties follow.

**TaskTreeProofs**, for every `Tasks` and `Agents` satisfying `TaskAssumption` (the agents are
tasks, and no task is the root's parent; `Tasks` need not be finite): `TaskTreeTypes`,
`TreeEndsBottomUpAlways`, `CancelReachesSubtreeAlways`, `WakeupNotLostAlways`. `IInv` adds

* `Shape`: what a suspension point implies for its record (active exactly between `new` and
  `tree_wait`), and that a parent has started before it has a child;
* `Grounded`: parents form no cycle, stated without recursion: every non-empty set of tasks has a
  member whose parent is outside.

The argument turns on the cascade. `Cascade(t)` is a least closed set, and a few lemmas give all that is
needed of it: it holds its root, is closed under active children, holds only active records and
their parents below the root (so a closed record's parent, if closed too, is in it), and never holds the
parent of its root (from `Grounded`). `LeavePreserves` covers the body's departure with its three
ends, `CancelPreserves` both cancellations, `SubmitPreserves` the race between a submission and a
cascade: `put` refuses a parent that stopped accepting, so a new record never appears below a closed
one. The action property `EndIsFinal` follows from the same invariant.

`TreeIsNurseryAlways == Spec => TreeIsNursery` is the refinement. It needs one invariant more, `ClosedHow`: a record
that is active and closed was cancelled, or its own body is over and failed, and the outcome a waiting record keeps says which. Without
it the final status that `Leave` and `AwaitChildren` compute from that outcome and `_cancel_requested` need not be the
stage's verdict. A cascade is one `CancelAllOf` of the least closed
set (or one `FailOver`, when the body failed with live children), and the end of a body that has to wait is a stutter.

The module also holds the proof of Shell, for any shells, any (positive) number of threads and any amount of output:
`ShellInvariant`, `EndIsWholeAlways`. `CallsAccounted` says that an ended task has no call left that somebody waits for, and
that a read is given up with the task only, so no piece of output of a task that goes on is lost in an abandoned thread;
`ShellPlaced` that what was written is in the terminal or in the stream unless the reader was broken off, and that a reader that has ended
while its task goes on has seen the end of the terminal.

**TurnCapabilitiesProofs**, for every finite set of calls, any turns and capabilities and any
positive limits (`CapabilityAssumption`): `TurnCapabilitiesTypes`, `TurnBudgetAlways`,
`AnsweredOnceAlways` and the refinement `CallsAreLimitedAlways`. `TurnBudget` is one property of three parts since they hold together: `WithinLimit` needs
`SlotsAccounted`: a commit moves a unit from `in_flight` to
`successes`, and `_release` stops at zero, so the sum could grow if a reservation could be held
while the counter is zero. That it cannot is a fact about cardinalities: a held reservation is a
member of a finite set that `in_flight` counts (`OneMore`, `OneFewer` from `FiniteSetTheorems`).
`Budget` collects what `reserve`, `commit` and `release` preserve; `StageTellsSlot` says that a running
call still holds its slot, and `WaitingHolds` that a waiting caller's delivery is held or given up, which
is why an answered one is never delivered as well.

For the refinement the counters have to be exact in both directions: `reserve` refuses only when places are really
taken, which is `SlotsAccounted` with its cardinalities (the calls with a commit and those in flight make up `Taken`). `CallerTells`
adds what a caller's state says of its call: one who was answered sees a call that is over, only a fixer's leaves before that and
its delivery is then past its hold (`PastHold`), and a plain call has no delivery, so that the same record never holds an
answer that was told and one that is promised. `OneOpenTurn` makes the end of a run the end of one turn, and `SettlesPromises` the
drain, an interrupt and a delivery steps that settle promises of work that is over, or waive them.

The module also holds the proof of Codex, for any asks and any number of pages: `OneThreadAlways`. `LockIsHeld` ties the lock to
the one ask inside and says whose process may still run; `ThreadIsKept` that what the ask inside works on is the session's thread, or a
new one of which nobody has heard yet. An answer needs an event, hence the announcement, hence a session that knows its
thread and never forgets it.

**ConversationProofs**, for any objects and callers (`ConversationAssumption`): `ConversationTypes`,
`OneRunPerObjectAlways`, `InterruptKeepsStopAlways`, `ClaimedQuestionPendsAlways`, `IdleIsSettledAlways`, and the refinement `RunsAreGatedAlways`.
`GateExcludes` ties the gate to its one caller in the loop; `ClaimExcludes` and `ClaimKeepsUsersOut` are why a
claimed question cannot be answered twice nor its gate be entered by a user before the answer
runs; `ActiveIsRun` says who will write the row. `RunStep` states once what the seven steps of a run have in common.
The refinement is the same invariant read at the abstract state: the gate is taken exactly while a caller is in the loop
(`GateExcludes`), so the word to stop, which is in `stop` or in the gate, always belongs to the run it found. `_enter_run` clears the event
when no run is inside, and `_exit_run` leaves the gate idle, which is all that takes the word back.

**TaskDeliveryProofs**, for any tasks and any length of the queue and the mailbox: `TaskDeliveryTypes`, `OneFollowUpAlways`,
`QueuedIsDrainedAlways`, the action properties `SuppressedIsSkippedAlways` and `DecisionsStand` (a decision is never
withdrawn), and the refinement `ResultsAreSettledOnceAlways`. A drained queue becomes mail once per task because `InQueueOrder` gives a sequence without repetition; `OnItsWayOnce`
says that mail, the one message being opened and the follow-ups never name a task twice, and `SuppressionHolds` why an
interrupt leaves no plain task that a later drain could send. The refinement reads a result's place from its delivery, its follow-ups and what is on its way;
`PostGrows`, `LetterTells` and `SameLetter` say how that changes when mail is added, and `OnItsWayOnce` makes what a drain
adds fresh, each task once and none that was sent before (`DrainIsOutbox`).

**KernelPoolProofs**, for any finite sets of conversations and processes and any limit: `KernelPoolTypes`,
`LeaseLocksAreHeld`, `SlotsAccountedAlways`, `ExclusiveUnlessTakenAlways`, `OthersAreSparedAlways`. `Phases` says what each
suspension point of the tool has, holds and owes; `Owned`, that leases, kernels in use, kernels about to join the pool and the
victims of restarts never meet, holds until a sweep takes a kernel from the call that started it (`taken`), the one
exception the properties name. The account of slots is arithmetic over the cardinalities of five sets, each action moving
one or a whole set of members from one to another. The second half of `SlotsAccounted`, that a kernel in the pool which is neither idle nor
anybody's is a stranded one, is kept by `KeptIf`: whoever has a kernel passes it on, or strands it, in one step.

**StorageProofs** holds the proofs of five modules that share no state.

* Store, for any writers, appends and deletions (`StoreAssumption`): `StoreTypes`, `ReturnedIsDurableAlways`, and the refinement
  `AppendsInOrderAlways == StoreSpec => AppendsInOrder`. The lock (`LockHeld`) gives at most one transaction between `BEGIN` and its
  end; what it has executed is pending or durable, never neither, because a plain writer's commit in the middle makes it durable and
  only the transaction's own rollback or a crash discards it. The rows of appends are numbered with their places (`Numbered`), so
  the number an append has read is still the number of rows when its row becomes durable, at whoever's commit; that commit is
  AppendLog's step and every other step is a stutter.
* Daemon, for any processes, migrations and kills: `DaemonTypes`, `ServesWholeSchemaAlways`, `StaleOnlyAfterKillAlways`.
  `RecordedIsRun` (what is recorded is in the database) is kept by interleaved migrators since a version is written after its
  script, and a slower migrator only lowers it; `AppliedIsRun` carries it to the local variable of each process,
  `PlaceTellsVersion` to its place in the code.
* Copies, for any shares: `CopyTypes`, `CopiesAreWholeAlways`. `GrantFollowsDirectory` says between which steps a grant may exist,
  `CopyIsStaged` that the installed skill is only touched with a whole copy at hand.
* LegacyImport, for any source, any number of runs and of uses: `ImportTypes`, `ImportIsWholeAlways`. `Written(step)` names the keys
  an import has staged at each step, `Uncommitted` that it changes no history that is stored, and `ItemsBehind` that what
  the daemon appends starts behind the items, so that a later forced import ignores it. The converted items of a source
  (`Known`) are a recursive function; that it exists, and what it yields, is proved by the least
  counterexample (`LeastNat`).
* Retention, for any tasks, sizes, windows and budget: `RetentionTypes`, `ResultsAreKeptAlways`. `WindowsCover` says that the window of a
  kept record lasts as long as its result is owed. The attempt to prove the budget found an error in an earlier form of the model, in which
  an access could evict a record and leave it marked as kept; the record is now gone with the access that evicts it.
* Kv, for any pages and keys: `NoEditLostAlways`, which with the types is inductive. A put with If-Match writes what its page has
  read and its own edit over a document equal to what was read, so everything acknowledged is in it.

**AdministrationProofs** holds those of five more.

* Gateway, for any set of endpoints with "default" in it and any number of requests, from a new database or a converted one: `GatewayTypes`, `AliasesResolveAlways`.
  `ClientsHaveRows` is what makes `put_gateway_alias`, which looks only at clients in memory, write a row that
  resolves after a restart: between requests every client has its row. The refresh, unsafe otherwise, only adds rows. `UnroutedIsThere` confines the
migration's exception to its alias, and `KeysAreStored` says at which awaits the client's key is the stored one, the earlier version's or a deleted one.
* Cron, for any number of firings, requests and crashes: `CronTypes`, `OneShotActsOnceAlways`, `EntryIsActiveAlways`.
  `ActionsAreCovered` is an accounting: `Coming` is the number of further actions that the state may lead to (a registration
  about to make its entry, and one of a run before its action, an entry, or an active row the next
  start would schedule), and done plus coming never exceeds registrations plus crashes.
* Actors, for any number of versions, Actors and messages: `ActorsTypes`, `LiveActorListensAlways`, `RowTellsTheActorAlways`.
  `RequestSteps` lists the places of each lifecycle request, `RecordHasRow` between which of them record and row differ, `LiveListens` and
  `StatusIsTrue` what an Actor and the two columns of its row say at each.
* McpAuth, for any attempts: the action property `SucceededIsFinalAlways`. `SuccessIsLast` is why memory cannot be
  set back by a write that is answered late: the write of a success is its task's and the last of its attempt, and
  `EndedIsQuiet` that nothing but a request that overrules it is left to issue another.
* Catalog, for any skills, names and configurations: `RestartKeepsCatalogAlways`. `SkillsWhole` and `IntegrationWhole` say which of
  memory and row each step of a request has already changed.

**MessagesProofs** holds those of the way of a message.

* Turns, for any routes and any length of the history: `TurnsTypes`, `OneVoiceAlways`, `ChainCoversInputsAlways`. `Covers` says
  of both copies of the response state, in memory and in the row, that the stored response stands for exactly the inputs up
  to the cursor; `VoiceIsOwn` that an attempt begins in silence.
* Feed, for any queue size and number of versions: `FeedTypes`, `ClientCatchesUpAlways`. `LastIsNewest` is the argument:
  whatever the bounded queue dropped, the last frame on its way has the object's version.
* Dialogue, for any number of calls and runs: `RequestsAreAnsweredAlways`. What a request says is computed by a recursive function
  over the history; `AddAlone`, `AddCalls` and `AddText` say what a commit adds to its value: an input or a result
  is a message of its own, and the calls of a step, which always come behind one of those (`LastMessage`), are one message.
  `Paired` lets a call be without its result only while it is `Due`: in the group whose tools run, or as the question that
  pends in an idle conversation. `GroupIsOpen` and `CallsAreNumbered` are why a result answers no second call.
* EventBus, for any listeners, queue size and number of events: `MissedIsDisplacedAlways`. The event that pushes the
  oldest out is essential, because a noisy one gives way, and it enters a whole queue later (`Displaced`).

The argument of each property is an induction over steps. An induction over data is needed in three
places, the items of an import, the sequences of a queue and the messages of a history; they are done with least
elements, from `WFMin` and `NatLessThanWellFounded` (`LeastNat`, `CountUp`), since the induction theorems of the library take an
operator as parameter.

Only model-checked: liveness (`CancelStopsBody`, `TerminalIsDecided`, `DetachedIsSettled`,
`InterruptEndsRun`), since liveness under fairness and ENABLED are beyond the prover, and `ShowsWhatWasSaid` of
Transcript. It compares what two families of folds over sequences (`FoldLeft`, `SelectSeq`, `SelectLastInSeq`) make of a history and of the chunks
of a step; what such a fold yields is an induction over its sequence, and the library states it with an operator
as parameter, which the provers cannot instantiate. The type invariant of Transcript, whose committed items come out of
such folds, is only checked as well.

## What is not modelled, and why

* The interaction of two administrators: lifecycle requests, gateway requests and cron requests come
  one at a time in their modules. Two at once can leave a dangling alias (`app/service.py:540`).
* A crash of the daemon in TaskTree, TaskDelivery, TurnCapabilities, KernelPool and Conversation: tasks,
  leases and queues live in memory and are gone with it. A conversation row that says "active" stays so
  until its next run (`web/routes/conversations.py:43`).
* The iopub protocol of a kernel and output limits: data of a single call. A kernel may die,
  fail a reset, or hang until its timeout, which is what the pool sees. Several `execute_python` calls of one
  tool at once (`tools/execute_python.py:68`) would need it.
* Contents: prompts, titles, usage rows, the wording of results, encodings of a request, hosted search, snapshots
  for display (`app/snapshots.py`), authentication and parsing of requests, static files.
* Resource files are single writes. The size limit and the listing of KV documents, the buffer of recent events, the bound of a
  stream's replay and the trim of long output.
* Terminal emulation, integrations' own tools, in-kernel facades (HTTP clients whose
  requests are inputs of TurnCapabilities and TaskTree), the rest of the web client (display only).
* Liveness of the components in `services`: see Fairness.

## Plan

Done: the core (TaskTree, TaskDelivery, TurnCapabilities, Conversation, KernelPool), the services around it
(Actors, Cron, Feed, Turns, Gateway, McpAuth, Catalog, Copies, Store, Daemon, LegacyImport, Retention, Dialogue,
Transcript, Shell, Codex, Kv, EventBus), abstract specifications of four core components and of Store with their refinements (Nursery, Outbox,
LimitedCalls, RunGate, AppendLog), and proofs of all of these and of every safety property the runs check but `ShowsWhatWasSaid`. Left, most
valuable first:

1. **Compositions.** Actors with TaskDelivery and Conversation (a disable under a run with queued results); Feed
   with Transcript (a gap in the middle of a step).
2. **An abstract specification of the kernel pool**: leases of exclusive kernels out of a budget of slots, with the two
   exceptions that its properties name.
3. **Proof** of `ShowsWhatWasSaid`, with the folds of the client written as recursive functions, as Dialogue's are.
4. **Overlapping requests** of administrators in Actors, Gateway and Cron, with properties for what must hold then.
5. **Liveness** of a client behind a working socket in Feed, and of a cron entry while the daemon runs.
