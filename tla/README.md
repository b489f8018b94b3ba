# SAVC: models, checks and proofs

Self-Aware Virtual Companion (SAVC) is a companion agent on top of a vendored
gateway, OpenClaw. Its own code is a set of Node.js parts that keep state
between awaits, between processes and between restarts. This directory holds
TLA+ modules of the parts whose state more than one actor changes, TLC runs
that check them on small instances, and TLAPS proofs of what matters most.

Paths below are relative to `src/`.

## Inventory

### Sub-agent lifecycle — `packages/core/orchestrator/lifecycle.mjs`
* State: a map of runs (status, output, error, timeout, promise, timer).
* Operations: `spawnAgent`, `waitForAgent`, `waitForAll`, `cancelAgent`,
  `getStatus`; callbacks: the run's timer, one timer per wait, the settlement
  of the executor.
* Interaction: called by the plugin's tools in mock mode and by the
  orchestrator's tests; reads agent definitions from the registry.
* Hard: three actors decide a run (executor, timer, caller), and two timers
  race for the caller's answer; the executor is never stopped.
* Correct if: a run is decided once; all callers hear the same outcome; every
  run ends; a wait with a timeout returns.

### Commercial task store and service — `packages/service/src`
* State: `tasks` and `events` maps; `tasks.json` and `events.json`, each
  written through a temporary file named by the process id; task status.
* Operations: create a task, add a message, cancel, read; the HTTP handlers of
  `server.mjs` call them and answer.
* Hard: every method awaits between its check and its change; two changes
  persist at once over shared temporary files; the process dies between the
  two renames; the disk refuses.
* Correct if: what was acknowledged survives a restart; the files always
  parse; nothing follows a cancellation.

### Proactive daemon and dispatcher — `scripts/runtime/proactive_*.mjs`
* State: one JSON file (date key, count of messages, last interaction, last
  idle ping, calendar window and topic last spoken of); the delivery log.
* Operations: `executeTick` from a cron job, a file event, or the command line
  (also as a dry run): load, decide, run the dispatcher as a child process,
  save, exit if that failed. The container restarts the daemon.
* Hard: ticks overlap, without a lock; the state is a copy that is seconds old
  when it is written; the file is rewritten in place; the exit of one tick
  kills the others; the child outlives its parent; three clocks (UTC for the
  date, the host's for quiet hours, the user's for cron).
* Correct if: the daily limit and the quiet hours hold; no subject is repeated;
  the state file stays readable; the count is never more than what was sent.

### Plugin runs in real mode — `packages/plugin/src`
* State: the run store (`run-store.ts`): per run a status and an output.
* Operations: `savc_spawn_expert` (spawn, optional handoff, optional wait) and
  `savc_agent_status`, over the gateway's `agent`, `sessions_send`,
  `agent.wait` and `sessions_history`.
* Interaction: the gateway (`openclaw/src/gateway/server-methods/agent.ts`,
  `agent-job.ts`) keeps per run the end of its last attempt for ten minutes, an
  error only after 15 seconds without a new attempt, and the result of the
  command for five minutes; `agent.wait` answers from these or waits.
* Hard: several calls patch one record in whatever order their awaits return;
  the gateway says "timeout" for a run that goes on, one that was aborted, one
  whose error is withheld and one it has forgotten; the result of the command
  may differ from the end of its last attempt; calls are lost.
* Correct if: a reported outcome is one the gateway had; an end the gateway
  keeps is reported; every call of a tool returns.

### Gateway client of the UI — `packages/ui/src/ui/gateway-ws.ts`, `mock/index.ts`
* State: per `GatewayBrowserClient` a socket, the pending requests, whether
  `connect` was sent, the timers of handshake and reconnection; in
  `GatewayDataClient` the client of the moment and the promise of a connection.
* Operations: `start`, `stop`, `request`; `ensureClient`, `resetClient`, and a
  `request` that retries once with a new client; callbacks: the socket's
  events, the challenge, timers, and WebCrypto.
* Interaction: all views of a page share one `GatewayDataClient`; `app.ts` has
  a client of its own for its health poll, used in the same way.
* Hard: any request may stop or replace the client others await; `stop` clears
  no timer; "connected" is true before the gateway has greeted; one promise's
  `finally` clears whichever promise is there.
* Correct if: every request ends; a stopped client stays down; the handshake
  comes first and once; nobody is handed a client that was stopped.

### Global storage of the UI — `packages/ui/storage/global-storage.ts`
* State: a row per key in SQLite; in front of it a cache entry in Redis or,
  without Redis, in a map of the process, each with a time to live; which of
  the two caches is in use.
* Operations: `init`, `setKv` (cache, then row), `getKv` (cache, then row, then
  a fill of the cache), `getStatus` (a ping); Redis connects, fails, evicts.
* Interaction: the middlewares of `vite.config.ts` read and write through it.
* Hard: a fill crosses a concurrent set at an await; a failed ping changes the
  cache for good, under calls that are on their way; a restart leaves Redis
  with commands of the former process.
* Correct if: a replaced value leaves the caches in bounded time, and is not
  answered after that.

### Task runtime of the UI server and its pages — `packages/ui/vite.config.ts`, `public/studio/studio-core.js`, `public/progress-hub/task-runtime.js`
* State: a map of tasks and the timers of demo runs in the server; in a page
  what it shows, a stream of events and the fetches it has under way.
* Operations: `/create`, `/control`, `/demo`, `/snapshot`, `/stream`; the pages'
  refresh, poll, and listeners; the restart of the server.
* Hard: fetches overtake each other and the stream; demo timers go on while a
  user controls the task; the server loses everything when it restarts.
* Correct if: a page ends up showing what the server has; a finished task is
  moved by a user only.

### Semantic memory — `scripts/runtime/memory_semantic.mjs`
* State: one connection for the process (`dbState`), moved from workspace to
  workspace; per workspace a LanceDB table and `state.json` with two counts.
* Operations: `store` (embed, look for a duplicate, add, count), `remove`,
  `search`, `stats`; all begin with `ensureInitialized`.
* Hard: each is a chain of awaits, and the connection may point elsewhere after
  any of them; the duplicate check and the add are two operations; `state.json`
  is read, changed and rewritten in place; a new table holds a placeholder row
  for a moment.
* Correct if: duplicates, misplaced rows and wrong counts need calls that
  overlap; no call sees the placeholder.

### Parts not modelled
* Agent registry (`registry.mjs`): a map that `discoverAgents` clears and fills
  across awaits; the repository's callers do so once, at start.
* Router, decomposer, aggregator: functions of a text; the layering of the
  decomposer is small and covered by its unit tests.
* Phase 1 runtime (`proactive_runtime.mjs`): a second writer of the daemon's
  state file that drops fields; listed as an open hazard.
* The vendored gateway but for what it keeps of the plugin's runs (most of the
  repository's source), planners without state (voice, vision, Live2D,
  vibe-coder), the command-line programs that rewrite Markdown once per call,
  UI rendering, and shell and deployment files.

## Plan

| step | module | state |
|---|---|---|
| 1 | `RunOutcome`, `Lifecycle` | checked, proved |
| 2 | `TaskLedger`, `TaskStore` | checked, proved with its refinement |
| 3 | `ProactiveDaemon` | checked, proved |
| 4 | `GatewayRuns`, `RealRuns` | checked, proved |
| 5 | `GatewayClient`, `DataClient` | checked, proved |
| 6 | `GlobalStorage` | checked, proved |
| 7 | `TaskRuntime`, `TaskPages` | checked, proved |
| 8 | `SemanticMemory` | checked, proved |
| 9 | the registry under overlapping discoveries | open |
| 10 | the phase 1 runtime as a second writer in `ProactiveDaemon`; the watcher's own events | open |

The order is that of what is lost when the part is wrong: first a run's outcome
and a customer's task, then messages to the user, then what the pages show. An
abstract register per key was planned for the storage; the code keeps no such
promise (a getKv may answer a replaced value), so what is stated and proved is
how long that may last. The modules that are proved about declare no
`RECURSIVE` operator.

## Modules

| module | what it is |
|---|---|
| `RunOutcome` | abstract: a run gets one outcome, answers are truthful, runs end |
| `Lifecycle` | `lifecycle.mjs`; implements `RunOutcome` |
| `LifecycleProofs` | its invariants, that no waiter is forgotten, and the refinement, proved |
| `TaskLedger` | abstract: the log of a task |
| `TaskStore` | `store.mjs` as `server.mjs` calls it; implements `TaskLedger` |
| `TaskStoreHistory` | `TaskStore` with the history of its overlaps: what the files are worth |
| `TaskStoreProofs` | the invariants of both, in memory and on disk, and the refinement, proved |
| `ProactiveDaemon` | `proactive_daemon.mjs` with the dispatcher's process |
| `ProactiveDaemonHistory` | `ProactiveDaemon` with the history of its overlaps: who ran beside whom, and whether writers clashed |
| `ProactiveDaemonProofs` | the invariants of both, for ticks that overlap and die as they like, proved |
| `GatewayRuns` | `agent.ts`, `agent-job.ts` and the maintenance timer of the gateway: what it keeps of a run |
| `RealRuns` | both tools of the plugin, with the run store, over `GatewayRuns` |
| `RealRunsProofs` | its invariants, and what becomes of a run aborted at its timeout, proved |
| `GatewayClient` | `gateway-ws.ts`: the handlers of one client, as functions |
| `DataClient` | `GatewayDataClient` of `mock/index.ts`, over `GatewayClient` |
| `DataClientProofs` | its invariants, and that every request is attended to and advances, proved |
| `GlobalStorage` | `global-storage.ts`, one key of it |
| `GlobalStorageProofs` | its invariants, proved |
| `TaskRuntime` | the handlers and timers of the task runtime in `vite.config.ts` |
| `TaskPages` | `TaskRuntime` composed with the studio and the board that show it |
| `TaskPagesProofs` | what a board and a studio show and who moves a finished task, proved |
| `SemanticMemory` | `memory_semantic.mjs`: store and remove over one connection |
| `SemanticMemoryProofs` | its invariants, proved |
| `MC*` | instances for TLC |

### Lifecycle
A run's fields are functions of its id. One action is one uninterrupted stretch
of JavaScript: `Spawn` (arms the timer, calls the executor, enters the map),
`ExecutorSettles` (the executor's promise settles), `Continue` (what follows
`await executor(..)`, up to the resolution of `run.promise`, which answers the
waiting calls), `RunTimerFires`, `Cancel`, `Wait` (`waitForAll`, which with one
run is `waitForAgent`), `WaitTimerFires`. Microtasks run before timers:
`MicrotasksPending` keeps timers from firing between a settlement and its
continuation, while callers may still act there. Node fires timers of equal
duration in the order they were armed, hence the guard of `WaitTimerFires`.
Timeouts are milliseconds; an agent's limit is in seconds and converted by
`EffectiveTimeout`. Delays are otherwise abstract: any armed timer may fire.

### TaskStore
A call is a method of the store and moves from one await to the next. Since
`init` has completed when the server listens, `await this.init()` costs one trip
through the microtask queue, which is modelled as the FIFO it is; calls
accepted in one turn of the event loop interleave there (`MaxTurn`), and calls
of different turns meet only in file operations. The files are inodes: two
names (`main`, `tmp`) per file, an open descriptor per call, contents with a
length, so that a truncation, a shorter text over a longer one, a write through
a renamed name and a rename of someone else's text are what they are on disk.
`persist` turns the tasks to text when it starts and the events only after the
first rename, with the entries it copied earlier and the rows of that later
moment. `Crash` empties the process, `Boot` reads the files back and needs them
to parse, `DiskFault` fails any one operation. Two requests in one turn are
reachable by HTTP pipelining, when both bodies end in one read of the socket
(`MaxTurn = 2`).

The server calls the store concurrently and nothing there excludes it, so the
files do suffer: persists that overlap share a temporary file and overtake each
other, and an acknowledged change may be missing from disk, or the disk be
unreadable, for a while. `TaskStoreHistory` says for how long. `trust` is
"shared" from the moment two calls write at once; it is "whole" again when a
call that has had the store to itself from its change of the maps on (`alone`)
is acknowledged, because `persist` writes everything; and it is "lost" for good
when the process dies while shared, or when `appendEvent` reaches a task whose
status has changed since the call checked it. The properties are stated for
"whole" (the files) and for anything but "lost" (cancellations).

### ProactiveDaemon
Time is counted in slots; `DayLen` of them make a day of UTC, and the offsets
say how far ahead the clocks of host and user are. A tick goes through loading,
evaluating, dispatching, saving (the open that truncates), writing and written.
The dispatcher is a process of its own (`child`), which goes on when the tick
is dead. `Finish` of a tick of the daemon whose dispatcher failed ends all its
ticks; `Crash` is a kill from outside, `Restart` the container's policy. What
calendar and memory offer is a subject, the weather and the mood a free choice.
Ticks of the command line and dry runs are processes of their own, which share
the file with the daemon and outlive it.

Cron, the watcher and the command line start ticks without a lock, and ticks
that overlap do exceed the limit, repeat each other and tear the file.
`ProactiveDaemonHistory` says how far that goes. `met[t]` are the ticks that
were under way together with `t`; a tick ran alone when it met none (`Alone`).
What an alone tick said is known to every tick after it, however those overlap,
because nobody holds an older copy of the state; that is what `LimitHeld`,
`IdleSpaced` and `FollowUpsNew` say. A state of another date replaces it, so a
tick that ran beside one of a later date is outside the properties about one
date (`NoneLater`). `clashed` records that the file was open in two ticks at
once or in one that died; until then the file parses when nobody is writing it
(`WholeUnlessClashed`).

### RealRuns
`GatewayRuns` is the gateway's side. A run is a command whose attempts begin and
end (`phase`); `cache` is the end of the last attempt (`agentRunCache`, or
"erring" while the error waits for its grace), `dedupe` the result of the
command, which `agent.wait` reads first. So an attempt that was aborted may
come to "ok" when the command has something to reply, an error may be withheld,
and everything is dropped in the end. Times are abstract: the grace of 15
seconds may pass and the results be dropped (after five minutes) or pruned
(after ten) at any moment, only no result is dropped within a grace, which is
shorter. `agent-wait-dedupe.ts`, which `agent.ts` imports, is not in the
repository, and neither is the `subagent-spawn.ts` behind the plugin's call;
`Settles` and `Accepts` are modelled from the code that uses them.

`RealRuns` are the tools. A call is a use of one of them, `record` the store.
`AgentWait` answers with what the gateway has, or waits for it (`RunGoesOn`
tells those who wait), or the wait expires. Several calls await at once and
patch in any order; `patchRunRecord` overwrites whatever is there, as in the
code. `verdicts` (the outcomes the gateway has had for a run), `held` (it kept
one as long as the call took) and `late` (the call began when its overdue run
was over) are history variables. The plugin runs in the gateway's process, so
neither restarts without the other and the store starts empty.

### GatewayClient and DataClient
`GatewayClient` gives a client's state as a record (`conn[c]`) and each handler
as a function from record to record, because handlers call each other within
one step: a retry stops a client, which flushes its requests, and starts
another. `DataClient` adds the users: a request (`pc`, `run`, `on`, `fault`) is
`idle`, awaits the connection of client `on[q]` (`ensuring`), has it (`ensured`),
awaits its answer (`sent`), is in its catch (`caught`), or has ended. A client
made by `ensureClient` has the next number; `settled[c]` is the promise made
for it, which passes through `resolving` or `rejecting` until its `finally` has
run. Promise reactions come before timers, socket events and calls
(`Microtasks`), in any order among themselves. `Greets`, `Refuses`, `Answers`
and `CloseEvent` are the gateway and the network. What an error says decides
whether a request tries again: "gateway client stopped" is no reason, timeouts
and closed sockets are, and the messages of the gateway may be either.
`Reconnects` waits until handshake timer and WebCrypto of the former socket are
through: it comes at least 800 ms later, they take 160 ms and a signature.

### GlobalStorage
One key: keys do not interact. A value is named by the call that set it. SQLite
is synchronous, so a call moves from one command to Redis to the next:
`SetKv` and `GetKv` run up to the first command or to their end, `Reply` takes
the next reply, which finishes a set (`SetReturns`), answers or falls back
(`GetReturns`), or gives Redis up (`PingReturns`). `wire` and `replies` are the
two directions of the connection, which keeps the order. `RedisAnswers`
executes a command or fails it, before or after its effect. `Restart` drops the
process and may leave one of its commands executed. `Delay` bounds how long a
command or a reply takes, `Ttl` is the time to live; `replaced` is a history
variable: when a value stopped being the row.

### TaskRuntime and TaskPages
`TaskRuntime` has one action per handler, over a map of tasks and the steps each
demo still has to make. Every change pushes one event, whose number stands for
all it carries. `TaskPages` gives every open stream the event (`Broadcast`), and
composes the server with its pages: a stream is a queue, which begins with a
snapshot; a fetch is a slot that is asked, then answered with the snapshot of
that moment, then delivered, in any order with others. A studio fetches on
every event and polls; a board applies events itself. What a page shows of a
task is the event it is as of.

### SemanticMemory
All calls store the same text (texts that differ do not interact), and a row is
named by its call. `db` is `dbState` with its shared promise: closed, opening or
creating for a workspace, open, or broken. A call goes from await to await and
`Turns` to whatever table is open by then (`handle`). The file is torn between
truncation and write. Four history variables say what overlapped: `present`
(the rows when a call began), `mixed` (calls beside one for another workspace),
`contended` (workspaces where two calls recorded at once, or one was cut off),
`done` (what was really added and removed).

## Runs

Each run is `tlc -config <cfg> <module>`; a configuration is named `<module>_<name>.cfg`.

| run | question | bounds |
|---|---|---|
| `lifecycle_races` | is a run decided once, told alike, ended, and `RunOutcome` implemented, whatever races? | 2 runs, 1 wait on either or both, 2 timeouts and the limit that equals one of them |
| `store_durable` | with calls that overlap, in one turn or in several, and die: when is what was acknowledged safe on disk, and does a cancellation last? | 1 task, 4 calls, 2 at once, 2 in a turn, 1 crash, 1 fault |
| `store_overlap` | with overlapping calls: are all answered, are the maps right, is `TaskLedger` implemented? | 1 task, 3 calls, 2 at once, 1 fault |
| `daemon_overlap` | with ticks and dry runs that overlap, die and fail: do the limit, the state file, the memory of subjects and the count hold as far as said? | 3 ticks, 2 at once, 2 dates, 1 crash, 1 dispatcher that delivers and fails, limit 1 |
| `daemon_utc` | (violated) are the quiet hours those of the user? | 1 tick, 24 slots to the day, host on UTC, user 8 ahead |
| `realruns_patches` | are outcomes ones the gateway had, are ends it keeps reported and revised for cause only, and does every call return? | 1 run, 2 calls |
| `realruns_aborted` | (violated) is a timed-out run that is over reported as ended? | 1 run, 2 calls |
| `dataclient_shared` | does every request end, and are stopped clients, past promises and second handshakes excluded, whatever overlaps? | 2 requests, 3 clients, 1 reconnection |
| `dataclient_early` | (violated) is `connect` the first frame on a socket? | 2 requests, no reconnection |
| `storage_cache` | does a replaced value leave the caches in time, and the answers with it? | 2 setKv, 2 getKv, time to live 2, delay 1, clock up to 3, 1 ping, eviction or restart |
| `pages_mirror` | does a board follow its stream, does a studio converge, and who moves a finished task? | 2 tasks, 1 page of either kind, 2 fetches under way, 3 events, 1 fault, demos of two steps |
| `memory_stores` | do duplicates, misplaced rows and wrong counts need calls that overlap, and is the placeholder hidden? | 2 stores, 1 removal, 2 workspaces, 2 failures or restarts |

Why the bounds are enough. The races of a run are between its own executor,
timer, cancellation and waits; a second run is needed for `waitForAll` (one
known, one unknown; one decided, one not). Persists damage each other in pairs,
the third call puts the files right or finds one gone, and the fourth comes
after a restart. Two ticks overlap, the third comes before or after and finds
what they left; a limit of one is met by the second message; each slot is a
date of its own in `daemon_overlap`, so that ticks of two dates overlap, and an
hour in `daemon_utc`. One call waits for a run while another asks about it and
both patch; a run may be tried again any number of times. Two requests that each retry
use three clients at most at a time; `EnoughClients` admits a call only when
each may still get the client of its second run, and one reconnection of any
client is enough to put old timers beside a new socket. A stale fill needs one
getKv that read the row before a setKv replaced it, and a second getKv to be
told the value; a clock of `Ttl + Delay` reaches the moment it must be gone.
Two fetches are enough to overtake each other or the stream, and a third event
comes after both; pages do not act on each other, so one is enough. Two stores
race for a duplicate, the removal makes the second count, two workspaces move
the connection, and one failure may be followed by a restart. The counts of
calls, ticks, events, crashes, faults, lies and the horizon bound the state
space and nothing else: all are named constants in guards. The mutant of each
property (a plausible slip of the same line of code, kept beside the definition
it replaces) shows that the case the property is about does occur within the
bounds.

The runs of the store and of the daemon are of the specifications with history
(`HSpec`), which add variables to every step and forbid none; TLC therefore
counts their steps under `HNext`.

`Symmetry` permutes interchangeable model values and is used in runs without
liveness only. Deadlock is reported in `pages_mirror`, where the pages are
never through, and not elsewhere: those systems may be idle for good.

No run checks a property that another run's property and a proof already give:
the type invariants are proved (those of `SemanticMemory` and `TaskPages` are
stated beside their proofs), as is
`CancelHonoured`, which `ImplementsContract` and `OutcomeFinal` imply;
`NothingAfterCancel` is proved and implied by `ImplementsLedger`. `IdleSpaced`
and `QuietByHost` need more slots or a higher limit than `daemon_overlap` has
and are proved only.

### Fairness
`Lifecycle`: continuations and armed timers eventually run (the event loop);
nothing makes an executor settle or a caller call. `TaskStore`: queued calls
resume and file operations complete or fail; no fairness of `Boot`.
`RealRuns`: each request to the gateway carries a timeout, so it is answered or
given up; nothing makes a run end, and no grace or maintenance timer need fire. `DataClient`: promise reactions and the
timers of `withTimeout` and `ensureClient` run; no socket need open, close or
answer. `TaskPages`: a studio polls (its `setInterval`), the server answers what
it was asked, answers and messages arrive, `EventSource` connects again; nobody
need send a request, no demo timer need fire, and a board has no poll.
`ProactiveDaemon`, `GlobalStorage` and `SemanticMemory` state no liveness: a
dispatcher, a database or an embedding service owes no answer in the code.

### What the violated runs show
* A run that was aborted at its timeout and is over is reported running: the
  gateway says "timeout" for it, or for want of any record, and a status call
  takes that for a run that goes on. Documents promise cancellation at the
  timeout and a status by run id.
* The quiet hours of the skill, 23:00-07:00, are compared with the clock of the
  host. The cron jobs follow the user's time zone (`scheduler.timezone`), and
  the container of the daemon sets none, so it is on UTC: the daemon speaks at
  23:00 of a user in Shanghai, and is silent from 07:00 to 15:00.
* A view's request between a socket's open event and the `connect` frame is sent
  at once, although the first frame must be `connect`; the gateway then closes
  the socket on everyone.

### Demonstrations
Three configurations, which are not among the runs of `PROJECT.json`, show that
the properties need the history they are stated with. TLC finds each of these
plain forms violated.
* `MCTaskStore_pipelined.cfg`, `NothingAfterCancel`: a message checked before a
  cancellation in the same turn of the event loop reopens the task.
* `MCTaskStore_lostack.cfg`, `AckedDurable`: persists that overlap share a
  temporary file, and an acknowledged change may be missing from disk until the
  next persist.
* `MCProactiveDaemon_burst.cfg`, `DailyLimit`: ticks that overlap exceed the
  daily limit.

### What else came out
With a day of more slots and `MaxDaily = 1`, and no overlap, crash or lying
dispatcher, `DailyLimit` is violated too: the count starts over with the day of
UTC, at 08:00 of a user in Shanghai. A dry run writes the subject it would have
spoken of into the state file, so the subject before it may be taken up again:
hence `RehearsedSince` in `FollowUpsNew`.

Others have no document that says otherwise, so no run states them.
* A wait without a timeout never returns from a run that timed out while its
  executor hangs (`BoundedWaitReturns` is about the others).
* `ensureClient` replaces a client that is down without stopping it, and that
  one goes on reconnecting. When several requests lose a connection together,
  each retry stops the client the one before has just made, whose request then
  fails for good, as "gateway client stopped" is not retried.
* A setKv that awaits its SET while a ping fails writes its row late, over that
  of a setKv made meanwhile through the memory; errors of SQLite are swallowed.
* A board has no poll: an answer that its stream has overtaken stays on the
  screen until the next refresh or reconnection, and a task made elsewhere
  appears with one of these only. The property therefore excludes `overtaken`
  boards and tasks not shown.
* `/control` moves a finished task to any other state, and the studio's own
  create-then-run sequence does so to a task cancelled in between.
* A failed `ensureInitialized` keeps its rejected promise: every later call of
  the process fails. A placeholder row survives a crash between `createTable`
  and its deletion (hence `restarts > 0` in `PlaceholderHidden`). The note that
  storing one text twice makes no new record
  (`docs/记忆系统语义检索升级方案.md:193`) holds for stores that do not overlap.

## Proofs

TLAPS proves the following for every set of runs, waits and calls.

`LifecycleProofs`, from `DurationAssumption` (timeouts are positive, limits
convert to timeouts): `TypeOK`, `CancelHonoured`, `AnswersAgree`,
`RunningIsTimed`, `EqualTimeoutsDecide`, `OutcomeFinal`, and that every
behaviour is one of `RunOutcome`, its liveness aside. `WaitersAreTimed` is the
safety half of `BoundedWaitReturns`: whoever waits without an answer waits on a
promise that is still to be resolved and, with a timeout, has a timer armed. The
invariant `IInv` is
their conjunction, strengthened by what each needs to be inductive:
`Undecided` (a run not decided carries neither output nor error, a stopped one
carries the reason), `Executors` (an executor starts with its run, and only its
continuation completes or fails the run) and `WaitBooks` (calls wait on known
runs, timers and answers belong to calls that wait, and a resolved promise has
answered everyone who waits on it). Each
action has a lemma with one step per conjunct. `OutcomeFinal` and the
refinement are action properties from `IInv` and `IInv'`; the latter maps
`Continue` and the timers to the contract's decision, answer or both.

`RealRunsProofs`, from `RunAssumption` ("none" is not a run id): `TypeOK`,
`ResultsTruthful`, `EndedRunReported` and `RevisedForCause`. The invariant adds
to these `Recorded` (a run has a record exactly when the gateway has accepted
it), `GatewayBooks` (what the gateway keeps of a run it has noted, and a result
is that of a settled command), `CallBooks` (what each call knew when it began),
`HeardBooks` (what a call has heard is an outcome the gateway had) and
`HeldBooks` (while the gateway keeps an outcome, nobody waits for it or is told
that the wait has expired). The argument does not need ends to be stable in the
gateway, which they are not: an outcome once had stays in `verdicts`, however it
is revised, dropped or forgotten, and whatever order patches come in, each was
had when heard. `StaysRunning` is the finding of `realruns_aborted` in general:
a run whose end was missed (`Missed`: its command is over, the gateway has
forgotten it or keeps only that it was aborted, its record says running, and no
call is about to learn more) stays so in every later state.

`DataClientProofs`, from `ClientAssumption` (clients are numbered from 1,
`connect` is not a user's request): `TypeOK`, `PendingOnSocket`,
`StoppedStaysDown`, `IntroducedOnce`, `PromiseIsOpen` and `CurrentIsRunning`, for
any number of clients and requests. `IInv` adds `Unborn` (a client not yet made
is untouched, and the current one was made) and `SocketBooks`, which says when a
`connect` can still be on its way: only with `connectSent`, and never beside a
reconnection. The proof splits `IInv` by `Parts` into `Good(k)`, a predicate of
one client, `Shared` and `Requested`. Each handler keeps `Good` (`StopIsGood`,
`SendIsGood`, `SendConnectIsGood` ..); `OneClient`, `ResetIsGood` and
`MakesIsGood` carry that over to all clients; and one lemma per action concludes.
Two more theorems are what `RequestsSettle` comes to without fairness.
`Attended`: a request under way may resume, or has a timer of its own, or awaits
a promise that is open, whose timer is armed; and where it is to try again, a
client can be made, so that `EnoughClients` bounds the calls of the model and
withholds no retry. That rests on `InTurn`: clients are made in order, and
each request in its first run has one left. `OnlyForward`: whatever
changes a request brings it to a later `Stage`, of which there are ten.

`TaskStoreProofs`, for any set of tasks, any finite set of calls and any bounds.
Without further assumption: `TypeOK`, from `CallBooks` (what a call carries at
each await), `QueuedOnce` and `TextBooks` (what parses on disk has the shape of
the maps); and `NoneForgotten`, that the living process has a continuation for
every call it has not answered.

On disk, for `HSpec`, with any number of calls that overlap, of crashes and of
failing operations: `DurableWhenWhole`, `ReadableWhenWhole`, `CoveredWhenWhole`
and `CancelSurvivesUnlessLost`, and that while the files are whole an
acknowledged call has exactly one event on disk (`AcknowledgedOnce`). The
invariant `Books` has one part for each thing overlapping calls cannot break.
`NameBooks`: a file is opened under its temporary name only, so the main name
carries an older text until a rename. `PastBooks`: whatever parses under either
name, or in a draft, is no further than the maps of the living process.
`WritesAlone`: the call that has the store to itself writes what the maps hold,
under a name nobody else writes to, which is why its second rename makes the
files whole whatever was there before. `MapBooks` and `DiskBooks`: the logs are
covered by the tasks, and `RowBooks`, nothing follows a cancellation in a log;
they pass from the maps to the files when a call that writes alone is through,
and from the files to the maps when a process starts. `HistoryBooks` ties
`trust` and `alone` to the calls that write. With calls of different turns
(`MaxTurn = 1`), trust is lost by nothing but a process that dies while calls
overlap (`LostForCause`).

In memory, under `TurnByTurn` (`MaxTurn = 1`,
no crash) and with persists that overlap and fail in any way:
`RepliesTruthful`, `NothingAfterCancel` and `ImplementsLedger`. The invariant
`Turns` says that one call at most waits in the queue (`OneQueued`), so that
what a call found when it checked is as it was when it resumes (`FoundBooks`),
and that a task's status tells whether its log is closed (`LogBooks`). The
refinement maps `CreateTask` to the ledger's `Create`, `AppendEvent` to
`Message` or `Cancel`, and all else to a stutter. Calls of one turn cannot be
admitted here: `MCTaskStore_pipelined.cfg` violates the ledger's rule with them.
That the process lives is an assumption because the maps start again from the
disk, which may be older.

`ProactiveDaemonProofs`, for any number of ticks at once, crashes and false
reports: `TypeOK` and `CountBacked`, from `ChildBooks` (how far a dispatcher and
its tick can be apart) and `CopiesBacked` (the copy a tick holds in memory
charges its date with no more than dispatchers reported; it may be old, but
reports are never taken back).
`QuietByHost` (the quiet hours, by the clock of the host) under `HoursOfTheDay`
(they start and end at slots of a day), from `Awake`, whatever the user's offset;
`daemon_utc` shows that it is not the user's night.

In the same module, for `HSpec` and ticks that overlap, die and lose messages as
they like: `LimitHeld`, `IdleSpaced`, `FollowUpsNew` and `WholeUnlessClashed`.
The first three rest on one argument. When a tick that met no other ends, every
tick to come starts no earlier by the clock (`MetBooks`) and loads a state that
knows its message; a state is only replaced by copies loaded after that, or by
one of another date. So the file, and the copy of every tick under way, sum up
the messages of ticks that ran alone (`SumsUp`: they are counted, the last ping
is no earlier, the last subject is that of such a message or of one that
replaced it), as long as no tick of a later date has started (`Newest`); a tick
that ran beside none of a later date (`NoneLater`) is of the newest date when it
decides. `FileBooks` says so of the file, `TickBooks` of the copies; `Told` are
the messages meant and `Settled` those of them that have been saved. A topic is
carried over a change of date, so it needs no `Newest` (`TopicKept`). `Ordered`
has the message of a tick under way come after all that were told. Messages
that a crash or a false report left uncounted are outside, as in the
properties. `WholeUnlessClashed` follows from `Whole`: without a clash at most
one tick has the file open, and finds it empty when it writes.

`GlobalStorageProofs`, from `StorageAssumption`, for any number of calls, any
time to live and any delay: `TypeOK`, `CacheExpires` and `AnswersRecent`. The
argument follows a value on its way: an entry was written from a value that was
current at most `Delay` before (`EntryBooks`), since a message between the
process and Redis is that young and its value was current when it was sent
(`MessageBooks`); an answer comes from an entry or from the row
(`AnswerBooks`). `Since(v, t)` says that `v` is
current or was still so at time `t`.

`SemanticMemoryProofs`, from `MemoryAssumption`: `TypeOK`, `DuplicatesOverlap`,
`RowsAtHome` and `PlaceholderHidden`, for any number of calls, workspaces,
failures and restarts. `OwnTable` says that a call that was not mixed up with
another workspace's uses its own table, `NoneFound` that a store past its
search has no row of before its beginning left to find, `AddedOnce` that no row
comes twice, `Awaited` that a connection being made is awaited by a call for its
workspace, and `PlaceholderBooks` that the placeholder is there only while the
table is made or when that failed. `CountsExact` has an invariant of its own,
`CInv`: a workspace where no two calls recorded at once has one copy of its
counts at most, in the file or in the hands of the call that is recording, and
that copy lacks exactly the calls that are still to be noted (`LacksPending`),
which are finitely many. The steps move a call into that set, or out of it with
its count.

`TaskPagesProofs`, from `RuntimeAssumption` and `PagesAssumption`: `TypeOK`,
`BoardFollows` and `OnlyControlReopens`, for any number of tasks, pages,
fetches, events, restarts and dropped streams. The invariant is about each page
whose stream is open (`Mirror`). `InOrder`: a stream has one snapshot at
most, at its beginning, and its events are later than the `Mark`, which is the
snapshot's time or else the last event heard. `Latest`: the last event about a
task is the task's last. Hence a snapshot that is not older than the mark is
right about every task the stream brings no news of (`UpToNews`): the one a
stream begins with (`OpeningBooks`), the fetched ones not overtaken
(`AnswerBooks`), and so what a board shows (`ViewBooks`). `StaysCaughtUp` is what
`StudioConverges` comes to without fairness: a studio that shows what the server
has stays so until the next event or restart, as every snapshot still on its way
is of now (`StreamsDated`, and the like for fetches).

Only model-checked: liveness (`EveryRunEnds`, `BoundedWaitReturns`, the fairness
of `RunOutcome`, `CallsAnswered`, `CallsReturn`, `RequestsSettle`,
`StudioConverges`), as fairness and `ENABLED` are beyond the prover. For five of
them the part without fairness is proved, as said above: who waits has what will
wake it (`RunningIsTimed`, `WaitersAreTimed`, `NoneForgotten`, `Attended`), and
a studio that has caught up stays so (`StaysCaughtUp`). The two violated
properties and the demonstrations are refuted on their instances, of which
`StaysRunning` proves the first for all. Every safety property of a passing run
is a theorem, under the assumption named with it.

## What the models leave out
Texts, logs and formats; in the service, routing, validation and the token; in
the plugin, memory recall, memory capture and the Live2D plan around a run, none
of which touches the run's record; in the daemon, the providers of weather,
calendar, mood and topics, reduced to what they found, the watcher's reaction to
the daemon's own files (its state file lies in the watched tree) and the phase 1
runtime beside it, which are listed as open hazards; in the UI's client,
sequence gaps of events, device tokens, the caches of snapshots, and the health
poll of `app.ts`; in the storage, the YAML backup, the runtime logs and the
MySQL probe, which its calls write or ask and none reads; in the task runtime,
attempts and progress (they travel with the event's number), the board's filter
by task, heartbeats of a stream and the other middlewares of `vite.config.ts`;
in the semantic memory, ranking, decay and the keyword fallback of `search`,
migration and capture (loops over `store`), and several processes on one table.
