# A TLA+ model of pi-mono

`pi-mono` is a toolkit for coding agents: a streaming API over many model
providers (`packages/ai`), an agent with tool calling (`packages/agent`), a
coding agent with sessions on disk (`packages/coding-agent`), a terminal UI, a
Slack bot and a few more hosts. This directory models the parts in which
something can go wrong between two steps: event streams, the agent loop and what
it sends to a provider, the session and its file, compaction, the files several
programs or tool calls write (`auth.json`, `settings.json`, edited files), and the
Slack bot's events and channels. Paths below are relative to the repository.

1. [The system](#the-system)
2. [The modules](#the-modules)
3. [The runs](#the-runs)
4. [What is proved](#what-is-proved)
5. [Where the code and its documentation disagree](#where-the-code-and-its-documentation-disagree)
6. [What is not modelled](#what-is-not-modelled)
7. [The plan](#the-plan)

## The system

Everything runs on one JavaScript thread per process. Code between two `await`s
is atomic; the hazards are in what happens at an `await`: a user types, a
listener calls back into the agent, an abort arrives, another process writes the
same file, the process dies.

    user, extensions, RPC            the host
            |  prompt, steer, followUp, abort, commands
            v
    AgentSession  --- append ------> SessionManager ---> <session>.jsonl
      |   ^    \                          ^
      |   |     \--- compact ---> Compaction (reads the path, appends a summary)
      |   | events
      v   |
    Agent ---- runAgentLoop -------> agent loop ---> tools --- FileMutationQueue ---> files
                                       |   ^
                 transformMessages --->v   | events
                                  provider --- push / end ---> EventStream

    every program: AuthStorage ---> auth.json      SettingsManager ---> settings.json
    mom:           Slack, event files ---> channel queue ---> run of an agent

| Component | Code | State | Operations | What makes it hard | What makes it correct |
|---|---|---|---|---|---|
| Event stream | `ai/src/utils/event-stream.ts` | queue, waiters, done, final result | `push`, `end`, iterate, `result` | several iterators, `end` while they wait, early `break` | no lost wake-up; each event to one consumer, in order; everybody returns; `result()` is the terminal event |
| Agent and its loop | `agent/src/agent.ts`, `agent-loop.ts` | transcript, queues, the run's promise and abort controller, pending tool calls | `prompt`, `continue`, `steer`, `followUp`, `abort`, `reset`, the queues, the loop | host calls at every await; tools in parallel; hooks that throw; `agent_end` before the run has unwound | one run at a time; every call answered before anybody else speaks; no message lost or doubled; runs end |
| Message transformation | `ai/src/providers/transform-messages.ts` | none | `transformMessages` | what failed runs leave in the transcript | every request has one result per call, next to the call |
| Session manager | `coding-agent/src/core/session-manager.ts` | entries, index, labels, leaf, `flushed`, the file | open, append, label, navigate, compact, fork | deferred first write; crash or failure in a write; forks drop entries | what is on disk is what is in memory; contexts are histories; files only grow |
| Compaction | `core/compaction/compaction.ts` | the path, a preparation | prepare, summarize, append | cut between calls and results, turns that are split, several compactions, entries appended meanwhile | nothing forgotten, no orphaned results, the budget |
| Agent session | `core/agent-session.ts` | event promise chain, mirrors of the queues, retry and compaction state, deferred command results | prompt, steer, abort, retry, compact, switch, fork, navigate | event processing lags behind the agent; timers; switching while events are under way | the session holds what the model is sent; recovery is bounded; prompts return |
| Auth storage | `core/auth-storage.ts` | `auth.json`, a lock file | create, login, logout, keys, reload, refresh | processes that refresh one token; a lock that is declared stale; answers of the provider that get lost; processes that die; creation without the lock | a refresh token is used once; no saved change is undone |
| Settings manager | `core/settings-manager.ts` | settings, marks of modified fields, a write queue | set, save, reload | writes queued while marks are set and cleared; other processes; a user who edits | no setting lost |
| File mutation queue | `core/tools/file-mutation-queue.ts`, `edit.ts`, `write.ts` | a promise per real path | `withFileMutationQueue` | `realpath` is awaited before queueing; failures, half-way ones too, and aborts in the queue | mutual exclusion; no edit lost; everybody gets a turn |
| Mom | `mom/src/events.ts`, `slack.ts`, `main.ts`, `context.ts` | watched event files, timers, a queue and a log per channel, the context | deliver, backfill, sync, run, fire | files rewritten while they are read or timed; messages delivered twice, late or not at all; crashes between logging, syncing and prompting | the schedule is what the directory says; every text in the context, and no more often than it was said |
| Providers | `ai/src/providers/*` | partial message | stream a response | aborts, errors in mid-stream | one terminal event, then `end` |
| TUI | `packages/tui` | screen, stdin buffer, kill ring, undo | render, edit | escape sequences cut by reads | bytes are neither lost nor doubled |
| OAuth, proxy, tools, bash, extensions, resources, modes, export, pods, web UI, research agent | see `PROJECT.json` | mostly I/O | | | |

`PROJECT.json` lists every component with its status, every hazard with the line
where it bites, and for every definition the code it stands for.

## The modules

| Module | What it is |
|---|---|
| `EventStream` | `push`, `end` and the async iterator |
| `EventChannel` | what a stream promises: one sequence, each event handed out once, in order |
| `Agent` | the `Agent` class and the loop it runs |
| `TurnProtocol` | what the transcript promises: every tool call is answered once before anybody else speaks |
| `ProviderRequest` | `Agent` with the request a provider gets, as `transformMessages` repairs it |
| `SessionManager` | the session in memory and its files |
| `SessionTree` | what a session promises: a tree no entry of which is without its past |
| `Compaction` | cut point, preparation, summary and file lists |
| `AgentSession` | the composition: agent, session, retries, compactions, commands, the event handler |
| `FileMutationQueue` | the queue per file, with the `edit` and `write` tools under it |
| `AuthStorage` | credentials shared by programs, and the locked refresh |
| `SettingsManager` | settings shared by programs and a user |
| `MomEvents`, `MomChannel` | the Slack bot's event watcher, and a channel with its log and context |
| `Queues` | `FileMutationQueue` and `MomChannel` side by side: work that waits in line |
| `SharedFiles` | `AuthStorage`, `SettingsManager` and `MomEvents` side by side: files several programs write |
| `MC...` | small instances of the modules for TLC |
| `EventStreamProofs`, `AgentProofs` (with `ProviderRequest`), `SessionManagerProofs`, `CompactionProofs`, `AgentSessionProofs`, `AgentSessionDeliveryProofs`, `QueuesProofs`, `SharedFilesProofs` | theorems |

The components of `Queues` and of `SharedFiles` do not interact: `Queues` is `FileMutationQueue` with an instance
`Channel` of `MomChannel`, `SharedFiles` is `AuthStorage` with the instances `Shared` and `Events`. The theorems about a
component are about its own specification (`Spec`, `Channel!Spec`, `Shared!Spec`, `Events!Spec`). In `MCQueues` and
`MCSharedFiles` the first state picks the component that moves (`part`), the others stay where they
start. That explores the sum of their states, not the product.

Operators named `X_Something`, next to an `X`, are `X` with one plausible slip.
They are used by nothing; put in the place of `X` each of them breaks a property,
which shows that the property has something to say about the code.

### EventStream

A call of `push` or `end` runs to completion and is one action; `push` is split
by its branch into `PushToWaiter` and `PushToQueue`. The iterator is cut where
it suspends: at a `yield`, while the loop body runs (state `ready`), and at the
`await` of a waiter (`waiting`, or `resolved` once the waiter has its value and
the continuation is a microtask). `Break` is a consumer that leaves its loop, as
`streamAssistantResponse` does on the terminal event. `end(undefined)` stores no
result; a second resolution of the result's promise has no effect.

Fairness: continuations of resolved promises run (the JavaScript event loop), and
every producer calls `end()`: the providers do it in both branches of their
`try`/`catch` (for instance `anthropic.ts:429-436`), `agentLoop` when its run
returns. Nothing is assumed about pushes.

### Agent

One action is the code between two awaits that matter. A run `r` is at one of the
places named in the module, with its local variables in `local[r]` and its abort
signal in `aborted`. The host's methods may be called between any two steps of a
run.

| Place | Where the code is |
|---|---|
| `opening` | `runAgentLoop` emits the prompts; `_runLoop` has registered the run |
| `polling` | about to call `getSteeringMessages` |
| `turn` | pending messages are injected, then the model is called (`streamAssistantResponse`) |
| `streaming` | the response has started |
| `tools` | `executeToolCallsSequential` or `...Parallel` |
| `failedTurn` | the response ended in an error or an abort: `turn_end`, then `agent_end` |
| `followUp` | about to call `getFollowUpMessages` |
| `ending`, `unwinding` | before `agent_end`; between it and the `finally` block of `_runLoop` |

`RunThrows` is the `catch` of `_runLoop`: `transformContext`, `getApiKey` and
`streamFn` may throw while the request is made, and `afterToolCall` when a tool is finalized.
`types.ts` says that the first two must not, but the coding agent's `getApiKey`
does throw when a login has expired (`sdk.ts:318-341`). A tool that the loop
launched before a throw goes on executing.

Choices of the model:
- a user message and a tool result are complete at once: their `message_start`
  and `message_end` are one action. An assistant message is streamed in two.
- the queue modes may be set at any moment, so each dequeue chooses one; the
  tool mode is read once per run and is chosen when the run starts.
- `Reentrant` permits `prompt()` from a listener of `agent_end`. It is off in the
  runs; every host in the repository prompts from a task of its own.
- `reset`, `appendMessage` and the removal of a failed response are called only
  when the agent is idle, which is how `AgentSession` calls them.
- a model that was asked to abort ends its response as `aborted`, or with what it
  had when the abort came too late.

Fairness: the loop's continuations run; a provider ends every response it
started; a tool settles; and a model stops calling tools after a number of turns,
which `MaxToolTurns` stands for. The last is not up to the code, and without
it no loop of this kind ends. Nothing is assumed about the host: it need not
abort, steer or prompt.

### ProviderRequest

Whenever a run is about to ask the model, its context goes through
`transformMessages`. Of the two passes the second is modelled; its two loops are recursive functions over the context and over the pending calls:
failed responses are dropped, and calls nobody answered get a made-up result when the next
response or user message comes. The first pass rewrites blocks inside a message and
ids, and changes neither the number of messages nor their order.

### SessionManager

The memory of one process and the files of its directory. Entries have increasing
ids (the code draws random ones and checks for collisions), and a type: `user`,
`assistant`, `compaction`, `branch_summary`, `label`, `unlabel`, and `setting`
for the entries that carry no message. `custom_message` entries behave as `user`. The header's
content is left out. A file is a sequence of lines and whether the last line is
ended. Labels are the set of labelled ids.

`AppendEntry` is `_appendEntry` and the `_persist` it calls, with the branch in
which nothing is written before the first assistant message. `Faults` says what may go
wrong in a write: `kill`, the process dies between two lines; `full`, the write
fails after some lines and the process goes on with what the code has and has not
assigned by then; `torn`, a cut write may end inside a line, and then the next
write continues it. Opening a session (`SetSessionFile...`) may follow at any time and is the restart.

`log` (every entry as it was created) and `saved` (the entries whose append returned
with the file written) are history variables. The context of an entry is computed as
`buildSessionContext` does and compared with what `log` says its past is. There is no
fairness: a session need not be continued, and only safety is asked of it. The same holds for compaction.

### Compaction

The path from the root to the leaf is a sequence. A summary is the set of the messages
that have reached it: the model is asked to keep what it is shown, so
a message counts as told of if it was shown. `Prepare` is what happens before the
model is called, `Complete` the append after it. Between them bash results
(`recordBashResult`, `agent-session.ts:2556`), custom messages and settings may be appended; prompts may not, as
interactive mode holds them back while `session.isCompacting` (`interactive-mode.ts:2166`). RPC does not, and a run under way during a
compaction is the matter of `AgentSession`. That the leaf may move meanwhile is the matter of `SessionManager`, where
`AppendCompaction` takes any entry as the first kept one, as `appendCompaction` does. `Cut`, `FirstKept` and `TurnStart` are defined by what the three
loops of `findCutPoint` and `findTurnStartIndex` find, not by how they walk.
Sizes are small numbers; only entries of type `message` count, as in the code.

### AgentSession

This is where the parts meet. Each part is reduced to what the class sees of it:

| Variable | Code |
|---|---|
| `agent` | the `Agent`: transcript, two queues, whether it streams (`phase`: `idle`, `llm`, `tools`), `stopping` after `abort()` |
| `session` | the fields of `AgentSession`: the subscription, `_agentEventQueue` (`events`, and where its `handler` is), `_lastAssistantMessage`, `_retryAttempt`, `_retryPromise`, `_overflowRecoveryAttempted`, `_pendingBashMessages`, `_pendingNextTurnMessages`, the two lists shown to the user |
| `stored`, `current` | every session file as its path from root to leaf, and the one that is open |
| `calls`, `jobs`, `command` | the calls of `prompt()`, the compactions by who awaits them (handler, prompt, command), the session command: where each is between its awaits |
| `timers` | `setTimeout(() => agent.continue())`: of a retry (0 ms) and of a compaction (100 ms) |

Agent events are appended to `session.events` when the agent emits them and handled one by one
(`MessageStarts`, `MessageEnds`, `AgentEnds`); a backoff or a compaction inside the
handler holds up the rest. `MicroWork` says that there is code ready that waits for nothing but
promises already resolved; it runs before any input, timer or answer from outside
(`InputTurn`). It is where the real hazards are that the code lags: without it the model would
allow every interleaving of microtasks with user input, which JavaScript does not. A retry timer of
0 ms comes before an answer of a model (`SlowTurn`), not before an input. Extensions' event handlers are
taken to be quick.

`missed` names what the properties cannot hold for any more: `log`, a message said while the session was
unsubscribed (`compact()` unsubscribes before it aborts, `:1627`), or the transcript rebuilt, cut or appended to before
the handler had written what was said: by a compaction, by a failure that is handled late and takes a later answer off
(`:2423`), or by deferred bash results flushed while events wait; `mirror`, a switch with messages queued; `retry`, a
retried run that threw or was refused; `overlap`, a run started while the handler was still at an
earlier one, in a backoff or a compaction (`StartRun`, `InSync`). `again` counts retryable errors and overflow recoveries independently of the code's own counters.

Fairness: the model answers, tools and requests end, timers fire, and the event loop runs what is
ready. What the host does is never due.

### FileMutationQueue

`Start` is a tool call that asks for `realpath`, `Join` its answer and the place in the chain,
`Enter` the release by the previous call, `Read` and `Write` the body of the tool, `Fail` every way it may
throw with the file untouched. `WriteFails` is a write that fails half-way: `fs.writeFile` truncates the file when it opens it
(`edit.ts:260`, `write.ts:224`), so a beginning of the new content is left, perhaps an empty one (`Cuts`). `Abort` settles all open
calls at once; what has been asked of the disk by then goes on and may fail half-way too (`flying`, `Land`). A file's content is the sequence of the calls whose text is in
it, so a lost edit is a call that is missing. Fairness: the disk answers.

### AuthStorage and SettingsManager

`AuthStorage` has one OAuth credential and one API key in a file, programs that know of some of it, and the
lock of `proper-lockfile`: a lock not touched for a while is stale and may be taken, and its owner learns of it
later (`Compromised`). The file may not exist at first: a program that starts looks for it (`FindNoFile`) and writes an empty one
(`Create`), both without the lock (`auth-storage.ts:55`, called before the lock is asked for), and another program may have
created it and saved a key in between. Nobody deletes the file, so later calls of `ensureFileExists` find it. Synchronous sections take the lock and give it back in
one action; the refresh holds it while the provider is asked. Processes may hang
(`GoStale`) and die (`Die`) at any point. A credential is a number that grows; the provider exchanges each once, and its answer to an exchange may get lost
(`ProviderAnswers`), which the program cannot tell from a request that never arrived.

`SettingsManager` has programs with settings, marks and a queue of writes, each of which carries a copy of settings and
marks, and a user who edits, breaks and repairs the file. The window in which a
file that does not exist is created without the lock (`settings-manager.ts:184`) is two
actions. Neither has fairness: nothing but safety is asked.

### MomEvents and MomChannel

`MomEvents` is the directory, the debounce timers, the calls of `handleFile` under way (several per file, each at one of its
three attempts, with the content it has read), the timers and cron jobs that will fire, what the maps can cancel of them, and the
queue of the channel. `Fetch` is the read; `Read` and `ReadFails` are the continuation after the `await` (`events.ts:188`), which
goes by what was read and deletes whatever the file is by then. It is the difference between `armed` and `entry` that the properties are about: a timer that
nothing can cancel any more still fires. Fairness: debounce timers fire and reads end.

`MomChannel` follows a message from Slack through the log, the queue, the sync to the context and the
prompt, with a crash between any two and the backfill at the next start. Slack may deliver a message twice (its
acknowledgement is lost), late, or never. The start is three steps (`Launch`, `Backfill`, `RecordStartup`): the socket is open before
`startupTs` is set (`slack.ts:160-166`), and the backfill may fail. It has the deferred first write of
`SessionManager`. To the log a message is its timestamp; to the context it is a text with the author's name, which is what
`syncLogToSessionManager` compares (`context.ts:113`), so a text may be said twice and is one. The events watcher runs
before the bot is started (`main.ts:352`, `:367`).

## The runs

Every run has a bound for each counter in its `.cfg`. `CHECK_DEADLOCK FALSE` is
everywhere, because each of these systems may rightly stop: a drained stream, an idle
agent, a session nobody continues, a path at its bound.

| Run | What it asks | Instance | Distinct states |
|---|---|---|---|
| `event_stream` | `WaitersMatch` (no iterator waits next to a queued event), `ResultIsTerminalEvent`, `ImplementsChannel`, `ConsumersReturn`, `EventsReachConsumers` | a reader and a quitter, three events | 4,000 |
| `agent_runs` | `RunRegistry`, `EachMessageOnce`, `PendingToolCallsExact`, `FollowsTurnProtocol`, `RequestIsWellFormed` | two runs, two user messages, a tool turn of up to two calls, hooks that throw, abort, retry, reset and all housekeeping | 726,000 |
| `agent_tools` | `QueueOrder`, `FollowUpsWait`, `SequentialOrder`, `AgentEndIsComplete`, `RunsEnd`, `SteeringArrives` | one run, three user messages, two tool turns of up to two calls, both tool modes, abort | 143,000 |
| `session_crash` | `Durable`, `AppendOnly`, `ImplementsTree` | two files, four entries of users and models, forks, death between any two lines | 231,000 |
| `session_branches` | `ReloadRestores`, `ContextIsHistory` | one file, four entries of every kind | 549,000 |
| `session_faults` | `LastLineOnly` | two files, three entries, forks, writes that fail between two lines or inside one | 1,416,000 |
| `session_fork_labels` | fails: `ContextIsHistory` | two files, four entries, labels and forks | |
| `compaction` | `NothingForgotten`, `ResultsFollowCalls`, `BudgetKept` | six entries of every kind, sizes one and two, two compactions | 3,840,000 |
| `agent_session` | `ContextMatchesLog`, `MirrorMatchesQueue`, `ResultsFollowCalls`, `RecoveryBounded`, `PromptsReturnUnlessStuck` | two prompts, two session files, one retry, two other things that happen (failures, tool calls, bash results, custom messages, commands, escapes) | 216,000 |
| `agent_session_hang` | fails: `PromptsReturn` | one prompt, an error and a run that throws | |
| `queues` | `OneAtATime`, `EditsSurvive`, `CallsReturn`; `EachMessageOnce`, `NothingMissed` | three tool calls, a file and a link to it, writes that fail half-way; two messages of a channel with two texts, one lost acknowledgement, one crash, one event that waits | 369,000 |
| `shared_files` | `TokenUsedOnce`, `NoLostUpdate`; `SettingsSurvive`; `ScheduleMatchesDirectory`, `ImmediateEventsRun` | two programs, two credentials, a file that may not exist, one lock that goes stale under a live owner; two programs and a user, two fields, three changes, one fault; two event files, two writes, two calls of `handleFile` per file, a restart, one event that waits | 564,000 |

Why the bounds are enough to be interesting:
- two consumers are the least with which a waiter can be passed over, and three
  events let one be queued, one handed over and one close the stream.
- two runs show what a run leaves behind for the next one: a throw between two results, a
  prompt or a retry, and the request made from it. Two parallel calls allow one to be refused or settled while the
  other runs; two tool turns show that nothing of the first reaches the second; three messages let one be in the
  transcript while two of them wait in a queue.
- four entries are enough for a first write of several lines (three, with the header), a branch before it, and a
  fork of the branch; and for two compactions with something between them. Two files are the
  session and its fork.
- six entries allow a turn with a response that calls two tools, both results, and a
  next turn on either side of the cut, and two compactions. With sizes one and
  two and a budget of three, the walk stops exactly at the budget or one above it.
- the hazards of `AgentSession` are races of one thing with one other: a prompt with a retry, a command with
  a compaction. Two prompts and two disturbances have each of these pairs in every order, and
  the chain of a failure, its retry and a command or a throw during it. One retry shows what the first
  one leaves for the next failure; errors that repeat the first do not count against the bound, so the
  retries run out. Plain answers and prompts do not count either.
- three tool calls are one that is inside, one that waits and one that comes after the chain was
  dropped. Two programs are the holder of a lock and its rival; two credentials are one that
  expired and one from the refresh, or from a login meanwhile. Three changes are two of one
  program with one of the other, or of the user, in between.
- two writes are an event and its replacement, which may be half-written, in one file, or two events in two files. Two calls of `handleFile` are
  one that has read the old content and one that reads the new (`MaxCalls` bounds them). Two events, one of them periodic,
  fill a queue of one. Two messages are one that is answered and one that comes meanwhile, or a text
  that is repeated; the author of one text is known to the bot at first, that of the other is not.

`session_faults` has no deaths: a process that goes on may open the session again at any time, which
is all that a death adds to a failed write.

Symmetry: `session_crash` and `session_faults` identify states that differ in the names of the
two files, and check only safety. `shared_files` identifies states that differ in the names of the two programs;
its one liveness property, `ImmediateEventsRun`, is about event files, where these programs do not occur.

Some properties are stated for less than one might wish, because the code does
not do more. Each exception is a history variable or a condition named in the property:
- `RequestIsWellFormed` excepts the calls of the last response of a request. `transformMessages` does not look back after its
  loop (`transform-messages.ts:168`), so a run that threw between two results and is retried sends an unanswered call.
- `AgentEndIsComplete` is checked without throwing hooks. For a run that threw,
  `agent_end` carries the failure message only (`agent.ts:596`), while the README
  of the package promises all new messages.
- `Durable` is checked without `full` and `torn`. When the write of a
  fork fails, `sessionFile` is already the new path and `flushed` still speaks of
  the old one (`session-manager.ts:1220`), so the next entry starts a file without
  a header. After a death inside a line the next entry is glued to it and is lost with it.
  `LastLineOnly` is what remains true, and of a file without a header not even that: it goes on receiving entries,
  and the next time it is opened all of them are replaced by a new header (`session-manager.ts:695`).
- `ContextIsHistory` says of a compaction whose first kept entry is not on its path that it keeps nothing, as `buildSessionContext` does:
  the leaf may move, or the session be switched, between the preparation and the append.
- `BudgetKept` is about the path that is summarized. What is recorded while the summary is written is kept on top of it.
- `NothingForgotten` is claimed for the first compaction of a path. The second one
  starts behind the entry of the first (`compaction.ts:643`), although what the first one kept lies before it: those messages are
  neither kept, nor summarized, nor searched for file operations.
  When a second compaction cuts through the first turn after the first one, the previous
  summary is also dropped, in favour of "No prior history." (`compaction.ts:746`).
- `ContextMatchesLog`, `MirrorMatchesQueue`, `RecoveryBounded` and `PromptsReturnUnlessStuck` end where `missed` says so, see
  above. `RecoveryBounded` ends where runs overlap: nothing in `AgentSession` keeps a host from prompting while a retry waits or a
  compaction runs, and then the answers of two runs are counted in one counter.
- `EditsSurvive` excepts files written by an aborted call, and files asked for under
  another name while they did not exist: then the two names are two keys (`file-mutation-queue.ts:11`). After a write that fails
  half-way it speaks of what that write has left: the edits before it are lost, though they had reported success.
- `TokenUsedOnce` and `NoLostUpdate` hold until a lock is taken from a program that is still refreshing (`taken`).
  `TokenUsedOnce` also ends when the provider's answer to an exchange is lost on its way or with the program that asked (`lostAnswer`):
  the provider has exchanged the old token, nobody has the new one, and the file keeps the old one. `NoLostUpdate` also ends when a program that
  found no file creates it over what another has saved meanwhile (`wiped`).
- `SettingsSurvive` excepts a setting whose mark was cleared by the write before it or by a reload (`settings-manager.ts:435`, `:361`), and files
  created by two programs at once (`:184`). A mark that stays is not a write that will come: after a failed load nothing is written
  until a reload.
- `ScheduleMatchesDirectory` excepts files a change of which was handled while a `handleFile` was under way (`overlapped`): two calls may
  both set a timer, one of which nothing can cancel (the event fires twice), and a call that has read a file that was deleted since sets
  a timer for it. `ImmediateEventsRun` excepts these files too, and events that a full
  queue discards, that the timer of an older content deletes (`events.ts:295`), or that a call deletes unread, having read the older content before its
  `await` (`:188`).
- `EachMessageOnce` of the channel is about texts under the names of the log. It excepts texts of messages that were in the log already when they
  started a run (`repeated`): delivered again to a bot that is idle, or backfilled and then delivered before `startupTs` was set. An author who joined
  after the bot's start is prompted as "unknown" besides.
- `NothingMissed` is about texts, too: one that an author repeats is in the context, but not as often as it was said.

## What is proved

The theorems hold for all values of the constants that satisfy the modules' named
assumptions: any number of consumers, events, runs, messages, calls, entries, files, programs. The
assumptions say that bounds are natural numbers and that modes, kinds and outcomes are among those
of the code. Where a theorem has a hypothesis of its own, it is named below with what fails without it.

**`EventStreamProofs`**
- `StreamTypeOK`: the type invariant.
- `NoLostWakeup`: `WaitersMatch`. The invariant alone is not inductive: `push` to a waiter
  needs the waiters to be distinct and the queue to be empty behind them. The
  inductive invariant is `TypeOK`, `WaitersMatch`, `QueueIsSuffix` and `BoxesAreResolved`.
- `ResultIsTerminal`: `ResultIsTerminalEvent`, with the fact that there is a result only when the stream is done.
- `StreamImplementsChannel`: the safety part of the stream implements `EventChannel`,
  with the number of accepted events less those still queued as the channel's
  `handed`. A push to a waiter is a rendezvous, possible only as the queue is
  empty then; `Resume` is a stutter, as the event was the consumer's since the push.

**`AgentProofs`.** All but `AgentTypeOK` and `SequentialResultsInOrder` assume `~Reentrant`: no listener of `agent_end` prompts.
With one that does, two runs may be alive, see the next section.
- `AgentTypeOK`: the type invariant, one lemma per group of actions.
- `RegistryConsistent`, `RunsDoNotOverlap`: at most one run is
  alive, and `isStreaming`, `runningPrompt` and `abortController` speak of that
  run. Every action is first mapped to one of five kinds of step (it starts a run, moves one, ends its
  loop, finishes it, or leaves the registry alone), and the invariant is proved for those.
- `AgentFollowsTurnProtocol`: the transcript implements `TurnProtocol`: with throwing hooks, aborts, refused calls and both
  tool modes, each call is answered exactly once before anybody else speaks, or its run says that it
  failed. The results owed are a function of the live run's places of calls; the
  lemma `OwedByOne` says that no other run owes any, by `RunRegistry`. Then each group of actions is mapped to
  `Say`, `Respond`, `Answer`, `Fail`, `CutBack` or a stutter.
- `PendingToolCallsAreExact`: `PendingToolCallsExact` is inductive with the types and the registry.
- `SequentialResultsInOrder`: `SequentialOrder`, by `ResultsInv`: the results of a turn are those of its ended calls
  (`ResultsKnown`), and in sequential mode nothing of a call has begun before the one before it has ended (`CallsInOrder`).
- `NobodyOvertakes`, `NoMessageLostOrDoubled`: `QueueOrder` and `EachMessageOnce`, both by `FlowInv`. A user message moves from its queue to
  the pending messages of the live run (`InFlight`) to the transcript. `Flow` says that these sequences, laid end to end,
  hold every submitted message not dropped, once, and each kind in its order.
- `ReportsAreComplete`: `AgentEndIsComplete`, if moreover no hook throws: the live run's `newMessages` are what the transcript has gained
  since the run's `base`, but for the prompts it is about to announce (`ReportInv`). With a throw `agent_end` carries the failure only.
- `FollowUpsWaitForQuiet`: `FollowUpsWait`, unless `HooksThrow` and `Housekeeping` hold together. `WaitInv` says that a response
  with unanswered calls is the live run's, or followed by the failure of its run. A host that takes such a failure off the transcript
  uncovers the response, and `continue()` then delivers a follow-up behind it.
- `TransformIsWellFormed`: for a context of any length, the request that `transformMessages` makes of it is well formed if the context has
  no partial message, a result stands directly behind its response or another result of it (`Behind`), and no turn has two
  responses and no call two results (`Grammar`). The invariant of the pass, message by message: what has been built is
  such a request already (`Solid`), each call has one result or belongs to the last response and is pending (`Counted`), and
  the pending calls are those of the response to which the last message belongs (`Waiting`).
- `RequestsAreWellFormed`: `RequestIsWellFormed`, assuming `~Reentrant`. The transcript has this grammar in every state, and a run's context
  is the transcript whenever it asks the model (`InPlace`). A result is the only one of its call by `ResultsKnown`, and it follows its
  response because the last message is of the turn that is executed. With two runs that loop at once neither need hold.

**`SessionManagerProofs`**
- `OnlyTheLastLine`: `LastLineOnly`, whatever fails, dies or is torn. The invariant `Known` says that everything in memory and in any
  file is the header, an entry of `log` as it was created, or garbage; the action property `FilesGrow`, that a step adds to a file, at most
  completing its last line, or writes one over from which no session can be read.
- `EntriesAreDurable`, `FilesOnlyGrow`, `ReloadingRestores`: `Durable`, `AppendOnly` and `ReloadRestores` for `Faults` within `{"kill"}`.
  The invariant is `Intact`: files have whole lines, begin with the header and hold what was saved; the index and the labels are those of
  the entries in memory; and a flushed file ends with all entries in memory, perhaps behind an earlier copy of some of
  them that a dead process has left. `full` and `torn` break this, see above.
- `SessionIsTree`: `ImplementsTree`, if moreover forks do not meet labels. `TreeIntact` says that in every file, and in memory, the parent of an
  entry stands before it. A fork drops labels without relinking their children, which is the failing run `session_fork_labels`.
- `ContextsAreComplete`: `ContextIsHistory`, under the same assumptions; the failing run shows that the one about labels is needed. The path that
  `getBranch` walks is the past of its entry in the order of creation (`IsPath`). The first entry that a compaction keeps stands on
  it once, or, if it is not in the compaction's past, not at all (`KeptFrom`).

**`CompactionProofs`**
- `KeptFitsBudget`, `FirstCompactionForgetsNothing`, `ResultsKeepTheirCalls`: `BudgetKept`, `NothingForgotten` and
  `ResultsFollowCalls`, for paths of any length. The invariant: a result stands behind its response with only
  results and settings between (`ResultsBehindCalls`); each compaction on the path begins what it keeps at a place where
  a context may begin, and its summary and files have all that lies before (`CompactionsSound`, for a first one); and the same
  is true of a preparation under way when it is appended (`PendingSound`), although bash results, settings and custom messages were added
  meanwhile: none of them is a tool result, and all lie behind the cut. The budget is about the path as it was (`upTo`).

**`AgentSessionProofs`**
- `RetriesAreBounded`: `RecoveryBounded`, for any number of prompts, sessions, retries and commands. The session counts failures as its
  handler reaches them, the model as they are said, so the two counts differ by what lies in the queue of events. The
  inductive invariant has the types; that an answer that failed is followed at once by the end of its run (`Paired`, `InHand`),
  which is where it is handled (`Handled`); and, until runs overlap, that the events under way are of one run (`OneRun`), that
  nothing is said while the handler waits (`Busy`), and how the counts relate while a run streams (`CountedRunning`), while its events
  are handled (`CountedWaiting`) and after an overflow (`Remembered`). Most actions leave what it speaks of alone; one lemma
  says so for all of them (`Quiet`).
- `ContextMatchesTheLog`: `ContextMatchesLog`. It is inductive together with the types of everything that is stored, queued or on its way
  (`Data`). A message that is said goes to the transcript and to the end of the queue, one that is handled from its head to the
  file, and the two agree on what `Context` makes of the file followed by the queue. The lemmas say what `Context` makes of a
  longer file (`ContextGrows`) and what a selection of a concatenation is (`SelectedConcat`); each action is then
  one that says, handles, records, removes a failure or makes the transcript anew.

**`AgentSessionDeliveryProofs`**
- `MirrorMatchesTheQueue`: `MirrorMatchesQueue`. A `message_start` takes the message with its text off the lists that are shown. The invariant
  `MirrorOrder` says that the lists and the queues have increasing ids (`InOrder`), that no message is both a steering and a follow-up
  message or both queued and part of a prompt (`ListsApart`), and that every id is older than the clock (`AllYoung`). So no list
  has a message twice, and what is taken off it is the message that was started.
- `ResultsFollowTheCalls`: `ResultsFollowCalls`. The transcript alone does not carry it: a result may be written long after its call.
  The invariant `ResultsInv` speaks of the file followed by what is still to be written and the result that runs now (`Ordered`); when
  the handler sleeps, compacts or waits nothing of what is to come belongs to what is stored (`Paused`), nor to a session that may
  be opened meanwhile (`Parted`); a result after the end of a run is not of an answer before it (`Over`), since bash
  results are written there; and the next answer is a new one (`Fresh`).

**`QueuesProofs`**
- `QueueTypeOK`: the type invariant of the file mutation queue, for a symbolic link that leads to one file each (`NamesAssumption`).
- `QueueExcludes`: `OneAtATime`. The chain of promises is a ticket lock: the invariant `Chain` says that the map holds the last
  ticket of every key, that a call with an older open one of its key waits for an open call at least as old, and that a
  call that runs is the oldest of its key. It must survive calls that leave from the middle, by `Abort`.
- `NoEditIsLost`: `EditsSurvive`, from `Chain` and the fact that an undisturbed file has one key: nobody else is on a file that
  a call has read and not written. A write that fails half-way leaves a sequence of calls (`CutsType`), which becomes what is promised.
- `NoMessageTwice`, `AnsweredMessagesAreKept`: `EachMessageOnce` and `NothingMissed` of the channel, for any texts (`TextsAssumption`: there are
  some). Each copy of a text in the context has a line of the log of its own, and the line of the message that is to be prompted next
  is still free (`Roomy`); it is so unless that message was logged before, which is the exception. The file has no
  text that the memory has not (`FileIsBehind`), and when a run prompts, every text it found in the log is in the context (`RunHasSynced`).

**`SharedFilesProofs`**
- `TokensAreUsedOnce`, `NoUpdateIsLost`: `TokenUsedOnce` and `NoLostUpdate` of `AuthStorage`, assuming that `Nobody` is no
  program. Neither is inductive. The invariant `Sound`, which holds until a lock is `taken` from a program that is refreshing, says what
  the lock is good for: who refreshes holds it (`Exclusive`); until an answer is lost, the token in the file has been
  exchanged only if somebody has the new one in hand (`Fresh`); and until the file is wiped, it is what was saved, and what a refresh has read of it
  still stands (`Kept`).
- `SettingsAreKept`: `SettingsSurvive`, assuming that the user is no program. What one program alone has set is marked in its
  memory, in a write of its queue, or in the file with only such writes to come (`OnItsWay`); only the setter's writes carry the mark of a field
  (`OnlySettersWrite`), and a field that is marked has its latest value in memory (`MarksAreCurrent`).
- `ScheduleFollowsFiles`: `ScheduleMatchesDirectory` of the event watcher. For a file no change of which was handled
  while a `handleFile` was under way there is one reader (`OneReader`), what it has read is what the file has unless a change is still to be
  heard of (`UpToDate`), there is one timer, known to the maps (`OneTimer`), and it is
  what the quiet file says (`Matches`).

The proofs need facts about recursive functions over data of any length: the filtered entries of a file, the path of an entry, the sum
of sizes. They are stated with induction over a set (`NatSetInduction`, `SeqSetInduction`, `Least`): a set of numbers that has zero and the
successor of each of its members is `Nat`. The induction theorems of the library, which take an operator, are out of the
provers' reach, and so is what `SelectSeq`, a fold or a `RECURSIVE` operator computes.

Only model-checked:
- liveness (`ConsumersReturn`, `EventsReachConsumers`, `RunsEnd`, `SteeringArrives`, `PromptsReturnUnlessStuck`, `CallsReturn`,
  `ImmediateEventsRun`), which is out of the prover's reach.

## Where the code and its documentation disagree

Two of these are runs that fail; `PROJECT.json` quotes the text.

- `session_fork_labels`: a fork leaves the label entries of the path out
  (`session-manager.ts:1164`) without relinking their children, so the context of the fork
  starts after the last label.
- `agent_session_hang`: a run that the retry timer starts throws before the model answers, for instance
  because a login has expired. The agent emits `agent_end` without a `message_end`, so
  `_processAgentEvent` finds no answer, nobody resolves `_retryPromise`, and `prompt()` never returns. The comment at
  `agent-session.ts:2452` counts on "next agent_end".

The models also show the following, which are noted here and not runs of their own:
- a parallel call that is refused in preflight (`agent-loop.ts:411`) has its result in the transcript before earlier calls
  that execute; `types.ts:33` promises source order.
- `agent_end` clears `isStreaming` (`agent.ts:495`) before the `finally` of `_runLoop` clears the registration. A listener that prompts
  at once has its run's registration erased, and a third prompt is accepted next to it.
- `docs/compaction.md:182` says that file tracking accumulates; the files of what the first compaction kept are not found by the second.
- bash results deferred while the agent streamed go to the session of the next prompt, also after a new session or a
  switch (`agent-session.ts:2555`). A compaction under way when the session is switched appends its summary
  to the new session. A switch leaves the agent's queues as they are (`MirrorMatchesQueue` excepts it). Messages for the next turn are lost when the agent
  refuses the prompt (`:990`). The lists of queued messages are kept in step by text, so two equal texts are told apart by nothing (`:442`).
- a program whose reload failed sets keys in memory only, and says so to nobody but `drainErrors` (`auth-storage.ts:247`, `:262`).
- a prompt sent during a backoff or a compaction starts a run next to the one the handler is at (`agent-session.ts:2452` counts on
  one at a time). The failed answer is then looked for at the end of the transcript and whatever answer stands there is removed
  (`:2423`), more answers may fail in a row than `maxRetries` says, and an overflow may be recovered from twice. Seen with bounds larger than those of `agent_session`.
- a compaction that ends after the user has navigated away or switched sessions keeps nothing of the new branch: its first kept entry is not
  on the path, and `appendCompaction` does not check it (`session-manager.ts:863`, `agent-session.ts:2611`).
- a write that fails half-way empties the file, and the edits that had succeeded before are gone (`edit.ts:260`, `write.ts:224`).
- if the provider's answer to a refresh is lost, the spent token stays in the file and is sent again with the next refresh. A program that
  starts without an `auth.json` may write `{}` over the key another one has just saved (`auth-storage.ts:55`).
- a mention that Slack delivers again to an idle bot is logged and answered again, as nothing compares timestamps (`slack.ts:272`); so is one
  that was backfilled and is delivered before `startupTs` is set (`:166`). A text that its author repeats is not synced again (`context.ts:113`).
- an event file that is replaced while its old content is being handled is deleted unread (`events.ts:188`); one that is deleted then
  may leave a timer behind.
- a one-shot event more than 24.8 days ahead fires at once, as `setTimeout` does with such a delay (`events.ts:291`). Event files are
  deleted before the event has run, and also when the queue has discarded it.

## What is not modelled

- Providers' wire formats, OAuth, the HTTP proxy, pods, the web UI, exports, CLI
  parsing, model tables, rendering: I/O, data mapping or layout, without state that
  concurrent steps share. They are most of the repository's lines. The agent sees a provider as something that starts a
  response and ends it once, and a tool as something that is refused or prepared,
  executes and settles.
- The agent's configuration setters and `agentLoop` and `agentLoopContinue`, the detached forms of the
  loop for other hosts. They differ in wrapping an `EventStream` around it.
- The first pass of `transformMessages`.
- Sessions in memory only, migration from the older file versions, the listing of sessions,
  two processes that write to one file.
- Token counts taken from a response's usage, compactions made by an extension, branch summaries' own cut.
- Of `AgentSession`: changes of model and tools, templates and skills, extension commands, the summary of an abandoned branch, export and statistics.
- Credentials of further providers and their environment variables; the second scope of settings and the merge for reading.
- Of mom: attachments, the sandbox, formatting, the limit of three pages of backfill, the agent inside a run.
- The TUI: its stdin buffer and editor are sequential functions over text.
- The research agent is a sequential workflow without concurrent actors.

## The plan

What further work would add most, in this order:

1. An abstract specification of `AgentSession`: one log, of which transcript, file and display are views; today it is stated
   as the invariants `ContextMatchesLog` and `MirrorMatchesQueue`.
2. Two processes on one session file; migration of old files with a crash in the rewrite.
3. The TUI's stdin buffer: sequences cut by reads, and its flush timer.
