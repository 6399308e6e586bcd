# A TLA+ verification of digcore

digcore is the core library of an inspection and alerting agent written in Go:
alerts go through an engine to notifiers and to a server, and an AI assistant
diagnoses them. This directory holds TLA+ modules that model its components,
TLC configurations that check them on small instances, and TLAPS proofs of
theorems about them for all values of their constants.

Paths below are relative to the repository's root; `engine.go:409` alone means
the file named in the same paragraph or table row.

Contents: [the system](#the-system), [how to read the modules](#how-to-read-the-modules),
[modules and code](#modules-and-code), [the runs](#the-runs),
[bounds](#bounds), [fairness](#fairness), [the proofs](#the-proofs),
[what the runs found](#what-the-runs-found),
[not modelled](#what-is-not-modelled), [plan](#plan).

## The system

### Components

| component | source | state it keeps | operations | what makes it correct |
|---|---|---|---|---|
| Alert engine | `engine/engine.go`, `engine/cache.go` | cached event per alert key, `diagnosedKeys` | `handleAlertEvent`, `handleRecoveryEvent`, `mayTriggerDiagnose`, `clean` | the gates `for_duration`, `repeat_interval`, `repeat_number` hold for what is *delivered*; a recovery follows what was delivered; an episode is diagnosed once |
| Notification fan-out, notifiers | `notify/*.go` | registered notifiers | `Forward`, retry loops of Flashduty, PagerDuty, web API | "forwarded" means that a service took it; copies only by lost answers; one failure does not hide another's success |
| Diagnose aggregator | `diagnose/aggregator.go` | pending request and timer per key | `Submit`, `onWindowClose`, `Shutdown` | a request is taken exactly once, also when its timer fires while it is stopped |
| Diagnose engine | `diagnose/engine.go` | semaphore, in-flight map, `stopped` | `Submit`, `RunDiagnose`, `TrySem`, `ReleaseSem`, `Shutdown` | every slot comes back once on every path, a panic included; the daily budget is overdrawn only by what was admitted; Shutdown reaches every run |
| Diagnose state | `diagnose/state.go` | cooldowns, tokens of the day, `diagnose_state.json` | `Save`, `Load`, `AddTokens`, cooldown | the file is whole whenever the program may end, and holds what a restart needs |
| Diagnosis records | `diagnose/record.go`, `cleanup.go` | one file per diagnosis | `Save`, `CleanupRecords` | a record is whole or absent; the newest stay |
| Diagnosis loop | `diagnose/engine.go` (`diagnose`) | messages, rounds | rounds of the AI, tool calls, compaction | requests are well formed and fit the window; the AI is told to conclude in time; the record has every round |
| Chat stream | `diagnose/streaming.go` | history of a chat | `HandleMessage`, `conversationLoop`, `trimHistory`, `Reset` | a tool call is never sent without its results; a failed turn is rolled back |
| Compaction | `diagnose/aiclient/compact.go` | - | `CompactMessages` | the result is within the budget and made of whole groups |
| AI client | `diagnose/aiclient/failover.go`, `retry.go`, the three `Chat`s of the HTTP clients | priority of the models | `Chat`, `ChatWithRetry`, `PinModel` | models in their order, each with its attempts; nothing after the context's end or a refusal |
| Tool registry and use | `diagnose/registry.go`, `types.go`, `executor.go`, `streaming.go` (`executeTool`) | tools, categories, accessor of a session | `Register`, `RegisterCategory`, views, `executeTool`, `initSessionAccessor`, `Close` | what is shown to the AI is what may be executed; a remote tool runs on an open connection, which is given back |
| MCP client | `mcp/client.go` | mutex, id counter, pipes to a process | `call`, `recv`, `Close` | each call returns, with its own response as long as none timed out and the server says nothing unasked; no reader stays for ever |
| Alert ring | `server/ringbuf.go` | circular buffer | `Push`, `Drain` | a bounded queue that forgets its oldest |
| Server connection | `server/conn.go` | `sendCh`, `done`, context; four goroutines | `Run`, `writeLoop`, `readLoop`, `heartbeatLoop`, `alertFlushLoop` | alerts arrive in order and once; a cancelled connection ends |
| Reconnection | `server/conn.go:199-236`, `nextReconnectState` | back-off | `RunForever` | waits grow, stay in their limits, and respect authentication failures |
| Remote sessions | `server/session.go`, `session_handler.go` | session map, slot per session, `inputCh` | start, input, cancel, output, end | a slot for each session goroutine, no session without a goroutine, every message of the user is answered |
| Limited queue | `pkg/safe/queue.go` | list, limit | pushes, pops | order of each pusher; the limit |
| Identity | `config/agentid.go` | file `agent_id` | `LoadOrCreateAgentID` | one identity for ever |
| MCP manager | `mcp/manager.go` | clients by name | `StartAll`, `Close` | every process that was started is closed by somebody |
| Settings | `config/config.go`, `server_config.go`, `aiclient/failover.go` (constructors) | `config.Config` | `InitConfig`, `Validate`, `NewFailoverClientForScene` | settings that are accepted make a client that can work |
| Identity of the host | `config/config.go:290-385`, `resolveGlobalLabels` | cached address and name, when they were detected | `AgentIP`, `AgentHostname` | what is told is true, or was a minute ago; a failure is not kept; an alert and its recovery have one key |
| Commands | `pkg/shell/shellquote.go`, `pkg/cmdx` | a process, a goroutine that waits for it | `QuoteSplit`, `CommandRun`, `CmdWait` | the words of a shell; output that is returned is complete; after a timeout the group is gone and no goroutine stays |
| Filters | `pkg/filter/filter.go` | - | `Compile`, `Match` | a text is matched when one pattern of the list matches it alone |
| Bedrock conversion | `diagnose/aiclient/bedrock.go` | - | `buildConverseRequest` | turns alternate, results stay with their calls, nothing is lost |
| Protocol messages, AI requests, prompts, logger, other utilities | see below | | | |

### How they interact

- Plugins (outside this repository) push events; the alert engine decides and
  calls `notify.Forward`, which runs every notifier in a goroutine of its own.
  One "notifier" is the server connection: it pushes into the alert ring, from
  which the flusher goroutine sends batches over `sendCh`.
- After a delivery the alert engine submits the event to the aggregator, whose
  timers hand a request per window to the diagnose engine. Remote sessions take
  slots from the *same* semaphore (`TrySem`).
- The engine's diagnosis loop, and a chat, call the AI client; the AI asks for
  tools, which come from plugins and from MCP servers.
- A connection starts, feeds and cancels sessions; their goroutines may outlive
  it (`conn.go:183-197`) and write to `sendCh` only until `done` is closed.

### What is hard here

Timers that fire while they are stopped; maps by key that a later run of the
same key overwrites; a slot that must come back on each of a dozen paths; four
goroutines of a connection that wait for each other through a bounded channel;
sessions that outlive their connection under an id that is free again;
savers of one file that overlap, and a crash between rename and write; lost answers and
retries; an identity that changes between an alert and its recovery; a timeout
and a result that race in a `select`; a length of the history that is taken before the history is compacted;
a reader of an MCP response that outlives its call, and a server that stops
reading or says what nobody asked for. `PROJECT.json` lists these
under `hazards`, each with its line and with the properties that cover it.

## How to read the modules

Actions carry the names of the functions they model, several per function
where another goroutine can come between its steps. Below the source's names
in each module:

- `history` variables, marked as such in their declaration, record what was
  sent, delivered or raced, for properties to speak about (`peak` and `crew` of
  the scheduler, `crowded` and `contended` of the state store, `expired` and
  `strays` of the MCP client). No guard of the code's steps reads one; that of
  `ServerSpeaks`, a bound on what the server says, counts `strays`.
- definitions with a comment that begins with `Fault:` are *not* part of the
  specification. Each is a plausible mistake in the definition that follows
  it; with it in the place of that definition a property fails, which shows
  that the property depends on the code.
- a bound on a counter is a CONSTANT whose name begins with `Max` and whose
  comment begins with `bound`.

## Modules and code

| module | models | remarks on the abstraction |
|---|---|---|
| `SlotPool` | abstract: holders of at most `Capacity` slots | what the semaphore promises |
| `DiagnoseScheduler` | `aggregator.go`; `Submit`, `RunDiagnose`, `TrySem`, `ReleaseSem`, `Shutdown` of `engine.go`; token budget and cooldown of `state.go` | a request's `phase` is the place it has reached in `Submit` and `RunDiagnose`, `timer` what its `time.Timer` does. The diagnosis itself is one step that succeeds, fails or panics, with the deferred calls after it. An inspection from the command line is a program of its own, with counters of its own, and not modelled |
| `BoundedAlertQueue` | abstract: sequence that drops its oldest | |
| `LossyChannel` | abstract: what is raised is received in order, lost when the queue is full or the connection ends | the promise of `AgentConn` |
| `DurableRegister` | abstract: a number that grows, of which a copy is stored now and then; copies that are stored at the same time may disturb each other until one is stored alone | the promise of `StateStore` |
| `AlertRing` | `ringbuf.go`, slot by slot | refines `BoundedAlertQueue` |
| `AgentConn` | `conn.go`, sessions' life of `session*.go` | refines `LossyChannel`; ring as a `BoundedAlertQueue`; messages are the batch of alerts they carry, if any; a `session_start` takes a slot, enters the session or gives the slot back, and acknowledges, in steps of their own; `old` are the sessions of earlier connections |
| `Reconnect` | `nextReconnectState`, `clampBackoff`, jitter, `RunForever` | jitter takes one of the two ends of the code's range of a quarter less or more; waits are counted in quarters of a second to stay in the integers |
| `AlertEngine` | `engine.go`; `notify.Forward` as a choice of the notifiers that take the event | forwarding takes time; while it does the engine does nothing else for the key |
| `Notifiers` | `notify.go` goroutines, retry loops of Flashduty, PagerDuty and web API | a request can be made or not, reaches the service or not, and its answer comes back or not |
| `StateStore` | `Save`, `Load` of `state.go` | refines `DurableRegister`; names, files (inodes) and open descriptors are told apart, so that rename and truncate act on what they act on; savers overlap at any step, as diagnoses do and inspections, which take no slot; a crash may tear what is being written |
| `RecordFiles` | `record.go` `Save`, `cleanup.go` | file modification times and the clock; equal times sort in any order |
| `AgentIdentity` | `agentid.go` | several callers; a truncated file reads as none |
| `LimitedQueue` | `queue.go` | the test of the limit and the push are separate steps, as there |
| `Settings` | `InitConfig`, `resolve*`, `Validate` and the constructors of the failover client | texts are empty, given, a reference to a variable, or an address that cannot be parsed |
| `ShellWords` | `QuoteSplit`, label by label, and a definition that reads one character at a time | six characters stand for their classes |
| `Commands` | `CommandRun`, `CmdWait` and `CmdStart` (not Windows), after the steps of `ShellWords` | the process may start one child, which may leave the group and may hold the output |
| `HostIdentity` | `AgentIP` and `AgentHostname`, which are alike; `resolveGlobalLabels`, `needsAutoDetect`, detection | a label is one of the five ways to write it; a detection takes time and may fail; `age` is history |
| `AlertKeys` | `clean` as to the identity in the key, the cache's records | one check of one instance; the other labels stay |
| `Filters` | `Compile`, `compileGlob`, `Match` | globs with `*`, `?`, nested braces and backslashes, those of the patterns and those of the join, matched as the glob library does; classes in brackets left out; regular expressions of plain letters |
| `McpManager` | `manager.go`, `IsToolAllowed` | a server is its place in the configuration, so that two may have one name |
| `MessageHistory` | message groups, `CompactMessages`, `trimHistory` as pure operators | a message is its role and its tokens; a call has as many results as tools |
| `Bedrock` | the conversion of messages in `bedrock.go` | a content block is the message it comes from |
| `ChatStream` | `HandleMessage`, `conversationLoop`, `Reset` | every request to the AI may fail; the slice expression of the rollback is modelled as Go evaluates it, on length and capacity |
| `DiagnoseLoop` | the rounds of `diagnose` in `engine.go` | |
| `AIClient` | `failover.go`, `retry.go`, `Chat` of `client.go`, `bedrock.go` and `server_client.go` | a response has the class of its status and says whether its body can be read; the clients of models and of the gateway look at the two in different orders; the context may end in any step |
| `ToolRegistry` | `registry.go`, `executor.go`, `executeTool` of `streaming.go` | categories, tools with their scope, systems |
| `ToolUse` | `initSessionAccessor`, `executeToolImpl`, `DiagnoseSession.Close` | plugins register before the first diagnosis; one diagnosis |
| `McpClient` | `client.go` | a write is two steps, the second waits for room in the pipe and knows no context; the server reads or not, answers in any order or never, and sends lines of its own with any id, or that do not parse; lines that the reader skips and the notification of the handshake (a write that nobody reads an answer to) are left out; the reader goroutine of a call that timed out stays |
| `ChatSession` | `session_input`, `runChat` | a turn answers, fails or panics |
| `SequenceLemmas` | lemmas about numbers, sequences and the folds of the community modules | what the proofs below share |
| `DiagnoseSchedulerProofs`, `AgentConnProofs` | proofs about the module of that name | |
| `AlertProofs` | proofs about `AlertRing` and `AlertEngine` | |
| `PersistenceProofs` | proofs about `StateStore`, `RecordFiles`, `AgentIdentity`, `HostIdentity` | |
| `AssistantProofs` | proofs about `AIClient`, `McpClient`, `ChatSession` | |
| `ConversationProofs` | proofs about `ChatStream`, `Bedrock`, `DiagnoseLoop` and the operators of `MessageHistory` | |
| `PartsProofs` | proofs about `McpManager`, `Notifiers`, `ToolUse` and `ToolRegistry`, `Reconnect`, `LimitedQueue`, `Commands` with `ShellWords`, `Filters`, `Settings` | |
| `MC...` | instances | |

`MCParts` and `MCAssistant` each check several components in one run. The
components of one such module share no variable. Their union takes the steps
of one part, chosen in the initial state, while all others stay as they
began. Since no action of a part reads a variable of another, and each
property speaks of one part only, a property of a part holds in the union
exactly if it holds of the part alone. The components that *do* interact are
composed properly: aggregator, engine, semaphore and budget in
`DiagnoseScheduler`; ring, channels, four goroutines and sessions in
`AgentConn`; engine, cache and fan-out in `AlertEngine`; `MessageHistory` is
used by `ChatStream` and `DiagnoseLoop`, `Bedrock` by `ChatStream`;
`ToolRegistry` by `ToolUse`, `ShellWords` by `Commands`, `HostIdentity` by
`AlertKeys`. Where a run
checks many components, the invariants of one component are joined in one
definition of its module, whose conjuncts have a name and a comment each; the
type invariants are joined in `PartsTypeOK` and `AssistantTypeOK`.

## The runs

Passing runs:

| run | what it shows |
|---|---|
| `scheduler_safety` | `SlotConservation`: the semaphore counts exactly those who hold a slot, through panics and shutdown. `PendingIsAwaited`: a pending request has a timer that will fire. `NoStaleCancel`: the in-flight map refers to no run that is over. `TakenOnce`: one of the two that race for a request (window and shutdown) gets it. `OvershootBounded`: the tokens of a day exceed the limit by less than what the most runs that were ever let through together may use. `OneCrewPerCooldown`: from the first end of a run that starts a cooldown to its expiry only runs that overlapped with that one are under way, so a cooldown lets no second generation of runs in. `PoolSpec`: the whole is a slot pool |
| `scheduler_liveness` | every request that was created ends |
| `conn_alerts` | `ChannelSpec`: ring, batches, `sendCh` and reconnections together implement `LossyChannel`, so that events arrive in order and once, and a batch that has left the ring is lost only with its connection. `ConnectionEnds`, as long as the server asks for no session (`conn_deadlock` shows the other case) |
| `conn_sessions` | `SlotsMatch`: one slot for each session goroutine and for the start in hand, over reconnections, reused ids and duplicates that give their slot back. `SessionsKnown`: no id outlives its goroutine in the manager, and a running session is in the manager under its id or has been cancelled, so none is out of reach of a cancel |
| `parts` | the ring implements its queue (`QueueSpec`); the back-off never hastens (`NeverHastier`); the three gates of the alert engine, about what was delivered (`RepeatLimit`, `NotTooEarly`, `SpacedDelivery`), `RecoveryFollowsAlert`, `SubmittedOnce`; what `Forward` returns is the truth (`ForwardTruthful`); the limited queue keeps the order of each pusher (`EachInOrder`; how far the limit is overstepped is in `LimitTypeOK`); records are whole and the cleanup is exact (`CleanupExact`); `OneIdentity`; `FreshIdentity`: an answer about the host is no older than a minute and a detection; `AcceptedIsUsable` for the settings; `CommandsSound`: words as a shell's for all commands up to four characters, and no lost output, process or goroutine; `ToolsSound`: what the AI is shown is what runs, on an open connection; `NoneLeftBehind` for the MCP manager; `StoreSound`: with two savers that overlap at will, failed writes and crashes, the file is whole once a Save has been alone since the last overlap (`TornByOverlapOnly`), and the store is a register that overlapping Saves may disturb and the next that is alone makes good (`RegisterSpec`); `FiltersSound`: words, globs and regular expressions in one list match as each does alone, but for lists of several globs in which one has a comma, a brace or a backslash |
| `assistant` | chats (`RequestsSound`: calls with their answers, within the window, and as turns that alternate for Bedrock; `RolledBackUnlessShrunk`); diagnoses (`LoopSound`, which includes the instruction to stop and the record of rounds); AI client (`FailoverSound`: order, no early end, stop with the context, a refusal is final); chat sessions (`ToldInOrder`); MCP client (`InStep`: it gets out of step with its server by at most one response for each call that timed out and each foreign line taken for a response, and as long as there is neither, no call gets the response of another). `AssistantEnds`: a session that is cancelled ends; a call to an MCP server comes back, also from one that is silent, dies or is closed, unless a write waits for ever for a server that stopped reading, which then holds the mutex (`CallsReturn`); readers end when the process has (`ReadersEndWithServer`) |

Runs that find a violation are described under
[what the runs found](#what-the-runs-found).

`CHECK_DEADLOCK FALSE` is set where the system really stops: after `Shutdown`,
after a program without a successor connection, or at a bound on the number
of events.

## Bounds

| where | bound | why it is enough |
|---|---|---|
| scheduler | 3 requests, 2 keys, 1 session, 2 slots, 2 events | three requests can overlap on one key and on two; two slots can be full while a third asks; a session competes with both; an event can join a window; the theorems lift all of it |
| scheduler liveness | 2 requests, 1 key, 1 slot | the second finds the slot taken, the budget passed or the key cooling |
| connection, alerts | 5 events, ring 2, channel 2, batches of 1 | overflow of the ring, a full channel and a partial drain occur together; reconnections are not bounded; the theorems lift it |
| connection, sessions | 3 goroutines, 2 ids, 2 slots, channel 2 | an id is reused while its old goroutine still runs, and a third start finds no slot; the theorems lift it |
| alert engine | 1 key, time up to 8, four configurations, 2 notifiers | keys are independent (each action touches one); eight ticks allow two repetitions, a failed delivery between them, and a recovery; the theorems lift all of it |
| alert ring | capacity 3, batches 2 and 3 | odd capacity, full and partial drains; the theorems lift it |
| back-off | the values of the code, 300 and 1800 s; `Retry-After` below, between and above | exhaustive for the code's own constants; the theorems hold for all |
| state store | 2 savers, 3 runs, 3 inodes | three is the most that two savers need: when one opens a new file, the state file and what the other has open are the only ones in use; two Saves overlap and a third is alone; the theorems lift it |
| notifiers | 3 notifiers, 2 attempts | a last and a not-last attempt; the theorem lifts it |
| limited queue | 2 pushers, limit 2, 4 items | both pass the test at one place left; the theorems lift it |
| records | 3 records, clock up to 3, maximum 0, 1, 2 | two kept and one in excess, of equal and of different times; the theorem lifts it |
| identity | 2 callers, 3 identities | two race and a third is drawn after a crash; the theorem lifts it |
| conversations | history of 4, 2 rounds of chat, 4 of diagnosis, 2 calls, results of 1 or 3 tokens, windows 0 (none), 1 and 6 | every group can be dropped, a group can be larger than the window, trimming and compaction happen in one turn; the theorems lift it, requests to Bedrock and the length of the history included |
| AI client | 3 models, 3 attempts, back-off up to 3 | first, middle and last of both; the theorem lifts it |
| MCP | 2 callers, 3 calls, a pipe of 1 request, 1 foreign line, which bears the id of the first call | a reader that stays takes the line of a later call, a full pipe holds up a write while another call waits for the mutex; the foreign line is taken as an answer by the first call and as a mismatch by the others; the theorem lifts it to all ids |
| settings | three groups: 2 models of 5 kinds with gateway, fallback and address; the numbers; the texts of gateway and server | within a group all combinations; a check of the code reads settings of one group only; the theorem holds for all settings |
| command words | up to 4 characters of 6 classes | an opening quote, an escape, its character and what follows; every pair of states of the definition meets; the theorem holds for commands of every length |
| commands | one word and none; one child in all four kinds | each process and goroutine steps freely against the timeout; the theorem holds for all commands |
| identity of the host | 2 askers, 2 names, a cache of 2 ticks, a detection of 1, 4 ticks | the cache is filled, expires and is filled again while another asker waits; the theorem lifts it |
| alert keys | 2 askers, 1 name, 4 ticks | an alert before and a recovery after the cache expires |
| filters | lists of up to 2 patterns, one excluded, of 10 | each pair of kinds of patterns, with braces, commas and escapes in words and globs; the theorem holds for all lists, texts and patterns without brackets |
| tools | 6 tools of both scopes under 2 names, 2 categories, 2 systems | names collide within a category and across; the theorem lifts it |
| MCP manager | 3 servers, 2 names, 2 tools | two servers share a name with one between them or after them; the theorem lifts it |
| chat session | input channel of 2, 4 messages | a full channel drops a message while a turn runs; the theorem lifts it |

## Fairness

Nothing is assumed of the world: alerts need not arrive, a server need not
talk, a context need not be cancelled, nobody need call `Shutdown`.

- `DiagnoseScheduler!FairSpec`: weak fairness of a timer that runs, of its
  callback, and of the steps of the goroutine that runs `Submit` and
  `RunDiagnose`. The Go scheduler gives each runnable goroutine its turn, and
  the diagnosis has a timeout, which its calls to the AI and the commands it
  runs heed. The exception is a call to an MCP server that has stopped reading
  (see `McpClient`): a diagnosis that makes it is not covered by this fairness.
- `AgentConn!FairSpec`: weak fairness of the goroutines that only compute or
  are in I/O with a deadline (`WriterTakes`, `Handle`, `Connect`...); strong
  fairness where a goroutine waits for room in `sendCh` or is in a `select`
  with a ready case: waiters on a Go channel are served in order, and a
  `select` chooses at random among the ready cases, so a case that is ready
  again and again is taken. A read is assumed to fail once the context is done
  (`ReadFails`), as the websocket library promises.
- `McpFairness`: strong fairness of taking the mutex (Go's mutex hands over to
  a waiter after a millisecond), weak fairness of a write that has room, or
  that fails, of timeouts (every call has one) and of a reader that has a line
  or the end of the pipe. Nothing is asked of the server: it may stop reading,
  never answer and never end. `CallsReturn` therefore has as its exception a
  write that waits for ever, and `ReadersEndWithServer` as its condition that
  the process has ended: `Close` closes the input and waits (`mcp/client.go:109-115`),
  which does not see to that.
- `TalkFairness`: weak fairness of the session's own goroutine; the turns have
  timeouts, with the same exception. In the union the fairness of a part is assumed when it is that
  part's turn.

## The proofs

TLAPS checks 51 theorems, for every value of the constants that satisfies the
`ASSUME`s of the modules (limits are positive numbers, sets are finite,
`NormalMin <= AuthMin <= NormalMax <= AuthMax` ...). Two assumptions are
narrower than the code: `FiltersAssumption` leaves out patterns with brackets, and
`SettingsAssumption` says that no model bears the name `server:diagnose`, which
the program gives to the gateway's client and does not check.

Each component has one inductive invariant, shown for the initial states and,
by one lemma per action or group of actions, for every step; the theorems
follow from it. What each invariant adds to the properties, and why:

- **`DiagnoseSchedulerProofs`** (`IInv`) - `TypeCorrect`, `SlotsConserved`,
  `PendingAwaited`, `CancelsAreLive`, `ImplementsPool`, `RequestsAreTakenOnce`,
  `OvershootIsBounded`, `CooldownIsKept`. `SlotConservation` is not inductive:
  a timer's callback moves whatever request it finds in `pending`, and moving
  one that already holds a slot would lose it. `IInv` therefore has
  `PendingIsAwaited` (what is found there is pending and has a timer),
  `NoStaleCancel`, and `Created` (a request has a key from the moment it has a
  timer). The refinement follows: each step takes a slot, returns one, or does
  neither. `OvershootIsBounded` needs an account of what is yet to come: the
  tokens of the day and the most that each run not charged yet may add stay
  below the limit and `peak` times the largest cost, which the check renews and
  the charge uses up. `CooldownIsKept` needs that nobody passes the check of a
  key that is cooling and that `crew` names somebody only while it is.
- **`AgentConnProofs`** (`ConnInv`) - `ConnTypeCorrect`, `SlotsAreMatched`,
  `SessionsAreTracked`, `ImplementsChannel`, `EventsInOrder`. For the sessions,
  `Bookkeeping` ties the session map to the goroutines: an entry refers to a
  goroutine that serves that id, and the handler that is starting one has it
  to itself; so a step changes the count of slots and the set of busy
  goroutines together; the slot of a start in hand belongs to the reader until
  the session is entered or found to be a duplicate. For the alerts, `Positions` says who holds a batch
  while which goroutine is where. The refinement maps writer, `sendCh` and
  flusher to one flat sequence, so the proof needs what `FlattenSeq` of the
  community modules computes: its value, and that it commutes with `Append`
  and `Tail`, by induction. That the channel keeps order is then proved of
  `LossyChannel`'s own steps (`Sorted`) and carried back.
- **`AlertProofs`**. *Ring* (`RingInv`): `RingTypeCorrect`, `SlotsCorrect`,
  `ImplementsQueue`. All index arithmetic goes through one operator `At`, of
  which three facts are proved: in range, injective, onto. `RingInv` says that a
  slot holds an event exactly if it is one of the `count` places before
  `head`. The refinement shows that `Push` on a full ring is the abstract drop
  of the oldest, and that `Drain` returns the same events. *Engine*
  (`EngineInv`): `EngineTypeCorrect`, `RepeatLimited`, `NeverTooEarly`,
  `OneSubmission`, `KeepsDistance`, `RecoveryAnnounced`. The
  gates look at the cache, the properties at what was delivered.
  `CacheTellsHistory` says that they agree; `GatesPassed` says that an event
  on its way has passed the gates of its own episode, which stays true because
  nothing it was checked against changes until `Forward` returns, however long
  that takes.
- **`PersistenceProofs`**. *State store* (`StoreInv`): `StoreTypeCorrect`,
  `FileIsWhole`, `SavedIsKept`, `ImplementsRegister`, for any number of savers
  that overlap at will. The invariant says what a saver that has been alone
  since it began knows at each of its steps, whatever earlier overlaps have
  left: what it marshalled is all there is, the temporary name is the file it
  writes, and what it renames is complete; `StoreIsSound` joins what the run checks.
  *Records* (`FilesInv`): `CleanupIsExact`. `DoomedExceed` says that what the cleanup has yet to remove
  has enough records before it, which stays true while others are saved and
  removed; `KeptInTime` that the rest is no more than may stay. *Agent
  identity* (`IdentityInv`): `IdentityIsOne`; `DrawsAlone` says that while somebody
  draws there is no file, as long as no two draw at once. *Host identity* (`HostInv`):
  `IdentityIsFresh`; an answer is a cached text or a detection, so
  `DetectionIsFresh` and `KeptIsFresh` bound the ages of both.
- **`AssistantProofs`**. *AI client* (`CallInv`): `FailoverIsSound`;
  `Progress` says which models have been asked and how often the current one,
  `Lateness`, `NotGivenUpEarly` and `Refused` what the end of the context, a
  failure and a refusal leave behind. *MCP client* (`PipeInv`, `PairInv`):
  `CallsStayInStep`.
  `OneCall` is the mutex, `FreshIds` says that an id is given out once and has
  one reader, and `Once` that a request is in the pipe, in the server or
  answered by one line; so a reader that takes a line which is not its call's
  leaves at most one behind, and each such line has a call that timed out, or
  a foreign line, to answer for it. `PairInv` says what holds as long as neither
  has come: the call with the mutex has the only reader, and what is in the pipe,
  in the server or on its way back is that call's own request or response; so no
  call gets the response of another. *Chat session* (`TalkInv`):
  `SessionTells`; `Follows` says that what was told, the turn and the channel,
  one after the other, are what was delivered.
- **`ConversationProofs`**. *Chat* (`ChatInv`, `FitInv`): `FailedTurnRollsBack`,
  `RequestsStayWhole`, `RequestsAlwaysFit`, `RequestsAreSound`,
  `HistoryStaysBounded`. `GoodHistory` says that the history is
  `Whole` unless a rollback has gone wrong, and `Begun` that a turn that has
  dropped nothing has before it the history it began with. For Bedrock the
  history is followed message by message: `Arranged` says which stretch of it
  each turn holds so far (`Layout`), and from where the calls and results of a
  whole history lie follows that a call ends its turn (`CallEndsTurn`) and that
  the next one begins with its answers (`AnswerFollowsCall`). `Plain` adds that
  only the first message is a system prompt. `SizeInv` bounds the history by
  trimming and the rounds of one turn (`Most`): what a rollback brings back is
  never more than the turn began with, even where it is not what was there.
  *Diagnosis*
  (`LoopInv`): `DiagnosisIsSound`. The code never weighs the messages again
  between compactions, it adds to an estimate; `Weighed` says that the estimate
  is no less than the weight without the instructions to stop, which are
  appended without being counted. `Counted` and `Told` tie rounds, record and the last
  instruction together. What `Tokens` computes for a history that grows at
  its end or loses its beginning is proved by induction.
- **`PartsProofs`**. *MCP manager* (`ManagerInv`): `NoProcessLeftBehind`; `Behind`
  says that a client was entered before the server that is being started.
  *Notifiers* (`NotifyInv`): `ForwardIsTruthful`, from the truth about each
  notifier. *Tools* (`RegistryInv`, `UseInv`): `ToolsAreSound`; a tool is in one
  category and the index knows no other tools, so the list and the check by
  name agree. *Pace* (`PaceInv`): `BackoffBounded`, `AuthPaceKept`,
  `WaitsGrow`; `Doubled` remembers what a wait must know of the one before it:
  the back-off is at least twice the last wait, or at its limit. *Limited
  queue* (`QueueInv`): `EachKeepsItsOrder`; the sequence of what was taken and
  what is in the queue (`Passage`) holds the items of each pusher in their
  order, up to the last it has pushed. For `LimitOversteppedBy` (`LimitInv`)
  `RoomLeft` counts those who are between their test and their push: each keeps
  room for one largest push, and gives it up by pushing. *Commands* (`RunInv`):
  `RunsAreSound`, and `CommandsAreSound`: after each character the reader of
  `QuoteSplit` and the one of the definition are in states that correspond, with
  the same words. *Filters*: `FiltersAreSound`; `GlobMatches` is a function of the positions of a
  pattern; for the pattern that `Joined` makes its values are those of the
  globs it is made of (`JoinedMatches`), each behind its comma, as long as none
  of them has a brace, a comma or a backslash that would move the others'
  depth; a pattern without anything special matches itself alone
  (`GlobOfWord`).
  *Settings* (`SettingsInv`): `AcceptedSettingsAreUsable`; the invariant lists
  what each step of `InitConfig` establishes and no later step undoes.

The folds and recursive functions of the models and of the community modules
are reasoned about by induction all the same: that the natural numbers are well
ordered gives `NatInSet` in `SequenceLemmas`, which speaks of a set where the
induction theorems of the library speak of a formula. What `SelectSeq` returns
stays opaque to the provers; the models take folds and positions instead
(`Converse`, `Filters`).

Only model-checked:

- all liveness, since fairness and ENABLED are beyond the prover
  (`RequestsEnd`, `ConnectionEnds`, `AssistantEnds`);
- the unions `PartsTypeOK` and `AssistantTypeOK`. Of their parts those that
  bound something are theorems (`RingTypeCorrect`, `EngineTypeCorrect`,
  `StoreTypeCorrect`, `BackoffBounded`, `LimitOversteppedBy`,
  `HistoryStaysBounded`), and of the others nearly all is proved within the
  invariants above, with one exception: the bound on the back-off of the AI
  client. The provers know nothing of powers of two; and for the theorem to speak of
  every number of attempts the model would need the shift of the code, which
  overflows beyond thirty.

Every other property that a passing run checks is stated by a theorem. Some
statements are proved only, and repeated by no run: `SlotsMatchCount`,
`AuthPace`, and the type invariant of `DiagnoseScheduler`.

## What the runs found

Six statements of the repository do not hold of its code; each has a run with
the counterexample.

| run | statement | what happens |
|---|---|---|
| `scheduler_shutdown` | `diagnose/engine.go:424` "Shutdown cancels all in-flight diagnoses" | two runs of one key overlap: the second overwrites the first's entry, and whichever ends first deletes it, so a run goes on that `Shutdown` does not know |
| `conn_deadlock` | `server/conn.go:199` "It blocks until ctx is cancelled" | the writer has ended, `sendCh` is full, the reader waits in `sendACK` for room or for `done`, which is closed only after the reader |
| `engine_diagnosed` | `engine/engine.go:21` "tracks alerts that already triggered a diagnosis" | the key of an event below the severity is stored, and a later Critical event of the episode triggers none |
| `store_torn` | `diagnose/state.go:102` on atomic saving | two savers share one temporary name: one renames what the other has just truncated |
| `alert_keys` | `engine/cache.go:9-11`: events are never cleaned up, since a recovery that comes late could not be made otherwise | the key of an event contains the live identity (`engine/engine.go:182`). A label `web-${IP}` becomes the bare address when its cached form is a minute old (`config/config.go:343`, against line 349, "follows the resolved from_hostname label"): the recovery has another key, and the alert's record stays. A host that changes its address does the same |
| `chat_rollback` | `diagnose/streaming.go:72` "On error, the user message is rolled back" | compaction in the failing turn has changed the length that the rollback uses |

Divergences seen while reading that have no run of their own:

- `diagnose/engine.go:409-411` takes for granted that a key has one run at a time.
- `server/conn.go:35-36` "Events survive disconnects": those in the ring do;
  those in `sendCh` or in a write that fails do not (`LossyChannel` says
  exactly which).
- `server/session.go:75` "tracks all active": a cancelled session is removed
  while its goroutine still runs.
- `server/conn.go:201` names 300 s as the limit; after authentication failures it
  is 1800 s.
- `mcp/client.go:193`: the write looks at no context and holds the mutex, so a
  server that has stopped reading stops every call to it, and a diagnosis that
  makes one (`Stuck` in `CallsReturn`).
- `mcp/client.go:204` "reads from stdout until a matching response arrives", line
  24 "serializes request/response pairs": a line that begins with `{` and is no
  notification, a request of the server or one that does not parse, is taken for
  the response and ends the call; its own response then goes to the next call,
  without any timeout (`PairsKept` has this as its condition).
- `mcp/client.go:205-206` "this goroutine will eventually exit when Close() kills
  the process and the pipe is closed": `Close` closes the input and waits (line
  115) and kills nothing; a server that goes on without its input keeps `Close`
  and the reader waiting (`ReadersEndWithServer` has the end of the process as
  its condition).
- `pkg/filter/filter.go:20-21` "matching a given string against the filter list
  (OR logic)": several patterns are joined by commas between braces without being
  escaped (line 93), and `HasMeta` looks for neither braces nor backslashes: `b*`
  and `{a}` become `{b*,{a}}`, which matches `a` and not `{a}` (`FiltersSound`
  leaves such lists out).
- `pkg/safe/queue.go:103`: the limit is overstepped by concurrent pushers and
  by `PushFrontN` (`LimitTypeOK` says how far).
- `config/agentid.go`: two concurrent first callers draw two identities;
  `OneIdentity` has this as its condition.
- `diagnose/cleanup.go`: `.json.tmp` files of a crash are never removed.
- `mcp/manager.go`: with two servers of one name the first client is forgotten
  without being closed, while its tools stay registered (`Displaced` in
  `NoneLeftBehind`); names of servers and tools are joined by `_`, so that two
  different tools may have one name, and the second is skipped.
- `config/config.go:517` says that `max_retries` of the gateway is "between 0 and
  2", but 0 becomes 1 at line 412.
- `config/config.go` accepts a negative `max_retries` of `[ai]`; `ChatWithRetry`
  then makes no attempt and returns neither a response nor an error
  (`diagnose/aiclient/retry.go:21`). `AcceptedIsUsable` leaves this case out.
- `config/config.go:150` "Returns 0 if no models are configured": it returns 0
  also for a window of one token, of which 80 percent are none, and 0 turns
  compaction off. `AcceptedIsUsable` leaves this case out too.
- `diagnose/streaming.go:207-254`: the chat runs a tool by its name without the
  check of the system that `executor.go:42` makes (`ChatExecuted`).
- `diagnose/executor.go:71`: a session without an accessor is no nil session, so a
  remote tool also runs when the request has no instance (remote sessions), or
  with the accessor of another plugin; `diagnose/types.go:17` says of its scope
  "Needs a connection to the remote target". `RemoteConnected` has this as its
  condition.
- `diagnose/aiclient/failover.go:193` "4xx ... do not" fail over: the gateway's
  client reads the body first (`server_client.go:91`), so a 4xx whose body is no
  JSON is tried again and fails over. `RefusalFinal` excepts the gateway.
- `diagnose/aiclient/retry.go:22`: with more than thirty retries the product of
  back-off and shift overflows, and nothing is waited for.
- `config/config.go:296` "static for process lifetime": a variable whose name
  only begins with `IP` or `HOSTNAME` is taken for the detected one (line 321).
- `pkg/cmdx/cmd_notwindows.go:27`: the group is killed by a number whose process
  may have been reaped.

## What is not modelled

| part | why |
|---|---|
| server protocol messages | declarations and their JSON |
| signatures and payloads of the AI requests | cryptography and JSON; what a response means is in `AIClient`, the conversation in `Bedrock` |
| prompts, reports | texts |
| command line, self-test, `mcp/test.go` | they run tools or read records one after the other and print; nothing else uses what they keep |
| reading of the files (`pkg/cfg`), HTTP settings, units | I/O and texts; the other models take the settings as constants under the assumptions that the defaults establish |
| plugin interface | interfaces only; the agent that schedules plugins is in another repository |
| terminal, TLS, logger, the Windows variants | I/O and globals that are set once |
| an inspection from the command line beside a running agent | another process, with counters and cooldowns of its own in memory and the same state file: each overwrites what the other has saved. `StateStore` has the savers of one process |
| text of messages, token estimates | a text is a number of tokens |

## Plan

Order of the modules, the most important first:

1. *Done.* `SlotPool`, `DiagnoseScheduler` and its proofs; `BoundedAlertQueue`,
   `AlertRing` and its proofs; `AgentConn`; `AlertEngine` and its proofs;
   `StateStore`; `Reconnect` and its proofs.
2. *Done.* The assistant: `MessageHistory`, `ChatStream`, `DiagnoseLoop`,
   `AIClient`, `ToolRegistry`, `McpClient`, `ChatSession`. Delivery and files:
   `Notifiers`, `LimitedQueue`, `RecordFiles`, `AgentIdentity`.
3. *Done.* `Settings`, `McpManager`, `ShellWords`, `Bedrock`.
4. *Done.* `HostIdentity` and `AlertKeys`, `ToolUse` with the chat's
   `executeTool`, `Commands`, `Filters`, the clients' reading of responses in
   `AIClient`.
5. *Done.* Abstract specifications: `LossyChannel` for `AgentConn`,
   `DurableRegister` for `StateStore`.
6. *Done.* Proofs: of `AgentConn` with its channel, of what is kept on disk and
   in memory, of the assistant and its conversations, of the parts.
7. *Done.* Proofs by induction over data: `Converse` as a fold with its turns
   (`RequestsAreSound`), the words of a command (`CommandsAreSound`), the globs
   of a filter (`FiltersAreSound`); bounds on the limited queue and on the
   history of a chat.
8. Still worth having: a back-off of the AI client with the width of its
   integers, and the theorem that it never goes beyond its limit within that
   width; records of the settings files as they are read (`pkg/cfg`).
