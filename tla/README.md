# Formal models of AIDE

This directory holds TLA+ models of the parts of this repository that have a
protocol of their own: the agents, their runtime and coordinator
(`packages/agent-runtime`), the memory graph and its persistence
(`packages/memory-graph`), the conversation view (`packages/ui-components`),
and, of the editor the repository is a fork of, remote connections, storage and
text files (`src/vs`). TLC checks the models on small instances; TLAPS proves
the most important of the properties for every instance.

The editor's part is some 1.7 million lines kept as they are upstream; the
repository's own TypeScript, about 81,000 lines, is in `packages/`, `apps/`,
`extensions/aide-core`, `extensions/copilot` and `cloud-functions`.

## Running

    tlc -workers 2 -config MCAgentRuntime.cfg MCAgentRuntime
    tlapm AgentRuntimeProofs.tla

Every `MC*.cfg` names the module in its file name, without a suffix such as
`Live`; where there is no module of that name, the one without `MC`
(`MCStorage.cfg` belongs to `Storage`).
`PROJECT.json` lists the runs, what each expects, the source lines behind every
definition, and, for every property, a mutation of the model that breaks it.
The mutated operators stand in the modules, right before the definition they
replace, under a comment that begins with "Fault:"; nothing else uses them.

## The system

| Part | State | Operations | Interacts by |
|---|---|---|---|
| Agents, `agents/BaseAgentImpl.ts` and the six concrete agents | `isInitialized`, `isShuttingDown`, `currentTasks`, `status`, `metrics` | `initialize`, `shutdown`, `executeTask` with `onTaskStarted/Completed/Failed` | called by the runtime or by an adapter; awaits in every method |
| Runtime, `AgentRuntime.ts` | `agents`, `activeTasks`, `llmServices`, `conversations`, two subjects | constructor (starts the registration and does not await it), `executeTask`, `cancelTask`, `shutdown`, conversations | calls agents; publishes `tasks$` and `messages$` to the desktop shell, the control panel and the extensions |
| Memory graph, `memory/MemoryGraph.ts` | `nodes`, `edges`, `workflowHistory`, `patternCache` | `addNode`, `addEdge`, `recordWorkflowStep`, `storeContext`, `export`, `import`, queries | called synchronously by the coordinator |
| Coordinator, `coordination/AgentCoordinator.ts`, `AgentAdapter.ts` | `agents`, the memory graph, an `activeWorkflows` table that is never filled | `registerAgent`, `executeWorkflow`, `executeSequentialWorkflow`, `executeWorkflowWithRecovery` | calls agents, awaits them, records what they did |
| LLM services, `llm/*` | connection settings | `complete`, `streamComplete` | HTTP |
| Graph engine, `memory-graph/engine.ts`, `runtime.ts` | the graph subject with its statistics, the change subject, the history and the current node of a conversation | updates of nodes and relationships, `clearGraph`, recording of entries and intents | subscriptions to `graph$` and `changes$` |
| Graph persistence, `memory-graph/persistence`, `migrations` | files, IndexedDB and local storage, backups, schema version | `saveGraph`, autosave, `loadGraph`, `restoreBackup`, `exportGraph`, `importGraph` | adapters with asynchronous I/O |
| Conversation view, `ui-components/ConversationInterface.tsx` | what it shows, the conversation it is in, the answer it waits for | mount, send, new chat, select from the history | callbacks of `startConversation`, `messages$` |
| Control panel, `apps/aide-control` | Firestore documents: usage, plans, billing, tasks; one runtime per user | quota check and record, Stripe webhooks, task service, provisioning | HTTP handlers, Firestore, Stripe events, `tasks$` |
| Editor extension, `extensions/aide-core` | agents of its own, server processes, conversations | agent manager, server manager, async helpers | editor API, child processes |
| Remote connections, `ipc.net.ts`, `remoteAgentConnection.ts`, `remoteExtensionManagement.ts` | unacknowledged and incoming messages of both ends, timers; the client's reconnecting loop; the server's sessions and grace timers | send, acknowledge, replay, pause, reconnect, give up | sockets that break, a handshake on every new socket |
| Storage, `storage.ts` of base/parts, `storageIpc.ts` | a cache, pending inserts and deletes, the database; one such storage per window over the main process | `set`, `delete`, `flush`, `whenFlushed`, `close` | a throttled delayer (`async.ts`), SQLite, IPC with change events |
| Text files, `textFileEditorModel.ts` and its manager, `fileService.ts` | the buffer, its dirty, conflict and error flags, the saved version, a `TaskSequentializer`, the last known stat | edit, undo, save, revert, reload | save participants, the file on disk, a watcher |
| Desktop shell, landing page, `cloud-functions` | windows and views; the monthly quota reset | forwarding, rendering, one scheduled write | IPC, HTTP |

Everything runs on a JavaScript event loop: a method runs without interruption
up to its next `await`, so what makes this code hard is what happens *between*
awaits:

- methods that iterate over a live map and await in the loop (`shutdown` of the
  runtime and of every agent), while other calls add to it or clear it;
- a constructor that starts an asynchronous loop nobody awaits;
- entries of shared maps keyed by ids the callers choose (`task.id`,
  `request.id`), so that calls can meet in one entry;
- calls that are cancelled or replaced while their answer is under way;
- loops with retries, backoff and a fallback in which any await gives way to a
  registration, an import or another call;
- history kept next to a graph that can be replaced under it;
- state that was read before an await and is relied on after it: versions,
  flags, a file's stat, the id of a node;
- sockets that break, processes that end and statements that fail between two
  steps that belong together.

What makes each part correct, in short: an agent's table and counters tell what
it is doing and what it did; the runtime's `activeTasks` and `tasks$` agree and
leak nothing, and a shutdown leaves nothing running; the memory graph has an
edge for every relationship and the history of a workflow tells exactly what its
agents did; a workflow runs what its plan says and as often as it may. A saved
graph survives and can be loaded; a message sent over a remote connection
arrives once and in order, whatever breaks; what was set in a storage is in its
database once somebody is told so; a text that is not marked dirty is the text
on disk.

`PROJECT.json` lists every component with its status, and under `hazards` every
place where one of these things could go wrong, with the properties that would
notice.

## Modules

### BaseAgent

Models `BaseAgentImpl.ts` and the shape of `executeTask` in the concrete
agents. One action is the code between two awaits:

| Code | Definition |
|---|---|
| `initialize()` up to / after `onInitialize()` | `InitializeBegin`, `InitializeEnd` |
| `shutdown()`: guard, one turn of its loop, resumption, end | `CanShutdown`, `CancelOrClose`, `ShutdownBegin`, `ShutdownCancel`, `ShutdownEnd` |
| `executeTask` as called; its first timer; its end | `AgentExecute`, `AgentWake`, `AgentFinish` |
| `onTaskStarted`, `onTaskCompleted`/`onTaskFailed`, `updateTaskMetrics` | `OnTaskStarted`, `OnTaskSettled`, `UpdateTaskMetrics` |

The agents differ in two ways that matter, given by constants: Builder and
Designer keep the task table (`Tracking`), Planner and Builder sleep a
millisecond before they touch the task (`Delayed`). A third constant,
`Throwing`, stands for agents whose `executeTask` rejects, as the interface
allows. The six shipped agents catch everything; the run has one that throws,
since the runtime's handling of a rejection is code too.

`StatusTellsTheWork`: an idle agent reports 0 current tasks although the counter
is refreshed only when a task ends (`IdleAgentReportsZero`), and every answer is
counted once, also when a shutdown cancelled its task (`AnswersCountedOnce`).
`NoGhostTasks`: the task table holds only work under way.

### TaskMetrics

The incremental average of `updateTaskMetrics`, with exact fractions, and beside
it the sum of the durations of the completed tasks, which the code does not keep.
`AverageIsSound`: as long as nothing fails it is the mean of the durations
(`MeanWhileNothingFails`), and it never exceeds that mean
(`AverageNeverOverstates`). After a failure it is no mean at all, see Findings.

### AgentRuntime

EXTENDS BaseAgent and adds the runtime's own state: how far the registration
loop has come (`initAt`), the map, `activeTasks`, where each call stands, the
events of `tasks$` per task id, and each `shutdown()`'s place in its iteration.
A step of the runtime performs the agents' operations it calls
(`ExecuteTask` contains `AgentExecute`, `Advance` contains `ShutdownBegin`,
`Register` contains `InitializeBegin` of the next agent); what the agents do
after their own awaits is `AgentStep`.

| Code | Definition |
|---|---|
| `initializeAgents()`, one turn of the loop | `Register` |
| `executeTask`: no agent / up to its await / the rest | `RefuseTask`, `ExecuteTask`, `ReturnTask` |
| filter and sort of the agents | `Capable`, `Selected` |
| `cancelTask` | `CancelTask` |
| `shutdown()`: call, resumption, the live iterator | `ShutdownCall`, `ShutdownResume`, `Advance`, `Unvisited` |

Two details of the code that the model keeps: a `TaskResult` with
`success: false` is published as `completed`, only a rejected promise as
`failed`; and without any LLM service `initializeAgents` merely warns and
registers the agents all the same (the comment in it says otherwise), so the
services do not appear in the model.

Properties: a listener can tell from `tasks$` alone which tasks are active and
on whose behalf (`StreamTellsActive`); no entry of `activeTasks` outlives its
invocation, nor one of an agent's table its work (`EntriesAreAlive`, of
`ActiveHasLiveOwner` and `NoGhostTasks`); every invocation reports its end once,
after its start, with at most one cancellation between (`EndReportedOnce`); also
during registration a task gets the best agent there will ever be
(`BestAgentRunsTask`, which rests on the order of `agentConfigs`); no running
agent is dropped from the map by overlapping shutdowns and registrations
(`NoOrphanAgent`); tasks and shutdowns return (`AcceptedTaskReturns`,
`ShutdownReturns`), although a shutdown awaits in a loop over a live map.

### WorkflowMemory

`MemoryGraph.ts` as pure operators on a graph, a record of nodes (each with its
relationships) and edges: `AddNode`, `AddEdge` (with the endpoints check that
throws, `RecordThrows`), `StoreContext`, `GraphWithStep` for
`recordWorkflowStep`, `Imported`, and the repair of relationships that every
change of the graph ends with, `Cleaned`. Node ids keep what makes them collide: a
step's id is its workflow and the millisecond it started at. Payloads are
abstracted.

### AgentCoordinator

EXTENDS WorkflowMemory. A call of `executeSequentialWorkflow` or
`executeWorkflowWithRecovery` is a process; `callAt` says at which await it
stands.

| Code | Definition |
|---|---|
| `executeWorkflow` up to `await agent.execute` / after it, in the `try` / in the `catch` block | `Execute`, `AnswerResolved`, `AnswerThrew` in `AgentAnswers` |
| the loop of `executeSequentialWorkflow` | `Proceed`, `SequentialStart`, `SequentialResume` |
| `executeWorkflowWithRecovery`: first attempt, what follows an answer, backoff | `RecoveryStart`, `RecoveryResume`, `Sleep`, `RecoveryWake` |
| `determineRecoveryStrategy`, `findFallbackAgent` | `RecoveryStrategy`, `Candidates`, `FallBack` |
| `registerAgent`, `export`, `import`, `Date.now()` | `RegisterAgent`, `Export`, `Import`, `Tick` |

`export()` returns the nodes of the graph themselves in arrays of its own. A
caller that writes them down at once has a copy; with one that keeps them
(`shared`) the exported nodes go on changing as the graph does (`SavedFollows`),
and an import puts them back beside the edges as they were.

`runs` is a history variable: the agent executions that ended, which the
recorded history is compared with. Another, `stale`, tells whether the graph has
nodes that were changed like that since they were exported.

Properties: `MemoryIsConsistent`: the graph joins only steps that followed each
other in a history (`GraphTellsHistory`), and every relationship has an edge
(`RelationshipsHaveEdges`) unless it came back with such nodes;
`HistoryIsFaithful` relates the recorded history to the graph (`HistoryIsLinked`)
and to what really ran (`HistoryTellsRuns`), whatever interleaves and is
imported; `SequenceFollowsItsSteps`, `RecoveryIsBounded`,
`EndingAnswersEndTheCall` and `CallsEnd` say what a call runs and that it ends.

### MessageChannel, PersistentProtocol

`MessageChannel` is what a protocol promises (`IMessagePassingProtocol`): a FIFO
channel in each direction. `PersistentProtocol` models both ends of `ipc.net.ts`
with the code that drives their reconnections, and is checked and proved to
implement it (`ImplementsChannel`: its history variables `sent` and `delivered` are the
variables of the abstract specification).

| Code | Definition |
|---|---|
| `send`, the writer with `pause` and `resume` | `Send`, `Enqueue`, `Write`, `WriteNow`, `ReceivePauseOrResume` |
| `_receiveMessage`, by type | `ReceiveNext`, `ReceiveRepeated`, `ReceiveAfterGap`, `ReceiveAckOnly`, `ReceiveReplayRequest` |
| `_sendAckCheck`, `_recvAckCheck`, keep-alive, the replay window | `AckTimer`, `WatchTimer`, `KeepAlive`, `ReplayWindowPasses` |
| `beginAcceptReconnection`, `endAcceptReconnection` | `BeginAcceptReconnection`, `EndAcceptReconnection`, in `ClientBegins`, `ServerAccepts`, `ClientEnds` |
| `BufferedEmitter` | `StopListening`, `StartListening`, `DeliverMessages` |

Disturbances are a socket that breaks at any point of the stream (`Break`,
`LoseTail`) or swallows a message (`Swallow`), a late answer of the handshake, a
keep-alive and an end that stops listening. `NothingIsMissing`: an end drops
nothing that the other may still need (`NothingDroppedUnseen`), and there are
gaps only where a socket swallowed something (`NoGapWithoutLoss`).
`NothingWaitsUnarmed`: whatever is unacknowledged or buffered has a timer or a
wake-up. `EverythingArrives`, under fairness: what was sent is delivered and
acknowledged, as long as no live socket swallows a message, which is what TCP
promises; the last message of a connection is asked for again only when a later
one shows the gap.

### RemoteConnection

Who reconnects, and until when: the loop of `PersistentConnection`
(`StartLoop`, `WakeUp`, `Resolve`, `Connect`, `TimeOut`, `ReadAnswer`,
`TryAgain`, `GiveUp`), its disposal, and on the server the handshake
(`HandleConnection`) and the sessions with their two grace timers. A management
session lives in the server: it takes the new socket, and stops its timers, in
the step that answers the client (`AcceptReconnection`), and a timer that fires
ends it (`GraceExpires`, `CleanResources`). The session of an extension host
lives in a process of its own:

| Code | Definition |
|---|---|
| `_handleConnectionType`: the client is told ok, its socket is to be drained and sent (`_sendSocketToExtensionHost`) | `HandOver` |
| `VSCODE_EXTHOST_IPC_SOCKET`, `VSCODE_EXTHOST_IPC_REDUCE_GRACE_TIME` arrive at the host | `HostTakes`, `HostReducesGraceTime` |
| a grace timer of the host fires, `onTerminate`: the extensions are deactivated for at most five seconds | `GraceExpires`, `HostTerminates` |
| the process exits, by itself or not; the server's `exit` and `error` events | `HostFinishes`, `HostFails`, `ServerHearsExit`, `HandoverFails` |

Between these steps the server keeps the token and accepts reconnections for a
host that may be ending. `SessionsFitTheirClients`: a grace timer runs only while
the client is away, and in no host that is ending (`GraceOnlyWhileAway`), and a
connected client is served, on the socket it uses (`ConnectedMeansServed`); that
of an extension host unless its socket is on its way or the host is ending or
gone (`OnItsWay`, see Findings). `LoopEnds` and `SessionOfDisposedEnds` (of
management connections: how a workbench ends its extension hosts is part of
`HostFails` only) are its liveness.

### GraphEngine

`MemoryGraphEngine` with the recorder of `AgentMemoryRuntime`. All operations
but saving and loading are synchronous, so the question is what holds between
them: the graph, its statistics, a subscriber that applies every event of
`changes$` (`view`), and the node the recorder thinks is current. Of saving and
loading, whose steps are those of GraphStore, there is the moment at which the
graph is taken (`SaveGraph`) or replaced (`LoadGraph`). An engine may be given a
graph (`Given`), whose statistics nobody counts before the first operation, and a
caller may draw relationships to nodes that are missing, or move them there.

`GraphIsConsistent`: once an operation has counted it, the statistics count the
graph (`StatsCountTheGraph`), and whatever is removed, saved and loaded, no
relationship loses an end it had (`EdgesEndAtNodes`; `loose` remembers the ends
that were missing when they were given). `StreamTellsTheGraph`: a subscriber that
read the graph holds it, until it is cleared or loaded, which `changes$` does not
tell (`told`), and again when it reads it anew (`Subscribe`).
`ConversationIsRecorded`: every entry is in the graph, and the current node ends
with the latest ones. The recorder is told nothing of a removed conversation, nor
of a graph that is cleared or loaded under it (`forgotten`, `loaded`): what
concerns the lost entries is stated for the time before.

### GraphStore

`saveGraph`, `loadGraph` and autosave over the three adapters (`adapter`), one
action per asynchronous step, with processes that end (`Restart`), full disks
and failing transactions. A graph carries what decides whether it loads: its
version, and where it has dates.

| Code | Definition |
|---|---|
| `FileSystemAdapter.save`: the copy, which may fail without an end of the save; `writeFile`, which empties the file first | `FileCopies`, `FileOpens`, `FileWrites`, `FileFails` |
| `IndexedDBAdapter.save`: the put, which answers; the transaction, complete or aborted | `IndexedSaves`, `IndexedCommits`, `IndexedAborts` |
| `LocalStorageAdapter.save`, all at once | `LocalSavesBare`, `LocalSavesCopied` in `LocalSaves` |
| `load` of an adapter; `loadGraph` with its migrations | `Reads`, `LoadGraph`, `ApplyLoad`, `Migrated` |
| `importGraph` of any earlier export, `restoreBackup`, `deleteGraph` | `ImportGraph`, `RestoreBackup`, `DeleteGraph`, `IndexedDeletes` |

`AckedIsKept` is crash safety: a graph whose save was answered with true, and
committed, is in the store or in a backup, whatever fails afterwards; unless two
saves of its file overlapped (`overlapped`), and until the code itself puts the
graph at risk (`Risk`, `LostAt`): it empties a file after a copy that failed or
was not asked for, an import or another graph takes the one place of localStorage
without a copy, or a copy gets the name of the one made in the same millisecond.
Each of these is a finding below.
`LoadsAreGood`: the engine only ever works on its own version
(`GraphIsOfThisVersion`), and a load from IndexedDB finds what was answered
before it was asked for, or something newer, unless the transaction of that save
was aborted after its answer (`LoadIsFresh`). Of files and localStorage nothing
like that is promised, see Findings.

### ThrottledDelayer, Storage

`ThrottledDelayer` models `Throttler`, `Delayer` and their combination
(`Trigger`, `Fire`, `Finish`, `Cancel`, `Dispose`): a call is answered by a run
that began after it (`AnswerIsFresh`). `Storage` EXTENDS it: a run is an update
of the database. `DatabaseFollowsTheCache`: cache, pending items, the request
under way and the database add up (`NothingSetIsForgotten`), and the database is
the cache of one moment, so that a crash finds a consistent one, which holds all
that was acknowledged (`DatabaseIsAMoment`); both until a statement fails.
`ClosedHoldsCache` is the recovery at `close()`, which repairs even that.
`CallersAreTold`, under fairness: every call is answered, everybody who waits in
`whenFlushed` is told, and `close()` ends, but for the calls left to a queued run
that fails (`Abandoned`).

### SharedStorage

Several windows with a storage each over the main process, which tells changes
later and in bulk. Messages of one window are in order, those of different
windows cross. `WindowsAgree`: when all is quiet every window reads what the main
process holds (`QuietMeansAgreed`), and that is the last value of one of the
writers, also of one that closed at once (`WritesArrive`). `EventuallyAgreed`
says, under fairness, that it comes to that.

### Conversation

`AgentRuntime.startConversation` and `streamChatWithLLM` with the views of
`ConversationInterface`. A callback of React or of a stream is one action. A
view that loads a conversation shares the runtime's array of messages
(`loaded`), so that messages may appear twice in it. `StreamsStayApart`: an
answer is in the conversation of its message, after it and once, and its chunks
are its own. `ViewsAreFaithful`: a view shows the first appearances completely
and in order, unless the conversation was selected from the history
(`selected`), and shows an answer as under way only while it is. `SendingEnds`
is its liveness.

### TextFileModel

`TextFileEditorModel` with its manager, the `TaskSequentializer` of its saves
and the steps of the file service, next to another program that writes the
file.

| Code | Definition |
|---|---|
| `onModelContentChanged`, `doSetDirty`, `updateLastResolvedFileStat` | `Edit`, `Undo`, `Clean`, `Seen` |
| `save`, `doSave`, its participants and their cancellation | `Save`, `DoSave`, `Refused`, `RunParticipants`, `Cancel`, `Abandon`, `Write` |
| `run`, `queue`, `doneRunning`, `runQueued` of the sequentializer | `StartSave`, `DoSave`, `DoneRunning`, `Ended` |
| `validateWriteFile`, the write, the stat; `handleSaveSuccess`, `handleSaveError` | `Conflict`, `Validate`, `Put`, `SaveSucceeds`, `SaveFails`, `SaveFailed` |
| `resolveFromFile`, `validateReadFile`, `resolveFromContent`, `revert` | `StartRead`, `ReadStat`, `ReadText`, `ReadEnds`, `ReadFails`, `Revert`, `SoftRevert`, `RevertGoesOn` |
| `onDidFilesChange`, `reload` of the manager | `FileChanged`, `Reload` |

`CleanIsSaved` is what users rely on: a text that is not dirty is the file the
model last saw. `SavesAreAttempted`: no save of a dirty model is lost. Both hold
unless one of the coincidences named at the actions has happened (`Coincides`,
remembered in `coincided`); each of them is a finding below. Among them is what is
no accident: `revert({ soft: true })` of a dirty model (`SoftRevert`) leaves the
text as it is and calls it saved.
`SavesAreConsistent` holds with all of them: never two saves at once, and a
model in conflict or error stays dirty. So does `SavesAndRevertsEnd`.

## Runs

| Run | States | Question |
|---|---|---|
| `agent_runtime` | 121 thousand | Two agents, one of which may throw, two invocations of `executeTask` that share their id, cancellations and two overlapping shutdowns while the registration is under way, with fairness. |
| `coordinator` | 1.5 million | A sequential workflow of two steps and a call with recovery for the same request, two agents of which one registers later, exports that share their nodes with the graph or not, and an import. |
| `coordinator_live` | 36 thousand | The same calls under fairness, with a clock, three attempts with time-outs, agents that register meanwhile or never. |
| `task_metrics` | 611 | Every sequence of up to five tasks of duration 0 to 3. |
| `protocol` | 166 thousand | Two messages of each end over three sockets after the first, two disturbances of any kind, the server handing its socket over, with fairness. |
| `connection` | 280 thousand | A management and an extension-host connection, two sockets after the first ones, two mishaps (broken or silent sockets, hosts that end unasked), other clients that connect, with fairness. |
| `graph` | 1.9 million | Three nodes, one of them of an earlier session, one relationship with any ends, three entries of which the last is past the limit; callers that clear, remove, save and load. |
| `store` | 3.7 million | All three adapters, with backups, two sessions, two saves, restores or imports, a text exported earlier, two operations in flight, failures at every step. |
| `storage` | 51 thousand | Two items, three calls, failing statements, transactions and recoveries, a close at any moment, with fairness. |
| `shared` | 768 thousand | Two windows, two keys, three changes, closing and opening, with fairness. |
| `conversation` | 162 thousand | Two views, three conversations of which one is in the history, two messages of two chunks, with fairness. |
| `textfile` | 489 thousand | Five acts of the user, of another program and of failure in any order, with all that follows from them, under fairness. |

All of them pass: what the code is found to do against its own documentation is
told under Findings, and where that limits a property, the property says so.

A run states its invariants as a few conjunctions of named parts. The parts are
properties of their own, each with its comment, which the text above explains.

**Bounds.** Every invocation of an agent is made at most once, so the number of
calls bounds that run; two invocations that share an id are enough for every way
in which entries can be replaced, deleted for each other or cancelled, and the
two agents are the ones that differ most: one tracks its tasks, the other does
not and may throw. `MaxRetries` is 3 (the default of the code) in
`coordinator_live`: the thresholds in `determineRecoveryStrategy` are 2 and 3, so
each strategy is reached from both sides. In `coordinator` only a sleep takes time
(`MaxTime` 0), so that steps start in one millisecond, and share nodes, or in
different ones; in `coordinator_live` the clock also advances by itself (`MaxTime`
1). Beyond that times are only compared for equality. `MaxImports` 1 puts one
import anywhere; a second starts from what the first left. In `coordinator` the
answers are a success, an empty success, an error that ends the call and a
rejection, which are what recording and the sequential loop distinguish;
`coordinator_live` has the error that is retried longest, the time-out. In both an
agent may be missing, which makes the call fall back at once, as a resource error
would.
`MaxTasks` 5 and `MaxDuration` 3 of `TaskMetrics` bound its counters only.

For the protocol, two sockets after the first are enough for a reconnection that
is itself interrupted, and there is a third for one after that; two messages of
each end let one be acknowledged while another is not. For the connections
`MaxAttempts` 0 stands for the last attempt, which is where giving up is decided.
`Long` and `Recent` of the graph engine are 2 instead of 20 and 10: what matters
is an entry before, at and after the limit. The graph that is given to the engine
(`Given`) has a node already; one relationship is enough, since each is told,
counted and removed by itself. The graphs that can be imported (`Texts`) are one of
an earlier export and whatever the store holds. `MaxInFlight` 2 lets any two
operations of an adapter overlap. Five acts on a text file are, say, two edits, a
save, an undo and a foreign write; the steps of saves and readings are not
counted. The values of storage items matter only as equal or different: one value
and its absence.

All runs switch deadlock checking off: callers may stop calling, and the system
is then at rest. That calls do end is what the liveness properties say.

**Fairness.** Weak fairness is assumed of resumption alone: a method whose
awaited promise has resolved continues, a timer fires, and an agent's own work,
a finite chain of promises, ends. The event loop provides the first two; the
third is a property of the shipped agents, whose work is generation from
templates. For the editor's components it is also assumed that a timer that is armed fires,
that what a live socket accepted arrives, and that the file service, the database
and a save participant answer, with success or not; for the conversation, that
the stream of a service ends. Nothing is assumed of sockets (they may break as
long as the bound on mishaps allows), of users, or of other programs. Nothing is
assumed of callers either: no call has to be made, no agent has to be registered
by hand, no graph has to be imported. Every assumption is weak fairness of one
process's own next step (`AgentContinues`,
`WorkContinues`, `SaveSteps`, `ReadSteps`).

## Proofs

| Theorem | Establishes |
|---|---|
| `AgentRuntimeProofs!AgentTypeCorrect`, `AgentsHoldNoGhosts` | `AgentTypeOK`, `NoGhostTasks` of the agents on their own |
| `AgentRuntimeProofs!RuntimeDrivesItsAgents` | the runtime implements the agents: `[][AgentNext]_agentVars` |
| `AgentRuntimeProofs!RuntimeEntriesAreAlive` | `EntriesAreAlive`, from `TypeCorrect`, `RuntimeHoldsNoGhosts` and `ActiveOwnership` |
| `AgentRuntimeProofs!StreamFaithful`, `BestAgent` | `StreamTellsActive`, `BestAgentRunsTask` |
| `AgentRuntimeProofs!RuntimeStatus`, `NobodyIsDropped`, `EndsAreReported` | `StatusTellsTheWork`, `NoOrphanAgent`, `EndReportedOnce` |
| `AgentRuntimeProofs!AnswersStayApart`, `ConversationsAreShown` | `StreamsStayApart`, `ViewsAreFaithful` |
| `AgentRuntimeProofs!AveragesAreSound` | `AverageIsSound` |
| `AgentCoordinatorProofs!CoordinatorMemory` | `MemoryIsConsistent`, from `CoordinatorTypeCorrect` and `GraphRelationships` |
| `AgentCoordinatorProofs!StepsInOrder`, `RetriesAreBounded` | `SequenceFollowsItsSteps`, `RecoveryIsBounded` |
| `AgentCoordinatorProofs!HistoryIsRecorded`, `EndingAnswers` | `HistoryIsFaithful`, `EndingAnswersEndTheCall` |
| `StorageProofs!AnswersAreFresh` | `AnswerIsFresh`, with `DelayerTypeCorrect` |
| `StorageProofs!StorageDrivesItsDelayer` | the storage implements `DelayerSpec` |
| `StorageProofs!DatabaseFollows`, `ClosedIsKept`, `StorageAnswersAreFresh` | `DatabaseFollowsTheCache`, `ClosedHoldsCache`, and `AnswerIsFresh` of the storage's delayer |
| `GraphStoreProofs!SavedGraphsAreKept`, `LoadsAreFreshAndGood` | `AckedIsKept`, `LoadsAreGood`, both from `StoreInv` |
| `GraphEngineProofs!GraphIsWhole`, `SubscribersFollow`, `ConversationsAreRecorded` | `GraphIsConsistent`, `StreamTellsTheGraph`, `ConversationIsRecorded` |
| `PersistentProtocolProofs!ProtocolIsAChannel` | `ImplementsChannel`: the protocol implements the channel |
| `PersistentProtocolProofs!ProtocolMissesNothing`, `ProtocolTimersAreArmed` | `NothingIsMissing`, `NothingWaitsUnarmed`, from `BooksAndStreams` |
| `EditorProcessesProofs!SessionsFit`, `WindowsAgreeAlways` | `SessionsFitTheirClients`, `WindowsAgree` |
| `TextFileModelProofs!TextSaves`, `CleanShowsTheFile`, `SavesAreNotLost` | `SavesAreConsistent`, `CleanIsSaved`, `SavesAreAttempted` |

They hold for any agents, calls, ids, plans, answers and bounds that satisfy the
assumptions the modules state about their constants (`AgentAssumption`,
`RuntimeAssumption`, `NoCallAssumption`, `MetricsAssumption`, `ConversationAssumption`,
`CoordinatorAssumption`, `DelayerAssumption`, `StorageAssumption`, `SharedAssumption`,
`GraphAssumption`, `StoreAssumption`, `ProtocolAssumption`, `ConnectionAssumption`,
`TextFileAssumption`), which TLC evaluates in every run.
The one that carries weight is in `RuntimeAssumption`: `agentConfigs` lists the
agents by descending priority.

- **No ghosts.** `NoGhostTasks` is not inductive: an agent that does not track
  its tasks could hold an entry that nobody removes at the end. `TrackingInv`
  adds that such an agent has none. For the runtime, `AgentsMove` shows that
  every step of the runtime is a step or a stutter of the agents
  (`[AgentNext]_agentVars`), so their invariant carries over: the runtime
  implements the agents' specification (`RuntimeDrivesItsAgents`), beginning
  where the constructor has called `initialize()` of the first agent.
- **The stream.** `AppendedEvent` says how one more event changes whose
  `started` event is the last one; with it `StreamTellsActive` is inductive
  together with `TypeOK`.
- **The best agent.** `RegistrationInv` says that, until a shutdown, the map
  holds exactly the agents the registration loop has passed; the first of the
  list are the best (`FirstAgentsAreBest`).
- **The status.** `StatusInv` adds that a call that has not settled has no outcome
  and that an agent that tracks no tasks reports none. At an end the finite set of
  answered calls gains one element as the agent's table loses one, and so the
  counters move with them.
- **The shutdown.** `MapInv`: whoever iterates over the map leaves no agent open
  behind him, each agent that shuts down is awaited by the `shutdown()` that
  called it, and one that runs and was dropped from the map is awaited as well
  (`DroppedIsWaitedFor`); `NoOrphanAgent` is what remains of it at the end.
- **The reports.** `ReportInv` adds that the entry of a cancelled call is gone: it
  cannot be cancelled again, and its own end is the one that may still be told.
- **The average.** `MetricsInv`: the average times the count never exceeds the sum
  of the durations and equals it while nothing fails, also before the first task.
- **The conversations.** `ConversationInv` adds whom each answer is for: every answer
  is awaited by at most one view, the context of a conversation has one message and
  one answer per sending, in order, and a complete answer has arrived (`Arrived`).
  `ShowsAll` relates what a view shows to what it was told: one more message is
  either the next place of it (`OneAdded`) or adds nothing (`NothingAdded`).
- **The memory graph.** Each method of the graph has a lemma about what it returns:
  a graph, whose relationships have edges if they had (`HasEdges`), and which joins
  only steps that the histories join (`Within` `Links`). `MemoryOK` says this of the graph
  and of the exported one, which changes with it as long as nodes are shared
  (`SavedFollows`) and comes back with an import; `stale` says of either when its
  nodes and edges may disagree. `MemoryInv` adds that a call under way has a target.
- **The calls.** `SequenceInv` and `RecoveryInv` speak of one call: where in its
  plan or its attempts it stands, and what its results rest on. `OthersKeepCall`
  shows that no step of anybody else changes its variables. What is shared, the
  graph, decides how an answer is recorded and reported, never what runs next.
- **The history of workflows.** Until an import the graph only grows, so that a
  recorded history stays a path in it (`PathsInv`) and no recording throws; hence
  the steps of the history and the ended runs grow together. `CountInv` adds that
  the runs are finitely many, so that they can be counted. `EndingsInv`: until
  an import, an answer that ends a call is that of its last run and what the call
  resolves to.
- **The storage.** `StorageMovesDelayer` shows that the storage takes only steps
  of its delayer (`StorageDrivesItsDelayer`), so that `AnswersAreFresh` carries over. `StorageInv` adds that
  calls are served in their order, and `Moments`: there are two calls n and m, n
  no later than m, such that the database is the cache as n left it, the update
  under way makes it the cache of m, and no call answered by then came later.
- **The shared storage.** `SharedInv` says what is under way: the last message that
  tells a window a key tells what the main process holds, unless the key is noted to
  be told; a window that holds another value has sent it; and a key that was written
  has the last value of a writer or will get another.
- **The graph engine.** `GraphInv`: of the graph and of the saved one (`Whole`,
  `Loadable`), what is there was made before, a relationship after its ends (a node
  made later would otherwise revive one that a subscriber has dropped), ends that are
  missing are `loose`, and the numbers are counted once an operation has done so;
  and the current conversation is a node of the graph until something is forgotten
  (`CurrentIsThere`). Each operation has a lemma about the graph and the subscriber
  together. `Recorded` adds that only nodes of conversations hold messages, also in
  the saved graph, so that no other removal loses an entry.
- **The graph store.** `StoreInv`: whatever a key holds is no older than what was
  acknowledged of that graph (`NewestInKey`), so that a copy may replace an earlier
  one; and a part for each adapter. IndexedDB serves its requests and commits in
  order, so what was acknowledged is under its key (`IndexedHolds`), what was put is
  the newest (`PutsInOrder`), and a load that waits has a put or a graph before it
  that is as new as what it was promised, and no deletion between (`LoadsAreReady`).
  Of a file, at most one save is under way unless saves overlapped (`SavesApart`),
  and one that has copied made the copy of what was acknowledged, unless that has
  been put at risk (`SavesAreOK`). localStorage does all in one step, so that what was
  acknowledged is safe in every state (`Safe`).
- **The protocol.** The books: the queue of an end holds exactly the messages
  after the acknowledged one, what was handed over is the beginning of what the
  other end numbered, and all that is written, wherever it is now, is genuine.
  The sockets: which of them can still carry anything. The streams, as long as
  none swallows a message: what will reach an end has no gap, and is complete
  once both ends are on the same socket, since a reconnection replays the queue.
  `BooksAndStreams` is their conjunction; the refinement needs only the books,
  and that every step hands over in order or leaves `sent` and `delivered` alone.
- **The remote sessions.** The numbers of the sockets carry the argument (`made`
  counts them): a client has only its latest socket open, the server knows of
  none that is later, and an "ok" on an open latest socket means that the
  session has moved there, or that the socket is on its way to a host or the host
  is ending (`AnswersAreKept`). The server forgets no host that lives
  (`HostsHaveSessions`). A failure that is fatal has
  reached every connection (`FailureReachesAll`).
- **The text file.** `TextFileInv` is `SafeInv` and `HistoryInv`. The first holds
  whatever coincides: the sequentializer is idle, or its one task is that of the
  only save (`Sequential`), and a save that waits is for a later version, so that
  an end that is told twice finds nothing to end. The second holds until one of
  the coincidences of the findings (`coincided`): no reading that will be used
  overlaps a save (`Apart`), what is written and read belongs together
  (`WritesItsText`, `ReadsTheFile`; a soft revert of a dirty model is one of the
  coincidences, since afterwards they do not), and the saved state on the undo stack has the
  text of the file (`InStep`).

Each inductive invariant was checked with TLC before it was proved.

Every safety property of the runs is stated by a theorem. Only model-checked are
the liveness properties, since reasoning from fairness and ENABLED is beyond the
prover.

## Findings

Where the code does something its comments, types or tests speak against. The
models reproduce it, and the properties are stated around it.

- `shutdown()` ("Shutdown all agents") iterates over the agents that are there:
  one that is registered afterwards runs on (`AgentRuntime.ts:459`). And
  `cancelTask()` tells neither the agent nor the pending `executeTask`, so that a
  cancelled task is published as completed later (`:476`): `EndReportedOnce`
  allows for one cancellation before the end.
- Of two `executeTask` calls with one id, the first to return deletes the entry of
  the other in `activeTasks` (`AgentRuntime.ts:388`), which then runs on unlisted.
- A failed task leaves the count alone and bends `averageTaskDuration`, which is
  no mean afterwards (`BaseAgentImpl.ts:161`).
- After an import in the middle of a workflow the next step cannot be linked
  ("Link to previous step if exists"), and its success is recorded a second time,
  as a failure (`MemoryGraph.ts:172`): `HistoryTellsRuns` allows for it. Steps of
  one request that start in the same millisecond share a node (`:151`).
- `export()` ("Export graph data for persistence") returns the live nodes: kept in
  memory and imported after further steps, they bring back relationships without
  an edge (`MemoryGraph.ts:490`, `:506`). Nothing removes or notices these:
  "Verify all node relationships have corresponding edges" (`:458`) looks for the
  nodes only.
- The server tells the client of an extension host ok before the host gets the
  socket, and accepts reconnections until the process has exited: a host whose
  grace time ends in between leaves its client connected to nobody
  (`remoteExtensionHostAgentServer.ts:609`, `extensionHostConnection.ts:220`,
  `:353`). If the socket cannot be handed over, nobody closes it.
- A remote connection that has given up begins again when its socket times out
  later (`remoteAgentConnection.ts:991`), and one that is disposed during its
  sleep reconnects (`:864`).
- `clearGraph()` and `loadGraph()` tell subscribers of `changes$` nothing
  (`engine.ts:454`, `:196`), nor the recorder, which goes on with the node it had.
  `addRelationship` and `updateRelationship` accept ends that are not in the graph
  (`:321`, `:343`), which the recorder may pass them (`runtime.ts:148`). An engine
  made with a graph reports no nodes and relationships until the first change
  (`engine.ts:40`). After the current conversation's node is removed, entries do not reach the graph and
  intents hang on a missing node (`runtime.ts:69`, `:121`).
- Graphs with dates that were saved to files or localStorage do not pass the
  schema when they are loaded (`fileSystem.ts:135`, `localStorage.ts:61`);
  IndexedDB refuses to import what it exported (`indexedDB.ts:256`) and prunes its
  backups through an index that is never created (`:110`).
- What was acknowledged can be lost. Of a file: a copy that fails is only logged
  ("Continue with save even if backup fails") and the file is emptied all the same
  (`fileSystem.ts:68`, `:78`); an overlapping save can copy a half-written file over
  the last good backup; and two copies within a millisecond have one name (`:62`,
  also `localStorage.ts:29`). In IndexedDB: the answer is given before the
  transaction commits, which may still abort (`indexedDB.ts:143`). In localStorage:
  an import overwrites the one place without a copy, also with another graph
  (`localStorage.ts:134`).
- A queued run of the throttler that fails answers nobody (`async.ts:322`):
  a storage whose last flush is left to it never closes. `whenFlushed()` answers
  at once while an update is still under way (`storage.ts:409`).
- A conversation selected from the history is not shown: no effect depends on
  the reference that holds it (`ConversationInterface.tsx:250`). A message of the
  old conversation that arrives after a new chat began is shown in it (`:64`,
  `:119`): `ViewsAreFaithful` speaks of the messages of a view's own conversation.
- A text file can be clean and yet differ from the disk: after an undo to the
  saved version whose successor is being written (`textFileEditorModel.ts:709`,
  `:1102`), after a revert that meets a save or an edit (`:306`), after a reload
  that meets a save of the same version (`:543`), and after a foreign write
  between two steps of the file service (`fileService.ts:672`). So it is after a
  soft revert of a dirty model (`textFileEditorModel.ts:308`), which is intended: the
  test 'Revert (soft)' asserts it (`textFileEditorModel.test.ts:614`). A save can be
  dropped while another's participants run (`textFileEditorModel.ts:867`).

## Not modelled

- In the modelled files of the agents: the LLM pass-throughs of
  `AgentRuntime.ts`; pattern search, queries and statistics of
  `MemoryGraph.ts`, which change no node or edge; `cancelWorkflow` and
  `getWorkflowStatus`, whose table is never filled; hooks `onInitialize` and
  `onShutdown` that reject, which no shipped agent's do.
- In the memory graph: queries, contexts and prompts; `listGraphs`, and the
  deletion of files and local entries; `setAutosave`, which turns the timer on and
  off.
- In the editor's files: the cutting of the byte stream into frames
  (`ProtocolReader`) and the load estimator of `ipc.net.ts` and its
  request/response layer; the start of an extension host, the named pipe it has on
  Windows, and how a workbench ends it (here it only fails); authentication, tunnels and first connections; the
  integrity check and the fallback when a database is opened; profiles and
  scopes of the shared storage; backups, deleted and read-only files,
  encodings, save-as and the disposal of models of text files.
- What the concrete agents generate, the settings object, the views, the
  desktop shell and the landing page: text, data and rendering without a
  protocol.
- The LLM clients and the provisioning services: network I/O.
- Usage, quota and the webhooks of the control panel: they reach Firestore
  through `getAdminApp().firestore()`, which the app objects of
  `firebase-admin/app` do not have, so that as wired every call ends in its
  `catch` block. `BillingService` and the other webhook depend on Stripe's order
  of delivery, about which the repository says nothing. `AgentTaskService` runs
  on a mock runtime that emits nothing. `PROJECT.json` lists them as components,
  with these reasons.
- `asyncUtils.ts` of aide-core: wrappers without state; `withRetry` has no
  caller.
- The rest of the editor: upstream code.

## Plan

Done: the modules above. Left, by worth:

1. The request/response layer of `ipc.ts` over `MessageChannel`; backups of
   working copies and hot exit over `TextFileModel`; the server processes of
   aide-core.
