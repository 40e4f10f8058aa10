# TLA+ verification of the Claude Code proxy and messaging bot

The repository holds a proxy (`src/proxy`) that serves the Anthropic API from
other model providers, and a messaging bot in the same process that runs the
Claude Code CLI for Telegram and Discord users. This directory models its
stateful core in TLA+, checks it with TLC and proves its main safety
properties with TLAPS.

    tlc -workers 2 -config TreeQueueReply.cfg MCTreeQueue   # a model-checking run
    tlapm TreeQueueProofs.tla                               # a proof module

`PROJECT.json` lists the runs, the code lines behind every definition, the
hazards and the properties that cover them, and the theorems.

## 1. Inventory

Almost everything runs on **one asyncio event loop**: code between two
suspension points is atomic. The exceptions are the session store's
`threading.Timer` threads, the CLI subprocesses and, outside the process, the
chat services and model providers.

| Component | State | Operations | What makes it correct |
|---|---|---|---|
| Conversation trees (`messaging/trees`) | nodes with state and parent; the tree's queue, `is_processing`, current node and task; node-to-tree index | add a reply, enqueue or start, run a node's task, start the next one, cancel a node, branch or tree, remove a branch | one task at a time, arrival order, parent first, cancelled stays cancelled, every message is served, both ids of a node lead to it |
| Message handler (`messaging/handler.py`, `commands.py`) | none of its own but suspended coroutines | `handle_message`, `_process_node_impl`, `/stop`, `/clear`, error propagation | what it read before a suspension may be stale after it |
| Session store (`messaging/session.py`) | trees, mapping, message log and its id set; dirty flag, timer; the JSON file | save, register, remove, record, clear, flush, timer callback, load | no change is lost, the file catches up, it holds what the manager holds |
| Outgoing limiter (`messaging/limiter.py`) | key list and task map, futures, flood wait, window, worker | enqueue, fire_and_forget with retries, worker loop, shutdown | no future is forgotten or left unresolved, flood wait respected, newest text is shown |
| Provider limiter (`providers/rate_limit.py`) | grant times, reactive block, semaphore | proactive slot, block, concurrency slot, retry of 429s | window never exceeded, slots neither lost nor invented, bounded calls |
| Upstream streaming (`providers/openai_compat.py`, `sse_builder.py`, parsers) | open blocks and their indices, parser buffers, tool-call accumulators | one step per chunk, flush, error, end | blocks opened, filled and closed in order, no text lost or duplicated |
| Native providers (`lmstudio`, `llamacpp`) | none but the HTTP stream | pass SSE lines on | their use of the limiter |
| Message conversion (`message_converter.py`) | none (pure) | Anthropic to OpenAI messages | pairing of tool calls and results |
| CLI sessions (`cli/`) | pending and real sessions, id maps, lock; a process each; the registry of pids | get or create, register the real id, remove, stop all, start, stop, kill at exit | every process in reach of a stop, sessions released, none survives |
| Chunk parsers (`think_parser.py`, `heuristic_tool_parser.py`) | a buffer and a state each | feed a chunk, flush | the same result for every cut of the text into chunks |
| Event parser, transcript, rendering | transcript segments, open blocks, subagent stack | append an event, render within a limit | subagents quiet, main agent heard, blocks apart, newest text shown |
| Chat platforms (`messaging/platforms`) | connection, pending voice notes | receive, transcribe, send with retries, cancel a voice note | a cancelled voice note is not run |
| HTTP API, request optimisations, configuration | provider cache | routes, lifespan start and shutdown | shutdown order |
| Launchers (`bin`, `mac`, shell) | a running proxy and its port | start it if it does not run | one proxy |

How they interact: a platform callback calls `handle_message`; the handler
adds a node to a tree, saves the tree in the store and starts or queues it;
the node's task gets a CLI session from the manager and turns CLI events into
edits that go through the outgoing limiter; the CLI talks to the proxy's HTTP
API, whose provider streams take slots of the provider limiter. `/stop` and
`/clear` reach into all of these at any suspension point. At start the trees
are restored from the store's file; at shutdown it is flushed first, and
platform, CLI manager, provider and limiter are stopped after.

The behaviours that are hard: cancelling tasks (a task that has not had its
first step dies without its `finally`), values read before a suspension and
used after it, timer threads beside the event loop, writes outside a lock,
retries that race newer requests, limits at their boundaries, and restarts.
`PROJECT.json` "hazards" lists them, each at its line.

## 2. Modules

| Module | Models | Its state |
|---|---|---|
| `SerialQueue` | what is promised of one conversation (abstract) | the messages as they arrived, the one being served, those that are over |
| `TreeQueue` | one conversation: tree, processor, manager, and the handler's use of them; implements `SerialQueue` | nodes, queue, one task per node, suspended handlers |
| `Conversations` | all conversations: which message ids lead to which node, their copy in the store and its file, voice notes, `/clear`, restarts | one phase per message, trees, two indices, stored trees, file |
| `CliSessions` | the session manager with its lock, the CLI processes, the nodes' tasks that use them, the commands and which tasks they reach, the end of the server | one phase per task, maps, processes, lock queue, each tree's current task, loop |
| `SessionStore` | the store, its timer threads and the file | contents, one phase per thread, file |
| `MessagingLimiter` | the outgoing limiter, its worker and its callers | queue, map, worker, one phase per request |
| `ProviderRateLimit` | `GlobalRateLimiter` and the streams that use it | clock, window, block, semaphore, one phase per stream |
| `SseProtocol` | what a client is promised of a streamed message (abstract) | blocks by index, message phase |
| `SseStream` | one OpenAI-compatible stream turned into Anthropic events; implements `SseProtocol` | SSE builder, events to be yielded, client's blocks |
| `TextReading` | what a streamed text means, and what the client is promised of it (abstract) | the text, what was sent, whose turn it is |
| `StreamText` | the two text parsers that cut what `SseStream` receives | the text left, two parsers, what was sent |
| `Transcript` | the CLI with its subagents, `TranscriptBuffer` and `render` | running Tasks, segments, open blocks, stack |
| `MC...` | the same for TLC: symmetry and inputs | |
| `...Proofs` | the theorems about the module of that name; those about `SerialQueue` are in `TreeQueueProofs`, those about `SseProtocol` and `StreamText` in `SseStreamProofs` | |

How they meet: `TreeQueue` takes from `CliSessions` that a cancelled task first
stops its CLI and then removes its session; `Conversations` leaves the running of
nodes to `TreeQueue` and keeps only which are still `active`; `SessionStore` sees
of `Conversations` that trees change; `SseStream` takes the parts of an answer in any
order, and `StreamText` says which parts a text can become. Each pair shares
little state, and the interesting interleavings are within one of them, so they
are not multiplied into one state space.

Operators marked "wrong variant" are deliberate bugs of one definition, used
only to see that the properties notice them.

### TreeQueue and SerialQueue

A step is the code between two suspension points. Those are: the sending of
a reply's status message (`inflight`); a task that is created and has not run
(`ready`); the CLI running (`running`, or `adrift` when its tree is gone); the
shielded stop of the CLI after a cancellation (`unwinding`); the removal of
the session (`closing`); the deletion of chat messages by `/clear`
(`clearing`, `resetting`). The sections under the tree's lock never suspend
and are single steps. `Init` is the moment after the first message of the
conversation was handled, whose coroutine does not suspend between
`create_tree` and the creation of the task.

`ReceiveReply`/`AddReply`/`DropReply` are the two halves of `handle_message`;
`TaskSkip`/`TaskStart`, the `Cli...` actions, `TaskUnwound` and `TaskFinish`
are `process_node` with the handler's `_process_node_impl`; `ProcessNext` is
`_process_next`; the commands are `StopAll`, `StopTask`, `ClearBranch` and
`RemoveBranch`, `ClearAll` and `ReplaceManager`. A CLI that a `stop_all` kills
under a task is a `CliFail`. Replies are concurrent, as they are on
Discord; Telegram's sequential updates are a subset of these behaviours.
Trees do not share state, so that one is modelled; `/stop` and the global
`/clear` go through the trees one by one.

`SerialQueue` is the promise of `handler.py:111` ("Per-tree queue ensures ordered
processing"): the oldest message that is left is served, one at a time, and one that is over is
not served again. `ServesInTurn` is that `TreeQueue` implements it. Its line is
`arrivals`, every message that came to `enqueue_and_start`; `Serving` is the node with a live task;
`Over` has those whose task is done or dead, and those that failed or were removed
before. A node whose task `process_node` will only skip, because it is already ERROR,
is over as well (`Skipped`), which makes the end of one task and the cancellation of the next
steps of different kinds: `Serve` and `Leave`. The promise does not hold under the global commands, which
`tree_queue_overlap` shows, and the run and the theorem are without them.

### Conversations

A node is a message; an id is a message with `"node"` or `"status"`. The two
indices (`nodeToTree` of the current manager, `storedMap` of the store) are
functions from ids to roots. A handler suspends where it sends the status
message (`sending`), edits it to announce the place in the queue
(`announcing`), transcribes a voice note (`transcribing`) and edits the note's
status (`editing`); `Proceed` is everything after the first of these. A tree
object outlives its removal, since tasks and handlers hold on to it:
`members` keeps it, `known` says whether the manager does. `ClearReply` and
`FinishClear` are the two halves of a `/clear` on a message, around the deletion
of chat messages; `ClearAll` and `FinishClearAll` those of a `/clear` of
everything, which replaces the manager. `SaveFile` is the store's timer at any
moment (how it gets there is `SessionStore`), `Restart` rebuilds everything from
the file. `overtaken` are the messages whose tasks run on while their manager
is replaced.

### CliSessions

`phase` says at which `await` each node's task is; `holder` and `waiters` are
the manager's `asyncio.Lock`, first come first served. A free lock is taken
without suspending, so only `remove_session` and `stop_all` of a living process hold
it over steps. `task.cancel()` (`StopTask`, `StopAllTasks`, `LoopEnds`) and the arrival
of the `CancelledError` (`CancelArrives`) are separate steps. `NextVictim` is
the loop of `stop_all`. `Spawned`, `ReportSession`, `EndOfOutput`, `SpawnFails`
and `HandlerFails` are the ways the generator of `start_task` goes on; one
that the handler leaves suspended is `abandoned` until the loop closes it.
`ProcessExits` is the CLI, `Kill` the five-second timeout of `stop`. The end of the
server is `Shutdown`, `ShutdownTimeout`, `LoopEnds`, `LoopCloses`, `Exit`.

`cancel_all` cancels `_current_task` of each tree in the present repository, and no
other task (`Reached`); whatever else these trees have under way is only marked ERROR
(`CancelAll`). So the model has as much of the trees as decides that: the `tree` of each
task, the trees that are `known`, those that are `busy`, and the `current` task of each.
`/stop` frees a tree whose task is still on its way out; a reply then
takes its place in `current`, and the older task is beyond reach, as in
`tree_queue_overlap`. The end of a global `/clear` (`ReplaceTrees`) puts a manager in place that knows
no tree, so that the tasks created since its `stop_all` are beyond reach, too. A
`Command` may be given again and again; those of `Clear` are `/clear`,
which begins like `/stop`. How a `/clear` in reply to a message cancels is `StopTask` for each node; what it
removes is in `TreeQueue` and `Conversations`. When the bot stops to
serve, the trees are forgotten (`ForgetTrees`): no command comes any more, and any
task may have a next one.

The model keeps three histories of what the code lets slip, and the properties
except exactly those: `cut`, nodes whose `stop()` was itself cancelled
half way; `missed`, nodes whose process was being started when a `stop_all` emptied
the maps; and `unreached`, nodes that were opening their session when a
`cancel_all` passed them by. While the bot serves, a missed process is lost only if its task
is also unreached: every other one is cancelled, which kills it.

### ProviderRateLimit

`AcquireSlot` is one pass of `_acquire_proactive_slot`'s loop under its lock; `TakeSlot` and
`Release` are the semaphore, first come first served, `waiters` those it has not let in yet. A stream
`SleepUntil` a time and may wake later than that (`WakeForWindow`, `WakeForRetry`). The
outcomes of an upstream call are `CallSucceeds`, `RetryLater` for a 429 (which blocks
everybody), `RetryDowngraded` for the one retry of NIM without its extra parameters, and `Fail`. `Disconnect` is a
client that goes away at any of these suspensions.

### SessionStore

Each section under the store's lock is one step, by the event loop's thread
(`Main`) or by a timer's. Writing is not under the lock: `OpenFile` truncates,
`CloseFile` puts the content there. Two threads that write at once overlay
each other from the start of the file: the longer content shows alone, or
the file cannot be parsed, which `_load` turns into an empty store; the model
lets either happen. `disk` is what `_load` would make of the file. `Restart`
covers a crash and a normal exit, at any moment, with the cleanup of
unsettled nodes that syncs the restored trees back.

### MessagingLimiter

Time limits are counted down, so that no bound on the clock is needed and the
state space is finite. `Enqueue` is the compaction; `TakeTask`, `PauseOver`,
`Acquire`, `SendSucceeds` and `SendFails` are the worker; `Retry` is the loop
of `fire_and_forget`; `CancelCaller` a cancelled `enqueue`; `Shutdown` cancels
the worker wherever it waits. An error's text decides whether it is a flood
and whether it looks transient; the model tries both for each. How long a flood error
asks to wait (`Asked`) is one thing, and what the worker makes of it another
(`FloodError`): it reads `e.seconds`, or the number after "after " in the text, and takes
`DefaultWait` (30 s in the code) when it finds neither. `owed` is what is left of a
wait that it has read, a history beside the code's own `pause`; only the
window's wait, the retries and time itself could make the two disagree, and `PauseRespected` says
that they do not. Of a wait that is not read nothing is promised (section 6).

### SseStream and SseProtocol

`sse` is the `SSEBuilder` with its block manager; the operators on it are the
builder's methods, each giving the builder after the call, and `out` collects
the events that the generator is going to yield. What the generator does with
one part of a chunk is a step (`ReceiveThinking`, `ReceiveText`,
`ReceiveTextualToolCall`, `ReceiveToolCall`), since nobody else sees its state; every yield is
another (`Read`), at which the client may leave for good (`Disconnect`).
`UpstreamFails` is the `except` clause, `Finish` everything after the stream.
The results of the two text parsers come in any order.
JSON arguments come in halves, or as a list, which makes `buffer_task_args`
raise; names come whole, repeated, growing or in fragments. One thing is assumed of them
(`TaskAssumption`): no other tool's name goes on where `Task` ends, at a place where
an upstream cuts it. Such a tool would be announced as a `Task`, and its arguments sent as they come.
The two loops over the tool calls, at the end of a stream, are recursive functions over the
places in `tools` (`FlushTool` and `StopTool` are their bodies).

`SseProtocol` says what the client may rely on; `KeepsProtocol` is that
`SseStream` implements it, with the same `blocks` and `message`. An event that
refers to a block that is not open makes `message` "broken", which
`SseProtocol` does not allow. Native tool calls stay open until the end while
text may be streamed beside them: the protocol allows that, as the code does it.

### StreamText and TextReading

A letter is a sign the parsers look for or a whole word, so that a tag has
three letters and can be cut at each. A step is one round of the loop of a parser's
`feed()`, and `turn` says who goes on. `Chunk` gives any prefix of what is left to the
think parser; `CutPiece` is a round of `ThinkTagParser.feed` that yields a piece, and
`AwaitChunk` the one that breaks out of its loop. A piece that is not thinking goes to
`FeedTool`, the rounds of `HeuristicToolParser.feed` by its state (`ScanText`,
`MatchFunction`, `TakeParam`, `EndCall`), before the first parser goes on, since
`_stream_response_impl` runs the second inside the loop over what the first yields.
`Flush` is the end of the stream. The references (`ReadText` of `TextReading`, which
`StreamText` extends, and `ReadCalls`) read the uncut text once from left to right, with
a recursive function over its letters. Not in the inputs: a bullet inside a parameter's value that is
itself cut, whitespace as a chunk of its own behind a function tag without
parameters, and a word cut inside, which the regular expressions treat like one
that is cut before it. These are texts on which the parser guesses, and guesses
differently for different chunks. So it does when the bullet of the next call is
already in the buffer when a parameter of the first is looked for; `merged`
marks those, and `CallsFound` excepts them.

### Transcript

The CLI is an environment: a main agent and the Tasks it has started, which
may nest, run side by side and end in any order, and whose ids may be missing or
longer in the result than in the call, as the comments in `transcript.py` say they
are. `StartBlock`, `Delta`, `EndBlock`, `Chunk`, `ToolUse`, `ToolResult`,
`StartTask`, `EndTask` and `ReportError` are the events with `TranscriptBuffer.apply`
for each; `Render` is `render` in numbers of characters. `orderly` records that every result so far has
closed what it is the result of; a subagent that ends while a later
one runs takes the later one off the stack as well, and its texts are then shown
as if the main agent had said them, which the code accepts
("defensive against non-LIFO emissions"). The ids are assumed to be
apart (`ApartAssumption`): a result does not carry the id of another Task, or
one that begins like it. Ids that are numbered, `functions.Task:1` and
`functions.Task:10`, are not apart for a code that compares prefixes; see section 6.

## 3. What the runs check

Bounds are those of the `.cfg` files. One type invariant is checked, that of
`TreeQueue`; those of the other modules with proofs are part of their inductive
invariants.

| Run | Instance | Distinct states | Shows |
|---|---|---|---|
| `tree_queue_reply` | 3 messages, 3 commands out of `/stop` and `/clear` on a node, symmetric replies | 84 thousand | a serial queue (refinement of `SerialQueue`), no message run twice, a busy tree has a task that will look at its queue but for two exceptions, parent before reply, cancelled stays cancelled |
| `tree_queue_all` | 3 messages, 2 global `/stop` or `/clear`, fairness | 158 thousand | arrival order, and every message is run, failed or removed in the end |
| `conversations` | 4 messages, one of them a voice note, 2 `/clear`, any number of saves and restarts, symmetric text messages | 716 thousand | ids lead to their nodes, the store has the manager's trees, what was cleared stays away, a cancelled voice note is not run, stored trees can be rebuilt |
| `cli_sessions` | 2 nodes, in one tree or two; one user who gives the global `/clear`, whose beginning is `/stop`, any number of times; `/stop` of each node, failures at every `await`, the end of the server, fairness | 1.1 million | no process out of reach, none left by a task or after the exit, each with its exceptions; sessions released; cancelled tasks end |
| `session_store` | 1 tree of 2 nodes, 2 messages with cap 1, 3 timers, 3 changes, 1 failed write, 1 restart, fairness | 700 thousand | no lost update, dirty is scheduled, the file catches up, log and id set agree, changes are saved or their write failed |
| `messaging_limiter` | 3 requests on 2 keys, 1 retry, a flood wait of 2 that is longer than the window, or the default of 1 when it is not read, shutdown, fairness | 781 thousand | no future forgotten, newest text shown unless an older one was retried, a flood wait that was read is respected, callers end |
| `provider_limit` | 3 streams (one native), 2 slots, 2 calls per 3 ticks, 5 ticks | 2.5 million | strict window, slot accounting and nobody waiting beside a free slot, bounded upstream calls |
| `sse_stream` | 3 parts, 2 tool indices and an unknown one, names `Task` (in two fragments) and `Read`, every end, fairness | 583 thousand | the block protocol (refinement of `SseProtocol`), arguments reach their own block complete and in order, Task arguments are sent once and patched, every message ends |
| `stream_text` | every text of up to 3 out of 8 phrases, in every sequence of chunks | 74 thousand | thinking and text told apart, every textual call found with its parameters |
| `transcript` | 6 events, 2 subagents, exact, prefixed and missing ids, 1 index | 1.5 million | subagents quiet, main agent heard again, blocks apart, the newest text shown within the limit |
| `tree_queue_overlap`, `tree_queue_stuck` | the smallest instance that shows it | | the disagreements of section 6 |

Why these bounds are enough to be interesting. Three messages of one tree
give a parent, its reply and either a sibling or a grandchild, so a queue with
two waiting nodes behind a running one; the third command in
`tree_queue_reply` can hit a node whose cancellation is still going on. Four
messages of `conversations` give two trees, one with a branch to be cleared under
a reply that is still being handled; the second `/clear` can meet what the first has
not yet deleted, and the voice note can be cancelled, cleared, or reply into any of
them. Two tasks in `cli_sessions` make one wait for the manager's lock while
the other's process is stopped under it, one displace the other as its tree's current
task, and one outlive the other's tree after a `/clear`; both exceptions of
`EveryProcessInReach` do occur. The lifespan's `stop_all` is a second
one beside the user's. Three streams on two slots make one wait and allow
hand-overs; five ticks cover a full window, a block and a retry. Three timers
are one that is writing, one whose reference was wiped and one newly armed;
log cap 1 is reached by the second message. Three requests on two keys merge,
overtake and retry. Three phrases are a call between two others, or a tag around
one. Six events are two nested or parallel subagents, begun and ended, with two
texts in between.

The two liveness runs with `/stop` and `/clear` differ on purpose: the
message-by-message commands can leave the tree stuck (`tree_queue_stuck`), the
global ones cannot (`tree_queue_all`).

**Fairness.** *TreeQueue*: the event loop runs every runnable task,
`CLISession.stop` kills a process that has not ended after five seconds, and a
CLI process is assumed to exit by itself in the end; nothing is assumed of
users. *CliSessions*: weak fairness of `LoopStep` as a whole: the steps of tasks that are on
their way out, the turns at the manager's lock and the five-second timeout. The
loop does not rest while one of them is ready.
That is weaker than fairness of each task and enough, because every
task takes finitely many such steps; none is assumed of a CLI that nobody stops (it may run for
ever, and ignore SIGTERM), of users, who may repeat their commands for ever, or of failures.
`StoppedTasksEnd` says accordingly that again and again no task is left that was cancelled or is
on its way out; a task that was only marked ERROR may go on. *SessionStore*: a timer's wait
ends, its thread gets the lock, a write ends; no fairness of failures or restarts.
*MessagingLimiter*: the worker runs when it can, time goes on, and a send ends with a
result or an error (which the HTTP clients' timeouts give); no fairness of
shutdown. *SseStream*: the client reads what is yielded or leaves, and the
upstream goes on or ends, by its read timeout if nothing else. The other
modules have no liveness property: *ProviderRateLimit* has a bounded clock,
*Conversations* may lose anything to a crash, and *StreamText* and *Transcript* are
about results. Deadlock is not checked: every instance really stops when its messages,
commands, changes or events are used up.

## 4. What is proved

For all values of the constants, under their `ASSUME`s (finite sets of ids,
positive limits, distinguished values outside the sets):

| Theorem | Says | Argument |
|---|---|---|
| `TypeCorrect` | `TypeOK` of `TreeQueue` | inductive; `Without`, defined by what it keeps, needs `WithoutIsSubqueue` to be a sequence |
| `IdleTreeHasEmptyQueue` | `IdleMeansEmptyQueue`: a free tree has an empty queue | inductive with `TypeOK`: only `ProcessNext` on an empty queue and `CancelTree` free a tree |
| `QueuedOnceAndNotYetRun` | no duplicates in the queue, nothing in it has had a task | `DisciplineInv` adds that a reply still in flight is neither queued nor run; every queue change is a shrinking or the append of a new node |
| `OneTaskUnlessAllStopped` | `AtMostOneTask`: at most one live task, while nobody gives a global `/stop` or `/clear` | `SerialInv` adds that a live task means a busy tree, so `EnqueueAndStart` queues; the global commands break exactly this (`tree_queue_overlap`) |
| `CancelledForGood` | a cancelled node is never in progress or completed again, same condition | `CancelInv`: a task that can still report is the tree's current one (`CurrentInv`), and a stopped node's task no longer runs (`StoppedInv`) |
| `ParentIsOver` | a reply's task runs only when its parent's is over, same condition | `SerialInv`: parent and reply would be two live tasks; `ParentInv` says that every reply has a parent other than itself |
| `StartedInArrivalOrder` | messages run in arrival order, except cancelled or removed ones, under every command | `OrderInv` says that the queue is in the order of `arrivals` and that whatever has arrived and has no task is queued, failed or removed |
| `StuckForTwoReasonsOnly` | `BusyTreeIsAttended`, under every command: a busy tree's current node has a task that will look at the queue again, unless that task was cancelled before its first step or the head of the queue was a removed node | `PlaceInv`: a node that is current and not removed has had a task (`AttendedInv`), and one still in flight has none and is not current (`FreshInv`) |
| `ConversationIsSerialQueue` | `ServesInTurn`: `TreeQueue` without the global commands implements `SerialQueue` | step by step, from `SerialInv`, `OrderInv` and `PlaceInv`: commands and failures only make messages leave (`CancelMoves`, `MovesLeave`); the head of the queue has its turn (`HeadHasItsTurn`), because whatever came before it and is not queued is over, so `_process_next` is a `Serve` (`ProcessNextServes`); a free tree has everything behind it, so a reply that is started at once is an `ArriveAndServe` (`AddReplySerial`) |
| `RepliesFindTheirNode` | `BothIdsResolve` | `ConvInv`, below: both ids of every node of a known, stored or written tree lead to its root (`MappedInv`) |
| `StoreFollowsManager` | `StoreInStep` | `SyncInv`: a running task is in a known tree, or was overtaken together with all of its tree |
| `ClearedIsGone` | `ClearedStaysCleared` | `CleanInv`, for the manager, the store and the file as of its writing |
| `WithdrawnNoteIsNotRun` | `WithdrawnNeverRuns` | `VoiceInv`: a withdrawn note is no longer pending, and only a pending one goes on |
| `StoredTreesAreWhole` | `StoredTreesRebuild` | `WholeInv`: a root replies to nothing, and the manager's, the store's and the file's trees are closed under parents; `AncestorsClosed`: the ancestors of a message are the least set that has it and the parent of each of its members, since a climb of as many steps as there are messages has come to its end (`ClimbEnds`, by counting), so what stays replies to nothing that goes (`BranchEffect`) |
| `DoneMeansReleased` | `SessionsReleased` | `SessionInv`: in each phase, where the session may be; it is kept under the real id only if the handler has captured that id, and under the temporary one only if not |
| `ProcessesInReach`, `NothingLeftRunning`, `ExitLeavesNothing` | `EveryProcessInReach`, `NoOrphan`, `ExitKills` | one invariant, `SessionsInvariant`: who holds the lock is stopping a process (`LockInv`); a living process is kept, being stopped, cut short or missed (`ProcInv`); while the bot serves, every task ahead of a `/stop` in the lock's queue is cancelled or was not reached by its `cancel_all`, so a process is missed only with its task cancelled, which kills it, or not reached (`ServeInv`); who was not reached stays so (`UnreachedStays`); once the loop ends, no `stop_all` is left (`EndInv`) |
| `FuturesKept` | `NoFutureForgotten` | `LimiterInv`: the queue names each key of the map once, the worker holds a task exactly from taking it to the end of its send, and each future is in one place |
| `LatestShown` | `LatestIsShownUnlessRetried` | `LatestInv`: unless a request for the key was retried, the map holds its newest one or none, and whatever is older than that is followed by it |
| `FloodWaitKept` | `PauseRespected`, an action property | `PauseInv`: the pause is never shorter than the wait that was read, the worker leaves it only when it is over, and nothing but its own send starts another |
| `WindowNeverExceeded` | at most `Rate` grants in any window | `WindowInv` says that `requestTimes` is the suffix of all grants and that what was dropped is older than a window |
| `SlotsAreConserved` | `SlotAccounting` | `SlotInv` adds that no stream waits twice; each hand-over of a slot is counted by the cardinality of the holders |
| `CallsAreBounded` | `CallsBounded` | `CallsInv`: a stream has called at most once for each attempt it has begun, and in its downgraded part as often as the first was allowed |
| `ChangesAreNotLost`, `DirtyStoreIsScheduled`, `FileCatchesUp` | the three safety properties of the store | `StoreInv`: only timers wait, a clean store equals the newest snapshot, a dirty one has a waiting timer or a failed write, and, unless saves raced, the newest snapshot is with the one thread that saves, or in the file, or its write has failed and the store is dirty |
| `LogAndIdsAgree` | `LogIdsAgree` | `LogInv`: the same of every snapshot and of the file, since either may become the store again; a log that drops its oldest entries keeps the distinct ones |
| `StreamKeepsProtocol` | `KeepsProtocol`: `SseStream` implements `SseProtocol` | `StreamInv`, below |
| `ArgumentsReachTheirBlock`, `TaskArgumentsArePatched` | `ArgsDelivered`, `TaskArgsPatched` | `StreamInv` at the end of a message, when all events are read |
| `ThinkingIsKeptApart` | `ThinkingApart`: wherever the text is cut, what arrives as thinking is the text's thinking, and an answer without bullets and control tokens arrives in full and in order; for any text over any letters | `TextInv`, below |
| `SubagentsStayQuiet`, `MainHeardAgain` | `SubagentsQuiet`, `MainIsHeardAgain` | `TranscriptInvariant`: while results close what they belong to, the stack mirrors the Tasks that run (`Mirror`) and only the main agent is heard (`Quiet`); in any order, every entry of the stack is that of a Task of its own (`Owned`), so the stack is no longer than `running` |
| `BlocksStayApart` | `BlocksKeepApart` | `OpenForBlock`: a segment that is open for the block being streamed holds nothing of another one |
| `RenderFitsAndShowsTheEnd` | `RenderShowsTheEnd` | the type part of `TranscriptInvariant`: every segment has a length (`PartsType`), so every join of the newest parts has one (`JoinedSize`, by induction over how many), and the three ways `render` ends are compared with the greatest number of parts that fits; for any sizes (`SizeAssumption` says only that they are numbers) |

`ConvInv` is one invariant because its parts need each other: a node is in the
one tree it was added to (`PlacedInv`), so that a change of one tree disturbs no other;
`Restart` makes the file the manager and the store at once, so that everything
said of those two must also hold of the file, with the clears that it has seen.
`StreamInv` speaks of events that have not been read yet. `Pending(out, c)`
says that the events in `out`, read one after the other by the rules of the protocol
(`Takes`), bring the client from its present blocks to `c`; while the
generator goes on there is such a `c`, it has open exactly the blocks that the builder has
open (`InStep`), and what each tool call has received is in its block of `c` or in
its buffer (`Args`). Each method of the builder has a lemma: the event it yields is one that the
client of `Pending` takes, and the two are in step again. Reading takes the first event away and leaves
`c` as it was, so every step of the client is one of the protocol's; a client that leaves is
`Cut`. The loops at the end are proved by the least place at which
they would go wrong (`NatAll`, from the well-foundedness of `<`). When the message is stopped, `out`
is empty, so `c` is what the client has.

`TextInv` speaks of the reader of the uncut text. The think parser, to which the first
`q` letters have come, stands where that reader may stand (`Stands`): it has the same mode,
and its buffer is what lies between the reader's place and `q`. What was sent is
what the reader has read (`Agrees`): the same thinking, and, while nothing in the text looks
like a call or a control token, the same letters but for those the tool parser holds. The
reader is a recursive function over the letters (`ReadingOf`); that it exists, and where it is
after so many steps (`Reached`), is proved by the least step at which it would be otherwise
(`NatAll`). Three facts carry
the steps. What a round cuts off ends before the first tag of the buffer, or before the last
`<` if a tag may have begun there, so no tag of the whole text begins in it
(`ParsersCutRight`), and the reader reads it letter by letter (`LettersRead`, `PieceRead`).
When nothing is cut off, at most two letters are held, too few for a tag (`NothingCut`), so at the
end of the stream the reader reads them as they are (`LastPiece`), which is what `flush`
sends. And the tool parser sends nothing but text, and everything it has if there is neither a
bullet nor a `|` in it (`ToolSpeaks`). The theorem repeats `TextAssumption` as its
hypotheses, because `StreamText` is used there as an instance.

All the inductive invariants but `StreamInv` and `TextInv`, which quantify over runs of a
client and of a reader, were model-checked before they were proved; of those two, their
consequences were.

Only model-checked: liveness (`EveryMessageServed`, `ChangesAreSaved`,
`RequestsEnd`, `EveryMessageEnds`, `StoppedTasksEnd`), which with `ENABLED` is
beyond the prover; and `CallsFound` of `StreamText`. It holds of the phrases the run
puts together and not of every text: the parser guesses where a call ends, and a bullet or
a `<` in an unlucky place makes it guess differently for different chunks (section 2). A
theorem would have to describe those texts by the grammar of what the model is told to
write, and say more of the grammar than of the code.

## 5. Plan

Done: the twelve modules of section 2 and the theorems of section 4. Left, in this
order:

1. A description of the texts in which textual calls are found whatever the chunks, and
   `CallsFound` as a theorem about them.
2. The conversion of messages as operators checked against the pairing of tool
   calls and results.
3. Retries of the platforms' single HTTP calls; the launchers' race.

## 6. Disagreements between the code and what it says

Each is a run in which TLC violates one property.

- **Two CLIs on one conversation** (`tree_queue_overlap`, `OneCliAtATime`).
  `/stop` declares the tree free while the cancelled task still stops its CLI. A
  reply that comes now starts at once, and when the old task ends its
  `finally` starts the next queued one beside it.
- **A stuck conversation** (`tree_queue_stuck`, `EveryMessageServed`). Cancelling a
  node's task before its first step kills it without its `finally` clause; nobody
  looks at the queue any more.

What else modelling met. The models behave like the code here and the
properties are stated so that they hold beside it; none of these has a run.

- `handler.py:427`: the `complete` event that follows the error of a non-zero
  exit marks the failed node COMPLETED.
- `rate_limit.py:115`: the reactive block is looked at before the wait for the
  window and not after it, so that a call can start during a block.
- `session.py:219`: a timer thread that took its snapshot before a `/clear`
  can write it after `clear_all` has written the empty store.
- `limiter.py:290`: `fire_and_forget` retries its own text although a newer
  one was sent meanwhile.
- `handler.py:699`, "this kills subprocesses and ensures everything is dead": `stop_all`
  returns, and the user is told that all is stopped, with a process alive that was
  just being started; `CLISessionManager.stop_all` skips it and empties the maps
  (`missed`). It is killed when the cancellation reaches its task. But `cancel_all`
  reaches only the current task of each tree that the present manager knows
  (`queue_manager.py:240`, `:316`). The older of two overlapping tasks and a task whose manager
  a global `/clear` has replaced (`commands.py:278`) are not cancelled (`unreached`): their
  process is then in no map, no later command stops it, and if the handler
  fails, `remove_session` finds nothing and the process runs on without a task. It ends by
  itself, or with the server.
- `limiter.py:168`: Telegram's `RetryAfter`, which comes from the repeated call of
  `telegram.py:239`, has its seconds in `retry_after`, and its text says "Retry in N seconds". The worker
  reads `seconds` and "after N", so it always pauses for 30 s, and a longer wait is cut short.
- `transcript.py:294`: of parallel subagents, the one started first takes the
  others off the stack when it ends; and ids are compared by prefix, so the result of
  `call_10` ends a Task `call_1`.
- `heuristic_tool_parser.py:138`: the search for parameters does not stop at a
  bullet, so that two textual calls in one chunk are sent as one, with the parameters of both.
- `heuristic_tool_parser.py:53`: an incomplete control token at the very
  start of the buffer is shown; `:198`: `flush` drops text held back behind a bullet, and text
  after a call that begins with "<".
- `openai_compat.py:349`: an upstream that registers a tool call and never
  names it gets its client an empty message, without the filler.
- `openai_compat.py:124`: a tool name in fragments is announced by its first one.

## 7. Not modelled, and why

Status texts, markdown rendering, `/stats`, logging and request heuristics are
data without state that a property is about. The conversion of requests is a
pure translation, left for later. Configuration is reading of environment
variables. `TreeQueue` has one tree, because how one tree runs its nodes does not
touch another; `Conversations` has all of them. Tasks of `CliSessions` that
are created after the loop has begun to end are not waited for by it; the
model has the one that a finishing task starts, and `ExitKills` excepts it. The message
log's old formats, the statistics of the tree manager and the `front` argument of the
limiter, which nobody sets, are left out. Retries of single HTTP calls by
the platforms are not modelled, because whether a request that timed out was
delivered is not visible to the code. The launchers are shell scripts outside the
process. `PROJECT.json` "components" has the status of every part.
