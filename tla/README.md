# A TLA+ model of Midas

Midas is a coding agent for the terminal, written in Go: a chat runtime around a
model/tool loop, a terminal interface, and a set of servers (hub, vault, control)
that the agent reaches as tools. This directory models the parts of it in which
several goroutines, processes or files have to agree, checks them with TLC and
proves some of what holds with TLAPS.

All paths below are relative to the repository's root, `src/` here.

## 1. The system

### How the parts talk to each other

    TUI / command line          internal/tui, cmd/midas
       | Prompt, Steer, Abort, Compact, RevertLastPrompt, SwitchSession
       v
    Chat (one session)          internal/chat        -- transcript --> pkg/storage
       | goroutine "forward", one per run; failover between models
       v
    agent.Run (the loop)        pkg/agent            -- CacheWarmer, compaction
       | Stream(request)              | Execute(call), one goroutine per call
       v                              v
    providers (pkg/ai, pkg/provider)  tools: internal/tools, task (a loop of its own),
                                      MCP servers (pkg/mcp) -> hub, vault, control
                                                                 |
                                                          bridge processes (pkg/hub)

Every arrow from a producer to a consumer of events is an `EventStream`
(`pkg/ai/stream.go`): a provider's answer, the loop's run and the chat's run are
each one stream.

### Inventory

For each component: the state it keeps, what is done to it, what is hard, what
makes it correct, and where it is modelled.

| component | state | operations | what is hard | what must hold | module |
|---|---|---|---|---|---|
| Event stream, `pkg/ai/stream.go` | a slice reused from its start, a head, end and result, two wake-up channels | Push, End, Next, Result, each cancellable | a push between a look and a wait; reuse of slots; End and a terminal event in either order | first in, first out, nothing lost; no waiter left behind; one result | `EventStream`, `EventFifo` |
| Agent loop and steering, `pkg/agent/loop.go`, `steering.go` | transcript of the run, batch of calls, steering queue | ask the model, execute calls (parallel, sequential, refused), step boundary, Steer, cancel | calls end in any order; late progress; a steer at the end of the run; cancellation inside a batch | each call has one result, in order; steers heard once; events tell the transcript; a cancelled run ends | `AgentLoop` |
| Chat session, `internal/chat/chat.go` | `running`, the run it holds, conversation, session id, transcript files | Prompt, forward's phases, Compact, RevertLastPrompt, SwitchSession, restart | looks under the mutex, files after it; Compact beside a run; a restart anywhere | an ended turn is durable; transcript = conversation; sessions do not mix | `ChatSession` |
| Forwarding and failover, `Chat.forward` | events held back, attempts, what was shown | copy, hold back, fail over, abandon | the loop is ahead of the reader; a second model must look like the same run | nothing of a failed attempt is shown; what is shown is kept; Abort ends the run | `ChatForward` |
| Hub bridges, `pkg/hub/bridge.go` | entries by name, a process and a lock per entry, a watcher per start | acquire, Stop, StopAll, Reap, add, remove | processes die at any time; take and close are two steps; entries are replaced under callers | no process is lost or used after it was closed; a dead one is forgotten | `BridgeSupervisor` |
| Bridge wire, `pkg/hub/protocol.go` | waiters by request id, event buffer | Call, read, Close, the watcher's loop | an answer, a deadline and the end of the output together; a full buffer | each call gets its own answer or one error; events in order, once | `BridgeWire` |
| Hub store, `pkg/hub/store.go` | read marks, messages; two files | Append, Edit, Delete, React, MarkRead, load | memory before file, torn lines, restart | what was reported as stored is there after a restart; read marks only grow | `HubStore` |
| Hub logins, `pkg/hub/login.go` | logins by id with a status | start, event, answer, cancel, status | the first answer races the events | a settled login stays settled | `Credentials` |
| Cache warmer, `pkg/agent/cache_warmer.go` | timer, cancel function, serial, phase | start, settle, refresh, Stop, Close | a refresh that outlives its request | at most one live refresh, none beside a real request, none after Close | `CacheWarmer` |
| Compaction, `pkg/agent/compaction.go` | none (functions of a conversation) | EstimateTokens, ContextTokens, PlanCompaction, ApplyCompaction | where to cut between calls and results, again and again | calls stay with their results; nothing is forgotten; a large context is seen to be large | `Compaction` |
| Answer readers, `pkg/ai/providers` | content, slots, stop reason, per answer | one handler per line of four wire formats | blocks interleave, a body ends anywhere | half an answer never passes for a whole one | `ProviderStream` |
| MCP managers, `pkg/mcp/manager.go`, `cmd/midas/reload.go` | a state and a session per server, the manager of the chat | Connect, Disconnect, Close, reload, cd, the commands | dials without the lock; managers are swapped | no session is left open or forgotten; a reload is all or nothing | `McpServers` |
| Dictation, `internal/voice` | a helper process, its wait, the draft | Listen, PauseAndWait, Stop, the helper's lines | the last text, a time limit and a stop race | words are kept, once, in the dictation they belong to | `VoiceControl` |
| Remote access, `internal/remote` | browsers with a queue each, the size of the active one; a listener, a tunnel and a hold on sleep | attach, input, resize, close; start, stop, serve failure | start waits while it is turned off and on again | resources have an owner; every browser ends with the screen as it is | `RemoteAccess` |
| Prompt queue, `internal/tui/chat.go` | queued prompts, the active run, shell commands | submit, steer, dispatch, escape, undo, compact | a run that ends while a steer is sent; a timer between the queue and the run; a transcript rebuilt beside a command | each prompt is sent once; the queue moves on | `PromptQueue` |
| Transcript rows, `internal/tui/chat.go`, `transcript.go` | rows, the row events go to, steers not echoed | applyEvent; buildTranscriptEntries | the same rows are made from events and from stored messages | what is shown is what a reopened session shows | `TranscriptView` |
| Input splitter, `internal/tui/stdin_buffer.go` | pending bytes, paste mode, a timer, generations | Process, flush, discard | bytes arrive in any pieces | the keys do not depend on the pieces | `StdinBuffer` |
| Overlays and focus, `internal/tui/overlay.go` | stack, focus, what to give it back to | show, hide, focus, unfocus, click, dock | who had the focus may be gone | keys reach something that is on the screen | `OverlayFocus` |
| Prompt editor, `internal/tui/editor.go` | text, cursor, undo, kill ring, history, pastes | every key and a paste | markers stand for pastes through undo and yank | no text is lost, the cursor has one place | `Editor` |
| Main-screen renderer, `internal/tui/main_screen.go` | what it believes the terminal shows | render, resize, stop | rows that scrolled out cannot be reached | the terminal shows the frame | `MainScreen` |
| Render loop, `internal/tui/base.go`, `scheduler.go` | a flag, a timer, a queue of callbacks | request, fire, draw, stop | a fired timer cannot be cancelled | the last change is drawn; none after the terminal was given back | `RenderLoop` |
| Window on the transcript, `internal/tui/scroll_view.go`, `alt_screen*.go` | where the window is, whether it follows, the search, the selection, the auto-scroll timer | append, frame, scroll, search, drag, a timer's step | handlers change what the next frame lays out; a timer from an older drag | the window stays where the user or the search put it, follows only when it should, and never leaves the document | `Viewport` |
| Screen layout, `internal/tui/stack.go`, `layout.go` | rows and heights of the chat's parts | wants, allocate, paint, hit, thumb, overlay | too little room; rounding | rows are shared out exactly, the cursor and overlays stay on the screen | `ChatLayout` |
| Terminal session, `internal/tui/process_terminal.go` | raw mode, protocols pushed, a reader and a worker | start, read, answer, drain, stop | the terminal answers late; a reader outlives its session | the terminal is left as it was found, keys arrive once, in order, in their session | `TerminalSession` |
| Styled text, `internal/tui/text`, `composite.go` | none (functions of a row) | wrap, truncate, slice, overlay, scrollbar, segment, measure | codes between cells, wide cells at a cut | letters, styles and widths are kept; what is measured is what is written | `TextShape` |
| Session storage, `pkg/storage` | drafts, states and the registry, one file each | write, remove, upsert, limit | the clock is set back | the limit drops the oldest; what was just written is kept | `StoredFiles` |
| Titles and shell commands, `internal/tui` (`chat.go`, `title.go`), `cmd/midas/main.go` | the title, rows of commands, what is stored of both | prompt, title helper, command, cd, switch, undo | callbacks store under the session that is current by then | a title and a command belong to the session they came from | `SessionRecords` |
| Provider keys and logins, `pkg/ai/auth/store.go` | a file of keys and tokens | set, remove, refresh | a refresh dials without the lock; rotating tokens | a new token is saved, an edit is not undone | `Credentials` |
| Provider logins, `pkg/ai/auth`, `pkg/provider/connect.go` | a device code, its pace and deadline; the browser's callback | start, poll, mint, callback, exchange, cancel, save | an answer beside the deadline, a slower pace, a second callback | an account is connected by its own grant only | `ProviderKeys` |
| Key pool, `pkg/ai/api_key_pool.go`, `pkg/provider/provider.go` | keys, until when each rests | Stream, refused, healthy | calls of several sessions share the keys | a refused key rests; none is tried twice | `ProviderKeys` |
| Settings files, `internal/settings`, `pkg/mcpconfig`, `pkg/mcpserve`, `pkg/mcp/config.go` | settings.json, the servers' own files, the list of servers | set, map entry, load, update, save, find, start | processes replace one file without a common lock; a token in either of two files | what was set is there; a server listens with the token others find | `SettingsFiles` |
| Delegated tasks, `internal/chat/task.go`, `internal/profiles` | runs and their depths, definitions of agents | task, child's turns, cancel, reload | agents are reloaded under a run; a caller ends before its child | limits of depth; a child answers for itself | `Delegation` |
| Goals, `internal/goal` | one goal with its use and limits | create, update, record a turn, clear | a turn that outlives its goal; a clock set back; failed writes | a goal is charged with its own turns, once | `SessionRecords` |
| Provider requests, `pkg/ai/providers` (`convert.go`, `completions.go`) | none | convert a conversation for one of four interfaces | answers of several models in one conversation | every request is one the provider takes | `Conversion` |
| Vault, `pkg/vault` | a database file, a copy per session | unlock, put, delete, change password, save, destroy | a save is cut off or fails between its steps | a stored secret is there, under its password | `VaultFile` |
| Hub registry, `pkg/hub` (`registry.go`, `catalog.go`, `config.go`) | catalogue, cache, binaries, configuration | install, uninstall, update, refresh | four files, one after the other | a bridge reported as installed can run | `HubRegistry` |
| Hub messages, `pkg/hub/mcp.go`, `store.go` | messages and cursors of accounts | bridges tell, tools send, list, mark | the same message by two ways; edits before messages | what bridges told is there once, and read marks count it | `HubRegistry` |

Everything else (skills, the coding tools, browser control, statistics, selectors and markdown
in the terminal interface, the entry points) is sequential code around one mutex, one file or one external program.
`PROJECT.json` lists each of them with the reason it is not modelled. They enter the
models only through what their callers can observe: a provider's answer that starts,
ends, fails or never comes; a tool call that reports, returns or does not; a file that
is replaced whole or not at all.

`PROJECT.json` also lists the hazards found in the code, each at its line, with
the properties that watch it.

## 2. What is modelled

### EventStream and EventFifo

`EventStream` is `pkg/ai/stream.go` critical section by critical section. The
mutex makes each of them one action: `Push`, `End`, the three outcomes of `Next`
(`NextEvent`, `NextEnded`, `NextParks`) and of `Result`. A goroutine in the select
is *parked*, and *woken* once the channel it holds is closed; a cancelled context
returns it. A nil or open channel field is a Boolean, because a channel is only made when
there is none and closing always clears the field: everybody parked since the last
close holds the same one. The slice is modelled with its slots and head, since the
reuse of slots is where an event could be lost.

`EventFifo` is what the rest of the program relies on: a log that is published
to, taken from and closed once, and an outcome decided at most once.
`EventStream` implements it by forgetting slots, head and channels
(`ImplementsFifo`, which includes the liveness of a reader that keeps reading).

### AgentLoop

One run of `agent.Run`. The run's goroutine is cut at the points where another
goroutine can interfere: the request, the announcement of the answer, each call's
start, return and end, the turn's end and the step boundary. `Steer` and `Cancel` may
come at any of them. `executeToolBatch`'s three modes are three guards on the same
actions: `NextCall` says which call may be announced, `Refuse` and `Launch` what
happens to it. A tool may call its progress callback after it returned, even after the
batch (`Update`). `Finish` is `drainOrClose` finding an empty queue, with the closing in the
same critical section; `Continue` is the drain; `Cut` is the closing of a cancelled run.

Messages are records of a role, a turn and a position, and events are a type with
a message: the properties compare what the stream announced with what the
transcript holds, message by message. The answers a model may give are the call
lists of `MCBatches` (in `MCRun`): none, two calls that run beside each other, one that forces
the batch to be sequential, one with no tool behind it.

### ChatSession

The chat between runs. The code takes the mutex, looks at `running` and the
conversation, releases it, and writes the transcript afterwards; each critical
section is one action and each file write another (`Persist`), so every
interleaving of two operations at those points is a behaviour. A run passes through
`Prompt`, `Tell` (the notice of a changed directory), `Fit` (compaction before the first
turn), `Record` (the turn joins the conversation), `Finish`, `End` (the terminal event), and
`Return` (the deferred `finish`). `Compact` is `CompactReads` and `CompactEnds`, with the
summary being written in between. `RevertLastPrompt` reads the id of its session only
when it writes. `Restart` loses memory and goroutines and opens a session from disk;
a write may fail.

The run's inner life is `AgentLoop`'s and is one step here; a turn is a prompt and
an answer, a checkpoint the set of answers it covers.

Three ways for operations to overtake each other are known and are stated
separately (see *Findings*). The invariants are about behaviours in which none of
them happened: `raced` records that one did, at the action where it happens
(`Overtakes`), and durability, the transcript and the separation of sessions are
claimed while it is false. `BusyMeansRun` is claimed always.

### ChatForward

The goroutine `forward`, event by event, against a loop that may be any number of
events ahead (`feed`). The loop is reduced to the event sequences `AgentLoop` shows
it can push. `isAttemptPrefix`, `meaningfulEvent` and `isFailureCandidate` keep
their names. The choice of the next model (`selectFailover` in `cmd/midas`) is external: it
answers with a model not tried before, or declines.

### BridgeSupervisor

The supervisor of one bridge. An entry's lock is a Boolean held from the spawn to the
answer to hello; every other critical section of an entry is one action guarded
by `Free`. A call finds its entry under the supervisor's lock and queues on the
entry's (`Find`, then `Reuse` or `Start`); between the two the entry may be stopped,
removed or replaced. Stop, Reap and Uninstall are `Begin`, `Take` and `Close`, with
Reap's test of idleness before (`CheckIdle`). Each successful start leaves a watcher,
which reads the entry's process when it first gets the lock, not when it was made.
A process runs, may have been closed, and its output may have ended: it may die at
any time.

### The services: MCServices

Sixteen parts, in fourteen modules, run beside a chat and share no state with each other. `MCServices`
checks them in one run: a behaviour takes one `part`, the other parts rest at their initial
states, so their states add up and do not multiply.

* `CacheWarmer`: the timer, the refresh goroutines it starts, the serial that makes old ones
  stale (`Stale`), with runs, abandoned runs and the chat's stops as environment.
* `McpServers`: managers and their sessions, with `Connect` cut where it dials without the lock
  (`Connect`, `Connected`, `Failed`); a reload (`BeginReload` to `Closed`), a directory change and the two
  commands are goroutines over them.
* `HubStore`: messages and read marks in memory and in two files. A line may be torn
  (`AppendFails`), a rewrite may fail before it replaces the file, and `Restart` reads what there is.
* `BridgeWire`: `Call` as registration, write and the ways out (`Answered`, `Expired`, `Exited`), the
  reader that hands lines to waiters or to the buffer, and the watcher's loop.
* `Credentials`, its first part (the hub's logins): `StartReturns` and `SubmitReturns` are the two calls' returns, which
  may be older than the events (`Challenged`, `Complete`) applied meanwhile.
* `VoiceControl`: the controller, the helper process with its commands and lines, and the view's
  draft. Words are numbered as spoken, so that a lost, repeated or misplaced one can be seen.
* `ProviderStream`: the four readers over a provider that sends blocks in pieces, several open at
  a time where its format allows, and a body that may end, break or be cancelled between any two lines.
* `Compaction`: a session whose messages are roles and sizes; runs add to it and
  `Compact` cuts it. A summary is the set of messages it tells of.
* `RemoteAccess`: browsers attached to the terminal, with bounded queues and the frames of the alternate
  screen (a full frame only when the size changed); activations of the service as a set of held
  resources, started in steps that a stop may overtake.
* `StoredFiles`: two files by session id with the times of their entries, under a clock that goes on or is set
  back; the newest are kept. The order in which entries were written is a history the files are compared with.
* `SessionRecords`: the view and the store of two sessions: turns with a title helper, commands and changes of directory
  as goroutines whose callbacks come when they come, switches and undone turns between them.
* `Credentials`, its second part (a provider's saved token): callers of two clients, each with a store of its own over one file; a refresh is a read, an exchange
  with the provider (which may rotate the token) and a write, and edits come between.
* `SessionRecords`, its second part: the goal of a session through its turns, limits, edits and failed writes.
* `ProviderKeys`: one login after the other by each flow (device code, GitHub Copilot, a browser for three providers and for
  OpenRouter), cut at every request and every wait; the authorization server and the user are external (`Decide`). What is
  saved then makes a provider (`ConfiguredProvider`), whose calls share a pool of keys: `TryKey`, `Refused`, `StreamStarts`.
* `SettingsFiles`: a change of settings.json is a read (`Reads`) and a replacement (`ReplaceFile`) or its failure; Midas's
  stores, two servers and one that Midas did not launch make them beside each other, and the user edits by hand.
  `LoadConfigs` reads file after file.
* `Delegation`: `Execute` as its checks, the child it begins (`BeginChild`, then `StartSession`: the agent is looked up
  again for its tools) and its return; a child is an `AgentLoop` reduced to what `Execute` reads of it. `LoadCustom` may come between.

### The interface: MCInterface

Eight modules about the terminal interface, composed the same way.

* `PromptQueue`: the interface's thread, the dispatch timer, the goroutines that consume a run or wait for a
  shell command, and a compaction, meeting at the view's lock; the chat behind it admits one run at a time. What is done in
  two critical sections is two actions: the look at the view and the start (`submit`, `dispatch`), the keypress and the
  command it starts (`steerShell`, `steerShellStarts`), the copy of the queue that a rebuild makes and its writing back
  (`SetTranscript`, `SetSession`). A rebuild also moves the rows that running commands know by their index (`moved`): the end
  of a command whose row is not there any more frees the view and takes nothing from the queue (`finishShell`).
  Why nobody takes the next prompt is remembered until the next start (`stalled`).
* `StdinBuffer`: pieces of bytes, the flush timer with its generation, the dispatch of events under
  a second lock, and a discard. An event's generation is checked under the state's lock (`CheckEpoch`) and the event handed
  over after it (`HandOver`), so a discard may fall between. Bytes are the six classes the grammar tells apart.
* `OverlayFocus`: the focus state is one record and the helpers that call each other in the code are
  operators from a state to a state; dialogs of the dock, clicks and a change of size are actions. `outlived` holds
  the components that went while something would return to them: nothing else off the screen may have the keys.
* `MainScreen`: a renderer that believes where cursor and viewport are, over a terminal (external)
  that executes what is written. A row is a line, blank, or one drawn over another.
* `RenderLoop`: requests set a flag, then defer or arm a timer; one goroutine runs callbacks; `StopBase`
  stops it and gives the terminal back.
* `TranscriptView`: the rows made from the events of a run (`MessageStart` to `EndRun`) and the rows
  `buildTranscriptEntries` makes from the messages the run stored.
* `Editor`: the editor as one record, a key as an operator on it (`Edit`), pastes as markers of two
  cells with the store they stand for, chips beside them.
* `Viewport`: `ScrollView`'s window, the frame that was laid out last, search and selection. Handlers set what the
  next `Frame` lays out; each timer of a dragged selection is a goroutine of its own with a generation. `wants` remembers
  what the user was promised: the end, a row, a match, or the window held where it was while the dock is open (`"held"`).

### The libraries and the servers' files: MCLibrary

Eight parts that know nothing of each other, composed the same way; the first is `EventStream`.

* `TextShape`: a row is a sequence of pieces (cells of one or two columns, blanks, tabs, breaks, codes), built piece by
  piece, and every operator of the text package is compared with what a terminal would show of its input. A second part
  (`ClustersInit`, `ClustersNext`) builds sequences of code points by their classes: segmentation and width.
* `ChatLayout`: a size of the screen and what each part wants; `AllocateStackSizes` and what is painted of it.
* `Conversion`: a conversation grows by prompts, answers of several models, results and broken answers; each state is
  converted for all four interfaces.
* `VaultFile`: calls of two clients on the database, each save in its steps (the temporary file, the rename), which may
  fail or be cut off.
* `HubRegistry`: install, uninstall, update and the catalogue, step by step over their files.
* `HubRegistry`, its second part, the store behind the tools: what bridges tell, what is sent, edited, deleted and marked.
* `TerminalSession`: starts and stops of the terminal, the reader and worker goroutines of each, answers that come
  in pieces or late, drains with a time limit.

### Composition

`MCRun` checks `AgentLoop` and `ChatForward` in one run, as two parts: they are the two ends of a run.
The three chat modules are three views of one boundary and are kept apart
because their product is far out of reach: `AgentLoop` establishes what a loop
can push and when it ends, `ChatForward` takes those events as its environment,
and `ChatSession` takes one run as the steps `forward` makes of it. `EventStream`
stands under all of them: where they treat a stream as a sequence with a reader,
`EventFifo` is the justification.

## 3. The runs

| run | module | instance | shows |
|---|---|---|---|
| `agent_run` | MCRun | the loop: two tool turns, one steer, four batches, all modes; forwarding: three models, two turns each, one steer | steers kept, calls paired, events tell the transcript, failover hides failures, what is shown is kept, a cancelled or aborted run ends |
| `agent_loop_lost_steer` | MCRun | one tool turn, one steer | finding 1 |
| `chat_session` | ChatSession | two runs, two sessions, two rewrites, one fault | durability, transcript, separation, busy |
| `chat_release` | ChatSession | the same, without faults, one rewrite | finding 2 |
| `chat_compact` | ChatSession | the same | finding 3 |
| `bridge_supervisor` | BridgeSupervisor | two callers, all three stoppers, two installations, two starts | no process lost, known processes usable, dead ones forgotten |
| `bridge_uninstall` | BridgeSupervisor | one installation, two starts | finding 4 |
| `services` | MCServices | sixteen parts, see below | refreshes, sessions, files and settings, calls and events, logins and keys, dictated words, answers, compacted history, remote resources and the records and runs of a session are kept as each component promises |
| `mcp_reload` | McpServers | one server, one command | finding 5 |
| `interface` | MCInterface | eight parts, see below | queued prompts, typed text, focus and window, and frames are kept |
| `library` | MCLibrary | nine parts, see below; the stream with one reader, two waiters, three events | order, wake-ups and the terminal event of a stream, its refinement of `EventFifo` with its liveness; rows, screen, requests and the servers' files |
| `unanswered_call` | MCLibrary | one broken answer, one prompt | finding 6 |

A property of a run with parts may be a conjunction of several parts' properties, each with its own
name and comment in its module: `FilesKept` is `StoredSurvives`, `RecentKept` and `SettingsKept`, `LoginsKept` is `LoginSettled`,
`CredentialsKept`, `SigninSettles` and `KeysRested`, `SessionKept` is `RecordsKept`, `GoalKept` and `TasksKept`, `TypedKept` is `SplitIndependent` and `TextKept`,
`ViewKept` is `ShownAsStored`, `WindowKept`, `ScreenShowsFrame` and `FocusOnScreen`, `OutputKept` is `TextShaped`,
`ClustersAgree`, `LayoutKept` and `RequestsSound`, and `HubKeeps` is `InstalledKept` and
`HistoryKept`.

### Bounds, and why they suffice

Every counter that would make a model infinite has a named bound in a guard.

* `ToolTurns = 2`, `MaxSteers = 1`: a turn after a turn with calls, so that stale
  state of a batch (`terminating`, late updates) meets the next one; the
  steering race needs one message. Batches of two calls are the smallest in which calls
  end out of order or one holds back the other.
* `MaxAttempts = 3`, `MaxTurns = 2`: a failover after a failover, and a failure in a
  turn that is not the first.
* `MaxRuns = 2`, two sessions, `MaxRewrites = 2`, `MaxFaults = 1`: two runs for one to
  outlive the other, two sessions to mix, two rewrites for a summary of a summary
  or a compaction against a directory change, one failed write or one restart.
  Every overtaking found involves two operations.
* `MaxInstalls = 2`, `MaxStarts = 2`, two callers: a process with a successor under
  the same entry, an entry with a successor under the same name, and a call that
  waits for another's start.
* `services`. Warmer: `MaxRefreshes = 3`, `MaxSerial = 5`, so that two refreshes outlive their request
  beside a live one. MCP: one server, two commands, two managers (main's, and a reload's or a directory change's; the
  proof has any number), two sessions. Store: three ids, two versions and times, three faults, so that a torn
  line meets a good one and another torn one. Wire: two calls, two events, a buffer of one (a full and
  an empty one are both met). Logins: two of one account, two reports. Voice: two helpers,
  one stop, one word. Provider: all four formats, two blocks of two pieces. Compaction: six messages of sizes 1
  and 3, answers of two calls, `KeepRecent = 4`, `Limit = 5`, so that a cut falls inside and between batches and
  a second cut meets the first one's checkpoint. Remote: two sizes, two browsers with queues of one, two
  changes of the screen, two activations. Files: three ids of which two are kept, four writes, three values of the
  clock. Records: two sessions, one turn, two commands, one rewrite. Credentials: three callers of two clients,
  two keys, three tokens, three edits. Goals: two objectives, a limit of time and one of tokens and turns, four steps.
  Keys: one login and then one provider, of which two saved keys or one found in the environment; two calls, so that one meets the
  other's refusal; four moments of a login with two paces, and cooldowns of one and two minutes of which one passes. Settings: one store of Midas, a server in
  two processes and one launched by hand, one number, a map of two fields, three changes. Tasks: three runs (a caller, a child and the child's child), a defined agent
  in three forms, one reload. Of dictation, logins, remote access, managers, keys, settings and tasks section 4 proves the
  same for all bounds.
* `interface`. Queue: two prompts and a shell command, so that one runs, one is steered, on its way or waits, and the command is
  typed, queued or beside a run; the proof has any number. Rebuilds: one at a time (`RebuildAsked`); a
  prompt that a copy brings back comes once the one that left is through, and a copy that differs from the queue waits while a
  command is on its way from it (`SetSession`). Input: three keys or marks, one break. Focus: two overlays, one that
  takes no keys, and a dialog. Screen: three rows of two lines on a terminal of one or two rows, so that rows scroll out.
  Render: two requesters, three timers, a queue of two. Rows: two runs of two turns, two steers,
  two kinds of answer. Editor: five keys or pastes on a width of three, four cells of text (a paste or a yank may exceed them), two
  undo states, kills and pastes, one remembered prompt. Window: three rows in a window of one or two, and in one behaviour two
  changes and four keys, one change and four mouse events, or one key and four mouse events; five generations of the timer.
* `library`. Stream: one event in the slice, one read before it and one after, which
  is every position relative to the drain at which a slot is reused; two waiters so
  that one close has to wake more than one; one reader, as everywhere in the program
  (`Next` by two readers would make "delivered" an order nobody observes). Text: rows of four pieces of eight kinds, cut
  at up to three columns; four code points of twelve classes. Screen: up to fourteen rows, a dock of up to seven. Conversion: five messages
  for five targets, answers of three shapes. Vault: two clients, one entry of three fields, two passwords, four
  calls. Registry: one bridge in two versions, two clients, four calls. Messages: two accounts, two names, four steps. Terminal: two
  sessions and five allowances of starts, keys, answers in pieces, drains and failures; a channel of one.

For what section 4 proves these bounds do not matter. No run checks for deadlock: a run that ended, a
chat without prompts left, a bridge nobody calls and a part that used up its bounds stop for good.
That a stream's waiter is not left behind is `NoLostWakeup`, and that a run ends is `CancelEndsRun`.

### Fairness, and why the code justifies it

* `EventStream`: a goroutine that can take the mutex does (`Next`, `Result`), and a
  consumer calls `Next` until it is told the stream ended, as every consumer in the
  repository does. Nothing makes a producer produce.
* `AgentLoop`: the run's goroutine and the goroutines of a batch go on. The provider
  and the tools are owed nothing until the run is cancelled; then they answer,
  because both were given the run's context. A tool that ignores its context does
  keep the loop waiting; what the user sees of it is `ChatForward`'s `Abandon`.
* `ChatForward`: only `forward` itself is fair. The loop is not, so `AbortEndsRun`
  holds even if a provider or a tool is silent for ever.
* `BridgeSupervisor`: a start's hello is answered or times out after ten seconds, and a
  watcher that waits for the lock or for the end of the output goes on. Processes and
  callers owe nothing.
* `RunSpec` and `LibrarySpec` ask this of the part that moves and of no other. All other modules have
  safety properties only.

### What the properties say

`DeliveredThenUnread`, `NoLostWakeup` and `TerminalIsLastAndDecides` are the
stream's contract. For the loop, `SteersKept` counts every admitted steer in the
transcript or the queue, once and in order; `CallsPaired` puts the results of every
answer directly behind it; `EventsTellTranscript` says a consumer that assembles
messages from events has the transcript, and that a call's progress stands between its start and its
end, against late callbacks. Of forwarding, `FailedAttemptsHidden` says the consumer sees one opening of a run and nothing of an attempt
that was given up, and `ShownIsKept` that the messages shown are those kept, in order, and once the run ended all of them.
For the chat, `EndedTurnsDurable` speaks of a consumer that saw the run end
and of the file after anything that followed, and `TranscriptFollows` of what a
restart would resume. For the supervisor, `RunningProcessHeld` says some operation can
still close each running process and `DeadForgotten` that the next call will start another.

Of the services: `RefreshesAsTold` (at most one refresh that can still act, none beside a request or after Close),
`SessionsOwned` (an open session is in a manager somebody can still close), `StoredSurvives` (a restart finds what
was reported), `RecentKept` (the limit drops the oldest, whatever the clock does), `SettingsKept` (the file holds what was last
put there unless a change was made to a file replaced since it was read), `CallsAndEventsPaired`, `LoginSettled`, `CredentialsKept` (a new
token is saved, and nothing the user saved is undone), `SigninSettles` (an account is connected by its own grant), `KeysRested` (no call
sends a key twice or one that rests), `DictationKept`, `AnswerWhole` (a message that says it ended well
has every block the provider sent, whole, and its events tell it), `CompactionKeeps`, `RemoteKept`, `RecordsKept` (titles and commands are
stored with their session), `GoalKept` (a goal is charged with its own turns)
and `TasksKept` (a delegated run stays in a limit its caller had, is not left running behind it, and answers for itself).

Of the interface: `QueueKept`
(each prompt is in one place or was sent once, unless a rebuild's copy left it out; a busy view has a run or a command that
frees it; a waiting prompt is on its way), `SplitIndependent` (the keys are those of the
bytes in one piece, and a discard lets through at most the one event that was past its check), `FocusOnScreen` (outside the
screen only what went while something would return to it), `ScreenShowsFrame`, `FramesKept` (a change after the last frame has a frame coming), `ShownAsStored`
(the rows of a finished run are those of the stored messages), `TextKept` (undo and yank bring back what was
there; a marker has its paste; wrapped lines give each cursor one place) and `WindowKept` (the window shows rows there are, follows or
stays as it was told, and no timer outlives its drag).

Of the libraries and files: `TextShaped`, `ClustersAgree`, `LayoutKept`, `TerminalKept`, `RequestsSound` (calls paired with results
under the names both get, in order, nothing foreign), `VaultKept`, `InstalledKept` and `HistoryKept`.
Each is preceded in its module by a comment naming the code it is about.

Each property of a passing run has a mutant: an operator (`Mut...`) that replaces a
mapped definition with a plausible mistake (a dropped guard, a missing reset, a swapped order)
under which TLC finds the property violated.

### Findings

1. **A steer accepted while the model fails is dropped** (`loop.go:64`). The
   loop leaves on a failed answer without closing or draining the queue, so a
   `Push` that returned true is never observed, against `steering.go:9`.
2. **The deferred finish releases a newer run** (`chat.go:735`). It runs after the
   terminal event and after the goal's turn was saved. A run admitted in between loses
   `running`, `cancel` and `steering`: it can be neither aborted nor steered, and
   a further prompt runs beside it.
3. **Compact overwrites a turn that finished meanwhile** (`chat.go:592`). It looks at
   `running` once, before the summary, and replaces the conversation and the
   transcript with what it read then.
4. **A bridge started by a waiting call survives its uninstall** (`bridge.go:86`). The
   call holds the entry that was removed; the process it starts is known to
   nothing that could stop it, against `docs/hub.md:201`.

5. **A reload half-applies** (`reload.go:79`). It replaces the agents, the profile and the prompt before it
   reads the MCP configuration, and the profile is refused while a run is active, against `reload.go:38`.

6. **A failed answer leaves its calls without results** (`loop.go:64`). An answer that failed after it had streamed a call is kept
   in the transcript, and the loop returns before the call is given a result, against `loop.go:285`: "a missing result
   makes the next provider request invalid".

The same checks show the limits of each: with none of the overtakings of findings 2 and 3
(and the stale transcript write, `chat.go:955`), everything claimed of `ChatSession`
holds; finding 1 needs a failed answer (`SteersKept` holds for all other ends); and the
process of finding 4 is still in its entry (`RunningProcessHeld`).

Three more disagreements have no run of their own. The models have them as the code does, and the property of their module claims
no more than what is left:

* **A prompt queued beside an undone shell command waits in an idle view** (`chat.go:1482`). The undo rebuilds the rows, the
  command's row moves, and `finishShell` returns before it looks at the queue. The prompt submitted meanwhile, which released
  the queue, is started by nobody until the next key, against `chat.go:844`: "Queued prompts are held until you submit new work".
  `QueueMoves` is claimed while `stalled` is "no".
* **A rebuild loses what was queued meanwhile** (`chat.go:820`). `SetTranscript` copies the queue under the lock and `SetSession`
  writes the copy back under the lock taken again: a prompt queued in between is gone, one dispatched in between comes
  back, against `chat.go:810`: "while keeping the queue". `PromptKept` leaves out the prompts in `rewritten`.
* **The window held for the dock is released by the next frame** (`scroll_view.go:314`). `UpdateLayout` keeps the window where it
  was in the frame that is smaller than the one before; any further frame has the same height and goes to the end, against
  `scroll_view.go:317`: "Following resumes when the viewport grows back, or as soon as new content arrives". `WindowAsAsked`
  allows both places while the window is held.

## 4. The proofs

Eight modules prove about every value of the constants what the runs show on small instances: any number of
events, readers and waiters; any calls, batches and steers; any runs, sessions and rewrites; any callers,
installations and starts. Each has one inductive invariant `IInv` (or one per component), a conjunction of named
parts with a comment each; one lemma per action or part; and the theorems, which are consequences of
`Spec => []IInv`.

**LibraryProofs.** The event stream first. The invariant `IInv` strengthens the properties with
`SliceShape` (the head never passes the end, a drained slice is the empty one, unread slots
hold events), `ResultShape` (a result is ready exactly when there is one) and
`EndedAfterEverything`. The last is needed for the claim about a caller that was told
the stream ended; the first because "what Next returns is what was accepted" is not
inductive without knowing that slots before the head are not read again. The data lemmas
(`UnreadAppend`, `UnreadPop`, ...) say what appending and reading do to the unread part
of the slice. From `IInv`: `TypeCorrect`, `FifoDelivery`, `NeverStuck`, `TerminalDecides`,
`EndSeenLast`, the action property `ResultWrittenOnce`, and `Implements`: every
step of the stream is a step or a stutter of `EventFifo`'s `Spec`.
Assumes `StreamAssumption`.

The secret store. Until a save was written over (`mixed`), one call at most is in Save, and the temporary file is its own
(`SavesGood`). The invariant then follows one copy: what is being saved is the caller's unlocked copy, except for a vault that
is being made; a copy that is not behind the file has every acknowledged field (`CopiesGood`), which is what lets a rename
replace the file by it; a copy may have more, since an edit stays in it when the save fails. An edit moves this from the old
copy to the new one whatever it is (`EditStep`); put, delete and a changed password only have to show that the copy they make
keeps the fields they did not touch (`PutStep`). From these `VaultIsKept`. Assumes `VaultAssumption`.

The registry. Four places (configuration, its file, the supervisor, the binary) are changed one after the other, so that a
bridge is, between two steps, as far as its call has come: `Stage` says what each step has done, and `Bridge` that the one call
on a bridge is at such a stage, or that there is none and every place agrees with the last report. A save of the whole
configuration writes the entries of other bridges too, which only brings them up to date (`BridgeKept`). From these
`InstalledIsKept`. Assumes `RegistryAssumption`.
Last the terminal. `TerminalInv` says what the fields and a stop under way remember of the terminal's modes (`Protocols`, `RawPaste`),
that a drain takes the handler from a session and gives it back to no other (`Handled`), and how a session's keys stand in one line
(`LineNow`): what was forwarded, the piece and its successor being forwarded, the prefix that is held, the chunk the worker took and
the channel. The line is in order (`LineOrder`), holds whatever was typed and not lost (`LineWhole`), and what a drain
found in it is lost (`LineLost`), so that what the worker drops can be dropped. Every action moves a piece along this line; the
`Order...` lemmas and `LineMoved` say that it stays good, for channels of any length. From these `TerminalStays`. Assumes `TerminalAssumption`.

**BridgeSupervisorProofs.** What has to be shown inductive is ownership. `StartLocks`:
the lock of an entry is held by the one call that starts its process, and only
while the entry has none. `KnownOwned`, `StartedOwned`, `ClosingOwned`: whoever has a process
(an entry, a call that starts it, an operation that closes it) has it alone, and it
is a process of that entry. `EndedStopped`: the output ends after the process, so that
what a watcher forgets does not run. Without the first, `HelloAnswered` could replace a
process in an entry; without the others, `Close` could close a process that is known.
From these: `LockHeldByOneStart` (the type invariant, with the lock's holder
counted), `KnownIsUsable` and `NoProcessLost`.

**ServicesProofs.** Seven services that `MCServices` composes, each with an invariant of its own, and `PartsOfSpec`: what moves one
of them leaves the others alone, so that what holds of each holds of the composition (`LateAnswersSettle`, `FilesStay`, `SessionStays`).

* Cache warmer. The argument is the serial. `SerialsBehind`: no refresh carries a serial above the warmer's. `CallsCurrent`: what
  calls the provider without being cancelled carries the current one. `OneAtATime`: the armed timer and the refreshes of the current
  serial are one chain, of which at most one calls. `CutByRequest`: none does while the loop asks the model. `Stale` then is exactly
  what makes a refresh that outlived its request harmless (`LatestPrefixOnly`).
* Remote screen. What a service holds (listener, key, screen) is held by the activation that owns it; what a browser has read and what
  waits for it are the frames of the screen it attached to, in order, so that a browser that has read everything shows it (`RemoteIsKept`).
* Credentials. Every token is issued once; the newest is saved, or is in the hands of the one caller that holds its store's lock, or was
  disturbed by another client or a failed write (`CredentialsAreKept`).
* Goal. The time charged is what passed while it was active, a closed goal is what it was when it closed (`GoalIsKept`).
* Files of drafts, states and sessions. The entries rise in time as they were written (`Listed`), which the stamp keeps true of a clock
  that was set back; what the limit leaves is then a prefix (`NewestListed`), and a prefix of what is in order is in order (`RecentStays`).
  The rank of an entry counts the entries before it: an injection into the limit shows that no more are kept (`NewestFew`).
* Titles and shell commands. A command is pending, in its row or stored, each for the session it began in, as long as that session was
  not `muddled`; a row that names a command is the command's (`RecordsStayApart`).
* Dictation. While nothing excused the controller, one helper at most is at work, for one dictation at a time, and it is in one of four
  phases: told to listen, capturing, told to stop with lines left to read, through (`Called`, `Capturing`, `Flushing`, `Through`). Every
  other helper is silent, so that a line the reader handles without asking whose it is can only be the dictation's own; a stop is in
  progress for one dictation only (`Stoppers`); what is written so far was spoken before what is being heard (`DictationStays`).

**AgentLoopProofs.** For the steers: a message is in the queue or in the transcript, never in both, and the queue is
closed by the step that found it empty (`ClosedAtEnd`). For the calls: a turn that executes has the results of what it has launched and
nothing ahead of it (`Executed`, `NoneAhead`), and the turns it left are paired (`LeftPaired`). The transcript is a concatenation, so the data lemmas
are about where a message stands in `s \o t` (`ConcatProperties`); there is no induction in it. From these
`SteersNeverLost` and `EveryCallPaired`.

**ChatSessionProofs.** Always: a busy chat holds a run that has not finished (`ChatIsBusyWithARun`). Until an operation
overtook another (`~raced`): the active run is alone and is the one held (`Alone`), what is written last is the conversation
(`Follows`), every conversation is made of whole turns of its own session, each once (`OwnTurns`), and an ended turn is
written or excused (`Kept`). What `Compact`, a changed directory, a turn and an undo do to a conversation are four lemmas about the operators
(`CompactedSound`, `NoticeSound`, `TurnSound`, `RevertSound`); the first and last index of a kind, which they need, come from
the well-foundedness of the naturals. From these `EndedTurnsStay`, `TranscriptIsConversation`, `SessionsApart` and
`HeldUnlessOvertaken`, which says that finding 2 is the only way to lose an active run. Assumes `ChatAssumption`.

**ConnectionProofs.** Seven parts, three of them of the hub. The store: memory is never behind what was promised, a message that is known is in the log,
and the cursor in memory is the file's until a write failed (`StoreSurvives`). The logins: until the first call has returned, nothing that
it could overwrite was reported for its login but by an event, which excuses it (`LoginsStaySettled`). The wire: a request has an id
of its own, who waits is known to the reader, and the events not read yet rise from what was handled, through the buffer, to
the bridge's output (`WireKeepsItsPairs`). Assumes `LoginAssumption` and `WireAssumption`.

And the MCP sessions: ownership again, over managers that are swapped. Who dials a server has its entry alone until it is
overtaken; a session is in one entry of a manager that is held by the chat, a reload or a directory change; a
manager that is being made is nobody else's; there is one swap at a time (`OneSwap`). A session could only be orphaned by a
swap that leaves it behind or by a dial that ends in an entry of a closed manager, and both are excluded by who holds what
(`ManagersOwnSessions`). Assumes `McpAssumption`.

The logins and the keys of a provider. A login: the token of a grant goes into one exchange, and the next poll is
within a pace of the deadline (`GrantFollowed`); what the browser brought first is what is taken (`CallbackFollowed`); from both
`SigninsSettle`. The pool: the keys of a call are what it has tried, what is left and what rested when it began, which partition the
pool (`StreamDivided`); a key is set aside for as long as its refusals say (`AsideHealth`); from both `KeysRest`. Assumes `ProviderKeysAssumption`.

The settings files. A change that is not stale was made for what the file holds (`JobFresh`); Midas changes no section, and a server only its own,
to what it then holds (`EditorJob`, `ProcessJob`); so what a server holds is found where it looks until somebody of its name, or the
user, replaces it (`ServingHeld`). `LoaderInv` says of the list of servers that the first file that names one has decided. From
these `SettingsAreKept`. Assumes `SettingsAssumption`.

Delegated runs (`TasksInv`): a run that is not idle has a caller one level up that is a run of another agent with all tools, and the tools
it has are those it was given unless its agent was reloaded meanwhile (`TasksAreKept`). Assumes `DelegationAssumption`.

**InterfaceProofs.** The queue of prompts. A prompt is in one place (`Once`): typed and not sent, waiting, about to be dispatched,
starting, being steered, sent, handed back or gone, or a rebuild's copy of the queue left it out. What makes it inductive is
`Handing`: whatever the interface's thread has taken and not yet handed over is a steer or still at the head of the queue, and
nobody else takes from there meanwhile, although a run's end, an undo, a rebuild and the dispatch timer all look at the queue; and
that a copy holds nothing that was not submitted, each prompt once (`CopySingle`). `Freed` says of a busy view who will free
it, `Ran` that what runs was sent. `Owned` and `Moving` say, until something crossed, who has the view and, unless something
stopped the queue (`stalled`), that a waiting prompt has someone to take it. From these `QueueIsKept`. Assumes
`PromptAssumption`.

The render loop. Three flags stand for something that is on its way: `requested` for a frame, `immediate` for an urgent one, the
timer's handle for a timer. The invariant says of each what it stands for (`Promised`, `Urgent`, `Timed`), since whoever finds a flag
set does nothing and relies on the one who set it; a change is then drawn because the flag is set or the loop is drawing
(`Asked`). A timer's callback that comes after its cancellation clears neither. From these `FramesAreDrawn`. Assumes
`RenderAssumption`.

**ChatForwardProofs.** What was shown, what is held back and what the loop has pushed are one stream. The loop's pushes lengthen
it at the end; `forward` moves the borders inside it, or drops an opening that repeats one; a failover cuts it behind what was shown.
The invariant says of this stream that it has one opening (`OneOpening`), that what stands before the held-back part is of an
attempt that was not given up (`HeldBack`), that its messages are told in order, each begun and ended once
(`InOrder`), and how far the loop is with the answer that the stream breaks off in (`Quiet`). None of these is inductive
alone: that nothing of a failed attempt is shown needs to know what is held back, and that needs the order of the stream. From these
`OneRunShown` and `ShownIsWhatIsKept`.

The proofs assume only the named assumptions on constants (`StreamAssumption`, `SupervisorAssumption`,
`WarmerAssumption`, `LoopAssumption`, `ForwardAssumption`, `McpAssumption`, `ChatAssumption`, `LoginAssumption`,
`WireAssumption`, `VaultAssumption`, `RegistryAssumption`, `PromptAssumption`, `RenderAssumption`, `RemoteAssumption`, `CredentialsAssumption`, `GoalAssumption`, `FilesAssumption`, `RecordsAssumption`, `VoiceAssumption`, `ProviderKeysAssumption`, `SettingsAssumption`, `DelegationAssumption` and `TerminalAssumption`: bounds are naturals, sets are disjoint or not empty), which TLC evaluates in the runs.

Only model-checked: the liveness properties (`CancelEndsRun`, `AbortEndsRun`, `DeadForgotten`, the fair half of
`ImplementsFifo`), since reasoning under fairness and about ENABLED is out of the proof system's reach;
`EventsTellTranscript`, `AnswerWhole` and `CompactionKeeps`, whose statements fold or filter sequences of unknown length, which is induction over data;
`HistoryKept`, whose queries sort a set, and `ShownAsStored`, `FocusOnScreen` and `ScreenShowsFrame`, whose operators filter or
fold; `ChatLayout`, `Editor` and `StdinBuffer`, which declare RECURSIVE operators, and what is composed with them; and
`WindowKept`, `TextShaped`, `ClustersAgree` and `RequestsSound`, for which no proof was written (section 6).

## 5. What is abstracted and what is missing

### Left out on purpose

* Text, token counts and costs: a message is told apart only by who said it and when.
  Whether a conversation is long enough to be compacted is a choice in `ChatSession`; `Compaction` computes it.
* The setters of the chat that only replace options, titles and status text.
* In `BridgeSupervisor`, what a call does with its process and `Close`'s wait for the end of the output (`BridgeWire` has both).
* A transcript write is the atomic replacement `pkg/storage` makes of it (temporary file, sync, rename).
* `HubStore`: the thread table and the queries (`HubRegistry` has them). `ProviderStream`: usage, ids, signatures, separators between parts
  of a summary; the provider keeps its format. `MainScreen`: images, Termux, the crash log.
  `Viewport`: matches that wrap, columns and words of a selection, selections while the search is open, the scrollbar. `VaultFile`: the
  KeePass format, one-time codes, parallel calls of one session. `HubRegistry`: how a download is fetched, and a `Chmod` that fails after the rename. `RenderLoop`: `RenderNow` (tests) and the two-second limit of Stop. `VoiceControl`: the download of the model,
  `Pause` (tests). `TranscriptView`: shell rows and cancelled runs. `Editor`: the slash menu, the mouse, jumping to a character. `PromptQueue`: the
  editing of a queued prompt, an empty command, the switch to another session and the view's closing; an undo's flag and the answer
  of `Abort` are one step.
* `ProviderKeys`: the text of requests and tokens, PKCE and state strings; one login and then one provider in a behaviour.
  `SettingsFiles`: what the settings mean, the directories, modes and the text of JSON. `Delegation`: progress, usage, prompts and models.
* Code outside `src/` (the Go runtime, providers, MCP servers, bridges, terminals, browsers) appears only
  as what the code in `src/` can see of it.

### Behaviours the properties make an exception for

Each was met while modelling. A flag in the model (`raced`, `excused`, `overtaken`, `doubtful`...) is set where
the behaviour happens, and the property is claimed while it did not.

* Store: a retried Append or MarkRead after a failed write is reported as stored without a write; a line appended
  to a torn one is lost with it.
* Logins: the return of the first call overwrites an outcome an event already brought; a failed login whose
  challenge can lapse becomes expired.
* MCP: the commands keep the first manager; a reload and a cd that overlap swap managers under each other; a server disconnected
  while it is dialled is stored open.
* Dictation: a stop that meets its time limit, a helper that dies, and a start that meets a stop lose the last words.
* Queue: a start that meets a busy view (a prompt submitted within the 50 ms before a dispatch), or a rebuild that changes the queue
  or meets a run, mixes up who has the view until the next run that starts alone (`crossed`). The queue waits for the next start
  (`stalled`) after a start that the session refuses or that has no model, a steer or command from the queue that the run's end
  overtook, the end of an undone run that took a prompt queued meanwhile (and dropped it: `chat.go:1838`), and a command whose row an undo
  moved. A refused steer whose row was rebuilt away passes for taken and is gone (`chat.go:1004`).
* Input: two escapes in a row depend on the pieces they come in. An event that passed its check when the discard came is handed over.
* Focus: a dialog that closes while an overlay would give the focus back to it leaves the keys with an unmounted
  component.
* Renderer: a cursor asked for above the viewport after a shrink desynchronises it; a resize undone before the next frame is not redrawn.
* Compaction: answers kept by a cut still carry the usage of before it, so the size after a manual compaction is overstated.
* Rows: a steered turn inserted before a shell row misdirects its output (`chat.go:1424`); steers echoed at the end of a cancelled
  run put the next run's first turn above its prompt (`chat.go:1776`); a call of a failed answer is shown as running when reopened.
* Editor: undo does not restore chips; a yank-pop after Home, End, a recalled prompt or a click cuts at the wrong place
  (`editor.go:940`); chips of a queued or steered prompt are sent as labels.
* Remote: a browser that attaches at the size already drawn gets only what changes next, against
  `terminal.go:51`; a listener that fails during a start uses up the stop, so what the start takes later is not released.
* Files: `UpsertSession` may drop the session it just wrote when the clock was set back. Credentials: the refreshes of two clients
  race through stores of their own (`pkg/provider/provider.go:71`), and may undo a logout or a login; a stale snapshot of the queue
  of keys may be the last one written.
* Logins: a second callback of the browser is told "connected" though only the first counts (`connect.go:53`); a network error
  ends the polling of a device code; Copilot's code without a lifetime expires at its first poll. Keys: the answer of an
  older call clears a newer refusal; Azure and Cloudflare keep the first key in a header while the pool tries the others.
* Settings: a process that read before another replaced the file takes the other's change back, since the lock is each process's own; `Set`
  on a file that cannot be read discards the whole of it, while a server reports it (`store.go:199`).
* Tasks: a reload that removes an agent between the look at it and its tools gives its run all tools (`profiles.go:110`); `maxDepth: 0` counts as
  unset (`custom.go:208`); the depth is compared with the limit of the calling agent only; the usage of a failed child is not reported, and its prompt is given twice.
* Session records: a command whose session was switched or whose rows were replaced is lost, doubled or filed elsewhere; `cd` is recorded twice in the
  session's shell and may read one session and write another; the title asked for one session may name another (`title.go:92`);
  the end of a turn overwrites the title with the last prompt (`chat.go:948`).
* Goals: a write may be reported as failed though it was made; the notice of a limit is pushed after the terminal event and dropped
  (`chat.go:808`), and the next run still runs (`chat.go:598`).
* Window: two presses of *next* before a frame move the search by one; a stale run of the auto-scroll timer clears the handle of a newer one
  (`alt_screen_selection.go:268`) and may move a new selection's end until the next mouse event; after a search
  showed a match at the end, following stays suppressed until the user scrolls.
* Text: an overlaid row lets what follows a wide character cut at the overlay's edge move a column to the left; a line of one cell wider
  than the width exceeds it; a Thai or Lao vowel on a flag letter is measured a column short.
* Requests: Google drops the images of a tool result though it writes "(see attached image)"; Anthropic is sent thinking blocks signed by
  another model, and an empty assistant message for an empty failed answer.
* Vault: two sessions overwrite each other's entries, share the name of the temporary file and may tear it; a change reported as failed is stored with the next
  save; after `change_password` another session's save brings the old password back.
* Registry: an install and an uninstall of one bridge beside each other may leave it configured without its binary; a failed uninstall cannot be retried while the supervisor offers the bridge; the
  configuration of a failed install is saved by a later update; the cache does not record its registry; the HTTP token (`cmd/hub/main.go:117`) is
  lost with the next update of the configuration.
* Hub messages: one id for two accounts is stored once (`docs/hub.md:58`, `store.go:388`); a sent message without an id is not stored; an edit that comes before
  its message is lost, one with a time moves it and may make it unread, and one without an account hits the first message of its id; a cursor that is not newer leaves
  the bridge's later count.
* Terminal: a paste overtakes a prefix that is held; a late answer about the keyboard after a drain makes the program believe in a protocol that was popped, so
  `Stop` pops one of the outer program's; a prefix typed between the start of the reader and the query is dropped; a chunk a worker took before a drain may be
  delivered after it.

### Not modelled

`PROJECT.json` gives a reason per component. In short: browser control and the coding tools (I/O, files and external programs), instructions and skills (text),
markdown and selectors (text), statistics (sums), model lists and addresses (lookups).

## 6. Plan

1. Proof: `WindowKept` of the interface.
2. A refinement of `ChatSession` by `AgentLoop` and `ChatForward` over one stream, for one run.
3. The idle timer of the MCP server frame; selectors of the terminal interface.
