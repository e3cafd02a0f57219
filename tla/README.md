# omarchy-ask: a verification project

TLA+ models of omarchy-ask, the TLC runs that check them on small instances, and
theorems about them that TLAPS checks for every value of the constants. Paths
are relative to the repository (`src/`); module and definition names are those of
this directory.

omarchy-ask is one Quickshell process that shows a menu search and agent
conversations, and a number of helper processes around it. Nearly everything in
it is an event handler: a line read from a pipe, a timer, the exit of a child.
What is hard to get right is what these models are about: which handler runs
between which two others, what a handler that resumes after an `await` may still
believe, what a process that is being killed still does, and what crosses on two
pipes that run in opposite directions.

## 1. The system

| component | code | state | operations | here |
|---|---|---|---|---|
| File search coordinator | `bridge/file-search.js` 725-1088, `StreamSource` 210-330, `readOwnedOutput` 425-499 | the current query with its queue, findings and flags; lane counters; children of this and of replaced queries; metadata helpers | `request`, `startRequest` and its resumption (also that of a replaced query), `pump`, `startSource`, `acceptRecord`, `releaseSourceLane`, index answers, `emit`, `close` | `FileSearch` |
| Index worker client | `bridge/file-search.js` 515-723 | one child with its lifecycle, the pending query, three timers, the retry time | `request`, `cancel`, `close`, replies, errors, exit and close of the child | `IndexWorker`, promise in `AnswerOnce` |
| Index worker process | `bridge/file-index-worker.js` | the pipes, the plocate run and the query that waits, the fff scan | a query, a run's data, stop, end and close, `shutdown` | `IndexProcess`; with its client `IndexLane` |
| Ask session | `Conversation.qml`, `bridge/bridge.js`, `bridge/permission-mode.js` | window: drafts, turn flags, dialogs, mode; bridge: mode, open permissions, saves; agent: turn, mode, corrections | prompt, correction, permission, mode switch, exit, restart, close | `AskSession` |
| Agentd Hub subscription | `AgentdHub.qml`, `bridge/agentd-hub.js` 1-312 | window: endpoint, roster, reachability; helper: configuration, connection, generation, reconnect timer, roster | configure, connect, frames, errors, reconnect, crash and restart | `HubConnection` |
| Agent activation | `bridge/agentd-hub.js` 314-714, `bridge/agent-window-resolver.js` | the activation in flight and its evidence | look up, ask the resolver, focus or verify and launch, refuse | `HubActivation` |
| Compositor module | `hyprland/shortcut-scope.cpp` | scopes of Ask's surfaces, presses it forwarded, the compositor's held keys | press and release in both hooks, `configure`, init and exit | `KeyRouting` |
| Module manager | `hyprland/manage.mjs` | what it read of the loaded module, the step it is at | list, check, build, unload, load, verify, roll back | `ModuleLoader`, over `KeyRouting` |
| Loading on start | `ShortcutRuntime.qml`, `Ask.qml` (`opening`) | `pending`, `available`, the request that waits | `ensure`, exit of the manager, events, the hotkey | `ModuleLoader` |
| Window shortcuts | `ShortcutScope.qml`, `ShortcutFocus.qml`, `ShortcutPolicy.js` | per window: ready, dirty, admitted, attempts, timer, call in flight | schedule, retry, call, reply, show and hide, focus | `ShortcutScope`, over `KeyRouting` |
| Ask manager | `Ask.qml`, the windows of `Conversation.qml` | conversations, the overlay, pinning, settings window open | summon, close, pin and hand over, settings | `AskWindows`, over `ShortcutScope` |
| Settings file | `Ask.qml` 66-220, `bridge/bridge.js` 62-78, `ask.json` | the file, what the manager remembers, the delayed write, saves in flight | change, flush, reload, save of the mode, editing by hand | `SettingsFile` |
| Scan and metadata children | `bridge/file-scan-worker.js`, `bridge/files.js` | the walk | records, completion | by what they report, in `FileSearch` |
| Menu search | `MenuSearch.qml`, `bridge/windows.js`, `math.js` | rows and selection | query, source answers, selection | not modelled |
| Transport policy | `bridge/transport-policy.js` | none | choice of et, mosh or ssh | not modelled |
| Clipboard images, harness checks | `bridge/image-paste.js`, `harness-policy.js`, `harness-errors.js` | none | conversions, version checks | left out; the refusal of a prompt that follows is in `AskSession` |
| Window resolver | `bridge/agent_window_resolver/` | none kept | | vendored code, left out; its answers are `ResolverLooks` |

**How they interact.** The window speaks newline-delimited JSON with two helper
processes over pairs of pipes: `bridge.js` (one per conversation) and
`agentd-hub.js` (one per application). `MenuSearch.qml` speaks the same way with
the file-search process. The file-search coordinator owns short-lived children
(`findmnt`, `realpath`, scans, repository scans) and two long-lived index
workers, which it reaches only through `IndexWorker`, by the callbacks `onRows`
and `onUnavailable`. `bridge.js` holds the agent over ACP. `ask.json` is shared by
the manager and by every bridge, without a lock. Each visible window runs
`hyprctl` to register its chords with the module inside the compositor, which
`manage.mjs` (a Node process started by the manager) builds and loads; the
compositor's event socket tells Ask when the module comes and goes.

**What is hard in it.** `PROJECT.json` lists each hazard at its line; in groups:

- *Children outlive what they were started for.* A replaced query's scan closes in
  the middle of the next query (file-search.js 950-960); a retired worker answers
  late (645); the response to a request for the old endpoint arrives (agentd-hub.js 160).
- *Resumption after an await.* `startRequest` (814), `savePermissionMode` (bridge.js
  62-80), `activate` (agentd-hub.js 573-714).
- *Two pipes.* A correction crosses the end of its turn, a mode switch crosses a
  permission request, a snapshot crosses a change of endpoint.
- *Limits that are global while owners come and go*: lanes and helpers of the
  coordinator, 4 MiB per frame, evidence and result bounds.
- *Something must eventually happen*: a query settles, an index query is
  answered, a turn ends, a lost hub connection comes back; each depends on one
  handler that must not be missed.
- *Partial failure*: a mode applied to the agent and not written; a scan that
  fails beside others that succeed; a module unloaded and its successor not loaded.
- *A resource that others use too*: modules of the compositor, loaded and unloaded
  by other processes between two commands of `manage.mjs`; `ask.json`; the keyboard,
  pressed before and released after the focus moves.

## 2. The modules

One action is one callback of an event loop, from the event to the return (or to
the `await`), including everything it calls: JavaScript and QML handlers run to
completion, so nothing interleaves inside. Where a function awaits, it is split
there, and the second half checks again exactly what the code checks again.

### FileSearch (bridge/file-search.js)

State that outlives a query: `stream[g][s]` (the child of query g for source s and why
it is being stopped), `runningTotal/Local/Mounted`, `helpers`, the index queries
`asked`, the `startRequest`s still at their await (`awaiting`), `closed`. State of the
current request, rebuilt by every `request()`: its `phase`, `plan`, `queued`, `active`,
`status`, findings `rows` and `repos`, the per-source `evidence`, the incomplete, capped
and done flags, the emit timer, and `shown`, the last snapshot on the wire.

| action | code |
|---|---|
| `Request` | `request`, `cancelCurrent` and `startRequest` up to its `await` |
| `HelperSettles`, `HelperReaped` | `readOwnedOutput`: the promise settles; later the child is reaped |
| `StartSources`, `Abandons` | `startRequest` after the `await`, of any query that is at it: `GoesOn` is its check; then `enqueue`, the index workers and `pump`, or the return |
| `SourceFails`, `SourceTimesOut`, `SourceCloses` | events and timer of `StreamSource`, `releaseSourceLane`, `pump` |
| `AcceptRecord` | `acceptRecord`, `insertBounded`, `schedulePublish` |
| `IndexAnswers` | the callbacks given to the two workers |
| `EmitTimer`, `Close` | `emit`, `close` |

`Pump` is the loop of `pump()`: which queued sources get a lane, each of which
may fail to start, and what the failures do to the flags; it is an operator with
the new values as arguments because the code calls it from four places.

Abstractions. A path is an integer, the smaller the more relevant, in place of the
text scores of `comparePaths`; `Modified` gives its modification time, which a finding
knows or not (`dated`), and `Before` is `compareFiles`: dated before undated, newest first,
then by relevance. A file does not change while a query runs, and the scores that the
index adds to a path it finds (`indexScores`) do not change its relevance. `seen` and
`seenRepos` record all that was found, which the code forgets, for `BestKept` only. A
finding also carries the query it was found for, which the code does not store and
`OnlyCurrentQuery` is about. Of a replaced query the children and a `startRequest` at its
await are kept; its request object is not, since after `canceled` is set nothing else in
it is read. Mounts and repositories are subsets chosen when the mount table is
answered; parsing of `mountinfo`, of records and of `.gitignore` rules is left out (a
record is valid, and then accepted, or not a step). A scan whose spawn neither throws
nor gives pipes (file-search.js 255) is not modelled: the child would have no `close`
event, as the index worker's of section 6.

### IndexWorker and AnswerOnce (bridge/file-search.js 515-723)

The client of one fff or plocate child: `Request`, `RequestRefused`, `Cancel`,
`Close`, `Ready`, `Reply`, `StartupTimeout`, `QueryTimeout`, `ChildError`,
`ChildExits`, `ChildCloses`, `BackoffEnds`. `Ensure`, `Send`, `Wait` and
`Unavailable` are the methods `ensure`, `send`, the restart branch of `request`
and `unavailablePending`. The child is what the client sees of it: it may answer
any query it was written, at any time, in any order, may never, and may die. The
length of the retry delay is abstracted to "not over yet". `AnswerOnce` says what
the coordinator relies on: the latest query is the only open one, and each is
answered at most once, with its own rows or none. `FileSearch` takes the same
promise as `IndexAnswers` (any answer, at any time, once per query and worker).

### IndexProcess and IndexLane (bridge/file-index-worker.js, with its client)

`IndexProcess` is the process at the other end. `ReadLine` is the line handler with
`queuePlocate` and `runFff`, `StartPlocate` is `startPlocate` (it may throw, or give a
child without pipes), `ScanEnds` the end of the fff scan, `Caps` the 181st row, `Stops`
a timer, an error or too much output, `PlocateCloses` is `finishPlocate` with the
start of the query that waits, `Shutdown` and `Gone` are `shutdown` and the exit. A query
stands for its run of plocate. Of the rows an answer carries, the model keeps
what it claims of them (`whole`, `capped`, `unavailable`), and `lost` remembers which
runs truly lost rows: `Truthful` compares the two.

`IndexLane` composes it with `IndexWorker`: an action of the client is its action there
together with what it does to the two pipes (`Wire`), a spawn starts a new process,
and the close of a child is reported when its output has been read. In the lane
`Reply` and `Ready` happen only for lines the process wrote, so that the client, which
is proved against any child, is checked against the one it has.

### AskSession (Conversation.qml, bridge/bridge.js, permission-mode.js)

Three processes and two pipes. User actions: `Compose`, `Submit`, `Retry`,
`SubmitSteer`, `Toggle`, `Answer`, `Restart`, `CloseWindow`. The window reads one line
per step (`Read...`), and sees the bridge exit (`SeeExit`) only after it has drained
the pipe. The bridge takes one line per step (`Take...`); the serialised saves of
the mode are two steps each, since two awaits separate applying the mode to the
agent, writing the file, and committing (`ModeApplied`, `ModeWritten`). The agent
may ask for permissions while a turn runs, ends or fails the turn, answers
corrections, and may die.

Abstractions. Text, tool calls, usage and status lines change nothing that a
guard reads and are left out. The clipboard round trip of a pasted image is not
modelled: a draft has an image or not. Node writes its pipe synchronously and Qt
delivers what was written before it reports the exit. `ask.json` itself is not modelled
here (it is in `SettingsFile`): other bridges, the manager and the user write it too, so
a bridge finds any mode in it when it starts (`Ready`), and its own write may fail.
Running bridges do not read it again and keep their modes, as docs/architecture.md
says. The prompt error "already handling" is not modelled because `TurnsInStep` shows
that its guard is never false. An agent that ends a turn well has no permission of that
turn open (`AgentEnds`: it asks and waits for the answer within the prompt); one whose
prompt is rejected may have (`AgentFails`), and the bridge keeps these while the window
clears its dialogs: `left`.

Exceptions in the properties, each for what the code does: `left`, in `DialogsMatch`; the
flag of a pending switch survives `restartSession`, so that a bridge that exits with a
switch in flight leaves the button disabled (`setPermissionMode` returns early) until
the new bridge acknowledges a switch, which nobody can then ask for (`stranded`, in
`SwitchAcknowledged`); a switch applied to the agent that could not be written (`unsaved`) and
an agent that rejects `setSessionMode` when the session starts and runs in its own mode
(`agentMode = "refused"`, bridge.js 260), both in `ModesAgree`.

### HubConnection (AgentdHub.qml, bridge/agentd-hub.js 1-312)

The window (`Configure`, `LateConfigure`, `ReadLine`, `SeeExit`, `RestartHelper`), the
helper (`TakeConfigure`, `TimerFires`, `Accepted`, `Ended`, `Chunk`, `Crash`), its
sockets as slots `Conn`. The `generation` counter of the code is only compared for
equality with the latest value, so the model keeps the slot of the connection
that has it. `Chunk(read)` is one `data` event with several frames: a rejected frame
destroys the stream, but the loop goes on with the frames behind it, as the code
does. A destroyed stream raises no further event of its own, the body of a
refused response is drained, and delays have no length. A
frame beyond 4 MiB sets `overran`, after which nothing reconnects until the helper
is configured again.

### HubActivation (bridge/agentd-hub.js 314-714, agent-window-resolver.js)

One activation is at the `stage` where the code awaits. `ListWindows` and `ReadTicks`
are the two looks of `compositorWindows`; `ResolverLooks` is the request to the
resolver, whose evidence is older than its answer; `TakeMatch` and `TakeRevalidation`
go on with the first and the second answer; `Choose`, `CheckClients`, `CheckTicks` and
`Focus` are the path to an existing window, `Verify`, `Launch` and `Launched` the path to
a new terminal; every refusal goes through `Noticed`. `RosterChanges` and
`DesktopChanges` may come between any two: a window opens, closes or shows
something else, a process ends and its pid is used again. A window is its
address, pid and start time (the stable id says no less than the address); an
agent keeps its identity and may change its tmux location and its health.

The resolver is external: it names only windows of the request that show the agent
when it looks, says that none does only if that is so, and may always answer with
neither (ambiguous, incomplete, past its deadline, invalid). What it cannot
trace at all, as docs/agent-search.md says of roaming mosh, is outside. Which
candidate ranks first, and which transport is chosen, is left open.
`steady`, `shown` and `lived` are written by `Witness` only and read by properties only:
they record what was true of the desktop meanwhile, which the code cannot see.

`Choose` is two awaits of the code, the clients and the active address (agentd-hub.js
617-619), in one step: the address only ranks the candidates, and which of them ranks
first is left open anyway.

### KeyRouting (hyprland/shortcut-scope.cpp)

One action is one call into the compositor. `Press` and `Release` are both hooks of
the module in the order of the compositor: the hotkey protocol first (`routeHotkey`),
then the bindings (`route`); `Owns`, `ReleaseTo`, `Hold` and `Remember` are the decisions
in them. A key is a pair of device and keycode, as in the maps of the module; the chord a
press stands for is an input, since the layout decides it (`clientSymbol`). The
compositor's own sets of held keys (169-173) know keycode and symbol but no device, and a
release erases every entry with either: `Release(k, alike)` takes the entries of any other
keys with it, since keyboards and modifiers decide which those are. Every key is taken to
have a symbol; one without (`XKB_KEY_NoSymbol`, 168) is never held.
`Register` is `configure`, whose erroneous requests change nothing; `Unmap` ends a
registration because a scope holds its surface weakly. `Load` and `Unload` are `PLUGIN_INIT`
and `PLUGIN_EXIT`, which leaves pressed keys as they are.

Three variables are history, for the properties: `went`, where the press of a key went,
which nothing but a press and a release writes; `orphans`, keys whose press a module
unloaded since had forwarded: no one is left to forward the release, and the bindings
get it; `eclipsed`, keys still down whose entry went with the release of another.

### ModuleLoader (manage.mjs load, ShortcutRuntime.qml, Ask.qml)

`KeyRouting` with the process that loads and replaces the module. One action is one
command that `manage.mjs` waits for: `List`, `ReadInfo`, `Decide` (version and identity),
`Build`, `Recheck`, `UnloadPrevious`, `LoadNew`, `Verify`; a command may fail, time out
without effect, or take effect and be reported as failed. `Rollback`, `Clear` and
`Restore` are the catch clause. `Meddle` is another process, or the user, who loads or
unloads any build between two commands. `LoaderExits` is `finish` with the signal
`settled` and what `Ask.qml` does on it; `Summon` is the hotkey (`toggle`). `excused` is
written for the properties: others meddled while the loader ran, or a command
took effect and failed, so that no code could know what is loaded.

Abstractions. The compositor has one build of the module loaded at most, a
Hyprland instance is there, and one earlier build counts as recognized. The
actions `status`, `build` and `unload` of the script, which Ask does not run, are left
out. `events` counts the lines "unavailable" that Ask has yet to read; a line "ready" is
not kept, since `ShortcutRuntime.qml` does nothing on it (it waits for the exit of
`manage.mjs`). `ShortcutScope`, which does act on it, keeps both in their order.

### ShortcutScope and AskWindows (ShortcutScope.qml, Ask.qml, Conversation.qml)

`ShortcutScope` is the registration of every window with the module. `Schedule` is
`schedule()`; `TimerFires`, `CallReaches`, `CallFails` and `Registered` are the retry timer,
the `hyprctl` it starts, and `registered()`; `Backing`, `FocusSeen`, `FocusLost`, `ChordsChange` and
`Heard` are the signals that make a registration old. `Admits` is the condition
under which a window is let at the keyboard. `Confirmed` decides whether a reply
still stands for what the window wants.

`AskWindows` adds the conversations, each with its panel and its pinned window:
`Summon`, `UserCloses`, `ToggleSettings`, and the hand-over of a pin in the order of the
code: `Pin` takes the keyboard for the panel, `PrepareStarts`, `PrepareReaches` and
`PrepareFails` are the question `focus-ready`, `Prepared` maps the pinned window
(`finishPinAttempt`), and `HandedOver` hides the panel once that window is admitted.
The compositor is under no obligation: it may never map or focus a window, and
the module may come and go (`ModuleChanges`). Which chords a context offers is any
set. Left out: the settings window's own scope, and `focusEstablished`, which only
changes which chords are wanted (part of `Context`).

### SettingsFile (Ask.qml, bridge/bridge.js, ask.json)

The file is a record of three fields: `mode` (owned by the bridges), `font` (standing for
the manager's own) and `other` (a field neither knows). The manager changes a field
(`SetFont`), flushes 200 ms later (`Flush`, `Merged`), and its atomic write lands later
(`WriteLands`); the watcher tells it of each change of the file (`Reload`, `ReadFile`, `Loaded`).
A bridge reads, truncates and fills the file in three steps (`BridgeReads`,
`Truncate`, `Fill`), tells its window (`Confirmed`), and may stop before any of them (`Stops`:
`close`, a signal, or a step that fails; `shutdown` does not wait for a save). `Edit` is the
user's editor. `fds` are bridges that have the truncated file open: a write of the
manager that replaces it meanwhile makes them fill the file that is gone, and another
bridge that has filled it makes the shorter of two contents end in the rest of the
longer (`Overlaps`). A truncated, garbled or missing file parses as no settings; `Torn`
marks what was copied from such a ruin (`Ruin`), so that a file that never had the
unrelated fields is told from one that lost them.

Two variables are written for the properties: `spoilt`, a bridge stopped between
truncation and rewrite, rewrites overlapped, or a ruin was read and that copy saved
again; `overtaken`, the mode that a bridge confirmed was not the one in the file any
more.

## 3. The runs

Each passing run finishes in under four minutes with two workers.
Every cfg but one says `CHECK_DEADLOCK FALSE`: the model ends when the environment
has used up its bounded counters (queries, prompts, crashes), which is a stop of
the model and not of the program. `Shortcuts.cfg` checks deadlock, since keys may be
pressed for ever. That the program does not wait forever is what the liveness
properties say.

| run | question | properties | bounds | states |
|---|---|---|---|---|
| `search_lanes` | Lanes while queries replace each other and a mount hangs | `LanesHold`, `NoIdleLane`; `LocalScansStart`, `QuerySettles` | 2 queries, base and one mount, one lane of each kind, 2 helpers, no records | 202 305 |
| `search_results` | Records and index answers in any order into bounded sets | `BestKept`, `ShownIsUpToDate` | 2 queries, file and repository scan, 2 paths (the newer less relevant, dated or not), evidence and results of 1, both workers, no helpers | 621 342 |
| `search_replace` | What a replaced query can do to the next | `OnlyCurrentQuery`, `SettledTruth` | 2 queries, 1 path, helpers and both workers | 1 310 228 |
| `worker` | Client and process of an index worker over their pipes | `Attended`, `NeverDropped`, `Truthful`, refinement `KeepsPromise`; `EveryQueryAnswered`, `ProcessAnswers` | 3 queries, 2 roots, fff and plocate, spawns may throw | 502 732 |
| `ask_turns` | Turns, corrections, drafts, failures, restart | `TurnsInStep`, `SteerAcknowledged`, `SteersOwnTurn`, `DraftsKept`; `TurnEnds` | 2 prompts, 2 corrections, 2 bridges | 362 525 |
| `ask_modes` | Permissions crossing mode switches and a restart | `DialogsMatch`, `ModesAgree`, `SwitchAcknowledged`, `Consented` | 1 prompt, 2 switches, 2 permissions, 2 bridges | 977 506 |
| `hub` | Changes of endpoint, failures, large frames and crashes | `RosterOfEndpoint`, `OneWay`, `WindowFollows`; `Recovers` | 2 endpoints, 3 sockets, 2 changes, 2 failures, 3 lines, 2 frames per read | 1 261 398 |
| `activation` | One click while roster and desktop change between any two awaits | `FocusConfirmed`, `LaunchJustified`; `ActivationEnds` | 1 agent, 1 activation, 2 addresses, 1 pid, 1 change of the roster, 3 of the desktop | 546 408 |
| `shortcuts` | Held keys while the module is built, replaced, rolled back, and loaded and unloaded by others | `KeysRouted`, `FailedLoadRestores`, `AvailableTruth`, `ForeignKept`; `OpenEnds` | 2 keys, 1 chord, 1 surface, 3 builds (this, an earlier, a foreign one), 1 act of others, 2 presses of the hotkey | 1 207 480 |
| `windows` | Opening, pinning and closing while registrations are in flight | `ShortcutsFollow`; `NotStranded`, `PinCompletes` | 1 conversation (two windows), 1 chord, 2 attempts, 4 acts of the user, 1 other event | 338 650 |
| `settings` | Manager, bridges and editor on one file | `OtherSurvives`; `MemoryIsFile` | 2 bridges, 2 values of a field, 3 acts of the user | 849 182 |
| `search_complete` | the finding of section 6 | `CompleteMeansExhausted` | the smallest that shows it | |

**Views.** `search_results`, `search_replace` and `ask_modes` count states through the
`VIEW Present` of their MC module, which leaves out what no guard and no property of the
run reads any more: how a decided permission was offered, clicked and decided; what was
found once the search is closed; what a snapshot showed once the next one is due (of
which the generations are kept). States that differ in nothing else have the same
future. No liveness is checked under a view, and the proofs have none.

**Why the bounds are enough.** Two queries are what it takes for one to be replaced, and
the code has no state that distinguishes the second replacement from the first except
the lane counters, which the proofs treat for every number. One lane per kind makes the
queue wait at once. Evidence of one and two paths make every second record overflow; the
newer path is the less relevant, so that keeping by relevance, or the oldest, differs
from keeping the newest. `search_results` has no helpers, so that records and flags are
explored in full, and `search_replace` has the rest with one path. Three index queries
allow one answered late, one waiting for the restart and one new; two roots change the
child. Two prompts and two bridges cross the end of a turn with the next, and an exit
with the restart. One prompt is enough for `ask_modes`, since permissions belong to a
turn and two of them already queue behind one dialog, and two switches go to yolo and
back. Three sockets are a draining one, a live one and the next; two changes return to
the first endpoint, so that a late roster of it is told from a new one by its connection
only. Activations share nothing that they write, so one of them shows what each does;
three changes of the desktop are what it takes to close the window chosen, use its pid
and its address again, and have the new window show the agent or not. In `shortcuts`,
one act of others unloads the module Ask found, or puts a foreign one into the gap that
`manage.mjs` itself makes when it replaces a build, or acts while a key is down (the
properties of the loader are proved for any number of acts); two keys are what it takes
for the release of one to take the entry of the other, the only thing keys share, and
the proofs have any number. In `windows` two attempts are the first and the last; four
acts open, pin, open the settings and close; the other event is the module going or
coming, a change of the chords or of the focus. Two bridges and the manager are three
writers, of which every two can cross; three acts are two saves and a change, or an edit
between them.

## 4. Fairness

- `FileSearch`, `LocalFairness`: the resumption of `startRequest`, the settling of
  helpers (`readOwnedOutput` has a timer), the emit timer, and the close of
  children that scan the base partition (`terminate` sends SIGTERM and then SIGKILL).
  A child blocked on a dead mount does not answer SIGKILL, so nothing is assumed
  of mounted scans: `LocalScansStart` holds with every mount stalled for good.
  `QuerySettles` does need them, and says so by its premise `MountsRespond`.
- `IndexWorker`, `TimerFairness`: only the two timers that `setTimeout` arms,
  which answer a query given to a stuck child. `EveryQueryAnswered` has the premise
  `ChildrenEnd`: a child that was sent SIGKILL exits, and one that exited closes.
- `IndexLane`, `LaneFairness`: both ends read their pipes, a run of plocate that does
  not end is stopped by its timer of 1.2 s, a run that is stopped is killed and
  closes, a process that shuts down exits (600 ms at most). `ProcessAnswers` has it as
  its premise and needs no timer of the client.
- `AskSession`, `Fairness`: the event loops of both processes, an agent that
  ends its turns and answers calls, a user who answers dialogs, and a bridge that
  exits once it shuts down (`shutdown` bounds each of its awaits). A crash, a lost
  agent or a new prompt is never assumed.
- `HubConnection`, `Fairness`: the event loops, the reconnect timer and the 2 s
  restart timer of the window; and that a hub that is asked eventually accepts and
  sends a snapshot. `Recovers` holds because failures and changes are bounded:
  it is the statement "once they stop".

- `HubActivation`: every await ends. The resolver is killed at its deadline (22 s at
  most), lookups have time-outs, a spawn emits `spawn` or `error`. The crash of the
  helper, which loses its activations, is not part of this module.
- `ModuleLoader`, `LoaderFairness`: each command of `manage.mjs` ends (`execute` has a timeout
  of 120 s), and its exit is noticed. `OpenEnds` needs no more.
- `AskWindows`, `AskFairness`: timers fire, `hyprctl` ends, its end and the lines of the
  event socket are heard. Nothing is assumed of the compositor: `NotStranded` and
  `PinCompletes` hold although it never maps a window and fails every call.
- `SettingsFile`, `SettingsFairness`: the save timer, the reads and writes of the
  manager, and the awaits of a bridge end. Changes are bounded; `MemoryIsFile` is the
  statement "once they stop".

## 5. What is proved

Eight modules are checked by TLAPS to the last leaf: `FileSearchProofs`,
`IndexWorkerProofs`, `AskSessionProofs`, `HubConnectionProofs`, `HubActivationProofs`,
`KeyRoutingProofs`, `AskWindowsProofs`, and `ManagerProofs`, about the two jobs of `Ask.qml`
(`ModuleLoader` and `SettingsFile`). They use the assumptions on constants in the modules
(`BoundsAssumption`, `LaneAssumption`, `WorkerAssumption`, `SessionAssumption`, `HubAssumption`,
`ActivationAssumption`, `RoutingAssumption`, `LoaderAssumption`, `ScopeAssumption`,
`WindowsAssumption`, `SettingsAssumption`) and the library's facts on finite sets and
sequences. Every invariant and every action property that a passing run checks is
proved; each inductive invariant was an invariant of a TLC run first.

**FileSearch**, for all numbers of queries, mounts, lanes, helpers and paths.
Type correctness is inductive with `Begun` (a query exists from the first
request on). `LaneAccounting` and `NoIdleLane` are not inductive alone: a
`SourceCloses` step decrements a counter whose value is only right if the counter of
the current query, the queue and the plan agree with the children. `Lanes` adds
`QueueShape` (what is queued is not running, and belongs to the plan) and
`Counters`. The one long lemma, `PumpLanes`, says what `Pump` does to these whatever
its arguments; each action is then one of its uses. From `Lanes` follow
`Accounting`, `WorkConserving`, and with one more lemma on helpers `Bounds` and so `LanesRight`.
`NoOldResults` (`OnlyCurrentQuery`) has two halves. That findings are the current query's is
inductive over `TypeOK`. That only the current query asks the workers and starts
children is a statement about steps, among them the resumption of any old `startRequest`:
it rests on the check after the `await` (`AsksStep`) and, for children, on
`QueueShape` (`StartsStep`).

`CoverageTrue` (`SettledTruth`) adds `Tracked`, the agreement of queue, statuses and children of
the current query (a scan is incomplete only because of one that timed out or failed),
and `Summed` (once settled, the done flags are what the statuses say). The close of an
old child calls `pump` too, and disturbs none of it only because the plan of a query
that is not scanning is empty; the premature `complete` of section 6 is that case.
`ShownAlways` needs no strengthening: each handler writes a snapshot or asks for one.
In `SettledTruth`, that a query which calls itself complete had all its helpers answered is
the invariant `Answered`. `BestAlwaysKept` (`BestKept`) compares what is kept with all that was
found (`Holds`): the step is that the best of what was kept and what is new are the best
of all (`MergedBest`), so that evicting early loses nothing, although a date may arrive
after its path and move it up. It rests on facts about ranked sets that need no
induction over data: `Before` orders the findings, a finding that is not among the best
n has n others before it (by a minimal element of the well-founded order of finite
sets), and what is dropped ranks before nothing that is kept.

**IndexWorker**, for any number of queries and roots, both modes, and with spawns
that throw or give no pipes: `IInv` is `TypeOK`, `AnsweredOnce`, `Attended`, `Lifecycle`
(which combinations of `ready`, the timers and `retiring` a child can be in) and
`Fresh` (a query number not made yet was neither told nor written). `AnsweredOnce`
needs `Fresh`, or a new query could already have been told; `Attended` needs
`Lifecycle`, or an armed startup timer might belong to no child. Each step asks,
answers, withdraws or leaves the promise alone (`StepAnswers`), which gives the
refinement `ImplementsPromise`. Spawns without pipes, which `worker` does not run, are
covered here for safety. `Attended` also says that the child is of the root of the
query it holds.

**IndexLane**, the client with its process: `LaneImplementsWorker` (`LaneSafety => Spec`) shows that
a step of the pair is a step of the client alone or none, so that the promise and
`Attended` carry over (`LaneKeepsPromise`). `LaneInv` adds the process: one run at a time, which
alone may be silenced (`OneRun`); queries are answered in the order in which they
were made (`Sequenced`, `Newer`); a run that lost rows and will answer knows it (`Honest`,
which gives `LaneTruthful`); and the query the client waits for is the newest not read,
or is kept or answered (`Awaited`, which gives `LaneNeverDrops`). `Awaited` alone is not
inductive: without the order of tokens a cancelled run might be the one waited for.

**AskSession**, for any number of prompts, corrections, switches, requests and bridges.
`IInv` has, beside the types of all lines in the pipes: `Life` (what each phase of the
bridge leaves in the pipes, and that `ready` comes once), `Turns` (one prompt at a time
is in one place: queue, pipe, agent, or answered), `SteerOrder` (a correction stays
behind the prompt it corrects, or that turn is over), `Switches` and `ModeKnown` (one
switch at a time; each line carries the mode the bridge has when it is read),
`AgentMatches` (with the mode the agent may have refused), `Clicks` and `Consent` (a
request is asked once, an answer in the pipe is the user's), and `DialogOrder`: a
request that is asked is open, or a line of a switch to yolo is behind it.
`DialogsMatch` looks at the set of lines only and is not inductive: that the switch
comes behind the request and not before it is what counts. Two more parts say that what
the window waits for is under way (`SteerHeard`, `SwitchHeard`). Reading and writing a
line of a pipe are lemmas of their own, so that each of the 29 actions is a few leaves.
The action properties (`SpecSteersOwnTurn`, `SpecDraftsKept`, `SpecConsented`) follow
from the same invariant.

**HubConnection**, for every set of endpoints and number of sockets: `IInv` is
`TypeOK`, `OneAttempt`, `Sockets` (an open or pending slot that is current was made
for the configured endpoint; a free one is neither current nor the stream) and
`RosterOfEndpoint`. A snapshot is accepted from the stream only, the stream is the
current slot, the current slot is of the configured endpoint: without `Sockets` the
chain breaks. `NeverGivesUp` excepts a frame that was too large (`overran`); with
`OneAttempt` it is `OneWay`. `Follows` (`WindowFollows`) needs the last line of each pipe
rather than its content: the last setting sent is the window's (`Told`), the last line
to the window is true of the helper now (`Shown`), and a window without a helper shows
nothing (`Cleared`). `Shown` holds of the last snapshot because the helper reports each
loss of the stream; a connection that is current never is one that is drained (`Undrained`).

**HubActivation**, for any agents, windows, processes and clicks. `Held` relates, for each
activation, what was listed, answered and chosen to the desktop as it was meanwhile.
A window that has shown the agent ever since the click was among those listed, so
`none` excludes it (`SteadyListed`, which gives `SpecLaunchJustified`). The window chosen is asked
about again (`Rounds`, `Vouched`), and since start times only grow (`Counted`, `Aged`), a client
that is still there with the same start time was there together with it (`Lived`, which
gives `SpecFocusConfirmed`): the two looks of the code are not atomic, and need not be.

**KeyRouting**, for every set of keys, chords, surfaces and builds, and for any sharing of
entries between keys. `RIInv` is `RoutingTypeOK`, `NoStuckKeys` and `Tracked`: what the module
remembers of presses is exactly the keys down that went to a client and are not
`orphans`, and the claimed keys are those that went to a hotkey client.
`ReleaseFollowsPress` follows from `Tracked` and is not inductive without it: a key that is
orphaned must never be remembered again before it is released, although another build
may have been loaded and may have forwarded presses since. The views, focus, lock and
registrations, on which the code might have based a release, do not occur in it
(`ViewSteps`).

**ModuleLoader**. `LoaderRoutes` (`ModuleSpec => RoutingSpec`) shows that every step of
the loader, of other processes and of Ask is a step of `KeyRouting` or none, which
carries `KeysRouted` over (`KeysSurviveLoads`) without a second proof. `OwnOnly` (a
loader past its decision replaces an earlier build of its own only) is inductive and
gives `ForeignSafe`, because each command that unloads names the build. `Traced` says
where the module that was found is at each command, unless others meddled or a command
deceived; at `failed` it is `FailedLoadRestores`. `Found` (a loader that says it is done
found or left a module, and while it runs Ask believes in none) and the types
(`LoaderTyped`) give `BelievesTrue`.

**AskWindows**, for every set of conversations and chords and any number of attempts:
`WindowsRoute` is the same refinement, and `AIInv` has, besides types, the relation
between the flags of `AskWindows` (what is pinned or being pinned is open; what is
visible is what they say) and `Claims`: for each window, what `ready`, a reply `ok` and
a call in flight each mean when the window is not `dirty`, and that a window that is not
ready has a call, a timer, or its attempts behind it. The reason a stale reply is never
taken for the truth is that every event that changes what is wanted or registered makes
the window dirty in the same step (`RestartedClaims`), or is an event still unread
(`Registration`).

**SettingsFile**, for any number of bridges and any edits. `UnrelatedSurvive` (`OtherSurvives`)
distinguishes a user whose file never had the unrelated fields (`Never`) from one who has
them: then everything that will be written or remembered has them, or is marked as
copied from a ruin (`Everywhere`), in whatever order the writers read, write and stop. And
until `spoilt`, nobody is about to write such a copy, and the file is a ruin only while
a bridge has it open (`Sound`).

**Only model-checked**: all liveness (`LocalScansStart`, `QuerySettles`,
`EveryQueryAnswered`, `ProcessAnswers`, `TurnEnds`, `Recovers`, `ActivationEnds`,
`OpenEnds`, `NotStranded`, `PinCompletes`, `MemoryIsFile`), since fairness and `ENABLED`
are out of the prover's reach. No module uses recursion, so nothing is left out for
that. The exceptions the properties make (`excused`, `stranded`, `unsaved`, `refused`,
`left`, `orphans`, `overran`, `spoilt`, section 6; and `overtaken`, which a liveness
property makes) are part of the theorems. The proofs also cover instances that no run
explores: spawns without pipes, any number of keys, of acts of others, of activations at
once and of conversations.

Each property of a passing run has a mutant: a definition of the module changed
as a plausible bug would change it (a dropped check of the generation, a timer not
cleared, a lane not released), under which the same run must find the property
violated. The mutated forms are the operators marked `Mutant` beside the originals.

## 6. Findings

`search_complete`: while the new query still waits for its mount table, the close
of a replaced query's scan calls `pump(this.current)` (file-search.js 957); nothing is
queued or active, and it publishes `complete: true` without a scan. Starting the scans
does not correct it: `fileDone` is computed again only when nothing is queued or active
once more, and snapshots say `complete: true` until then, unless the plan is incomplete or
a scan fails or times out. `SettledTruth` holds: what a query says last is right.

Exceptions that the properties of passing runs name, where the code does
something else than one would expect:

- A child without pipes (spawn out of descriptors, file-search.js 603) is retired and
  waited for, but it has no `close` event: every later query of that worker waits
  until it is replaced. `worker` runs with `Spawns` that throw only.
- A switch to yolo is applied to the agent before `ask.json` is written; when the write
  fails (bridge.js 64, 74) the window shows Ask and the agent stays in full access
  (`unsaved`).
- `permissionModePending` survives `restartSession` (Conversation.qml 1582-1592; `stranded`).
- A frame above 4 MiB destroys the stream and schedules nothing (agentd-hub.js
  104; `overran`).
- An agent that rejects `setSessionMode` at the start of a session runs in its own mode,
  and bridge and window show the one in the settings (bridge.js 260; `refused`).
- A prompt that is rejected while permissions are pending leaves them in the bridge
  (bridge.js 380-385), and the window clears their dialogs (Conversation.qml 1561): the
  agent's requests wait until a switch to yolo allows them or the bridge ends (`left`).
- A bridge truncates `ask.json` and fills it later (bridge.js 74). One that exits or fails in
  between leaves an empty file, and two that do so at once may leave a garbled one; the
  manager or another bridge that reads meanwhile takes all fields for unset and may
  save that (`spoilt`): "unrelated settings fields must survive an Ask settings save"
  (docs/agent-search.md) does not hold then. Nothing else loses them.
- A mode is confirmed to the manager after the file was written, so the confirmation may
  come when the manager has already read another bridge's mode in the file: it then
  remembers one mode and the file says the other (Ask.qml 352, `overtaken`), until the next
  reload, or until its next save writes the one it remembers.
- A key given to Ask whose module is unloaded before it is released: the release goes to
  the bindings, and Ask's surface sees the press only (`orphans`); a lock screen does the
  same. The compositor holds keys by symbol and keycode without the device, so that the
  release of one key drops another, still down on a second keyboard, from the keys held
  (`eclipsed`): it does not count for a multi-key binding any more. No key stays held.
- A module that another process unloads between the last command of `manage.mjs` and its
  exit leaves `available` true with no event to come (`excused`).

Observed besides, without a property: a snapshot of the old endpoint that is already in
the pipe when the endpoint changes is taken after `configure()` has cleared the roster;
its rows are shown as not reachable, and stay until the new hub sends a snapshot
(`WindowFollows` says no more than the code keeps); a valid frame behind a rejected one
in the same read is accepted although its stream was destroyed; two activations of one
agent at once may each find no window and each open a terminal; the transport preference
is read at the click, and a change of it meanwhile is not seen; a settings change that a
reload of the file overtakes within its 200 ms is lost; a flush restores the mode the
manager last read or was told, so it may take back a switch that a bridge has written
and not yet reported (Ask.qml 70, 166), and edits made by hand between its read and its
write; the settings window registers its shortcuts under the title "Ask Settings", which
the module refuses (`isAskView` accepts windows named "Omarchy Ask #..." only), so that
it is admitted after five attempts and has none.

## 7. Not modelled, and the plan

Not modelled: the ranking, parsing and layout of the menu (pure functions of the
text, redone on every change), the transport policy and the command lines of a
launch, the round trip of the clipboard, the settings window's form and scope,
the walk of the file system, and the vendored resolver. They keep no state that
two handlers share, except the clipboard and the selection of the menu, which are
in the plan.

Written, in this order: `FileSearch`, `IndexWorker` with `AnswerOnce`, `AskSession`,
`HubConnection`, `HubActivation`, `KeyRouting`, `ModuleLoader`, `ShortcutScope` with `AskWindows`,
`IndexProcess` with `IndexLane`, `SettingsFile`. Next:

1. Proofs: that `AskSession` implements a specification of consent without pipes.
2. The clipboard round trip of `AskSession` (`pendingClipboardId`): a paste is never
   attached to a draft it was not meant for.
3. The selection of `MenuSearch.qml` over the snapshots of `FileSearch`: the selected row
   stays the one the user chose.
4. A composition of `FileSearch` with two `IndexWorker`s, where `IndexAnswers` is implied by
   `KeepsPromise`.
5. The settings window as a third surface of `AskWindows`, and two conversations whose
   panels have the same name.
