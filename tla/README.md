# TLA+ models of dde-cooperation

These TLA+ modules model the concurrency-bearing parts of the cooperation
daemon and its libraries. TLC checks them under the configurations in this
directory. `PROJECT.json` lists the following:

- every component, with its status;
- every run and the properties it checks;
- the mutants that show each property can fail;
- the source lines each definition translates;
- the findings;
- the hazards the code is exposed to.

## The system

The compat daemon (`src/src/compat/plugins/daemon`) accepts TLS RPC
connections on two ports: control (`UNI_RPC_PORT_BASE`) and bulk transfer
(`UNI_RPC_PORT_TRANS`). The RPC service puts each decoded request (an
`IncomeData` envelope with a `ChanType` kind and a JSON body) on the global
channel `_income_chan`, which holds 10 envelopes and has a 300 ms timeout.
`HandleRpcService` reads that channel.

The handler for each kind updates shared state:

- the session status `Comshare::_cur_status`;
- the share address `share_connect_ip` announced by discovery;
- the RPC sender used to reach the peer's cooperation app;
- the heartbeat maps `_ping_lost_count` and `_remote_ping_ips`.

The handler's answer goes on `_outgo_chan`, which holds 10 answers and has a
20 ms write timeout.

Three threads touch the heartbeat maps, all under `QWriteLocker _lock`:

- the dispatcher loops, through handleRemotePing and the login and transfer
  handlers;
- the Qt event loop, through the 1 s `_timeOut` QTimer (handleTimeOut) and the
  queued `startTimer` signal (handleStartTimer);
- the transport's close callback (handleOffline).

The other components are listed in `PROJECT.json`:

- the zrpc channel;
- the file appender;
- the unzip (restore) worker.

They are not modelled yet.

The compat wrapper (`src/src/lib/cooperation/core/net/compatwrapper.cpp`) is
the front-end's bridge to the compat daemon. A single-shot timer connects to
the daemon's IPC server (retrying every 2 s while it is down), binds the
daemon's `cooperationSignal` to `ipcCompatSlot`, and registers the
application. The slot parses each message and, by type, posts a queued call
to the discovery controller, transfer helper or share helper, or emits
`compatConnectResult` directly.

The settings store (`src/src/lib/cooperation/dfmplugin/configs/settings/settings.cpp`)
keeps a writable layer in memory over a JSON setting file. Edits set a dirty
flag; `sync()` writes the file. With auto-sync on, a single-shot 1 s timer
syncs. With watching on, a file watcher reloads the file when anyone,
including `sync()` itself, writes it.

The backup worker `ZipWork` (`src/src/lib/data-transfer/core/gui/getbackup/zipworker.cpp`)
is a QThread. It packs the selected files into a zip archive chunk by chunk
and reports each step with a signal. The signal is queued to the GUI thread's
`ZipFileProcessWidget::updateProcess`, which shows the progress and moves to
the result page on a report of 100 (done) or -1 (failed).

The session worker (`src/src/lib/common/manager/sessionworker.cpp`) is the
newer transport of the front-end. It connects out to one peer at a time
through a single ProtoClient, and accepts peers on a ProtoServer. The caller
runs on the Qt thread. The client's connection completes later on the asio
thread, which calls `onStateChanged`; on `RPC_CONNECTED` that records
`_connectedAddress`.

The edge-flow controller `DisplayServer`
(`src/src/dde-cooperation-daemon/DisplayServer.cc`) runs on every screen of a
share. It watches pointer motion, asks the `Manager` (which owns the screen
topology) to flow the pointer out at an edge, and takes it back with
`flowBack`.

## Modules

| Module | Models | State ↔ code |
|---|---|---|
| `Liveness` | heartbeat supervisor in `handlerpcservice.cpp` | `pingLost` = `_ping_lost_count`; `remoteIps` = `_remote_ping_ips`; `timerActive` = `_timeOut.isActive()`; `startQueued` = queued `startTimer` events; `status`, `binding` = login effects |
| `RpcHandlers` | each remote handler as a pure operator on `[status, shareIp, sender]` | `status` = `_cur_status`; `shareIp` = `share_connect_ip`; `sender` = SendRpcService sender for the cooperation app |
| `SerialDispatcher` | the spec's promise: one envelope at a time, in arrival order up to swapping envelopes whose handlers commute (`Commute`, `HandleAt`), and a share apply from a second peer rejected with no effect (`Promised`) | `pending` = received but unhandled envelopes |
| `Dispatcher` | the receive loop of `startRemoteServer`, started once per port on the same channel | `income` = `_income_chan`; `pc`/`cur` = position and envelope of each loop; `outgo` = `_outgo_chan` fill |
| `EdgeFlow` | `DisplayServer` on each screen, composed through the Manager's topology | `width`/`height` = `m_screenWidth`/`m_screenHeight`; `lastX`/`lastY` = `m_lastX`/`m_lastY`; `detecting` = `m_startEdgeDetection`; `hidden` = `hideMouse`; `cursor` = last `moveMouse`; `flow` = the flow-out the Manager is handing over |
| `TokenBucket` | `TokenBucket::Consume` called by several threads | `time` = `_time`; `clock` = `Timestamp::nano()`; `now`, `delay`, `minTime`, `oldTime`, `newTime` = the locals of each call; `pc` = where each call is |
| `Settings` | the settings store: writable layer, setting file, auto-sync timer, watcher | `writable` = `SettingsPrivate::writableData`; `file` = the setting file's contents (`NoFile` when it does not parse); `dirty` = `settingFileIsDirty`; `autoSync` = `autoSync`; `timer` = `syncTimer` (none, stopped, running); `watching` = `watchChanges`; `pending` = a watcher notification not yet delivered; `foreign` = history: another process wrote the file since the last load or sync; `emitted` = the `valueChanged` signals of the last step |
| `Backup` | `ZipWork::backupFile` and `ZipFileProcessWidget::updateProcess` | `wpc` = where the worker thread is; `idx`/`chunk` = file and chunk being copied; `zipFileSize` = `zipFileSize`; `archive` = state of the zip on disk; `abort` = `abort`; `queue` = queued `backupFileProcessSingal` reports; `page` = the widget's page |
| `SessionWorker` | the session worker's calls and the asio thread's callbacks | `clientAddr`/`clientState` = the address `_client` was made for and its connection; `connectedAddress` = `_connectedAddress`; `loginHosts` = `_login_hosts`; `listening`/`inbound` = `_server` started and its peer sessions; `requested` = history: the address last asked for |
| `CompatWrapper` | `CompatWrapperPrivate`'s backend timer and `ipcCompatSlot` | `timer` = `ipcTimer`; `backendOk` = `backendOk`; `slots` = bindings of `cooperationSignal` to the slot; `chan` = signals not yet run; `posted` = queued `invokeMethod` calls; `delivered` = calls that reached their receiver; `daemon`, `sent`, `handled` = environment and history |
| `MC_Liveness`, `MC_Dispatcher`, `MC_EdgeFlow`, `MC_TokenBucket`, `MC_Settings`, `MC_Backup`, `MC_SessionWorker`, `MC_CompatWrapper` | model values and scenario definitions for the runs | |

### Liveness

Each handler that touches the heartbeat maps is one action:

- `RemotePing`;
- `TimeOut`;
- `StartTimer`;
- `Offline`;
- `RemoteLogin` together with `RpcLogin`;
- `RemoteApplyTransFile`;
- `TransJob`.

`TimeOut` is the whole loop of handleTimeOut. Every tracked app is either
reported and removed (`Expired`, count > 3) or incremented. A ping with a
`search-ping` address returns early.

Peers are the environment (`PeerStops`, `PeerRestarts`). Three history
variables serve the properties:

- `silent` counts ticks since the last ping;
- `noPingNotes` counts NOPING_TIMEOUT notices;
- `connCbNotes` counts CONNCB_TIMEOUT notices.

All three are reset by a ping, which is where `cancelOfflineStatus` withdraws a
pending notice.

A data race on `_timeOut.isActive()` is read from the dispatcher thread. The
model covers it by letting a stale read request one more start; handleStartTimer
ignores that start.

### Dispatcher

Each loop takes these steps:

1. `Receive` takes the head of the channel. An unparsable body is dropped, and
   the loop continues.
2. For the kinds the switch answers first (`ReplyFirst`), `PushOut` queues the
   answer. If the answer channel stays full for the write timeout, the answer
   is lost.
3. `HandleEnvelope` applies `RpcHandlers!Handle`.
4. For the kinds in `ReplyLast`, `PushOut` then sends the answer after the
   handler. These are:
   - `AnsweredByHandler`: login, job, file block, cancel and report, whose
     handlers write their own answer last;
   - `DiscoveryAnswered`: the discovery kinds;
   - the default case, which pushes UNKOWN.

`LOGIN_CONFIRM` and `LOGIN_RESULT` are never answered.

`ReceiveTimeout` is the 300 ms receive timeout on an empty channel.

Three actions are the environment:

- `Arrive`: the RPC producer, which blocks when the channel is full;
- `Drain`: the reader of answers;
- `ApplyShare`: the local front-end asking to share with a peer.

None of these three is under `src/`, so they follow the spec and are marked
`spec_modelled` in the map.

`taken` records the envelopes taken but not yet handled, in the order they were
taken. The refinement mapping `pending <- taken \o income` turns the two loops
into the serial dispatcher. When that mapping fails, a handler has run out of
arrival order.

The handlers are atomic steps. The window inside `handleRemoteShareConnect`,
between reading `share_connect_ip` and writing the status, is not split yet.

The heartbeat effects of the same handlers are in `Liveness`, not here, to keep
each state space small. Both modules model a handler's complete effect on their
own state.

### EdgeFlow

The actions are the four methods of `DisplayServer.cc`:

- `Motion` is `handleMotion`: `EdgeOf` is its do-while edge test, in the
  code's order (left, right, top, bottom). An edge fires only when the
  coordinate equals the previous one. It then calls `FlowOut`, and finally
  stores the position.
- `FlowOut` is `flowOut`. When the Manager accepts, it stops edge detection
  and hides the cursor.
- `FlowBack` is `flowBack` on the screen the Manager hands the flow to. It
  remaps the coordinates (`FlowBackCoords`), moves and shows the cursor, and
  re-arms detection. It leaves `m_lastX`/`m_lastY` alone.
- `ScreenSizeChange` is `handleScreenSizeChange`.

The Manager, `DisplayServer.h` and the input backend are not under `src/`.
They follow the spec:

- the Manager accepts a flow-out when a neighbour lies in that direction and
  no other flow is in flight;
- it passes the direction and coordinates through unchanged;
- motion is delivered only while edge detection is on.

The constructor does not set `m_lastX`/`m_lastY`, so `Init` lets them start at
any on-screen position.

### TokenBucket

Each call of `Consume` takes three kinds of step, and other threads may run
between any two of them:

- `Begin` reads the clock and computes `delay` and `minTime` (lines 13-15).
- `Load` loads `_time` and shifts it up to `minTime` (lines 16-21).
- `Attempt` is one pass of the loop (lines 27-38). It either returns false
  (`OutOfTokens`), or its exchange succeeds and it returns true, or its
  exchange fails and it restarts from the value it observed (`Observed`).

The weak exchange may also fail spuriously, at most `MaxSpurious` times per
call. `Return` resets the locals of a finished call, since they are dead.

The code computes in `uint64`. The model scales time to small numbers and
takes every word modulo `2^W`, with every true value below `2^W`, so each
subtraction and addition wraps where the code's does. The clock starts at
`ClockStart` and only moves forward (`Tick`). The history variable `grantsAt`
counts the tokens granted to calls that read each clock value.

### Settings

Each public operation is one action, with the sync it triggers included:

- `SetValue`, `Remove`, `RemoveGroup`, `Clear` edit the writable layer and
  raise the flag (`MakeDirty`). Raising it with auto-sync on starts the timer
  (`TimerAfter`, from `makeSettingFileToDirty`).
- `Sync(o)` and `TimerFires(o)` run `sync()` (`SyncBody`) with outcome `o`,
  and `Written(o)` is the file it leaves. The outcomes are:
  - the file is written;
  - it cannot be opened;
  - the write is cut short after the truncating open, which leaves the flag up;
  - `file.write` buffers the whole JSON, the flag is cleared, and the flush in
    `close()` fails, with its error ignored (`settings.cpp:612-614`).
- `SetAutoSync` turning auto-sync on while dirty calls `sync()` before the
  timer exists. A write that returns the full size (buffered, whether or not
  its flush would succeed) then dereferences the null timer: the process dies
  with the file truncated and unflushed (`Construct(NoFile)`, the restart). `SetWatchChanges` turns the watcher on or off.
- `FileChanged` is the watcher's `_q_onFileChanged`: the file is reloaded and
  the flag lowered. `ExternalWrite` is another process writing the file.
- `Restart` is the destructor (sync if dirty) followed by the constructor.

`value()` reads the writable layer, then the fallback layer, then the
default layer (`LayerValue`, `ValueOf`); the two read-only layers are the
constants `FallbackVal` and `DefaultVal`. Each editing action also records
the `valueChanged` signals it emits in `emitted`:

- `setValue` emits when the key was in the writable layer, or when the value
  it shadows differs (`settings.cpp:485`);
- `remove`, `removeGroup` and `clear` emit the value now visible for each
  key they take out (`LeftNotices`);
- `_q_onFileChanged` compares old and new writable data key by key
  (`Announced`, `ReloadNotices`).

The read API is modelled as operators over the three layers: `Contains`
(`contains`, with the empty key meaning the group), `GroupsOf` (`groups`),
`KeysOf` (`keys`) and `KeyList` (`keyList`). `keyList` takes the keys in the
order of the default layer's and then the fallback layer's key-order lists
(the constants `DefaultOrder` and `FallbackOrder`), each key once, then the
rest in any order; `TakeOrdered` is one step of that fold. The writable
layer's own order list comes from a `__metadata__` group in the setting file;
`toJson` never writes private groups, and the model's other writers write
values only, so that list is empty and its keys come last.

### CompatWrapper

- `TimeConnectBackend` is `onTimeConnectBackend`: the connect succeeds
  exactly when the daemon's server is up; on success one more binding of the
  signal to the slot is made, and on failure the timer is started again
  (`RetryAfter`).
- `IpcCompatSlot` runs the slot on the oldest signal. `Calls` is its switch:
  a message whose JSON does not parse is dropped; `PeerCalls`,
  `TransferCalls`, `ShareCalls` and `StatusCalls` give the calls of each
  group of types. `Via` splits them into direct emissions, which reach their
  receiver at once, and queued calls, which are posted.
- `DaemonStart`, `DaemonSend` and `Deliver` are the environment: the daemon
  coming up, sending a message (delivered once per binding), and the event
  loop running a posted call. The daemon, its IPC server and the event loop
  are not under `src/`.

Once the wrapper is bound and every message is handled nothing is enabled:
the front-end then idles, which is why `CompatWrapper.cfg` does not check
deadlock.

### Backup

The worker's flow is `Create` (open the archive), then `Entry` (per file: the
abort check, the source open, the entry open), `Chunk` (one pass of the copy
loop, with its progress report) and `Close` (close and check the error). Each
failure reports -1 through `Fail`. `AboutToQuit` sets `abort`. `Deliver`
is `updateProcess` on the oldest queued report. The selected entries are a
tree. `AddFolderToZip` gives the files in the order `addFolderToZip` visits
them, and each file is a number of `BUFFER_SIZE` chunks. `Progress` is the clamped percentage of
`sendBackupFileProcess`. The time estimate and the labels are text and not
modelled.

### SessionWorker

- `ClientPing`, `ConnectRemote`, `DisconnectRemote`, `StartListen` (with
  `Listen`) and `Stop` are the worker's public calls. `ConnectNext` and
  `ConnectResult` are `connect()`: the new client it makes, or the existing
  one it keeps when the address equals `_connectedAddress` (`ConnectKeeps`),
  and what it returns.
- `ConnectRemote` sends the login with `SendRequest` on the state `connect`
  left, and records in `loginHosts` whether the mask is `LOGIN_SUCCESS`.
  `OnReceivedMessage` is the peer's handler, reduced to the mask it returns.
- `Connected`, `ConnectFailed` and `Dropped` are the asio thread completing,
  failing or losing the connection, each calling `OnStateChanged`.
  `PeerSession` is a peer opening or closing a session on the server.

ProtoClient and ProtoServer are not under `src/` and not in the spec. Their
behaviour is what the worker's calls imply: `ConnectAsync` starts an attempt,
returns false while one is in progress or established, and `IsConnected` is
true only once the asio thread completed it.

## Runs

| Run | Expect | Shows |
|---|---|---|
| `liveness` | pass | `TypeOK`. `ReportedOncePerReason`: each path reports a loss at most once until the next ping. `OfflineOnlyAfterSilence`: a NOPING notice only after more than LostLimit+1 silent ticks. `SilentPeerDropped` (liveness): a watched peer that falls silent is dropped. |
| `dispatcher` | pass | `TypeOK`. `EveryEnvelopeHandled`: with two loops, a full answer channel nobody reads, and unparsable envelopes, everything received is handled or dropped. |
| `dispatcher_serial` | violation | `SerialRefinement`: the dispatcher implements the serial dispatcher, which handles envelopes in arrival order up to swapping handlers that commute. Peers send only SHARE_START and SHARE_STOP, which do not commute. The second loop handles p1's SHARE_STOP before the SHARE_START that arrived first, so the share ends in SHARE_START. |
| `edge_flow` | pass | `TypeOK`. `OnePointer`: detection is on for at most one screen, for none while a flow is handed over, and never on a screen with a hidden cursor. |
| `edge_flow_entry` | violation | `EnteredAtOppositeEdge`. A flow back from the right-hand screen puts the cursor at `x = m_screenWidth`, one column past the right edge where it should enter. |
| `token_bucket` | pass | `TypeOK`. `ConsumeReturns` (liveness): every call returns despite contention and spurious failures. |
| `token_bucket_retry` | violation | `BurstBound`. A call that loses the exchange retries without the burst shift and over-grants. |
| `settings` | pass | `TypeOK`. `ReadsAgree`: `contains`, `groups`, `keys`, `keyList` and `value` agree in every state, and `keyList` names each key once although both order lists name it. |
| `settings_silent` | violation | `NoSilentChange`: apart from `reload()` and an exit whose last sync fails (`ExitLoss`), `value()` changes only through an edit or a foreign write. The change is announced by `valueChanged` with the new value, unless the program restarted on a foreign file. The trace is the unannounced first `setValue` (`settings.cpp:485`). Five defects each violate it on their own (see Findings). |
| `compat_wrapper` | pass | `TypeOK`. `HandledOnce`: whether the daemon is up before or after the front-end, every message runs `ipcCompatSlot` at most once. `BackendBound` (liveness): if the daemon comes up, the wrapper is eventually connected and bound. |
| `session_stale_target` | violation | `ConnectsToRequested`: after `connect(address)` the client in use is one for that address. After a1 connected, a ping to a2 replaces the client; a ping to a1 during a2's attempt keeps a2's client, because a1 is still `_connectedAddress`. |
| `backup_result` | violation | `ResultAfterFinish`: the result page only after the worker finished. The last chunk's report is clamped to 100, and the page moves on before `zip.close()` and its check. |

### Bounds

**Liveness.** Two apps ping from one address, so the transport-close path
reaches both of them. `MaxSilence` is 6, which is above the 5 ticks the report
needs. `MaxQueued` is 2 queued timer starts, and `MaxNotes` is 2, so a second
notice is visible.

**Dispatcher.**

- The passing run uses two peers, each sending up to 2 envelopes.
- The input channel has capacity 1, so producers block. The answer channel has
  capacity 1, so answers are lost.
- The kinds cover every shape the loop treats differently: answered after the
  handler, answered before it, not answered, unparsable, and the share apply and
  reply.
- The violation runs each use the two kinds of their scenario.

With two loops, reordering needs only two envelopes in flight. The serial run
sends only SHARE_START and SHARE_STOP (`MCStartStop`). These are the kinds
whose reorder the finding is about, so its trace cannot be a harmless
reorder or the share-apply defect.

**EdgeFlow.** The passing run uses three screens: the controller, one to its
right and one below it. Widths are 2 or 3 and the height is 2, so every edge
test and every size change is reached. The violation run uses two 3×3 screens side
by side.

**TokenBucket.**

- One token costs 1 time unit and a burst is 2, so the bucket holds two
  tokens. Calls ask for 1 or 2 tokens.
- Words are 4 bits wide, and the clock runs to 4, 5 or 7.
- `token_bucket` starts the clock at 0, below one burst, so the wrap happens.
  Its calls ask for one token, to keep the liveness check small.
- `token_bucket_retry` starts at 2, one burst, so that only the retry is at
  issue. It uses a strong exchange (`MaxSpurious = 0`, as on x86). A single
  spurious failure reproduces the retry defect with one thread.
- `GrantCap` (3) saturates the history above the two-token burst. It can hide
  a violation, but never creates one.

**Settings.** Two groups, one key, two values: enough for `removeGroup` to
keep another group's entry, and for an edit to differ from the file.
Group g1 has default v1 and fallback v2; g2 has neither, so every case of
the layered lookup (writable, fallback, default, absent) occurs.
Both settings cfgs allow all four write outcomes. `NoSilentChange` excuses a
failure of the destructor's sync at exit, since nothing can report it. So a
failed open or a cut-short write that the program reports is not a
violation. A flush failure that leaves the store clean is one. The order lists name k for g1 in both layers, so `keyList` must drop
the duplicate, and only in the fallback for g2.

**CompatWrapper.** The daemon sends at most 3 messages (`MaxMsgs`), drawn
from six shapes that the slot treats differently: a found peer with the
cooperation app (queued add), a lost peer without it (queued remove), a
connect result (direct), a share request (queued), a failed login status
(direct), and unparsable JSON. The daemon may be up at start or come up
later, so both the retry and the first-try connect occur.

**Backup.** A folder holding a file of 2 chunks and an empty folder, then a
file of 1 chunk. The backup size equals their total (3 chunks), and every I/O
call may fail. `AddFolderToZip` flattens the tree in the order
`addFolderToZip` visits it. The size is exact, so
the early 100 is not caused by a wrong size estimate.

**SessionWorker.** Two peers, which is the least for a client to be
replaced. Every step of the asio thread and of the peers is free to happen
at any point.

### Fairness

`TimeOut` and `StartTimer` are weakly fair, because the QTimer keeps firing
once started and the event loop handles queued signals. Each dispatcher loop
step is weakly fair, because the coroutine scheduler runs ready coroutines and
both channel operations time out. Peers, the RPC producer and the answer reader
get no fairness. `EdgeFlow` checks only safety, so it assumes no fairness. The steps of a
`Consume` call are weakly fair, because the operating system runs runnable
threads and the code takes no lock. Callers and the clock get no fairness.
`Settings` makes the running sync timer and a pending watcher notification
weakly fair, since the Qt event loop delivers both. Its runs check only
safety. `Backup` and `SessionWorker` check only safety. In `CompatWrapper`
the timer, the slot and the delivery of posted calls are weakly fair, since
all three run on the front-end's Qt event loop; the daemon gets no fairness.

## Findings

- **Three ticks versus five (spec_code_divergence).** The code reports a lost
  app on the 5th tick (`count > 3` after take-and-reinsert). The spec says 3.
  The `liveness` run pins the code's behaviour. `OfflineOnlyAfterSilence`
  (with `LostLimit + 2 = 5`) says no notice comes earlier, and
  `SilentPeerDropped` says one always comes.
- **A stale connected address keeps the wrong client (code_bug).** `connect`
  reuses the client whenever the address equals `_connectedAddress`. Nothing
  clears that address, and it is not the address the current client was made
  for.
- **Two consumers on one channel (spec_code_divergence).** The loops started for
  both ports take from one `_income_chan`, so arrival order is not kept. A STOP
  can be overtaken by its START, which leaves the status SHARE_START.
- **Left flow-back off the screen (code_bug).** `flowBack` sets
  `x = m_screenWidth`, one past the last column.
- **Only the left direction is remapped (spec_code_divergence).** A flow up
  enters at the top edge. With the left remap corrected, `edge_flow_entry`
  would fail on this one.

- **Retry without the burst shift (code_bug).** After a failed exchange,
  `Consume` restarts from the observed `_time` without shifting it to
  `minTime`. The call then over-grants.

- **Auto-sync turned on with unsaved changes loses the settings (code_bug).**
  `setAutoSync(true)` syncs before creating `syncTimer`. The successful
  write's `makeSettingFileToDirty(false)` dereferences the null timer after
  the file was truncated and before it was flushed. With only successful
  writes and the other defects of this list corrected, `settings_silent`
  fails on this one alone.
- **A new value over a default is not announced (code_bug).** `setValue`
  emits only if the key was in the writable layer or `value(key)` differs,
  and it compares against the key instead of the new value
  (`settings.cpp:485`). Shown by `settings_silent`.
- **Reload ignores a write equal to the default (code_bug).** In
  `_q_onFileChanged` a key new to the writable layer is announced only if it
  differs from both the fallback and the default (`settings.cpp:214`), even
  though `value()` returned something else before. Alone (only successful
  writes, the other defects corrected), `settings_silent` fails this way:
  another process writes v1 over the fallback's v2 and the reload emits
  nothing.
- **The watcher's echo of a sync discards a later edit (code_bug).** `sync()`
  writes the file and the watcher reports that write later
  (`settings.cpp:196`). A `setValue` made in between is lost when
  `_q_onFileChanged` reloads the older file and marks the store clean. A
  report of another writer's change that `reload()` already took in does the
  same to an edit made after the reload. Alone, `settings_silent` fails this
  way.
- **A failed flush leaves the store clean and the file empty (code_bug).**
  `sync()` takes `file.write(json) == json.size()` as success. The JSON is
  only in QFile's buffer, and the flag is cleared (`settings.cpp:612`) before
  `close()` flushes it with its error ignored (614). After a failed flush,
  `sync()` returns true on a truncated file, and the next start loads nothing.
  With the four defects above corrected, `settings_silent` fails on this one:
  `setValue`, then `setAutoSync(true)` whose sync's flush fails, then a
  restart.
- **Result page before the backup is finished (code_bug).** `updateProcess`
  takes any 100 as completion, but the progress report of the last chunk is
  clamped to 100 before the archive is closed and checked. A close that then
  fails reports -1 to a page already showing the result.

Some observations have no run of their own. They are recorded as hazards in `PROJECT.json`:

- One loss is reported by both the NOPING and the CONNCB paths, because each
  path erases only its own map. The spec says exactly one notice.
- `flowBack` never sets `m_lastX`/`m_lastY`, so the first motion on an edge can
  flow the pointer straight back. The spec's test expects them to be updated.
- `SessionWorker::onReceivedMessage` overwrites the login's `LOGIN_SUCCESS`
  or `LOGIN_DENIED` mask with `DO_SUCCESS` after the switch. So the client's
  test of the mask does not depend on the PIN. The mask values are in a
  header outside `src/`.
- `connect` returns `IsConnected()` right after `ConnectAsync`. A first
  `connectRemote` to a new peer therefore returns false without logging in.
- In `CompatWrapper`, `FRONT_SERVER_ONLINE`, sent by a restarted daemon, is
  ignored and `backendOk` stays true, so the front-end never rebinds after a
  daemon restart. `compatConnectResult` is emitted directly while other
  results of the same slot are queued, so a connect result can overtake
  earlier queued calls.
- `handleRemoteShareConnect` binds the sender to the applicant
  (`createRpcSender`, `setTargetAppName`) before the already-connected check
  (`handlerpcservice.cpp:255`). So a rejected apply still redirects the
  established session's sender. `SerialRefinement` rejects this, because
  `Promised` gives a rejected apply no effect. The serial run sends only
  start and stop, so no run shows it.
- While the clock is below one burst time, `now - _time_per_burst` wraps to
  near 2^64. `newTime + delay` can then wrap back below the clock, and the
  call is granted while `_time` does not move. I checked this outside the
  runs, with the clock starting at 0: three one-token calls at clock 1 are all
  granted, breaking `BurstBound`. `token_bucket_retry` starts at one burst, so
  that its trace is the retry defect.

## Not modelled yet, and plan

1. **zrpc RpcChannel.** The global long-connection client shared across
   addresses.
2. **SessionWorker, further.** The login's PIN check, and the transfer
   requests' signals.
3. **CompatWrapper, daemon restart.** The model starts the daemon once. A
   restart (the IPC server going down and `FRONT_SERVER_ONLINE` being
   ignored) needs the IPC library's disconnect behaviour, which is outside
   `src/`.
4. **FileAppender.** PrepareFile retry and the truncating reopen after a
   write error.
5. **UnzipWorker.** Restore progress parsed from unzip's output (a failed
   parse reports -1), `isValid`'s early return of 1, and its
   backup counterpart composed on the archive a failed backup leaves.
6. **Two-daemon share protocol.** Two `RpcHandlers` instances joined by the RPC
   messages the handlers send (controller and target). This composition would
   also split `handleRemoteShareConnect` at its read of the share address.

`reload()` and `sync()` emit no `valueChanged`, as in the code. The other GUI widgets, data directories, QuaZip info, and the logging and
exception helpers are presentation or I/O. They are not modelled (see
`PROJECT.json`).
