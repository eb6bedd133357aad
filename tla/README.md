# Verification of the lab monitoring system

The system watches and controls the machines of a computer lab. A **Client
Agent** runs on every machine, **Admin consoles** show the machines and send
commands, and one **Engine** between them keeps all connections and an SQLite
database. This directory holds TLA+ modules translated from the Python code, TLC
configurations that check them on small instances, and TLAPS proofs of what
matters most for every value of the constants.

`PROJECT.json` ties it together: which definition models which lines, which run
checks which property, a mutated form of the code that breaks each property, the
hazards, and the theorems.

Check a run with `tlc -config sessions.cfg MCSessions.tla`, a proof with
`tlapm SessionsProofs.tla`.

## 1. Inventory

### The parts and how they interact

```
  Client Agent (one per machine)            Engine (one asyncio loop)                Admin console
  main loop, heartbeat, watchdog  --TCP-->  handle_client per connection   <--TCP--  backend, models
  executor, lockout, policy                 registry, watch list, outbox
  overlay / dialog processes                reaper, renewer, prune task
  Scheduled Task (every 5 min)              SQLite: clients, command_log, samples
```

A peer sends REGISTER, the Engine answers; from then on both ends exchange JSON
messages. A console's command goes `engine/routing.py` ->
`engine/command_handler.py` -> the client's writer, or into the outbox if the
client is away; the client's answers are persisted and relayed to the consoles.

| Component | Keeps | Operations | What is hard | What makes it correct |
|---|---|---|---|---|
| **Connection lifecycle and registry** (`engine/main.py`, `connection_manager.py`) | handlers, `_connections`, `last_seen`, `clients.status` | handshake, capacity, store, ack, read loop, cleanup, reap | reconnects overlap with the cleanup of the old connection; silent peers; a reaper that waits in the middle of its list and may die there | entries are backed by a handler, rows "active" are served, ceilings hold, dead peers go |
| **Commands and outbox** (`command_handler.py`, `database.py`) | `command_log`, writes under way | send or queue, supersede, flush, expire, prune | flush interleaved with new commands, failing writes, unreadable rows, retention on the same table, restarts | one queued command per client and type, none lost without a reason, none waiting beside an open connection |
| **Watching and sampling rate** (`watch.py`, `client/sampling.py`) | `_watching`, the renewal pass, the client's rate and TTL | watch, unwatch, release, renew, lapse | two consoles change their minds while either awaits a drain; the renewal task may die | a watched client is fast, an unwatched one settles, no subscription without a console |
| **Lockout** (`client/lockout.py`, `single_instance.py`, `overlay_app.py`, `watchdog.py`) | schedule file, pause file, overlay processes, lock and pid file, module globals | set, release, enforce, start and stop an overlay | three enforcers with unlocked globals, reboots, tampering, lost handles, a pid file that names nobody, a service that cannot reach the screen | frozen machines are covered, free ones released, blocks and overlays bounded |
| **Script execution** (`client/executor.py`) | process, log position, deadline, `running_scripts`, reports | execute, tail, cap, terminate, report | tails outlive sessions; lost reports; ends that race deadlines; logs and processes that raise | a script can be stopped, ends at its cap, its history is true and in order |
| **Agent sessions** (`client/main.py`, `connection.py`) | the writer, session tasks | connect, heartbeat, tear down, reconnect | a link that dies with an exception nobody catches | a session's end leaves nothing behind |
| **Routing and relay** (`routing.py`) | nothing of its own | dispatch, persist, relay | one slow console holds up the rest | relays reach every registered console |
| **Heartbeats and pause state** | the `paused` flag of an entry | touch, PAUSE_STATE to consoles | the flag dies with the connection | consoles know who is paused |
| **Other client commands** (`executor.py`) | nothing | terminate a process, capture, dialog | - | each acts once and answers |
| **Website and application policy** (`client/policy.py`) | hosts file, signed cache, blacklist | merge, replace, enforce | writes cut off half-way, an administrator in the same file, errors that are swallowed, programs that refuse to end | other people's lines stay, what is blocked is what was listed, the blacklist stands, listed programs end |
| **Monitors** (`client/monitors/`) | known drives | sample, compare | a drive set that outlives sessions, polls that outlive their loop | changes are reported once |
| **Client user interface** (`overlay_app.py`, `dialog_app.py`) | windows | show, probe, expire | two overlays at once | one overlay on screen |
| **Admin console** (`admin/`) | selection, roster, pause list, session | select, connect, send, warn of pauses | selection read after an await, reconnects that overlap the connection before | what is relayed is what is selected, pauses are known and their end announced |
| **Script validation** (`admin/validation.py`) | nothing | walk a syntax tree | - | pure function |
| **Monitoring data, reports, retention** (`engine/database.py`) | sample tables, the ages of `command_log` | insert, summarise, prune | counters that restart at zero, samples stored late, sweeps beside inserts and reports | totals are what was used, no sweep changes a usage report, old rows go |
| **Protocol and transport** (`common/`) | framing buffer | encode, decode | - | messages stay in order |
| **Authentication** (`auth.py`) | nonce | challenge, answer | placeholder in the code | - |
| **Configuration and command lines** | nothing | parse | - | - |
| **Deployment scripts** | nothing | build images, certificates | - | - |

What is hard to test is listed, each item at its line, under `hazards` in
`PROJECT.json`: 40 of them. Two have no property, and their notes say why; other notes name what a
property excepts.

### What is asyncio and what is not

Engine and agent are single asyncio loops: between two `await`s nothing else of
the same process runs. This decides the grain of every module. An action is what
runs from one `await` to the next, and every await that can really suspend is a
program counter value. Two things are not bound by it: commands of the lockout,
which run in a thread (`executor.py`, `asyncio.to_thread`) beside the watchdog
loop, and the Scheduled Task, a process of its own. There a step is a read, a
decision or an effect, and they interleave freely.

## 2. Modules

| Module | Models | Builds on |
|---|---|---|
| `Sessions` | connections, handshake, registry, reaper, `clients.status` | - |
| `DeliverySlots` | abstract: one slot per client and durable type | - |
| `Outbox` | commands, `command_log`, flush, restarts, delivery | `Sessions`; implements `DeliverySlots` |
| `Watch` | subscriptions, rate requests, renewal, the client's rate | `Sessions` |
| `Lockout` | schedule, pause, enforcers, overlays on one client | - |
| `Scripts` | a script's task and process, agent sessions, history | - |
| `Console` | selection, pause commands, pause tracking and warnings of consoles, heartbeats with the pause flag | - |
| `Policy` | hosts file, policy cache, blacklist and programs of one client | - |
| `Monitoring` | samples, drives and programs of one client, the Engine's tables, reports and retention | - |
| `MC*` | the instances for TLC: symmetry sets | the module of that name |
| `*Proofs` | theorems, one module per component | the module of that name, `TLAPS`; `OutboxProofs` and `WatchProofs` also `SessionsProofs` |

`Outbox` and `Watch` compose with `Sessions` by extending it: each of their steps
is a step of the lifecycle that carries their own variables along, or a step of
their own that leaves the lifecycle alone or conjoins one of its actions
(`ConsoleLeaves` is `Hangup` or `Fault` plus `release_watches`). Everything a
connection can do to a command or a subscription (replace it, reap it, drop it
half-way) is thereby in these modules. Theorem `WatchImplementsSessions` states
that nothing was lost on the way: every behaviour of `WatchSpec` is one of `Spec`.

### Sessions

`pc[c]` is where `handle_client` stands on connection `c`: `hello` and
`challenge` await the two handshake messages, `greet` covers the ack and the
flush, `serve` awaits the next message, `closing` is inside `close_writer`,
`crashed` is a handler that an exception took out before its `close_writer`.

| Action | Code |
|---|---|
| `Connect`, `Disconnect` | a peer opens a connection; closes it (`eof`) or falls silent (`lost`) |
| `Hello`, `HelloWhenFull`, `Answer`, `Refuse` | `perform_registration`: capacity check, challenge, errors |
| `Admit` (inside `Hello`, `Answer`) | `register`, then `store_client`, which is called outside the try and so leaves the entry behind when it raises |
| `Greet` | ack and flush drained |
| `Receive` | one message: `touch`, heartbeat rows |
| `Hangup`, `Fault` -> `Cleanup` -> `Close` | the read loop ends, the finally clause up to `close_writer`, and after it |
| `Age`, `ReapScan`, `ReapResume` | `last_seen` grows old; the sweep, which awaits `close_writer` for each stale peer and goes on with the list it made before |
| `ReapFails` | `close_writer` lets an `OSError` other than `ConnectionError` through, which nothing in `reap_stale_connections` catches: the task is over for good |

The registry maps a peer *id* to one connection, so `Unregistered(p)` ignores who
asks for it, as `unregister(peer_id)` does. `link` is the transport: writes to a
`lost` link succeed, as they do for a TCP peer that vanished. `DbFails` and `CloseFails` say
whether a database call and `close_writer` may raise; a run with `TRUE` contains the behaviours
with `FALSE`.

### DeliverySlots and Outbox

`DeliverySlots` is what docs/protocol.md promises of the outbox: a slot per
client and durable type that is empty or holds the newest command. `Outbox`
implements it with the rows of `command_log`.

| Action | Code |
|---|---|
| `IssueToAbsent`, `IssueToPresent` | `send_command_to_client`; `broadcast_command` is one issue per client |
| `IssueDrained` | the write ends, or fails and marks the row undeliverable |
| `FlushStart`, `FlushDrained`, `FlushBroken` | `take_queued_commands` and the loop of `flush_outbox`: expire, write, drain, mark |
| `FlushDiscards` | the stored parameters are no JSON any more (`Damage`): the row is marked "error" and the loop goes on |
| `Deliver` | the client's listener |
| `GrowOld`, `Prune` | a row passes `OUTBOX_TTL`; retention deletes it, whatever its status |
| `Restart` | the Engine dies and starts again, at worst between `log_command` and `queue_command` |

What runs in between what is decided by which `drain()` really waits. On a fresh
connection the ack (some 150 bytes) and a small command are below the 64 KiB a transport
buffers, so their drains return at once: `Running(c)` says that the handler of `c` has not let
go of the loop since it registered its client, and the steps of others wait for it
(`LoopIsFree`, `Undisturbed`). A command of a type in `Large` may be above the mark; until
its drain returns, its connection is `Congested` and others run. The world (peers, links, time, the
prune thread, a crash) never waits. `RetentionFirst` says that `ENGINE_RETENTION_DAYS` is set below
`ENGINE_OUTBOX_TTL`: only then may retention delete a queued row before its time.

### Watch

`HandleWatch` decides, writes the slow-down of the client the console leaves and
waits for its drain; `Drained` then writes the speed-up. A handler waiting there is
in `draining` with the client in `next`. `ConsoleLeaves` is the cleanup of a
console's handler with its `release_watches`. `RenewStart` and `RenewDrained` are
`renew_watches`, one client and one drain at a time over a list made at the
start; a database error kills the task (`renewer = "dead"`). `HearRate` and
`Lapse` are `client/sampling.py`.

### Lockout

`pc[e]` walks an enforcer through `enforce_once`. "loop" is the agent's `watchdog_loop`, "worker"
the thread a command is applied in, "task" the Scheduled Task, which has no memory of
an overlay and finds it by its lock and pid file.

| Action | Code |
|---|---|
| `ReadPause`, `ReadSchedule` | read and decide; a file that fails its signature reads as a full block or pause from now on (`BlockEnd`, `PauseEnd`) |
| `CheckStart`, `CheckRelease` | compare with the overlay it knows of: its own (`handle`, `mode`), or whoever holds the lock (`Holders`) |
| `Stop`, `Stopped` | signal the process of the handle, or else the one the pid file names (`Target`); wait for a `Popen`, forget a bare pid (`crossed`) |
| `StopFails` | `terminate()` or `os.kill` raises: the process runs on |
| `Launch`, `LaunchFails` | start one, from the user's session or from a service's across to it |
| `LaunchUnseen` | the cross-session launch fails: an ordinary one, in the service's own session, where nobody sees it (`seen = FALSE`) |
| `SetPause`, `ReleasePause`, `SetRestriction`, `ClearRestriction` | a command's thread writes a file and enforces |
| `Lock`, `Show`, `ShowUnrecorded` | an overlay takes its lock, records its pid and shows; or cannot write the pid, which is swallowed |
| `Quit`, `QuitOnProbe`, `Expire`, `Wedge` | it finds the lock taken, or merely being probed; its countdown ends; it hangs |
| `Tick`, `AgentRestart`, `Reboot`, `Tamper` | the world |

`record` is the running overlay that `overlay.lock.pid` names. It is `None` when there is no
file, when the pid could not be written and when it is the pid of a process that has ended, since none of
these leads to anybody. The clock is in units of the caps.

### Scripts

`at[s]` is where `execute_script` or the tail task of script `s` waits.

| Action | Code |
|---|---|
| `Execute`, `Reject`, `Launch`, `Answered` | `execute_script` up to its answer; the listener reads one command at a time |
| `PrepareRaises` | a file of the script cannot be written: the listener and its session end |
| `Poll`, `Polled`, `PollFails` | one round of `_drain`: read, send, and the log that cannot be opened, which ends the tail under a live agent |
| `Wait`, `GraceOver`, `StopFails` | the short wait, the deadline, `_stop_overrunning`, and the `OSError` on which it returns early |
| `LastRead`, `LastReadFails`, `Report`, `Reported` | the finally clause: last read, pop from `running_scripts`, COMMAND_COMPLETE |
| `Terminate` | `terminate_script`, which goes by `running_scripts` |
| `Drop`, `Break`, `SessionOver`, `CloseRaises` | a loss the code expects, one it does not; the end of a session, which the tails outlive, and of the agent when `close()` raises |
| `Crash`, `Interrupt`, `Interrupted` | the agent is killed; a `KeyboardInterrupt` cancels every task, and a tail runs its finally clause |
| `Dispatch`, `DispatchTerminate`, `Handle` | the Engine sends, and writes the status of `command_log` from what it reads |

`logFailed` and `stopFailed` are histories: the scripts whose log the tail could not open and
whose process it could not signal. The properties name them where the code lets such a script
go.

### Console

`session[k]` is where a console's `_connect` stands: `down`, `listing` (it awaits
the drain of its roster request, while the operator may already select), `up`, or
`deaf`: its link is dead and its listener ended without telling anybody.
`requests` and `replies` are the two directions of its connection, `watching` and `admitted` what
the Engine makes of it (subscription and registry entry), `lingering[k]` counts the handlers of its
earlier connections that have still to clean up, `entry[p]` the pause fields of a client's registry entry.

| Action | Code |
|---|---|
| `Heartbeat` | the agent reports its pause, `handle_heartbeat` stores it and sends PAUSE_STATE to all consoles when the flag flips |
| `Handle`, `HandlerEnds` | the Engine takes a console's request: roster, watch, pause or resume, which the client applies; the handler of an earlier connection ends, and its cleanup goes by the console's id: it takes the entry and the subscription of the newer one |
| `Connect`, `Connected` | `_connect` up to the roster request, and after its drain: a selection that survived is declared again |
| `Lose`, `Notice`, `NoticeFails`, `Disconnect` | the link dies; the listener notices, or ends with an `OSError` that is no `ConnectionError`; the operator disconnects |
| `Select`, `Pause`, `Resume`, `ExtendPause` | the operator's slots |
| `Listen` | `_handle_pause_state`, which asks for the roster, and `_handle_client_list` |
| `CheckPauseExpiry` | the 10 s timer: forget what is over, warn once of what is about to be |
| `ClientConnects`, `ClientLost` | a client's entry comes, without a pause, and goes |

The clock's unit is `PAUSE_WARN_SECONDS` (5 min). Heartbeats (15 s), the timer,
deliveries and the end of a dead connection are all shorter, so `Tick` waits until each
has taken its turn (`Settled`); within a unit they interleave freely. The properties
are about settled states: what a console knows after everything under way has
arrived. Two history variables name what the code cannot know: `untold[k]`, clients
whose entry changed without any message to console `k`; `standing[k]`, clients it has
warned of and not heard an end of since. The handshake is one step, and so is a cleanup:
`Sessions` and `Watch` take them apart. That a cleanup may sweep a newer connection of the same console is
in the model; such a console is told nothing until it reconnects, and each property says what it
claims of it.
That the roster may drop a selection of an unknown client does not arise: the
database never forgets a client.

### Policy

The hosts file is three variables: the lines `above` the managed block, the
`block` (none, closed, or open when a write was cut off before its end marker)
and the lines `below` it. A name is a domain or its `www` form. `pc` walks a
website policy through `apply_website_policy`: `ReadHosts` (what is outside the
block, what the block manages), `BackUp` or `BackUpFails` (the one-time copy, which
may leave a part of the file or nothing),
`WriteHosts` or `WriteHostsFails`, `CachePolicy` or `CacheFails`. A blacklist
command is the last of these alone. `CutOff` is what a full disk or a crash
leaves of a file that is truncated and filled from the top; `Stop` the crash of
the agent or the machine at any step, `Tamper` a cache that fails its signature,
`AddLine` an administrator, `Start` a program. `ReadBlacklist` and
`EnforceBlacklist` are one pass of `enforce_app_blacklist`, which reads the list
once and terminates by it, in a thread that outlives the session;
`TerminateProcess` is the command of that name. A command carries its mode, which changes
nothing in the file but a comment (`Rendered`): listed domains are blocked in either mode.
Histories: `due` and `saved`, the administrator's lines the file and its copy owe;
`exposed`, those of them added to an open block or between a command's read and its write;
`listed` and `wanted`, the domains and programs the commands list; `torn` and `unsaved`, whether a
write was cut off or a cache lost.

### Monitoring

One client and its rows. `SampleNetwork`, `CollectApps` and `PollUsb` are the
loops of `client/main.py` over the monitors; what they send is on `wire`, and
moves to `late` when the client leaves the connection, whose handler may read on
beside the next one (`Disconnect`, `Restart`). `Handle` is `dispatch` with its
persist step, `PersistFails` the same with a database error, which is logged and
no more. Rows of `network_usage` carry besides their counter what the machine has
sent altogether and in which run of it (`total`, `boot`): the reference that
the summaries are compared with. `NetworkSummary`, `WeeklySummary` and `AppUsage`
are the SQL of the reports: window, `LAG` (`Previous`: by timestamp, rows of one time in the order
they were stored), positive differences, day buckets. `LogCommand` gives `command_log` a row; what
becomes of the command is `Outbox`'s.
`PruneStart`, `PruneBatch` and `PruneFails` are `prune_loop` with
`prune_batch_threadsafe` over its four tables. `known` is the drive set of `poll_usb_events`; `logged`
replays the stored events, and `silent` holds the drives that came to be known
without an event, or by one that was lost.

## 3. Runs

| Run | Instance | States | Checks |
|---|---|---|---|
| `sessions` | 1 client, 3 connections, ceiling 1, challenge on, failing database, a reaper that may die | 91 k | `TypeOK`, `NoPhantomActive`, `DeadHandlersEnd`, `DeadEntriesRemoved` |
| `sessions_reconnect` | 1 client, 1 console, 3 connections | violation | `LiveSessionRegistered` |
| `outbox_safety` | 1 client, 2 connections, a durable type with large commands and a transient one, 2 commands, 1 unreadable row, 1 restart | 2.1 M | `OutboxTypeOK`, `OneQueuedPerType`, `QueuedReachesConnected`, `QueuedAccountedFor`, `ImplementsSlots` |
| `outbox_order` | 1 client, 1 connection, 2 durable types, one of them large, 3 commands | violation | `AppliedInOrder` |
| `watch_safety` | 1 client, 2 consoles, 3 connections | 867 k | `WatchTypeOK`, `WatchBacked`, `WatchedNotSlowed`, `SoleSessionReachable` |
| `watch_live` | 2 clients, 1 console, 2 connections, failing database, a reaper that may die | 186 k | `WatchedGoesFast`, `UnwatchedSettles` |
| `lockout` | 2 overlays, worker and task, tampering, clock 0..2, 1 pause or block and any releases, 1 fault | 247 k | `LockoutTypeOK`, `BlockBounded`, `OverlayBounded`, `FrozenIsCovered`, `FreeIsReleased` |
| `scripts` | 1 script, 2 connections, 1 print, 1 terminate, 1 unexpected loss, 1 crash, 1 `OSError` | 316 k | `ScriptsTypeOK`, `Terminable`, `WordsInOrder`, `Truthful`, `FinalOnThisConnection`, `RunEnds`, `VerdictArrives` |
| `scripts_cap` | the same without terminate, crash and `OSError` | violation | `StoppedAtCap` |
| `console` | 2 clients, 1 console, clock 1..3, 3 commands, 1 loss, 2 requests under way | 6.1 M | `ConsoleTypeOK`, `SelectionDeclared`, `PausesKnown`, `LapseAnnounced` |
| `policy` | 2 domains, one of them never blocked, both modes, 1 administrator's line, 2 programs, 3 commands, 1 fault | 949 k | `PolicyTypeOK`, `AdminLinesKept`, `BlockedAsListed`, `BlacklistStands`, `ListedProgramsEnd` |
| `monitoring` | 2 drives, 3 messages or commands, 2 units of traffic, clock 0..2, 1 fault | 495 k | `MonitoringTypeOK`, `UsageFaithful`, `UsbLogReplays`, `RetentionHolds` |

What they show:

- **sessions.** A row is left "active" only by a handler that a failing database
  call killed, in whatever order old and new connections clean up. Every handler of a
  dead link ends, and its entry goes; what a failed `store_client` leaves behind is removed by the
  reaper, and stays for good if an error out of `close_writer` has ended that one.
- **outbox_safety.** Whatever interleaves, a queued row leaves the queue only because
  it was written, replaced by a newer one of its type, past its time, unreadable, or
  deleted by retention, and no queued row waits beside an open connection that nobody is flushing.
- **watch_safety.** Two consoles moving on and off one client never leave it slow
  while one of them watches it, beyond the write that is just due. A connection that
  cleans up takes the *newest* entry of its peer with it, but a peer that never
  reconnected is always in the registry while its connection is served.
- **watch_live.** A watched client becomes fast even if it connects after it was
  selected; an unwatched one settles, even if its last "slow" was lost or a stale
  renewal reached it late.
- **lockout.** Uncoordinated enforcers may start two overlays, lose handles, fail to signal one and
  stop the wrong one, and yet a frozen machine gets an overlay and a free one is released;
  and no sequence of commands and passes makes an overlay or a block exceed the cap. Two cases are
  named: an overlay in a service's session, which is seen by nobody and taken for cover, and one
  whose pid was never recorded, which stays until it ends.
- **scripts.** Whatever a terminate command, the deadline, the script's own end and the loss
  of the connection do to each other, a running script stays in reach of
  TERMINATE_SCRIPT, is stopped at its cap, and is reported once, after all of its
  output, as what happened to it. The exceptions (agent gone, link lost with the report, a log that
  cannot be opened, a process that cannot be signalled) are named in each property.

- **console.** Selecting before, during and after a reconnect ends with the Engine
  relaying what is selected, or nothing at all to a console whose entry the cleanup of its earlier
  connection took; never another client's data. A console that is served knows each connected client's pause as the client
  reports it, whoever set it and whatever was lost meanwhile, and warns before it
  lapses. The exceptions are named: an entry that came or got another end without
  a message, and a pause that was extended or begun anew after the warning.
- **policy.** Blocking, merging, replacing and unblocking around an administrator's
  lines never costs one of them, and a write that is cut off does not cost the copy.
  What is blocked after each command is what was listed since the last replacement, in either mode.
  A website policy, a reconnect or a crash never loses the application blacklist, and a
  listed program that is started while the agent is connected ends.
- **monitoring.** The reports never show traffic that was not sent, across reboots of the
  machine, lost samples and day boundaries, and show all of what one run of it sent
  between two samples. Retention never changes a usage report and takes only old rows from the lists of
  USB events and commands; again and again nothing older than the retention is left in any of the
  four tables, whatever a sweep failed at. The stored USB events lead to the drives the client knows of.

The three violations are the findings of section 5. `CHECK_DEADLOCK FALSE` stands where a
behaviour ends because all connections are used up; in `Lockout`, where an
enforcer can always take another pass, deadlock is checked.

### Bounds and why they are enough

- *Connections* (`Conns`), each used once. Hazards of the lifecycle need an old and a
  new connection of one peer and one third party: 3. Two suffice where a single peer
  matters (`outbox_safety`, `outbox_order`, `scripts`: before and after a reconnect).
- *Commands* (`MaxLog` = 2, in `outbox_order` 3): supersession, overtaking and order are about a pair;
  the third is the large row whose drain lets the newer of them pass. One row becomes unreadable (`MaxDamage`).
- *Restarts* (1): a row survives one; the state after a restart is an initial one with
  a log, so a second adds nothing new.
- *MaxInFlight* (1 in the safety run, 2 in the live one): `WatchedNotSlowed` is about the last request
  alone. The live run has room for a slow-down and a speed-up in sequence.
- *Overlays* (2): one that holds the lock and one that starts beside it. Processes that end make room.
- *Clock* (`MaxTime`), with `MaxBlock` = `MaxPause` = 1: in two units a block can
  begin, be extended and end. `BlockBounded` and `OverlayBounded` are proved for all
  values.
- *MaxCommands* 1, *MaxFaults* 1 in Lockout: a pause or a block is set, released any number
  of times, and meets one fault (a reboot, a killed agent, a launch or a signal that fails, an overlay that
  is wedged, unseen or without a recorded pid, a file that was changed); two do not fit the liveness check
  in its time. One print, terminate,
  unexpected loss, crash and `OSError` in Scripts: each hazard listed needs one.
- *Console*: a pause of 2 units leaves one before the warning is due; 3 commands are a pause,
  its extension or end, and another pause; 2 requests under way are what `_connect` and a
  selection have there at once. One console: consoles share only the clients, and what
  another one does to them, the commands of this one do as well.
- *Policy*: 3 commands are a block, its merge and its removal; 2 domains are one that may be
  blocked, in two forms that are merged with each other, and one never blocked by its bare name; one line is kept or lost, in any of the
  three parts of the file; two programs are one that ends and one that refuses. One name
  per command: a command's names are rendered one by one.
- *Monitoring*: 3 messages or commands, since 3 samples are the fewest whose differences add up over a reboot or a
  late one; an hour for a day, and a day for the week and the retention, put window,
  bucket and cutoff next to each other; 3 hours are before, at and after the cutoff. The
  windows are compared in `Within` and `Stale`, whose lengths are constants. Programs are
  started at hour 0 only (`Starts`): their rows have then each of the three ages.
- *Scripts* (1): scripts share the connection, the inbox and nothing else; a send of one
  never waits for another.

### Fairness and why the code justifies it

- `Sessions`: every wait is bounded in the code: 30 s per handshake message, 60 s per read,
  a write ends with its connection; the reaper has a period and an entry nobody
  touches grows old. Weak fairness on these, where the reaper's steps are those of one that lives (`ReapFails`
  disables them); none on connecting, sending, leaving or raising.
- `Watch`: a drain ends, the renewal timer fires (unless the task is dead), the client
  reads what arrived, its TTL passes.
- `Lockout`: only the Scheduled Task, and each overlay's own start and end, are fair. The
  agent owes nothing, it may hang. The clock is not fair either, so that no liveness
  property holds because the block ran out in time.
- `Scripts`: the loop runs its tasks, a validation and a send end, deadlines pass, the Engine reads. A
  script need not end or print; nobody has to connect.
- `Policy`: a command at work goes on to its next step or fails, and the monitoring cycle
  of a session that lasts comes round (`_sleep_or_stop` returns). Nobody has to connect, so
  `ListedProgramsEnd` speaks of a session that lasts.
- `Monitoring`: the retention task wakes and its thread returns. No client owes a sample.

## 4. What is proved

TLAPS proves, for every number of clients, consoles and connections and every value of the
other constants:

| Theorem | Says |
|---|---|
| `TypeCorrect`, `OutboxTypeCorrect`, `WatchTypeCorrect`, `LockoutTypeCorrect`, `PolicyTypeCorrect`, `ScriptsTypeCorrect`, `ConsoleTypeCorrect`, `MonitoringTypeCorrect` | the type invariants |
| `RegistryBackedAlways` | an entry names an unfinished handler of that very peer |
| `NoPhantomActiveAlways` | a client shown active has a handler that will clean up, or one that a database error killed |
| `CapacityUnderBypassAlways` | the ceilings hold when the challenge is bypassed (they need not when it is not: section 6) |
| `SoleSessionReachableAlways` | a peer that never reconnected is registered while it is served |
| `OneQueuedPerTypeAlways` | at most one row per client and type waits |
| `QueuedAccountedForAlways` | a queued row leaves the queue because it was written, replaced, expired, unreadable or pruned |
| `QueuedReachesConnectedAlways` | nothing waits for a connected client that its own handler has not in hand |
| `OutboxImplementsSlots` | `Outbox` implements `DeliverySlots` |
| `WatchImplementsSessions` | `Watch` implements `Sessions` |
| `WatchBackedAlways` | who watches is served |
| `WatchedNotSlowedAlways` | the last word to a watched client is not "slow" unless "fast" is due |
| `BlockBoundedAlways`, `OverlayBoundedAlways` | blocks and overlays respect the cap |
| `AdminLinesKeptAlways` | the administrator's lines stay in the hosts file, or in the copy of it, unless added under a command's hands |
| `BlockedAsListedAlways` | what is blocked is what was listed, in either mode |
| `BlacklistStandsAlways` | the blacklist set last is the one in force |
| `TerminableAlways` | a script that runs under a live agent is within reach of TERMINATE_SCRIPT, unless its tail ended on an `OSError` |
| `WordsInOrderAlways` | ack, output, report: in this order on every connection, and no report leaves readable output behind |
| `TruthfulAlways` | a final status tells what happened; of a process that runs on it is never a success, and only in the named cases anything |
| `FinalOnThisConnectionAlways` | a final status is overwritten only from a connection the agent has left |
| `SelectionDeclaredAlways` | the Engine relays to a console what it has selected, or nothing if an earlier connection's cleanup took its entry |
| `PausesKnownAlways` | a console that is served knows the pauses of the connected clients |
| `LapseAnnouncedAlways` | no pause lapses unannounced |
| `UsageFaithfulAlways` | a usage report is what was sent between its samples, or less over a reboot |
| `UsbLogReplaysAlways` | the stored USB events lead to the drives the client knows |
| `RetentionTakesOnlyOldAlways` | a sweep changes no usage report and takes only old rows from the two lists: the action part of `RetentionHolds` |

Assumptions: only those named in the modules (`SessionsAssumption`,
`OutboxAssumption`, `WatchAssumption`, `LockoutAssumption`, `PolicyAssumption`,
`ScriptsAssumption`, `ConsoleAssumption`, `MonitoringAssumption`): `None` and `Nobody` are not
ids, ids of clients and consoles are disjoint and finite, numbers are naturals, `MaxPause <= MaxBlock`
in the lockout. Two are there because a theorem needs them. `ConsoleAssumption` asks for a
pause cap of at least two units: the unit is the warning period (300 s), the cap 3600 s
(`common/constants.py:142`, `:145`); with a cap of one a pause would be about to lapse as soon as it
begins, before any console heard of it. `MonitoringAssumption` asks for finitely many drives, without
which a poll could not put its events in a sequence. What `RetentionTakesOnlyOldAlways` says of
the usage reports it says of a retention that is not shorter than the weekly report, which is in the property: pruning by less would take
rows the report still shows.

The arguments:

- **Sessions.** `RegistryBacked` and `NoPhantomActive` are each inductive together with
  `TypeOK`, action by action; a cleanup is the interesting case, since it empties the
  entry, and rewrites the row, of a peer whose newer connection may still be served. The
  capacity is a counting argument: registering adds at most one to a finite set that was
  not full, every other step shrinks it; `CapacityInv` adds that with the bypass no
  handler waits for a challenge, the only await between check and registration. `SoleSessionReachable` needs the converse of the first:
  an entry of a live connection is emptied only by a connection of the same peer.
- **Outbox.** Every step moves the log in one of four ways, or not at all (`LogMoves`): a row is answered for,
  a command is logged, one is queued, what is past its time expires.
  `OneQueuedPerType` alone is not inductive; `QueueInv` adds that the log has its type
  and that only durable types are queued, since supersession is per type. The same
  moves are then mapped to `Pass`, `Hold` and `Release` for the refinement. Beyond these,
  the proofs rest on the lifecycle below: `OutboxTypes` carries `TypeOK` and `RegistryBacked` along,
  whose steps are lemmas of `SessionsProofs`. `WrittenInv` is what `QueuedAccountedFor` needs: a
  write under way is of a row already answered for (`Awaited`), and a flush that waits for a drain has
  written the first row of its list or cannot read it (`Flushed`), so that what it then marks as sent was
  written. `CarrierInv` names the
  handler that `QueuedReachesConnected` leaves open: it is the one of the registered
  connection itself, which has the rows on its list or has not made it yet (`QueueInHand`), and is
  greeting while it has (`FlushInGreet`). The property excepts an entry left behind by a
  handler that a failing `store_client` killed, which the run cannot meet (its database does
  not fail) and the theorem does.
- **Watch.** `WordInv` strengthens `WatchedNotSlowed`: when the last word to a watched
  client is to slow down, *every* console watching it still owes a speed-up, so that one
  of them going away leaves the others' promise standing; and requests are under way only
  on connections that have registered. `WatchBacked` is inductive as it stands.
- **Lockout.** `BlockInv` adds to `BlockBounded` that a stored schedule is no longer
  than the cap and that the block under way began no later than `since`. `OverlayInv`
  adds the bound for decisions not yet carried out and for both files. The type invariant carries what a handle
  and a pid file may name: a handle a process that runs or one that has ended, the file a process that holds the lock.
- **Policy.** Each property speaks of commands that are done, or of the file as it is, and
  holds because of what a command at work still carries. `LinesInv` adds to `AdminLinesKept`
  that what it has read has every line the file owes but those `exposed`, and that nothing is owed by a copy
  before there is one. `ListedInv` adds to `BlockedAsListed` that the managed names it has read
  are those of the block, which needs that only a torn block is open; `MergeAsListed` is the
  step of a merge. `BlacklistInv` is `BlacklistStands` between the steps of a command too.
- **Scripts.** `AgentInv` and `InboxInv` strengthen `Terminable`: a running process is in the hands
  of a task that is not over, unless the agent is gone or going or the tail ended on an
  `OSError` (`Abandoned`), and an EXECUTE still unread is of a script
  that nothing has begun on, so that none is launched twice. `TruthInv` says of each
  report under way what `Truthful` says of the row it will write, and needs only
  that what has happened to a process stays so (`HappenedOnward`). `NothingUnsentInv` extends "no output
  left" from the report back to the drain before it. `OrderInv` and `FinalInv` share one fact (`Words`):
  a task speaks of its script in the order it goes through its states, and not after it has reported; `FinalInv`
  adds that of a script reported on an old connection the new one carries no word.
- **Console.** `SelectionInv` says of each console that the last subscription under way, or else the
  one in force, is its selection, or that a handler of an earlier connection has still to sweep it, or that it
  is subscribed to nothing and has yet to declare its selection or has lost its entry (`Declared`); what is under way goes with the connection (`Idle`). `KnownInv` is the same for
  pauses: a roster is asked for, or the last word under way on a client is its entry's pause, or there
  is none and the console shows it already (`Known`); `BeatenInv` ties the entry to the client's own
  file once it has reported since. `WarnedInv` adds the timer: a console that has looked at what it knows has
  warned, has asked for more, or will hear otherwise (`Warned`). The settled states
  of the properties are those where each of these has one case left.
- **Monitoring.** `MonitoringTypes` adds to the type invariant that what is under way tells of
  nothing later than the clock, and that ids are bounded, without which the table has no greatest id to
  go beyond (`NextIdIsNew`). `AccountInv` strengthens `UsbLogReplays` to states with events under way:
  a drive is known exactly if it was adopted silently or is in once the events on the wire are stored too (`Told`:
  the last one about it decides, else the log). A poll then appends one event for each drive that changed
  (`ToldOnPolling`), storing the head moves it from one side of `Told` to the other (`ToldOnReading`),
  and losing an event starts the account anew. `RetentionTakesOnlyOld` is arithmetic over `Within`
  (`StaleIsOutside`): what is older than the retention is outside every shorter window, so the sets of rows the
  usage reports are computed from stay the same, whatever is computed from them (`ListsStep` is the part
  about the two lists).

  `UsageFaithful` takes two parts. `MeasureInv` says that all samples there are, stored or under way,
  fit each other and the counter as it stands (`Fits`): in one run of the machine all fall short of what
  was sent altogether by the same amount, and a later run counts only what was sent since. Then
  the report's arithmetic: by `DeltaFaithful` a row's difference to the one before is what was sent in between,
  or less if they are of two runs; in a table whose timestamps follow its ids the order of `LAG` is that of the ids (`EarlierById`); by `SumUnfolds` and `SumAdds` the sum over the rows does not
  depend on the order in which the fold picks them; by `OlderSpans` the sum over the rows up to an id is
  what they span, one id after the other. The library's induction theorems take an operator
  as a parameter, which the provers cannot instantiate; `EveryNumber` states induction for a *set* of numbers instead
  and rests on the existence of least elements.

Only model-checked is all liveness: `DeadHandlersEnd`, `DeadEntriesRemoved`, `WatchedGoesFast`,
`UnwatchedSettles`, `FrozenIsCovered`, `FreeIsReleased`, `RunEnds`, `VerdictArrives`, `ListedProgramsEnd` and
the second part of `RetentionHolds`. The prover has no rules for fairness. Every invariant and every
action property that a passing run checks is a theorem.

## 5. Findings

Each is the counterexample of a run.

1. **`sessions_reconnect`**, `engine/main.py:267`. The handler of a replaced connection ends
   with `unregister(peer_id)` and drops the entry of the *new* connection. The client is
   served, yet shown offline and unreachable until it reconnects, although
   `register` speaks of "replacing any prior connection for it".
2. **`outbox_order`**, `engine/command_handler.py:498`. While the flush of a reconnecting client
   waits for the drain of a large row (above the 64 KiB a transport buffers), a command issued for
   that client is written at once. If an older one of its type is queued behind the large row, it
   is overtaken, and the client ends on the older policy, although `take_queued_commands` promises
   the operator's order. It takes two durable types; with small rows nothing gets in between.
3. **`scripts_cap`**, `client/connection.py:198`. A link that dies with an `OSError` other
   than `ConnectionError` makes `close()` raise out of `main_loop`: the agent ends, its
   scripts run on without a deadline and in no `running_scripts`.

## 6. Known divergences without a run

Seen while modelling, by reading:

- *Capacity.* With the challenge the capacity is checked before an await and not again
  (`engine/main.py:143`), so several peers may pass it at once; docs/protocol.md:74 says that
  those beyond the limits are rejected.
- *The reaper* ends for good at an `OSError` out of `close_writer` that is no `ConnectionError`
  (`engine/protocol.py:63`, `engine/main.py:294-299`). Handlers still end by their read timeout; what
  only the reaper removes then stays. `DeadEntriesRemoved` names the case.
- *Retention deletes queued commands.* `command_log` is pruned like the samples
  (`database.py:603`, docs/protocol.md:261). With `ENGINE_OUTBOX_TTL` above `ENGINE_RETENTION_DAYS`, which
  nothing excludes, a command goes before its TTL and without a status. `QueuedAccountedFor` says so.
- *A durable command whose write fails* becomes undeliverable (`command_handler.py:508`),
  a status docs/user_manual.md:110 reserves for commands "not worth keeping".
- *A tampered schedule never ends*: each pass reads it as two hours from now
  (`lockout.py:107-112`); README.md:160 and `lockout.py:12` cap any single continuous block
  at two hours.
- *Clearing a schedule during a pause.* `admin/backend.py:626` says it "Does not touch a
  pause", but the client stops the overlay (`lockout.py:479-482`) and the screen is free
  until the next pass, up to 30 s.
- *The wrong overlay.* `start_overlay` leaves one of another mode alone when it has no
  handle on it (`lockout.py:300-306`). An overlay the Scheduled Task started is such a one,
  so a pause may show the countdown of a block (`lockout.py:430-433` says it does not).
- *An overlay nobody sees.* When a service cannot start an overlay in the user's session it starts one in
  its own (`lockout.py:317-319`), "it may not be visible". That one holds the lock: `overlay_running` calls
  it "on screen", every enforcer leaves it alone, and the machine is free for as long as it runs. issues.md
  (C11, C15) has the visibility as unverified. `FrozenIsCovered` names it as `CoveredInVain`.
- *An overlay without a recorded pid.* A failed write of `overlay.lock.pid` is swallowed
  (`single_instance.py:200`); whoever has no handle on that overlay then "cannot stop it from here"
  (`lockout.py:396-401`), and a released machine stays covered until it ends. A stale pid file is
  signalled as it is: should the system have given the pid to another process, that one is ended
  (not modelled).
- *An unwritable lock.* `acquire` lets an overlay run when the state directory cannot be written, since nothing
  enforcing "is worse than the duplicate" (`single_instance.py:101-105`); that machine's overlays are not bound by a
  lock (not modelled).
- *Reconnected consoles.* The cleanup of a console's earlier connection goes by its id: it takes the
  registry entry, and with `release_watches` the subscription, of the new connection
  (`engine/main.py:267`, `:275`). The console is told nothing from then on until it reconnects, the client
  lapses to slow, and the selection is not declared again, which is what `admin/backend.py:306-311` is there
  for. `SelectionDeclared` names the case, `PausesKnown` and `LapseAnnounced` speak of consoles that are served.
- *A deaf console.* An `OSError` that is no `ConnectionError` ends the console's listener without
  `_on_disconnect` (`admin/connection.py:259`, `:274`), and every later `close()` of that connection raises: the
  window shows a session that is over.
- *The renewal task* ends for good at one database error (`engine/main.py:320`).
- *A report sent between two connections is lost* and its row stays "running"; a late
  COMMAND_ACCEPTED of an old connection may overwrite a final status; an interrupted agent
  reports "error" for a script that runs on. `VerdictArrives`, `FinalOnThisConnection`
  and `Truthful` name these cases as exceptions.
- *A tail that cannot open its log* ends (`executor.py:325`, `:253`): under a live, connected agent its finally
  clause pops `running_scripts` and reports "Exited with code None" as an error, while the script runs on, without a
  deadline and out of reach of TERMINATE_SCRIPT; the last read may fail the same way and leave output unsent
  (`:260`). A process that cannot be signalled is reported as stopped at its cap and runs on (`:298-299`,
  `:309-312`). `executor.py:226-228` promises the cap. `Terminable`, `NothingUnsent`, `Truthful` and `RunEnds`
  name these scripts by `logFailed` and `stopFailed`.
- *A script whose files cannot be written* ends the listener and the session (`executor.py:173`); nothing reports it, and its
  row stays "dispatched".
- *Extended pauses.* No PAUSE_STATE follows an extension (`command_handler.py:145`), so the console
  that asked for it warns again of the old end at once and forgets the pause at that end
  (`backend.py:462`, `:484`); the extended pause then lapses unannounced, although
  `common/constants.py:139` has the GUI warn "as the cap approaches". Another console keeps its
  `_warned` and does not warn again even after a roster has given it the new end.
- *A resume applied just before the client's connection drops* never reaches a console: the new
  entry starts unpaused, nothing flips, and consoles track a pause that is over until the next
  roster. `untold` covers both cases.
- *Two warnings for one pause.* A roster asked for between a client's registration and its first
  heartbeat says "not paused" and resets the warning; the docstring of `_check_pause_expiry` says "once per
  client per pause" (`backend.py:474`).
- *Admin console*: `_send_script` reads the selection after awaiting the validation
  (`backend.py:380`); a watch may be sent during the handshake; `_on_disconnect`
  leaves live state `_clear_live` would clear; the heartbeat task outlives a dropped link; connect is not
  guarded against a second press.
- *Whitelist mode blocks what it lists.* `render_managed_block` writes the listed domains to the hosts file in
  either mode (`policy.py:70-85`) and calls them, in whitelist mode, "NOT permitted"; README.md:111,
  docs/user_manual.md:122 and the note in `PolicyPanel.qml` say that only the listed domains load, and nothing in the
  Engine or the console turns the list around. `BlockedAsListed` states what the code does: an exam site that is
  whitelisted is the one that is blocked.
- *A domain named only as `www.x`* is lost by the next merge: `_managed_domains` skips `www.`
  names (`policy.py:180`), though `policy.py:141` says that "block" merges "with whatever was
  already managed".
- *The hosts file is read, then overwritten.* A line an administrator adds in between is
  gone (`policy.py:130`, `:195`), and so is one added after a block that a cut-off write left
  without its end marker, although the file's other entries are "never touched"
  (`policy.py:40-42`). `AdminLinesKept` excepts both as `exposed`. A backup that was cut off is never made again
  (`policy.py:189`); one that could not even be begun is made at the next write, of what the file holds by then.
- *The blacklist* is enforced within a session only (`client/main.py:147`), although the cache is
  kept "so it survives an Engine outage" (`policy.py:219`); `set_app_blacklist` answers
  success when the cache could not be written (`policy.py:224`, `:242`); a cache that fails its
  signature is read as empty and then overwritten by the next website policy, which loses the
  list for good (`policy.py:233`).
- *The first drive is no event.* `poll_usb_events` takes an empty set for "never polled"
  (`usb_monitor.py:54`), so the first drive plugged in after a poll that found none is adopted
  silently, and so is one plugged in after the last was removed; its docstring says that
  only the first call reports nothing. `UsbLogReplays` counts such drives as `silent`.
- *Application rows are aged by the start of the process* (`database.py:521`, `:600`): a fresh
  sample of a program that has run for more than a day is in no report, and one of a program
  that has run for longer than the retention is pruned as soon as it is stored.
- *Lists that lose rows.* The listings of USB events and of commands have no window
  (`command_handler.py:255-256`), so a sweep may take rows they still show; `RetentionTakesOnlyOld` says of these that they are old.
- *Late samples.* A drop of the counter is taken for a reboot (`database.py:530`), but a sample
  of an old connection stored after a newer one is a drop and a rise as well: usage is then
  overstated. `UsageFaithful` excepts it.
- *USB events* carry no drive in the database (`database.py:338`): of two removals a report
  cannot tell which drive they were of.

## 7. What the model leaves out

- *Contents*: payloads, names, times and sizes are model values or flags. An entry's age
  is one bit (younger than the timeout or not); a row's is the `cutoff`.
- *Batching*: messages of one connection are handled one per step; a relay to the
  consoles is one step in `Console` and left out elsewhere, so a handler stuck in a relay is in `Sessions` merely
  one that does not take its next step until its connection dies.
- *Crashes of the Engine* are in `Outbox`; `Sessions` and its rows are checked between two of them.
- *Wall clocks* do not step back: timestamps follow the ids of their rows.
- *Database*: a call may raise where `DbFails` says so; transactions are not modelled,
  each call is atomic.
- *Monitoring*: a client's rows only, since every query names one; one counter for the two
  directions; of a process its start time. A poll of the drives under way at a
  disconnection is over before the next session's: seconds against a reconnect.
- *Policy*: the order of lines, comments and upper case; the DNS flush; what the cache holds
  of the website policy, which nothing reads.
- *Not modelled*: script validation (a pure function of Python source), configuration and
  command lines, deployment scripts. *Only as far as another module needs them*: routing,
  heartbeats, transport, authentication (a placeholder in the code), the client's
  windows, the console's scripts and reports. `components` in `PROJECT.json` gives the reasons.

## 8. Plan

Done, in this order: `Sessions` (everything rests on it), `Outbox` with its abstract
specification, `Lockout`, `Watch`, `Scripts`, `Console` in its main part, `Policy` and `Monitoring`, and a
module of proofs for each of them. The runs of `Sessions` and of `Lockout` were
joined to make room for the last two models: what their larger instances asked is proved for
every value (`RegistryBackedAlways`, `CapacityUnderBypassAlways`, `BlockBoundedAlways`,
`OverlayBoundedAlways`).

Next:

1. **Proofs about progress without fairness**: that the steps the liveness properties wait for lead where
   they should (each drain of a flush shortens its list, each pass of the reaper its list, each poll of a
   tail ends in a state nearer the report), as action properties.
2. **Console**, the rest (`admin/backend.py`, `connection.py`, `models.py`): `_send_script` with its
   await, the handshake's steps against messages sent too early, the heartbeat task that
   outlives its link. Property: a script goes where it was validated for.
3. **Relay** (`engine/routing.py`): one drain per console, composed with `Sessions`.
