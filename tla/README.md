# TLA+ models of edison-stdiod

`edison-stdiod` is a daemon that keeps a WebSocket to a backend and runs, on the
user's device, the stdio MCP servers the backend asks for. These modules model its
concurrent core: the child processes and how their deaths are reported, the
supervisor that reconciles them with the backend's frames, the run loop that follows
`config.toml` through logins and logouts, the composition of the two, the connection
with its queues and its heartbeat, the store of local values, the replacement of
files, and the commands that log in and out and install the daemon as a service.
Paths below are relative to `src/crates/edison-stdiod/src/`.

## 1. Inventory of the system

| Component | State it keeps | Operations | Interacts with |
|---|---|---|---|
| Child server (`proc.rs`) | process, `exited`/`reported` flags, stderr tail, stdin queue, three pump tasks | spawn, pump stdin/stdout/stderr, `report_terminal`, `take_terminal_error`, `shutdown` | supervisor (owns the handle), `OutgoingHandle` (reports) |
| Outgoing handle (`tunnel.rs`) | the sender of the current session, or nothing | `set`, `clear`, `send` | pumps, heartbeat, supervisor, session |
| Supervisor (`daemon.rs` 572-820) | map of children, value store | `apply_snapshot`, `apply_delta`, `apply_env_update`, `apply_spec_update`, `restart_unresponsive`, `shutdown_children`, `publish_state` | drain loop, watcher and run loop call it under one mutex |
| Session (`daemon.rs` 291-554) | queues, heartbeat clock | connect, hello, `drain_incoming`, `heartbeat`, select | ends by dropping whatever future is behind |
| Run loop (`daemon.rs` 59-287, `daemon_auth.rs`) | resolved configuration, back-off, verdict | `run`, `wait_for_config`, `wait_for_connection_change` | polls `config.toml`, which the CLI rewrites |
| Value store (`env_store.rs`) | map in memory, file | merge, remove, flush, open | supervisor, at spawn and on updates |
| Private files (`secure_file.rs`), state file (`state.rs`) | files, temporary files and backups next to them | replace, load | value store, configuration, `status` |
| Configuration (`config.rs`, `daemon_auth.rs`) | `config.toml` | `merge`, `clear_authentication`, `ensure_installable`, `from_args` | CLI, run loop |
| Login and logout (`cli/login.rs`, `cli/logout.rs`) | a copy of the file, the credential to revoke | load, initiate, poll, save, revoke | run loop, through the file; the backend |
| Device-code poll (`auth.rs`) | interval, deadline | sleep, request, classify the answer | login |
| Tunnel loop (`tunnel.rs` 183-289) | socket, two queues, a send task | send, receive, classify the close | session; pumps and handlers wait for room in its queue |
| Service installation (`cli/install.rs`, `platform/`) | unit file, plist or task; what the service manager holds and runs; the user's files | install, uninstall, `--purge`, is_installed, is_running | the service manager, the daemon it runs |
| Other CLI commands (`cli/server.rs`, `status.rs`, `logs.rs`), HTTP client | none | print, request | not modelled |

Hard behaviours: the three tasks of a child and the session run on different worker
threads; the select of a session drops the futures of the losing branches at an await,
half-way through a handler or a reset; sessions replace the handle under running pumps;
frames wait for room in queues that a stalled socket does not empty, and the heartbeat
that should notice it waits there, too, as does the handler that has the mutex the
watcher needs to end the session; files are replaced under their readers, and service
definitions under the daemon they started, by commands that can fail or be killed at
every call; three places read `config.toml` at different times while other processes
write it; two commands can hold copies of it for minutes, be interrupted anywhere and
revoke what the other wrote; a flush can fail and the daemon can restart between any two
steps. `PROJECT.json` lists every hazard with its line and the properties against it, or
the reason why there is none yet.

## 2. Modules

| Module | Models | Reads as |
|---|---|---|
| `ChildServer` | all incarnations of one server id, their reporters, the handle, the session's life | one action per atomic step: the pumps run on other threads, so `take_terminal_error` is cut between its swap and its store |
| `Supervisor` | the map and the handlers | a handler is a plan (`todo`) carried out in steps; it can be dropped (`DropHandler`) at `kill`, `wait` and `send`, its only awaits |
| `Reconciler` | what the supervisor promises: at most one running spec per server, started only as wanted, stopped in between | the abstract specification; `Supervisor` implements it with `want` and the raw specs of the map |
| `RunLoop` | `run`, both waits, verdicts, adoption | the program counter `main` and, inside a session, `watch`; `cfg` is the file, rewritten at any time |
| `Daemon` | `Supervisor` and `RunLoop` joined | steps of both at once where a session begins and ends; the run loop waits for the resets it begins |
| `EnvStore` | memory, file, children's values | the file is replaced atomically and a flush may fail; `Restart` reads the file again |
| `PersistedConfig` | `config.toml` as a value, the flags over it, the resolved configuration | operators only |
| `Login` | `login`, `login --api-key` and `logout`, any number at once | a process per command: `idle`, `authorizing`, `saving`, `revoking`; each can fail at every step |
| `DevicePoll` | the poll loop of a login | `pc` is the await it is at, `now` the clock |
| `Tunnel` | one session after the other: both queues, send task, receive loop, `drain_incoming`, `heartbeat`, the watcher's reset, the select | sessions are slots, because a send task outlives its session; cut at every await of these tasks; time passes in units once no task is due |
| `SecureFile` | `write_private` on unix and Windows, and `write_atomic` of `state.json` | one action per call that touches the disk; `at[p]` is the call a writer is at; `Kill` ends a writer, `PowerLoss` tears what is not synced |
| `AtomicFile` | what replacing a file promises its readers | the abstract specification of `SecureFile`, with two flags where the promise is weaker; only a power loss may tear a file, and only `state.json` |
| `Service` | install and uninstall on the three platforms, the service manager, crashes, logins | `op` and `at` are the command and the call it is at; a definition is the binary it starts; `Settings` is when it is restarted |
| `MC*` | the instances for TLC | |
| `ChildServerProofs`, `EnvStoreProofs`, `LoginProofs`, `DevicePollProofs`, `SecureFileProofs`, `TunnelProofs`, `ServiceProofs` | proofs about the module of that name | a lemma per action |
| `DaemonProofs` | proofs about `RunLoop`, `Supervisor` and `Daemon` | three parts, the third citing the other two |

`Daemon` composes `Supervisor` and `RunLoop`; `Login` uses `PersistedConfig`;
`SecureFile` implements `AtomicFile`, and `Supervisor` `Reconciler`; the others stand
alone. `EnvStore` and `Login` replace their file in one step that may fail, which is
what `SecureFile` shows their readers see. `RunLoop` takes whatever the commands of
`Login` could leave, as an arbitrary rewrite of the file.

An operator whose comment begins with "Bug:" is a plausible mistake in the
definition below it; `PROJECT.json` ("mutants") says which property rejects it. None
is part of a specification.

How state corresponds to code: `children` is `Supervisor.children`; `raw[i]` is
`desired_raw`; `moved`, `cur` and `todo` are the locals of a handler; `kind` is who
holds the mutex. `conf` and `next` are the run loop's locals of those names. Variables
marked "history" record what happened for the sake of a property and guard nothing.
A resolved configuration is a value: equality is `same_connection`, `Identity[c]`
stands for the fields `requires_child_reset` compares, `Namespace[c]` for
`env_namespace`. The model assumes what the latter two functions make true: two
configurations of different namespaces have different identities
(`NamespaceChangeResets` in `LoginProofs`).

In `Login` a value is a record of where it comes from: a token carries its
installation and user, these their backend, a secret the user it was given for; a
key, and the secret and the device passed with it, their legacy account. The
code cannot see this; it is what lets a property say "of another account". The user
and the organisation are one value, scopes and label are left out, backends are URLs
already normalised, and the file holds only what the commands wrote. `copy[p]` is
the local `cfg`, `prev[p]` the captured revocation. In `DevicePoll` a unit of time
has no fixed length; every sleep may last up to `Lateness` too long.

In `Tunnel` frames are counted, and what one is shows when it is handled: work that
may send, or the end of the session (a device-wide `tunnel_error`). `drain` is the
await `drain_incoming` is at: `recv`, `taken` (`last_pong`), `lock` (the supervisor's
mutex, which it has in `busy` and `send`). `watch` is the watcher, which needs the same
mutex (`wants`) to shut the children down (`reset`) before it ends the session. `reader` is
`closing` between the close that was read and the end of `ws_task`, which waits for the
send task it has aborted. `tick` is the time to the next heartbeat, `quiet` the time
since a frame was taken from the incoming queue, `slept` that the wall clock has run
ahead of the monotonic one; `Interval` and `StaleAfter` are the code's 15 s and 25 s in
coarser units. Why a session ended is `RunLoop`'s subject, where it may always be any
of the reasons.

In `Service` `loaded` is what systemd, launchd or the Task Scheduler holds, which may
differ from the file `unit`; `running` is the daemon it runs, `stray` are daemons that
run on after their task was deleted. The steps a platform takes have the names of the
calls it makes. Whether a user bus answers is asked anew at each call on Linux, so
every such call may be skipped. `ignored` says that a command went on although a call
had failed, was skipped although there was something to do, or left a daemon running.

Outside the code, and modelled from how the code uses it: the backend (its first
frame in a session is `server_hello`, a delta names a server once; it gives a login
the installation it asks for or one without a token, and a new token replaces that
of its installation), the operating system's processes and files (a rename is atomic), the
service managers (`enable --now` leaves a unit that runs alone; `bootstrap` fails for
a loaded agent; `/delete` leaves the program the task has started alone, which is why
`uninstall` calls `/end` before, and `/run` may count that program as an instance of
the new task or start another), and, for `RunLoop`, whoever writes `config.toml`.

## 3. Runs

| Run | Instance | What it shows |
|---|---|---|
| `ChildServer` | 2 incarnations, spawned in one order; 392 295 states | `OneObituary`, `NoSilentDeath`, `OneProcess` under every interleaving of reporters, replacement and sessions; under fairness `DeathReported` |
| `ChildServerGhost` | 2 | counterexample to `ObituaryIsFinal` |
| `Supervisor` | 2 servers, 2 specs, 3 incarnations (symmetric) | `Converged`, `PublishedAgrees`, `NothingForgotten`, and `Reconciles`: the refinement of `Reconciler` |
| `RunLoop` | 5 configurations: one account with a rotated credential, another account, two legacy keys; back-off 1 to 30 | `StoreMatchesSession`, `NoRetryOfRejected`, and under fairness `ConfigAdopted`, `RetriesForever` |
| `Daemon` | 2 servers, 1 spec, 2 incarnations, 2 accounts; not beyond a failed spawn | `AccountIsolation`, `LoggedOutKeepsNone` |
| `EnvStore` | 2 servers, 1 variable, 1 placeholder | `ChildrenCurrent`, `RestartKeepsValues` |
| `EnvStoreWriteThrough` | the same | counterexample to `WriteThrough` |
| `Login` | 2 processes; 2 each of backends, installations, users and legacy accounts per backend, tokens (all symmetric); 213 163 states | `FileCoherent`, `PresentsOwn` for every set of flags, `RevokedNotInUse`, `NoStrayToken` |
| `DevicePoll` | expiries 1 to 16 and one out of range, intervals 0, 2, 3, Retry-After 0, 3, 50 | `Polite`, `NoLateToken`, and `PollEnds`: it returns, and when at the latest |
| `SecureFile` | 2 writers, 2 values, 3 names next to the file; unix, Windows, `state.json`; 34 010 states | `CopyExists`, and `ReadersSeeWhole`: the refinement of `AtomicFile` |
| `Tunnel` | 2 sessions' queues of 1 frame, 1 pump, a heartbeat every unit of time, stale after one; 189 077 states | `SilenceNoticed`, and under fairness `SessionGivesWay`, `EndedSocketsClose` |
| `Service` | 3 platforms, 2 binaries (symmetric); 18 978 states | `InstallDecidesStarts`, `KeepsInstalled`, `UninstallEndsService` |

Every passing run but `Daemon`, whose variables are those of its components, also
checks the type invariant of its module.

Why the bounds are enough. Two incarnations are the least in which an old one can
disturb its successor; the third of `Supervisor` lets one server be replaced while the
other runs. Two servers are the least in which a handler or reset can be dropped between
two children, or one server's flush write what another's could not. Two specs make a
change of spec; nothing compares more than two at a time. Incarnations are never reused,
so their number bounds the spawns of a behaviour. The configurations of `RunLoop` are
one of each relation two configurations can have: same identity, other identity with the
same namespace, other identity and namespace. `Daemon` bounds the back-off at 1 because
nothing of the supervisor depends on it, and its constraint leaves out what follows a
failed spawn, which `Supervisor` explores; `DaemonProofs` needs neither bound. In
`Login` two overlapping commands and two tokens ever issued are enough for one command
to displace or revoke the other's, or its own predecessor's; two legacy accounts of a
backend are enough for one to find the other's secret. The constraint `MCBound` does not
go on from states in which both commands are about to save a copy with an API key, or
are under way while some copy joins values of two legacy accounts; the proofs, which
need none of these bounds, cover them. In `DevicePoll` a minimum interval of 2 and a
lateness of 2 let a code expire before the first request, between two, exactly at one,
and during one (timeout 3). Two bounds of its instance are not the code's:
`LastInstant`, the end of the clock, and `PollCap`, where polls stop being counted (no
behaviour of the instance gets there).

Two writers are the least in which one can take the other's file aside, and three
names give each its temporary file and leave one for a backup or for what a killed
writer left. A queue of one frame is full as soon as it is used; a second session is
the least that can run beside the send task of the one before. With a tick and a limit
of one unit, silence is looked at before, at and after the limit; `TunnelProofs` has
any others. Two binaries are the one installed and the one that replaces it.

Deadlock is checked in every run but `DevicePoll`, whose loop returns.

### Fairness

- `ChildServer`: pumps and handlers are tasks the runtime polls; a dead process
  closes its pipes; the socket takes queued frames. No exit, session or frame is
  assumed.
- `RunLoop`: the polls of the file, the watcher and the steps between sessions.
  `connect` has no timeout and nothing is assumed of it: `ConfigAdopted` excepts a
  daemon that stays there for ever, by name - not one that comes back to it.
- `Tunnel`: a send task is polled, and a socket takes a frame or breaks in the end
  (TCP's own timeout); a pump that waits finds room or a closed queue; tasks that can
  go on do. A handler ends, and gets the room it waits for: strong fairness, since
  others may take the room first, but tokio's queue serves those who wait in turn, and
  the supervisor's handlers end as far as spawns and waits do (`HandlersAdvance`).
  Nothing is assumed of the backend or the heartbeat.
- `DevicePoll`: some step is always taken while there is one: time passes, the task
  is polled, a request ends by the client's timeout.

### Disagreements the runs show

1. `ChildServerGhost` - the hello is read under the lock and queued after it, and a
   child is inserted before its spawn result is queued. A one-shot `server_offline`
   between the two is overtaken: the backend then believes in a dead child.
2. `EnvStoreWriteThrough` - a removal repeated after a failed flush finds nothing in
   memory, flushes nothing and returns Ok: the entry is still on disk and returns
   with the next restart.

Seen while modelling, plain from the text and not given a run:

- `shutdown_children` empties the map first (daemon.rs:594). If the session ends
  before it has stopped every child, the rest run on outside the map (their stdin is
  closed, so a well-behaved one exits; `kill_on_drop` does not apply while a pump
  holds the child), also through the next snapshot, which ARCHITECTURE.md:263-264
  calls authoritative.
- `server_offline` names a server, not an incarnation (ARCHITECTURE.md:168-176). A
  pump whose handle was dropped with a session lives on - only `shutdown` aborts it
  (proc.rs:630-632) - and can strike the successor.
- `needs_upgrade` "stops retrying until the binary is updated" (ARCHITECTURE.md:101,
  state.rs:42), but any change of `config.toml` makes the same binary connect again
  (daemon.rs:232).
- The back-off is capped at 30 s where ARCHITECTURE.md:242 says 60.
- `Connected` is published before `server_hello` where state.rs says after.
- The comment on `apply_spec_update` says wholesale replace where the code merges.
- `snapshot_entries` promises lockstep with every mutation, and a dropped handler
  publishes nothing.
- A login begun before a logout and finished after it, as the same user, writes back
  the Edison secret key the logout had removed: its copy is older. `FileCoherent`
  shows that it is at least the same user's.
- A login as another user that reuses the installation keeps the children: the
  resolved configuration has no user (daemon_auth.rs:139).
- `StateWriter::update` drops the mutex before the write, where the comment at
  state.rs:116-120 has it held across. Nothing comes of it, since all updates are made
  by the one task of `run`, one after the other.
- The temporary file of `state.json` has a fixed name: two daemons of one user can
  tear it. It is not synced either: after a power loss it may be empty.
- On Windows a writer whose second rename failed puts back the file it took aside,
  perhaps over the value another writer has installed meanwhile; and nothing ever
  reads a backup that a killed writer left (`CopyExists` shows it is there).
- The last word of a session can be lost: a device-wide `tunnel_error` when a handler
  is at work as the socket ends, or when the frame was taken and waits for a mutex
  (daemon.rs:392-394) while another branch of the select is ready, the watcher's reset,
  which holds that mutex, above all; a close code when the heartbeat or a changed
  configuration is ready between the close and the end of `ws_task`, which awaits the
  send task first (tunnel.rs:260-261). The select is biased against this, but only at
  the poll in which all are ready. No property says that the last word is kept: it is
  not. What is lost is a verdict; the next connect is refused again.
- Two legacy accounts of one backend are mixed: a login with an API key that is given
  neither secret nor device id keeps those of the legacy login before (login.rs:179-199,
  config.rs:233), and the daemon presents them with the new key. `FileCoherent` and
  `PresentsOwn` hold for browser accounts, and between a browser and a legacy one.
- The heartbeat's ping waits in the queue of the connection it watches: while that is
  full nothing notices that the connection is stale (ARCHITECTURE.md:233 has no such
  exception). It is the exception of `SilenceNoticed`.
- `quiet` counts from when a frame is taken from the queue, so a handler at work for
  longer than the limit makes a live connection look stale. ARCHITECTURE has a pong
  expected within 10 s where the code waits 25.
- A second `install` does not replace a daemon that runs, where platform/mod.rs:6-7
  says that re-running replaces: on Linux `enable --now` leaves it alone, on Windows
  `/delete` does, though windows.rs:176 says "stops it too". Only on macOS is it
  stopped. So `InstallDecidesStarts` speaks of what is started from then on, and of what
  runs on macOS only.
- On Windows the task is deleted before it is created: an install that fails or is
  killed in between leaves none. This is the exception of `KeepsInstalled`.
- An `uninstall` on Linux that no user bus answers skips `disable --now` without a word
  (linux.rs:180): the daemon runs on until the session ends and writes `state.json`
  again. So does one whose manager reports an error, or, on Windows, one left behind by an
  earlier `/delete`. `UninstallEndsService` excepts these (`ignored`), but not from the next
  login on Linux and macOS.
- ARCHITECTURE says `Restart=always` where the unit has `on-failure`.
- The task name on Windows falls back to the base name when `whoami` fails, so that
  two tasks are possible; the model has one name per task.

## 4. Proofs

All theorems hold for every value of the constants, under the named assumptions of
the modules (`IncAssumption`, `RunLoopAssumption`, `EnvStoreAssumption`,
`NoneAssumption`, `LoginAssumption`, `DevicePollAssumption`, `SecureFileAssumption`,
`SupervisorAssumption`, `TunnelAssumption`, `ServiceAssumption`). They say that what
stands for nothing is none of the things it is the absence of, that no spec is one
of the words a delta uses, that configurations of different namespaces have
different identities, that queues hold a frame and intervals are not zero, and that
a platform is one of the three. TLC evaluates each in the runs of its module.

Every safety property that a passing run checks is a theorem, the refinements of
`Reconciler` and `AtomicFile` included. None of them is inductive as it stands, but
for some type invariants; this is what each needs besides.

`ChildServerProofs`. `ReportInv` elects the one winner of `reported.swap`: a loser
found the flag set, the winner is in `claimed`, and only it is between swap and
store. `OneObituary` and `ExitedIsClaimed` are among its conjuncts. `SilenceInv`
adds that nothing is owed before the hello is read; `DrainInv` that the drain loop
enters `take_terminal_error` only where a pump has been before; `ProcessInv` that at
most one handle is in use. `NoSilentDeath` needs `ReportInv`, because whoever marks
a child exited must leave a winner behind that still carries the error.

`DaemonProofs`, on `RunLoop`. `StoreInv` follows the open store through a switch: at
every phase but the start and the end the store is that of the configuration in use.
`RetryInv` adds what a wait has seen: as long as the file differs from what is in
use, or about to be, it was written since it was last read. `NoRetryOfRejected`
rests on it.

`DaemonProofs`, on `Supervisor`. `GoalInv` says that what a handler has still to do
for a server is what the server lacks, and that a server it is not at, and is done
with, is right; with nothing left to do `Converged` follows. It needs `SettledInv`: a
delta or a respawn begins only in a session whose snapshot has been applied to the
end, because a dropped handler ends the session. `ControlInv` says where handles are:
what is let go of was killed, which is `NothingForgotten`. `ProcessInv` keeps a fresh
incarnation apart from those of the map, so that a spawn changes one server only:
this is the step the refinement of `Reconciler` rests on.

`DaemonProofs`, on `Daemon`. Every step of the composition is one of `RunLoop` or
leaves its variables alone, and, but for a reset the signal drops, one of
`Supervisor`; so both invariants hold of it. `LinkInv` ties the two together: handlers
and sessions exist in the phase `live` only, resets while a phase waits for them, and
from the first step of a reset to its end the map is empty. Then every configuration
is adopted either with the same identity or with an empty map, which is
`AccountIsolation` (`OwnerInv`, for all phases but the exit).

`TunnelProofs`. `BeatInv`: as long as a tick is ahead, the time since the last frame
and the time to that tick add up to no more than the limit and an interval. Time
passes a tick only while the heartbeat, which would end the session there or send,
waits for room; hence `SilenceNoticed`. `SessionInv` says what there is of a session
in which stage: without one no sender, no frame and no heartbeat, and so nobody who
could add to what it leaves behind (`NobodyJoins`).

`ServiceProofs`. The three properties are about the end of a command; the invariant says
what each of its calls can rely on. `CommandInv`: which calls belong to which command,
on which platform. `InstallInv` and `UninstallInv`: what the calls before have achieved,
whatever was ignored, and what more if nothing was. `ManagerInv` and `InstalledInv`:
what of that crashes, restarts, log-offs and log-ons cannot undo. A call that fails, and
an interruption, are one lemma (`FailureStep`), as such a command promises nothing.

`SecureFileProofs`. `PlacesInv`: no two writers share a name they still need.
`ContentsInv`: what is about to be put in place is whole and, for private files, on
the disk. `LastInv`: while the file is absent, its last value is in a synced file
that nobody is going to write, move or remove. The refinement then needs only that
what is put in place is what some writer offers, and that nothing but a power loss
tears what is in place.

`EnvStoreProofs`. `EnvInv`: what a child was given is a function of `mem[s]` and
its raw spec; a handler that changes `mem[s]` removes the child, or marks it
unsaved, in the same step, and one that waits to forget values has no child left.
For the file: memory and disk differ only after a failed flush.

`LoginProofs`. Each edit of a copy turns a coherent one into a coherent one, and
nothing but a copy is ever saved: `FileCoherent`. `PresentsOwn` and
`InstallableRuns` are about the file alone and follow from its coherence and type;
the first splits on whether a key comes from a flag and on the kind of credential.
`RevokedNotInUse` needs `FreshInv`: a new token is in one copy only until it is
saved, so nobody can have captured it, and no two commands save the same one.
`NoStrayToken` needs `SeenInv`: who will not revoke the token it found has had the
backend replace it.

`DevicePollProofs`. At the head of the loop no time has passed since the last answer,
the interval is at least all that was asked for, and a sleep lasts it
(`IntervalInv`); the other invariants say where a sleep may end.

Besides what the runs check:

- `ExitedClaimed`, `DrainIsSilent` (`ChildServer`), `InstallIffRuns` (`Login`),
  `NamespaceChangeResets` (`PersistedConfig`);
- `StatusIsTruthful` (`RunLoop`): what `state.json` says of the connection is what the
  loop is at, and in a wait what would end it;
- `ValuesAreKept` (`EnvStore`): a stored value is lost only with its server, or by a
  restart after a failed flush;
- `UserDataIsKept` (`Service`): the configuration and the logs disappear under
  `uninstall --purge` only.

Only model-checked are the six liveness properties, since fairness is out of the
prover's reach. For three of them the half that is a matter of safety is proved, so
that what TLC alone shows is that the steps are taken:

| Liveness | What is proved of it |
|---|---|
| `DeathReported` | `ReportersNeverGoBack`: a reporter's every step brings it nearer to its end |
| `PollEnds` | `ReturnsInTime`: the loop is never at work past the deadline, a late wake-up and one request; `PollsStayBounded`: nor does it send more than one request per interval |
| `EndedSocketsClose` | `NobodyJoins`: what a session leaves behind only shrinks |
| `ConfigAdopted`, `RetriesForever`, `SessionGivesWay` | nothing: each is about steps that must be taken, not about steps that must not |

`HandlersAdvance` is the same for the handlers of `Supervisor`, of which no run claims
that they end: a spawn or a wait may take for ever.

## 5. Not modelled, and the plan

Not modelled: serialisation, messages and log text, MCP payloads, stderr tails
(a delay), a child's own stdin queue, command construction, the text of unit files,
plists and tasks beyond what they tell the manager to do, the HTTP client, the code
verifier and the validation of a login's answers, and the commands `server`, `status`
and `logs`, which make one request or read one file and print: they have no state
and no steps to interleave. Real time is replaced by "may happen" except in
`DevicePoll` and `Tunnel`; `EnvStore` takes one namespace. The spike under `dev/` is
a prototype and no part of the program.

What could follow:

1. `RunLoop` over the files `Login` leaves, with `PersistedConfig!Resolve` in place
   of the enumerated configurations: `AccountIsolation` would then rest on
   `FileCoherent` and not on an arbitrary rewrite.
2. `Tunnel` joined to `ChildServer`, with the queue of reports bounded.
