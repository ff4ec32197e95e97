------------------------------- MODULE Service -------------------------------
(***************************************************************************)
(* install and uninstall (cli/install.rs, platform/): the unit file, what  *)
(* the service manager knows, the daemon it runs, and the files of the     *)
(* user, under commands that fail at any call or are interrupted between   *)
(* any two, crashes of the daemon, and users who log off and on.           *)
(*                                                                         *)
(* A definition (a systemd unit, a LaunchAgent plist, a Scheduled Task) is *)
(* the binary it starts; when the manager starts it is in Settings.  A     *)
(* Scheduled Task has no file: `unit` stays empty on Windows.              *)
(***************************************************************************)
EXTENDS Naturals

CONSTANTS Platforms, Binaries, NoBin

ASSUME ServiceAssumption ==
  /\ Platforms \subseteq {"linux", "macos", "windows"}
  /\ NoBin \notin Binaries

VARIABLES
  platform,
  session,    \* the user is logged in
  unit,       \* the binary of the unit file or plist
  loaded,     \* the binary of the definition the manager holds
  enabled,    \* systemd starts the unit at login
  running,    \* the binary of the daemon the manager runs
  stray,      \* the binaries of daemons that run on without their task
  gone,       \* the daemon has ended by itself: for good, or to be restarted
  config,     \* config.toml: absent, not sufficient, or installable
  state,      \* state.json is there
  logs,       \* the log directory is there
  op, at,     \* the command under way and the call it is at
  target,     \* the binary that runs `install`
  purge,
  last,       \* history: what the last command came to
  ignored,    \* history: it went on although a call failed, was not made, or
              \* left a daemon running
  installed   \* history: installed with success, and not uninstalled since

managerVars == <<unit, loaded, enabled, running, stray, gone>>
userVars    == <<config, state, logs>>
commandVars == <<op, at, target, purge>>
historyVars == <<last, ignored, installed>>
serviceVars == <<platform, session, managerVars, userVars, commandVars, historyVars>>

Calls == {"none", "write", "drop", "load", "run",
          "stop", "remove", "reload", "state", "config", "logs"}

ServiceTypeOK ==
  /\ platform \in Platforms
  /\ {session, enabled, state, logs, purge, ignored, installed} \subseteq BOOLEAN
  /\ {unit, loaded, running, target} \subseteq Binaries \cup {NoBin}
  /\ stray \subseteq Binaries
  /\ gone \in {"no", "restart", "ended"}
  /\ config \in {"absent", "insufficient", "installable"}
  /\ op \in {"none", "install", "uninstall"}
  /\ at \in Calls
  /\ last \in {"none", "installed", "uninstalled", "failed"}
  /\ op = "none" <=> at = "none"

ServiceInit ==
  /\ platform \in Platforms
  /\ session = TRUE
  /\ unit = NoBin /\ loaded = NoBin /\ running = NoBin
  /\ stray = {} /\ enabled = FALSE /\ gone = "no"
  /\ config = "absent" /\ state = FALSE /\ logs = FALSE
  /\ op = "none" /\ at = "none" /\ target = NoBin /\ purge = FALSE
  /\ last = "none" /\ ignored = FALSE /\ installed = FALSE

\* What the definitions tell the manager to do: when to restart a daemon that
\* ends by itself, and whether to start it at login.
UnitSettings  == [restarts |-> {"crash"},         login |-> enabled]
PlistSettings == [restarts |-> {"crash", "exit"}, login |-> TRUE]
TaskSettings  == [restarts |-> {"crash"},         login |-> TRUE]

Settings == CASE platform = "linux"   -> UnitSettings
              [] platform = "macos"   -> PlistSettings
              [] platform = "windows" -> TaskSettings

\* What is started at the next login.
AtLogin == IF ~Settings.login THEN NoBin
           ELSE IF platform = "windows" THEN loaded ELSE unit

\* is_installed and is_running, as `status` asks for them: on Linux the answer
\* is "not running" if no user bus answers the process that asks.
UnitStatus(bus) == [installed |-> unit # NoBin, running |-> bus /\ running # NoBin]
PlistStatus == [installed |-> unit # NoBin,   running |-> loaded # NoBin /\ running # NoBin]
TaskStatus  == [installed |-> loaded # NoBin, running |-> loaded # NoBin /\ running # NoBin]

Status(bus) == CASE platform = "linux"   -> UnitStatus(bus)
                 [] platform = "macos"   -> PlistStatus
                 [] platform = "windows" -> TaskStatus

-----------------------------------------------------------------------------
(* The command *)

\* Bug: a command that is over is at its last call still.
EndMidCall(result) ==
  /\ op' = "none"
  /\ last' = result
  /\ UNCHANGED <<platform, session, at, target, purge>>

\* On to the next call.
Go(c) ==
  /\ at' = c
  /\ UNCHANGED <<platform, session, op, target, purge, last, installed>>

Fine == UNCHANGED ignored
Ignore == ignored' = TRUE

\* The command is over.
End(result) ==
  /\ op' = "none" /\ at' = "none"
  /\ last' = result
  /\ UNCHANGED <<platform, session, target, purge>>

\* An error the command returns.
Err == End("failed") /\ UNCHANGED <<ignored, installed>>

\* `install` refuses without a configuration the daemon could run with, and
\* on Linux if no user bus answers it.  A refusal changes nothing.
Install(b) ==
  /\ op = "none" /\ session
  /\ config = "installable"
  /\ op' = "install" /\ at' = "write" /\ target' = b
  /\ purge' = FALSE /\ last' = "none"
  /\ ignored' = FALSE
  /\ logs' = (logs \/ platform # "windows")
  /\ UNCHANGED <<platform, session, managerVars, config, state, installed>>

Uninstall(p) ==
  /\ op = "none" /\ session
  /\ op' = "uninstall" /\ at' = "stop" /\ purge' = p
  /\ last' = "none" /\ ignored' = FALSE
  /\ installed' = FALSE
  /\ UNCHANGED <<platform, session, managerVars, userVars, target>>

\* From the last call of uninstall that deals with the manager.
Uninstalled == Go("state")

-----------------------------------------------------------------------------
(* systemd: platform/linux.rs *)

\* Bug: the unit is written in place: a failure leaves none.
WriteInPlace ==
  /\ platform \in {"linux", "macos"} /\ at = "write"
  /\ \/ /\ unit' = target
        /\ Go("drop") /\ Fine
     \/ unit' = NoBin /\ Err
  /\ UNCHANGED <<loaded, enabled, running, stray, gone, userVars>>

\* write_unit: a temporary file is written and renamed.
WriteUnit ==
  /\ platform \in {"linux", "macos"} /\ at = "write"
  /\ \/ /\ unit' = target
        /\ Go("drop") /\ Fine
     \/ UNCHANGED unit /\ Err
  /\ UNCHANGED <<loaded, enabled, running, stray, gone, userVars>>

\* daemon-reload; what it reports is only logged.
DaemonReload ==
  /\ platform = "linux" /\ at = "drop"
  /\ \/ loaded' = unit /\ Go("load") /\ Fine
     \/ UNCHANGED loaded /\ Go("load") /\ Ignore
     \/ UNCHANGED loaded /\ Err
  /\ UNCHANGED <<unit, enabled, running, stray, gone, userVars>>

\* enable --now: a unit that runs goes on as it is.  Without a definition
\* in memory systemd reads the file.
EnableNow ==
  /\ platform = "linux" /\ at = "load"
  /\ \/ /\ enabled' = TRUE
        /\ loaded' = IF loaded = NoBin THEN unit ELSE loaded
        /\ running' = IF running = NoBin THEN loaded' ELSE running
        /\ gone' = "no"
        /\ End("installed") /\ installed' = TRUE /\ Fine
     \/ /\ enabled' \in {enabled, TRUE}
        /\ Err
        /\ UNCHANGED <<loaded, running, gone>>
  /\ UNCHANGED <<unit, stray, userVars>>

\* disable --now, if a user bus answers.  Uninstall goes on when none does,
\* and when systemd reports an error.
DisableNow ==
  /\ platform = "linux" /\ at = "stop"
  /\ \/ /\ enabled' = FALSE /\ running' = NoBin /\ gone' = "no"
        /\ Go("remove") /\ Fine
     \/ /\ UNCHANGED <<enabled, running, gone>>
        /\ Go("remove")
        /\ IF enabled \/ running # NoBin \/ gone = "restart" THEN Ignore ELSE Fine
     \/ UNCHANGED <<enabled, running, gone>> /\ Err
  /\ UNCHANGED <<unit, loaded, stray, userVars>>

\* daemon-reload, if a user bus answers now; errors are ignored.
ReloadAfter ==
  /\ platform = "linux" /\ at = "reload"
  /\ \/ loaded' = unit /\ Fine
     \/ UNCHANGED loaded /\ (IF loaded # NoBin THEN Ignore ELSE Fine)
  /\ Uninstalled
  /\ UNCHANGED <<unit, enabled, running, stray, gone, userVars>>

-----------------------------------------------------------------------------
(* launchd: platform/macos.rs *)

\* bootout_quiet: unloads the agent and stops the daemon, or there is none;
\* any other failure is only logged.
Bootout(next) ==
  /\ \/ /\ loaded' = NoBin /\ running' = NoBin /\ gone' = "no"
        /\ Go(next) /\ Fine
     \/ /\ UNCHANGED <<loaded, running, gone>>
        /\ loaded # NoBin
        /\ Go(next) /\ Ignore
     \/ UNCHANGED <<loaded, running, gone>> /\ Err
  /\ UNCHANGED <<unit, enabled, stray, userVars>>

BootoutFirst ==
  /\ platform = "macos"
  /\ \/ at = "drop" /\ Bootout("load")
     \/ at = "stop" /\ Bootout("remove")

\* Bug: the agent that is already loaded counts as success.
BootstrapAnyway ==
  /\ platform = "macos" /\ at = "load"
  /\ loaded' = IF loaded = NoBin THEN unit ELSE loaded
  /\ running' = loaded' /\ gone' = "no"
  /\ End("installed") /\ installed' = TRUE /\ Fine
  /\ UNCHANGED <<unit, enabled, stray, userVars>>

\* launchctl bootstrap: fails if the agent is loaded still.
Bootstrap ==
  /\ platform = "macos" /\ at = "load"
  /\ \/ /\ loaded = NoBin
        /\ loaded' = unit /\ running' = unit /\ gone' = "no"
        /\ End("installed") /\ installed' = TRUE /\ Fine
     \/ UNCHANGED <<loaded, running, gone>> /\ Err
  /\ UNCHANGED <<unit, enabled, stray, userVars>>

-----------------------------------------------------------------------------
(* The Task Scheduler: platform/windows.rs *)

\* The definition goes to a file of its own, to be read by /create.
WriteTaskXml ==
  /\ platform = "windows" /\ at = "write"
  /\ (Go("drop") /\ Fine) \/ Err
  /\ UNCHANGED <<managerVars, userVars>>

\* /delete removes the task and leaves the program it started alone; a
\* failure is ignored.
DeleteTask(next) ==
  /\ platform = "windows"
  /\ \/ /\ loaded' = NoBin
        /\ running' = NoBin /\ stray' = stray \cup ({running} \ {NoBin})
        /\ gone' = IF gone = "restart" THEN "ended" ELSE gone
        /\ Fine
     \/ /\ UNCHANGED <<loaded, running, stray, gone>>
        /\ IF loaded = NoBin THEN Fine ELSE Ignore
  /\ Go(next)
  /\ UNCHANGED <<unit, enabled, userVars>>

DropTask == at = "drop" /\ DeleteTask("load")

\* uninstall gives up if schtasks itself cannot be started.
RemoveTask ==
  /\ platform = "windows" /\ at = "remove"
  /\ \/ DeleteTask("state")
     \/ Err /\ UNCHANGED <<managerVars, userVars>>

\* /create /f
CreateTask ==
  /\ platform = "windows" /\ at = "load"
  /\ (loaded' = target /\ Go("run") /\ Fine)
       \/ (UNCHANGED loaded /\ Err)
  /\ UNCHANGED <<unit, enabled, running, stray, gone, userVars>>

\* /run, which IgnoreNew makes a no-op while an instance runs.  Whether the
\* Scheduler counts a daemon of the deleted task as one is not up to this
\* code: it may take it over, or start another beside it.  If /run fails,
\* install is done all the same.
RunTask ==
  /\ platform = "windows" /\ at = "run"
  /\ \/ /\ running' = IF running = NoBin THEN loaded ELSE running
        /\ gone' = "no"
        /\ Fine /\ UNCHANGED stray
     \/ \E b \in stray :
          /\ running = NoBin /\ running' = b /\ stray' = stray \ {b}
          /\ gone' = "no"
          /\ Fine
     \/ UNCHANGED <<running, stray, gone>> /\ Ignore
  /\ End("installed") /\ installed' = TRUE
  /\ UNCHANGED <<unit, loaded, enabled, userVars>>

\* /end, whose result nobody looks at, ends the task's instance.  A daemon of
\* a task that was deleted, or one about to be restarted, is none.
EndTask ==
  /\ platform = "windows" /\ at = "stop"
  /\ running' \in {running, NoBin}
  /\ IF running' = NoBin /\ gone # "restart" /\ stray = {} THEN Fine ELSE Ignore
  /\ Go("remove")
  /\ UNCHANGED <<unit, loaded, enabled, stray, gone, userVars>>

-----------------------------------------------------------------------------
(* The rest of uninstall *)

\* Bug: uninstall goes on when the unit file cannot be removed, too.
RemoveUnitQuietly ==
  /\ platform \in {"linux", "macos"} /\ at = "remove"
  /\ (unit' = NoBin /\ Fine) \/ (UNCHANGED unit /\ Ignore)
  /\ IF platform = "linux" THEN Go("reload") ELSE Uninstalled
  /\ UNCHANGED <<loaded, enabled, running, stray, gone, userVars>>

RemoveUnit ==
  /\ platform \in {"linux", "macos"} /\ at = "remove"
  /\ \/ /\ unit' = NoBin
        /\ IF platform = "linux" THEN Go("reload") ELSE Uninstalled
        /\ Fine
     \/ UNCHANGED unit /\ Err
  /\ UNCHANGED <<loaded, enabled, running, stray, gone, userVars>>

Finish == End("uninstalled") /\ UNCHANGED <<installed>>

\* state.json goes with every uninstall; a failure is only logged.
RemoveState ==
  /\ at = "state"
  /\ (state' = FALSE /\ Fine) \/ (UNCHANGED state /\ Ignore)
  /\ IF purge THEN Go("config") ELSE Finish
  /\ UNCHANGED <<managerVars, config, logs>>

\* purge_user_data: config.toml and state.json, then the logs.
PurgeConfig ==
  /\ at = "config"
  /\ \/ /\ config' = "absent" /\ state' = FALSE
        /\ Go("logs") /\ Fine
     \/ /\ config' \in {config, "absent"} /\ state' \in {state, FALSE}
        /\ Err
  /\ UNCHANGED <<managerVars, logs>>

PurgeLogs ==
  /\ at = "logs"
  /\ (logs' = FALSE /\ Finish /\ Fine) \/ (UNCHANGED logs /\ Err)
  /\ UNCHANGED <<managerVars, config, state>>

\* The command is interrupted between two calls.
Interrupt ==
  /\ op # "none"
  /\ Err
  /\ UNCHANGED <<managerVars, userVars>>

-----------------------------------------------------------------------------
(* The rest of the world *)

Elsewhere == UNCHANGED <<platform, commandVars, historyVars>>

\* A daemon, as long as it runs, publishes its state; on Windows it opens its
\* log itself.
Publish ==
  /\ running # NoBin \/ stray # {}
  /\ state' = TRUE
  /\ logs' = (logs \/ platform = "windows")
  /\ Elsewhere /\ UNCHANGED <<session, managerVars, config>>

\* The daemon crashes, or returns.
Exits(kind) ==
  /\ running # NoBin
  /\ running' = NoBin
  /\ gone' = IF kind \in Settings.restarts THEN "restart" ELSE "ended"
  /\ Elsewhere /\ UNCHANGED <<session, unit, loaded, enabled, stray, userVars>>

StrayExits(b) ==
  /\ b \in stray /\ stray' = stray \ {b}
  /\ Elsewhere
  /\ UNCHANGED <<session, unit, loaded, enabled, running, gone, userVars>>

\* The manager starts again what it has loaded.
StartAgain ==
  /\ gone = "restart" /\ loaded # NoBin
  /\ running' = loaded /\ gone' = "no"
  /\ Elsewhere /\ UNCHANGED <<session, unit, loaded, enabled, stray, userVars>>

\* The session ends, with the daemon and the command; systemd and launchd
\* end with it, too.
LogOff ==
  /\ session /\ session' = FALSE
  /\ running' = NoBin /\ stray' = {} /\ gone' = "no"
  /\ loaded' = IF platform = "windows" THEN loaded ELSE NoBin
  /\ op' = "none" /\ at' = "none"
  /\ last' = IF op = "none" THEN last ELSE "failed"
  /\ UNCHANGED <<platform, target, purge, ignored, installed, unit,
                 enabled, userVars>>

LogOn ==
  /\ ~session /\ session' = TRUE
  /\ loaded' = IF platform = "windows" THEN loaded ELSE unit
  /\ running' = AtLogin
  /\ Elsewhere /\ UNCHANGED <<unit, enabled, stray, gone, userVars>>

\* login and logout rewrite config.toml.
EditConfig ==
  /\ config' \in {"insufficient", "installable"}
  /\ Elsewhere /\ UNCHANGED <<session, managerVars, state, logs>>

SystemdStep == DaemonReload \/ EnableNow \/ DisableNow \/ ReloadAfter
LaunchdStep == BootoutFirst \/ Bootstrap
TaskStep == WriteTaskXml \/ DropTask \/ CreateTask \/ RunTask \/ EndTask
            \/ RemoveTask
CommonStep == WriteUnit \/ RemoveUnit \/ RemoveState \/ PurgeConfig
              \/ PurgeLogs \/ Interrupt
Begins == (\E b \in Binaries : Install(b)) \/ (\E p \in BOOLEAN : Uninstall(p))
World == Publish \/ (\E kind \in {"crash", "exit"} : Exits(kind))
         \/ (\E b \in Binaries : StrayExits(b)) \/ StartAgain
         \/ LogOff \/ LogOn \/ EditConfig

ServiceNext == Begins \/ SystemdStep \/ LaunchdStep \/ TaskStep
               \/ CommonStep \/ World

ServiceSpec == ServiceInit /\ [][ServiceNext]_serviceVars

-----------------------------------------------------------------------------
(* Properties *)

\* After an install that returned Ok its binary is what is started: at the
\* next login, and when the daemon is restarted - unless, on Linux, a reload
\* failed and was ignored.  "Daemon is running", says install: one is, or it
\* has ended since, or /run has failed.  On macOS it is the new one.  On Linux
\* and Windows a daemon that ran before is not replaced: `enable --now`, and
\* a /delete and a /run that find it running, leave it alone.
InstallDecidesStarts ==
  last = "installed" =>
    /\ AtLogin = target
    /\ session => loaded = target \/ (platform = "linux" /\ ignored)
    /\ platform = "macos" => running \in {target, NoBin}
    /\ session /\ running = NoBin =>
         gone # "no" \/ (platform = "windows" /\ ignored)

\* Once installed, the daemon comes back at the next login whatever a later
\* install does, fails at or is killed in - except on Windows, where the
\* task is deleted before it is created again.
KeepsInstalled ==
  installed =>
    \/ AtLogin # NoBin
    \/ /\ platform = "windows"
       /\ op = "install" \/ last = "failed"

\* An uninstall that returned Ok keeps the daemon from the next login on Linux
\* and macOS, and `status` says so, whatever call failed or was not made for
\* want of a user bus.  If each was made and worked, nothing of the service
\* is left on any platform: no daemon, nobody to start one, now, after a crash
\* or at login, no state.json to tell of it, and with --purge no logs.
UninstallEndsService ==
  last = "uninstalled" =>
    /\ platform # "windows" =>
         AtLogin = NoBin /\ \A bus \in BOOLEAN : ~Status(bus).installed
    /\ ~ignored =>
         /\ running = NoBin /\ stray = {} /\ gone # "restart"
         /\ loaded = NoBin /\ AtLogin = NoBin
         /\ ~state /\ (purge => ~logs)
=============================================================================
