---------------------------- MODULE ServiceProofs ----------------------------
(***************************************************************************)
(* Proofs about Service, for any set of platforms and binaries: what is    *)
(* started after an install that returned Ok, that an installed service    *)
(* stays installed, and what an uninstall ends.                            *)
(*                                                                         *)
(* The three are about the end of a command.  The invariant says what each *)
(* of its calls can rely on: what the ones before it achieved (InstallInv, *)
(* UninstallInv), which depends on whether a failure was ignored, and what *)
(* of that the world outside cannot undo (ManagerInv).                     *)
(***************************************************************************)
EXTENDS Service, TLAPS

InstallCalls == {"write", "drop", "load", "run"}
UninstallCalls == {"stop", "remove", "reload", "state", "config", "logs"}

\* The command: which calls belong to which, on which platform, and what was
\* asked before the first of them.
CommandInv ==
  /\ op = "install" <=> at \in InstallCalls
  /\ op = "uninstall" <=> at \in UninstallCalls
  /\ at = "run" => platform = "windows"
  /\ at = "reload" => platform = "linux"
  /\ op # "none" => session /\ last = "none"
  /\ op = "install" \/ last = "installed" => target \in Binaries
  /\ op = "uninstall" \/ last = "uninstalled" => ~installed
  /\ at \in {"config", "logs"} => purge

\* The manager: what a platform does not have is not there, and nothing runs
\* in no session.
ManagerInv ==
  /\ platform # "linux" => ~enabled
  /\ platform = "windows" => unit = NoBin
  /\ platform # "windows" => stray = {}
  /\ ~session => running = NoBin /\ stray = {} /\ gone = "no"
  /\ platform = "macos" => running \in {NoBin, loaded}

\* What install has achieved before the call it is at.
InstallInv ==
  /\ at \in {"drop", "load"} /\ platform # "windows" => unit = target
  /\ at = "load" /\ platform = "linux" /\ ~ignored => loaded = target
  /\ at = "run" => loaded = target

\* What an install that returned Ok has left: the definition, what of it the
\* manager holds, and the daemon.
InstalledInv ==
  last = "installed" =>
    /\ platform # "windows" => unit = target
    /\ platform = "linux" => enabled
    /\ platform = "windows" => loaded = target
    /\ session => loaded = target \/ (platform = "linux" /\ ignored)
    /\ session /\ running = NoBin =>
         gone # "no" \/ (platform = "windows" /\ ignored)

\* What keeps an installed service installed.
KeepInv ==
  installed =>
    /\ platform # "windows" => unit # NoBin
    /\ platform = "linux" => enabled
    /\ platform = "windows" =>
         loaded # NoBin \/ op = "install" \/ last = "failed"

\* Nothing runs, nothing is started again, and nothing is enabled.
Stopped == running = NoBin /\ stray = {} /\ gone # "restart" /\ ~enabled

\* What uninstall has achieved before the call it is at: in any case, and
\* as long as each call was made and worked.
UninstallInv ==
  /\ at \in {"reload", "state", "config", "logs"} \/ last = "uninstalled" =>
       unit = NoBin
  /\ ~ignored =>
       /\ at \in {"remove", "reload"} => Stopped
       /\ at = "remove" /\ platform = "macos" => loaded = NoBin
       /\ at \in {"state", "config", "logs"} \/ last = "uninstalled" =>
            Stopped /\ loaded = NoBin
       /\ at \in {"config", "logs"} \/ last = "uninstalled" => ~state
       /\ last = "uninstalled" => (purge => ~logs)

ServiceInv ==
  /\ ServiceTypeOK /\ CommandInv /\ ManagerInv
  /\ InstallInv /\ InstalledInv /\ KeepInv /\ UninstallInv

-----------------------------------------------------------------------------
\* What the steps below need of the types: booleans they do not.
LEMMA Basics ==
  ASSUME ServiceTypeOK
  PROVE  /\ platform \in {"linux", "macos", "windows"}
         /\ op = "none" <=> at = "none"
         /\ NoBin \notin Binaries /\ NoBin \notin stray
  BY ServiceAssumption DEF ServiceTypeOK

\* What is started at the next login, platform by platform.
LEMMA NextLogin ==
  ASSUME ServiceTypeOK
  PROVE  /\ platform = "linux" =>
              AtLogin = IF enabled THEN unit ELSE NoBin
         /\ platform = "macos" => AtLogin = unit
         /\ platform = "windows" => AtLogin = loaded
<1>1. CASE platform = "linux"
  BY <1>1 DEF AtLogin, Settings, UnitSettings
<1>2. CASE platform = "macos"
  BY <1>2 DEF AtLogin, Settings, PlistSettings
<1>3. CASE platform = "windows"
  BY <1>3 DEF AtLogin, Settings, TaskSettings
<1> QED
  BY <1>1, <1>2, <1>3

-----------------------------------------------------------------------------
(* Every step keeps the invariant *)

\* A command that returns an error, or is interrupted, relies on nothing and
\* promises nothing.
LEMMA FailureStep ==
  ASSUME ServiceInv, op # "none", Err, UNCHANGED <<managerVars, userVars>>
  PROVE  ServiceInv'
<1> USE DEF ServiceInv, End, Err, managerVars, userVars
<1>1. ServiceTypeOK'
  BY DEF ServiceTypeOK, Calls
<1>2. CommandInv'
  BY DEF CommandInv, InstallCalls, UninstallCalls
<1>3. ManagerInv'
  BY DEF ManagerInv
<1>4. InstallInv'
  BY DEF InstallInv
<1>5. InstalledInv'
  BY DEF InstalledInv
<1>6. KeepInv'
  BY DEF KeepInv
<1>7. UninstallInv'
  BY DEF UninstallInv
<1> QED
  BY <1>1, <1>2, <1>3, <1>4, <1>5, <1>6, <1>7

\* The command is interrupted.
LEMMA InterruptStep ==
  ASSUME ServiceInv, Interrupt
  PROVE  ServiceInv'
  BY FailureStep DEF Interrupt

\* Install begins (cli/install.rs).
LEMMA InstallStep ==
  ASSUME ServiceInv, NEW b \in Binaries, Install(b)
  PROVE  ServiceInv'
<1> USE DEF ServiceInv, Install, managerVars
<1>1. ServiceTypeOK'
  BY DEF ServiceTypeOK, Calls
<1>2. CommandInv'
  BY DEF CommandInv, InstallCalls, UninstallCalls
<1>3. ManagerInv'
  BY DEF ManagerInv
<1>4. InstallInv'
  BY DEF InstallInv
<1>5. InstalledInv'
  BY DEF InstalledInv
<1>6. KeepInv'
  BY DEF KeepInv
<1>7. UninstallInv'
  BY DEF UninstallInv
<1> QED
  BY <1>1, <1>2, <1>3, <1>4, <1>5, <1>6, <1>7

\* Uninstall begins (cli/install.rs).
LEMMA UninstallStep ==
  ASSUME ServiceInv, NEW p \in BOOLEAN, Uninstall(p)
  PROVE  ServiceInv'
<1> USE DEF ServiceInv, Uninstall, managerVars, userVars
<1>1. ServiceTypeOK'
  BY DEF ServiceTypeOK, Calls
<1>2. CommandInv'
  BY DEF CommandInv, InstallCalls, UninstallCalls
<1>3. ManagerInv'
  BY DEF ManagerInv
<1>4. InstallInv'
  BY DEF InstallInv
<1>5. InstalledInv'
  BY DEF InstalledInv
<1>6. KeepInv'
  BY DEF KeepInv
<1>7. UninstallInv'
  BY DEF UninstallInv
<1> QED
  BY <1>1, <1>2, <1>3, <1>4, <1>5, <1>6, <1>7

\* The unit file or plist is written.
LEMMA WriteUnitStep ==
  ASSUME ServiceInv, WriteUnit
  PROVE  ServiceInv'
<1> USE DEF ServiceInv, WriteUnit, Go, Fine, End, Err, userVars
<1>1. CASE at' = "none"
  BY <1>1, Basics, FailureStep DEF managerVars
<1>2. CASE at' # "none"
  <2>1. /\ at = "write" /\ op = "install" /\ at' = "drop"
        /\ platform # "windows" /\ unit' = target
        /\ UNCHANGED <<platform, session, target, purge, installed, op,
                       last, loaded, enabled, running, stray, gone>>
    BY <1>2 DEF CommandInv, InstallCalls
  <2>2. ServiceTypeOK'
    BY <1>2 DEF ServiceTypeOK, Calls
  <2>3. CommandInv'
    BY <2>1 DEF CommandInv, InstallCalls, UninstallCalls
  <2>4. ManagerInv'
    BY <2>1 DEF ManagerInv, CommandInv
  <2>5. InstallInv'
    BY <1>2 DEF InstallInv
  <2>6. InstalledInv'
    BY <1>2 DEF InstalledInv
  <2>7. KeepInv'
    BY <2>1, Basics DEF KeepInv, CommandInv
  <2>8. UninstallInv'
    BY <1>2, Basics DEF UninstallInv, CommandInv
  <2> QED
    BY <2>2, <2>3, <2>4, <2>5, <2>6, <2>7, <2>8
<1> QED
  BY <1>1, <1>2

\* Daemon-reload, before a start.
LEMMA DaemonReloadStep ==
  ASSUME ServiceInv, DaemonReload
  PROVE  ServiceInv'
<1> USE DEF ServiceInv, DaemonReload, Go, Fine, Ignore, End, Err, userVars
<1>1. CASE at' = "none"
  BY <1>1, Basics, FailureStep DEF managerVars
<1>2. CASE at' # "none"
  <2>1. ServiceTypeOK'
    BY <1>2 DEF ServiceTypeOK, Calls
  <2>2. CommandInv'
    BY <1>2 DEF CommandInv, InstallCalls, UninstallCalls
  <2>3. ManagerInv'
    BY <1>2 DEF ManagerInv
  <2>4. InstallInv'
    BY <1>2 DEF InstallInv
  <2>5. InstalledInv'
    BY <1>2 DEF InstalledInv
  <2>6. KeepInv'
    BY <1>2 DEF KeepInv
  <2>7. UninstallInv'
    BY <1>2, Basics DEF UninstallInv, CommandInv
  <2> QED
    BY <2>1, <2>2, <2>3, <2>4, <2>5, <2>6, <2>7
<1> QED
  BY <1>1, <1>2

\* Enable --now.
LEMMA EnableNowStep ==
  ASSUME ServiceInv, EnableNow
  PROVE  ServiceInv'
<1> USE DEF ServiceInv, EnableNow, Fine, End, Err, userVars
<1>1. ServiceTypeOK'
  BY DEF ServiceTypeOK, Calls
<1>2. CommandInv'
  BY DEF CommandInv, InstallCalls, UninstallCalls
<1>3. ManagerInv'
  BY DEF ManagerInv, CommandInv, InstallCalls
<1>4. InstallInv'
  BY DEF InstallInv
<1>5. InstalledInv'
  BY Basics DEF InstalledInv, InstallInv, CommandInv, InstallCalls
<1>6. KeepInv'
  BY Basics DEF KeepInv, CommandInv, InstallInv, InstallCalls
<1>7. UninstallInv'
  BY DEF UninstallInv
<1> QED
  BY <1>1, <1>2, <1>3, <1>4, <1>5, <1>6, <1>7

\* Disable --now.
LEMMA DisableNowStep ==
  ASSUME ServiceInv, DisableNow
  PROVE  ServiceInv'
<1> USE DEF ServiceInv, DisableNow, Go, Fine, Ignore, End, Err, userVars
<1>1. CASE at' = "none"
  BY <1>1, Basics, FailureStep DEF managerVars
<1>2. CASE at' # "none"
  <2>1. /\ at = "stop" /\ op = "uninstall" /\ at' = "remove"
        /\ platform = "linux"
        /\ \/ enabled' = FALSE /\ running' = NoBin /\ gone' = "no"
           \/ UNCHANGED <<enabled, running, gone>>
        /\ UNCHANGED <<platform, session, target, purge, installed, op,
                       last, unit, loaded, stray>>
    BY <1>2 DEF CommandInv, UninstallCalls
  <2>2. ServiceTypeOK'
    BY <1>2 DEF ServiceTypeOK, Calls
  <2>3. CommandInv'
    BY <2>1 DEF CommandInv, InstallCalls, UninstallCalls
  <2>4. ManagerInv'
    BY <2>1 DEF ManagerInv
  <2>5. InstallInv'
    BY <1>2 DEF InstallInv
  <2>6. InstalledInv'
    BY <1>2, Basics DEF InstalledInv, CommandInv
  <2>7. KeepInv'
    BY <1>2 DEF KeepInv, CommandInv, UninstallCalls
  <2>8. UninstallInv'
    BY <1>2 DEF UninstallInv, ManagerInv, Stopped
  <2> QED
    BY <2>2, <2>3, <2>4, <2>5, <2>6, <2>7, <2>8
<1> QED
  BY <1>1, <1>2

\* Daemon-reload, after the unit is removed.
LEMMA ReloadAfterStep ==
  ASSUME ServiceInv, ReloadAfter
  PROVE  ServiceInv'
<1> USE DEF ServiceInv, ReloadAfter, Uninstalled, Go, Fine, Ignore, userVars
<1>1. ServiceTypeOK'
  BY DEF ServiceTypeOK, Calls
<1>2. CommandInv'
  BY DEF CommandInv, InstallCalls, UninstallCalls
<1>3. ManagerInv'
  BY DEF ManagerInv
<1>4. InstallInv'
  BY DEF InstallInv
<1>5. InstalledInv'
  BY DEF InstalledInv
<1>6. KeepInv'
  BY DEF KeepInv
<1>7. UninstallInv'
  BY DEF UninstallInv, Stopped
<1> QED
  BY <1>1, <1>2, <1>3, <1>4, <1>5, <1>6, <1>7

\* Bootout_quiet, in both commands.
LEMMA BootoutFirstStep ==
  ASSUME ServiceInv, BootoutFirst
  PROVE  ServiceInv'
<1> USE DEF ServiceInv, BootoutFirst, Bootout, Go, Fine, Ignore, End, Err,
        userVars
<1>1. CASE at' = "none"
  BY <1>1, Basics, FailureStep DEF managerVars
<1>2. CASE at' # "none"
  <2>1. /\ \/ at = "drop" /\ op = "install" /\ at' = "load"
           \/ at = "stop" /\ op = "uninstall" /\ at' = "remove"
        /\ platform = "macos"
        /\ \/ loaded' = NoBin /\ running' = NoBin /\ gone' = "no"
           \/ UNCHANGED <<loaded, running, gone>>
        /\ UNCHANGED <<platform, session, target, purge, installed, op,
                       last, unit, enabled>>
    BY <1>2 DEF CommandInv, InstallCalls, UninstallCalls
  <2>2. ServiceTypeOK'
    BY <1>2 DEF ServiceTypeOK, Calls
  <2>3. CommandInv'
    BY <2>1 DEF CommandInv, InstallCalls, UninstallCalls
  <2>4. ManagerInv'
    BY <2>1 DEF ManagerInv
  <2>5. InstallInv'
    BY <1>2 DEF InstallInv
  <2>6. InstalledInv'
    BY <1>2, Basics DEF InstalledInv, CommandInv
  <2>7. KeepInv'
    BY <1>2 DEF KeepInv
  <2>8. UninstallInv'
    BY <1>2 DEF UninstallInv, ManagerInv, Stopped
  <2> QED
    BY <2>2, <2>3, <2>4, <2>5, <2>6, <2>7, <2>8
<1> QED
  BY <1>1, <1>2

\* Launchctl bootstrap.
LEMMA BootstrapStep ==
  ASSUME ServiceInv, Bootstrap
  PROVE  ServiceInv'
<1> USE DEF ServiceInv, Bootstrap, Fine, End, Err, userVars
<1>1. ServiceTypeOK'
  BY DEF ServiceTypeOK, Calls
<1>2. CommandInv'
  BY DEF CommandInv, InstallCalls, UninstallCalls
<1>3. ManagerInv'
  BY Basics DEF ManagerInv, CommandInv
<1>4. InstallInv'
  BY DEF InstallInv
<1>5. InstalledInv'
  BY Basics DEF InstalledInv, InstallInv, CommandInv, InstallCalls
<1>6. KeepInv'
  BY Basics DEF KeepInv, CommandInv, InstallInv, InstallCalls
<1>7. UninstallInv'
  BY DEF UninstallInv
<1> QED
  BY <1>1, <1>2, <1>3, <1>4, <1>5, <1>6, <1>7

\* The task's XML is written.
LEMMA WriteTaskXmlStep ==
  ASSUME ServiceInv, WriteTaskXml
  PROVE  ServiceInv'
<1> USE DEF ServiceInv, WriteTaskXml, Go, Fine, End, Err, managerVars, userVars
<1>1. CASE at' = "none"
  BY <1>1, Basics, FailureStep
<1>2. CASE at' # "none"
  <2>1. ServiceTypeOK'
    BY <1>2 DEF ServiceTypeOK, Calls
  <2>2. CommandInv'
    BY <1>2 DEF CommandInv, InstallCalls, UninstallCalls
  <2>3. ManagerInv'
    BY <1>2 DEF ManagerInv
  <2>4. InstallInv'
    BY <1>2 DEF InstallInv
  <2>5. InstalledInv'
    BY <1>2 DEF InstalledInv
  <2>6. KeepInv'
    BY <1>2 DEF KeepInv
  <2>7. UninstallInv'
    BY <1>2, Basics DEF UninstallInv, CommandInv
  <2> QED
    BY <2>1, <2>2, <2>3, <2>4, <2>5, <2>6, <2>7
<1> QED
  BY <1>1, <1>2

\* /delete, before a /create.
LEMMA DropTaskStep ==
  ASSUME ServiceInv, DropTask
  PROVE  ServiceInv'
<1> USE DEF ServiceInv, DropTask, DeleteTask, Go, Fine, Ignore, userVars
<1>1. ServiceTypeOK'
  BY DEF ServiceTypeOK, Calls
<1>2. CommandInv'
  BY DEF CommandInv, InstallCalls, UninstallCalls
<1>3. ManagerInv'
  BY DEF ManagerInv
<1>4. InstallInv'
  BY DEF InstallInv, ManagerInv
<1>5. InstalledInv'
  BY Basics DEF InstalledInv, CommandInv
<1>6. KeepInv'
  BY DEF KeepInv, CommandInv, InstallCalls
<1>7. UninstallInv'
  BY Basics DEF UninstallInv, CommandInv
<1> QED
  BY <1>1, <1>2, <1>3, <1>4, <1>5, <1>6, <1>7

\* /create.
LEMMA CreateTaskStep ==
  ASSUME ServiceInv, CreateTask
  PROVE  ServiceInv'
<1> USE DEF ServiceInv, CreateTask, Go, Fine, End, Err, userVars
<1>1. CASE at' = "none"
  BY <1>1, Basics, FailureStep DEF managerVars
<1>2. CASE at' # "none"
  <2>1. ServiceTypeOK'
    BY <1>2 DEF ServiceTypeOK, Calls
  <2>2. CommandInv'
    BY <1>2 DEF CommandInv, InstallCalls, UninstallCalls
  <2>3. ManagerInv'
    BY <1>2, Basics DEF ManagerInv, CommandInv, InstallCalls
  <2>4. InstallInv'
    BY <1>2 DEF InstallInv
  <2>5. InstalledInv'
    BY <1>2 DEF InstalledInv
  <2>6. KeepInv'
    BY <1>2 DEF KeepInv, CommandInv, InstallCalls
  <2>7. UninstallInv'
    BY <1>2, Basics DEF UninstallInv, CommandInv
  <2> QED
    BY <2>1, <2>2, <2>3, <2>4, <2>5, <2>6, <2>7
<1> QED
  BY <1>1, <1>2

\* /run.
LEMMA RunTaskStep ==
  ASSUME ServiceInv, RunTask
  PROVE  ServiceInv'
<1> USE DEF ServiceInv, RunTask, Fine, Ignore, End, userVars
<1>1. ServiceTypeOK'
  BY DEF ServiceTypeOK, Calls
<1>2. CommandInv'
  BY DEF CommandInv, InstallCalls, UninstallCalls
<1>3. ManagerInv'
  BY Basics DEF ManagerInv, CommandInv
<1>4. InstallInv'
  BY DEF InstallInv
<1>5. InstalledInv'
  BY Basics DEF InstalledInv, InstallInv, CommandInv, InstallCalls
<1>6. KeepInv'
  BY Basics DEF KeepInv, CommandInv, InstallInv, InstallCalls
<1>7. UninstallInv'
  BY DEF UninstallInv
<1> QED
  BY <1>1, <1>2, <1>3, <1>4, <1>5, <1>6, <1>7

\* /end.
LEMMA EndTaskStep ==
  ASSUME ServiceInv, EndTask
  PROVE  ServiceInv'
<1> USE DEF ServiceInv, EndTask, Go, Fine, Ignore, userVars
<1>1. ServiceTypeOK'
  BY DEF ServiceTypeOK, Calls
<1>2. CommandInv'
  BY DEF CommandInv, InstallCalls, UninstallCalls
<1>3. ManagerInv'
  BY DEF ManagerInv
<1>4. InstallInv'
  BY DEF InstallInv
<1>5. InstalledInv'
  BY Basics DEF InstalledInv, CommandInv
<1>6. KeepInv'
  BY DEF KeepInv
<1>7. UninstallInv'
  BY Basics DEF UninstallInv, CommandInv, ManagerInv, UninstallCalls, Stopped
<1> QED
  BY <1>1, <1>2, <1>3, <1>4, <1>5, <1>6, <1>7

\* /delete, in uninstall.
LEMMA RemoveTaskStep ==
  ASSUME ServiceInv, RemoveTask
  PROVE  ServiceInv'
<1> USE DEF ServiceInv, RemoveTask, DeleteTask, Go, Fine, Ignore, End, Err,
        managerVars, userVars
<1>1. CASE at' = "none"
  BY <1>1, Basics, FailureStep
<1>2. CASE at' # "none"
  <2>1. /\ at = "remove" /\ op = "uninstall" /\ at' = "state"
        /\ platform = "windows"
        /\ \/ /\ loaded' = NoBin /\ running' = NoBin /\ gone' # "restart"
              /\ stray' = stray \cup ({running} \ {NoBin})
           \/ UNCHANGED <<loaded, running, stray, gone>>
        /\ UNCHANGED <<platform, session, target, purge, installed, op,
                       last, unit, enabled>>
    BY <1>2 DEF CommandInv, UninstallCalls
  <2>2. ServiceTypeOK'
    BY <1>2 DEF ServiceTypeOK, Calls
  <2>3. CommandInv'
    BY <2>1 DEF CommandInv, InstallCalls, UninstallCalls
  <2>4. ManagerInv'
    BY <2>1 DEF ManagerInv
  <2>5. InstallInv'
    BY <1>2 DEF InstallInv
  <2>6. InstalledInv'
    BY <1>2, Basics DEF InstalledInv, CommandInv
  <2>7. KeepInv'
    BY <1>2 DEF KeepInv, CommandInv, UninstallCalls
  <2>8. UninstallInv'
    BY <1>2 DEF UninstallInv, ManagerInv, Stopped
  <2> QED
    BY <2>2, <2>3, <2>4, <2>5, <2>6, <2>7, <2>8
<1> QED
  BY <1>1, <1>2

\* The unit file or plist is removed.
LEMMA RemoveUnitStep ==
  ASSUME ServiceInv, RemoveUnit
  PROVE  ServiceInv'
<1> USE DEF ServiceInv, RemoveUnit, Uninstalled, Go, Fine, End, Err, userVars
<1>1. CASE at' = "none"
  BY <1>1, Basics, FailureStep DEF managerVars
<1>2. CASE at' # "none"
  <2>1. /\ at = "remove" /\ op = "uninstall"
        /\ at' = IF platform = "linux" THEN "reload" ELSE "state"
        /\ platform # "windows" /\ unit' = NoBin
        /\ UNCHANGED <<platform, session, target, purge, installed, op,
                       last, ignored, loaded, enabled, running, stray, gone>>
    BY <1>2 DEF CommandInv, UninstallCalls
  <2>2. ServiceTypeOK'
    BY <1>2 DEF ServiceTypeOK, Calls
  <2>3. CommandInv'
    BY <2>1 DEF CommandInv, InstallCalls, UninstallCalls
  <2>4. ManagerInv'
    BY <2>1 DEF ManagerInv
  <2>5. InstallInv'
    BY <1>2 DEF InstallInv
  <2>6. InstalledInv'
    BY <1>2, Basics DEF InstalledInv, CommandInv
  <2>7. KeepInv'
    BY <1>2 DEF KeepInv, CommandInv, UninstallCalls
  <2>8. UninstallInv'
    BY <2>1 DEF UninstallInv, Stopped
  <2> QED
    BY <2>2, <2>3, <2>4, <2>5, <2>6, <2>7, <2>8
<1> QED
  BY <1>1, <1>2

\* State.json is removed.
LEMMA RemoveStateStep ==
  ASSUME ServiceInv, RemoveState
  PROVE  ServiceInv'
<1> USE DEF ServiceInv, RemoveState, Finish, Go, Fine, Ignore, End, managerVars
<1>1. /\ at = "state" /\ op = "uninstall"
      /\ IF purge THEN at' = "config" /\ last' = last
                  ELSE at' = "none" /\ last' = "uninstalled"
      /\ (state' = FALSE /\ ignored' = ignored) \/ ignored' = TRUE
      /\ UNCHANGED <<platform, session, target, purge, installed,
                     unit, loaded, enabled, running, stray, gone>>
  BY DEF CommandInv, UninstallCalls
<1>2. ServiceTypeOK'
  BY DEF ServiceTypeOK, Calls
<1>3. CommandInv'
  BY DEF CommandInv, InstallCalls, UninstallCalls
<1>4. ManagerInv'
  BY DEF ManagerInv
<1>5. InstallInv'
  BY DEF InstallInv
<1>6. InstalledInv'
  BY DEF InstalledInv
<1>7. KeepInv'
  BY Basics DEF KeepInv, CommandInv, InstallCalls
<1>8. UninstallInv'
  BY <1>1 DEF UninstallInv, Stopped
<1> QED
  BY <1>2, <1>3, <1>4, <1>5, <1>6, <1>7, <1>8

\* Config.toml is removed.
LEMMA PurgeConfigStep ==
  ASSUME ServiceInv, PurgeConfig
  PROVE  ServiceInv'
<1> USE DEF ServiceInv, PurgeConfig, Go, Fine, End, Err, managerVars
<1>1. /\ at = "config" /\ op = "uninstall"
      /\ \/ /\ at' = "logs" /\ op' = op /\ last' = last
            /\ state' = FALSE /\ UNCHANGED ignored
         \/ at' = "none" /\ op' = "none" /\ last' = "failed"
      /\ UNCHANGED <<platform, session, target, purge, installed>>
  BY DEF CommandInv, UninstallCalls
<1>2. ServiceTypeOK'
  BY DEF ServiceTypeOK, Calls
<1>3. CommandInv'
  BY <1>1 DEF CommandInv, InstallCalls, UninstallCalls
<1>4. ManagerInv'
  BY DEF ManagerInv
<1>5. InstallInv'
  BY DEF InstallInv
<1>6. InstalledInv'
  BY DEF InstalledInv
<1>7. KeepInv'
  BY DEF KeepInv
<1>8. UninstallInv'
  BY <1>1 DEF UninstallInv, Stopped
<1> QED
  BY <1>2, <1>3, <1>4, <1>5, <1>6, <1>7, <1>8

\* The logs are removed.
LEMMA PurgeLogsStep ==
  ASSUME ServiceInv, PurgeLogs
  PROVE  ServiceInv'
<1> USE DEF ServiceInv, PurgeLogs, Finish, Fine, End, Err, managerVars
<1>1. /\ at = "logs" /\ op = "uninstall"
      /\ at' = "none" /\ op' = "none" /\ last' \in {"uninstalled", "failed"}
      /\ UNCHANGED <<platform, session, target, purge, installed>>
  BY DEF CommandInv, UninstallCalls
<1>2. ServiceTypeOK'
  BY DEF ServiceTypeOK, Calls
<1>3. CommandInv'
  BY <1>1 DEF CommandInv, InstallCalls, UninstallCalls
<1>4. ManagerInv'
  BY DEF ManagerInv
<1>5. InstallInv'
  BY DEF InstallInv
<1>6. InstalledInv'
  BY DEF InstalledInv
<1>7. KeepInv'
  BY Basics DEF KeepInv, CommandInv, InstallCalls
<1>8. UninstallInv'
  BY DEF UninstallInv, Stopped
<1> QED
  BY <1>2, <1>3, <1>4, <1>5, <1>6, <1>7, <1>8

\* The daemon publishes its state.
LEMMA PublishStep ==
  ASSUME ServiceInv, Publish
  PROVE  ServiceInv'
<1> USE DEF ServiceInv, Publish, Elsewhere, commandVars, historyVars,
        managerVars
<1>1. ServiceTypeOK'
  BY DEF ServiceTypeOK
<1>2. CommandInv'
  BY DEF CommandInv
<1>3. ManagerInv'
  BY DEF ManagerInv
<1>4. InstallInv'
  BY DEF InstallInv
<1>5. InstalledInv'
  BY DEF InstalledInv
<1>6. KeepInv'
  BY DEF KeepInv
<1>7. UninstallInv'
  BY DEF UninstallInv, Stopped
<1> QED
  BY <1>1, <1>2, <1>3, <1>4, <1>5, <1>6, <1>7

\* The daemon ends by itself.
LEMMA ExitsStep ==
  ASSUME ServiceInv, NEW kind \in {"crash", "exit"}, Exits(kind)
  PROVE  ServiceInv'
<1> USE DEF ServiceInv, Exits, Elsewhere, commandVars, historyVars, userVars
<1>1. ServiceTypeOK'
  BY DEF ServiceTypeOK
<1>2. CommandInv'
  BY DEF CommandInv
<1>3. ManagerInv'
  BY DEF ManagerInv
<1>4. InstallInv'
  BY DEF InstallInv
<1>5. InstalledInv'
  BY DEF InstalledInv
<1>6. KeepInv'
  BY DEF KeepInv
<1>7. UninstallInv'
  BY DEF UninstallInv, Stopped
<1> QED
  BY <1>1, <1>2, <1>3, <1>4, <1>5, <1>6, <1>7

\* So does one the manager has lost.
LEMMA StrayExitsStep ==
  ASSUME ServiceInv, NEW b \in Binaries, StrayExits(b)
  PROVE  ServiceInv'
<1> USE DEF ServiceInv, StrayExits, Elsewhere, commandVars, historyVars,
        userVars
<1>1. ServiceTypeOK'
  BY DEF ServiceTypeOK
<1>2. CommandInv'
  BY DEF CommandInv
<1>3. ManagerInv'
  BY DEF ManagerInv
<1>4. InstallInv'
  BY DEF InstallInv
<1>5. InstalledInv'
  BY DEF InstalledInv
<1>6. KeepInv'
  BY DEF KeepInv
<1>7. UninstallInv'
  BY DEF UninstallInv, Stopped
<1> QED
  BY <1>1, <1>2, <1>3, <1>4, <1>5, <1>6, <1>7

\* The manager starts it again.
LEMMA StartAgainStep ==
  ASSUME ServiceInv, StartAgain
  PROVE  ServiceInv'
<1> USE DEF ServiceInv, StartAgain, Elsewhere, commandVars, historyVars,
        userVars
<1>1. ServiceTypeOK'
  BY DEF ServiceTypeOK
<1>2. CommandInv'
  BY DEF CommandInv
<1>3. ManagerInv'
  BY DEF ManagerInv
<1>4. InstallInv'
  BY DEF InstallInv
<1>5. InstalledInv'
  BY DEF InstalledInv
<1>6. KeepInv'
  BY DEF KeepInv
<1>7. UninstallInv'
  BY DEF UninstallInv, Stopped
<1> QED
  BY <1>1, <1>2, <1>3, <1>4, <1>5, <1>6, <1>7

\* The session ends.
LEMMA LogOffStep ==
  ASSUME ServiceInv, LogOff
  PROVE  ServiceInv'
<1> USE DEF ServiceInv, LogOff, userVars
<1>1. ServiceTypeOK'
  BY DEF ServiceTypeOK, Calls
<1>2. CommandInv'
  BY DEF CommandInv, InstallCalls, UninstallCalls
<1>3. ManagerInv'
  BY DEF ManagerInv
<1>4. InstallInv'
  BY DEF InstallInv
<1>5. InstalledInv'
  BY DEF InstalledInv
<1>6. KeepInv'
  BY DEF KeepInv
<1>7. UninstallInv'
  BY DEF UninstallInv, Stopped
<1> QED
  BY <1>1, <1>2, <1>3, <1>4, <1>5, <1>6, <1>7

\* The next session begins.
LEMMA LogOnStep ==
  ASSUME ServiceInv, LogOn
  PROVE  ServiceInv'
<1> USE DEF ServiceInv, LogOn, Elsewhere, commandVars, historyVars, userVars
<1>1. ServiceTypeOK'
  BY Basics, NextLogin DEF ServiceTypeOK
<1>2. CommandInv'
  BY DEF CommandInv
<1>3. ManagerInv'
  BY Basics, NextLogin DEF ManagerInv
<1>4. InstallInv'
  BY Basics DEF InstallInv, CommandInv
<1>5. InstalledInv'
  BY Basics, NextLogin DEF InstalledInv, CommandInv
<1>6. KeepInv'
  BY DEF KeepInv
<1>7. UninstallInv'
  BY Basics, NextLogin DEF UninstallInv, CommandInv, Stopped
<1> QED
  BY <1>1, <1>2, <1>3, <1>4, <1>5, <1>6, <1>7

\* Login and logout rewrite config.toml.
LEMMA EditConfigStep ==
  ASSUME ServiceInv, EditConfig
  PROVE  ServiceInv'
<1> USE DEF ServiceInv, EditConfig, Elsewhere, commandVars, historyVars,
        managerVars
<1>1. ServiceTypeOK'
  BY DEF ServiceTypeOK
<1>2. CommandInv'
  BY DEF CommandInv
<1>3. ManagerInv'
  BY DEF ManagerInv
<1>4. InstallInv'
  BY DEF InstallInv
<1>5. InstalledInv'
  BY DEF InstalledInv
<1>6. KeepInv'
  BY DEF KeepInv
<1>7. UninstallInv'
  BY DEF UninstallInv, Stopped
<1> QED
  BY <1>1, <1>2, <1>3, <1>4, <1>5, <1>6, <1>7
-----------------------------------------------------------------------------
LEMMA InitInv == ServiceInit => ServiceInv
  BY DEF ServiceInit, ServiceInv, ServiceTypeOK, CommandInv, ManagerInv,
     InstallInv, InstalledInv, KeepInv, UninstallInv, Calls, InstallCalls,
     UninstallCalls

LEMMA StepInv == ServiceInv /\ [ServiceNext]_serviceVars => ServiceInv'
<1> SUFFICES ASSUME ServiceInv, [ServiceNext]_serviceVars PROVE ServiceInv'
  OBVIOUS
<1>1. CASE Begins
  BY <1>1, InstallStep, UninstallStep DEF Begins
<1>2. CASE SystemdStep
  BY <1>2, DaemonReloadStep, EnableNowStep, DisableNowStep, ReloadAfterStep
     DEF SystemdStep
<1>3. CASE LaunchdStep
  BY <1>3, BootoutFirstStep, BootstrapStep DEF LaunchdStep
<1>4. CASE TaskStep
  BY <1>4, WriteTaskXmlStep, DropTaskStep, CreateTaskStep, RunTaskStep,
     EndTaskStep, RemoveTaskStep DEF TaskStep
<1>5. CASE CommonStep
  BY <1>5, WriteUnitStep, RemoveUnitStep, RemoveStateStep, PurgeConfigStep,
     PurgeLogsStep, InterruptStep DEF CommonStep
<1>6. CASE World
  BY <1>6, PublishStep, ExitsStep, StrayExitsStep, StartAgainStep, LogOffStep, LogOnStep,
     EditConfigStep DEF World
<1>7. CASE UNCHANGED serviceVars
  BY <1>7 DEF serviceVars, managerVars, userVars, commandVars, historyVars,
     ServiceInv, ServiceTypeOK, CommandInv, ManagerInv, InstallInv,
     InstalledInv, KeepInv, UninstallInv, Stopped
<1> QED
  BY <1>1, <1>2, <1>3, <1>4, <1>5, <1>6, <1>7 DEF ServiceNext

\* The invariant holds in every state of every behaviour.
LEMMA AlwaysInv == ServiceSpec => []ServiceInv
  BY InitInv, StepInv, PTL DEF ServiceSpec

-----------------------------------------------------------------------------
\* The variables of an installation are always what they are meant to be.
THEOREM ServiceTypeCorrect == ServiceSpec => []ServiceTypeOK
  BY AlwaysInv, PTL DEF ServiceInv

\* After an install that returned Ok its binary is what the next login and a
\* restart start, with the exceptions the property names (install of the
\* three platforms).
THEOREM InstallHoldsFromNowOn == ServiceSpec => []InstallDecidesStarts
<1>1. ServiceInv => InstallDecidesStarts
  <2> SUFFICES ASSUME ServiceInv PROVE InstallDecidesStarts
    OBVIOUS
  <2> QED
    BY Basics, NextLogin DEF ServiceInv, ManagerInv, InstalledInv, CommandInv,
       InstallDecidesStarts
<1> QED
  BY <1>1, AlwaysInv, PTL

\* No later install, however it fails or is killed, keeps an installed
\* service from coming back at the next login, but on Windows.
THEOREM InstalledIsKept == ServiceSpec => []KeepsInstalled
<1>1. ServiceInv => KeepsInstalled
  BY Basics, NextLogin DEF ServiceInv, KeepInv, KeepsInstalled
<1> QED
  BY <1>1, AlwaysInv, PTL

\* On Linux and macOS no failure or missing user bus lets the daemon come
\* back at the next login after an uninstall that returned Ok; one whose
\* calls were made and worked leaves no daemon, no definition of one and no
\* file it promised to remove.
THEOREM UninstallIsFinal == ServiceSpec => []UninstallEndsService
<1>1. ServiceInv => UninstallEndsService
  <2> SUFFICES ASSUME ServiceInv, last = "uninstalled"
               PROVE  UninstallEndsService
    BY DEF UninstallEndsService
  <2>1. unit = NoBin
    BY DEF ServiceInv, UninstallInv
  <2>2. ASSUME platform # "windows"
        PROVE  AtLogin = NoBin /\ \A bus \in BOOLEAN : ~Status(bus).installed
    <3>1. CASE platform = "linux"
      BY <3>1, <2>1, NextLogin DEF ServiceInv, Status, UnitStatus
    <3>2. CASE platform = "macos"
      BY <3>2, <2>1, NextLogin DEF ServiceInv, Status, PlistStatus
    <3> QED
      BY <2>2, <3>1, <3>2, Basics DEF ServiceInv
  <2>3. ASSUME ~ignored
        PROVE  /\ running = NoBin /\ stray = {} /\ gone # "restart"
               /\ loaded = NoBin /\ ~state /\ (purge => ~logs)
    BY <2>3 DEF ServiceInv, UninstallInv, Stopped
  <2>4. ASSUME ~ignored PROVE AtLogin = NoBin
    BY <2>1, <2>3, <2>4, Basics, NextLogin DEF ServiceInv
  <2> QED
    BY <2>2, <2>3, <2>4 DEF UninstallEndsService
<1> QED
  BY <1>1, AlwaysInv, PTL

\* The configuration and the logs of the user disappear under an uninstall
\* with --purge only, and only while it is under way.
UserDataStays ==
  [][(config # "absent" /\ config' = "absent") \/ (logs /\ ~logs')
       => op = "uninstall" /\ purge]_serviceVars

\* No install, plain uninstall, failure or crash takes the user's files
\* (purge_user_data).
THEOREM UserDataIsKept == ServiceSpec => UserDataStays
<1>1. ASSUME ServiceInv, [ServiceNext]_serviceVars,
             (config # "absent" /\ config' = "absent") \/ (logs /\ ~logs')
      PROVE  op = "uninstall" /\ purge
  <2>1. CASE PurgeConfig \/ PurgeLogs
    BY <1>1, <2>1
       DEF PurgeConfig, PurgeLogs, ServiceInv, CommandInv, UninstallCalls
  <2>2. CASE Begins
    BY <1>1, <2>2 DEF Begins, Install, Uninstall, userVars
  <2>3. CASE SystemdStep \/ LaunchdStep
    BY <1>1, <2>3 DEF SystemdStep, DaemonReload, EnableNow, DisableNow,
       ReloadAfter, LaunchdStep, BootoutFirst, Bootout, Bootstrap, userVars
  <2>4. CASE TaskStep
    BY <1>1, <2>4 DEF TaskStep, WriteTaskXml, DropTask, DeleteTask,
       CreateTask, RunTask, EndTask, RemoveTask, userVars
  <2>5. CASE WriteUnit \/ RemoveUnit \/ RemoveState \/ Interrupt
    BY <1>1, <2>5 DEF WriteUnit, RemoveUnit, RemoveState, Interrupt, userVars
  <2>6. CASE World
    BY <1>1, <2>6 DEF World, Publish, Exits, StrayExits, StartAgain, LogOff, LogOn,
       EditConfig, userVars
  <2>7. CASE UNCHANGED serviceVars
    BY <1>1, <2>7 DEF serviceVars, userVars
  <2> QED
    BY <1>1, <2>1, <2>2, <2>3, <2>4, <2>5, <2>6, <2>7
       DEF ServiceNext, CommonStep
<1>2. ServiceInv /\ [ServiceNext]_serviceVars
        => [(config # "absent" /\ config' = "absent") \/ (logs /\ ~logs')
              => op = "uninstall" /\ purge]_serviceVars
  BY <1>1
<1> QED
  BY <1>2, AlwaysInv, PTL DEF ServiceSpec, UserDataStays
=============================================================================
