-------------------------------- MODULE Daemon --------------------------------
(***************************************************************************)
(* The daemon: the run loop of RunLoop and the supervisor of Supervisor,   *)
(* which share the sessions and the resets.                                *)
(*                                                                         *)
(* A session begins with a step of both and ends with a step of both: the  *)
(* select of run_one_session drops the handler at work.  shutdown_children *)
(* is called in two places of different nature: by the configuration       *)
(* watcher inside the select, where it may be dropped, and by the run loop *)
(* between sessions, where only the signal beside wait_for_config can drop *)
(* it.  Both take the supervisor mutex first, which is fair: once the      *)
(* watcher waits for it no further frame is handled.                       *)
(***************************************************************************)
EXTENDS Supervisor, RunLoop

VARIABLES
  took,   \* the shutdown_children of this phase of the run loop has begun
  owner   \* history: owner[i] is the configuration i was spawned under

daemonVars == <<vars, runVars, took, owner>>

\* The phases in which run() itself shuts the children down.
Resetting == {"reject", "drop", "switch", "stopping"}

DaemonInit ==
  /\ Init
  /\ RunInit
  /\ took = FALSE
  /\ owner = [i \in Inc |-> NoConf]

-----------------------------------------------------------------------------
(* Steps of one of the two *)

\* A frame is handled while the watcher does not wait for the mutex.
HandleFrame ==
  /\ watch = "poll"
  /\ Frame
  /\ UNCHANGED <<runVars, took, owner>>

HandlerWorks ==
  /\ Work
  /\ owner' = [i \in Inc |-> IF proc[i] = "none" /\ proc'[i] # "none"
                             THEN conf ELSE owner[i]]
  /\ UNCHANGED <<runVars, took>>

ChildrenDie == Fate /\ UNCHANGED <<runVars, took, owner>>

\* Steps of the run loop that neither end a session nor wait for a reset.
LoopAlone ==
  /\ \/ WriteConfig \/ Boot \/ FirstLogin \/ ConnectFails \/ WatchResets
     \/ Judge \/ Found \/ Lost \/ Deadline \/ Keep \/ Switch \/ OpenFails
     \/ main # "live" /\ main # "drop" /\ Signal
  /\ UNCHANGED <<vars, took, owner>>

-----------------------------------------------------------------------------
(* Sessions *)

SessionBegins ==
  /\ Upgraded
  /\ Connect
  /\ UNCHANGED <<took, owner>>

\* The watcher's branch is ready only when its reset, if any, is done.
SessionOver ==
  /\ \/ SessionEnds
     \/ WatchEnds
     \/ WatchDone /\ sess = "ending" /\ Idle
     \/ main = "live" /\ Signal
  /\ Disconnect
  /\ UNCHANGED <<took, owner>>

-----------------------------------------------------------------------------
(* Resets *)

ResetBegins ==
  /\ ~took
  /\ \/ main = "live" /\ watch = "reset" /\ UNCHANGED took
     \/ main \in Resetting /\ took' = TRUE
  /\ TakeReset
  /\ UNCHANGED <<runVars, owner>>

ResetEnds ==
  /\ took /\ Idle
  /\ took' = FALSE
  /\ RejectDone \/ DropDone \/ SwitchDone \/ StopDone
  /\ UNCHANGED <<vars, owner>>

\* The signal drops wait_for_config in the middle of its reset; the run loop
\* then resets once more.
SignalDropsReset ==
  /\ main = "drop"
  /\ Signal
  /\ DropHandler
  /\ took' = FALSE
  /\ UNCHANGED <<sessionVars, owner>>

-----------------------------------------------------------------------------
DaemonNext ==
  \/ HandleFrame \/ HandlerWorks \/ ChildrenDie \/ LoopAlone
  \/ SessionBegins \/ SessionOver
  \/ ResetBegins \/ ResetEnds \/ SignalDropsReset

DaemonSpec == DaemonInit /\ [][DaemonNext]_daemonVars

-----------------------------------------------------------------------------
(* Properties *)

\* A session never has in its map, and so never routes a message to or lists
\* in its hello, a child that was spawned for another identity - through
\* logins, logouts, rotations and rejections at any moment, also when a
\* reset is dropped half-way.
AccountIsolation ==
  main \in {"connecting", "live"} =>
    \A s \in Servers : children[s] # None =>
      Identity[owner[children[s]]] = Identity[conf]

\* While state.json asks for a new login or a new binary the daemon keeps no
\* child, and lists none.
LoggedOutKeepsNone ==
  status \in {"needs_reauth", "needs_upgrade"} /\ main = "wait" =>
    children = Empty /\ published = Empty
=============================================================================
