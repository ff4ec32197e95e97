------------------------------- MODULE RunLoop -------------------------------
(***************************************************************************)
(* The run loop of the daemon (daemon::run): resolve a configuration,      *)
(* connect, live through one session, judge how it ended, wait, adopt the  *)
(* configuration found while waiting, and connect again.  Login and logout *)
(* rewrite config.toml underneath it; it finds out by polling, at three    *)
(* places that read the file at different times.                           *)
(*                                                                         *)
(* A resolved configuration is an element of Config: two of them are equal *)
(* iff same_connection holds.  Identity[c] is what requires_child_reset    *)
(* compares, Namespace[c] is env_namespace.  Time is left out: a deadline  *)
(* passes at some point, and back-off is counted in its base seconds       *)
(* without jitter.                                                         *)
(*                                                                         *)
(* shutdown_children is a phase here ("reject", "drop", "switch",          *)
(* "stopping", and watch = "reset"); module Daemon joins these phases to   *)
(* the supervisor.                                                         *)
(***************************************************************************)
EXTENDS Naturals

CONSTANTS Config,      \* usable resolved configurations
          Identity,    \* Identity[c]: whose children may run under c
          Namespace,   \* Namespace[c]: the env_store file used under c
          NoConf,
          BackoffMin, BackoffMax   \* BACKOFF_MIN, BACKOFF_MAX in seconds

\* What ResolvedRun::from_args can fail with: AwaitingLogin and Invalid.
Unusable == {"awaiting_login", "invalid"}

ASSUME RunLoopAssumption ==
  /\ Unusable \cap Config = {}
  /\ NoConf \notin Config
  /\ DOMAIN Identity = Config
  /\ DOMAIN Namespace = Config
  /\ \A c, d \in Config : Namespace[c] # Namespace[d] => Identity[c] # Identity[d]
  /\ BackoffMin \in Nat \ {0}
  /\ BackoffMax \in Nat
  /\ BackoffMin <= BackoffMax

VARIABLES
  cfg,      \* what config.toml, with the arguments, resolves to now
  conf,     \* resolved: the configuration in use
  next,     \* the configuration wait_for_config returned
  store,    \* the namespace of the open env_store
  main,     \* where run() is
  watch,    \* where wait_for_connection_change is, during a session
  verdict,  \* how the last connect or session ended
  sawBad,   \* wait_for_config has seen an unusable configuration
  status,   \* State.connection_state
  backoff,  \* the back-off in seconds
  touched   \* history: config.toml was written since conf was last read

loopVars == <<conf, next, store, main, watch, verdict, sawBad, status,
              backoff>>
runVars  == <<cfg, touched, loopVars>>

Rejected == {"auth", "upgrade"}

\* run() awaits the shutdown signal only beside a session or a wait.
Phases == {"boot", "awaiting", "connecting", "live", "judge", "reject", "wait",
           "drop", "adopt", "switch", "stopping", "exited"}

RunTypeOK ==
  /\ cfg \in Config \cup Unusable
  /\ conf \in Config \cup {NoConf}
  /\ next \in Config \cup {NoConf}
  /\ store \in {Namespace[c] : c \in Config} \cup {NoConf}
  /\ main \in Phases
  /\ watch \in {"poll", "reset"}
  /\ verdict \in {"none", "ok", "error"} \cup Rejected
  /\ sawBad \in BOOLEAN
  /\ status \in {"starting", "connected", "reconnecting", "needs_reauth",
                 "needs_upgrade"}
  /\ backoff \in BackoffMin .. BackoffMax
  /\ touched \in BOOLEAN

RunInit ==
  /\ cfg \in Config \cup Unusable
  /\ conf = NoConf
  /\ next = NoConf
  /\ store = NoConf
  /\ main = "boot"
  /\ watch = "poll"
  /\ verdict = "none"
  /\ sawBad = FALSE
  /\ status = "starting"
  /\ backoff = BackoffMin
  /\ touched = FALSE

Least(m, n) == IF m < n THEN m ELSE n

-----------------------------------------------------------------------------
(* The environment: login, logout, rotation, a half-written file *)

WriteConfig ==
  /\ \E c \in Config \cup Unusable : c # cfg /\ cfg' = c
  /\ touched' = TRUE
  /\ UNCHANGED loopVars

-----------------------------------------------------------------------------
(* Start *)

\* The first resolution: adopt it, wait for a login, or give up.  Opening
\* the env_store of the namespace may fail, which ends the daemon.
FirstUse(c, ok) ==
  /\ conf' = c
  /\ touched' = FALSE
  /\ status' = "starting"
  /\ main' = IF ok THEN "connecting" ELSE "exited"
  /\ store' = IF ok THEN Namespace[c] ELSE store
  /\ UNCHANGED <<cfg, next, watch, verdict, sawBad, backoff>>

Boot ==
  /\ main = "boot"
  /\ \/ cfg \in Config /\ \E ok \in BOOLEAN : FirstUse(cfg, ok)
     \/ /\ cfg = "awaiting_login"
        /\ main' = "awaiting"
        /\ status' = "needs_reauth"
        /\ UNCHANGED <<cfg, touched, conf, next, store, watch, verdict, sawBad,
                       backoff>>
     \/ /\ cfg = "invalid"
        /\ main' = "exited"
        /\ UNCHANGED <<cfg, touched, conf, next, store, watch, verdict, sawBad,
                       status, backoff>>

\* The one-second poll before the first login.
FirstLogin ==
  /\ main = "awaiting"
  /\ cfg \in Config
  /\ \E ok \in BOOLEAN : FirstUse(cfg, ok)

-----------------------------------------------------------------------------
(* One session *)

\* tunnel::connect returns a socket.  connect has no timeout and is raced
\* with nothing but the shutdown signal.
Upgraded ==
  /\ main = "connecting"
  /\ main' = "live"
  /\ watch' = "poll"
  /\ status' = "connected"
  /\ UNCHANGED <<cfg, touched, conf, next, store, verdict, sawBad, backoff>>

\* The session, or the attempt, has ended with verdict v.
End(v) ==
  /\ verdict' = v
  /\ main' = "judge"
  /\ watch' = "poll"
  /\ UNCHANGED <<cfg, touched, conf, next, store, sawBad, status, backoff>>

\* connect fails: 401/403, or anything else.
ConnectFails == main = "connecting" /\ \E v \in {"error", "auth"} : End(v)

\* The socket, the heartbeat or the drain loop ends the session.
SessionEnds ==
  main = "live" /\ \E v \in {"ok", "error"} \cup Rejected : End(v)

\* wait_for_connection_change reads the file: a changed configuration of the
\* same identity ends the session, any other change resets the children.
WatchEnds ==
  /\ main = "live" /\ watch = "poll"
  /\ cfg \in Config /\ cfg # conf
  /\ Identity[cfg] = Identity[conf]
  /\ End("ok")

WatchResets ==
  /\ main = "live" /\ watch = "poll"
  /\ cfg \in Config => Identity[cfg] # Identity[conf]
  /\ watch' = "reset"
  /\ UNCHANGED <<cfg, touched, conf, next, store, main, verdict, sawBad,
                 status, backoff>>

WatchDone == main = "live" /\ watch = "reset" /\ End("ok")

-----------------------------------------------------------------------------
(* Between sessions *)

\* The verdict decides: shut the children down and wait for the file, or
\* wait for the back-off.
Judge ==
  /\ main = "judge"
  /\ sawBad' = FALSE
  /\ IF verdict \in Rejected
     THEN /\ main' = "reject"
          /\ UNCHANGED <<status, backoff>>
     ELSE /\ main' = "wait"
          /\ status' = "reconnecting"
          /\ backoff' = IF verdict = "ok" THEN BackoffMin ELSE backoff
  /\ UNCHANGED <<cfg, touched, conf, next, store, watch, verdict>>

RejectDone ==
  /\ main = "reject"
  /\ main' = "wait"
  /\ status' = IF verdict = "upgrade" THEN "needs_upgrade" ELSE "needs_reauth"
  /\ backoff' = BackoffMin
  /\ UNCHANGED <<cfg, touched, conf, next, store, watch, verdict, sawBad>>

\* wait_for_config reads a usable configuration that differs, or any usable
\* one after an unusable one.
Found ==
  /\ main = "wait"
  /\ cfg \in Config
  /\ cfg # conf \/ sawBad
  /\ next' = cfg
  /\ touched' = FALSE
  /\ main' = "adopt"
  /\ UNCHANGED <<cfg, conf, store, watch, verdict, sawBad, status, backoff>>

\* Bug: a logout is reported but the children stay.
LostKeepsChildren ==
  /\ main = "wait"
  /\ cfg \in Unusable
  /\ ~sawBad
  /\ sawBad' = TRUE
  /\ status' = "needs_reauth"
  /\ UNCHANGED <<cfg, touched, conf, next, store, main, watch, verdict,
                 backoff>>

\* wait_for_config reads an unusable configuration for the first time.
Lost ==
  /\ main = "wait"
  /\ cfg \in Unusable
  /\ ~sawBad
  /\ main' = "drop"
  /\ UNCHANGED <<cfg, touched, conf, next, store, watch, verdict, sawBad,
                 status, backoff>>

DropDone ==
  /\ main = "drop"
  /\ main' = "wait"
  /\ sawBad' = TRUE
  /\ status' = "needs_reauth"
  /\ UNCHANGED <<cfg, touched, conf, next, store, watch, verdict, backoff>>

\* Bug: a rejected credential gets a deadline too.
DeadlineAlways ==
  /\ main = "wait"
  /\ ~sawBad
  /\ cfg = conf
  /\ next' = conf
  /\ touched' = FALSE
  /\ main' = "adopt"
  /\ UNCHANGED <<cfg, conf, store, watch, verdict, sawBad, status, backoff>>

\* Bug: only a clean end is followed by a retry.
DeadlineAfterOk ==
  /\ main = "wait"
  /\ verdict = "ok"
  /\ ~sawBad
  /\ cfg = conf
  /\ next' = conf
  /\ touched' = FALSE
  /\ main' = "adopt"
  /\ UNCHANGED <<cfg, conf, store, watch, verdict, sawBad, status, backoff>>

\* Bug: the file is not read once more when the back-off is over.
DeadlineUnread ==
  /\ main = "wait"
  /\ verdict \notin Rejected
  /\ ~sawBad
  /\ next' = conf
  /\ main' = "adopt"
  /\ UNCHANGED <<cfg, touched, conf, store, watch, verdict, sawBad, status,
                 backoff>>

\* The back-off is over and the file, read once more, has not changed.
\* There is no deadline after a rejection or once the file was unusable.
Deadline ==
  /\ main = "wait"
  /\ verdict \notin Rejected
  /\ ~sawBad
  /\ cfg = conf
  /\ next' = conf
  /\ touched' = FALSE
  /\ main' = "adopt"
  /\ UNCHANGED <<cfg, conf, store, watch, verdict, sawBad, status, backoff>>

\* Bug: the back-off has no cap.
ProceedUncapped(s) ==
  /\ conf' = next
  /\ next' = NoConf
  /\ store' = s
  /\ main' = "connecting"
  /\ status' = "reconnecting"
  /\ backoff' = IF next # conf THEN BackoffMin ELSE 2 * backoff
  /\ UNCHANGED <<cfg, touched, watch, verdict, sawBad>>

\* resolved = next, and the back-off for the next failure.
Proceed(s) ==
  /\ conf' = next
  /\ next' = NoConf
  /\ store' = s
  /\ main' = "connecting"
  /\ status' = "reconnecting"
  /\ backoff' = IF next # conf THEN BackoffMin ELSE Least(2 * backoff, BackoffMax)
  /\ UNCHANGED <<cfg, touched, watch, verdict, sawBad>>

\* Bug: another identity takes over the children.
KeepAlways == main = "adopt" /\ Proceed(store)

\* The same identity: nothing to reset.
Keep == main = "adopt" /\ Identity[next] = Identity[conf] /\ Proceed(store)

\* Another identity, or another namespace whose env_store opens: reset.
Switch ==
  /\ main = "adopt"
  /\ Identity[next] # Identity[conf]
  /\ main' = "switch"
  /\ UNCHANGED <<cfg, touched, conf, next, store, watch, verdict, sawBad,
                 status, backoff>>

\* Bug: the children are reset but the env_store is not switched.
SwitchDoneKeepsStore == main = "switch" /\ Proceed(store)

SwitchDone ==
  /\ main = "switch"
  /\ Proceed(IF Namespace[next] # Namespace[conf] THEN Namespace[next]
             ELSE store)

\* The env_store of the other namespace cannot be opened: run() returns.
OpenFails ==
  /\ main = "adopt"
  /\ Namespace[next] # Namespace[conf]
  /\ main' = "exited"
  /\ UNCHANGED <<cfg, touched, conf, next, store, watch, verdict, sawBad,
                 status, backoff>>

-----------------------------------------------------------------------------
(* SIGTERM or ctrl-c *)

Signal ==
  /\ main \in {"connecting", "live", "wait", "drop"}
  /\ main' = "stopping"
  /\ watch' = "poll"
  /\ UNCHANGED <<cfg, touched, conf, next, store, verdict, sawBad, status,
                 backoff>>

StopDone ==
  /\ main = "stopping"
  /\ main' = "exited"
  /\ UNCHANGED <<cfg, touched, conf, next, store, watch, verdict, sawBad,
                 status, backoff>>

-----------------------------------------------------------------------------
Session == Upgraded \/ ConnectFails \/ SessionEnds
Watching == WatchEnds \/ WatchResets \/ WatchDone
Between ==
  \/ Judge \/ RejectDone \/ Found \/ Lost \/ DropDone \/ Deadline
  \/ Keep \/ Switch \/ SwitchDone \/ OpenFails

RunNext ==
  \/ WriteConfig \/ Boot \/ FirstLogin \/ Session \/ Watching \/ Between
  \/ Signal \/ StopDone

RunSpec == RunInit /\ [][RunNext]_runVars

\* The loop and the watcher poll; connect, the backend, the user and the
\* signals may do nothing for ever.
RunFairSpec ==
  RunSpec /\ WF_runVars(Boot) /\ WF_runVars(FirstLogin)
          /\ WF_runVars(Watching) /\ WF_runVars(Between)

-----------------------------------------------------------------------------
(* Properties *)

\* After the backend rejected the credential or the protocol, the daemon
\* does not try again until config.toml was written after it read the
\* configuration it was rejected with - however reads, writes and the
\* rejection interleave.
NoRetryOfRejected ==
  [][main = "wait" /\ main' = "adopt" /\ verdict \in Rejected => touched]_runVars

\* The env_store a session spawns with is the one of its configuration,
\* through every chain of rotations, logouts and account switches.
StoreMatchesSession ==
  main \in {"connecting", "live"} => store = Namespace[conf]

\* A configuration that stays is taken up, whatever the loop was doing, unless
\* the loop ends or hangs for ever in connect, which nothing bounds: passing
\* through connect again and again with the old one is no excuse.
ConfigAdopted ==
  \A c \in Config :
    (cfg = c) ~> \/ cfg # c \/ conf = c
                 \/ main \in {"stopping", "exited"}
                 \/ [](main = "connecting")

\* "Retry forever on transient errors": after a failure that is no rejection
\* the daemon tries again, unless the configuration is unusable.
RetriesForever ==
  (main = "wait" /\ verdict \notin Rejected)
    ~> (main \in {"connecting", "stopping", "exited"} \/ cfg \in Unusable)
=============================================================================
