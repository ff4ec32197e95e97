---------------------------- MODULE DaemonProofs ----------------------------
(***************************************************************************)
(* Proofs about the daemon, in three parts: the run loop and the           *)
(* supervisor, each on its own, and then their composition - for any       *)
(* configurations, accounts, servers, specs and incarnations.              *)
(***************************************************************************)
EXTENDS Daemon, TLAPS

-----------------------------------------------------------------------------
(* Part 1: RunLoop.  Its types, that the store is the one of the           *)
(* configuration in use, and that a rejected configuration is not tried    *)
(* again unless the file was written since.                                *)

\* The phases in which a configuration is in use and its env_store open.
InUse == Phases \ {"boot", "awaiting", "exited"}

\* The store is the one of the configuration in use, also while the next one
\* is being adopted.
StoreInv ==
  /\ main \in InUse => conf \in Config /\ store = Namespace[conf]
  /\ main \in {"adopt", "switch"} => next \in Config

\* The file differs from the configuration last read only if it was written
\* since, and an unusable file was seen only then.
RetryInv ==
  /\ main \in InUse \ {"adopt", "switch"} => (cfg # conf => touched)
  /\ main \in {"adopt", "switch"} => (cfg # next => touched)
  /\ main = "drop" => touched
  /\ main = "reject" => ~sawBad
  /\ main = "wait" /\ sawBad => touched

RunInv == RunTypeOK /\ StoreInv /\ RetryInv

-----------------------------------------------------------------------------
\* The back-off of the next failure is in bounds (run).
LEMMA BackoffBounds ==
  ASSUME NEW b \in BackoffMin .. BackoffMax
  PROVE  Least(2 * b, BackoffMax) \in BackoffMin .. BackoffMax
  BY RunLoopAssumption DEF Least

\* The back-off starts, and starts again, in bounds (run).
LEMMA LeastBackoff == BackoffMin \in BackoffMin .. BackoffMax
  BY RunLoopAssumption

\* An identity belongs to one namespace, so a store that is kept fits
\* (requires_child_reset, env_namespace).
LEMMA SameIdentity ==
  ASSUME NEW c \in Config, NEW d \in Config, Identity[c] = Identity[d]
  PROVE  Namespace[c] = Namespace[d]
  BY RunLoopAssumption

\* Adopting the next configuration with a store that fits it (run).
LEMMA ProceedStep ==
  ASSUME RunInv, main \in {"adopt", "switch"}, NEW s,
         s = Namespace[next], Proceed(s)
  PROVE  RunInv'
<1>1. next \in Config
  BY DEF RunInv, StoreInv
<1>2. backoff' \in BackoffMin .. BackoffMax
  BY BackoffBounds, LeastBackoff DEF Proceed, RunInv, RunTypeOK
<1>3. RunTypeOK'
  BY <1>1, <1>2 DEF Proceed, RunInv, RunTypeOK, Phases
<1>4. StoreInv'
  BY <1>1 DEF Proceed, StoreInv, InUse
<1>5. RetryInv'
  BY <1>1 DEF Proceed, RunInv, RetryInv, InUse
<1> QED BY <1>3, <1>4, <1>5 DEF RunInv

\* The first configuration is adopted with its own store (run).
LEMMA FirstUseStep ==
  ASSUME RunInv, cfg \in Config, NEW ok \in BOOLEAN, FirstUse(cfg, ok)
  PROVE  RunInv'
<1>1. RunTypeOK'
  BY DEF FirstUse, RunInv, RunTypeOK, Phases
<1>2. StoreInv' /\ RetryInv'
  BY DEF FirstUse, StoreInv, RetryInv, InUse
<1> QED BY <1>1, <1>2 DEF RunInv

-----------------------------------------------------------------------------
\* Every step of the loop and of its environment keeps the invariant.
LEMMA RunInvariant == RunSpec => []RunInv
<1>1. RunInit => RunInv
  <2> SUFFICES ASSUME RunInit PROVE RunInv
    OBVIOUS
  <2>1. RunTypeOK
    BY LeastBackoff DEF RunInit, RunTypeOK, Phases
  <2>2. StoreInv /\ RetryInv
    BY DEF RunInit, StoreInv, RetryInv, InUse
  <2> QED BY <2>1, <2>2 DEF RunInv
<1>2. RunInv /\ [RunNext]_runVars => RunInv'
  <2> SUFFICES ASSUME RunInv, [RunNext]_runVars PROVE RunInv'
    OBVIOUS
  <2> USE DEF RunInv, RunTypeOK, StoreInv, RetryInv, InUse, Phases, Rejected
  <2>1. CASE WriteConfig
    BY <2>1 DEF WriteConfig, loopVars
  <2>2. CASE Boot
    <3>1. ASSUME cfg \in Config, NEW ok \in BOOLEAN, FirstUse(cfg, ok)
          PROVE  RunInv'
      BY <3>1, FirstUseStep
    <3>2. CASE cfg \notin Config
      BY <2>2, <3>2 DEF Boot
    <3>3. CASE cfg \in Config
      BY <2>2, <3>1, <3>3 DEF Boot
    <3> QED BY <3>2, <3>3
  <2>3. CASE FirstLogin
    BY <2>3, FirstUseStep DEF FirstLogin
  <2>4. CASE Session
    BY <2>4 DEF Session, Upgraded, ConnectFails, SessionEnds, End
  <2>5. CASE Watching
    BY <2>5 DEF Watching, WatchEnds, WatchResets, WatchDone, End
  <2>6. CASE Judge
    <3>1. backoff' \in BackoffMin .. BackoffMax
      BY <2>6, LeastBackoff DEF Judge
    <3>2. main' \in {"reject", "wait"} /\ sawBad' = FALSE
      BY <2>6 DEF Judge
    <3>3. UNCHANGED <<cfg, touched, conf, next, store, watch, verdict>>
      BY <2>6 DEF Judge
    <3>4. status' \in {status, "reconnecting"}
      BY <2>6 DEF Judge
    <3>5. main = "judge"
      BY <2>6 DEF Judge
    <3>6. RunTypeOK'
      <4>1. RunTypeOK
        OBVIOUS
      <4>2. sawBad' \in BOOLEAN /\ main' \in Phases
        BY <3>2
      <4>3. status' \in {"starting", "connected", "reconnecting",
                        "needs_reauth", "needs_upgrade"}
        BY <3>4
      <4> HIDE DEF Phases, Rejected, RunInv, StoreInv, RetryInv
      <4> QED BY <3>1, <3>3, <4>1, <4>2, <4>3
    <3>7. StoreInv'
      BY <3>2, <3>3, <3>5
    <3>8. RetryInv'
      BY <3>2, <3>3, <3>5
    <3> QED BY <3>6, <3>7, <3>8
  <2>7. CASE RejectDone
    BY <2>7, LeastBackoff DEF RejectDone
  <2>8. CASE Found
    BY <2>8 DEF Found
  <2>9. CASE Lost
    BY <2>9, RunLoopAssumption DEF Lost
  <2>10. CASE DropDone
    BY <2>10 DEF DropDone
  <2>11. CASE Deadline
    BY <2>11 DEF Deadline
  <2>12. CASE Keep
    BY <2>12, SameIdentity, ProceedStep DEF Keep
  <2>13. CASE Switch
    BY <2>13 DEF Switch
  <2>14. CASE SwitchDone
    BY <2>14, ProceedStep DEF SwitchDone
  <2>15. CASE OpenFails
    BY <2>15 DEF OpenFails
  <2>16. CASE Signal
    BY <2>16 DEF Signal
  <2>17. CASE StopDone
    BY <2>17 DEF StopDone
  <2>18. CASE UNCHANGED runVars
    BY <2>18 DEF runVars, loopVars
  <2> QED BY <2>1, <2>2, <2>3, <2>4, <2>5, <2>6, <2>7, <2>8, <2>9, <2>10,
             <2>11, <2>12, <2>13, <2>14, <2>15, <2>16, <2>17, <2>18
          DEF RunNext, Between
<1> QED BY <1>1, <1>2, PTL DEF RunSpec

-----------------------------------------------------------------------------
\* The run loop's variables stay within their types, the back-off within its
\* bounds (run, BACKOFF_MIN, BACKOFF_MAX).
THEOREM RunTypeCorrect == RunSpec => []RunTypeOK
<1>1. RunInv => RunTypeOK
  BY DEF RunInv
<1> QED BY <1>1, RunInvariant, PTL

\* A session spawns with the env_store of its own configuration, whatever
\* rotations, logouts and switches came before (run, switch_env_store).
THEOREM StoreFollowsSession == RunSpec => []StoreMatchesSession
<1>1. RunInv => StoreMatchesSession
  BY DEF RunInv, StoreInv, StoreMatchesSession, InUse, Phases
<1> QED BY <1>1, RunInvariant, PTL

\* A rejected credential is not tried again before config.toml was written
\* (run, wait_for_config).
THEOREM RejectedNotRetried == RunSpec => NoRetryOfRejected
<1>1. RunInv /\ [RunNext]_runVars =>
        [main = "wait" /\ main' = "adopt" /\ verdict \in Rejected
           => touched]_runVars
  <2> SUFFICES ASSUME RunInv, RunNext, main = "wait", main' = "adopt",
                      verdict \in Rejected
               PROVE  touched
    BY DEF runVars, loopVars
  <2>1. CASE Found
    BY <2>1 DEF Found, RunInv, RetryInv, InUse, Phases
  <2>2. CASE WriteConfig
    BY <2>2 DEF WriteConfig, loopVars
  <2>3. CASE ~Found /\ ~WriteConfig
    BY <2>3 DEF RunNext, Boot, FirstLogin, FirstUse, Session, Upgraded,
       ConnectFails, SessionEnds, End, Watching, WatchEnds, WatchResets,
       WatchDone, Between, Judge, RejectDone, Lost, DropDone, Deadline, Keep,
       Switch, SwitchDone, OpenFails, Proceed, Signal, StopDone
  <2> QED BY <2>1, <2>2, <2>3
<1> QED BY <1>1, RunInvariant, PTL DEF RunSpec, NoRetryOfRejected

\* What state.json says of the connection is what the loop is at, and in a
\* wait what would end it: a login if the credential was rejected or the
\* configuration has become unusable, a newer daemon, or only time.
StatusTruthful ==
  /\ main = "awaiting" => status = "needs_reauth"
  /\ main = "connecting" => status \in {"starting", "reconnecting"}
  /\ main = "live" => status = "connected"
  /\ main = "wait" =>
       status = IF sawBad \/ verdict = "auth" THEN "needs_reauth"
                ELSE IF verdict = "upgrade" THEN "needs_upgrade"
                ELSE "reconnecting"

\* It holds from the judgement of a session on: a rejection is reported once
\* the children are shut down, with nothing unusable seen yet.
StatusInv ==
  /\ StatusTruthful
  /\ main = "reject" => verdict \in Rejected /\ ~sawBad

THEOREM StatusIsTruthful == RunSpec => []StatusTruthful
<1>1. RunInit => StatusInv
  BY DEF RunInit, StatusInv, StatusTruthful
<1>2. StatusInv /\ [RunNext]_runVars => StatusInv'
  <2> SUFFICES ASSUME StatusInv, [RunNext]_runVars PROVE StatusInv'
    OBVIOUS
  <2> USE DEF StatusInv, StatusTruthful, Rejected
  <2>1. CASE WriteConfig \/ UNCHANGED runVars
    BY <2>1 DEF WriteConfig, runVars, loopVars
  <2>2. CASE Boot \/ FirstLogin
    BY <2>2 DEF Boot, FirstLogin, FirstUse
  <2>3. CASE Session
    BY <2>3 DEF Session, Upgraded, ConnectFails, SessionEnds, End
  <2>4. CASE Watching
    BY <2>4 DEF Watching, WatchEnds, WatchResets, WatchDone, End
  <2>5. CASE Judge
    BY <2>5 DEF Judge
  <2>6. CASE RejectDone
    BY <2>6 DEF RejectDone
  <2>7. CASE Lost \/ DropDone
    BY <2>7 DEF Lost, DropDone
  <2>8. CASE Found \/ Deadline \/ Switch \/ OpenFails
    BY <2>8 DEF Found, Deadline, Switch, OpenFails
  <2>9. CASE Keep \/ SwitchDone
    BY <2>9 DEF Keep, SwitchDone, Proceed
  <2>10. CASE Signal \/ StopDone
    BY <2>10 DEF Signal, StopDone
  <2> QED BY <2>1, <2>2, <2>3, <2>4, <2>5, <2>6, <2>7, <2>8, <2>9, <2>10
          DEF RunNext, Between
<1>3. StatusInv => StatusTruthful
  BY DEF StatusInv
<1> QED BY <1>1, <1>2, <1>3, PTL DEF RunSpec

-----------------------------------------------------------------------------
(* Part 2: Supervisor.  Its types, that the map converges to what the      *)
(* frames want and state.json to the map, that no handler of its own       *)
(* accord forgets a running process, and that every step of it is one of   *)
(* the abstract Reconciler.                                                *)
(*                                                                         *)
(* What makes it inductive: what a handler has still to do for a server is *)
(* what the server lacks (GoalInv); only a snapshot ever begins when the   *)
(* map is not settled (SettledInv); and a handle is stopped before it is   *)
(* let go (ControlInv).                                                    *)

ControlInv ==
  /\ kind = "none" <=> step = "idle"
  /\ step \in {"idle", "pick"} => cur = NoCur
  /\ kind # "reset" => moved = {}
  /\ kind = "reset" => todo = NoWork /\ cur.srv = None /\ cur.spec = None
                        /\ ~settled
  /\ step \in {"kill", "reap"} => cur.inc \in Inc
  /\ step = "reap" => proc[cur.inc] = "dead"
  /\ step \in {"spawn", "result"} => cur.inc = None
  /\ step \in {"kill", "reap"} /\ cur.spec # None => cur.srv \in Servers
  /\ step = "spawn" => cur.srv \in Servers /\ cur.spec # None

ProcessInv == \A s \in Servers : children[s] # None => proc[children[s]] # "none"

SettledInv ==
  /\ kind \in {"delta", "respawn"} => settled
  /\ sess = "live" /\ greeted /\ kind # "snapshot" => settled

\* The map is right about s.
Right(s) ==
  /\ children[s] # None => raw[children[s]] = want[s]
  /\ want[s] # None /\ children[s] = None => failed[s]

\* The handler is at s.
AtWork(s) == cur.srv = s /\ step \in {"kill", "reap", "spawn"}

GoalInv ==
  kind \in {"snapshot", "delta", "respawn"} =>
    \A s \in Servers :
      /\ todo[s] = "ensure" => want[s] # None
      /\ todo[s] \in {"drop", "remove"} => want[s] = None
      /\ todo[s] \in {"none", "respawn"} /\ ~AtWork(s) => Right(s)
      /\ AtWork(s) => todo[s] = "none" /\ children[s] = None /\ cur.spec = want[s]

SupInv == TypeOK /\ ControlInv /\ ProcessInv /\ SettledInv /\ GoalInv
            /\ Converged /\ PublishedAgrees

USE SupervisorAssumption
USE DEF Inc0, Spec0, Kinds, Ops, Steps, Cur, NoWork, Empty, NoCur, Idle

LEMMA InitSup == Init => SupInv
<1> SUFFICES ASSUME Init PROVE SupInv
  OBVIOUS
<1> USE DEF Init, SupInit
<1>1. TypeOK
  BY DEF TypeOK
<1>2. ControlInv /\ ProcessInv /\ SettledInv
  BY DEF ControlInv, ProcessInv, SettledInv
<1>3. GoalInv /\ Converged /\ PublishedAgrees
  BY DEF GoalInv, Converged, PublishedAgrees
<1> QED BY <1>1, <1>2, <1>3 DEF SupInv

LEMMA DieSup ==
  ASSUME SupInv, NEW i \in Inc, Die(i)
  PROVE  SupInv'
<1> USE DEF Die, supVars, processVars, resultVars, taskVars, sessionVars
<1> USE DEF SupInv, TypeOK
<1>1. TypeOK'
  BY DEF ControlInv
<1>2. ControlInv'
  BY DEF ControlInv, GoalInv
<1>3. ProcessInv'
  BY DEF ProcessInv
<1>4. SettledInv'
  BY DEF SettledInv
<1>5. GoalInv'
  BY DEF ControlInv, ProcessInv, SettledInv, GoalInv, AtWork, Right, Converged
<1>6. Converged'
  BY DEF ControlInv, SettledInv, GoalInv, AtWork, Right, Converged
<1>7. PublishedAgrees'
  BY DEF ControlInv, PublishedAgrees
<1> QED BY <1>1, <1>2, <1>3, <1>4, <1>5, <1>6, <1>7

LEMMA NoticeSup ==
  ASSUME SupInv, NEW i \in Inc, Notice(i)
  PROVE  SupInv'
<1> USE DEF Notice, supVars, processVars, resultVars, taskVars, sessionVars
<1> USE DEF SupInv, TypeOK
<1>1. TypeOK'
  BY DEF ControlInv
<1>2. ControlInv'
  BY DEF ControlInv, GoalInv
<1>3. ProcessInv'
  BY DEF ProcessInv
<1>4. SettledInv'
  BY DEF SettledInv
<1>5. GoalInv'
  BY DEF ControlInv, ProcessInv, SettledInv, GoalInv, AtWork, Right, Converged
<1>6. Converged'
  BY DEF ControlInv, SettledInv, GoalInv, AtWork, Right, Converged
<1>7. PublishedAgrees'
  BY DEF ControlInv, PublishedAgrees
<1> QED BY <1>1, <1>2, <1>3, <1>4, <1>5, <1>6, <1>7

LEMMA ConnectSup ==
  ASSUME SupInv, Connect
  PROVE  SupInv'
<1> USE DEF Connect, supVars, processVars, resultVars, taskVars, sessionVars
<1> USE DEF SupInv, TypeOK
<1>1. TypeOK'
  BY DEF ControlInv
<1>2. ControlInv'
  BY DEF ControlInv, GoalInv
<1>3. ProcessInv'
  BY DEF ProcessInv
<1>4. SettledInv'
  BY DEF SettledInv
<1>5. GoalInv'
  BY DEF ControlInv, ProcessInv, SettledInv, GoalInv, AtWork, Right, Converged
<1>6. Converged'
  BY DEF ControlInv, SettledInv, GoalInv, AtWork, Right, Converged
<1>7. PublishedAgrees'
  BY DEF ControlInv, PublishedAgrees
<1> QED BY <1>1, <1>2, <1>3, <1>4, <1>5, <1>6, <1>7

LEMMA DisconnectSup ==
  ASSUME SupInv, Disconnect
  PROVE  SupInv'
<1> USE DEF Disconnect, DropHandler, supVars, processVars, resultVars, taskVars, sessionVars
<1> USE DEF SupInv, TypeOK
<1>1. TypeOK'
  BY DEF ControlInv
<1>2. ControlInv'
  BY DEF ControlInv, GoalInv
<1>3. ProcessInv'
  BY DEF ProcessInv
<1>4. SettledInv'
  BY DEF SettledInv
<1>5. GoalInv'
  BY DEF ControlInv, ProcessInv, SettledInv, GoalInv, AtWork, Right, Converged
<1>6. Converged'
  BY DEF ControlInv, SettledInv, GoalInv, AtWork, Right, Converged
<1>7. PublishedAgrees'
  BY DEF ControlInv, PublishedAgrees
<1> QED BY <1>1, <1>2, <1>3, <1>4, <1>5, <1>6, <1>7

LEMMA TakeSnapshotSup ==
  ASSUME SupInv, NEW d \in [Servers -> Spec0], TakeSnapshot(d)
  PROVE  SupInv'
<1> USE DEF TakeSnapshot, Begin, supVars, processVars, resultVars, taskVars, sessionVars
<1> USE DEF SupInv, TypeOK
<1>1. TypeOK'
  BY DEF ControlInv
<1>2. ControlInv'
  BY DEF ControlInv, GoalInv
<1>3. ProcessInv'
  BY DEF ProcessInv
<1>4. SettledInv'
  BY DEF SettledInv
<1>5. GoalInv'
  BY DEF ControlInv, ProcessInv, SettledInv, GoalInv, AtWork, Right, Converged
<1>6. Converged'
  BY DEF ControlInv, SettledInv, GoalInv, AtWork, Right, Converged
<1>7. PublishedAgrees'
  BY DEF ControlInv, PublishedAgrees
<1> QED BY <1>1, <1>2, <1>3, <1>4, <1>5, <1>6, <1>7

LEMMA TakeDeltaSup ==
  ASSUME SupInv, NEW c \in Changes, TakeDelta(c)
  PROVE  SupInv'
<1> USE DEF TakeDelta, Begin, Changes, supVars, processVars, resultVars, taskVars, sessionVars
<1> USE DEF SupInv, TypeOK
<1>1. TypeOK'
  BY DEF ControlInv
<1>2. ControlInv'
  BY DEF ControlInv, GoalInv
<1>3. ProcessInv'
  BY DEF ProcessInv
<1>4. SettledInv'
  BY DEF SettledInv
<1>5. GoalInv'
  BY DEF ControlInv, ProcessInv, SettledInv, GoalInv, AtWork, Right, Converged
<1>6. Converged'
  BY DEF ControlInv, SettledInv, GoalInv, AtWork, Right, Converged
<1>7. PublishedAgrees'
  BY DEF ControlInv, PublishedAgrees
<1> QED BY <1>1, <1>2, <1>3, <1>4, <1>5, <1>6, <1>7

LEMMA TakeRespawnSup ==
  ASSUME SupInv, NEW s \in Servers, TakeRespawn(s)
  PROVE  SupInv'
<1> USE DEF TakeRespawn, Begin, supVars, processVars, resultVars, taskVars, sessionVars
<1> USE DEF SupInv, TypeOK
<1>1. TypeOK'
  BY DEF ControlInv
<1>2. ControlInv'
  BY DEF ControlInv, GoalInv
<1>3. ProcessInv'
  BY DEF ProcessInv
<1>4. SettledInv'
  BY DEF SettledInv
<1>5. GoalInv'
  BY DEF ControlInv, ProcessInv, SettledInv, GoalInv, AtWork, Right, Converged
<1>6. Converged'
  BY DEF ControlInv, SettledInv, GoalInv, AtWork, Right, Converged
<1>7. PublishedAgrees'
  BY DEF ControlInv, PublishedAgrees
<1> QED BY <1>1, <1>2, <1>3, <1>4, <1>5, <1>6, <1>7

LEMMA TakeResetSup ==
  ASSUME SupInv, TakeReset
  PROVE  SupInv'
<1> USE DEF TakeReset, Begin, supVars, processVars, resultVars, taskVars, sessionVars
<1> USE DEF SupInv, TypeOK
<1>1. TypeOK'
  <2>1. moved' \in SUBSET Inc
    OBVIOUS
  <2> QED BY <2>1 DEF ControlInv
<1>2. ControlInv'
  BY DEF ControlInv, GoalInv
<1>3. ProcessInv'
  BY DEF ProcessInv
<1>4. SettledInv'
  BY DEF SettledInv
<1>5. GoalInv'
  BY DEF ControlInv, ProcessInv, SettledInv, GoalInv, AtWork, Right, Converged
<1>6. Converged'
  BY DEF ControlInv, SettledInv, GoalInv, AtWork, Right, Converged
<1>7. PublishedAgrees'
  BY DEF ControlInv, PublishedAgrees
<1> QED BY <1>1, <1>2, <1>3, <1>4, <1>5, <1>6, <1>7

LEMMA SkipSup ==
  ASSUME SupInv, NEW s \in Servers, Skip(s)
  PROVE  SupInv'
<1> USE DEF Skip, Turn, Healthy, supVars, processVars, resultVars, taskVars, sessionVars
<1> USE DEF SupInv, TypeOK
<1>1. TypeOK'
  BY DEF ControlInv
<1>2. ControlInv'
  BY DEF ControlInv, GoalInv
<1>3. ProcessInv'
  BY DEF ProcessInv
<1>4. SettledInv'
  BY DEF SettledInv
<1>5. GoalInv'
  BY DEF ControlInv, ProcessInv, SettledInv, GoalInv, AtWork, Right, Converged
<1>6. Converged'
  BY DEF ControlInv, SettledInv, GoalInv, AtWork, Right, Converged
<1>7. PublishedAgrees'
  BY DEF ControlInv, PublishedAgrees
<1> QED BY <1>1, <1>2, <1>3, <1>4, <1>5, <1>6, <1>7

LEMMA StartSup ==
  ASSUME SupInv, NEW s \in Servers, Start(s)
  PROVE  SupInv'
<1> USE DEF Start, Turn, supVars, processVars, resultVars, taskVars, sessionVars
<1> USE DEF SupInv, TypeOK
<1>1. TypeOK'
  BY DEF ControlInv
<1>2. ControlInv'
  BY DEF ControlInv, GoalInv
<1>3. ProcessInv'
  BY DEF ProcessInv
<1>4. SettledInv'
  BY DEF SettledInv
<1>5. GoalInv'
  BY DEF ControlInv, ProcessInv, SettledInv, GoalInv, AtWork, Right, Converged
<1>6. Converged'
  BY DEF ControlInv, SettledInv, GoalInv, AtWork, Right, Converged
<1>7. PublishedAgrees'
  BY DEF ControlInv, PublishedAgrees
<1> QED BY <1>1, <1>2, <1>3, <1>4, <1>5, <1>6, <1>7

LEMMA RemoveSup ==
  ASSUME SupInv, NEW s \in Servers, Remove(s)
  PROVE  SupInv'
<1> USE DEF Remove, Turn, Healthy, supVars, processVars, resultVars, taskVars, sessionVars
<1> USE DEF SupInv, TypeOK
<1>1. TypeOK'
  BY DEF ControlInv
<1>2. ControlInv'
  BY DEF ControlInv, GoalInv
<1>3. ProcessInv'
  BY DEF ProcessInv
<1>4. SettledInv'
  BY DEF SettledInv
<1>5. GoalInv'
  BY DEF ControlInv, ProcessInv, SettledInv, GoalInv, AtWork, Right, Converged
<1>6. Converged'
  BY DEF ControlInv, SettledInv, GoalInv, AtWork, Right, Converged
<1>7. PublishedAgrees'
  BY DEF ControlInv, PublishedAgrees
<1> QED BY <1>1, <1>2, <1>3, <1>4, <1>5, <1>6, <1>7

LEMMA NextMovedSup ==
  ASSUME SupInv, NEW i \in Inc, NextMoved(i)
  PROVE  SupInv'
<1> USE DEF NextMoved, supVars, processVars, resultVars, taskVars, sessionVars
<1> USE DEF SupInv, TypeOK
<1>1. TypeOK'
  BY DEF ControlInv
<1>2. ControlInv'
  BY DEF ControlInv, GoalInv
<1>3. ProcessInv'
  BY DEF ProcessInv
<1>4. SettledInv'
  BY DEF SettledInv
<1>5. GoalInv'
  BY DEF ControlInv, ProcessInv, SettledInv, GoalInv, AtWork, Right, Converged
<1>6. Converged'
  BY DEF ControlInv, SettledInv, GoalInv, AtWork, Right, Converged
<1>7. PublishedAgrees'
  BY DEF ControlInv, PublishedAgrees
<1> QED BY <1>1, <1>2, <1>3, <1>4, <1>5, <1>6, <1>7

LEMMA KillSup ==
  ASSUME SupInv, Kill
  PROVE  SupInv'
<1> USE DEF Kill, supVars, processVars, resultVars, taskVars, sessionVars
<1> USE DEF SupInv, TypeOK
<1>1. TypeOK'
  BY DEF ControlInv
<1>2. ControlInv'
  BY DEF ControlInv, GoalInv
<1>3. ProcessInv'
  BY DEF ProcessInv
<1>4. SettledInv'
  BY DEF SettledInv
<1>5. GoalInv'
  BY DEF ControlInv, ProcessInv, SettledInv, GoalInv, AtWork, Right, Converged
<1>6. Converged'
  BY DEF ControlInv, SettledInv, GoalInv, AtWork, Right, Converged
<1>7. PublishedAgrees'
  BY DEF ControlInv, PublishedAgrees
<1> QED BY <1>1, <1>2, <1>3, <1>4, <1>5, <1>6, <1>7

LEMMA ReapSup ==
  ASSUME SupInv, Reap
  PROVE  SupInv'
<1> USE DEF Reap, supVars, processVars, resultVars, taskVars, sessionVars
<1> USE DEF SupInv, TypeOK
<1>1. TypeOK'
  BY DEF ControlInv
<1>2. ControlInv'
  BY DEF ControlInv, GoalInv
<1>3. ProcessInv'
  BY DEF ProcessInv
<1>4. SettledInv'
  BY DEF SettledInv
<1>5. GoalInv'
  BY DEF ControlInv, ProcessInv, SettledInv, GoalInv, AtWork, Right, Converged
<1>6. Converged'
  BY DEF ControlInv, SettledInv, GoalInv, AtWork, Right, Converged
<1>7. PublishedAgrees'
  BY DEF ControlInv, PublishedAgrees
<1> QED BY <1>1, <1>2, <1>3, <1>4, <1>5, <1>6, <1>7

LEMMA SpawnOkSup ==
  ASSUME SupInv, NEW i \in Inc, SpawnOk(i)
  PROVE  SupInv'
<1> USE DEF SpawnOk, supVars, processVars, resultVars, taskVars, sessionVars
<1> USE DEF SupInv, TypeOK
<1>1. TypeOK'
  BY DEF ControlInv
<1>2. ControlInv'
  BY DEF ControlInv, GoalInv
<1>3. ProcessInv'
  BY DEF ProcessInv
<1>4. SettledInv'
  BY DEF SettledInv
<1>5. GoalInv'
  BY DEF ControlInv, ProcessInv, SettledInv, GoalInv, AtWork, Right, Converged
<1>6. Converged'
  BY DEF ControlInv, SettledInv, GoalInv, AtWork, Right, Converged
<1>7. PublishedAgrees'
  BY DEF ControlInv, PublishedAgrees
<1> QED BY <1>1, <1>2, <1>3, <1>4, <1>5, <1>6, <1>7

LEMMA SpawnFailsSup ==
  ASSUME SupInv, SpawnFails
  PROVE  SupInv'
<1> USE DEF SpawnFails, supVars, processVars, resultVars, taskVars, sessionVars
<1> USE DEF SupInv, TypeOK
<1>1. TypeOK'
  BY DEF ControlInv
<1>2. ControlInv'
  BY DEF ControlInv, GoalInv
<1>3. ProcessInv'
  BY DEF ProcessInv
<1>4. SettledInv'
  BY DEF SettledInv
<1>5. GoalInv'
  BY DEF ControlInv, ProcessInv, SettledInv, GoalInv, AtWork, Right, Converged
<1>6. Converged'
  BY DEF ControlInv, SettledInv, GoalInv, AtWork, Right, Converged
<1>7. PublishedAgrees'
  BY DEF ControlInv, PublishedAgrees
<1> QED BY <1>1, <1>2, <1>3, <1>4, <1>5, <1>6, <1>7

LEMMA SendResultSup ==
  ASSUME SupInv, SendResult
  PROVE  SupInv'
<1> USE DEF SendResult, supVars, processVars, resultVars, taskVars, sessionVars
<1> USE DEF SupInv, TypeOK
<1>1. TypeOK'
  BY DEF ControlInv
<1>2. ControlInv'
  BY DEF ControlInv, GoalInv
<1>3. ProcessInv'
  BY DEF ProcessInv
<1>4. SettledInv'
  BY DEF SettledInv
<1>5. GoalInv'
  BY DEF ControlInv, ProcessInv, SettledInv, GoalInv, AtWork, Right, Converged
<1>6. Converged'
  BY DEF ControlInv, SettledInv, GoalInv, AtWork, Right, Converged
<1>7. PublishedAgrees'
  BY DEF ControlInv, PublishedAgrees
<1> QED BY <1>1, <1>2, <1>3, <1>4, <1>5, <1>6, <1>7

LEMMA PublishSup ==
  ASSUME SupInv, Publish
  PROVE  SupInv'
<1> USE DEF Publish, supVars, processVars, resultVars, taskVars, sessionVars
<1> USE DEF SupInv, TypeOK
<1>1. TypeOK'
  BY DEF ControlInv
<1>2. ControlInv'
  BY DEF ControlInv, GoalInv
<1>3. ProcessInv'
  BY DEF ProcessInv
<1>4. SettledInv'
  BY DEF SettledInv
<1>5. GoalInv'
  BY DEF ControlInv, ProcessInv, SettledInv, GoalInv, AtWork, Right, Converged
<1>6. Converged'
  <2>1. \A s \in Servers : todo[s] = "none" /\ ~AtWork(s)
    BY DEF AtWork
  <2>2. settled' => kind \in {"snapshot", "delta", "respawn"}
    BY DEF ControlInv
  <2> QED BY <2>1, <2>2 DEF ControlInv, GoalInv, Right, Converged
<1>7. PublishedAgrees'
  BY DEF ControlInv, PublishedAgrees
<1> QED BY <1>1, <1>2, <1>3, <1>4, <1>5, <1>6, <1>7

LEMMA StepSup == SupInv /\ [Next]_vars => SupInv'
<1> SUFFICES ASSUME SupInv, [Next]_vars PROVE SupInv'
  OBVIOUS
<1>1. CASE Frame
  BY <1>1, TakeSnapshotSup, TakeDeltaSup, TakeRespawnSup DEF Frame
<1>2. CASE TakeReset
  BY <1>2, TakeResetSup
<1>3. CASE Work
  BY <1>3, SkipSup, StartSup, RemoveSup, NextMovedSup, KillSup, ReapSup,
     SpawnOkSup, SpawnFailsSup, SendResultSup, PublishSup DEF Work
<1>4. CASE Fate
  BY <1>4, DieSup, NoticeSup DEF Fate
<1>5. CASE Connect
  BY <1>5, ConnectSup
<1>6. CASE Disconnect
  BY <1>6, DisconnectSup
<1>7. CASE UNCHANGED vars
  BY <1>7 DEF vars, supVars, processVars, resultVars, taskVars, sessionVars,
       SupInv, TypeOK, ControlInv, ProcessInv, SettledInv, GoalInv, AtWork,
       Right, Converged, PublishedAgrees
<1> QED BY <1>1, <1>2, <1>3, <1>4, <1>5, <1>6, <1>7 DEF Next

LEMMA AlwaysSup == Spec => []SupInv
BY InitSup, StepSup, PTL DEF Spec

-----------------------------------------------------------------------------
(* The theorems *)

\* The variables keep their types.
THEOREM SupervisorTypeCorrect == Spec => []TypeOK
BY AlwaysSup, PTL DEF SupInv

\* Between handlers, once a snapshot was applied, the children are those the
\* frames want, each with the spec wanted, but for servers whose failed spawn
\* was reported.
THEOREM AlwaysConverged == Spec => []Converged
BY AlwaysSup, PTL DEF SupInv

\* state.json then lists just these children.
THEOREM AlwaysPublished == Spec => []PublishedAgrees
BY AlwaysSup, PTL DEF SupInv

\* As long as the session goes on, a handler that lets go of a handle has
\* killed its process first.
THEOREM NothingIsForgotten == Spec => NothingForgotten
<1>1. SupInv /\ [Next]_vars =>
        [sess' # "down" => \A i \in Inc : Held(i) /\ proc'[i] = "running" => Held(i)']_vars
  <2> SUFFICES ASSUME SupInv, Next, sess' # "down",
                      NEW i \in Inc, Held(i), proc'[i] = "running"
               PROVE  Held(i)'
    BY DEF vars
  <2> USE DEF supVars, processVars, resultVars, taskVars, sessionVars,
              SupInv, TypeOK, Held
  <2>1. CASE Frame
    BY <2>1 DEF Frame, TakeSnapshot, TakeDelta, TakeRespawn, Begin
  <2>2. CASE TakeReset
    BY <2>2 DEF TakeReset, Begin, ControlInv
  <2>3. ASSUME NEW s \in Servers, Skip(s) \/ Start(s) PROVE Held(i)'
    BY <2>3 DEF Skip, Start, Turn, ControlInv
  <2>4. ASSUME NEW s \in Servers, Remove(s) PROVE Held(i)'
    BY <2>4 DEF Remove, Turn, ControlInv
  <2>5. ASSUME NEW j \in Inc, NextMoved(j) PROVE Held(i)'
    BY <2>5 DEF NextMoved, ControlInv
  <2>6. ASSUME NEW j \in Inc, SpawnOk(j) PROVE Held(i)'
    BY <2>6 DEF SpawnOk, ControlInv, GoalInv, AtWork
  <2>7. CASE Kill \/ Reap
    BY <2>7 DEF Kill, Reap, ControlInv
  <2>8. CASE SpawnFails \/ SendResult \/ Publish
    BY <2>8 DEF SpawnFails, SendResult, Publish, ControlInv
  <2>9. CASE Fate \/ Connect
    BY <2>9 DEF Fate, Die, Notice, Connect
  <2>10. CASE Disconnect
    BY <2>10 DEF Disconnect
  <2> QED BY <2>1, <2>2, <2>3, <2>4, <2>5, <2>6, <2>7, <2>8, <2>9, <2>10
          DEF Next, Work
<1> QED BY <1>1, AlwaysSup, PTL DEF Spec, NothingForgotten

\* What a handler has still to look at, and the steps it is from there.
Pending == {s \in Servers : todo[s] # "none"}
StepsLeft == [idle |-> 0, pick |-> 0, result |-> 1, spawn |-> 2, reap |-> 3,
              kill |-> 4]

\* A handler takes up no new work: every step of its own brings it nearer to
\* its end, and to the release of the mutex everybody else waits for - it has
\* fewer servers or fewer handles to look at, or fewer steps with the one it
\* is at (apply_snapshot, apply_delta, try_spawn, shutdown_children).
Advances ==
  /\ Pending' \subseteq Pending /\ moved' \subseteq moved
  /\ Pending' = Pending /\ moved' = moved => StepsLeft[step'] < StepsLeft[step]

HandlerAdvances ==
  [][~Idle /\ kind' = kind /\ taskVars' # taskVars => Advances]_vars

THEOREM HandlersAdvance == Spec => HandlerAdvances
<1>1. SupInv /\ [Next]_vars =>
        [~Idle /\ kind' = kind /\ taskVars' # taskVars => Advances]_vars
  <2> SUFFICES ASSUME SupInv, Next, ~Idle, kind' = kind, taskVars' # taskVars
               PROVE  Advances
    BY DEF vars
  <2>1. todo \in [Servers -> Ops]
    BY DEF SupInv, TypeOK
  <2>2. ASSUME NEW s \in Servers, Skip(s) \/ Start(s) \/ Remove(s)
        PROVE  Advances
    <3>1. todo[s] # "none" /\ todo' = [todo EXCEPT ![s] = "none"] /\ moved' = moved
      BY <2>2 DEF Skip, Start, Remove, Turn
    <3>2. s \in Pending /\ Pending' = Pending \ {s}
      BY <2>1, <3>1 DEF Pending
    <3> QED BY <3>1, <3>2 DEF Advances
  <2>3. ASSUME NEW i \in Inc, NextMoved(i) PROVE Advances
    BY <2>3 DEF NextMoved, Pending, Advances
  <2>4. CASE \/ \E i \in Inc : SpawnOk(i)
             \/ Kill \/ Reap \/ SpawnFails \/ SendResult
    <3>1. UNCHANGED <<todo, moved>>
      BY <2>4 DEF SpawnOk, Kill, Reap, SpawnFails, SendResult
    <3>2. StepsLeft[step'] < StepsLeft[step]
      BY <2>4 DEF SpawnOk, Kill, Reap, SpawnFails, SendResult, StepsLeft
    <3> QED BY <3>1, <3>2 DEF Pending, Advances
  <2>5. ~Publish
    BY DEF Publish
  <2>6. ~Frame /\ ~TakeReset /\ ~Connect
    BY DEF Frame, TakeSnapshot, TakeDelta, TakeRespawn, TakeReset, Begin, Connect
  <2>7. ~Fate
    BY DEF Fate, Die, Notice
  <2>8. ~Disconnect
    BY DEF Disconnect, DropHandler
  <2> QED BY <2>2, <2>3, <2>4, <2>5, <2>6, <2>7, <2>8 DEF Next, Work
<1> QED BY <1>1, AlwaysSup, PTL DEF Spec, HandlerAdvances

-----------------------------------------------------------------------------
(* The supervisor implements the reconciler *)

LEMMA InitReconciles == Init => R!Init
BY DEF Init, SupInit, R!Init, Running

\* Only a spawn changes what runs from nothing to something.
LEMMA StepReconciles == SupInv /\ [Next]_vars => [R!Next]_<<want, Running>>
<1> SUFFICES ASSUME SupInv, [Next]_vars PROVE [R!Next]_<<want, Running>>
  OBVIOUS
<1> USE DEF supVars, processVars, resultVars, taskVars, sessionVars,
            SupInv, TypeOK
<1>0. ASSUME UNCHANGED <<children, raw, want>> PROVE UNCHANGED <<want, Running>>
  BY <1>0 DEF Running
<1>1. ASSUME NEW d \in [Servers -> Spec0], TakeSnapshot(d)
      PROVE  R!NewGoal
  <2>1. UNCHANGED <<children, raw>> /\ want' \in [Servers -> Spec0]
    BY <1>1 DEF TakeSnapshot
  <2> QED BY <2>1 DEF R!NewGoal, R!States, Running
<1>2. ASSUME NEW c \in Changes, TakeDelta(c)
      PROVE  R!NewGoal
  <2>1. UNCHANGED <<children, raw>> /\ want' \in [Servers -> Spec0]
    BY <1>2, TakeDeltaSup DEF TakeDelta
  <2> QED BY <2>1 DEF R!NewGoal, R!States, Running
<1>3. CASE \E s \in Servers : TakeRespawn(s) \/ Skip(s) \/ Start(s)
  BY <1>0, <1>3 DEF TakeRespawn, Skip, Start
<1>4. ASSUME TakeReset PROVE R!Stop
  <2>1. want' = want /\ Running' = [s \in Servers |-> IF s \in Servers THEN None ELSE Running[s]]
    BY <1>4 DEF TakeReset, Running
  <2> QED BY <2>1 DEF R!Stop
<1>5. ASSUME NEW s \in Servers, Remove(s) PROVE R!Stop
  <2>1. want' = want /\ raw' = raw /\ children' = [children EXCEPT ![s] = None]
    BY <1>5 DEF Remove
  <2>2. Running' = [t \in Servers |-> IF t \in {s} THEN None ELSE Running[t]]
    BY <2>1 DEF Running
  <2>3. {s} \in SUBSET Servers
    OBVIOUS
  <2> QED BY <2>1, <2>2, <2>3, Zenon DEF R!Stop
<1>6. CASE \E i \in Inc : NextMoved(i) \/ Die(i) \/ Notice(i)
  BY <1>0, <1>6 DEF NextMoved, Die, Notice
<1>7. ASSUME NEW i \in Inc, SpawnOk(i) PROVE R!Start(cur.srv) /\ cur.srv \in Servers
  <2>1. /\ cur.srv \in Servers
        /\ kind \in {"snapshot", "delta", "respawn"}
        /\ children[cur.srv] = None
        /\ cur.spec = want[cur.srv] /\ want[cur.srv] # None
    BY <1>7 DEF SpawnOk, ControlInv, GoalInv, AtWork
  <2>2. want' = want /\ raw' = [raw EXCEPT ![i] = cur.spec]
        /\ children' = [children EXCEPT ![cur.srv] = i]
    BY <1>7 DEF SpawnOk
  <2>3. \A t \in Servers : children[t] # i
    BY <1>7 DEF SpawnOk, ProcessInv
  <2>4. Running' = [Running EXCEPT ![cur.srv] = want[cur.srv]]
    BY <2>1, <2>2, <2>3 DEF Running
  <2> QED BY <2>1, <2>2, <2>4 DEF R!Start, Running
<1>8. CASE Kill \/ Reap \/ SpawnFails \/ SendResult \/ Publish \/ Connect
             \/ Disconnect \/ UNCHANGED vars
  BY <1>0, <1>8 DEF Kill, Reap, SpawnFails, SendResult, Publish, Connect,
                    Disconnect, DropHandler, vars
<1> QED BY <1>1, <1>2, <1>3, <1>4, <1>5, <1>6, <1>7, <1>8
        DEF Next, Frame, Work, Fate, R!Next

\* Every step of the supervisor, whatever drops its handlers, is a step of
\* the reconciler: nothing is started but as the frames want it at that
\* moment, and only where nothing runs.
THEOREM SupervisorReconciles == Spec => Reconciles
BY InitReconciles, StepReconciles, AlwaysSup, PTL DEF Spec, Reconciles, R!Spec
-----------------------------------------------------------------------------
(* Part 3: Daemon.  No session has a child of another account, a daemon    *)
(* that waits for a login keeps none, and both components keep what they   *)
(* promise on their own.                                                   *)
(*                                                                         *)
(* The invariant adds to those of the two components how they are in step  *)
(* (LinkInv): which phases have a session, a handler or a reset, and that  *)
(* from the first step of a reset to its end the map is empty.             *)

LinkInv ==
  /\ sess # "down" <=> main = "live"
  /\ sess = "ending" => watch = "reset"
  /\ kind \in {"snapshot", "delta", "respawn"} => sess = "live"
  /\ kind = "reset" => sess = "ending" \/ took
  /\ took => main \in Resetting /\ children = Empty
  /\ took /\ kind = "none" => published = Empty

\* The children are those of the configuration in use, also while the next
\* one is being adopted.
OwnerInv ==
  /\ main \in {"boot", "awaiting"} => children = Empty
  /\ main # "exited" =>
       \A s \in Servers : children[s] # None =>
         Identity[owner[children[s]]] = Identity[conf]

DaemonInv == SupInv /\ LinkInv /\ OwnerInv /\ LoggedOutKeepsNone

USE DEF Resetting, daemonVars, vars, supVars, processVars, resultVars, taskVars,
        sessionVars, runVars, loopVars

-----------------------------------------------------------------------------
(* The run loop within the daemon *)

LEMMA DaemonStepRuns == [DaemonNext]_daemonVars => [RunNext]_runVars
<1> SUFFICES ASSUME [DaemonNext]_daemonVars PROVE [RunNext]_runVars
  OBVIOUS
<1>1. CASE HandleFrame \/ HandlerWorks \/ ChildrenDie \/ ResetBegins
  BY <1>1 DEF HandleFrame, HandlerWorks, ChildrenDie, ResetBegins
<1>2. CASE LoopAlone
  BY <1>2, Zenon DEF LoopAlone, RunNext, Session, Watching, Between
<1>3. CASE SessionBegins \/ SessionOver
  BY <1>3, Zenon DEF SessionBegins, SessionOver, RunNext, Session, Watching
<1>4. CASE ResetEnds \/ SignalDropsReset
  BY <1>4, Zenon DEF ResetEnds, SignalDropsReset, RunNext, Between
<1>5. CASE UNCHANGED daemonVars
  BY <1>5
<1> QED BY <1>1, <1>2, <1>3, <1>4, <1>5 DEF DaemonNext

\* The daemon's run loop is the one of RunLoop, whatever the supervisor
\* makes it wait for: what holds of that, holds of this.
THEOREM DaemonRuns == DaemonSpec => RunSpec
<1>1. DaemonInit => RunInit
  BY DEF DaemonInit
<1> QED BY <1>1, DaemonStepRuns, PTL DEF DaemonSpec, RunSpec

-----------------------------------------------------------------------------
(* The supervisor within the daemon *)

LEMMA InitDaemon == DaemonInit => DaemonInv
<1> SUFFICES ASSUME DaemonInit PROVE DaemonInv
  OBVIOUS
<1>1. SupInv
  BY InitSup DEF DaemonInit
<1>2. LinkInv /\ OwnerInv /\ LoggedOutKeepsNone
  BY DEF DaemonInit, Init, SupInit, RunInit, LinkInv, OwnerInv, LoggedOutKeepsNone
<1> QED BY <1>1, <1>2 DEF DaemonInv

\* A reset dropped by the signal leaves the supervisor in order.
LEMMA DropSup ==
  ASSUME SupInv, sess = "down", DropHandler, UNCHANGED sessionVars
  PROVE  SupInv'
<1> USE DEF DropHandler, SupInv, TypeOK
<1>1. TypeOK'
  OBVIOUS
<1>2. ControlInv' /\ ProcessInv' /\ SettledInv'
  BY DEF ControlInv, ProcessInv, SettledInv
<1>3. GoalInv' /\ Converged' /\ PublishedAgrees'
  BY DEF ControlInv, GoalInv, Converged, PublishedAgrees
<1> QED BY <1>1, <1>2, <1>3

LEMMA HandleFrameDaemon ==
  ASSUME DaemonInv, HandleFrame PROVE DaemonInv'
<1>1. SupInv'
  BY StepSup DEF HandleFrame, Next, DaemonInv
<1>2. LinkInv' /\ OwnerInv' /\ LoggedOutKeepsNone'
  BY DEF HandleFrame, Frame, TakeSnapshot, TakeDelta, TakeRespawn, Begin,
         DaemonInv, LinkInv, OwnerInv, LoggedOutKeepsNone
<1> QED BY <1>1, <1>2 DEF DaemonInv

LEMMA HandlerWorksDaemon ==
  ASSUME DaemonInv, HandlerWorks PROVE DaemonInv'
<1> USE DEF HandlerWorks, DaemonInv
<1>1. SupInv'
  BY StepSup DEF Next
<1>2. kind # "none" /\ main # "wait" /\ main \notin {"boot", "awaiting"}
  <2>1. step # "idle"
    BY DEF Work, Skip, Start, Remove, Turn, NextMoved, SpawnOk, Kill, Reap,
           SpawnFails, SendResult, Publish
  <2>2. kind \in Kinds \ {"none"}
    BY <2>1 DEF SupInv, TypeOK, ControlInv
  <2> QED BY <2>2 DEF LinkInv
<1>3. ASSUME NEW i \in Inc, SpawnOk(i)
      PROVE  LinkInv' /\ OwnerInv'
  <2>1. kind \in {"snapshot", "delta", "respawn"} /\ main = "live" /\ ~took
    BY <1>2, <1>3 DEF SpawnOk, SupInv, TypeOK, ControlInv, LinkInv
  <2>2. LinkInv'
    BY <1>3, <2>1 DEF SpawnOk, LinkInv
  <2>3. ASSUME NEW s \in Servers, children'[s] # None
        PROVE  Identity[owner'[children'[s]]] = Identity[conf]
    <3>1. CASE s = cur.srv
      BY <1>3, <2>3, <3>1 DEF SpawnOk, SupInv, TypeOK
    <3>2. CASE s # cur.srv
      BY <1>3, <2>1, <2>3, <3>2 DEF SpawnOk, SupInv, TypeOK, ProcessInv, OwnerInv
    <3> QED BY <3>1, <3>2
  <2> QED BY <2>1, <2>2, <2>3 DEF OwnerInv
<1>4. ASSUME ~\E i \in Inc : SpawnOk(i)
      PROVE  /\ LinkInv'
             /\ \A s \in Servers : children'[s] \in {children[s], None}
             /\ \A s \in Servers : children[s] # None =>
                  owner'[children[s]] = owner[children[s]]
  <2>1. \A s \in Servers : children[s] # None => proc[children[s]] # "none"
                                               /\ children[s] \in Inc
    BY DEF SupInv, TypeOK, ProcessInv
  <2>2. \A s \in Servers : children[s] # None =>
          owner'[children[s]] = owner[children[s]]
    BY <2>1
  <2>3. CASE \E s \in Servers : Skip(s) \/ Start(s)
    BY <2>2, <2>3 DEF Skip, Start, Turn, LinkInv
  <2>4. CASE \E s \in Servers : Remove(s)
    BY <2>2, <2>4 DEF Remove, Turn, LinkInv, SupInv, TypeOK
  <2>5. CASE \E i \in Inc : NextMoved(i)
    BY <2>2, <2>5 DEF NextMoved, LinkInv
  <2>6. CASE Kill \/ Reap \/ SpawnFails \/ SendResult
    BY <2>2, <2>6 DEF Kill, Reap, SpawnFails, SendResult, LinkInv
  <2>7. CASE Publish
    BY <2>2, <2>7 DEF Publish, LinkInv
  <2> QED BY <1>4, <2>3, <2>4, <2>5, <2>6, <2>7 DEF Work
<1>5. LinkInv' /\ OwnerInv'
  BY <1>2, <1>3, <1>4 DEF OwnerInv
<1>6. LoggedOutKeepsNone'
  BY <1>2 DEF LoggedOutKeepsNone
<1> QED BY <1>1, <1>5, <1>6

LEMMA ChildrenDieDaemon ==
  ASSUME DaemonInv, ChildrenDie PROVE DaemonInv'
<1>1. SupInv'
  BY StepSup DEF ChildrenDie, Next, DaemonInv
<1>2. LinkInv' /\ OwnerInv' /\ LoggedOutKeepsNone'
  BY DEF ChildrenDie, Fate, Die, Notice,
         DaemonInv, LinkInv, OwnerInv, LoggedOutKeepsNone
<1> QED BY <1>1, <1>2 DEF DaemonInv

\* Only a configuration of the same identity is adopted without a reset.
LEMMA LoopAloneDaemon ==
  ASSUME DaemonInv, RunInv, LoopAlone PROVE DaemonInv'
<1> USE DEF DaemonInv
<1>1. SupInv'
  BY StepSup DEF LoopAlone
<1> USE DEF LoopAlone, LinkInv, OwnerInv, LoggedOutKeepsNone
<1>2. CASE WriteConfig
  BY <1>1, <1>2 DEF WriteConfig
<1>3. CASE Boot \/ FirstLogin
  BY <1>1, <1>3 DEF Boot, FirstLogin, FirstUse
<1>4. CASE ConnectFails \/ WatchResets
  BY <1>1, <1>4 DEF ConnectFails, WatchResets, End
<1>5. CASE Judge \/ Found \/ Lost \/ Deadline \/ Switch \/ OpenFails
  BY <1>1, <1>5 DEF Judge, Found, Lost, Deadline, Switch, OpenFails
<1>6. CASE Keep
  BY <1>1, <1>6 DEF Keep, Proceed
<1>7. CASE main # "live" /\ main # "drop" /\ Signal
  BY <1>1, <1>7 DEF Signal
<1> QED BY <1>2, <1>3, <1>4, <1>5, <1>6, <1>7

LEMMA SessionDaemon ==
  ASSUME DaemonInv, SessionBegins \/ SessionOver PROVE DaemonInv'
<1> USE DEF DaemonInv
<1>1. SupInv'
  BY StepSup DEF SessionBegins, SessionOver, Next
<1> USE DEF LinkInv, OwnerInv, LoggedOutKeepsNone
<1>2. CASE SessionBegins
  BY <1>1, <1>2 DEF SessionBegins, Upgraded, Connect
<1>3. CASE SessionOver
  BY <1>1, <1>3 DEF SessionOver, SessionEnds, WatchEnds, WatchDone, Signal, End,
                    Disconnect, DropHandler
<1> QED BY <1>2, <1>3

LEMMA ResetDaemon ==
  ASSUME DaemonInv, ResetBegins \/ ResetEnds \/ SignalDropsReset
  PROVE  DaemonInv'
<1> USE DEF DaemonInv
<1>1. SupInv'
  <2>1. CASE ResetBegins \/ ResetEnds
    BY <2>1, StepSup DEF ResetBegins, ResetEnds, Next
  <2>2. CASE SignalDropsReset
    BY <2>2, DropSup DEF SignalDropsReset, LinkInv
  <2> QED BY <2>1, <2>2
<1> USE DEF LinkInv, OwnerInv, LoggedOutKeepsNone
<1>2. CASE ResetBegins
  BY <1>1, <1>2 DEF ResetBegins, TakeReset, Begin, SupInv, TypeOK
<1>3. CASE ResetEnds
  BY <1>1, <1>3 DEF ResetEnds, RejectDone, DropDone, SwitchDone, StopDone, Proceed
<1>4. CASE SignalDropsReset
  BY <1>1, <1>4 DEF SignalDropsReset, Signal, DropHandler
<1> QED BY <1>2, <1>3, <1>4

LEMMA AlwaysDaemon == DaemonSpec => []DaemonInv
<1>1. DaemonInv /\ RunInv /\ [DaemonNext]_daemonVars => DaemonInv'
  <2> SUFFICES ASSUME DaemonInv, RunInv, [DaemonNext]_daemonVars PROVE DaemonInv'
    OBVIOUS
  <2>1. CASE UNCHANGED daemonVars
    <3>1. SupInv'
      BY <2>1, StepSup DEF DaemonInv
    <3> QED BY <2>1, <3>1 DEF DaemonInv, LinkInv, OwnerInv, LoggedOutKeepsNone
  <2> QED BY <2>1, HandleFrameDaemon, HandlerWorksDaemon, ChildrenDieDaemon,
             LoopAloneDaemon, SessionDaemon, ResetDaemon DEF DaemonNext
<1> QED BY <1>1, InitDaemon, DaemonRuns, RunInvariant, PTL DEF DaemonSpec

-----------------------------------------------------------------------------
(* The theorems *)

\* No session has a child that was spawned for another identity, through
\* logins, logouts, rotations, rejections and dropped resets.
THEOREM AccountsAreIsolated == DaemonSpec => []AccountIsolation
<1>1. DaemonInv => AccountIsolation
  BY DEF DaemonInv, OwnerInv, AccountIsolation
<1> QED BY <1>1, AlwaysDaemon, PTL

\* While a new login or a new binary is asked for, there is no child and
\* state.json lists none.
THEOREM LoggedOutIsEmpty == DaemonSpec => []LoggedOutKeepsNone
<1>1. DaemonInv => LoggedOutKeepsNone
  BY DEF DaemonInv
<1> QED BY <1>1, AlwaysDaemon, PTL

\* The map converges, and state.json agrees with it, under every drop and
\* reset the run loop brings about.
THEOREM DaemonConverges == DaemonSpec => [](Converged /\ PublishedAgrees)
<1>1. DaemonInv => Converged /\ PublishedAgrees
  BY DEF DaemonInv, SupInv
<1> QED BY <1>1, AlwaysDaemon, PTL

\* Every step of the daemon is one of the reconciler, also where the signal
\* drops a reset.
THEOREM DaemonReconciles == DaemonSpec => Reconciles
<1>1. DaemonInv /\ [DaemonNext]_daemonVars => [R!Next]_<<want, Running>>
  <2> SUFFICES ASSUME DaemonInv, [DaemonNext]_daemonVars
               PROVE  [R!Next]_<<want, Running>>
    OBVIOUS
  <2>1. CASE SignalDropsReset
    <3>1. UNCHANGED <<want, children, raw>>
      BY <2>1 DEF SignalDropsReset, DropHandler
    <3> QED BY <3>1 DEF Running
  <2>2. CASE ~SignalDropsReset
    <3>1. [Next]_vars
      BY <2>2 DEF DaemonNext, HandleFrame, HandlerWorks, ChildrenDie, LoopAlone,
                  SessionBegins, SessionOver, ResetBegins, ResetEnds, Next
    <3> HIDE DEF vars
    <3> QED BY <3>1, StepReconciles DEF DaemonInv
  <2> QED BY <2>1, <2>2
<1>2. DaemonInit => R!Init
  BY InitReconciles DEF DaemonInit
<1> QED BY <1>1, <1>2, AlwaysDaemon, PTL DEF DaemonSpec, Reconciles, R!Spec
=============================================================================
