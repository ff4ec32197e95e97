----------------------------- MODULE Supervisor -----------------------------
(***************************************************************************)
(* The supervisor of daemon.rs: it keeps one child per desired server and  *)
(* reconciles the map with the frames of the backend, one frame at a time  *)
(* under the supervisor mutex.                                             *)
(*                                                                         *)
(* A handler is cut at its await points, because there the select of       *)
(* run_one_session may drop it: the handler then simply stops, and the     *)
(* handles it had moved out of the map are dropped where they are.         *)
(* shutdown_children runs under the configuration watcher, inside the same *)
(* select, or under the run loop between sessions, where nothing drops it. *)
(*                                                                         *)
(* The reports of a dying child are the subject of ChildServer; here a     *)
(* process dies and some time later its exited flag is set.  Local values  *)
(* (env_store, enrich) are the subject of EnvStore: they decide with what  *)
(* a child is started, never whether.                                      *)
(*                                                                         *)
(* The backend is external.  Assumed of it: the first frame it sends in a  *)
(* session is server_hello, and a delta names a server once.               *)
(***************************************************************************)
EXTENDS Naturals

CONSTANTS Servers,  \* server ids
          Specs,    \* the enabled DesiredServer values the backend may send
          Inc,      \* incarnations that can ever be spawned
          None      \* no server, no spec (absent or disabled), no incarnation

ASSUME SupervisorAssumption ==
  /\ None \notin Servers \cup Specs \cup Inc
  /\ Specs \cap {"keep", "disable", "remove"} = {}

VARIABLES
  children,  \* Supervisor.children
  raw,       \* raw[i]: ChildServer.desired_raw
  proc,      \* proc[i]: the OS process
  exited,    \* exited[i]: ChildServer::has_exited
  want,      \* what the frames taken so far add up to
  failed,    \* failed[s]: the last try_spawn of s failed, and was reported
  settled,   \* history: a snapshot was applied, and since then no handler
             \* was dropped half-way and the children were not shut down
  published, \* published[s]: the incarnation state.json lists for s
  kind,      \* the handler that holds the mutex
  todo,      \* todo[s]: what it has still to do about s
  moved,     \* handles shutdown_children moved out and has not taken up
  cur,       \* the server it is at: handle being shut down, spec to spawn
  step,      \* its next step
  sess,      \* "live": a session is in its select; "ending": its watcher has
             \* begun to shut the children down and will end it
  greeted    \* the server_hello of this session has been taken

processVars == <<raw, proc, exited>>
resultVars  == <<want, failed, settled, published>>
taskVars    == <<kind, todo, moved, cur, step>>
sessionVars == <<sess, greeted>>
supVars     == <<children, processVars, resultVars, taskVars>>
vars        == <<supVars, sessionVars>>

Kinds == {"none", "snapshot", "delta", "respawn", "reset"}
Ops   == {"none", "drop", "ensure", "remove", "respawn"}
Steps == {"idle", "pick", "kill", "reap", "spawn", "result"}
Spec0 == Specs \cup {None}
Inc0  == Inc \cup {None}
Cur   == [srv : Servers \cup {None}, inc : Inc0, spec : Spec0]

NoWork == [s \in Servers |-> "none"]
Empty  == [s \in Servers |-> None]
NoCur  == [srv |-> None, inc |-> None, spec |-> None]

TypeOK ==
  /\ children \in [Servers -> Inc0]
  /\ raw \in [Inc -> Spec0]
  /\ proc \in [Inc -> {"none", "running", "dead"}]
  /\ exited \in [Inc -> BOOLEAN]
  /\ want \in [Servers -> Spec0]
  /\ failed \in [Servers -> BOOLEAN]
  /\ settled \in BOOLEAN
  /\ published \in [Servers -> Inc0]
  /\ kind \in Kinds
  /\ todo \in [Servers -> Ops]
  /\ moved \in SUBSET Inc
  /\ cur \in Cur
  /\ step \in Steps
  /\ sess \in {"down", "live", "ending"}
  /\ greeted \in BOOLEAN

SupInit ==
  /\ children = Empty
  /\ raw = [i \in Inc |-> None]
  /\ proc = [i \in Inc |-> "none"]
  /\ exited = [i \in Inc |-> FALSE]
  /\ want = Empty
  /\ failed = [s \in Servers |-> FALSE]
  /\ settled = FALSE
  /\ published = Empty
  /\ kind = "none"
  /\ todo = NoWork
  /\ moved = {}
  /\ cur = NoCur
  /\ step = "idle"

Init == SupInit /\ sess = "down" /\ greeted = FALSE

Idle == kind = "none"

-----------------------------------------------------------------------------
(* The environment of the handlers *)

\* The process of i exits, or is an orphan that has at last noticed that its
\* stdin was closed.
Die(i) ==
  /\ proc[i] = "running"
  /\ proc' = [proc EXCEPT ![i] = "dead"]
  /\ UNCHANGED <<children, raw, exited, resultVars, taskVars, sessionVars>>

\* A pump has noticed (ChildServer).
Notice(i) ==
  /\ proc[i] = "dead"
  /\ ~exited[i]
  /\ exited' = [exited EXCEPT ![i] = TRUE]
  /\ UNCHANGED <<children, raw, proc, resultVars, taskVars, sessionVars>>

Connect ==
  /\ sess = "down"
  /\ Idle
  /\ sess' = "live"
  /\ greeted' = FALSE
  /\ UNCHANGED supVars

\* What is left when the handler is dropped at an await: the mutex is free,
\* the map is as the handler left it, nothing is published.  The awaits are
\* kill and wait in shutdown(), and the send of a result; a poll runs through
\* the other steps.  (The child lock before the kill is contended only for
\* the instant of a pump's try_wait, and is no point of its own here.)
DropHandler ==
  /\ step \in {"idle", "reap", "result"}
  /\ kind' = "none"
  /\ todo' = NoWork
  /\ moved' = {}
  /\ cur' = NoCur
  /\ step' = "idle"
  /\ settled' = (settled /\ Idle)
  /\ UNCHANGED <<children, processVars, want, failed, published>>

\* Another branch of the select is ready first.
Disconnect ==
  /\ sess # "down"
  /\ sess' = "down"
  /\ greeted' = FALSE
  /\ DropHandler

-----------------------------------------------------------------------------
(* A frame is taken from the incoming queue and its handler begins *)

Begin(k, ops) ==
  /\ Idle
  /\ kind' = k
  /\ todo' = ops
  /\ step' = "pick"

\* apply_snapshot: children not wanted any more go first.
TakeSnapshot(desired) ==
  /\ sess = "live"
  /\ greeted' = TRUE
  /\ want' = desired
  /\ Begin("snapshot", [s \in Servers |->
       IF desired[s] # None THEN "ensure"
       ELSE IF children[s] # None THEN "drop" ELSE "none"])
  /\ UNCHANGED <<sess, children, processVars, failed, settled, published,
                 moved, cur>>

\* apply_delta: change[s] is a spec (added or updated), "disable" (the same,
\* with enabled = false), "remove", or "keep" when s is not named.
TakeDelta(change) ==
  /\ sess = "live" /\ greeted
  /\ \E s \in Servers : change[s] # "keep"
  /\ want' = [s \in Servers |-> CASE change[s] = "keep" -> want[s]
                                  [] change[s] \in Specs -> change[s]
                                  [] OTHER -> None]
  /\ Begin("delta", [s \in Servers |-> CASE change[s] = "keep" -> "none"
                                         [] change[s] = "disable" -> "drop"
                                         [] change[s] = "remove" -> "remove"
                                         [] OTHER -> "ensure"])
  /\ UNCHANGED <<sessionVars, children, processVars, failed, settled,
                 published, moved, cur>>

Changes == [Servers -> Specs \cup {"keep", "disable", "remove"}]

\* apply_env_update and apply_spec_update once the values are stored, and
\* restart_unresponsive: they act on a child that is in the map.
TakeRespawn(s) ==
  /\ sess = "live" /\ greeted
  /\ children[s] # None
  /\ Begin("respawn", [NoWork EXCEPT ![s] = "respawn"])
  /\ UNCHANGED <<sessionVars, children, processVars, resultVars, moved, cur>>

\* shutdown_children: the map is emptied before the first child is stopped.
\* Under the watcher it is the last thing the session does.
TakeReset ==
  /\ sess # "ending"
  /\ sess' = IF sess = "live" THEN "ending" ELSE sess
  /\ Begin("reset", NoWork)
  /\ children' = Empty
  /\ moved' = {children[s] : s \in Servers} \ {None}
  /\ settled' = FALSE
  /\ UNCHANGED <<greeted, processVars, want, failed, published, cur>>

-----------------------------------------------------------------------------
(* The handler goes on *)

\* apply_snapshot drops before it starts; apply_delta removes last.  Within
\* these phases the order is that of a HashMap or of the frame.
Turn(s) ==
  /\ step = "pick"
  /\ todo[s] # "none"
  /\ kind = "snapshot" /\ todo[s] = "ensure" =>
       \A t \in Servers : todo[t] # "drop"
  /\ kind = "delta" /\ todo[s] = "remove" =>
       \A t \in Servers : todo[t] \in {"none", "remove"}

\* Bug: any running child will do.
HealthyAnySpec(s) == children[s] # None /\ ~exited[children[s]]

\* A healthy child with the identical raw spec is left alone.
Healthy(s) ==
  /\ children[s] # None
  /\ raw[children[s]] = want[s]
  /\ ~exited[children[s]]

\* Nothing to stop and nothing to start, or a child that may stay.
Skip(s) ==
  /\ Turn(s)
  /\ IF todo[s] = "ensure" THEN Healthy(s) ELSE children[s] = None
  /\ todo' = [todo EXCEPT ![s] = "none"]
  /\ UNCHANGED <<children, processVars, resultVars, kind, moved, cur, step,
                 sessionVars>>

\* Bug: the new child is inserted over the old one.
StartOver(s) ==
  /\ Turn(s)
  /\ todo[s] = "ensure"
  /\ ~Healthy(s)
  /\ todo' = [todo EXCEPT ![s] = "none"]
  /\ cur' = [srv |-> s, inc |-> None, spec |-> want[s]]
  /\ step' = "spawn"
  /\ UNCHANGED <<children, processVars, resultVars, kind, moved, sessionVars>>

\* try_spawn without a predecessor.
Start(s) ==
  /\ Turn(s)
  /\ todo[s] = "ensure"
  /\ children[s] = None
  /\ todo' = [todo EXCEPT ![s] = "none"]
  /\ cur' = [srv |-> s, inc |-> None, spec |-> want[s]]
  /\ step' = "spawn"
  /\ UNCHANGED <<children, processVars, resultVars, kind, moved, sessionVars>>

\* Bug: a server that is no longer wanted is started again.
RemoveRespawns(s) ==
  /\ Turn(s)
  /\ children[s] # None
  /\ todo[s] = "ensure" => ~Healthy(s)
  /\ todo' = [todo EXCEPT ![s] = "none"]
  /\ children' = [children EXCEPT ![s] = None]
  /\ cur' = [srv |-> s, inc |-> children[s],
             spec |-> IF todo[s] = "ensure" THEN want[s] ELSE raw[children[s]]]
  /\ step' = "kill"
  /\ UNCHANGED <<processVars, resultVars, kind, moved, sessionVars>>

\* children.remove(id), then shutdown().
Remove(s) ==
  /\ Turn(s)
  /\ children[s] # None
  /\ todo[s] = "ensure" => ~Healthy(s)
  /\ todo' = [todo EXCEPT ![s] = "none"]
  /\ children' = [children EXCEPT ![s] = None]
  /\ cur' = [srv |-> s, inc |-> children[s],
             spec |-> CASE todo[s] = "ensure" -> want[s]
                        [] todo[s] = "respawn" -> raw[children[s]]
                        [] OTHER -> None]
  /\ step' = "kill"
  /\ UNCHANGED <<processVars, resultVars, kind, moved, sessionVars>>

\* shutdown_children takes up the next of the handles it moved out.
NextMoved(i) ==
  /\ step = "pick"
  /\ i \in moved
  /\ moved' = moved \ {i}
  /\ cur' = [NoCur EXCEPT !.inc = i]
  /\ step' = "kill"
  /\ UNCHANGED <<children, processVars, resultVars, kind, todo, sessionVars>>

\* ChildServer::shutdown kills the process group ...
Kill ==
  /\ step = "kill"
  /\ proc' = [proc EXCEPT ![cur.inc] = "dead"]
  /\ step' = "reap"
  /\ UNCHANGED <<children, raw, exited, resultVars, kind, todo, moved, cur,
                 sessionVars>>

\* ... and waits for it.
Reap ==
  /\ step = "reap"
  /\ step' = IF cur.spec = None THEN "pick" ELSE "spawn"
  /\ cur' = IF cur.spec = None THEN NoCur ELSE [cur EXCEPT !.inc = None]
  /\ UNCHANGED <<children, processVars, resultVars, kind, todo, moved,
                 sessionVars>>

\* try_spawn succeeds with a fresh incarnation.
SpawnOk(i) ==
  /\ step = "spawn"
  /\ proc[i] = "none"
  /\ proc' = [proc EXCEPT ![i] = "running"]
  /\ raw' = [raw EXCEPT ![i] = cur.spec]
  /\ children' = [children EXCEPT ![cur.srv] = i]
  /\ failed' = [failed EXCEPT ![cur.srv] = FALSE]
  /\ step' = "result"
  /\ UNCHANGED <<exited, want, settled, published, kind, todo, moved, cur,
                 sessionVars>>

\* Bug: a failed spawn leaves its spec in the map.
SpawnFailsInMap ==
  /\ step = "spawn"
  /\ failed' = [failed EXCEPT ![cur.srv] = TRUE]
  /\ children' = [children EXCEPT ![cur.srv] = cur.spec]
  /\ step' = "result"
  /\ UNCHANGED <<processVars, want, settled, published, kind, todo, moved,
                 cur, sessionVars>>

\* try_spawn fails; the raw spec is forgotten.
SpawnFails ==
  /\ step = "spawn"
  /\ failed' = [failed EXCEPT ![cur.srv] = TRUE]
  /\ step' = "result"
  /\ UNCHANGED <<children, processVars, want, settled, published, kind, todo,
                 moved, cur, sessionVars>>

\* The ServerSpawnResult (and the spawn_failed error) is queued.
SendResult ==
  /\ step = "result"
  /\ step' = "pick"
  /\ cur' = NoCur
  /\ UNCHANGED <<children, processVars, resultVars, kind, todo, moved,
                 sessionVars>>

\* Bug: only a snapshot is published.
PublishSnapshot ==
  /\ step = "pick"
  /\ todo = NoWork
  /\ moved = {}
  /\ published' = IF kind = "snapshot" THEN children ELSE published
  /\ settled' = (settled \/ kind = "snapshot")
  /\ kind' = "none"
  /\ step' = "idle"
  /\ UNCHANGED <<children, processVars, want, failed, todo, moved, cur,
                 sessionVars>>

\* publish_state, and the mutex is released.
Publish ==
  /\ step = "pick"
  /\ todo = NoWork
  /\ moved = {}
  /\ published' = children
  /\ settled' = (settled \/ kind = "snapshot")
  /\ kind' = "none"
  /\ step' = "idle"
  /\ UNCHANGED <<children, processVars, want, failed, todo, moved, cur,
                 sessionVars>>

-----------------------------------------------------------------------------
Frame ==
  \/ \E d \in [Servers -> Spec0] : TakeSnapshot(d)
  \/ \E c \in Changes : TakeDelta(c)
  \/ \E s \in Servers : TakeRespawn(s)

Work ==
  \/ \E s \in Servers : Skip(s) \/ Start(s) \/ Remove(s)
  \/ \E i \in Inc : NextMoved(i) \/ SpawnOk(i)
  \/ Kill \/ Reap \/ SpawnFails \/ SendResult \/ Publish

Fate == \E i \in Inc : Die(i) \/ Notice(i)

Next == Frame \/ TakeReset \/ Work \/ Fate \/ Connect \/ Disconnect

Spec == Init /\ [][Next]_vars

-----------------------------------------------------------------------------
(* Properties *)

\* Between handlers the map is what the frames add up to: nothing runs that
\* is not wanted, every child has the raw spec wanted for it, and a wanted
\* server without a child is one whose failed spawn was reported.  (After a
\* dropped handler or a reset this waits for the next snapshot.)
Converged ==
  Idle /\ settled =>
    \A s \in Servers :
      /\ children[s] # None => raw[children[s]] = want[s]
      /\ want[s] # None /\ children[s] = None => failed[s]

\* state.json agrees with the map whenever no handler is at work and none
\* was dropped.
PublishedAgrees ==
  Idle /\ settled => published = children

\* A handle leaves the supervisor alive only with a session that ended on
\* it: no handler of its own accord forgets a running process.
Held(i) == i \in moved \/ i = cur.inc \/ \E s \in Servers : children[s] = i

NothingForgotten ==
  [][sess' # "down" => \A i \in Inc : Held(i) /\ proc'[i] = "running" => Held(i)']_vars

-----------------------------------------------------------------------------
(* What the handlers implement, whatever drops them: Reconciler. *)

Running == [s \in Servers |-> IF children[s] = None THEN None
                             ELSE raw[children[s]]]

R == INSTANCE Reconciler WITH goal <- want, running <- Running

\* Every step of the supervisor is a step of the abstract reconciler: a child
\* is started only as the frames want it and only after the old one left.
Reconciles == R!Spec
=============================================================================
