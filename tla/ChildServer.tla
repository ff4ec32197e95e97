----------------------------- MODULE ChildServer -----------------------------
(***************************************************************************)
(* The life and the obituary of the child processes of ONE server id.      *)
(*                                                                         *)
(* Each spawn of the server is an incarnation.  An incarnation has an OS   *)
(* process and three tasks that can find out that it is gone: the stdin    *)
(* pump, the stdout pump and, through take_terminal_error, the drain loop  *)
(* of the session.  They race for one terminal tunnel_error, and the error *)
(* travels through the OutgoingHandle, which sessions wire and unwire      *)
(* underneath them while the supervisor replaces the incarnation.          *)
(*                                                                         *)
(* Steps are cut where another thread can interleave: at the await points  *)
(* of the tasks, and between the atomic operations of take_terminal_error  *)
(* (proc.rs), because the pumps run on other worker threads.               *)
(*                                                                         *)
(* Left out: the text of the error, the stderr tail and the wait for it    *)
(* (a delay), MCP payloads, and every server but one - the servers share   *)
(* nothing in this part of the code but the handle.                        *)
(***************************************************************************)
EXTENDS Naturals

CONSTANTS Inc,      \* incarnations of the server that can ever be spawned
          NoInc     \* "no incarnation"

ASSUME IncAssumption == NoInc \notin Inc

VARIABLES
  stage,     \* stage[i]: where the ChildServer handle of i is
  proc,      \* proc[i]: the OS process of i
  pc,        \* pc[i][r]: what reporter r of i does next
  exited,    \* exited[i]: ChildDiagnostics.exited
  reported,  \* reported[i]: ChildDiagnostics.reported
  claimed,   \* claimed[i]: history - reporters that won the terminal error
  broker,    \* TRUE iff OutgoingHandle.inner holds the sender of a session
  sess,      \* progress of run_one_session
  announced, \* currently_running of the hello being built
  present,   \* incarnations this session announced or spawned
  pending,   \* incarnation whose ServerSpawnResult is not queued yet
  told,      \* incarnations whose server_offline this session queued
  view       \* the incarnation the backend believes in once it has read
             \* everything queued so far, or NoInc

vars == <<stage, proc, pc, exited, reported, claimed, broker, sess,
          announced, present, pending, told, view>>

childVars   == <<stage, proc>>
reportVars  == <<pc, exited, reported, claimed>>
sessionVars == <<broker, sess, announced, present, pending, told, view>>

Pumps     == {"stdin", "stdout"}
Reporters == Pumps \cup {"drain"}

\* "managed": in Supervisor.children.  "taken": moved out of the map, its
\* shutdown() not yet begun.  "stopping": shutdown() holds the child lock and
\* has killed the group.  "stopped": shutdown() returned, pumps aborted.
\* "abandoned": the handle was dropped before shutdown() returned.
Stages == {"unborn", "managed", "taken", "stopping", "stopped", "abandoned"}

\* "closing": in report_terminal, at an await.  "swap", "store", "snapshot"
\* name the next atomic operation of the running poll.  "queue": at tx.send.
PCs == {"none", "running", "closing", "swap", "store", "snapshot", "queue",
        "ended"}

TypeOK ==
  /\ stage \in [Inc -> Stages]
  /\ proc \in [Inc -> {"none", "running", "dead"}]
  /\ pc \in [Inc -> [Reporters -> PCs]]
  /\ exited \in [Inc -> BOOLEAN]
  /\ reported \in [Inc -> BOOLEAN]
  /\ claimed \in [Inc -> SUBSET Reporters]
  /\ broker \in BOOLEAN
  /\ sess \in {"down", "wired", "greeting", "live"}
  /\ announced \in SUBSET Inc
  /\ present \in SUBSET Inc
  /\ pending \in Inc \cup {NoInc}
  /\ told \in SUBSET Inc
  /\ view \in Inc \cup {NoInc}

Init ==
  /\ stage = [i \in Inc |-> "unborn"]
  /\ proc = [i \in Inc |-> "none"]
  /\ pc = [i \in Inc |-> [r \in Reporters |-> "none"]]
  /\ exited = [i \in Inc |-> FALSE]
  /\ reported = [i \in Inc |-> FALSE]
  /\ claimed = [i \in Inc |-> {}]
  /\ broker = FALSE
  /\ sess = "down"
  /\ announced = {}
  /\ present = {}
  /\ pending = NoInc
  /\ told = {}
  /\ view = NoInc

-----------------------------------------------------------------------------
(* Helpers *)

GoTo(i, r, label) == pc' = [pc EXCEPT ![i][r] = label]

\* Bug: the drain loop parks at a label of its own.
HomeParked(r) == IF r = "drain" THEN "parked" ELSE "ended"

\* Where a reporter goes after report_terminal / after handling one frame.
Home(r) == IF r = "drain" THEN "none" ELSE "ended"

\* The supervisor mutex is held by nobody: no spawn or report of the drain
\* loop is under way and no handle is being shut down.
LockFree ==
  /\ pending = NoInc
  /\ \A i \in Inc : /\ stage[i] \notin {"taken", "stopping"}
                    /\ pc[i]["drain"] = "none"

\* The labels at which a poll is running, so that dropping or aborting the
\* task cannot take effect yet.
MidPoll == {"swap", "store", "snapshot"}

-----------------------------------------------------------------------------
(* The process and its pumps *)

\* The process exits or crashes by itself.
Die(i) ==
  /\ proc[i] = "running"
  /\ proc' = [proc EXCEPT ![i] = "dead"]
  /\ UNCHANGED <<stage, reportVars, sessionVars>>

\* stdout_pump leaves its read loop: EOF, or a read error.  A process may
\* close its stdout without dying.
StdoutEof(i) ==
  /\ pc[i]["stdout"] = "running"
  /\ GoTo(i, "stdout", "closing")
  /\ UNCHANGED <<childVars, exited, reported, claimed, sessionVars>>

\* stdin_pump fails to write or flush.
StdinFails(i) ==
  /\ pc[i]["stdin"] = "running"
  /\ GoTo(i, "stdin", "closing")
  /\ UNCHANGED <<childVars, exited, reported, claimed, sessionVars>>

\* The handle, and with it the only outbound_tx, is gone: stdin_pump ends
\* without a report.
StdinDisconnected(i) ==
  /\ pc[i]["stdin"] = "running"
  /\ stage[i] = "abandoned"
  /\ GoTo(i, "stdin", "ended")
  /\ UNCHANGED <<childVars, exited, reported, claimed, sessionVars>>

\* report_terminal got past wait_for_stderr and child_exit_status.  The
\* latter needs the child lock, which shutdown() keeps until it has reaped.
Observe(i, r) ==
  /\ r \in Pumps
  /\ pc[i][r] = "closing"
  /\ stage[i] # "stopping"
  /\ GoTo(i, r, "swap")
  /\ UNCHANGED <<childVars, exited, reported, claimed, sessionVars>>

\* Bug: a load and a store instead of the swap.
WinUnguarded(i, r) ==
  /\ pc[i][r] = "swap"
  /\ reported' = [reported EXCEPT ![i] = TRUE]
  /\ claimed' = [claimed EXCEPT ![i] = @ \cup {r}]
  /\ GoTo(i, r, "store")
  /\ UNCHANGED <<childVars, exited, sessionVars>>

\* take_terminal_error: reported.swap(true) finds FALSE, and the reporter
\* goes on to build the error.
Win(i, r) ==
  /\ pc[i][r] = "swap"
  /\ ~reported[i]
  /\ reported' = [reported EXCEPT ![i] = TRUE]
  /\ claimed' = [claimed EXCEPT ![i] = @ \cup {r}]
  /\ GoTo(i, r, "store")
  /\ UNCHANGED <<childVars, exited, sessionVars>>

\* take_terminal_error: the swap finds TRUE; exited is stored, no error.
Lose(i, r) ==
  /\ pc[i][r] = "swap"
  /\ reported[i]
  /\ exited' = [exited EXCEPT ![i] = TRUE]
  /\ GoTo(i, r, Home(r))
  /\ UNCHANGED <<childVars, reported, claimed, sessionVars>>

\* terminal_error: exited.store(true).
Store(i, r) ==
  /\ pc[i][r] = "store"
  /\ exited' = [exited EXCEPT ![i] = TRUE]
  /\ GoTo(i, r, "snapshot")
  /\ UNCHANGED <<childVars, reported, claimed, sessionVars>>

\* Bug: the report is thrown away while a session is wired.
SnapshotInverted(i, r) ==
  /\ pc[i][r] = "snapshot"
  /\ GoTo(i, r, IF broker THEN Home(r) ELSE "queue")
  /\ UNCHANGED <<childVars, exited, reported, claimed, sessionVars>>

\* OutgoingHandle::send takes a copy of the current sender, or drops the
\* frame when there is none.
Snapshot(i, r) ==
  /\ pc[i][r] = "snapshot"
  /\ GoTo(i, r, IF broker THEN "queue" ELSE Home(r))
  /\ UNCHANGED <<childVars, exited, reported, claimed, sessionVars>>

\* tx.send(server_offline) completes: the backend will strike the server.
Queue(i, r) ==
  /\ pc[i][r] = "queue"
  /\ told' = told \cup {i}
  /\ view' = NoInc
  /\ GoTo(i, r, Home(r))
  /\ UNCHANGED <<childVars, exited, reported, claimed, broker, sess,
                 announced, present, pending>>

Report(i, r) ==
  \/ Observe(i, r) \/ Win(i, r) \/ Lose(i, r) \/ Store(i, r)
  \/ Snapshot(i, r) \/ Queue(i, r)

-----------------------------------------------------------------------------
(* The supervisor: the handlers that create and remove the handle *)

\* try_spawn: ChildServer::spawn starts the pumps, the handle enters the map.
Spawn(i) ==
  /\ sess = "live"
  /\ LockFree
  /\ stage[i] = "unborn"
  /\ \A j \in Inc : stage[j] # "managed"
  /\ stage' = [stage EXCEPT ![i] = "managed"]
  /\ proc' = [proc EXCEPT ![i] = "running"]
  /\ pc' = [pc EXCEPT ![i] = [r \in Reporters |->
                               IF r \in Pumps THEN "running" ELSE "none"]]
  /\ pending' = i
  /\ present' = present \cup {i}
  /\ UNCHANGED <<exited, reported, claimed, broker, sess, announced, told,
                 view>>

\* try_spawn: ServerSpawnResult{ok} is queued.
SendSpawnResult(i) ==
  /\ pending = i
  /\ pending' = NoInc
  /\ view' = IF broker THEN i ELSE view
  /\ UNCHANGED <<childVars, reportVars, broker, sess, announced, present,
                 told>>

\* drain_incoming, McpFrame arm: the child has exited, or its outbound queue
\* is closed because stdin_pump is gone.
DrainFrame(i) ==
  /\ sess = "live"
  /\ LockFree
  /\ stage[i] = "managed"
  /\ exited[i] \/ pc[i]["stdin"] = "ended"
  /\ GoTo(i, "drain", "swap")
  /\ UNCHANGED <<childVars, exited, reported, claimed, sessionVars>>

\* A handler, or shutdown_children, moves the handle out of the map.  The
\* run loop does it between sessions too; nobody does it during the hello.
TakeOut(i) ==
  /\ sess \in {"live", "down"}
  /\ LockFree
  /\ stage[i] = "managed"
  /\ stage' = [stage EXCEPT ![i] = "taken"]
  /\ UNCHANGED <<proc, reportVars, sessionVars>>

\* Bug: shutdown() waits without having killed.
KillNobody(i) ==
  /\ stage[i] = "taken"
  /\ stage' = [stage EXCEPT ![i] = "stopping"]
  /\ UNCHANGED <<proc, reportVars, sessionVars>>

\* shutdown(): the child lock is held and the process group killed.
Kill(i) ==
  /\ stage[i] = "taken"
  /\ stage' = [stage EXCEPT ![i] = "stopping"]
  /\ proc' = [proc EXCEPT ![i] = "dead"]
  /\ UNCHANGED <<reportVars, sessionVars>>

\* shutdown(): wait() returned, the lock is released and the pumps aborted.
\* abort() ends a task at an await, not in the middle of a poll; one at
\* tx.send may still find room.
Reap(i) ==
  /\ stage[i] = "stopping"
  /\ stage' = [stage EXCEPT ![i] = "stopped"]
  /\ pc' = [pc EXCEPT ![i] = [r \in Reporters |->
                               IF @[r] \in {"running", "closing"}
                               THEN "ended" ELSE @[r]]]
  /\ UNCHANGED <<proc, exited, reported, claimed, sessionVars>>

-----------------------------------------------------------------------------
(* The session *)

\* run_one_session wires the handle before any frame of the session exists.
Wire ==
  /\ sess = "down"
  /\ LockFree
  /\ sess' = "wired"
  /\ broker' = TRUE
  /\ UNCHANGED <<childVars, reportVars, announced, present, pending, told,
                 view>>

\* Bug: exited children are announced as running.
ReadHelloAll ==
  /\ sess = "wired"
  /\ sess' = "greeting"
  /\ announced' = {i \in Inc : stage[i] = "managed"}
  /\ present' = announced'
  /\ UNCHANGED <<childVars, reportVars, broker, pending, told, view>>

\* currently_running is collected under the supervisor lock.
ReadHello ==
  /\ sess = "wired"
  /\ sess' = "greeting"
  /\ announced' = {i \in Inc : stage[i] = "managed" /\ ~exited[i]}
  /\ present' = announced'
  /\ UNCHANGED <<childVars, reportVars, broker, pending, told, view>>

\* The ClientHello is queued.  It replaces whatever the backend believed.
SendHello ==
  /\ sess = "greeting"
  /\ sess' = "live"
  /\ view' = IF announced = {} THEN NoInc ELSE CHOOSE i \in announced : TRUE
  /\ announced' = {}
  /\ UNCHANGED <<childVars, reportVars, broker, present, pending, told>>

\* The heartbeat gives up on the connection: it clears the handle first.
HeartbeatClear ==
  /\ sess = "live"
  /\ broker
  /\ broker' = FALSE
  /\ UNCHANGED <<childVars, reportVars, sess, announced, present, pending,
                 told, view>>

\* The select of run_one_session takes another branch: the futures of the
\* drain loop and of the configuration watcher are dropped at an await, and
\* with them the handles they were shutting down.  Frames still waiting for
\* room went to the old socket or nowhere, and the backend starts afresh.
EndSession ==
  /\ sess = "live"
  /\ \A i \in Inc : pc[i]["drain"] \notin MidPoll
  /\ sess' = "down"
  /\ broker' = FALSE
  /\ pending' = NoInc
  /\ present' = {}
  /\ told' = {}
  /\ view' = NoInc
  /\ stage' = [i \in Inc |-> IF stage[i] \in {"taken", "stopping"}
                             THEN "abandoned" ELSE stage[i]]
  /\ pc' = [i \in Inc |-> [r \in Reporters |->
                            IF pc[i][r] = "queue" THEN Home(r) ELSE pc[i][r]]]
  /\ UNCHANGED <<proc, exited, reported, claimed, announced>>

-----------------------------------------------------------------------------
Environment == \E i \in Inc : Die(i) \/ StdoutEof(i) \/ StdinFails(i)

Supervision == \E i \in Inc : \/ Spawn(i) \/ SendSpawnResult(i)
                              \/ DrainFrame(i)
                              \/ TakeOut(i) \/ Kill(i) \/ Reap(i)

Reporting == \E i \in Inc : \/ StdinDisconnected(i)
                            \/ \E r \in Reporters : Report(i, r)

Session == Wire \/ ReadHello \/ SendHello \/ HeartbeatClear \/ EndSession

Next == Environment \/ Supervision \/ Reporting \/ Session

Spec == Init /\ [][Next]_vars

\* Tasks the runtime polls make progress; a dead process closes its pipes;
\* a handler that holds the lock goes on; the socket takes queued frames.
\* Nothing is assumed of exits, sessions or desired state.
Fairness ==
  /\ \A i \in Inc :
       /\ WF_vars(proc[i] = "dead" /\ StdoutEof(i))
       /\ WF_vars(Kill(i))
       /\ WF_vars(Reap(i))
       /\ \A r \in Reporters : WF_vars(Report(i, r))

FairSpec == Spec /\ Fairness

-----------------------------------------------------------------------------
(* Properties *)

\* At most one of the three reporters ever obtains the terminal error of an
\* incarnation, however swap and store interleave (take_terminal_error).
OneObituary ==
  \A i \in Inc : \A p, q \in claimed[i] : p = q

\* A reporter of i carries the error towards the handle of this session.
Carrying(i) ==
  \E r \in Reporters : pc[i][r] \in {"store", "snapshot", "queue"}

\* No silent death: an incarnation that the session announced or spawned and
\* that is marked exited has its server_offline queued in the same session,
\* or a reporter is about to queue it - unless the supervisor removed it or
\* the heartbeat has given the connection up.  It rests on wiring the handle
\* before reading has_exited, and on marking exited before taking the sender.
NoSilentDeath ==
  \A i \in present :
    exited[i] /\ broker /\ stage[i] = "managed" => i \in told \/ Carrying(i)

\* An exited child is skipped by the next hello only because somebody took
\* responsibility for it: exited never precedes reported, and a reported
\* incarnation is exited unless its one winner is between swap and store.
ExitedIsClaimed ==
  \A i \in Inc :
    /\ exited[i] => reported[i]
    /\ reported[i] /\ ~exited[i] =>
         \E r \in Reporters : r \in claimed[i] /\ pc[i][r] = "store"

\* A frame for a dead child gets no second server_offline from the drain
\* loop: its take_terminal_error always finds the error taken (daemon.rs,
\* McpFrame arm), so queued requests are failed by the pumps' report alone.
DrainNeverReports ==
  \A i \in Inc : "drain" \notin claimed[i]

\* At most one process of the server runs whose handle was not dropped: a
\* replacement is spawned only after shutdown() has reaped the old process.
OneProcess ==
  \A i, j \in Inc :
    /\ proc[i] = "running" /\ stage[i] # "abandoned"
    /\ proc[j] = "running" /\ stage[j] # "abandoned"
    => i = j

\* While the connection lasts, the death of a child of this session reaches
\* the backend: "an in-flight tool call against the dead child would hang
\* forever" otherwise (ARCHITECTURE.md).
DeathReported ==
  \A i \in Inc :
    (broker /\ i \in present /\ proc[i] = "dead")
      ~> (i \in told \/ ~broker \/ stage[i] # "managed")

\* Claimed by ARCHITECTURE.md: the server_offline is what fails the calls to
\* the dead child, so the backend does not believe in a child whose
\* server_offline it has read in this session.
ObituaryIsFinal ==
  \A i \in told : sess = "live" => view # i
=============================================================================
