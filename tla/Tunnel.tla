------------------------------- MODULE Tunnel -------------------------------
(***************************************************************************)
(* One connection after the other: the two queues of a session, the tasks  *)
(* that fill and empty them, the heartbeat, and the select that ends it    *)
(* (tunnel.rs; daemon.rs: run_one_session, drain_incoming, heartbeat).     *)
(*                                                                         *)
(* A session that ends leaves its send task behind, with a queue and half  *)
(* a socket of its own: sessions are slots, free again once that task has  *)
(* closed the socket.  What a frame is shows when it is handled: work      *)
(* under the supervisor's mutex (perhaps none) that may answer, or the end *)
(* of the session.  How a session ends is RunLoop's; here it is only over. *)
(*                                                                         *)
(* Time passes in units; tasks that can go on do so before it does.        *)
(***************************************************************************)
EXTENDS Naturals

CONSTANTS Slots, NoSlot,
          Pumps,        \* the stdout pumps of the children
          Cap,          \* capacity of a queue
          Interval,     \* HEARTBEAT_INTERVAL
          StaleAfter    \* HEARTBEAT_STALE_AFTER

ASSUME TunnelAssumption ==
  /\ NoSlot \notin Slots
  /\ Cap \in Nat \ {0}
  /\ Interval \in Nat \ {0}
  /\ StaleAfter \in Nat

VARIABLES
  stage,      \* the run loop: no session, before its hello, in its select
  cur,        \* the session
  handle,     \* whose sender OutgoingHandle holds
  out,        \* frames in the outgoing queue
  sink,       \* the send task: receiving, sending, aborted, or gone
  waiting,    \* on whose queue a pump waits for room
  inq,        \* frames in the incoming queue
  reader,     \* ws_task: reading, waiting for room, waiting for the send task
              \* it has aborted, or ended
  drain,      \* drain_incoming: receiving, with a frame it has taken, waiting
              \* for the mutex, in a handler, or sending from it
  watch,      \* wait_for_connection_change: asleep, waiting for the mutex, or
              \* shutting the children down
  beat,       \* the heartbeat: sleeping, sending, or returned
  tick,       \* time to its next tick
  quiet       \* time since the last frame was taken from the queue

queueVars   == <<out, sink, waiting>>
readVars    == <<inq, reader>>
workVars    == <<drain, watch>>
beatVars    == <<beat, tick, quiet>>
tunnelVars  == <<stage, cur, handle, queueVars, readVars, workVars, beatVars>>

QuietMax == StaleAfter + Interval + 1

TunnelTypeOK ==
  /\ stage \in {"down", "greeting", "live"}
  /\ cur \in Slots \cup {NoSlot}
  /\ handle \in {cur, NoSlot}
  /\ stage = "down" => cur = NoSlot
  /\ out \in [Slots -> 0 .. Cap]
  /\ sink \in [Slots -> {"recv", "send", "aborted", "closed"}]
  /\ waiting \in [Pumps -> Slots \cup {NoSlot}]
  /\ inq \in 0 .. Cap
  /\ reader \in {"read", "room", "closing", "ended"}
  /\ drain \in {"recv", "taken", "lock", "busy", "send"}
  /\ watch \in {"sleep", "wants", "reset"}
  /\ beat \in {"sleep", "send", "gone"}
  /\ tick \in 0 .. Interval
  /\ quiet \in 0 .. QuietMax

TunnelInit ==
  /\ stage = "down" /\ cur = NoSlot /\ handle = NoSlot
  /\ out = [s \in Slots |-> 0]
  /\ sink = [s \in Slots |-> "closed"]
  /\ waiting = [p \in Pumps |-> NoSlot]
  /\ inq = 0 /\ reader = "read"
  /\ drain = "recv" /\ watch = "sleep"
  /\ beat = "sleep" /\ tick = 0 /\ quiet = 0

-----------------------------------------------------------------------------
(* Sending: OutgoingHandle and the send task *)

\* A send on the queue of s: it waits for room, and fails once the send task
\* is gone.
CanSend(s) == s # NoSlot => sink[s] = "closed" \/ out[s] < Cap

Enqueue(s) ==
  /\ CanSend(s)
  /\ out' = [t \in Slots |-> IF t = s /\ sink[t] # "closed" THEN out[t] + 1
                             ELSE out[t]]

\* Whoever holds a sender of s: the handle, run_one_session, and pumps that
\* took theirs from the handle and wait.
HasSender(s) == \/ handle = s
                \/ cur = s
                \/ \E p \in Pumps : waiting[p] = s

\* OutgoingHandle::send in a pump: the sender is a snapshot; without one the
\* frame is dropped.
PumpSends(p) ==
  /\ waiting[p] = NoSlot
  /\ handle # NoSlot
  /\ waiting' = [waiting EXCEPT ![p] = handle]
  /\ UNCHANGED <<stage, cur, handle, out, sink, readVars, workVars, beatVars>>

PumpQueues(p) ==
  /\ waiting[p] # NoSlot
  /\ Enqueue(waiting[p])
  /\ waiting' = [waiting EXCEPT ![p] = NoSlot]
  /\ UNCHANGED <<stage, cur, handle, sink, readVars, workVars, beatVars>>

SinkTakes(s) ==
  /\ sink[s] = "recv" /\ out[s] > 0
  /\ out' = [out EXCEPT ![s] = @ - 1]
  /\ sink' = [sink EXCEPT ![s] = "send"]
  /\ UNCHANGED <<stage, cur, handle, waiting, readVars, workVars, beatVars>>

\* The socket has taken the frame, or an error closes the sink.
SinkSends(s) ==
  /\ sink[s] = "send"
  /\ \/ sink' = [sink EXCEPT ![s] = "recv"] /\ UNCHANGED out
     \/ sink' = [sink EXCEPT ![s] = "closed"] /\ out' = [out EXCEPT ![s] = 0]
  /\ UNCHANGED <<stage, cur, handle, waiting, readVars, workVars, beatVars>>

\* An abort takes effect once the task waits.
SinkDropped(s) ==
  /\ sink[s] = "aborted"
  /\ sink' = [sink EXCEPT ![s] = "closed"] /\ out' = [out EXCEPT ![s] = 0]
  /\ UNCHANGED <<stage, cur, handle, waiting, readVars, workVars, beatVars>>

\* The queue is empty and nobody can fill it any more.
SinkEnds(s) ==
  /\ sink[s] = "recv" /\ out[s] = 0 /\ ~HasSender(s)
  /\ sink' = [sink EXCEPT ![s] = "closed"]
  /\ UNCHANGED <<stage, cur, handle, out, waiting, readVars, workVars, beatVars>>

-----------------------------------------------------------------------------
(* Receiving: the loop of run_frame_loop *)

\* A text frame: queued, or kept until there is room.
Arrive ==
  /\ stage # "down" /\ reader = "read"
  /\ IF inq < Cap THEN inq' = inq + 1 /\ UNCHANGED reader
                  ELSE reader' = "room" /\ UNCHANGED inq
  /\ UNCHANGED <<stage, cur, handle, queueVars, workVars, beatVars>>

RoomFound ==
  /\ reader = "room" /\ inq < Cap
  /\ inq' = inq + 1
  /\ reader' = "read"
  /\ UNCHANGED <<stage, cur, handle, queueVars, workVars, beatVars>>

\* Bug: the send task is not aborted.
ReadEndsQuietly ==
  /\ stage # "down" /\ reader = "read"
  /\ reader' = "closing"
  /\ UNCHANGED <<stage, cur, handle, queueVars, inq, workVars, beatVars>>

\* A close or an error: run_frame_loop aborts the send task, and waits for it.
ReadEnds ==
  /\ stage # "down" /\ reader = "read"
  /\ reader' = "closing"
  /\ sink' = IF sink[cur] = "closed" THEN sink
             ELSE [sink EXCEPT ![cur] = "aborted"]
  /\ UNCHANGED <<stage, cur, handle, out, waiting, inq, workVars, beatVars>>

\* ws_task is over, and with it the sender of the incoming queue.
LoopEnds ==
  /\ reader = "closing" /\ sink[cur] = "closed"
  /\ reader' = "ended"
  /\ UNCHANGED <<stage, cur, handle, queueVars, inq, workVars, beatVars>>

-----------------------------------------------------------------------------
(* run_one_session *)

\* connect: the queues are made and the handle is wired.
Connect(s) ==
  /\ stage = "down" /\ sink[s] = "closed" /\ ~HasSender(s)
  /\ stage' = "greeting" /\ cur' = s /\ handle' = s
  /\ sink' = [sink EXCEPT ![s] = "recv"]
  /\ UNCHANGED <<out, waiting, readVars, workVars, beatVars>>

\* The hello is queued; the heartbeat starts, its first tick is due at once.
Greet ==
  /\ stage = "greeting"
  /\ Enqueue(cur)
  /\ stage' = "live"
  /\ UNCHANGED <<cur, handle, sink, waiting, readVars, workVars, beatVars>>

\* Bug: the run loop leaves the handle as it is.
EndKeepsHandle ==
  /\ stage' = "down" /\ cur' = NoSlot
  /\ UNCHANGED <<handle, queueVars>>
  /\ inq' = 0 /\ reader' = "read"
  /\ drain' = "recv" /\ watch' = "sleep"
  /\ beat' = "sleep" /\ tick' = 0 /\ quiet' = 0

\* The session is over: futures and tasks are dropped, all but the send task,
\* with frames not yet handled; the run loop clears the handle.
End ==
  /\ stage' = "down" /\ cur' = NoSlot /\ handle' = NoSlot
  /\ UNCHANGED queueVars
  /\ inq' = 0 /\ reader' = "read"
  /\ drain' = "recv" /\ watch' = "sleep"
  /\ beat' = "sleep" /\ tick' = 0 /\ quiet' = 0

\* The select is biased: it polls drain_incoming first, ws_task next, then
\* the heartbeat, and the configuration last.
DrainReady ==
  /\ drain = "recv"
  /\ inq > 0 \/ reader = "ended"

Others == stage = "live" /\ ~DrainReady

SocketEnds == Others /\ reader = "ended" /\ End

HeartbeatEnds == Others /\ reader # "ended" /\ beat = "gone" /\ End

\* config.toml resolves to another connection, and the children can stay.
ConfigurationEnds ==
  /\ Others /\ reader # "ended" /\ beat # "gone"
  /\ watch = "sleep"
  /\ End

\* The children cannot stay: the watcher needs the supervisor's mutex.
WatcherResets ==
  /\ Others /\ reader # "ended" /\ beat # "gone"
  /\ watch = "sleep"
  /\ watch' = IF drain \in {"busy", "send"} THEN "wants" ELSE "reset"
  /\ UNCHANGED <<stage, cur, handle, queueVars, readVars, drain, beatVars>>

\* shutdown_children is done.
ResetEnds ==
  /\ Others /\ reader # "ended" /\ beat # "gone"
  /\ watch = "reset"
  /\ End

-----------------------------------------------------------------------------
(* drain_incoming *)

\* A frame is taken.  Until its handler has the mutex the other branches of
\* the select may win, and it is lost.
Take ==
  /\ stage = "live" /\ drain = "recv" /\ inq > 0
  /\ inq' = inq - 1
  /\ drain' = "taken"
  /\ UNCHANGED <<stage, cur, handle, queueVars, reader, watch, beatVars>>

\* Whatever it is, the backend is alive: last_pong.
Alive ==
  /\ drain = "taken"
  /\ drain' = "lock"
  /\ quiet' = 0
  /\ UNCHANGED <<stage, cur, handle, queueVars, readVars, watch, beat, tick>>

\* With the mutex: a tunnel_error for the whole device ends the session.
Handle ==
  /\ drain = "lock" /\ watch # "reset"
  /\ \/ End
     \/ /\ drain' = "busy"
        /\ UNCHANGED <<stage, cur, handle, queueVars, readVars, watch, beatVars>>

\* The mutex goes to the watcher if that waits for it.
Unlock == watch' = IF watch = "wants" THEN "reset" ELSE watch

HandlerEnds ==
  /\ drain = "busy"
  /\ drain' = "recv" /\ Unlock
  /\ UNCHANGED <<stage, cur, handle, queueVars, readVars, beatVars>>

\* The handler of a ping lets go of the mutex and takes it again; the model
\* does not remember what the frame was.
PingRelocks ==
  /\ drain = "busy"
  /\ drain' = "lock" /\ Unlock
  /\ UNCHANGED <<stage, cur, handle, queueVars, readVars, beatVars>>

\* The handler has a frame to send.  It waits for room with the mutex, on the
\* sender it took from the handle, perhaps before the heartbeat cleared that.
HandlerSends ==
  /\ drain = "busy"
  /\ drain' = "send"
  /\ UNCHANGED <<stage, cur, handle, queueVars, readVars, watch, beatVars>>

HandlerQueues ==
  /\ drain = "send"
  /\ \E s \in {cur, handle} : Enqueue(s)
  /\ drain' = "busy"
  /\ UNCHANGED <<stage, cur, handle, sink, waiting, readVars, watch, beatVars>>

\* The queue is drained and nothing will fill it: websocket_task_result.
DrainEnds ==
  /\ stage = "live" /\ drain = "recv" /\ inq = 0 /\ reader = "ended"
  /\ End

-----------------------------------------------------------------------------
(* heartbeat *)

\* Bug: the deadline is counted from the tick before.
BeatLate ==
  /\ stage = "live" /\ beat = "sleep" /\ tick = 0
  /\ tick' = Interval
  /\ IF quiet > StaleAfter + Interval
     THEN beat' = "gone" /\ handle' = NoSlot
     ELSE beat' = "send" /\ UNCHANGED handle
  /\ UNCHANGED <<stage, cur, queueVars, readVars, workVars, quiet>>

\* A tick: when the machine has slept since the last one, or nothing was
\* taken for too long, the handle is cleared and the heartbeat returns;
\* otherwise it pings.
Beat ==
  /\ stage = "live" /\ beat = "sleep" /\ tick = 0
  /\ tick' = Interval
  /\ \E slept \in BOOLEAN :
       IF slept \/ quiet > StaleAfter
       THEN beat' = "gone" /\ handle' = NoSlot
       ELSE beat' = "send" /\ UNCHANGED handle
  /\ UNCHANGED <<stage, cur, queueVars, readVars, workVars, quiet>>

\* The ping waits for room, like every frame.
Ping ==
  /\ beat = "send"
  /\ Enqueue(handle)
  /\ beat' = "sleep"
  /\ UNCHANGED <<stage, cur, handle, sink, waiting, readVars, workVars, tick, quiet>>

\* Time passes once no task is due.
Pass ==
  /\ stage = "live"
  /\ ~DrainReady /\ drain # "taken" /\ ~(drain = "lock" /\ watch # "reset")
  /\ ~(beat = "sleep" /\ tick = 0) /\ ~(beat = "send" /\ CanSend(handle))
  /\ beat # "gone" /\ reader \in {"read", "room"}
  /\ tick' = IF tick = 0 THEN 0 ELSE tick - 1
  /\ quiet' = IF quiet = QuietMax THEN quiet ELSE quiet + 1
  /\ UNCHANGED <<stage, cur, handle, queueVars, readVars, workVars, beat>>

Sending == \/ \E p \in Pumps : PumpSends(p) \/ PumpQueues(p)
           \/ \E s \in Slots : \/ SinkTakes(s) \/ SinkSends(s)
                              \/ SinkDropped(s) \/ SinkEnds(s)
Receiving == Arrive \/ RoomFound \/ ReadEnds \/ LoopEnds
Session == \/ (\E s \in Slots : Connect(s)) \/ Greet
           \/ SocketEnds \/ HeartbeatEnds
           \/ ConfigurationEnds \/ WatcherResets \/ ResetEnds
Draining == \/ Take \/ Alive \/ Handle \/ DrainEnds
            \/ HandlerEnds \/ PingRelocks \/ HandlerSends \/ HandlerQueues
Beating == Beat \/ Ping \/ Pass

TunnelNext == Sending \/ Receiving \/ Session \/ Draining \/ Beating

TunnelSpec == TunnelInit /\ [][TunnelNext]_tunnelVars

\* A socket takes a frame or breaks in the end; tasks that can go on do; a
\* queue serves those who wait for room in turn; a handler ends.
TunnelFairness ==
  /\ \A s \in Slots : WF_tunnelVars(\/ SinkTakes(s) \/ SinkSends(s)
                                   \/ SinkDropped(s) \/ SinkEnds(s))
  /\ \A p \in Pumps : WF_tunnelVars(PumpQueues(p))
  /\ WF_tunnelVars(LoopEnds)
  /\ WF_tunnelVars(Take) /\ WF_tunnelVars(Alive) /\ WF_tunnelVars(Handle)
  /\ WF_tunnelVars(SocketEnds \/ HeartbeatEnds \/ ResetEnds \/ DrainEnds)
  /\ SF_tunnelVars(HandlerEnds) /\ SF_tunnelVars(HandlerQueues)

TunnelFairSpec == TunnelSpec /\ TunnelFairness

-----------------------------------------------------------------------------
(* Properties *)

\* A backend that says nothing is noticed within the time a tick adds to
\* HEARTBEAT_STALE_AFTER, in whatever state queues and handlers are: it is
\* silent for longer only while the heartbeat itself waits for room for its
\* ping in a full queue.
SilenceNoticed ==
  [][quiet' > quiet /\ quiet' > StaleAfter + Interval =>
       beat = "send" /\ ~CanSend(handle)]_tunnelVars

\* A session whose socket was closed, or whose children a new configuration
\* sends away, ends: though the handler that has the mutex the watcher needs
\* waits for room in a queue that a stalled socket does not empty, though the
\* heartbeat and the pumps wait for the same room, and though frames go on
\* arriving.
SessionGivesWay ==
  stage = "live" /\ (reader \in {"closing", "ended"} \/ watch # "sleep")
    ~> stage = "down"

\* The send task outlives its session, but not for ever: nobody is left who
\* could add to its queue, and its half of the socket is closed.
EndedSocketsClose ==
  \A s \in Slots : (cur # s) ~> (sink[s] = "closed")
=============================================================================
