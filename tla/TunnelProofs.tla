---------------------------- MODULE TunnelProofs ----------------------------
(***************************************************************************)
(* Proofs about Tunnel, for any number of slots and pumps, any capacity of *)
(* the queues and any intervals: a silent backend is noticed, and what a   *)
(* session leaves behind only shrinks.                                     *)
(*                                                                         *)
(* The invariant: what there is of a session in which stage (SessionInv),  *)
(* that from one tick to the next the time since the last frame and the    *)
(* time to the tick add up to no more than the limit (BeatInv), and that a *)
(* send task takes its queue along (QueueInv).                             *)
(***************************************************************************)
EXTENDS Tunnel, TLAPS

\* Without a session there is no sender, no frame and no heartbeat; handlers
\* and the watcher work while it is live.
SessionInv ==
  /\ stage = "down" => handle = NoSlot /\ inq = 0 /\ reader = "read"
  /\ stage # "down" => cur \in Slots
  /\ stage # "live" => /\ drain = "recv" /\ watch = "sleep"
                       /\ beat = "sleep" /\ tick = 0

BeatInv ==
  /\ beat = "gone" => handle = NoSlot
  /\ beat # "gone" /\ tick > 0 => quiet + tick <= StaleAfter + Interval

QueueInv == \A s \in Slots : sink[s] = "closed" => out[s] = 0

TunnelInv == TunnelTypeOK /\ SessionInv /\ BeatInv /\ QueueInv

-----------------------------------------------------------------------------
(* The queues *)

\* A send on a queue with room keeps it within its capacity; nothing is added
\* once its send task is gone (OutgoingHandle::send).
LEMMA EnqueueFits ==
  ASSUME TunnelTypeOK, NEW s \in Slots \cup {NoSlot}, Enqueue(s)
  PROVE  /\ out' \in [Slots -> 0 .. Cap]
         /\ \A t \in Slots : t # s \/ sink[t] = "closed" => out'[t] = out[t]
<1> USE TunnelAssumption DEF TunnelTypeOK, Enqueue, CanSend
<1>1. ASSUME NEW t \in Slots, t = s, sink[t] # "closed"
      PROVE  out[t] + 1 \in 0 .. Cap
  <2>1. out[s] < Cap /\ out[t] \in 0 .. Cap
    BY <1>1
  <2> QED
    BY <2>1, <1>1
<1> QED
  BY <1>1

\* Where counters and queues start, and start again.
LEMMA Zeros ==
  /\ 0 \in 0 .. Cap /\ 0 \in 0 .. QuietMax
  /\ 0 \in 0 .. Interval /\ Interval \in 0 .. Interval
  BY TunnelAssumption DEF QuietMax

-----------------------------------------------------------------------------
(* Every step keeps the invariant *)

\* The end of a session, however it ends.
LEMMA EndStep ==
  ASSUME TunnelInv, End
  PROVE  TunnelInv'
<1> USE TunnelAssumption DEF TunnelInv, End, queueVars
<1>1. TunnelTypeOK'
  BY Zeros DEF TunnelTypeOK
<1>2. SessionInv'
  BY DEF SessionInv
<1>3. BeatInv'
  BY DEF BeatInv
<1>4. QueueInv'
  BY DEF QueueInv
<1> QED
  BY <1>1, <1>2, <1>3, <1>4

\* A pump takes a sender from the handle.
LEMMA PumpSendsStep ==
  ASSUME TunnelInv, NEW p \in Pumps, PumpSends(p)
  PROVE  TunnelInv'
<1> USE TunnelAssumption DEF TunnelInv, PumpSends, readVars, workVars,
                             beatVars
<1>1. TunnelTypeOK'
  BY DEF TunnelTypeOK
<1>2. SessionInv'
  BY DEF SessionInv
<1>3. BeatInv'
  BY DEF BeatInv
<1>4. QueueInv'
  BY DEF QueueInv
<1> QED
  BY <1>1, <1>2, <1>3, <1>4

\* Its frame is queued.
LEMMA PumpQueuesStep ==
  ASSUME TunnelInv, NEW p \in Pumps, PumpQueues(p)
  PROVE  TunnelInv'
<1> USE TunnelAssumption DEF TunnelInv, PumpQueues, readVars, workVars,
                             beatVars
<1>1. /\ out' \in [Slots -> 0 .. Cap]
      /\ \A t \in Slots : sink[t] = "closed" => out'[t] = out[t]
  <2>1. waiting[p] \in Slots \cup {NoSlot}
    BY DEF TunnelTypeOK
  <2> QED
    BY <2>1, EnqueueFits
<1>2. TunnelTypeOK'
  BY <1>1 DEF TunnelTypeOK
<1>3. SessionInv'
  BY DEF SessionInv
<1>4. BeatInv'
  BY DEF BeatInv
<1>5. QueueInv'
  BY <1>1 DEF QueueInv
<1> QED
  BY <1>2, <1>3, <1>4, <1>5

\* The send task takes a frame.
LEMMA SinkTakesStep ==
  ASSUME TunnelInv, NEW s \in Slots, SinkTakes(s)
  PROVE  TunnelInv'
<1> USE TunnelAssumption DEF TunnelInv, SinkTakes, readVars, workVars,
                             beatVars
<1>1. TunnelTypeOK'
  BY DEF TunnelTypeOK
<1>2. SessionInv'
  BY DEF SessionInv
<1>3. BeatInv'
  BY DEF BeatInv
<1>4. QueueInv'
  BY DEF QueueInv
<1> QED
  BY <1>1, <1>2, <1>3, <1>4

\* The socket takes it, or fails.
LEMMA SinkSendsStep ==
  ASSUME TunnelInv, NEW s \in Slots, SinkSends(s)
  PROVE  TunnelInv'
<1> USE TunnelAssumption DEF TunnelInv, SinkSends, readVars, workVars,
                             beatVars
<1>1. TunnelTypeOK'
  <2>1. out' \in [Slots -> 0 .. Cap]
    BY Zeros DEF TunnelTypeOK
  <2>2. sink' \in [Slots -> {"recv", "send", "aborted", "closed"}]
    BY DEF TunnelTypeOK
  <2> QED
    BY <2>1, <2>2 DEF TunnelTypeOK
<1>2. SessionInv'
  BY DEF SessionInv
<1>3. BeatInv'
  BY DEF BeatInv
<1>4. QueueInv'
  BY DEF QueueInv, TunnelTypeOK
<1> QED
  BY <1>1, <1>2, <1>3, <1>4

\* The abort takes effect.
LEMMA SinkDroppedStep ==
  ASSUME TunnelInv, NEW s \in Slots, SinkDropped(s)
  PROVE  TunnelInv'
<1> USE TunnelAssumption DEF TunnelInv, SinkDropped, readVars, workVars,
                             beatVars
<1>1. TunnelTypeOK'
  BY Zeros DEF TunnelTypeOK
<1>2. SessionInv'
  BY DEF SessionInv
<1>3. BeatInv'
  BY DEF BeatInv
<1>4. QueueInv'
  BY DEF QueueInv, TunnelTypeOK
<1> QED
  BY <1>1, <1>2, <1>3, <1>4

\* The send task ends.
LEMMA SinkEndsStep ==
  ASSUME TunnelInv, NEW s \in Slots, SinkEnds(s)
  PROVE  TunnelInv'
<1> USE TunnelAssumption DEF TunnelInv, SinkEnds, readVars, workVars,
                             beatVars
<1>1. TunnelTypeOK'
  BY DEF TunnelTypeOK
<1>2. SessionInv'
  BY DEF SessionInv
<1>3. BeatInv'
  BY DEF BeatInv
<1>4. QueueInv'
  BY DEF QueueInv
<1> QED
  BY <1>1, <1>2, <1>3, <1>4

\* A frame arrives.
LEMMA ArriveStep ==
  ASSUME TunnelInv, Arrive
  PROVE  TunnelInv'
<1> USE TunnelAssumption DEF TunnelInv, Arrive, queueVars, workVars,
                             beatVars
<1>1. TunnelTypeOK'
  BY DEF TunnelTypeOK
<1>2. SessionInv'
  BY DEF SessionInv
<1>3. BeatInv'
  BY DEF BeatInv
<1>4. QueueInv'
  BY DEF QueueInv
<1> QED
  BY <1>1, <1>2, <1>3, <1>4

\* The frame that waited is queued.
LEMMA RoomFoundStep ==
  ASSUME TunnelInv, RoomFound
  PROVE  TunnelInv'
<1> USE TunnelAssumption DEF TunnelInv, RoomFound, queueVars, workVars,
                             beatVars
<1>1. TunnelTypeOK'
  BY DEF TunnelTypeOK
<1>2. SessionInv'
  BY DEF SessionInv
<1>3. BeatInv'
  BY DEF BeatInv
<1>4. QueueInv'
  BY DEF QueueInv
<1> QED
  BY <1>1, <1>2, <1>3, <1>4

\* The socket is read to its end.
LEMMA ReadEndsStep ==
  ASSUME TunnelInv, ReadEnds
  PROVE  TunnelInv'
<1> USE TunnelAssumption DEF TunnelInv, ReadEnds, workVars, beatVars
<1>1. TunnelTypeOK'
  BY DEF TunnelTypeOK
<1>2. SessionInv'
  BY DEF SessionInv
<1>3. BeatInv'
  BY DEF BeatInv
<1>4. QueueInv'
  BY DEF QueueInv, TunnelTypeOK
<1> QED
  BY <1>1, <1>2, <1>3, <1>4

\* ws_task ends.
LEMMA LoopEndsStep ==
  ASSUME TunnelInv, LoopEnds
  PROVE  TunnelInv'
<1> USE TunnelAssumption DEF TunnelInv, LoopEnds, queueVars, workVars,
                             beatVars
<1>1. TunnelTypeOK'
  BY DEF TunnelTypeOK
<1>2. SessionInv'
  BY DEF SessionInv
<1>3. BeatInv'
  BY DEF BeatInv
<1>4. QueueInv'
  BY DEF QueueInv
<1> QED
  BY <1>1, <1>2, <1>3, <1>4

\* connect.
LEMMA ConnectStep ==
  ASSUME TunnelInv, NEW s \in Slots, Connect(s)
  PROVE  TunnelInv'
<1> USE TunnelAssumption DEF TunnelInv, Connect, readVars, workVars,
                             beatVars
<1>1. TunnelTypeOK'
  BY DEF TunnelTypeOK
<1>2. SessionInv'
  BY DEF SessionInv
<1>3. BeatInv'
  BY DEF BeatInv, SessionInv
<1>4. QueueInv'
  BY DEF QueueInv
<1> QED
  BY <1>1, <1>2, <1>3, <1>4

\* The hello is queued.
LEMMA GreetStep ==
  ASSUME TunnelInv, Greet
  PROVE  TunnelInv'
<1> USE TunnelAssumption DEF TunnelInv, Greet, readVars, workVars, beatVars
<1>1. /\ out' \in [Slots -> 0 .. Cap]
      /\ \A t \in Slots : sink[t] = "closed" => out'[t] = out[t]
  <2>1. cur \in Slots \cup {NoSlot}
    BY DEF TunnelTypeOK
  <2> QED
    BY <2>1, EnqueueFits
<1>2. TunnelTypeOK'
  BY <1>1 DEF TunnelTypeOK
<1>3. SessionInv'
  BY DEF SessionInv
<1>4. BeatInv'
  BY DEF BeatInv
<1>5. QueueInv'
  BY <1>1 DEF QueueInv
<1> QED
  BY <1>2, <1>3, <1>4, <1>5

\* The watcher needs the mutex.
LEMMA WatcherResetsStep ==
  ASSUME TunnelInv, WatcherResets
  PROVE  TunnelInv'
<1> USE TunnelAssumption DEF TunnelInv, WatcherResets, Others, queueVars,
                             readVars, beatVars
<1>1. TunnelTypeOK'
  BY DEF TunnelTypeOK
<1>2. SessionInv'
  BY DEF SessionInv
<1>3. BeatInv'
  BY DEF BeatInv
<1>4. QueueInv'
  BY DEF QueueInv
<1> QED
  BY <1>1, <1>2, <1>3, <1>4

\* A frame is taken from the queue.
LEMMA TakeStep ==
  ASSUME TunnelInv, Take
  PROVE  TunnelInv'
<1> USE TunnelAssumption DEF TunnelInv, Take, queueVars, beatVars
<1>1. TunnelTypeOK'
  BY DEF TunnelTypeOK
<1>2. SessionInv'
  BY DEF SessionInv
<1>3. BeatInv'
  BY DEF BeatInv
<1>4. QueueInv'
  BY DEF QueueInv
<1> QED
  BY <1>1, <1>2, <1>3, <1>4

\* last_pong is set.
LEMMA AliveStep ==
  ASSUME TunnelInv, Alive
  PROVE  TunnelInv'
<1> USE TunnelAssumption DEF TunnelInv, Alive, queueVars, readVars
<1>1. TunnelTypeOK'
  BY Zeros DEF TunnelTypeOK
<1>2. SessionInv'
  BY DEF SessionInv
<1>3. BeatInv'
  BY DEF BeatInv, TunnelTypeOK
<1>4. QueueInv'
  BY DEF QueueInv
<1> QED
  BY <1>1, <1>2, <1>3, <1>4

\* A handler starts, or the frame ends the session.
LEMMA HandleStep ==
  ASSUME TunnelInv, Handle
  PROVE  TunnelInv'
<1> USE TunnelAssumption DEF TunnelInv, Handle, queueVars, readVars,
                             beatVars
<1>1. CASE End
  BY <1>1, EndStep
<1>2. CASE ~End
  <2>1. TunnelTypeOK'
    BY <1>2 DEF TunnelTypeOK
  <2>2. SessionInv'
    BY <1>2 DEF SessionInv
  <2>3. BeatInv'
    BY <1>2 DEF BeatInv
  <2>4. QueueInv'
    BY <1>2 DEF QueueInv
  <2> QED
    BY <2>1, <2>2, <2>3, <2>4
<1> QED
  BY <1>1, <1>2

\* A handler is done.
LEMMA HandlerEndsStep ==
  ASSUME TunnelInv, HandlerEnds
  PROVE  TunnelInv'
<1> USE TunnelAssumption DEF TunnelInv, HandlerEnds, Unlock, queueVars,
                             readVars, beatVars
<1>1. TunnelTypeOK'
  BY DEF TunnelTypeOK
<1>2. SessionInv'
  BY DEF SessionInv
<1>3. BeatInv'
  BY DEF BeatInv
<1>4. QueueInv'
  BY DEF QueueInv
<1> QED
  BY <1>1, <1>2, <1>3, <1>4

\* The handler of a ping lets go of the mutex.
LEMMA PingRelocksStep ==
  ASSUME TunnelInv, PingRelocks
  PROVE  TunnelInv'
<1> USE TunnelAssumption DEF TunnelInv, PingRelocks, Unlock, queueVars,
                             readVars, beatVars
<1>1. TunnelTypeOK'
  BY DEF TunnelTypeOK
<1>2. SessionInv'
  BY DEF SessionInv
<1>3. BeatInv'
  BY DEF BeatInv
<1>4. QueueInv'
  BY DEF QueueInv
<1> QED
  BY <1>1, <1>2, <1>3, <1>4

\* A handler has a frame to send.
LEMMA HandlerSendsStep ==
  ASSUME TunnelInv, HandlerSends
  PROVE  TunnelInv'
<1> USE TunnelAssumption DEF TunnelInv, HandlerSends, queueVars, readVars,
                             beatVars
<1>1. TunnelTypeOK'
  BY DEF TunnelTypeOK
<1>2. SessionInv'
  BY DEF SessionInv
<1>3. BeatInv'
  BY DEF BeatInv
<1>4. QueueInv'
  BY DEF QueueInv
<1> QED
  BY <1>1, <1>2, <1>3, <1>4

\* It is queued.
LEMMA HandlerQueuesStep ==
  ASSUME TunnelInv, HandlerQueues
  PROVE  TunnelInv'
<1> USE TunnelAssumption DEF TunnelInv, HandlerQueues, readVars, beatVars
<1>1. /\ out' \in [Slots -> 0 .. Cap]
      /\ \A t \in Slots : sink[t] = "closed" => out'[t] = out[t]
  <2>1. PICK s \in {cur, handle} : Enqueue(s)
    OBVIOUS
  <2>2. s \in Slots \cup {NoSlot}
    BY <2>1 DEF TunnelTypeOK
  <2> QED
    BY <2>1, <2>2, EnqueueFits
<1>2. TunnelTypeOK'
  BY <1>1 DEF TunnelTypeOK
<1>3. SessionInv'
  BY DEF SessionInv
<1>4. BeatInv'
  BY DEF BeatInv
<1>5. QueueInv'
  BY <1>1 DEF QueueInv
<1> QED
  BY <1>2, <1>3, <1>4, <1>5

\* A tick of the heartbeat.
LEMMA BeatStep ==
  ASSUME TunnelInv, Beat
  PROVE  TunnelInv'
<1> USE TunnelAssumption DEF TunnelInv, Beat, queueVars, readVars, workVars
<1>1. TunnelTypeOK'
  BY Zeros DEF TunnelTypeOK
<1>2. SessionInv'
  BY DEF SessionInv
<1>3. BeatInv'
  BY DEF BeatInv, TunnelTypeOK
<1>4. QueueInv'
  BY DEF QueueInv
<1> QED
  BY <1>1, <1>2, <1>3, <1>4

\* The ping is queued.
LEMMA PingStep ==
  ASSUME TunnelInv, Ping
  PROVE  TunnelInv'
<1> USE TunnelAssumption DEF TunnelInv, Ping, readVars, workVars
<1>1. /\ out' \in [Slots -> 0 .. Cap]
      /\ \A t \in Slots : sink[t] = "closed" => out'[t] = out[t]
  <2>1. handle \in Slots \cup {NoSlot}
    BY DEF TunnelTypeOK
  <2> QED
    BY <2>1, EnqueueFits
<1>2. TunnelTypeOK'
  BY <1>1 DEF TunnelTypeOK
<1>3. SessionInv'
  BY DEF SessionInv
<1>4. BeatInv'
  BY DEF BeatInv
<1>5. QueueInv'
  BY <1>1 DEF QueueInv
<1> QED
  BY <1>2, <1>3, <1>4, <1>5

\* Time passes.
LEMMA PassStep ==
  ASSUME TunnelInv, Pass
  PROVE  TunnelInv'
<1> USE TunnelAssumption DEF TunnelInv, Pass, queueVars, readVars, workVars
<1>1. TunnelTypeOK'
  BY DEF TunnelTypeOK, QuietMax
<1>2. SessionInv'
  BY DEF SessionInv
<1>3. BeatInv'
  BY DEF BeatInv, TunnelTypeOK
<1>4. QueueInv'
  BY DEF QueueInv
<1> QED
  BY <1>1, <1>2, <1>3, <1>4

-----------------------------------------------------------------------------
LEMMA InitInv == TunnelInit => TunnelInv
<1> SUFFICES ASSUME TunnelInit PROVE TunnelInv
  OBVIOUS
<1> USE TunnelAssumption DEF TunnelInit
<1>1. TunnelTypeOK
  BY Zeros DEF TunnelTypeOK
<1>2. SessionInv /\ BeatInv /\ QueueInv
  BY DEF SessionInv, BeatInv, QueueInv
<1> QED
  BY <1>1, <1>2 DEF TunnelInv

\* The ways a session ends.
LEMMA EndsStep ==
  ASSUME TunnelInv,
         \/ SocketEnds \/ HeartbeatEnds \/ ConfigurationEnds \/ ResetEnds
         \/ DrainEnds
  PROVE  TunnelInv'
<1>1. End
  BY DEF SocketEnds, HeartbeatEnds, ConfigurationEnds, ResetEnds, DrainEnds
<1> QED
  BY <1>1, EndStep

LEMMA StepInv == TunnelInv /\ [TunnelNext]_tunnelVars => TunnelInv'
<1> SUFFICES ASSUME TunnelInv, [TunnelNext]_tunnelVars PROVE TunnelInv'
  OBVIOUS
<1>1. CASE Sending
  BY <1>1, PumpSendsStep, PumpQueuesStep, SinkTakesStep, SinkSendsStep,
     SinkDroppedStep, SinkEndsStep DEF Sending
<1>2. CASE Receiving
  BY <1>2, ArriveStep, RoomFoundStep, ReadEndsStep, LoopEndsStep
     DEF Receiving
<1>3. CASE Session
  BY <1>3, ConnectStep, GreetStep, WatcherResetsStep, EndsStep DEF Session
<1>4. CASE Draining
  BY <1>4, TakeStep, AliveStep, HandleStep, HandlerEndsStep, PingRelocksStep,
     HandlerSendsStep, HandlerQueuesStep, EndsStep DEF Draining
<1>5. CASE Beating
  BY <1>5, BeatStep, PingStep, PassStep DEF Beating
<1>6. CASE UNCHANGED tunnelVars
  BY <1>6 DEF tunnelVars, queueVars, readVars, workVars, beatVars, TunnelInv,
     TunnelTypeOK, SessionInv, BeatInv, QueueInv
<1> QED
  BY <1>1, <1>2, <1>3, <1>4, <1>5, <1>6 DEF TunnelNext

\* The invariant holds in every state of every behaviour.
LEMMA AlwaysInv == TunnelSpec => []TunnelInv
  BY InitInv, StepInv, PTL DEF TunnelSpec

-----------------------------------------------------------------------------
\* The variables of a connection are always what they are meant to be; above
\* all, no queue holds more than its capacity.
THEOREM TunnelTypeCorrect == TunnelSpec => []TunnelTypeOK
  BY AlwaysInv, PTL DEF TunnelInv

\* Time passes beyond the limit of silence only while the heartbeat waits for
\* room for its ping (heartbeat).
THEOREM SilenceIsNoticed == TunnelSpec => SilenceNoticed
<1>1. ASSUME TunnelInv, [TunnelNext]_tunnelVars,
             quiet' > quiet, quiet' > StaleAfter + Interval
      PROVE  beat = "send" /\ ~CanSend(handle)
  <2>1. Pass
    <3>1. quiet' # quiet /\ quiet' # 0
      BY <1>1 DEF TunnelInv, TunnelTypeOK
    <3> QED
      BY <1>1, <3>1 DEF TunnelNext, Sending, Receiving, Session, Draining,
         Beating, PumpSends, PumpQueues, SinkTakes, SinkSends, SinkDropped,
         SinkEnds,
         Arrive, RoomFound, ReadEnds, LoopEnds, Connect, Greet, SocketEnds,
         HeartbeatEnds, ConfigurationEnds, WatcherResets, ResetEnds, End,
         Take, Alive, Handle, HandlerEnds, PingRelocks, HandlerSends,
         HandlerQueues, DrainEnds, Beat, Ping, tunnelVars, queueVars,
         readVars, workVars, beatVars
  <2>2. tick = 0
    BY <1>1, <2>1, TunnelAssumption DEF TunnelInv, TunnelTypeOK, BeatInv, Pass
  <2> QED
    BY <1>1, <2>1, <2>2 DEF Pass, TunnelInv, TunnelTypeOK
<1>2. TunnelInv /\ [TunnelNext]_tunnelVars =>
        [quiet' > quiet /\ quiet' > StaleAfter + Interval =>
           beat = "send" /\ ~CanSend(handle)]_tunnelVars
  BY <1>1
<1> QED
  BY <1>2, AlwaysInv, PTL DEF TunnelSpec, SilenceNoticed

-----------------------------------------------------------------------------
(* What a session leaves behind *)

\* The pumps that wait with a sender of s.
Leftover(s) == {p \in Pumps : waiting[p] = s}

\* Once the session is over nobody new takes a sender of it, and its queue
\* grows only by what one of those who have one sends: what its send task has
\* still to do shrinks.
LeftoversShrink ==
  [][\A s \in Slots : cur # s /\ cur' # s /\ sink[s] # "closed" =>
       /\ Leftover(s)' \subseteq Leftover(s)
       /\ out'[s] > out[s] => Leftover(s)' # Leftover(s)]_tunnelVars

\* What a session leaves behind comes to an end: the safety half of
\* EndedSocketsClose.
THEOREM NobodyJoins == TunnelSpec => LeftoversShrink
<1>1. ASSUME TunnelInv, [TunnelNext]_tunnelVars,
             NEW s \in Slots, cur # s, cur' # s, sink[s] # "closed"
      PROVE  /\ Leftover(s)' \subseteq Leftover(s)
             /\ out'[s] > out[s] => Leftover(s)' # Leftover(s)
  <2>1. handle # s
    BY <1>1, TunnelAssumption DEF TunnelInv, TunnelTypeOK
  <2>2. CASE \E p \in Pumps : PumpSends(p)
    BY <1>1, <2>1, <2>2 DEF PumpSends, Leftover, TunnelInv, TunnelTypeOK
  <2>3. CASE \E p \in Pumps : PumpQueues(p)
    <3>1. PICK p \in Pumps : PumpQueues(p)
      BY <2>3
    <3>2. waiting' = [waiting EXCEPT ![p] = NoSlot] /\ waiting[p] # NoSlot
      BY <3>1 DEF PumpQueues
    <3>3. Leftover(s)' = Leftover(s) \ {p}
      BY <1>1, <3>2, TunnelAssumption DEF Leftover, TunnelInv, TunnelTypeOK
    <3>4. CASE waiting[p] = s
      BY <3>3, <3>4 DEF Leftover
    <3>5. CASE waiting[p] # s
      BY <1>1, <3>1, <3>3, <3>5 DEF PumpQueues, Enqueue, TunnelInv,
         TunnelTypeOK
    <3> QED
      BY <3>4, <3>5
  <2>4. CASE UNCHANGED waiting /\ (out'[s] = out[s] \/ out'[s] < out[s])
    <3>1. out[s] \in Nat /\ out'[s] \in Nat
      BY <1>1, StepInv DEF TunnelInv, TunnelTypeOK
    <3>2. ~(out'[s] > out[s])
      BY <2>4, <3>1
    <3> QED
      BY <2>4, <3>2 DEF Leftover
  <2>5. CASE Greet \/ HandlerQueues \/ Ping
    <3>1. PICK t \in {cur, handle} : Enqueue(t) /\ UNCHANGED waiting
      BY <2>5 DEF Greet, HandlerQueues, Ping
    <3>2. out'[s] = out[s]
      BY <1>1, <2>1, <3>1 DEF Enqueue
    <3> QED
      BY <2>4, <3>1, <3>2
  <2>6. CASE \E t \in Slots : \/ SinkTakes(t) \/ SinkSends(t)
                              \/ SinkDropped(t) \/ SinkEnds(t)
    BY <1>1, <2>4, <2>6 DEF SinkTakes, SinkSends, SinkDropped, SinkEnds,
       TunnelInv, TunnelTypeOK
  <2>7. CASE UNCHANGED <<waiting, out>>
    BY <2>4, <2>7
  <2> QED
    BY <1>1, <2>2, <2>3, <2>5, <2>6, <2>7 DEF TunnelNext, Sending, Receiving,
       Session, Draining, Beating, Arrive, RoomFound, ReadEnds, LoopEnds,
       Connect, SocketEnds,
       HeartbeatEnds, ConfigurationEnds, WatcherResets, ResetEnds, End,
       Take, Alive, Handle, HandlerEnds, PingRelocks, HandlerSends,
       DrainEnds, Beat, Pass, tunnelVars, queueVars
<1>2. TunnelInv /\ [TunnelNext]_tunnelVars =>
        [\A s \in Slots : cur # s /\ cur' # s /\ sink[s] # "closed" =>
           /\ Leftover(s)' \subseteq Leftover(s)
           /\ out'[s] > out[s] => Leftover(s)' # Leftover(s)]_tunnelVars
  BY <1>1
<1> QED
  BY <1>2, AlwaysInv, PTL DEF TunnelSpec, LeftoversShrink
=============================================================================
