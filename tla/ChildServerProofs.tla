-------------------------- MODULE ChildServerProofs --------------------------
(***************************************************************************)
(* Proofs about ChildServer, for any number of incarnations.               *)
(*                                                                         *)
(* The argument.  The swap of `reported' elects one winner, so claimed     *)
(* has at most one element, and exited trails reported by exactly the      *)
(* winner's step from "store" (ReportInv).  Hence whoever marks an         *)
(* incarnation exited leaves a winner behind that has not yet asked the    *)
(* handle for a sender; as the handle is wired before the hello reads      *)
(* has_exited, a child the hello saw alive is reported through the sender  *)
(* of that session (SilenceInv).                                           *)
(***************************************************************************)
EXTENDS ChildServer, TLAPS

-----------------------------------------------------------------------------
(* The strengthenings *)

\* The election of the one reporter, and what an unborn incarnation is.
ReportInv ==
  /\ TypeOK
  /\ OneObituary
  /\ ExitedIsClaimed
  /\ \A i \in Inc : ~reported[i] => claimed[i] = {}
  /\ \A i \in Inc : \A r \in Reporters : pc[i][r] = "store" => r \in claimed[i]
  /\ \A i \in Inc : Carrying(i) => reported[i]
  /\ \A i \in Inc : stage[i] = "unborn" =>
       ~reported[i] /\ \A r \in Reporters : pc[i][r] = "none"

\* Nothing is owed to the backend before the hello of a session is read.
SilenceInv ==
  /\ NoSilentDeath
  /\ sess \in {"down", "wired"} => present = {}

\* The drain loop starts to report only what a pump has reported before it.
DrainInv ==
  /\ DrainNeverReports
  /\ \A i \in Inc : pc[i]["drain"] # "none" => reported[i]
  /\ \A i \in Inc : stage[i] = "managed" /\ pc[i]["stdin"] = "ended"
                      => reported[i]

\* One handle is in use at a time, and a process outside it was killed.
ProcessInv ==
  /\ \A i, j \in Inc :
       /\ stage[i] \in {"managed", "taken", "stopping"}
       /\ stage[j] \in {"managed", "taken", "stopping"}
       => i = j
  /\ \A i \in Inc : proc[i] = "running" =>
       stage[i] \in {"managed", "taken", "abandoned"}

-----------------------------------------------------------------------------
(* The initial state is well typed (Init). *)
LEMMA InitType == Init => TypeOK
<1> SUFFICES ASSUME Init PROVE TypeOK
  OBVIOUS
<1>1. pc \in [Inc -> [Reporters -> PCs]]
  <2>1. [r \in Reporters |-> "none"] \in [Reporters -> PCs]
    BY DEF PCs
  <2> QED BY <2>1 DEF Init
<1>2. claimed \in [Inc -> SUBSET Reporters]
  BY DEF Init
<1> QED BY <1>1, <1>2 DEF Init, TypeOK, Stages

(* Type correctness: every variable keeps the shape TypeOK gives it. *)
THEOREM TypeCorrect == Spec => []TypeOK
<1>1. Init => TypeOK
  BY InitType
<1>2. TypeOK /\ [Next]_vars => TypeOK'
  <2> SUFFICES ASSUME TypeOK, [Next]_vars PROVE TypeOK'
    OBVIOUS
  <2> USE DEF TypeOK, Stages, PCs, Reporters, Pumps, GoTo, Home
  <2>1. ASSUME NEW i \in Inc, Die(i) \/ StdoutEof(i) \/ StdinFails(i)
        PROVE  TypeOK'
    BY <2>1 DEF Die, StdoutEof, StdinFails, childVars, reportVars, sessionVars
  <2>2. ASSUME NEW i \in Inc, Spawn(i)
        PROVE  TypeOK'
    BY <2>2 DEF Spawn
  <2>3. ASSUME NEW i \in Inc, SendSpawnResult(i) \/ DrainFrame(i)
        PROVE  TypeOK'
    <3>1. CASE SendSpawnResult(i)
      BY <3>1 DEF SendSpawnResult, childVars, reportVars
    <3>2. CASE DrainFrame(i)
      BY <3>2 DEF DrainFrame, childVars, sessionVars
    <3> QED BY <2>3, <3>1, <3>2
  <2>4. ASSUME NEW i \in Inc, TakeOut(i) \/ Kill(i)
        PROVE  TypeOK'
    BY <2>4 DEF TakeOut, Kill, reportVars, sessionVars
  <2>5. ASSUME NEW i \in Inc, Reap(i)
        PROVE  TypeOK'
    BY <2>5 DEF Reap, sessionVars
  <2>6. ASSUME NEW i \in Inc, StdinDisconnected(i)
        PROVE  TypeOK'
    BY <2>6 DEF StdinDisconnected, childVars, sessionVars
  <2>7. ASSUME NEW i \in Inc, NEW r \in Reporters,
               Observe(i, r) \/ Snapshot(i, r)
        PROVE  TypeOK'
    <3>1. pc' \in [Inc -> [Reporters -> PCs]]
      <4>1. CASE Observe(i, r)
        <5>1. GoTo(i, r, "swap") BY <4>1 DEF Observe
        <5> QED BY ONLY TypeOK, <5>1 DEF TypeOK, GoTo, PCs
      <4>2. CASE Snapshot(i, r)
        <5>1. GoTo(i, r, IF broker THEN "queue" ELSE Home(r))
          BY <4>2 DEF Snapshot
        <5>2. (IF broker THEN "queue" ELSE Home(r)) \in PCs
          BY DEF Home, PCs
        <5> QED BY ONLY TypeOK, <5>1, <5>2 DEF TypeOK, GoTo
      <4> QED BY <2>7, <4>1, <4>2
    <3>2. UNCHANGED <<childVars, exited, reported, claimed, sessionVars>>
      BY <2>7 DEF Observe, Snapshot
    <3> QED BY ONLY TypeOK, <3>1, <3>2 DEF TypeOK, childVars, sessionVars
  <2>8. ASSUME NEW i \in Inc, NEW r \in Reporters,
               Win(i, r) \/ Lose(i, r) \/ Store(i, r)
        PROVE  TypeOK'
    <3>1. CASE Win(i, r)
      BY <3>1 DEF Win, childVars, sessionVars
    <3>2. CASE Lose(i, r)
      BY <3>2 DEF Lose, childVars, sessionVars
    <3>3. CASE Store(i, r)
      BY <3>3 DEF Store, childVars, sessionVars
    <3> QED BY <2>8, <3>1, <3>2, <3>3
  <2>9. ASSUME NEW i \in Inc, NEW r \in Reporters, Queue(i, r)
        PROVE  TypeOK'
    BY <2>9 DEF Queue, childVars
  <2>10. CASE Wire \/ HeartbeatClear
    BY <2>10 DEF Wire, HeartbeatClear, childVars, reportVars
  <2>11. CASE ReadHello
    BY <2>11 DEF ReadHello, childVars, reportVars
  <2>12. CASE SendHello
    <3>1. view' \in Inc \cup {NoInc}
      <4>1. CASE announced = {}
        BY <2>12, <4>1 DEF SendHello
      <4>2. CASE announced # {}
        BY <2>12, <4>2 DEF SendHello
      <4> QED BY <4>1, <4>2
    <3> QED BY <2>12, <3>1 DEF SendHello, childVars, reportVars
  <2>13. CASE EndSession
    <3>1. pc' \in [Inc -> [Reporters -> PCs]]
      BY <2>13 DEF EndSession
    <3>2. stage' \in [Inc -> Stages]
      BY <2>13 DEF EndSession
    <3> HIDE DEF Stages, PCs, Reporters, Pumps
    <3> QED BY <2>13, <3>1, <3>2 DEF EndSession
  <2>14. CASE UNCHANGED vars
    BY <2>14 DEF vars
  <2> QED
    BY <2>1, <2>2, <2>3, <2>4, <2>5, <2>6, <2>7, <2>8, <2>9, <2>10, <2>11,
       <2>12, <2>13, <2>14
    DEF Next, Environment, Supervision, Reporting, Session, Report
<1> QED
  BY <1>1, <1>2, PTL DEF Spec

-----------------------------------------------------------------------------
(* The election: ReportInv is inductive.  Each action is one step; those    *)
(* that leave the reporters alone are taken together.                       *)
LEMMA ReportInvariant == Spec => []ReportInv
<1>1. Init => ReportInv
  <2>1. Init => TypeOK
    BY InitType
  <2>2. Init => OneObituary /\ ExitedIsClaimed
    BY DEF Init, OneObituary, ExitedIsClaimed
  <2> QED BY <2>1, <2>2 DEF Init, ReportInv, Carrying
<1>2. TypeOK' /\ ReportInv /\ [Next]_vars => ReportInv'
  <2> SUFFICES ASSUME TypeOK', ReportInv, [Next]_vars PROVE ReportInv'
    OBVIOUS
  <2> USE DEF ReportInv, OneObituary, ExitedIsClaimed, Carrying, TypeOK,
              Reporters, Pumps, GoTo, Home
  <2>1. ASSUME NEW i \in Inc, Die(i) \/ SendSpawnResult(i)
        PROVE  ReportInv'
    BY <2>1 DEF Die, SendSpawnResult, childVars, reportVars
  <2>2. ASSUME NEW i \in Inc, StdoutEof(i)
        PROVE  ReportInv'
    BY <2>2 DEF StdoutEof, childVars
  <2>3. ASSUME NEW i \in Inc, StdinFails(i)
        PROVE  ReportInv'
    BY <2>3 DEF StdinFails, childVars
  <2>4. ASSUME NEW i \in Inc, StdinDisconnected(i)
        PROVE  ReportInv'
    BY <2>4 DEF StdinDisconnected, childVars
  <2>5. ASSUME NEW i \in Inc, DrainFrame(i)
        PROVE  ReportInv'
    <3>1. /\ stage[i] = "managed"
          /\ pc[i]["drain"] = "none"
          /\ pc' = [pc EXCEPT ![i]["drain"] = "swap"]
          /\ UNCHANGED <<stage, exited, reported, claimed>>
      BY <2>5 DEF DrainFrame, LockFree, childVars
    <3> QED BY <3>1
  <2>6. ASSUME NEW i \in Inc, Spawn(i)
        PROVE  ReportInv'
    BY <2>6 DEF Spawn
  <2>7. ASSUME NEW i \in Inc, TakeOut(i) \/ Kill(i)
        PROVE  ReportInv'
    BY <2>7 DEF TakeOut, Kill, reportVars
  <2>8. ASSUME NEW i \in Inc, Reap(i)
        PROVE  ReportInv'
    BY <2>8 DEF Reap
  <2>9. ASSUME NEW i \in Inc, NEW r \in Reporters, Observe(i, r)
        PROVE  ReportInv'
    BY <2>9 DEF Observe, childVars
  <2>10. ASSUME NEW i \in Inc, NEW r \in Reporters, Win(i, r)
         PROVE  ReportInv'
    BY <2>10 DEF Win, childVars
  <2>11. ASSUME NEW i \in Inc, NEW r \in Reporters, Lose(i, r)
         PROVE  ReportInv'
    BY <2>11 DEF Lose, childVars
  <2>12. ASSUME NEW i \in Inc, NEW r \in Reporters, Store(i, r)
         PROVE  ReportInv'
    BY <2>12 DEF Store, childVars
  <2>13. ASSUME NEW i \in Inc, NEW r \in Reporters, Snapshot(i, r)
         PROVE  ReportInv'
    BY <2>13 DEF Snapshot, childVars
  <2>14. ASSUME NEW i \in Inc, NEW r \in Reporters, Queue(i, r)
         PROVE  ReportInv'
    BY <2>14 DEF Queue, childVars
  <2>15. CASE Wire \/ ReadHello \/ SendHello \/ HeartbeatClear
    BY <2>15 DEF Wire, ReadHello, SendHello, HeartbeatClear, childVars,
                 reportVars
  <2>16. CASE EndSession
    BY <2>16 DEF EndSession
  <2>17. CASE UNCHANGED vars
    BY <2>17 DEF vars
  <2> QED
    BY <2>1, <2>2, <2>3, <2>4, <2>5, <2>6, <2>7, <2>8, <2>9, <2>10, <2>11,
       <2>12, <2>13, <2>14, <2>15, <2>16, <2>17
    DEF Next, Environment, Supervision, Reporting, Session, Report
<1> QED
  BY <1>1, <1>2, TypeCorrect, PTL DEF Spec

(* At most one reporter obtains the terminal error of an incarnation        *)
(* (take_terminal_error), for any number of incarnations.                   *)
THEOREM OneReporter == Spec => []OneObituary
<1>1. ReportInv => OneObituary
  BY DEF ReportInv
<1> QED BY <1>1, ReportInvariant, PTL

(* A child marked exited has an error that is claimed, and a claimed error  *)
(* is on its way to mark the child exited (ChildDiagnostics).               *)
THEOREM ExitedClaimed == Spec => []ExitedIsClaimed
<1>1. ReportInv => ExitedIsClaimed
  BY DEF ReportInv
<1> QED BY <1>1, ReportInvariant, PTL

-----------------------------------------------------------------------------
(* No silent death: what the hello or a spawn of the session announced and  *)
(* is marked exited has been reported in the session, or is about to be.    *)
THEOREM SilentDeathNever == Spec => []NoSilentDeath
<1>1. Init => SilenceInv
  BY DEF Init, SilenceInv, NoSilentDeath
<1>2. ReportInv /\ ReportInv' /\ SilenceInv /\ [Next]_vars => SilenceInv'
  <2> SUFFICES ASSUME ReportInv, ReportInv', SilenceInv, [Next]_vars
               PROVE  SilenceInv'
    OBVIOUS
  <2> USE DEF SilenceInv, NoSilentDeath, Carrying, TypeOK, Reporters, Pumps,
              GoTo, Home
  <2>t. TypeOK /\ TypeOK'
    BY DEF ReportInv
  <2>1. ASSUME NEW i \in Inc, Die(i) \/ SendSpawnResult(i)
        PROVE  SilenceInv'
    BY <2>1, <2>t DEF Die, SendSpawnResult, childVars, reportVars, sessionVars
  <2>2. ASSUME NEW i \in Inc, StdoutEof(i)
        PROVE  SilenceInv'
    BY <2>2, <2>t DEF StdoutEof, childVars, sessionVars
  <2>3. ASSUME NEW i \in Inc, StdinFails(i)
        PROVE  SilenceInv'
    BY <2>3, <2>t DEF StdinFails, childVars, sessionVars
  <2>4. ASSUME NEW i \in Inc, StdinDisconnected(i)
        PROVE  SilenceInv'
    BY <2>4, <2>t DEF StdinDisconnected, childVars, sessionVars
  <2>5. ASSUME NEW i \in Inc, DrainFrame(i)
        PROVE  SilenceInv'
    <3>1. /\ pc[i]["drain"] = "none"
          /\ pc' = [pc EXCEPT ![i]["drain"] = "swap"]
          /\ UNCHANGED <<stage, exited, sess, broker, present, told>>
      BY <2>5 DEF DrainFrame, LockFree, childVars, sessionVars
    <3> QED BY <3>1, <2>t
  <2>6. ASSUME NEW i \in Inc, Spawn(i)
        PROVE  SilenceInv'
    <3>1. ~exited[i]
      BY <2>6 DEF Spawn, ReportInv, ExitedIsClaimed
    <3>2. \A j \in Inc : j # i => pc'[j] = pc[j] /\ stage'[j] = stage[j]
      BY <2>6, <2>t DEF Spawn
    <3> QED BY <3>1, <3>2, <2>6, <2>t DEF Spawn
  <2>7. ASSUME NEW i \in Inc, TakeOut(i) \/ Kill(i)
        PROVE  SilenceInv'
    BY <2>7, <2>t DEF TakeOut, Kill, reportVars, sessionVars
  <2>8. ASSUME NEW i \in Inc, Reap(i)
        PROVE  SilenceInv'
    BY <2>8, <2>t DEF Reap, sessionVars
  <2>9. ASSUME NEW i \in Inc, NEW r \in Reporters, Observe(i, r)
        PROVE  SilenceInv'
    BY <2>9, <2>t DEF Observe, childVars, sessionVars
  <2>10. ASSUME NEW i \in Inc, NEW r \in Reporters, Win(i, r)
         PROVE  SilenceInv'
    BY <2>10, <2>t DEF Win, childVars, sessionVars
  <2>11. ASSUME NEW i \in Inc, NEW r \in Reporters, Lose(i, r)
         PROVE  SilenceInv'
    <3>1. ~exited[i] => \E q \in Reporters : q # r /\ pc[i][q] = "store"
      BY <2>11 DEF Lose, ReportInv, ExitedIsClaimed
    <3> QED BY <3>1, <2>11, <2>t DEF Lose, childVars, sessionVars
  <2>12. ASSUME NEW i \in Inc, NEW r \in Reporters, Store(i, r)
         PROVE  SilenceInv'
    BY <2>12, <2>t DEF Store, childVars, sessionVars
  <2>13. ASSUME NEW i \in Inc, NEW r \in Reporters, Snapshot(i, r)
         PROVE  SilenceInv'
    BY <2>13, <2>t DEF Snapshot, childVars, sessionVars
  <2>14. ASSUME NEW i \in Inc, NEW r \in Reporters, Queue(i, r)
         PROVE  SilenceInv'
    BY <2>14, <2>t DEF Queue, childVars
  <2>15. CASE Wire \/ SendHello \/ HeartbeatClear
    BY <2>15, <2>t DEF Wire, SendHello, HeartbeatClear, childVars, reportVars
  <2>16. CASE ReadHello
    BY <2>16, <2>t DEF ReadHello, childVars, reportVars
  <2>17. CASE EndSession
    BY <2>17, <2>t DEF EndSession
  <2>18. CASE UNCHANGED vars
    BY <2>18 DEF vars
  <2> QED
    BY <2>1, <2>2, <2>3, <2>4, <2>5, <2>6, <2>7, <2>8, <2>9, <2>10, <2>11,
       <2>12, <2>13, <2>14, <2>15, <2>16, <2>17, <2>18
    DEF Next, Environment, Supervision, Reporting, Session, Report
<1>3. SilenceInv => NoSilentDeath
  BY DEF SilenceInv
<1> QED
  BY <1>1, <1>2, <1>3, ReportInvariant, PTL DEF Spec

-----------------------------------------------------------------------------
(* The drain loop never wins the terminal error: a child whose stdin pump   *)
(* is gone, or that is marked exited, was claimed by a pump before.         *)
THEOREM DrainIsSilent == Spec => []DrainNeverReports
<1>1. Init => DrainInv
  BY DEF Init, DrainInv, DrainNeverReports, Reporters, Pumps
<1>2. ReportInv /\ ReportInv' /\ DrainInv /\ [Next]_vars => DrainInv'
  <2> SUFFICES ASSUME ReportInv, ReportInv', DrainInv, [Next]_vars
               PROVE  DrainInv'
    OBVIOUS
  <2> USE DEF DrainInv, DrainNeverReports, TypeOK, Reporters, Pumps, GoTo, Home
  <2>t. TypeOK /\ TypeOK'
    BY DEF ReportInv
  <2>1. ASSUME NEW i \in Inc, Die(i) \/ SendSpawnResult(i)
        PROVE  DrainInv'
    BY <2>1, <2>t DEF Die, SendSpawnResult, childVars, reportVars
  <2>2. ASSUME NEW i \in Inc, StdoutEof(i)
        PROVE  DrainInv'
    BY <2>2, <2>t DEF StdoutEof, childVars
  <2>3. ASSUME NEW i \in Inc, StdinFails(i)
        PROVE  DrainInv'
    BY <2>3, <2>t DEF StdinFails, childVars
  <2>4. ASSUME NEW i \in Inc, StdinDisconnected(i)
        PROVE  DrainInv'
    BY <2>4, <2>t DEF StdinDisconnected, childVars
  <2>5. ASSUME NEW i \in Inc, DrainFrame(i)
        PROVE  DrainInv'
    <3>1. /\ pc' = [pc EXCEPT ![i]["drain"] = "swap"]
          /\ UNCHANGED <<stage, reported, claimed>>
      BY <2>5 DEF DrainFrame, childVars
    <3>2. reported[i]
      BY <2>5 DEF DrainFrame, ReportInv, ExitedIsClaimed
    <3> QED BY <3>1, <3>2, <2>t
  <2>6. ASSUME NEW i \in Inc, Spawn(i)
        PROVE  DrainInv'
    BY <2>6, <2>t DEF Spawn
  <2>7. ASSUME NEW i \in Inc, TakeOut(i) \/ Kill(i)
        PROVE  DrainInv'
    BY <2>7, <2>t DEF TakeOut, Kill, reportVars
  <2>8. ASSUME NEW i \in Inc, Reap(i)
        PROVE  DrainInv'
    BY <2>8, <2>t DEF Reap
  <2>9. ASSUME NEW i \in Inc, NEW r \in Reporters, Observe(i, r)
        PROVE  DrainInv'
    BY <2>9, <2>t DEF Observe, childVars
  <2>10. ASSUME NEW i \in Inc, NEW r \in Reporters, Win(i, r)
         PROVE  DrainInv'
    BY <2>10, <2>t DEF Win, childVars
  <2>11. ASSUME NEW i \in Inc, NEW r \in Reporters, Lose(i, r) \/ Store(i, r)
         PROVE  DrainInv'
    <3>1. reported[i]
      BY <2>11 DEF Lose, Store, ReportInv, Carrying
    <3>2. CASE Lose(i, r)
      BY <3>1, <3>2, <2>t DEF Lose, childVars
    <3>3. CASE Store(i, r)
      BY <3>1, <3>3, <2>t DEF Store, childVars
    <3> QED BY <2>11, <3>2, <3>3
  <2>12. ASSUME NEW i \in Inc, NEW r \in Reporters,
                Snapshot(i, r) \/ Queue(i, r)
         PROVE  DrainInv'
    <3>1. reported[i]
      BY <2>12 DEF Snapshot, Queue, ReportInv, Carrying
    <3>2. CASE Snapshot(i, r)
      BY <3>1, <3>2, <2>t DEF Snapshot, childVars
    <3>3. CASE Queue(i, r)
      BY <3>1, <3>3, <2>t DEF Queue, childVars
    <3> QED BY <2>12, <3>2, <3>3
  <2>13. CASE Wire \/ ReadHello \/ SendHello \/ HeartbeatClear
    BY <2>13, <2>t DEF Wire, ReadHello, SendHello, HeartbeatClear, childVars,
                       reportVars
  <2>14. CASE EndSession
    <3>1. \A j \in Inc, r \in Reporters : pc[j][r] = "queue" => reported[j]
      BY DEF ReportInv, Carrying
    <3> QED BY <3>1, <2>14, <2>t DEF EndSession
  <2>15. CASE UNCHANGED vars
    BY <2>15 DEF vars
  <2> QED
    BY <2>1, <2>2, <2>3, <2>4, <2>5, <2>6, <2>7, <2>8, <2>9, <2>10, <2>11,
       <2>12, <2>13, <2>14, <2>15
    DEF Next, Environment, Supervision, Reporting, Session, Report
<1>3. DrainInv => DrainNeverReports
  BY DEF DrainInv
<1> QED
  BY <1>1, <1>2, <1>3, ReportInvariant, PTL DEF Spec

-----------------------------------------------------------------------------
(* A replacement never runs beside the process it replaces, unless the      *)
(* handle of the old one was dropped in the middle of its shutdown().       *)
THEOREM OneProcessRuns == Spec => []OneProcess
<1>1. Init => ProcessInv
  BY DEF Init, ProcessInv
<1>2. TypeOK /\ ProcessInv /\ [Next]_vars => ProcessInv'
  <2> SUFFICES ASSUME TypeOK, ProcessInv, [Next]_vars PROVE ProcessInv'
    OBVIOUS
  <2> USE DEF ProcessInv, TypeOK
  <2>1. ASSUME NEW i \in Inc, Die(i)
        PROVE  ProcessInv'
    BY <2>1 DEF Die
  <2>2. ASSUME NEW i \in Inc, Spawn(i)
        PROVE  ProcessInv'
    BY <2>2 DEF Spawn, LockFree
  <2>3. ASSUME NEW i \in Inc, TakeOut(i)
        PROVE  ProcessInv'
    BY <2>3 DEF TakeOut
  <2>4. ASSUME NEW i \in Inc, Kill(i)
        PROVE  ProcessInv'
    BY <2>4 DEF Kill
  <2>5. ASSUME NEW i \in Inc, Reap(i)
        PROVE  ProcessInv'
    BY <2>5 DEF Reap
  <2>6. CASE EndSession
    BY <2>6 DEF EndSession
  <2>7. CASE UNCHANGED childVars
    BY <2>7 DEF childVars
  <2> QED
    BY <2>1, <2>2, <2>3, <2>4, <2>5, <2>6, <2>7
    DEF Next, Environment, Supervision, Reporting, Session, Report, vars,
        childVars, StdoutEof, StdinFails, SendSpawnResult, DrainFrame,
        StdinDisconnected, Observe, Win, Lose, Store, Snapshot, Queue, Wire,
        ReadHello, SendHello, HeartbeatClear
<1>3. ProcessInv => OneProcess
  BY DEF ProcessInv, OneProcess
<1> QED
  BY <1>1, <1>2, <1>3, TypeCorrect, PTL DEF Spec

-----------------------------------------------------------------------------
(* The way of a reporter is short: the safety half of DeathReported.        *)

\* The steps a reporter has left at most.
PCsLeft == [none |-> 0, ended |-> 0, queue |-> 1, snapshot |-> 2, store |-> 3,
            swap |-> 4, closing |-> 5, running |-> 6]

\* A reporter never goes back, whoever wins and whatever sessions and the
\* supervisor do meanwhile: each of its steps brings it nearer to its end,
\* unless it is only just started, with its process or by a frame
\* (report_terminal, take_terminal_error, the pumps).
ReportersAdvance ==
  [][\A i \in Inc, r \in Reporters : pc'[i][r] # pc[i][r] =>
       \/ PCsLeft[pc'[i][r]] < PCsLeft[pc[i][r]]
       \/ Spawn(i)
       \/ r = "drain" /\ DrainFrame(i)]_vars

(* A step of one reporter leaves all others where they are. *)
LEMMA GoToOne ==
  ASSUME TypeOK, NEW i \in Inc, NEW r \in Reporters, NEW label,
         GoTo(i, r, label),
         NEW j \in Inc, NEW q \in Reporters, pc'[j][q] # pc[j][q]
  PROVE  j = i /\ q = r /\ pc'[i][r] = label
  BY DEF TypeOK, GoTo

(* No reporter of any incarnation is ever sent back. *)
THEOREM ReportersNeverGoBack == Spec => ReportersAdvance
<1>1. ASSUME TypeOK, [Next]_vars,
             NEW i \in Inc, NEW r \in Reporters, pc'[i][r] # pc[i][r]
      PROVE  \/ PCsLeft[pc'[i][r]] < PCsLeft[pc[i][r]]
             \/ Spawn(i)
             \/ r = "drain" /\ DrainFrame(i)
  <2> USE DEF PCsLeft
  <2>1. ASSUME NEW j \in Inc, StdoutEof(j) \/ StdinFails(j) \/ StdinDisconnected(j)
        PROVE  PCsLeft[pc'[i][r]] < PCsLeft[pc[i][r]]
    BY <1>1, <2>1, GoToOne DEF StdoutEof, StdinFails, StdinDisconnected,
       Reporters, Pumps
  <2>2. ASSUME NEW j \in Inc, NEW q \in Reporters, Observe(j, q) \/ Win(j, q)
        PROVE  PCsLeft[pc'[i][r]] < PCsLeft[pc[i][r]]
    BY <1>1, <2>2, GoToOne DEF Observe, Win
  <2>3. ASSUME NEW j \in Inc, NEW q \in Reporters, Lose(j, q) \/ Store(j, q)
        PROVE  PCsLeft[pc'[i][r]] < PCsLeft[pc[i][r]]
    BY <1>1, <2>3, GoToOne DEF Lose, Store, Home
  <2>4. ASSUME NEW j \in Inc, NEW q \in Reporters, Snapshot(j, q) \/ Queue(j, q)
        PROVE  PCsLeft[pc'[i][r]] < PCsLeft[pc[i][r]]
    BY <1>1, <2>4, GoToOne DEF Snapshot, Queue, Home
  <2>5. ASSUME NEW j \in Inc, DrainFrame(j)
        PROVE  r = "drain" /\ DrainFrame(i)
    BY <1>1, <2>5, GoToOne DEF DrainFrame, Reporters
  <2>6. ASSUME NEW j \in Inc, Spawn(j)
        PROVE  Spawn(i)
    BY <1>1, <2>6 DEF Spawn, TypeOK
  <2>7. ASSUME NEW j \in Inc, Reap(j)
        PROVE  PCsLeft[pc'[i][r]] < PCsLeft[pc[i][r]]
    BY <1>1, <2>7 DEF Reap, TypeOK
  <2>8. CASE EndSession
    BY <1>1, <2>8 DEF EndSession, Home
  <2>9. CASE UNCHANGED pc
    BY <1>1, <2>9
  <2>10. ASSUME NEW j \in Inc, Die(j) \/ SendSpawnResult(j) \/ TakeOut(j) \/ Kill(j)
         PROVE  UNCHANGED pc
    BY <2>10 DEF Die, SendSpawnResult, TakeOut, Kill, reportVars
  <2>11. Wire \/ ReadHello \/ SendHello \/ HeartbeatClear \/ UNCHANGED vars
           => UNCHANGED pc
    BY DEF Wire, ReadHello, SendHello, HeartbeatClear, reportVars, vars
  <2> QED
    BY <1>1, <2>1, <2>2, <2>3, <2>4, <2>5, <2>6, <2>7, <2>8, <2>9, <2>10, <2>11
    DEF Next, Environment, Supervision, Reporting, Session, Report
<1>2. TypeOK /\ [Next]_vars =>
        [\A i \in Inc, r \in Reporters : pc'[i][r] # pc[i][r] =>
           \/ PCsLeft[pc'[i][r]] < PCsLeft[pc[i][r]]
           \/ Spawn(i)
           \/ r = "drain" /\ DrainFrame(i)]_vars
  BY <1>1
<1> QED
  BY <1>2, TypeCorrect, PTL DEF Spec, ReportersAdvance
=============================================================================
