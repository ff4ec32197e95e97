------------------------------ MODULE Reconciler ------------------------------
(***************************************************************************)
(* What the supervisor promises, without handlers, processes or sessions.  *)
(* There is a goal, which the backend changes at will, and for every       *)
(* server at most one running spec.  A server is only ever started with    *)
(* the goal's spec of that moment, and never switches from one spec to     *)
(* another in one step: it is stopped in between.                          *)
(***************************************************************************)
CONSTANTS Servers, Specs, None

VARIABLES goal,     \* goal[s]: the spec wanted for s, or None
          running   \* running[s]: the spec s runs with, or None

States == [Servers -> Specs \cup {None}]

Init ==
  /\ goal = [s \in Servers |-> None]
  /\ running = [s \in Servers |-> None]

\* A snapshot or a delta.
NewGoal ==
  /\ goal' \in States
  /\ UNCHANGED running

\* Any servers are stopped: removed, replaced, or reset together.
Stop ==
  /\ \E S \in SUBSET Servers :
       running' = [s \in Servers |-> IF s \in S THEN None ELSE running[s]]
  /\ UNCHANGED goal

\* One server is started, as wanted.
Start(s) ==
  /\ running[s] = None
  /\ goal[s] # None
  /\ running' = [running EXCEPT ![s] = goal[s]]
  /\ UNCHANGED goal

Next == NewGoal \/ Stop \/ \E s \in Servers : Start(s)

Spec == Init /\ [][Next]_<<goal, running>>
=============================================================================
