------------------------------ MODULE MCDaemon ------------------------------
(* Two servers, so that a reset can be dropped between the two; two        *)
(* incarnations, so that one is left from before a change of account; two  *)
(* accounts with an env_store each.  Failed spawns, which Supervisor.cfg   *)
(* covers, are not explored further here.                                  *)
EXTENDS Daemon, TLC

CONSTANTS s1, s2, i1, i2, c1, c2

MCServers   == {s1, s2}
MCInc       == {i1, i2}
MCConfig    == {c1, c2}
MCIdentity  == [c \in MCConfig |-> IF c = c1 THEN "ann" ELSE "bob"]
MCNamespace == MCIdentity
MCBound     == \A s \in MCServers : ~failed[s]
MCSymmetry  == Permutations(MCServers) \cup Permutations(MCInc)
=============================================================================
