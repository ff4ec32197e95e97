------------------------------- MODULE MCLogin -------------------------------
(* A small instance of Login for TLC.  Two commands may overlap, but not    *)
(* two logins with a key: one of them meets all the other commands.  A      *)
(* file that joins values of two legacy accounts is met by one at a time.   *)
EXTENDS Login, TLC

Joined(c) ==
  /\ c.key # None
  /\ \/ c.secret # None /\ c.secret.user # c.key.owner
     \/ c.device # None /\ c.device.id # c.key.owner

MCBound == \A p, q \in Processes :
             p # q /\ pc[p] # "idle" /\ pc[q] # "idle" =>
               /\ None \in {copy[p].key, copy[q].key}
                    \/ {pc[p], pc[q]} # {"saving"}
               /\ \A c \in {disk, copy[p], copy[q]} : ~Joined(c)

Symmetry == Permutations(Processes) \cup Permutations(Backends)
            \cup Permutations(InstallIds) \cup Permutations(UserIds)
            \cup Permutations(TokenIds) \cup Permutations(LegacyIds)
=============================================================================
