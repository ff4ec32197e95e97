----------------------------- MODULE AtomicFile -----------------------------
(* What replacing a file promises its readers: the file is absent or holds  *)
(* a whole value, and changes to values somebody is writing only.  `gaps`   *)
(* is where the promise is weaker: the file may be absent for a while, and  *)
(* come back as it was; `fragile` is where a power loss, and nothing else,  *)
(* may tear it.                                                             *)
CONSTANTS Values, Absent, Torn

VARIABLES value,    \* what a reader finds
          offers,   \* the values of the writes under way
          past,     \* the values that may come back
          outage,   \* flips with every power loss
          gaps,
          fragile

vars == <<value, offers, past, outage, gaps, fragile>>

FileInit == value = Absent /\ offers = {} /\ past = {}

\* A reader never sees a value nobody offered, nor half of one.
Written ==
  /\ outage' = outage
  /\ \/ value' = value
     \/ value' \in offers
     \/ gaps /\ value' \in past \cup {Absent}

\* A power loss writes nothing, and tears what is not safe from it.
PowerFails ==
  /\ outage' # outage
  /\ value' # value => fragile /\ value' = Torn

FileStep == UNCHANGED <<gaps, fragile>> /\ (Written \/ PowerFails)

FileSpec == FileInit /\ [][FileStep]_vars
=============================================================================
