---------------------------- MODULE MCSupervisor ----------------------------
(* Two servers, so that a handler can be dropped between the two; two specs *)
(* for a changed spec; three incarnations, so that one server is replaced   *)
(* while the other runs.                                                    *)
EXTENDS Supervisor, TLC

CONSTANTS s1, s2, a, b, i1, i2, i3

MCServers  == {s1, s2}
MCSpecs    == {a, b}
MCInc      == {i1, i2, i3}
MCSymmetry == Permutations(MCServers) \cup Permutations(MCSpecs)
                \cup Permutations(MCInc)
=============================================================================
