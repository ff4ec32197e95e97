----------------------------- MODULE MCEnvStore -----------------------------
(* Two servers, so that the flush of one writes what an earlier flush of    *)
(* the other could not; one variable and one placeholder, so that an update *)
(* of one field meets a stored value of the other.                          *)
EXTENDS EnvStore, TLC

CONSTANTS s1, s2, k, p

MCServers  == {s1, s2}
MCEnvKeys  == {k}
MCPlaces   == {p}
MCSymmetry == Permutations(MCServers)
=============================================================================
