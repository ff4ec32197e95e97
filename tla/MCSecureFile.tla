--------------------------- MODULE MCSecureFile ---------------------------
(* Two writers, the least that can meet; names for a temporary file of each *)
(* and a backup or a file left by a killed writer.                          *)
EXTENDS SecureFile, TLC

CONSTANTS n1, n2, n3

MCNames == {n1, n2, n3}
MCHows == {"unix", "windows", "state"}
MCSymmetry == Permutations(Processes) \cup Permutations(Values)
              \cup Permutations({n2, n3})
=============================================================================
