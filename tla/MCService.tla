----------------------------- MODULE MCService -----------------------------
(* Every platform, and two binaries: the one installed and one moved.       *)
EXTENDS Service, TLC

MCPlatforms == {"linux", "macos", "windows"}
MCSymmetry == Permutations(Binaries)
=============================================================================
