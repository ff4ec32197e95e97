SPECIFICATION ServiceSpec
CONSTANTS
  Platforms <- MCPlatforms
  Binaries = {b1, b2}
  NoBin = NoBin
SYMMETRY MCSymmetry
INVARIANTS
  ServiceTypeOK
  InstallDecidesStarts
  KeepsInstalled
  UninstallEndsService
