SPECIFICATION DaemonSpec
CONSTANTS
  s1 = s1
  s2 = s2
  i1 = i1
  i2 = i2
  c1 = c1
  c2 = c2
  Servers <- MCServers
  Specs = {a}
  Inc <- MCInc
  None = None
  Config <- MCConfig
  Identity <- MCIdentity
  Namespace <- MCNamespace
  NoConf = NoConf
  BackoffMin = 1
  BackoffMax = 1
CONSTRAINT MCBound
SYMMETRY MCSymmetry
INVARIANTS
  AccountIsolation
  LoggedOutKeepsNone
