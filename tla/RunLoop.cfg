SPECIFICATION RunFairSpec
CONSTANTS
  c1 = c1
  c2 = c2
  c3 = c3
  k1 = k1
  k2 = k2
  Config <- MCConfig
  Identity <- MCIdentity
  Namespace <- MCNamespace
  NoConf = NoConf
  BackoffMin = 1
  BackoffMax = 30
INVARIANTS
  RunTypeOK
  StoreMatchesSession
PROPERTIES
  NoRetryOfRejected
  ConfigAdopted
  RetriesForever
