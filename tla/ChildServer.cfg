SPECIFICATION FairSpec
CONSTANTS
  i1 = i1
  i2 = i2
  Inc <- MCInc
  NoInc = NoInc
CONSTRAINT MCOrder
INVARIANTS
  TypeOK
  OneObituary
  NoSilentDeath
  OneProcess
PROPERTIES
  DeathReported
