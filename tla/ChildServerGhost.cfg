SPECIFICATION Spec
CONSTANTS
  i1 = i1
  i2 = i2
  Inc <- MCInc
  NoInc = NoInc
INVARIANTS
  ObituaryIsFinal
