SPECIFICATION Spec
CONSTANTS
  s1 = s1
  s2 = s2
  a = a
  b = b
  i1 = i1
  i2 = i2
  i3 = i3
  Servers <- MCServers
  Specs <- MCSpecs
  Inc <- MCInc
  None = None
SYMMETRY MCSymmetry
INVARIANTS
  TypeOK
  Converged
  PublishedAgrees
PROPERTIES
  NothingForgotten
  Reconciles
