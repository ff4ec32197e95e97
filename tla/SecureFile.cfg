SPECIFICATION SecureSpec
CONSTANTS
  Processes = {p1, p2}
  Values = {u, v}
  Path = Path
  n1 = n1
  n2 = n2
  n3 = n3
  Names <- MCNames
  Fixed = n1
  Absent = Absent
  Torn = Torn
  NoName = NoName
  Hows <- MCHows
SYMMETRY MCSymmetry
INVARIANTS
  SecureTypeOK
  CopyExists
PROPERTIES
  ReadersSeeWhole
