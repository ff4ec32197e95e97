SPECIFICATION LoginSpec
CONSTANTS
  None = None
  Empty = Empty
  Hostname = Hostname
  Given = Given
  Processes = {p1, p2}
  Backends = {b1, b2}
  InstallIds = {i1, i2}
  UserIds = {u1, u2}
  LegacyIds = {l1, l2}
  TokenIds = {t1, t2}
CONSTRAINT MCBound
SYMMETRY Symmetry
INVARIANTS
  LoginTypeOK
  FileCoherent
  PresentsOwn
  RevokedNotInUse
  NoStrayToken
