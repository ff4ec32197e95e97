SPECIFICATION EnvSpec
CONSTANTS
  s1 = s1
  s2 = s2
  k = k
  p = p
  Servers <- MCServers
  EnvKeys <- MCEnvKeys
  Places <- MCPlaces
  Values = {v}
  Unset = Unset
  None = None
INVARIANTS
  WriteThrough
