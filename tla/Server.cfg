SPECIFICATION Spec
CONSTANTS
  None = None
  Writers = {w1, w2}
  Options <- MCOptions
  BadHosts = {"bad"}
  MaxFaults = 1
  Absent = Absent
  Garbage = Garbage
  Installers = {i1, i2}
  Daemons = {"postfix"}
  PublicKeys = {"k1", "k2"}
  Validities <- MCValidities
  MaxNow = 1
  MaxBreaks = 1
  NoRow = NoRow
  Domains = {"d1", "d2"}
  Addresses <- MCAddresses
  KeyNames = {"n"}
  Requesters = {r1, r2}
  MaxRows = 3
  MaxAliases = 1
SYMMETRY Symmetry
INVARIANTS
  ConfigurationIsWhole
  CertificatesAreSound
  RoutingIsSound
  StatusBandsHold
