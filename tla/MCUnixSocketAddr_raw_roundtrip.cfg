\* Linux: from_raw() of an address taken apart with as_raw_general().
CONSTANTS
  SunPathLen <- MCSunPathLen
  PathOffset <- LinuxPathOffset
  FamilySize <- LinuxFamilySize
  HasAbstract = TRUE
  Bytes <- MCBytes
  NUL = 0
  SLASH = 1
  AT = 2
  MaxInputLen <- MCMaxInputLen
  MaxReportedLen = 7
  NoAddr = NoAddr
SPECIFICATION Spec
INVARIANTS
  RawRoundTrip
