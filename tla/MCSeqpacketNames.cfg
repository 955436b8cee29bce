CONSTANTS
  SunPathLen <- MCSunPathLen
  PathOffset = 2
  FamilySize = 2
  Bytes <- MCBytes
  NUL = 0
  SLASH = 1
  AT = 2
  MaxInputLen <- MCMaxInputLen
  MaxReportedLen = 7
  NoAddr = NoAddr
  Socks = {s1, s2, s3}
  NoSock = NoSock
  PathInputs <- MCPathInputs
  AbstractInputs <- MCAbstractInputs
  AutobindNames <- MCAutobindNames
SPECIFICATION Spec
SYMMETRY SockSymmetry
INVARIANTS
  TypeOK
  NamesRoundTrip
  ReportedAddrReachesListener
