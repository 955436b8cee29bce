\* BSD/macOS: new_from_ffi() with a NUL-led report longer than sockaddr_un.
CONSTANTS
  SunPathLen <- MCSunPathLen
  PathOffset <- BsdPathOffset
  FamilySize <- BsdFamilySize
  HasAbstract = FALSE
  Bytes <- MCBytes
  NUL = 0
  SLASH = 1
  AT = 2
  MaxInputLen <- MCMaxInputLen
  MaxReportedLen = 7
  NoAddr = NoAddr
SPECIFICATION Spec
INVARIANTS
  OkAddrViewable
