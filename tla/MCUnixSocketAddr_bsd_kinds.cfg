\* BSD/macOS: an all-zero path reported for an unnamed socket.
CONSTANTS
  SunPathLen <- MCSunPathLen
  PathOffset <- BsdPathOffset
  FamilySize <- BsdFamilySize
  HasAbstract = FALSE
  Bytes <- MCBytes
  NUL = 0
  SLASH = 1
  AT = 2
  MaxInputLen <- MCMaxInputLen
  MaxReportedLen = 7
  NoAddr = NoAddr
SPECIFICATION Spec
INVARIANTS
  KindPredicatesAgree
