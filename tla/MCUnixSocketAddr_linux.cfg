\* Linux: every property of the address module.
CONSTANTS
  SunPathLen <- MCSunPathLen
  PathOffset <- LinuxPathOffset
  FamilySize <- LinuxFamilySize
  HasAbstract = TRUE
  Bytes <- MCBytes
  NUL = 0
  SLASH = 1
  AT = 2
  MaxInputLen <- MCMaxInputLen
  MaxReportedLen = 7
  NoAddr = NoAddr
SPECIFICATION Spec
INVARIANTS
  TypeOK
  OkAddrViewable
  KindPredicatesAgree
  ConstructorsMatchSpec
  FfiMatchesKernelName
  SafeConstructorsKeepLenInvariant
  NewEqualsUnescapedInput
