CONSTANTS
  Fds <- MCFds
  Socks = {s1, s2, s3}
  PathNames = {p1}
  AbstractNames = {a1}
  MaxPacket = 2
  MaxBuf = 1
  RxCap = 1
  Backlog = 1
  AllowRawFd = FALSE
  MaxSleepers = 1
  NoSock = NoSock
  NoName = NoName
SPECIFICATION Spec
SYMMETRY SockSymmetry
INVARIANT
  RecvBoolMeansCompleted
