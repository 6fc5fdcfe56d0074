SPECIFICATION Spec
CONSTANTS
  Fds <- MCFds
  WakeFd <- MCWakeFd
  EpollFd <- MCEpollFd
  EpollFds <- MCEpollFds
  BadFds = {}
  Idents <- MCIdents
  AllowNonCallbacks = TRUE
  EventMasks <- MCIn
  Timeouts <- MCFinite
  MaxEvents = 3
  RemoteCalls = FALSE
  Replace = FALSE
  MaxSeq = 4
  MaxValue = 2
PROPERTIES NotCalledAgain
CHECK_DEADLOCK FALSE
