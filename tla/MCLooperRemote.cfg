SPECIFICATION Spec
CONSTANTS
  Fds <- MCFds
  WakeFd <- MCWakeFd
  EpollFd <- MCEpollFd
  EpollFds <- MCEpollFds
  BadFds <- MCBadFds
  Idents <- MCIdents
  AllowNonCallbacks = TRUE
  EventMasks <- MCIn
  Timeouts <- MCPollOrBlock
  MaxEvents = 3
  RemoteCalls = TRUE
  Replace = TRUE
  MaxSeq = 5
  MaxValue = 2
INVARIANTS RegistrationsInSync NotMisattributed
PROPERTIES UnregistersItselfOnly NotCalledAgain ReadyIsServed
CHECK_DEADLOCK FALSE
