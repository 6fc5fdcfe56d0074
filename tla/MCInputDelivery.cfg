SPECIFICATION Spec
CONSTANTS
  p1 = p1
  e1 = e1
  e2 = e2
  e3 = e3
  Producers <- MCProducers
  Events <- MCEvents
  App = App
  NoEvent = NoEvent
  Nobody = Nobody
  DispatchFd = 5
  Ident = 2
  WakeFd = 6
  EpollFd = 3
  EpollFds <- MCEpollFds
  Timeouts <- MCTimeouts
  MaxEvents = 3
  MaxSeq = 4
  MaxValue = 3
INVARIANTS PollTellsTheTruth AttachedIffRegistered
PROPERTY EveryEventIsFetched
