SPECIFICATION StartupSpec
CONSTANTS
  PipeSize = 1
  NumPads = 2
  Mapped <- MCMapped
  Triggers <- MCTriggers
  RearButtons <- MCRear
  MaxChanges = 2
INVARIANTS ReadNeverWaits
PROPERTIES EveryCommandIsExecuted PadsAreKnown
