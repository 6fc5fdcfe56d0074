SPECIFICATION Spec
CONSTANTS
  p1 = p1
  p2 = p2
  c1 = c1
  c2 = c2
  e1 = e1
  e2 = e2
  e3 = e3
  e4 = e4
  Producers <- MCProducers
  Consumers <- MCConsumers
  Events <- MCEvents
  NoEvent = NoEvent
  Nobody = Nobody
  MaxValue = 3
INVARIANTS ReadableIffPending SingleOwner
PROPERTY ImplementsNotifyQueue
