SPECIFICATION FairSpec
CONSTANTS
  Producers = {p1, p2}
  Client = client
  Loader = loader
  Capacity = 2
  BatchSize = 2
  MaxEvents = 3
  Free = Free
  Nil = Nil
INVARIANTS
  CopiesOwned
  EventsConserved
  ThreadOrder
PROPERTIES
  ImplementsQueue
  RingDrains
