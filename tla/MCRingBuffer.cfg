\* Two producers and the consumer, all three concurrent, two laps and more.
CONSTANTS
  p1 = p1
  p2 = p2
  Producers = {p1, p2}
  Capacity = 2
  Strategies <- NonOverwriting
  Exclusive = FALSE
  MaxPuts = 3
  NoItem = NoItem
  Torn = Torn
SPECIFICATION FairSpec
INVARIANTS TypeOK NoDataRace DeliveredInOrder NothingLost FullOnlyWhenFull SizeBound
PROPERTIES PutsComplete ImplementsBoundedQueue
