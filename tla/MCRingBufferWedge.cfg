\* push_overwrite from one producer while the consumer pops.
CONSTANTS
  p1 = p1
  Producers = {p1}
  Capacity = 2
  Strategies <- Overwriting
  Exclusive = FALSE
  MaxPuts = 5
  NoItem = NoItem
  Torn = Torn
SPECIFICATION FairSpec
PROPERTIES PutReturns
