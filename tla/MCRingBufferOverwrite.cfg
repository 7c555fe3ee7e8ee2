\* push_overwrite, with pop kept apart from it by its users.
CONSTANTS
  p1 = p1
  p2 = p2
  Producers = {p1, p2}
  Capacity = 2
  Strategies <- Overwriting
  Exclusive = TRUE
  MaxPuts = 3
  NoItem = NoItem
  Torn = Torn
SPECIFICATION FairSpec
INVARIANTS NoDataRace
PROPERTIES PutReturns ImplementsDroppingQueue
