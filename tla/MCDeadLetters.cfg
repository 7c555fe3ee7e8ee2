\* Two writers with a record each, one midnight, and replays in between.
CONSTANTS
  IntBits = 2
  LongBits = 3
  router = router
  egress = egress
  Writers = {router, egress}
  Topics = {1, 2, 3}
  Escape <- MCEscape
  Texts = {1, 4}
  LastDay = 2
  MaxRecords = 1
  MaxCounts = {0, 1, 3}
  Foreign <- MCForeign
  Expiring <- MCExpiring
  Payloads <- MCPayloads
  NoFilter = NoFilter
  None = None
SPECIFICATION WireSpec
INVARIANTS CodecExact ReplayExact
CHECK_DEADLOCK FALSE
