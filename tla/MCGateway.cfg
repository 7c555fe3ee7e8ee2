\* One product with its options, a buffer of two ticks and three quotes, so that
\* the buffer runs over; one reconnection.
CONSTANTS
  p1 = p1
  Products = {p1}
  UseTd = TRUE
  Authenticate = TRUE
  Capacity = 2
  BatchSize = 2
  MaxRetries = 1
  MaxQuotes = 3
  MaxSessions <- MCMaxSessions
  None = None
SPECIFICATION FairSpec
INVARIANTS  SentIsPublished SessionSubscribed
PROPERTIES GatewayStops
CHECK_DEADLOCK FALSE
