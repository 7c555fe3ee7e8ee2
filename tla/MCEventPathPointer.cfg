\* The event proxy may be left with a pointer to a queue that is gone.
CONSTANTS
  t1 = t1
  Modules = {m1}
  TopicSeq <- OneTopic
  Interfaces <- Subscriber
  Events = {1, 2}
  TopicOf <- SameTopic
  SenderOf <- OneEach
  Liveness = 2
  Depth = 1
  Stalls = FALSE
  NoQueue = NoQueue
  NoEvent = NoEvent
SPECIFICATION Spec
INVARIANT ProxyPointerValid
