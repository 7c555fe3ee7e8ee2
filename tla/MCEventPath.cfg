\* One module, one topic, two events: the registry and the event queues work.
CONSTANTS
  t1 = t1
  Modules = {m1}
  TopicSeq <- OneTopic
  Interfaces <- Subscriber
  Events = {1, 2}
  TopicOf <- SameTopic
  SenderOf <- OneEach
  Liveness = 2
  Depth = 1
  Stalls = TRUE
  NoQueue = NoQueue
  NoEvent = NoEvent
SPECIFICATION Spec
INVARIANTS TypeOK EveryModuleMonitored StampsBounded
PROPERTIES SilentModuleRemoved EventsDrained IdleQueueCollected
