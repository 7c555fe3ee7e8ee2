\* A module that stops when told and takes the topic from the message, and a raw
\* bridge, each with a queue of two slots that may go once around; beside them a
\* module with static topics, without a stop function and without messages.
CONSTANTS
  m1 = m1
  m2 = m2
  q1 = q1
  w1 = w1
  Modules = {m1, m2}
  Raws = {q1}
  Static = {m2}
  Unstoppable = {m2}
  Workers = {w1}
  Capacity = 2
  Used = {m1, q1}
  MaxSignals = 1
  None = None
SPECIFICATION FairSpec
INVARIANTS ModuleOutlivesItsUsers ReadIsForwarded CleanShutdown
PROPERTIES ShutdownCompletes RawForwarded
CHECK_DEADLOCK FALSE
