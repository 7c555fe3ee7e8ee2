\* Two modules, one job: retries and their outcome.
CONSTANTS
  m1 = m1
  m2 = m2
  c1 = c1
  Modules = {m1, m2}
  Jobs = {c1}
  Topics <- OneTopic
  TopicOf <- AllCompute
  Handles <- AllHandle
  Reporters = {}
  MaxScans = 1
  NoHandler = NoHandler
  Untracked = Untracked
  NoJob = NoJob
SPECIFICATION FairSpec
INVARIANTS NeverToTimedOut
PROPERTIES AnsweredUnlessFlapping
