\* One module that reports its availability, two jobs: safety of the routing state.
CONSTANTS
  m1 = m1
  c1 = c1
  c2 = c2
  Modules = {m1}
  Jobs = {c1, c2}
  Topics <- OneTopic
  TopicOf <- AllCompute
  Handles <- AllHandle
  Reporters = {m1}
  MaxScans = 1
  NoHandler = NoHandler
  Untracked = Untracked
  NoJob = NoJob
SPECIFICATION Spec
INVARIANTS TypeOK PendingIsTracked AtMostOneAnswer RecoveryCopiesValid
PROPERTIES ImplementsJobService
