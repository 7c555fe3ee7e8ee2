\* One writer, one reader, one message more than there are slots.
CONSTANTS
  SlotCount = 2
  MaxWrites = 3
SPECIFICATION Spec
INVARIANTS ReadsWhatWasWritten
CHECK_DEADLOCK FALSE
