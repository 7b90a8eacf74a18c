\* Two commands and a lookup for one slot and one worker.
SPECIFICATION Spec
CONSTANTS
  c1 = c1
  c2 = c2
  l1 = l1
  Commands <- MCCommands
  Lookups <- MCLookups
  MaxConcurrent = 1
  Workers = 1
INVARIANTS TypeOK PendingExact SlotBeforeReply
PROPERTIES BusyOnlyAtLimit AnsweredOnceAtHome SlotComesBack AdmittedAnswered 
CHECK_DEADLOCK FALSE
