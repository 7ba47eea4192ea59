\* The kernel's queue holds one event: the second unread change overflows it.
CONSTANTS
  Files = {f1}
  NoFile = NoFile
  ReadLimit = 1
  MaxQueuedEvents = 1
  MaxChanges = 2
SPECIFICATION Spec
INVARIANT LimitIsHandled
CHECK_DEADLOCK FALSE
