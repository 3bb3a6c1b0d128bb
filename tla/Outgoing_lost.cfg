SPECIFICATION Spec
CONSTANTS
  Transfers = {t1, t2}
  MaxFiles = 1
  MaxCommands = 2
  NoTransfer = NoTransfer
INVARIANT CancelIsTold
CHECK_DEADLOCK FALSE
