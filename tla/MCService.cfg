SPECIFICATION ServiceSpec
CONSTANTS
    Folders <- MCFolders
    Stick = "stick"
    Causes <- AllCauses
    Prompt = FALSE
    Calm = TRUE
    MaxActs = 2
    MaxEnv = 2
    Transfers = {t1, t2}
    MaxFiles = 2
    MaxCommands = 3
    NoTransfer = NoTransfer
INVARIANTS StartsBounded OneOutcome SlotCoversTask PinRetryNotBusy SuccessIsTrue
PROPERTIES RefusalStands Settles CancelledEnds UncancelledSettles
CHECK_DEADLOCK FALSE
