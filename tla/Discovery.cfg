SPECIFICATION FairSpec
CONSTANTS
    Round = {r1, r2}
    NoRound = NoRound
    MaxViews = 1
    MaxCommands = 2
    MaxEvents = 1
PROPERTIES RoundsAreOrderly RoundsEnd
CHECK_DEADLOCK FALSE
