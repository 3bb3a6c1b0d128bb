SPECIFICATION FairSpec
CONSTANTS
    Request = {r1}
    NoRequest = NoRequest
    Text = {}
    MaxReports = 1
    MaxLate = 0
    MaxSends = 0
PROPERTIES Settles
CHECK_DEADLOCK FALSE
