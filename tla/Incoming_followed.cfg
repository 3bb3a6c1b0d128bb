SPECIFICATION Spec
CONSTANTS
    Request = {r1, r2}
    NoRequest = NoRequest
    Text = {}
    MaxReports = 0
    MaxLate = 1
    MaxSends = 1
INVARIANTS FollowsTheAccepted
CHECK_DEADLOCK FALSE
