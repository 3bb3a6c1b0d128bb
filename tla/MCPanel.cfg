SPECIFICATION PanelSpec
CONSTANTS
    r1 = r1
    r2 = r2
    f1 = f1
    f2 = f2
    d1 = d1
    Pin = {"p1", "p2"}
    SetPinAnswers = {TRUE, FALSE}
    MaxUpdates = 2
    MaxFaults = 2
    Request = {r1, r2}
    NoRequest = NoRequest
    Text = {r2}
    MaxReports = 1
    MaxLate = 0
    MaxSends = 1
    Fingerprint = {f1, f2}
    Detail = {d1}
    NoPeer = NoPeer
    MaxPeers = 1
    MaxFingerprints = 1
    Burst = 2
    Rate = 1
    Ttl = 1
    MaxAnnouncements = 3
INVARIANTS PanelIsRight PromiseKept PeersAreRight
PROPERTIES FailureKeepsGate UpdateSettles PanelSettles
CHECK_DEADLOCK FALSE
