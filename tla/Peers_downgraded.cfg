SPECIFICATION Spec
CONSTANTS
    Fingerprint = {"a", "b", "c"}
    Detail = {"there"}
    NoPeer = NoPeer
    MaxPeers = 3
    MaxFingerprints = 2
    Burst = 2
    Rate = 1
    Ttl = 1
    MaxAnnouncements = 4
PROPERTIES NeverDowngraded
CHECK_DEADLOCK FALSE
