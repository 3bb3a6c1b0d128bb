SPECIFICATION HelperSpec
CONSTANTS
    a1 = a1
    a2 = a2
    a3 = a3
    s1 = s1
    s2 = s2
    s3 = s3
    h1 = h1
    c1 = c1
    c2 = c2
    c3 = c3
    d1 = d1
    d2 = d2
    d3 = d3
    broken = broken
    docs = docs
    deep = deep
    deeper = deeper
    a = a
    b = b
    c = c
    link = link
    note = note
    r1 = r1
    r2 = r2
    Addrs <- MCAddrs
    Streams <- MCStreams
    MaxTotal = 3
    MaxPerIp = 2
    Capacity = 2
    MaxChanges = 1
    Helper = {h1}
    Cert = {c1, c2, c3}
    Stale <- StaleOf
    Broken = {broken}
    NoHelper = NoHelper
    MaxStarts = 5
    MaxDeaths = 3
    MaxLosses = 2
    Byte = {a, b}
    Newline = Newline
    max_bytes = 2
    MaxText = 6
    Entry = {docs, deep, deeper, a, b, c, link, note}
    Top = Top
    Parent <- FolderOf
    Trees <- FolderTrees
    Nothing = Nothing
    Json <- JsonOf
    Envelope = 2
    MAX_TRANSFER_FILES = 4
    MAX_PREPARE_BODY_BYTES = 9
    MAX_REMOTE_DIRECTORY_DEPTH = 2
    MaxEdits = 1
    Bits = 5
    MaxSubnet = 8
    LocalRange = 4
    Special = {0, 30, 31}
    Local = {1, 2, 6, 7, 8, 9, 17, 23, 30}
    Mask <- Masks
    Remote = {1, 3, 7, 8, 10, 16, 22, 30}
    MaxInterfaces = 2
    PathWords = {"permission", "cannot read", "refused", "timeout", "403", "pin"}
    IdWords = {"401", "403"}
    Request = {r1, r2}
    NoRequest = NoRequest
    Text = {r2}
    MaxReports = 1
    MaxLate = 1
    MaxSends = 1
SYMMETRY Symmetry
INVARIANTS SlotsAreStreams EachLineOnce OfferIsRight TargetsAreRight TextsDecide RequestsAreRight
PROPERTIES BlockedStays IdentityStays
CHECK_DEADLOCK FALSE
