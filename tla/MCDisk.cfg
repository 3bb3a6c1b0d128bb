SPECIFICATION DiskSpec
CONSTANTS
    h1 = h1
    h2 = h2
    v1 = v1
    v2 = v2
    n1 = n1
    n2 = n2
    settings = settings
    Helper <- MCHelper
    Value <- MCValue
    Name <- MCName
    Target = settings
    Depth = 2
    TempAttempts = 2
    FirstDirs <- MCFirstDirs
    MaxOps = 2
    MaxCrashes = 2
    t1 = t1
    t2 = t2
    a = a
    b = b
    docs = docs
    Transfer = {t1, t2}
    NoTransfer = NoTransfer
    Item = {a, b}
    Folder = {docs}
    ItemFolder <- MCItemFolder
    Before = {}
    MaxProgress = 1
    MaxDrops = 1
INVARIANTS NeverPartial 
PROPERTIES StepsAreSafe ImplementsAtomicFile OnlyCancelledGoes
SYMMETRY Symmetry
CHECK_DEADLOCK FALSE
