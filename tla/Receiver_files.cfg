SPECIFICATION Spec
CONSTANTS
  r1 = r1
  r2 = r2
  f1 = f1
  f2 = f2
  u1 = u1
  u2 = u2
  u3 = u3
  Requests = {r1, r2}
  Files = {f1, f2}
  Uploads = {u1, u2, u3}
  Req <- FilesReq
  File <- FilesFile
  Offer <- FilesOffer
  Messages = {r2}
  AcceptTimeout = 1
  IdleLimit = 1
  MaxChunks = 1
  NoRequest = NoRequest
SYMMETRY AttemptSymmetry
INVARIANTS PublishedOnce CompletedMeansSaved PartialsRemoved UnrecordedIsCut
PROPERTIES ImplementsContract
CHECK_DEADLOCK FALSE
