SPECIFICATION FairSpec
CONSTANTS
  r1 = r1
  r2 = r2
  f1 = f1
  f2 = f2
  u1 = u1
  u2 = u2
  u3 = u3
  Requests = {r1, r2}
  Files = {f1}
  Uploads = {u1, u2}
  Req <- PairReq
  File <- PairFile
  Offer <- SessionsOffer
  Messages = {}
  AcceptTimeout = 1
  IdleLimit = 1
  MaxChunks = 1
  NoRequest = NoRequest
PROPERTY SlotReclaimed
CHECK_DEADLOCK FALSE
