SPECIFICATION ServerSafeSpec
CONSTANTS
  Bids = {b1, b2}
  Auctions = {a1, a2}
  PermissionKeys = {k1}
  KeyOf <- OneKey
  Tasks = {t1, t2}
  Handlers = {t1, t2}
  Locks = {l1, l2}
  Clients <- ServerClients
  NoAuction = NoAuction
  NoLock = NoLock
  NoTask = NoTask
  NoKey = NoKey
  MaxFaults = 0
  MaxCalls = 0
  Asked = {}
SYMMETRY ServerSymmetry
INVARIANTS ServerTypeOK OneAuctionPerBid RecordedOutcome SentIsRecorded NoLeakedLock
CHECK_DEADLOCK FALSE
