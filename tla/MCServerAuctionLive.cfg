SPECIFICATION ServerSpec
CONSTANTS
  Bids = {b1}
  Auctions = {a1, a2}
  PermissionKeys = {k1}
  KeyOf <- OneKey
  Tasks = {t1, t2}
  Handlers = {t1, t2}
  Locks = {l1, l2}
  Clients <- ServerClients
  NoAuction = NoAuction
  NoLock = NoLock
  NoTask = NoTask
  NoKey = NoKey
  MaxFaults = 1
  MaxCalls = 0
  Asked = {}
PROPERTIES PendingResolved SubmittedSettles AuctionLeaves
CHECK_DEADLOCK FALSE
