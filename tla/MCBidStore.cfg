SPECIFICATION StoreSpec
CONSTANTS
  Bids = {b1}
  Auctions = {a1}
  Clients = {c1, c2}
  NoAuction = NoAuction
  MaxFaults = 1
  MaxCalls = 2
  Asked = {"SentToUser", "Submitted", "Won", "Lost", "Expired"}
SYMMETRY StoreSymmetry
INVARIANTS MemoryNeverAhead RowReadable ConcludedStaysOut PendingIsOpen
PROPERTIES BroadcastOnce LedgerImplemented
CHECK_DEADLOCK FALSE
