SPECIFICATION QuoteSafeSpec
CONSTANTS
  Bids = {b1}
  Auctions = {a1, a2}
  PermissionKeys = {k1}
  KeyOf <- OneKey
  KeyWanted <- OneWanted
  Quoters = {q1, q2}
  Choices = {TRUE}
  Submitters = {s1}
  Background = background
  Locks = {l1}
  Handlers <- QuoteHandlers
  Clients <- QuoteClients
  NoAuction = NoAuction
  NoBid = NoBid
  NoLock = NoLock
  NoSubmitter = NoSubmitter
  MaxFaults = 0
  MaxCalls = 0
  Asked = {}
INVARIANTS ExpiredNeverLanded
CHECK_DEADLOCK FALSE
