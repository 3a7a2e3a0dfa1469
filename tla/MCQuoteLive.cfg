SPECIFICATION QuoteSpec
CONSTANTS
  Bids = {b1}
  Auctions = {a1}
  PermissionKeys = {k1}
  KeyOf <- OneKey
  KeyWanted <- OneWanted
  Quoters = {q1}
  Choices = {TRUE, FALSE}
  Submitters = {s1}
  Background = background
  Locks = {l1}
  Handlers <- QuoteHandlers
  Clients <- QuoteClients
  NoAuction = NoAuction
  NoBid = NoBid
  NoLock = NoLock
  NoSubmitter = NoSubmitter
  MaxFaults = 1
  MaxCalls = 0
  Asked = {}
PROPERTIES BidSettles
CHECK_DEADLOCK FALSE
