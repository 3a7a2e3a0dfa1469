SPECIFICATION QuoteSafeSpec
CONSTANTS
  Bids = {b1}
  Auctions = {a1}
  PermissionKeys = {k1}
  KeyOf <- OneKey
  KeyWanted <- OneWanted
  Quoters = {q1}
  Choices = {TRUE, FALSE}
  Submitters = {s1, s2}
  Background = background
  Locks = {l1, l2}
  Handlers <- QuoteHandlers
  Clients <- QuoteClients
  NoAuction = NoAuction
  NoBid = NoBid
  NoLock = NoLock
  NoSubmitter = NoSubmitter
  MaxFaults = 1
  MaxCalls = 0
  Asked = {}
SYMMETRY QuoteSymmetry
INVARIANTS SentIsOffered SubmittedIsSent
CHECK_DEADLOCK FALSE
