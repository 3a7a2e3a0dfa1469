SPECIFICATION Spec
CONSTANTS
  Loops = {"price", "verification", "deletion", "api"}
  CannotFail = {"verification"}
  Scenarios <- MCScenarios
  Profiles = {limo, searcher}
  Tokens = {T0, T1, T2}
  limo = limo
  searcher = searcher
  T0 = T0
  T1 = T1
  T2 = T2
  Admins = {a1, a2}
  InitialTokens <- MCInitialTokens
  NoToken = NoToken
  Calls = {c1, c2}
  Creates <- MCCreates
  RefreshAfter = 0
  StaleAfter = 1
  Program = limo
  MaxIds = 3
  Conns = {w1, w2}
  Ips = {ip1}
  Chains = {"solana"}
  Asked = {{"solana"}, {"solana", "unknown"}}
  EventCapacity = 1
  ResponseCapacity = 1
  MaxActive = 1
  MaxPerIp = 1
  Readers = {r1}
  DeleteBatch = 1
  PageSize = 1
  ChannelSize = 1
  MaxWritten = 3
  Txs <- MCTxs
  Accounts = {"w1", "w2"}
  Funds <- MCFunds
INVARIANTS FeedTypeOK FeedTold NoGap OwnResponse RevokedRefused PrivilegeLatest ReadsComplete AnalyticsCurrent WinnersExecute
PROPERTIES StaleLeaves DeadClosed StaleRowsGo ExitCompletes
CHECK_DEADLOCK FALSE
