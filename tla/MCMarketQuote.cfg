SPECIFICATION MarketSpec
CONSTANTS
    admin = admin
    userW = userW
    searcher = searcher
    routerW = routerW
    receiver = receiver
    meta = meta
    key = key
    indicative = indicative
    solM = solM
    tok = tok
    ray = ray
    None = None
    Closed = Closed
    Precision = 4
    BpsToPpm = 2
    MaxU64 = 1000
    Wallets <- MCWallets
    Meta = meta
    Mints <- MCMints
    Sol = solM
    RentWallet = 2
    RentMeta = 3
    RentConfig = 2
    RentToken = 2
    FeeOrder <- MCFeeOrder
    PlatformFeeOf <- MCPairFees
    ReferralFeeOf <- MCNoFees
    Whitelist <- MCWhitelist
    Permissionless = TRUE
    IndicativeTaker = indicative
    LifeOther = 1
    LifeMax = 3
    MaxReferralBps = 100
    RelayerKey = key
    LifeServer = 1
    FeeWindow = 1
    FeeMaxAge = 1
    Requests <- MCRequests
    BidParams <- MCBidParams
    BidTxs <- MCBidTxs
    InitialChains <- MCInitialized
    AdminSteps <- MCAdminSteps
    Flows <- MCFlows
    Samples <- MCSamples
    MaxTime = 1
    MaxChanges = 0
PROPERTY QuoteHonoured
