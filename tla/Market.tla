---- MODULE Market ----
(***************************************************************************)
(* A bid from its opportunity to the chain: the server quotes, a searcher  *)
(* answers with a transaction, verify_bid checks it step by step, the      *)
(* quote is answered, and the transaction is executed by the program.      *)
(* Between any two steps the chain may change: balances move, fee accounts *)
(* are closed, the admin changes the program's metadata, time passes.      *)
(***************************************************************************)
EXTENDS BidVerification

CONSTANTS
    Requests,      \* requests for a quote
    BidParams,     \* what a searcher fills in for the SDK
    BidTxs,        \* transactions that pay for a permission with SubmitBid
    InitialChains, \* chains to start from
    AdminSteps,    \* instructions of the admin
    Flows,         \* <<token account, amount>>: tokens that come in or go out
    Samples,       \* prioritization fees
    MaxTime,       \* bound: the clock
    MaxChanges     \* bound: changes of the chain by others

Memos == {q.memo : q \in Requests}

(* The bids of BidTxs ask for their permission and pay for it; what they   *)
(* do with it is of no account here.                                       *)
ASSUME MarketAssumption ==
    /\ FeeWindow \in Nat /\ MaxTime \in Nat /\ MaxChanges \in Nat /\ Samples \subseteq Nat
    /\ \A c \in InitialChains : c \in Chains /\ SolBacked(c) /\ MetaFunded(c)
    /\ None \notin Requests
    /\ \A q \in Requests : /\ q.amount \in Nat /\ q.referral \in Nat /\ q.lifetime \in Nat \cup {None}
                           /\ q.user \in (Wallets \ {Meta}) \cup {None}
                           /\ q.router \in Wallets \cup {None}
    /\ BidParams \subseteq [amount : Nat, deadline : Nat, searcher : Wallets \ {Meta},
                            feeReceiver : Wallets, relayer : Wallets \ {Meta}]
    /\ BidTxs \subseteq Transactions(Memos)
    /\ \A tx \in BidTxs : \A i \in DOMAIN tx.ixs : tx.ixs[i].op \in {"SubmitBid", "Check"}
    /\ \A ix \in AdminSteps : ix \in AdminInstructions /\ ix.by # Meta
    /\ Flows \subseteq TokenAccounts \X Int

VARIABLES
    chain,    \* the chain
    now,      \* the clock, the server's and the chain's
    cached,   \* the server's copy of the metadata, None after it expired
    samples,  \* recent prioritization fees
    quote,    \* the request, its opportunity and the answer
    bid,      \* the bid being verified
    changes   \* changes of the chain by others so far

vars == <<chain, now, cached, samples, quote, bid, changes>>

NoQuote == [request |-> None, opp |-> None, live |-> FALSE, answer |-> None]
NoBid   == [stage |-> "none", tx |-> None, sdk |-> FALSE]

MarketInit ==
    /\ chain \in InitialChains
    /\ now = 0
    /\ cached = None
    /\ samples = <<>>
    /\ quote = NoQuote
    /\ bid = NoBid
    /\ changes = 0

(* get_express_relay_metadata: from the cache, or from the chain into it.  *)
Metadata == IF cached # None THEN cached ELSE chain.meta

-----------------------------------------------------------------------------
(* The server and the searcher.                                            *)

GetQuote(q) ==
    /\ chain.meta # None /\ quote.request = None /\ bid.stage = "none"
    /\ LET opp == Opportunity(chain, Metadata, q, now)
       IN  quote' = [request |-> q, opp |-> opp, live |-> opp # None, answer |-> None]
    /\ cached' = Metadata
    /\ UNCHANGED <<chain, now, samples, bid, changes>>

(* A bid for the opportunity: what the SDK builds, or something close.     *)
Alter(ixs, i, ix) == [ixs EXCEPT ![i] = ix]
DropIx(ixs, i) == SubSeq(ixs, 1, i - 1) \o SubSeq(ixs, i + 1, Len(ixs))

Deviations(tx) ==
    LET ixs  == tx.ixs
        at   == ProgramInstruction(tx, {"SwapV2"})
        swap == ixs[at]
        put(args) == Alter(ixs, at, [swap EXCEPT !.args = args])
        a    == swap.args
        other == IF a.feeToken = "user" THEN "searcher" ELSE "user"
    IN  {DropIx(ixs, i) : i \in DOMAIN ixs}
        \cup {Alter(ixs, i, [ixs[i] EXCEPT !.payer = IF @ = swap.user THEN swap.searcher ELSE swap.user])
                : i \in Positions(tx, {"CreateAta"})}
        \cup {put([a EXCEPT !.amountUser = @ + 1]), put([a EXCEPT !.amountSearcher = SaturatingSub(@, 1)]),
              put([a EXCEPT !.referral = 0]), put([a EXCEPT !.platform = 0])}
        \cup {Alter(ixs, at, [swap EXCEPT !.args.feeToken = other,
                                          !.mintFee = IF other = "user" THEN @ ELSE swap.mintSearcher])}
        \cup {Alter(ixs, at, [swap EXCEPT !.op = "Swap", !.args.referral = a.referral \div BpsToPpm, !.args.platform = 0])}
        \cup {Alter(ixs, at, [swap EXCEPT !.routerAccount = <<swap.searcher, swap.mintFee>>])}
        \cup {Append(ixs, [op |-> "Transfer", from |-> w, to |-> <<swap.searcher, Sol>>, lamports |-> 1])
                : w \in {swap.user, swap.searcher}}
        \cup {Append(ixs, Create(w, swap.searcher, m)) : w \in {swap.user, swap.searcher}, m \in Mints}
        \cup {Append(ixs, [op |-> "CloseAccount", account |-> <<w, Sol>>, destination |-> swap.searcher, owner |-> w])
                : w \in {swap.user, swap.searcher}}
        \cup {Append(ixs, [op |-> "SyncNative", account |-> <<w, Sol>>]) : w \in {swap.user, swap.feeReceiver}}
        \cup {Append(ixs, [op |-> "SetComputeUnitPrice", price |-> p]) : p \in Samples}

SdkSwap(b) == SwapTransaction(quote.opp, [b EXCEPT !.deadline = @ + now])

SendSwap(tx, sdk) ==
    /\ bid' = [stage |-> "sent", tx |-> tx, sdk |-> sdk]
    /\ UNCHANGED <<chain, now, cached, samples, quote, changes>>

CanBid == bid.stage = "none" /\ quote.live /\ CanScale(quote.opp)

SendSdkSwap(b) == CanBid /\ SendSwap(SdkSwap(b), TRUE)
SendOtherSwap(b) ==
    CanBid /\ \E ixs \in Deviations(SdkSwap(b)) : SendSwap([SdkSwap(b) EXCEPT !.ixs = ixs], FALSE)

SendBid(tx) ==
    /\ bid.stage = "none" /\ quote.request = None /\ chain.meta # None
    /\ bid' = [stage |-> "sent", tx |-> tx, sdk |-> FALSE]
    /\ UNCHANGED <<chain, now, cached, samples, quote, changes>>

IsSwap == quote.request # None

Advance(from, condition, to) ==
    /\ bid.stage = from
    /\ bid' = [bid EXCEPT !.stage = IF condition THEN to ELSE "rejected"]

(* The first half of verify_bid: the transaction alone, then against the   *)
(* opportunity it names.                                                   *)
VerifyFields ==
    /\ Advance("sent",
               /\ ComputeBudgetOk(bid.tx, samples, now)
               /\ IF IsSwap THEN quote.live /\ SwapDataOk(Metadata, quote.opp, bid.tx, now)
                  ELSE SubmitBidDataOk(bid.tx, now),
               "fields")
    /\ cached' = IF IsSwap THEN Metadata ELSE cached
    /\ UNCHANGED <<chain, now, samples, quote, changes>>

(* The opportunity is looked up again, by the permission key of the bid.   *)
VerifySignatures ==
    /\ Advance("fields",
               IF IsSwap THEN /\ quote.live
                              /\ BidPermission(Metadata, quote.opp, bid.tx) = quote.opp.permission
                              /\ FeePayerOk(bid.tx, quote.opp)
                              /\ SignaturesOk(bid.tx, {quote.opp.user})
               ELSE SignaturesOk(bid.tx, {}),
               "signed")
    /\ UNCHANGED <<chain, now, cached, samples, quote, changes>>

IsIndicative == IsSwap /\ quote.opp.user = IndicativeTaker

(* The simulation, unless nobody is to sign the transaction.               *)
Simulate ==
    /\ Advance("signed",
               \/ IsIndicative
               \/ IF IsSwap THEN SimulatedSwapOk(chain, bid.tx, now) ELSE SimulatedBidOk(chain, bid.tx, now),
               "accepted")
    /\ UNCHANGED <<chain, now, cached, samples, quote, changes>>

SimulationUnavailable ==
    /\ Advance("signed", IsIndicative, "accepted")
    /\ UNCHANGED <<chain, now, cached, samples, quote, changes>>

AnswerQuote ==
    /\ IsSwap /\ bid.stage = "accepted"
    /\ LET ix == bid.tx.ixs[ProgramInstruction(bid.tx, {"Swap", "SwapV2"})]
       IN  quote' = [quote EXCEPT !.answer = Answer(Metadata, quote.request, quote.opp, ix)]
    /\ bid' = [bid EXCEPT !.stage = "answered"]
    /\ cached' = Metadata
    /\ UNCHANGED <<chain, now, samples, changes>>

RemoveOpportunity ==
    /\ quote.live
    /\ quote' = [quote EXCEPT !.live = FALSE]
    /\ UNCHANGED <<chain, now, cached, samples, bid, changes>>

(* The server signs a bid and sends it; a swap once the user has signed.   *)
Lands ==
    /\ IF IsSwap THEN bid.stage = "answered" /\ quote.answer # None /\ quote.answer.offered /\ ~IsIndicative
       ELSE bid.stage = "accepted"
    /\ LET r == Execute(chain, bid.tx, now)
       IN  /\ chain' = r.chain
           /\ bid' = [bid EXCEPT !.stage = IF r.err = None THEN "landed" ELSE "failed"]
    /\ UNCHANGED <<now, cached, samples, quote, changes>>

-----------------------------------------------------------------------------
(* Everybody else.                                                         *)

Change(c) ==
    /\ changes < MaxChanges /\ bid.stage \notin {"rejected", "landed", "failed"}
    /\ c # chain
    /\ chain' = c
    /\ changes' = changes + 1
    /\ UNCHANGED <<now, cached, samples, quote, bid>>

Administer(ix) ==
    Change(Execute(chain, [payer |-> ix.by, signers |-> {ix.by}, signed |-> {ix.by}, ixs |-> <<ix>>], now).chain)

Flow(account, amount) ==
    /\ chain.tok[account] # Closed /\ chain.tok[account] + amount >= 0
    /\ account[2] = Sol => chain.lam[account] + amount >= RentToken
    /\ Change([chain EXCEPT !.tok[account] = chain.tok[account] + amount,
                            !.lam[account] = chain.lam[account] + IF account[2] = Sol THEN amount ELSE 0])

CloseEmpty(account) ==
    /\ chain.tok[account] = 0
    /\ Change(CloseAccount(chain, [account |-> account, destination |-> account[1]]).chain)

Tick ==
    /\ now < MaxTime
    /\ now' = now + 1
    /\ UNCHANGED <<chain, cached, samples, quote, bid, changes>>

(* Seen only where the copy is stale: the next read is of the chain.       *)
ForgetMetadata ==
    /\ cached \notin {None, chain.meta}
    /\ cached' = None
    /\ UNCHANGED <<chain, now, samples, quote, bid, changes>>

UpdateFee(fee) ==
    /\ bid.stage = "none"
    /\ \A i \in DOMAIN samples : samples[i].time < now   \* bound
    /\ samples' = PushSample(samples, fee, now)
    /\ UNCHANGED <<chain, now, cached, quote, bid, changes>>

(* There is no next bid and no next quote.                                 *)
Terminating ==
    /\ bid.stage \in {"rejected", "landed", "failed"} \/ (quote.request # None /\ ~quote.live)
    /\ UNCHANGED vars

MarketNext ==
    \/ \E q \in Requests : GetQuote(q)
    \/ \E b \in BidParams : SendSdkSwap(b) \/ SendOtherSwap(b)
    \/ \E tx \in BidTxs : SendBid(tx)
    \/ VerifyFields \/ VerifySignatures \/ Simulate \/ SimulationUnavailable
    \/ AnswerQuote \/ RemoveOpportunity \/ Lands
    \/ \E ix \in AdminSteps : Administer(ix)
    \/ \E f \in Flows : Flow(f[1], f[2])
    \/ \E a \in TokenAccounts : CloseEmpty(a)
    \/ \E f \in Samples : UpdateFee(f)
    \/ Tick \/ ForgetMetadata \/ Terminating

MarketSpec == MarketInit /\ [][MarketNext]_vars

-----------------------------------------------------------------------------
(* Properties.                                                             *)

Stages == {"none", "sent", "fields", "signed", "accepted", "answered", "landed", "failed", "rejected"}

(* Type invariant.  A wrapped SOL account holds the lamports of its tokens *)
(* and its rent.                                                           *)
MarketTypeOK ==
    /\ chain \in Chains
    /\ bid.stage \in Stages
    /\ now \in 0..MaxTime /\ changes \in 0..MaxChanges
    /\ Len(samples) <= FeeWindow
    /\ chain.meta = None => cached = None
    /\ SolBacked(chain)

SwapIx == bid.tx.ixs[ProgramInstruction(bid.tx, {"Swap", "SwapV2"})]
BidIx  == bid.tx.ixs[ProgramInstruction(bid.tx, {"SubmitBid"})]
Landing == Lands /\ bid'.stage = "landed"

Tokens(c, account) == IF c.tok[account] = Closed THEN 0 ELSE c.tok[account]
Received(c, d, account) == Tokens(d, account) - Tokens(c, account)

(* What a wallet has of a mint, wrapped or not, and what it gains of it.   *)
Worth(c, wallet, mint) ==
    IF mint = Sol THEN c.lam[wallet] + c.lam[<<wallet, Sol>>] ELSE Tokens(c, <<wallet, mint>>)
Gain(c, d, wallet, mint) == Worth(d, wallet, mint) - Worth(c, wallet, mint)

(* The first version of the instruction takes the platform fee that is     *)
(* current when it is executed.                                            *)
AgreedTerms == SwapIx.op = "SwapV2" \/ chain.meta.platformBps * BpsToPpm = quote.opp.platform

AgreedFees ==
    SwapFees(IF quote.opp.feeToken = "searcher" THEN SwapIx.args.amountSearcher ELSE SwapIx.args.amountUser,
             quote.opp.referral, quote.opp.platform, chain.meta.splitRelayer)

(* What the SDK builds for an opportunity is what the checks on the        *)
(* instructions, signatures and fee payer accept: as long as the           *)
(* opportunity is there, the deadline is in its window and the price of    *)
(* compute is high enough, no bid of the SDK is rejected before it is      *)
(* simulated (sdk/rust/src/svm.rs against verification.rs).                *)
SdkBidAccepted ==
    [][(/\ VerifyFields \/ VerifySignatures
        /\ bid.sdk /\ quote.live
        /\ DeadlineOk(SwapIx.args.deadline, quote.opp.minimumDeadline, now)
        /\ LeastPrice(samples, now) = 0) => bid'.stage # "rejected"]_vars

(* Whatever a searcher sends instead of the SDK's transaction, a swap that *)
(* was accepted and executes pays the router, the relayer and the program  *)
(* what the opportunity says of the amount that carries the fee, pays      *)
(* nobody else, and leaves the searcher the amount that searchers were     *)
(* told for their pricing.  Syncing the wrapped SOL of a wallet, which is  *)
(* not forbidden, brings it what the account held unsynced besides         *)
(* (check_svm_swap_bid_fields, check_sync_native_instruction_exists,       *)
(* swap.rs; From<OpportunitySvm> in opportunity/entities/opportunity.rs).  *)
Syncs(tx, account) == \E i \in Positions(tx, {"SyncNative"}) : tx.ixs[i].account = account

FeeDue(w, mint) ==
    LET part(party, n) == IF w = party /\ mint = MintOfFee(SwapIx) THEN n ELSE 0
    IN  part(quote.opp.router, AgreedFees.router) + part(chain.meta.feeReceiver, AgreedFees.relayer)
        + part(Meta, AgreedFees.program)

FeesAsAgreed ==
    [][(Landing /\ IsSwap /\ AgreedTerms) =>
          /\ \A w \in Wallets \ {SwapIx.user, SwapIx.searcher}, m \in Mints :
                 LET got == Received(chain, chain', <<w, m>>)
                 IN  got >= FeeDue(w, m) /\ (got = FeeDue(w, m) \/ Syncs(bid.tx, <<w, m>>))
          /\ quote.opp.feeToken = "user" /\ SpecifiedSide(quote.opp) = "user" =>
                 AgreedFees.remaining = QuoteTokens(quote.opp).userAmount]_vars

(* Whatever a searcher other than the user sends, a swap that was accepted *)
(* and executes costs the user, mint by mint, no more than the answered    *)
(* amount and the rent of the accounts the user was to pay for, and brings *)
(* the searcher's amount without the agreed fees; of any other mint the    *)
(* user loses nothing (check_svm_swap_bid_fields, check_create_ata, the    *)
(* checks on transfers and closed accounts, swap.rs).                      *)
UserProtected ==
    [][(Landing /\ IsSwap /\ AgreedTerms /\ SwapIx.searcher # SwapIx.user) =>
          LET opp == quote.opp
              of(mint, m, n) == IF m = mint THEN n ELSE 0
              due == IF opp.feeToken = "searcher" THEN AgreedFees.remaining ELSE SwapIx.args.amountSearcher
          IN  \A m \in Mints :
                 Gain(chain, chain', opp.user, m)
                   >= of(opp.mintSearcher, m, due) - of(opp.mintUser, m, quote.answer.userAmount)
                      - of(Sol, m, UserPaidInits(opp.inits) * RentToken)]_vars

(* What a check of a permission finds: exactly one bid, the parts of which *)
(* go to router, relayer and program; a wallet in two of these roles gets  *)
(* both parts.                                                             *)
PaidInParts(check) ==
    LET split == BidSplit(BidIx.bid, RouterSplit(chain, check.router), chain.meta.splitRelayer)
        part(w, party, n) == IF w = party THEN n ELSE 0
    IN  /\ Cardinality(Matching(bid.tx, check.permission, check.router)) = 1
        /\ split.router = PermissionFees(chain, bid.tx, check)
        /\ split.router + split.relayer + split.program = BidIx.bid
        /\ \A w \in Wallets : chain'.lam[w] - chain.lam[w]
              = part(w, check.router, split.router) + part(w, chain.meta.feeReceiver, split.relayer)
                + part(w, Meta, split.program) - part(w, BidIx.searcher, BidIx.bid)

(* A transaction in which the program for sale finds its permission has    *)
(* paid for it: one bid, which leaves the searcher and of which router,    *)
(* relayer and program get their parts, the router's being what            *)
(* check_permission answers; no other wallet gains or loses (lib.rs        *)
(* submit_bid, check_permission; utils.rs).                                *)
PermissionPaid ==
    [][(Landing /\ ~IsSwap) =>
          \A i \in Positions(bid.tx, {"Check"}) : PaidInParts(bid.tx.ixs[i])]_vars

(* The swap of what the simulation accepts executes, if the user has the   *)
(* amount: the promise of the swap instruction that a lack of the user's   *)
(* funds is the last of its checks (swap_internal, simulate_swap_bid).  It *)
(* is kept when the accounts of the fees exist or are created in the       *)
(* transaction; of what comes after the swap a simulation that ends at the *)
(* swap says nothing.                                                      *)
FundUser(c, ix, amount) ==
    LET a == <<ix.user, ix.mintUser>>
        rent == IF c.tok[a] = Closed THEN RentToken ELSE 0
    IN  [c EXCEPT !.tok[a] = amount + Tokens(c, a),
                  !.lam[a] = @ + rent + (IF ix.mintUser = Sol THEN amount ELSE 0)]

FeeAccounts(ix) == {ix.routerAccount, <<ix.feeReceiver, ix.mintFee>>, <<Meta, ix.mintFee>>}

FundedExecutes ==
    [][(Simulate /\ bid'.stage = "accepted" /\ IsSwap /\ ~IsIndicative) =>
          LET created == {bid.tx.ixs[i].ata : i \in Positions(bid.tx, {"CreateAta"})}
          IN  (\A a \in FeeAccounts(SwapIx) : chain.tok[a] # Closed \/ a \in created)
              => LET r == Execute(FundUser(chain, SwapIx, SwapIx.args.amountUser), bid.tx, now)
                 IN  r.err = None \/ r.at > ProgramInstruction(bid.tx, {"Swap", "SwapV2"})]_vars

(* A payment leaves every account of it that it changes with the rent of   *)
(* an account, and the admin cannot withdraw the rent of the metadata      *)
(* (handle_bid_payment, withdraw_fees).                                    *)
RentLeft(w) == chain'.lam[w] = chain.lam[w] \/ chain'.lam[w] >= RentWallet

RentKept ==
    [][/\ chain.meta # None => chain'.lam[Meta] >= RentMeta
       /\ (Landing /\ ~IsSwap) => \A w \in {BidIx.searcher, BidIx.router, chain.meta.feeReceiver} : RentLeft(w)]_vars

(* The amounts get_quote answered are the amounts of the swap, if nothing  *)
(* changes: "The token and amount that the user will receive when the swap *)
(* is complete" (api-types/src/opportunity.rs).                            *)
QuoteHonoured ==
    [][(Landing /\ IsSwap /\ changes = 0 /\ UserPaidInits(quote.opp.inits) = 0) =>
          Gain(chain, chain', quote.opp.user, quote.opp.mintSearcher) = quote.answer.searcherAmount]_vars
====
