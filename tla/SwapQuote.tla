---- MODULE SwapQuote ----
(***************************************************************************)
(* From the request for a quote to a transaction: the opportunity the      *)
(* server builds for a request (get_quote.rs, with the balances and the    *)
(* cached metadata it reads), the bid a searcher builds for it with the    *)
(* SDK (sdk/rust), and the amounts the server answers.                     *)
(***************************************************************************)
EXTENDS ExpressRelay

CONSTANTS
    FeeOrder,           \* ordered_fee_tokens, a sequence of mints
    PlatformFeeOf,      \* minimum_platform_fee_list: mint -> ppm or None
    ReferralFeeOf,      \* minimum_referral_fee_list of a profile: mint -> ppm or None
    Whitelist,          \* mints the server quotes
    Permissionless,     \* allow_permissionless_quote_requests
    IndicativeTaker,    \* the wallet generated for a request without one
    LifeOther,          \* BID_MINIMUM_LIFE_TIME_SVM_OTHER
    LifeMax,            \* BID_MAXIMUM_LIFE_TIME_SVM
    MaxReferralBps      \* the largest u16

ASSUME QuoteAssumption ==
    /\ Whitelist \subseteq Mints
    /\ \A m \in Whitelist : PlatformFeeOf[m] \in Nat \cup {None}
    /\ LifeOther \in Nat
    /\ PrecisionPpm <= MaxU64   \* a million is a u64
    /\ IndicativeTaker \in Wallets \ {Meta}

MaxOf(a, b) == IF a >= b THEN a ELSE b
MinOf(a, b) == IF a <= b THEN a ELSE b
OrZero(x) == IF x = None THEN 0 ELSE x

(* The wrap of an unchecked u64 operation in a release build.              *)
Wrap(n) == n % (MaxU64 + 1)

-----------------------------------------------------------------------------
(* Requests.  A request specifies the amount of one side's token.          *)

RouterOf(q) == IF q.router = None THEN Meta ELSE q.router
ReferralOf(q) == IF q.router = None THEN 0 ELSE q.referral
LifeOf(q) == IF q.lifetime = None THEN LifeOther ELSE q.lifetime

ValidQuote(q) ==
    /\ OrZero(q.lifetime) <= LifeMax
    /\ ReferralOf(q) <= PrecisionPpm
    /\ {q.mintUser, q.mintSearcher} \subseteq Whitelist
    /\ Permissionless \/ q.profile # None
    /\ ReferralOf(q) >= MaxOf(OrZero(ReferralFeeOf[q.mintUser]), OrZero(ReferralFeeOf[q.mintSearcher]))

(* The fee is paid in the token that comes first in the configured order,  *)
(* in the user's token when neither does.                                  *)
Tier(mint) == LET at == {i \in DOMAIN FeeOrder : FeeOrder[i] = mint}
              IN  IF at = {} THEN Len(FeeOrder) + 1 ELSE CHOOSE i \in at : \A j \in at : i <= j
FeeToken(q) == IF Tier(q.mintUser) <= Tier(q.mintSearcher) THEN "user" ELSE "searcher"

PlatformPpm(meta, q) ==
    MaxOf(MaxOf(OrZero(PlatformFeeOf[q.mintUser]), OrZero(PlatformFeeOf[q.mintSearcher])),
          meta.platformBps * BpsToPpm)

(* The searcher's amount that leaves the requested amount after the fees.  *)
LeftByFees(referral, platform) == Wrap(PrecisionPpm - referral - platform)
WithFees(amount, referral, platform) ==
    DivCeil(Wrap(amount * PrecisionPpm), LeftByFees(referral, platform))

QuotedAmounts(q, platform) ==
    CASE q.specified = "user" -> [ok |-> q.amount > 0, searcher |-> 0, user |-> q.amount]
      [] q.specified = "searcher" /\ FeeToken(q) = "user" ->
            [ok |-> q.amount > 0, searcher |-> q.amount, user |-> 0]
      [] OTHER ->
            IF ReferralOf(q) + platform >= PrecisionPpm THEN [ok |-> FALSE, searcher |-> 0, user |-> 0]
            ELSE LET n == WithFees(q.amount, ReferralOf(q), platform)
                 IN  [ok |-> n > 0, searcher |-> n, user |-> 0]

-----------------------------------------------------------------------------
(* Token accounts that the transaction has to create, and who pays.        *)

InitConfig(c, account, userPays) ==
    CASE c.tok[account] # Closed -> "Unneeded"
      [] c.tok[account] = Closed /\ userPays -> "UserPayer"
      [] OTHER -> "SearcherPayer"

(* The user pays while SOL for two more accounts is left.                  *)
InitConfigs(c, q, feeReceiver) ==
    LET mintFee  == IF FeeToken(q) = "searcher" THEN q.mintSearcher ELSE q.mintUser
        own      == <<q.user, q.mintUser>>
        sol      == c.lam[q.user]
        paysOwn  == sol >= 3 * RentToken /\ c.tok[own] = Closed
        left     == IF paysOwn THEN sol - RentToken ELSE sol
    IN  [userMintUser     |-> InitConfig(c, own, paysOwn),
         userMintSearcher |-> InitConfig(c, <<q.user, q.mintSearcher>>, left >= 3 * RentToken),
         router           |-> InitConfig(c, <<RouterOf(q), mintFee>>, FALSE),
         relayer          |-> InitConfig(c, <<feeReceiver, mintFee>>, FALSE),
         program          |-> InitConfig(c, <<Meta, mintFee>>, FALSE)]

NoInits == [userMintUser |-> "Unneeded", userMintSearcher |-> "Unneeded", router |-> "Unneeded",
            relayer |-> "Unneeded", program |-> "Unneeded"]

(* Wrapped SOL is wrapped for the swap: the wallet is what counts.         *)
UserBalance(c, q) ==
    IF q.mintUser = Sol THEN c.lam[q.user]
    ELSE IF c.tok[<<q.user, q.mintUser>>] = Closed THEN 0 ELSE c.tok[<<q.user, q.mintUser>>]

(* The virtual permission account is derived from all of its seeds.        *)
PermissionAccount(specified, mintUser, mintSearcher, amount, user, routerAccount, referral) ==
    <<specified, mintUser, mintSearcher, amount, user, routerAccount, referral>>

(* get_opportunity_create_for_quote: the opportunity, or None where the    *)
(* request is refused.                                                     *)
Opportunity(c, meta, q, now) ==
    LET platform == PlatformPpm(meta, q)
        amounts  == QuotedAmounts(q, platform)
        mintFee  == IF FeeToken(q) = "searcher" THEN q.mintSearcher ELSE q.mintUser
        user     == IF q.user = None THEN IndicativeTaker ELSE q.user
        inits    == IF q.user = None THEN NoInits ELSE InitConfigs(c, q, meta.feeReceiver)
        account  == <<RouterOf(q), mintFee>>
    IN  IF ~ValidQuote(q) \/ ~amounts.ok \/ ReferralOf(q) \div BpsToPpm > MaxReferralBps THEN None
        ELSE [user |-> user,
              balance |-> IF q.user = None THEN 0 ELSE UserBalance(c, q),
              feeToken |-> FeeToken(q),
              referral |-> ReferralOf(q),
              platform |-> platform,
              mintUser |-> q.mintUser, mintSearcher |-> q.mintSearcher,
              amountUser |-> amounts.user, amountSearcher |-> amounts.searcher,
              inits |-> IF platform > 0 THEN inits
                        ELSE [inits EXCEPT !.program = "Unneeded", !.relayer = "Unneeded"],
              router |-> RouterOf(q),
              memo |-> q.memo,
              minimumDeadline |-> now + LifeOf(q),
              permission |-> PermissionAccount(q.specified, q.mintUser, q.mintSearcher,
                                 MaxOf(amounts.user, amounts.searcher), user, account, ReferralOf(q))]

(* get_swap_quote_tokens reads the side from the amount that is not zero.  *)
SpecifiedSide(opp) == IF opp.amountSearcher = 0 THEN "user" ELSE "searcher"

(* What searchers are told of the amounts: the user's with the fees, and    *)
(* without them, which is for their pricing only.                          *)
QuoteTokens(opp) ==
    LET n == opp.amountUser
        without == IF opp.feeToken = "user"
                   THEN SaturatingSub(SaturatingSub(n, Share(n, opp.referral, PrecisionPpm)),
                                      Share(n, opp.platform, PrecisionPpm))
                   ELSE n
    IN  [specified |-> SpecifiedSide(opp), searcherAmount |-> opp.amountSearcher,
         userAmount |-> without, userAmountIncludingFees |-> n]

UserPaidInits(inits) == Cardinality({f \in {"userMintUser", "userMintSearcher"} : inits[f] = "UserPayer"})
AmountToWrap(opp, amountUser) ==
    MinOf(amountUser, SaturatingSub(opp.balance, UserPaidInits(opp.inits) * RentToken))

-----------------------------------------------------------------------------
(* The SDK: a transaction for a swap opportunity.                          *)

(* A bid on the user's amount with fees in the user's token is what the    *)
(* searcher wants to receive; the SDK panics where the fees leave nothing. *)
ScalesBid(opp) == SpecifiedSide(opp) = "searcher" /\ opp.feeToken = "user"
CanScale(opp) == ScalesBid(opp) => LeftByFees(opp.referral, opp.platform) # 0
BidWithFees(opp, amount) ==
    IF ScalesBid(opp)
    THEN WithFees(amount, opp.referral, opp.platform)
    ELSE amount

(* create_swap_instruction: the mint of the fees follows from the fee      *)
(* token.                                                                  *)
NewSwap(searcher, user, routerAccount, feeReceiver, mintSearcher, mintUser, args, relayer) ==
    LET mintFee == IF args.feeToken = "searcher" THEN mintSearcher ELSE mintUser
    IN  [op |-> "SwapV2", searcher |-> searcher, user |-> user,
         mintSearcher |-> mintSearcher, mintUser |-> mintUser, mintFee |-> mintFee,
         routerAccount |-> routerAccount, feeReceiver |-> feeReceiver,
         relayer |-> relayer, args |-> args]

SwapInstruction(opp, b) ==
    LET bid == BidWithFees(opp, b.amount)
        tokens == QuoteTokens(opp)
        mintFee == IF opp.feeToken = "searcher" THEN opp.mintSearcher ELSE opp.mintUser
    IN  NewSwap(b.searcher, opp.user, <<opp.router, mintFee>>, b.feeReceiver, opp.mintSearcher, opp.mintUser,
                [deadline |-> b.deadline,
                 amountSearcher |-> IF tokens.specified = "searcher" THEN tokens.searcherAmount ELSE bid,
                 amountUser |-> IF tokens.specified = "user" THEN tokens.userAmountIncludingFees ELSE bid,
                 referral |-> opp.referral, platform |-> opp.platform, feeToken |-> opp.feeToken],
                b.relayer)

Create(payer, owner, mint) ==
    [op |-> "CreateAta", payer |-> payer, ata |-> <<owner, mint>>, owner |-> owner, mint |-> mint]

(* get_token_account_to_create: nothing for an account that is unneeded.   *)
TokenAccountToCreate(opp, b, config, owner, mint) ==
    IF config = "Unneeded" THEN <<>>
    ELSE << [payer |-> IF config = "SearcherPayer" THEN b.searcher ELSE opp.user,
             owner |-> owner, mint |-> mint] >>

TokenAccountsToCreate(opp, b) ==
    LET mintFee == IF opp.feeToken = "searcher" THEN opp.mintSearcher ELSE opp.mintUser
    IN  TokenAccountToCreate(opp, b, opp.inits.userMintSearcher, opp.user, opp.mintSearcher)
        \o TokenAccountToCreate(opp, b, opp.inits.userMintUser, opp.user, opp.mintUser)
        \o TokenAccountToCreate(opp, b, opp.inits.router, opp.router, mintFee)
        \o TokenAccountToCreate(opp, b, opp.inits.relayer, b.feeReceiver, mintFee)
        \o TokenAccountToCreate(opp, b, opp.inits.program, Meta, mintFee)

CreateInstructions(opp, b) ==
    LET accounts == TokenAccountsToCreate(opp, b)
    IN  [i \in DOMAIN accounts |-> Create(accounts[i].payer, accounts[i].owner, accounts[i].mint)]

WrapInstructions(opp, amount) ==
    << [op |-> "Transfer", from |-> opp.user, to |-> <<opp.user, Sol>>, lamports |-> amount],
       [op |-> "SyncNative", account |-> <<opp.user, Sol>>] >>

Unwrap(owner) ==
    [op |-> "CloseAccount", account |-> <<owner, Sol>>, destination |-> owner, owner |-> owner]

When(condition, ixs) == IF condition THEN ixs ELSE <<>>

SwapTransaction(opp, b) ==
    LET swap == SwapInstruction(opp, b)
    IN  [payer |-> b.searcher,
         signers |-> {b.searcher, opp.user, b.relayer},
         signed |-> {b.searcher},
         ixs |-> When(opp.memo # None, << [op |-> "Memo", memo |-> opp.memo] >>)
                 \o CreateInstructions(opp, b)
                 \o When(opp.mintUser = Sol, WrapInstructions(opp, AmountToWrap(opp, swap.args.amountUser)))
                 \o << swap >>
                 \o When(Sol \in {opp.mintUser, opp.mintSearcher}, << Unwrap(opp.user) >>)]

NewSubmitBid(b) ==
    [op |-> "SubmitBid", cpi |-> FALSE, searcher |-> b.searcher, relayer |-> b.relayer,
     permission |-> b.permission, router |-> b.router, feeReceiver |-> b.feeReceiver,
     bid |-> b.amount, deadline |-> b.deadline]

(* A bid for a permission key: what the searcher wants to do, then pay.    *)
SubmitBidTransaction(ixs, b) ==
    [payer |-> b.searcher,
     signers |-> {b.searcher, b.relayer},
     signed |-> {b.searcher},
     ixs |-> Append(ixs, NewSubmitBid(b))]

-----------------------------------------------------------------------------
(* What get_quote answers for the winning swap.                            *)

Answer(meta, q, opp, ix) ==
    LET args == SwapArgs(meta.platformBps, ix)
        fees == FeesOf([meta |-> meta], [args EXCEPT !.referral = ReferralOf(q),
                                                     !.platform = meta.platformBps * BpsToPpm])
        balance == IF opp.mintUser = Sol
                   THEN SaturatingSub(opp.balance, UserPaidInits(opp.inits) * RentToken)
                   ELSE opp.balance
    IN  IF ~fees.ok THEN None
        ELSE [searcherAmount |-> IF args.feeToken = "searcher" THEN fees.remaining ELSE args.amountSearcher,
              userAmount |-> args.amountUser,
              referrerFee |-> fees.router,
              platformFee |-> fees.platform,
              offered |-> balance >= args.amountUser]
====
