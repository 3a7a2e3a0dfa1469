---- MODULE ExpressRelay ----
(***************************************************************************)
(* The Express Relay program, the accounts it works on, and the            *)
(* transactions that reach it.                                             *)
(*                                                                         *)
(* A chain is a record:                                                    *)
(*   meta    the metadata account, None before initialize                  *)
(*   config  a router's split of bids, None where there is no ConfigRouter *)
(*   lam     lamports of every wallet and token account                    *)
(*   tok     tokens of every associated token account, Closed where none   *)
(* An associated token account is named by its owner and its mint; a mint  *)
(* stands for the mint together with its token program.                    *)
(*                                                                         *)
(* A transaction is a record of its fee payer, its signers, and a sequence *)
(* of instructions; it takes effect as a whole or not at all.  Executing   *)
(* an instruction answers [err, chain]: err is None, or the first check    *)
(* that failed.                                                            *)
(***************************************************************************)
EXTENDS FeeMath, FiniteSetsExt, SequencesExt

CONSTANTS
    Wallets,    \* system accounts, the metadata account among them
    Meta,       \* the metadata account of the program
    Mints, Sol, \* mints; Sol is the mint of wrapped SOL
    Closed,     \* "no such token account"
    None,
    RentWallet, \* rent-exempt minimum of an account without data
    RentMeta,   \* ... of the metadata account
    RentConfig, \* ... of a ConfigRouter
    RentToken   \* ... of a token account

TokenAccounts == Wallets \X Mints
Accounts == Wallets \cup TokenAccounts
Splits == 0..Precision

ExpressRelayMetadata ==
    [admin : Wallets, relayer : Wallets, secondary : Wallets \cup {None}, feeReceiver : Wallets,
     splitRouter : Splits, splitRelayer : Splits, platformBps : Splits]

Chains ==
    [meta : ExpressRelayMetadata \cup {None},
     config : [Wallets -> Splits \cup {None}],
     lam : [Accounts -> Nat],
     tok : [TokenAccounts -> Nat \cup {Closed}]]

(* The errors of the runtime, of the token program and of this program.    *)
Failures ==
    {"MissingSignature", "InsufficientLamports", "InsufficientTokens", "NotNative", "CannotClose", "AlreadyInUse",
     "AccountNotInitialized", "ConstraintHasOne", "ConstraintRaw", "ConstraintTokenOwner", "ConstraintTokenMint",
     "FeeSplitLargerThanPrecision", "FeesHigherThanBid", "DeadlinePassed", "InvalidCPISubmitBid",
     "MissingPermission", "MultiplePermissions", "InsufficientSearcherFunds", "InsufficientUserFunds",
     "InsufficientRent", "ArithmeticOverflow"}

ASSUME ChainAssumption ==
    /\ Meta \in Wallets /\ Sol \in Mints /\ Wallets \cap TokenAccounts = {}
    /\ Closed \notin Nat /\ None \notin Nat \cup Wallets \cup Failures \cup ExpressRelayMetadata
    /\ RentWallet \in Nat /\ RentMeta \in Nat /\ RentConfig \in Nat /\ RentToken \in Nat
    /\ RentWallet <= RentMeta   \* the rent of an account grows with its size

(* The instructions that are executed, and transactions of them; the       *)
(* metadata account signs none, as there is no key to it.                  *)
SwapArguments == [deadline : Nat, amountSearcher : Nat, amountUser : Nat,
                  referral : Nat, platform : Nat, feeToken : {"user", "searcher"}]

TokenInstructions ==
    [op : {"CreateAta"}, payer : Wallets, ata : TokenAccounts, owner : Wallets, mint : Mints]
    \cup [op : {"SyncNative"}, account : TokenAccounts]
    \cup [op : {"CloseAccount"}, account : TokenAccounts, destination : Accounts, owner : Wallets]
SystemInstructions == [op : {"Transfer"}, from : Wallets, to : Accounts, lamports : Nat]
BidInstructions ==
    [op : {"SubmitBid"}, cpi : BOOLEAN, searcher : Wallets, relayer : Wallets, permission : Nat,
     router : Wallets, feeReceiver : Wallets, bid : Nat, deadline : Nat]
    \cup [op : {"Check"}, permission : Nat, router : Wallets]
SwapInstructions ==
    [op : {"Swap", "SwapV2"}, searcher : Wallets, user : Wallets, mintSearcher : Mints, mintUser : Mints,
     mintFee : Mints, routerAccount : TokenAccounts, feeReceiver : Wallets, relayer : Wallets,
     args : SwapArguments]
AdminInstructions ==
    [op : {"Admin"}, what : {"Initialize", "SetAdmin", "SetRelayer", "SetSecondaryRelayer", "SetSplits",
                             "SetSwapPlatformFee", "SetRouterSplit", "WithdrawFees", "WithdrawSplFees"},
     by : Wallets, admin : Wallets, relayer : Wallets, feeReceiver : Wallets, splitRouter : Nat,
     splitRelayer : Nat, bps : Nat, router : Wallets, split : Nat, to : Wallets, mint : Mints]
Instructions(memos) ==
    TokenInstructions \cup SystemInstructions \cup BidInstructions \cup SwapInstructions \cup AdminInstructions
    \cup [op : {"Memo"}, memo : memos] \cup [op : {"SetComputeUnitPrice"}, price : Nat]

Transactions(memos) == [payer : Wallets, signers : SUBSET (Wallets \ {Meta}), signed : SUBSET Wallets,
                        ixs : Seq(Instructions(memos))]

Ok(c) == [err |-> None, chain |-> c]
Fail(e, c) == [err |-> e, chain |-> c]
Then(st, F(_)) == IF st.err = None THEN F(st.chain) ELSE st

(* Checks are made in their order; the first that fails gives the error.   *)
Require(ok, e, rest) == IF ok THEN rest ELSE e
Guarded(c, err, F(_)) == IF err = None THEN F(c) ELSE Fail(err, c)

EmptyChain(lam) == [meta |-> None,
                    config |-> [r \in Wallets |-> None],
                    lam |-> [a \in Accounts |-> IF a \in DOMAIN lam THEN lam[a] ELSE 0],
                    tok |-> [a \in TokenAccounts |-> Closed]]

(* Wrapped SOL: the lamports of its tokens and the rent are in the account.*)
SolBacked(c) == \A w \in Wallets : c.tok[<<w, Sol>>] # Closed =>
                   c.lam[<<w, Sol>>] >= c.tok[<<w, Sol>>] + RentToken

MetaFunded(c) == c.meta # None => c.lam[Meta] >= RentMeta

-----------------------------------------------------------------------------
(* The system and token programs.                                          *)

Moved(f, from, to, n) == LET without == [f EXCEPT ![from] = @ - n]
                         IN  [without EXCEPT ![to] = @ + n]

MoveLamports(c, from, to, n) ==
    IF c.lam[from] < n THEN Fail("InsufficientLamports", c)
    ELSE Ok([c EXCEPT !.lam = Moved(c.lam, from, to, n)])

(* transfer_token_if_needed: nothing is called for an amount of zero.      *)
MoveTokens(c, from, to, n) ==
    CASE n = 0 -> Ok(c)
      [] n > 0 /\ c.tok[to] = Closed -> Fail("AccountNotInitialized", c)
      [] n > 0 /\ c.tok[to] # Closed /\ c.tok[from] < n -> Fail("InsufficientTokens", c)
      [] OTHER ->
           LET moved == [c EXCEPT !.tok = Moved(c.tok, from, to, n)]
           IN  IF from[2] = Sol THEN MoveLamports(moved, from, to, n) ELSE Ok(moved)

CreateAta(c, ix) ==
    IF c.tok[ix.ata] # Closed THEN Ok(c)
    ELSE Then(MoveLamports(c, ix.payer, ix.ata, SaturatingSub(RentToken, c.lam[ix.ata])),
              LAMBDA d : Ok([d EXCEPT !.tok[ix.ata] = 0]))

SyncNative(c, ix) ==
    IF ix.account[2] # Sol \/ c.tok[ix.account] = Closed THEN Fail("NotNative", c)
    ELSE Ok([c EXCEPT !.tok[ix.account] = c.lam[ix.account] - RentToken])

CloseAccount(c, ix) ==
    IF c.tok[ix.account] = Closed \/ (ix.account[2] # Sol /\ c.tok[ix.account] # 0)
    THEN Fail("CannotClose", c)
    ELSE Then(MoveLamports(c, ix.account, ix.destination, c.lam[ix.account]),
              LAMBDA d : Ok([d EXCEPT !.tok[ix.account] = Closed]))

-----------------------------------------------------------------------------
(* Administration.                                                         *)

AdminOnly(c, ix, rest) == Require(c.meta # None /\ ix.by = c.meta.admin, "ConstraintHasOne", rest)

Initialize(c, ix) ==
    Guarded(c, Require(c.meta = None, "AlreadyInUse",
               Require(ValidSplit(ix.splitRouter) /\ ValidSplit(ix.splitRelayer), "FeeSplitLargerThanPrecision", None)),
        LAMBDA d : Then(MoveLamports(d, ix.by, Meta, RentMeta),
            LAMBDA e : Ok([e EXCEPT !.meta = [admin |-> ix.admin, relayer |-> ix.relayer,
                                              secondary |-> None, feeReceiver |-> ix.feeReceiver,
                                              splitRouter |-> ix.splitRouter,
                                              splitRelayer |-> ix.splitRelayer, platformBps |-> 0]])))

SetAdmin(c, ix) ==
    Guarded(c, AdminOnly(c, ix, None), LAMBDA d : Ok([d EXCEPT !.meta.admin = ix.admin]))

SetRelayer(c, ix) ==
    Guarded(c, AdminOnly(c, ix, None),
        LAMBDA d : Ok([d EXCEPT !.meta.relayer = ix.relayer, !.meta.feeReceiver = ix.feeReceiver]))

SetSecondaryRelayer(c, ix) ==
    Guarded(c, AdminOnly(c, ix, None), LAMBDA d : Ok([d EXCEPT !.meta.secondary = ix.relayer]))

SetSplits(c, ix) ==
    Guarded(c, AdminOnly(c, ix,
               Require(ValidSplit(ix.splitRouter) /\ ValidSplit(ix.splitRelayer), "FeeSplitLargerThanPrecision", None)),
        LAMBDA d : Ok([d EXCEPT !.meta.splitRouter = ix.splitRouter,
                                !.meta.splitRelayer = ix.splitRelayer]))

SetSwapPlatformFee(c, ix) ==
    Guarded(c, AdminOnly(c, ix,
               Require(ValidSplit(ix.bps), "FeeSplitLargerThanPrecision", None)),
        LAMBDA d : Ok([d EXCEPT !.meta.platformBps = ix.bps]))

(* init_if_needed: what the admin pays for a ConfigRouter that does not    *)
(* exist yet.  Nothing moves its lamports again, and they are not counted. *)
ConfigRent(c, router) == IF c.config[router] = None THEN RentConfig ELSE 0

SetRouterSplit(c, ix) ==
    LET rent == ConfigRent(c, ix.router)
    IN  Guarded(c, AdminOnly(c, ix,
                   Require(c.lam[ix.by] >= rent, "InsufficientLamports",
                   Require(ValidSplit(ix.split), "FeeSplitLargerThanPrecision", None))),
            LAMBDA d : Ok([d EXCEPT !.config[ix.router] = ix.split, !.lam[ix.by] = @ - rent]))

WithdrawFees(c, ix) ==
    Guarded(c, AdminOnly(c, ix, None),
        LAMBDA d : MoveLamports(d, Meta, ix.to, SaturatingSub(d.lam[Meta], RentMeta)))

WithdrawSplFees(c, ix) ==
    Guarded(c, AdminOnly(c, ix,
               Require(c.tok[<<Meta, ix.mint>>] # Closed /\ c.tok[<<ix.to, ix.mint>>] # Closed, "AccountNotInitialized",
               None)),
        LAMBDA d : MoveTokens(d, <<Meta, ix.mint>>, <<ix.to, ix.mint>>, d.tok[<<Meta, ix.mint>>]))

-----------------------------------------------------------------------------
(* Bids.                                                                   *)

RouterSplit(c, router) ==
    IF c.config[router] # None THEN c.config[router] ELSE c.meta.splitRouter

IsRelayer(c, wallet) == wallet \in {c.meta.relayer, c.meta.secondary}

(* Instruction introspection sees the instructions of the transaction, not *)
(* those another program calls.                                            *)
SubmitBids(tx) == {i \in DOMAIN tx.ixs : tx.ixs[i].op = "SubmitBid" /\ ~tx.ixs[i].cpi}
Matching(tx, permission, router) ==
    {i \in SubmitBids(tx) : tx.ixs[i].permission = permission /\ tx.ixs[i].router = router}

MinRent(a) == IF a = Meta THEN RentMeta ELSE RentWallet

(* A fee goes to an account that is, with it, rent exempt.                 *)
PayFee(c, from, to, fee) ==
    IF fee = 0 THEN Ok(c)
    ELSE IF c.lam[to] + fee < MinRent(to) THEN Fail("InsufficientRent", c)
    ELSE MoveLamports(c, from, to, fee)

HandleBidPaymentNoRent(c, ix) ==   \* mutant
    LET split == BidSplit(ix.bid, RouterSplit(c, ix.router), c.meta.splitRelayer)
    IN  Guarded(c, Require(ix.bid <= c.lam[ix.searcher], "InsufficientSearcherFunds",
                   Require(split.ok, "FeesHigherThanBid", None)),
            LAMBDA c1 : Then(PayFee(c1, ix.searcher, ix.router, split.router),
            LAMBDA c2 : Then(PayFee(c2, ix.searcher, c.meta.feeReceiver, split.relayer),
            LAMBDA c3 : MoveLamports(c3, ix.searcher, Meta, split.program))))

HandleBidPayment(c, ix) ==
    LET split == BidSplit(ix.bid, RouterSplit(c, ix.router), c.meta.splitRelayer)
    IN  Guarded(c, Require(ix.bid + RentWallet <= c.lam[ix.searcher], "InsufficientSearcherFunds",
                   Require(split.ok, "FeesHigherThanBid", None)),
            LAMBDA c1 : Then(PayFee(c1, ix.searcher, ix.router, split.router),
            LAMBDA c2 : Then(PayFee(c2, ix.searcher, c.meta.feeReceiver, split.relayer),
            LAMBDA c3 : MoveLamports(c3, ix.searcher, Meta, split.program))))

BidAccountsOk(c, ix) == c.meta # None /\ ix.feeReceiver = c.meta.feeReceiver

SubmitBidViaCpi(c, tx, ix, now) ==   \* mutant
    Guarded(c, Require(BidAccountsOk(c, ix), "ConstraintHasOne",
               Require(ix.deadline >= now, "DeadlinePassed",
               Require(IsRelayer(c, ix.relayer), "ConstraintHasOne",
               Require(Cardinality(SubmitBids(tx)) <= 1, "MultiplePermissions", None)))),
            LAMBDA d : HandleBidPayment(d, ix))

SubmitBid(c, tx, ix, now) ==
    Guarded(c, Require(BidAccountsOk(c, ix), "ConstraintHasOne",
               Require(ix.deadline >= now, "DeadlinePassed",
               Require(IsRelayer(c, ix.relayer), "ConstraintHasOne",
               Require(~ix.cpi, "InvalidCPISubmitBid",
               Require(Cardinality(SubmitBids(tx)) <= 1, "MultiplePermissions", None))))),
            LAMBDA d : HandleBidPayment(d, ix))

(* check_permission, called by the program whose state is for sale, finds  *)
(* the bids of this transaction for its permission and router.             *)
CheckPermission(c, tx, ix) ==
    IF c.meta # None /\ Matching(tx, ix.permission, ix.router) # {} THEN Ok(c)
    ELSE Fail("MissingPermission", c)

(* ... and answers the fees those bids pay to the router.                  *)
PermissionFees(c, tx, ix) ==
    MapThenSumSet(LAMBDA i : Share(tx.ixs[i].bid, RouterSplit(c, ix.router), Precision),
                  Matching(tx, ix.permission, ix.router))

-----------------------------------------------------------------------------
(* Swaps.                                                                  *)

(* The arguments of either version of the instruction: the first has its   *)
(* referral fee in basis points and takes the platform fee of the program. *)
SwapArgs(platformBps, ix) ==
    IF ix.op = "SwapV2" THEN ix.args
    ELSE [ix.args EXCEPT !.referral = @ * BpsToPpm, !.platform = platformBps * BpsToPpm]

MintOfFee(ix) == IF ix.args.feeToken = "searcher" THEN ix.mintSearcher ELSE ix.mintUser

FeesOf(c, args) ==
    SwapFees(IF args.feeToken = "searcher" THEN args.amountSearcher ELSE args.amountUser,
             args.referral, args.platform, c.meta.splitRelayer)

SearcherSource(ix) == <<ix.searcher, ix.mintSearcher>>
SearcherTarget(ix) == <<ix.searcher, ix.mintUser>>
UserSource(ix)     == <<ix.user, ix.mintUser>>
UserTarget(ix)     == <<ix.user, ix.mintSearcher>>

(* The receiver of a fee is only looked at when there is a fee.            *)
PaySwapFee(c, from, to, owner, mint, fee) ==
    IF fee = 0 THEN Ok(c)
    ELSE Guarded(c, Require(c.tok[to] # Closed, "AccountNotInitialized",
                    Require(owner \in {None, to[1]}, "ConstraintTokenOwner",
                    Require(to[2] = mint, "ConstraintTokenMint", None))),
                 LAMBDA d : MoveTokens(d, from, to, fee))

PaySwap(c, ix, args, fees) ==
    LET payer == IF args.feeToken = "searcher" THEN SearcherSource(ix) ELSE UserSource(ix)
        after(side, amount) == IF args.feeToken = side THEN fees.remaining ELSE amount
    IN  Then(PaySwapFee(c, payer, ix.routerAccount, None, ix.mintFee, fees.router),
        LAMBDA c1 : Then(PaySwapFee(c1, payer, <<ix.feeReceiver, ix.mintFee>>, c.meta.feeReceiver,
                                    ix.mintFee, fees.relayer),
        LAMBDA c2 : Then(PaySwapFee(c2, payer, <<Meta, ix.mintFee>>, Meta, ix.mintFee, fees.program),
        LAMBDA c3 : Then(MoveTokens(c3, SearcherSource(ix), UserTarget(ix),
                                    after("searcher", args.amountSearcher)),
        LAMBDA c4 : MoveTokens(c4, UserSource(ix), SearcherTarget(ix),
                               after("user", args.amountUser))))))

SwapAccountsExist(c, ix) ==
    /\ c.meta # None
    /\ \A a \in {SearcherSource(ix), SearcherTarget(ix), UserSource(ix), UserTarget(ix)} : c.tok[a] # Closed

EnoughBalances(c, ix, args) ==
    Require(c.tok[SearcherSource(ix)] >= args.amountSearcher, "InsufficientSearcherFunds",
    Require(c.tok[UserSource(ix)] >= args.amountUser, "InsufficientUserFunds", None))

Swap(c, ix, now) ==
    IF ~SwapAccountsExist(c, ix)
    THEN Fail("AccountNotInitialized", c)
    ELSE LET args == SwapArgs(c.meta.platformBps, ix)
             fees == FeesOf(c, args)
         IN  Guarded(c, Require(ix.mintFee = MintOfFee(ix), "ConstraintRaw",
                        Require(args.deadline >= now, "DeadlinePassed",
                        Require(IsRelayer(c, ix.relayer), "ConstraintHasOne",
                        Require(fees.ok, "ArithmeticOverflow", None)))),
                     LAMBDA d : Guarded(d, EnoughBalances(d, ix, args),
                     LAMBDA e : PaySwap(e, ix, args, fees)))

-----------------------------------------------------------------------------
(* Transactions.                                                           *)

SignersOf(ix) ==
    CASE ix.op = "CreateAta"          -> {ix.payer}
      [] ix.op = "Transfer"           -> {ix.from}
      [] ix.op = "CloseAccount"       -> {ix.owner}
      [] ix.op = "SubmitBid"          -> {ix.searcher, ix.relayer}
      [] ix.op \in {"Swap", "SwapV2"} -> {ix.searcher, ix.user, ix.relayer}
      [] ix.op = "Admin"              -> {ix.by}
      [] OTHER                        -> {}

AdminIx(c, ix) ==
    CASE ix.what = "Initialize"          -> Initialize(c, ix)
      [] ix.what = "SetAdmin"            -> SetAdmin(c, ix)
      [] ix.what = "SetRelayer"          -> SetRelayer(c, ix)
      [] ix.what = "SetSecondaryRelayer" -> SetSecondaryRelayer(c, ix)
      [] ix.what = "SetSplits"           -> SetSplits(c, ix)
      [] ix.what = "SetSwapPlatformFee"  -> SetSwapPlatformFee(c, ix)
      [] ix.what = "SetRouterSplit"      -> SetRouterSplit(c, ix)
      [] ix.what = "WithdrawFees"        -> WithdrawFees(c, ix)
      [] ix.what = "WithdrawSplFees"     -> WithdrawSplFees(c, ix)

Step(c, tx, ix, now) ==
    CASE ix.op = "CreateAta"    -> CreateAta(c, ix)
      [] ix.op = "Transfer"     -> MoveLamports(c, ix.from, ix.to, ix.lamports)
      [] ix.op = "SyncNative"   -> SyncNative(c, ix)
      [] ix.op = "CloseAccount" -> CloseAccount(c, ix)
      [] ix.op = "SubmitBid"    -> SubmitBid(c, tx, ix, now)
      [] ix.op = "Check"        -> CheckPermission(c, tx, ix)
      [] ix.op \in {"Swap", "SwapV2"} -> Swap(c, ix, now)
      [] ix.op = "Admin"        -> AdminIx(c, ix)
      [] OTHER                  -> Ok(c)   \* memo, compute budget

(* One instruction after another, until one fails.                         *)
Executed(st, tx, i, now) ==
    IF st.err # None THEN st
    ELSE LET r == IF SignersOf(tx.ixs[i]) \subseteq tx.signers THEN Step(st.chain, tx, tx.ixs[i], now)
                  ELSE Fail("MissingSignature", st.chain)
         IN  [err |-> r.err, chain |-> r.chain, at |-> i]

Run(c, tx, now) ==
    LET run[i \in 0..Len(tx.ixs)] ==
            IF i = 0 THEN [err |-> None, chain |-> c, at |-> 0]
            ELSE Executed(run[i - 1], tx, i, now)
    IN  run

(* The outcome of a transaction: the first error and the instruction it    *)
(* happened in, or the chain after it.                                     *)
Execute(c, tx, now) ==
    LET st == Run(c, tx, now)[Len(tx.ixs)]
    IN  IF st.err = None THEN st ELSE [st EXCEPT !.chain = c]
====
