---- MODULE BidVerification ----
(***************************************************************************)
(* What verify_bid asks of a bid before it is added (verification.rs,      *)
(* get_bid_transaction_data.rs).  The checks that only read the            *)
(* transaction and the opportunity are one predicate each; the module that *)
(* runs them decides what happens between them.  Accounts that a           *)
(* transaction names through a lookup table are taken as resolved.         *)
(***************************************************************************)
EXTENDS SwapQuote, Tables

CONSTANTS
    RelayerKey,   \* the key the server signs with
    LifeServer,   \* BID_MINIMUM_LIFE_TIME_SVM_SERVER
    FeeWindow,    \* RECENT_FEES_SLOT_WINDOW: samples kept
    FeeMaxAge     \* age from which a sample no longer counts

Positions(tx, ops) == {i \in DOMAIN tx.ixs : tx.ixs[i].op \in ops}

(* extract_program_instructions: those of some programs, in their order.   *)
Ixs(tx, ops) == Selected(tx.ixs, {tx.ixs[i] : i \in Positions(tx, ops)})

-----------------------------------------------------------------------------
(* Prioritization fees.                                                    *)

PushSampleUnbounded(samples, fee, now) == Append(samples, [fee |-> fee, time |-> now])   \* mutant

PushSample(samples, fee, now) ==
    LET longer == Append(samples, [fee |-> fee, time |-> now])
    IN  IF Len(longer) > FeeWindow THEN Tail(longer) ELSE longer

(* get_priority_fees: the samples taken after a time.                      *)
FeesAfter(samples, time) == {samples[i].fee : i \in {j \in DOMAIN samples : samples[j].time > time}}

LeastPrice(samples, now) ==
    LET fees == FeesAfter(samples, now - FeeMaxAge)
    IN  IF fees = {} THEN 0 ELSE CHOOSE f \in fees : \A g \in fees : f <= g

PriceInstructions(tx) == Ixs(tx, {"SetComputeUnitPrice"})

ComputeBudgetOk(tx, samples, now) ==
    LET prices == PriceInstructions(tx)
    IN  /\ Len(prices) <= 1
        /\ prices = <<>> => LeastPrice(samples, now) = 0
        /\ prices # <<>> => prices[1].price >= LeastPrice(samples, now)

-----------------------------------------------------------------------------
(* The one instruction of the program.                                     *)

ProgramOps == {"SubmitBid", "Swap", "SwapV2", "Admin"}

(* Those the program is called with by the transaction itself.             *)
ProgramInstructions(tx) == {i \in Positions(tx, ProgramOps) : tx.ixs[i].op # "SubmitBid" \/ ~tx.ixs[i].cpi}

(* The instruction, or None unless it is the only one and of the type.     *)
ProgramInstruction(tx, ops) ==
    LET own == ProgramInstructions(tx)
    IN  IF Cardinality(own) = 1 /\ \A i \in own : tx.ixs[i].op \in ops
        THEN CHOOSE i \in own : TRUE ELSE None

AllowedInSwap(tx) ==
    \A i \in DOMAIN tx.ixs : tx.ixs[i].op \in
        ProgramOps \cup {"Transfer", "CloseAccount", "SyncNative", "CreateAta", "Memo", "SetComputeUnitPrice"}

(* The arguments of a swap; those of its first version are converted with  *)
(* the platform fee of the metadata at hand.                               *)
ExtractSwapData(meta, ix) == SwapArgs(meta.platformBps, ix)

SwapFieldsNoPlatform(meta, opp, ix) ==   \* mutant
    LET args == ExtractSwapData(meta, ix)
    IN  /\ ix.user = opp.user /\ ix.mintSearcher = opp.mintSearcher /\ ix.mintUser = opp.mintUser
        /\ SpecifiedSide(opp) = "searcher" => args.amountSearcher = opp.amountSearcher
        /\ SpecifiedSide(opp) = "user" => args.amountUser = opp.amountUser
        /\ args.feeToken = opp.feeToken /\ args.referral = opp.referral

SwapFieldsOk(meta, opp, ix) ==
    LET args == ExtractSwapData(meta, ix)
    IN  /\ ix.user = opp.user
        /\ ix.mintSearcher = opp.mintSearcher
        /\ ix.mintUser = opp.mintUser
        /\ SpecifiedSide(opp) = "searcher" => args.amountSearcher = opp.amountSearcher
        /\ SpecifiedSide(opp) = "user" => args.amountUser = opp.amountUser
        /\ args.feeToken = opp.feeToken
        /\ args.referral = opp.referral
        /\ args.platform = opp.platform

RouterAccountOk(opp, ix) == ix.routerAccount = <<opp.router, MintOfFee(ix)>>

(* A bid without the memo is accepted for older searchers.                 *)
MemoOk(tx, opp) ==
    LET memos == Ixs(tx, {"Memo"})
    IN  \/ memos = <<>>
        \/ opp.memo # None /\ Len(memos) = 1 /\ memos[1].memo = opp.memo

-----------------------------------------------------------------------------
(* Token accounts that the transaction creates.                            *)

Creates(tx) == Ixs(tx, {"CreateAta"})

SwapRemove(s, i) == SubSeq([s EXCEPT ![i] = s[Len(s)]], 1, Len(s) - 1)

TakeUserAtaAsSearcher(creates, ix, mint, config) == creates   \* mutant

(* The creations without the one of the user's account that the user may   *)
(* pay for; None if that one is missing or not as it should be.            *)
TakeUserAta(creates, ix, mint, config) ==
    LET found == {i \in DOMAIN creates : creates[i].ata = <<ix.user, mint>>}
        first == CHOOSE i \in found : \A j \in found : i <= j
    IN  CASE creates = None \/ config # "UserPayer" -> creates
          [] creates # None /\ config = "UserPayer" /\ found = {} -> None
          [] OTHER -> IF /\ creates[first].mint = mint
                         /\ creates[first].owner = ix.user
                         /\ creates[first].payer \in {ix.searcher, ix.user}
                      THEN SwapRemove(creates, first) ELSE None

CreateAtasAnyPayer(tx, opp, ix) ==   \* mutant
    LET rest == TakeUserAta(TakeUserAta(Ixs(tx, {"CreateAta"}), ix, ix.mintUser, opp.inits.userMintUser),
                            ix, ix.mintSearcher, opp.inits.userMintSearcher)
    IN  rest # None

CreateAtasOk(tx, opp, ix) ==
    LET rest == TakeUserAta(TakeUserAta(Creates(tx), ix, ix.mintUser, opp.inits.userMintUser),
                            ix, ix.mintSearcher, opp.inits.userMintSearcher)
    IN  rest # None /\ \A i \in DOMAIN rest : rest[i].payer = ix.searcher

-----------------------------------------------------------------------------
(* Wrapping and unwrapping SOL.                                            *)

Transfers(tx) == Ixs(tx, {"Transfer"})
SyncNatives(tx) == Ixs(tx, {"SyncNative"})
Closes(tx) == Positions(tx, {"CloseAccount"})

TransfersOk(tx, opp, ix, args) ==
    LET transfers == Transfers(tx)
    IN  /\ Len(transfers) <= 1
        /\ IF ix.mintUser = Sol
           THEN /\ Len(transfers) = 1
                /\ transfers[1].from = ix.user
                /\ transfers[1].to = <<ix.user, Sol>>
                /\ transfers[1].lamports \in {args.amountUser, AmountToWrap(opp, args.amountUser)}
           ELSE transfers # <<>> => /\ ix.mintSearcher = Sol
                                    /\ transfers[1].from = ix.searcher
                                    /\ transfers[1].to = <<ix.searcher, Sol>>

SyncNativeOk(tx, ix) ==
    ix.mintUser = Sol =>
        Len(SelectSeq(SyncNatives(tx), LAMBDA s : s.account = <<ix.user, Sol>>)) = 1

CloseAccountsOk(tx, ix) ==
    LET of(w) == {i \in Closes(tx) : tx.ixs[i].account = <<w, Sol>>}
    IN  /\ Closes(tx) = of(ix.user) \cup of(ix.searcher)
        /\ IF Sol \in {ix.mintUser, ix.mintSearcher}
           THEN /\ Cardinality(of(ix.user)) <= 1
                /\ of(ix.user) = {} => ix.mintUser = Sol
                /\ \A i \in of(ix.user) : tx.ixs[i].destination = ix.user /\ tx.ixs[i].owner = ix.user
                /\ Cardinality(of(ix.searcher)) <= 1
           ELSE Closes(tx) = {}

WrapUnwrapOk(tx, opp, ix, args) ==
    /\ TransfersOk(tx, opp, ix, args)
    /\ SyncNativeOk(tx, ix)
    /\ CloseAccountsOk(tx, ix)

-----------------------------------------------------------------------------
(* Deadlines and signatures.                                               *)

DeadlineOk(deadline, minimum, now) == deadline >= minimum /\ deadline <= now + LifeMax

(* The relayer signs later, so does the user of a swap.                    *)
RelayerSigns(tx) == RelayerKey \in tx.signers

SignaturesOk(tx, later) ==
    /\ RelayerSigns(tx)
    /\ tx.signers \ (later \cup {RelayerKey}) \subseteq tx.signed

FeePayerOk(tx, opp) == tx.payer \notin {opp.user, RelayerKey}

(* extract_bid_data of a swap: everything that is compared with the        *)
(* opportunity, then the deadline.                                         *)
SwapDataOk(meta, opp, tx, now) ==
    LET i == ProgramInstruction(tx, {"Swap", "SwapV2"})
    IN  /\ AllowedInSwap(tx)
        /\ i # None
        /\ LET ix == tx.ixs[i]
               args == ExtractSwapData(meta, ix)
           IN  /\ SwapFieldsOk(meta, opp, ix)
               /\ MemoOk(tx, opp)
               /\ CreateAtasOk(tx, opp, ix)
               /\ WrapUnwrapOk(tx, opp, ix, args)
               /\ RouterAccountOk(opp, ix)
               /\ DeadlineOk(args.deadline, opp.minimumDeadline, now)

SubmitBidData(ix) ==
    [amount |-> ix.bid, deadline |-> ix.deadline, router |-> ix.router, permission |-> ix.permission]

SubmitBidDataOk(tx, now) ==
    LET i == ProgramInstruction(tx, {"SubmitBid"})
    IN  i # None /\ DeadlineOk(SubmitBidData(tx.ixs[i]).deadline, now + LifeServer, now)

(* The accounts of a swap by their positions in the instruction.           *)
SwapAccounts(ix) ==
    [searcher |-> ix.searcher, user |-> ix.user, mintSearcher |-> ix.mintSearcher,
     mintUser |-> ix.mintUser, routerAccount |-> ix.routerAccount]

SwapData(meta, tx) ==
    LET ix == tx.ixs[ProgramInstruction(tx, {"Swap", "SwapV2"})]
    IN  [accounts |-> SwapAccounts(ix), args |-> ExtractSwapData(meta, ix)]

SimulatedSwapAnyFunds(c, tx, now) ==   \* mutant
    Execute(c, tx, now).err \in {None, "InsufficientUserFunds", "InsufficientSearcherFunds"}

(* simulate_swap_bid: a user without the funds is not the searcher's fault.*)
SimulatedSwapOk(c, tx, now) ==
    LET r == Execute(c, tx, now)
    IN  \/ r.err = None
        \/ /\ r.err = "InsufficientUserFunds"
           /\ r.at = ProgramInstruction(tx, {"Swap", "SwapV2"})

SimulatedBidOk(c, tx, now) == Execute(c, tx, now).err = None

(* The permission key a bid competes for.                                  *)
BidPermission(meta, opp, tx) ==
    LET d == SwapData(meta, tx)
        side == SpecifiedSide(opp)
    IN  PermissionAccount(side, d.accounts.mintUser, d.accounts.mintSearcher,
            IF side = "user" THEN opp.amountUser ELSE opp.amountSearcher,
            d.accounts.user, d.accounts.routerAccount, d.args.referral)
====
