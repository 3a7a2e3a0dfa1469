---- MODULE MCMarket ----
(* Instances of Market: two mints, a rich and a poor user, fee accounts    *)
(* that exist or not, and a program that is not initialized yet.           *)
EXTENDS Market

CONSTANTS admin, userW, searcher, routerW, receiver, meta, key, indicative, solM, tok, ray

MCWallets == {admin, userW, searcher, routerW, receiver, meta, key, indicative}
MCMints == {solM, tok}
MCFeeOrder == <<solM>>
MCNoFees == [m \in {solM, tok, ray} |-> None]
MCPairFees == [m \in {solM, tok, ray} |-> IF m = tok THEN 3 ELSE None]
MCWhitelist == {solM, tok}

Request(specified, mintUser, mintSearcher, taker, via, memo, lifetime) ==
    [specified |-> specified, amount |-> 8, mintUser |-> mintUser, mintSearcher |-> mintSearcher,
     user |-> taker, router |-> via, referral |-> 1, lifetime |-> lifetime, profile |-> None, memo |-> memo]

MCRequests ==
    { Request("user", solM, tok, userW, routerW, None, None),
      Request("searcher", solM, tok, userW, routerW, "memo", None),
      Request("searcher", tok, solM, userW, routerW, None, 1),
      Request("user", tok, solM, userW, None, None, None),
      Request("user", solM, tok, None, routerW, None, None),
      Request("user", solM, ray, userW, routerW, None, None) }

MCBidParams == {[amount |-> 8, deadline |-> d, searcher |-> searcher, feeReceiver |-> receiver, relayer |-> key]
                  : d \in {1, 4}}

Check == [op |-> "Check", permission |-> 1, router |-> routerW]
Paid(b) == SubmitBidTransaction(<<Check>>, b)
B(permission, via, amount) ==
    [amount |-> amount, deadline |-> 2, searcher |-> searcher, feeReceiver |-> receiver, relayer |-> key,
     permission |-> permission, router |-> via]
Pay(b) == NewSubmitBid(b)

MCBidTxs ==
    {Paid(B(p, r, n)) : p \in {1, 2}, r \in {routerW, admin}, n \in {5, 18, 19}}
    \cup {[Paid(B(1, routerW, 5)) EXCEPT !.ixs = @ \o <<[Pay(B(1, r, 5)) EXCEPT !.cpi = c]>>]
             : r \in {routerW, admin}, c \in BOOLEAN}

Lam0 == [a \in {admin, userW, searcher, key} |-> 20]
Open(c, accounts, n) ==
    [c EXCEPT !.tok = [a \in DOMAIN @ |-> IF a \in accounts THEN n ELSE @[a]],
              !.lam = [a \in DOMAIN @ |-> IF a \in accounts
                                          THEN IF a[2] = solM THEN n + RentToken ELSE RentToken ELSE @[a]]]

Base == [EmptyChain(Lam0) EXCEPT
            !.meta = [admin |-> admin, relayer |-> key, secondary |-> None, feeReceiver |-> receiver,
                      splitRouter |-> 2, splitRelayer |-> 2, platformBps |-> 1],
            !.lam[meta] = RentMeta]
Stocked == Open(Base, {searcher} \X MCMints, 16)
Funded == Open(Stocked, {<<userW, tok>>}, 16)
AllFeeAccounts == {routerW, receiver, meta} \X MCMints

MCChains ==
    { EmptyChain(Lam0),
      [Open(Funded, AllFeeAccounts \cup {<<userW, solM>>}, 0) EXCEPT !.lam[<<receiver, solM>>] = RentToken + 1],
      Stocked,
      [Open(Funded, AllFeeAccounts, 0) EXCEPT !.lam[userW] = 9, !.tok[<<userW, tok>>] = 6] }

MCInitialized == {c \in MCChains : c.meta # None}

Admin(what) == [op |-> "Admin", what |-> what, by |-> admin, admin |-> userW, relayer |-> admin,
                feeReceiver |-> userW, splitRouter |-> 4, splitRelayer |-> 1, bps |-> 2,
                router |-> routerW, split |-> 4, to |-> userW, mint |-> solM]
MCAdminSteps == {Admin(what) : what \in {"SetAdmin", "SetRelayer", "SetSecondaryRelayer", "SetSplits",
                     "SetSwapPlatformFee", "SetRouterSplit", "WithdrawFees", "WithdrawSplFees"}}
                \cup {[Admin("Initialize") EXCEPT !.relayer = key, !.feeReceiver = receiver, !.splitRouter = s]
                         : s \in {2, 5}}
MCFlows == {<< <<userW, tok>>, -8>>, << <<userW, tok>>, 8>>, << <<searcher, tok>>, -9>>}
MCSamples == {1}
====
