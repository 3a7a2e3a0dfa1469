---- MODULE FeeMath ----
(***************************************************************************)
(* The integer arithmetic of the Express Relay program: how a bid is split *)
(* between router, relayer and program (utils.rs), and how the fees of a   *)
(* swap are taken from the amount of the fee token (swap.rs).              *)
(*                                                                         *)
(* Amounts are u64.  A checked operation that leaves 0..MaxU64 makes the   *)
(* instruction fail: the operators answer a record whose field "ok" says   *)
(* whether it did.                                                         *)
(***************************************************************************)
EXTENDS Integers

CONSTANTS
    Precision,  \* FEE_SPLIT_PRECISION: splits are counted in 1/Precision
    BpsToPpm,   \* FEE_BPS_TO_PPM: parts per million in one basis point
    MaxU64      \* the largest u64

ASSUME FeeAssumption == /\ Precision \in Nat \ {0}
                        /\ BpsToPpm \in Nat \ {0}
                        /\ MaxU64 \in Nat

PrecisionPpm == Precision * BpsToPpm

FitsU64(n) == n <= MaxU64

(* The part of an amount that a share of it in 1/unit takes, rounded down. *)
Share(amount, share, unit) == (amount * share) \div unit

ValidSplit(split) == split <= Precision

SaturatingSub(a, b) == IF a >= b THEN a - b ELSE 0

(* What is left of the bid after the router is what the relayer's split is *)
(* a part of; the rest of the bid goes to the program.                     *)
BidSplit(bid, splitRouter, splitRelayer) ==
    LET router  == Share(bid, splitRouter, Precision)
        relayer == Share(SaturatingSub(bid, router), splitRelayer, Precision)
    IN  [ok |-> /\ FitsU64(bid * splitRouter)
                /\ router <= bid
                /\ FitsU64(SaturatingSub(bid, router) * splitRelayer)
                /\ router + relayer <= bid,
         router |-> router,
         relayer |-> relayer,
         program |-> SaturatingSub(SaturatingSub(bid, router), relayer)]

(* The fees of a swap, all of them parts of one amount.                    *)
SwapFees(amount, referralPpm, platformPpm, splitRelayer) ==
    LET router   == Share(amount, referralPpm, PrecisionPpm)
        platform == Share(amount, platformPpm, PrecisionPpm)
        relayer  == Share(platform, splitRelayer, Precision)
    IN  [ok |-> /\ referralPpm <= PrecisionPpm
                /\ FitsU64(amount * referralPpm)
                /\ FitsU64(amount * platformPpm)
                /\ FitsU64(platform * splitRelayer)
                /\ router + platform <= amount
                /\ relayer <= platform,
         router |-> router,
         relayer |-> relayer,
         program |-> platform - relayer,
         platform |-> platform,
         remaining |-> amount - router - platform]

(* The smallest quotient that is not below n / d.                          *)
DivCeil(n, d) == (n + d - 1) \div d
====
