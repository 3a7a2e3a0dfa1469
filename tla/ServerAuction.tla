---------------------------- MODULE ServerAuction ----------------------------
(***************************************************************************)
(* The auctions that the server submits itself (SubmitType::ByServer): the *)
(* handlers that every trigger spawns for a permission key.  They run      *)
(* concurrently with each other and with the conclusion of their auctions  *)
(* (Conclusion); the handlers of a key exclude each other by its recycled  *)
(* lock (LockMap).                                                         *)
(***************************************************************************)
EXTENDS Conclusion

CONSTANTS
  PermissionKeys,
  KeyOf,          \* the permission key of each bid
  Tasks,          \* the handlers that run at a time
  Locks,
  NoLock, NoTask, NoKey

VARIABLES
  lockMap, lockRef, lockOwner, lockKey, lockStep,   \* see LockMap
  job       \* what the handler that holds a lock is doing, and its winner_bids

ASSUME ServerAuctionAssumption ==
  /\ KeyOf \in [Bids -> PermissionKeys]
  /\ Handlers = Tasks
  /\ NoLock \notin Locks /\ NoTask \notin Tasks /\ NoKey \notin PermissionKeys

Lock == INSTANCE LockMap WITH
  Keys <- PermissionKeys, Users <- Tasks, Droppable <- {}, NoUser <- NoTask

lockVars == <<lockMap, lockRef, lockOwner, lockKey, lockStep>>
taskVars == <<job, lockVars>>
serverVars == <<conclusionVars, taskVars>>

-----------------------------------------------------------------------------
ServerInit ==
  /\ ConclusionInit
  /\ Lock!LockInit
  /\ job = [t \in Tasks |-> [at |-> "none", winners |-> {}]]

\* handle_bid, after verify_bid accepted it.
HandleBid(b) ==
  /\ AddBid(b)
  /\ UNCHANGED <<taskVars, concludeVars, worldVars>>

GoOn(t, step) == job' = [job EXCEPT ![t].at = step]

-----------------------------------------------------------------------------
\* handle_auctions finds a pending bid of key k and spawns handle_auction for
\* the key.  (That the bids may be gone when it starts is covered: it has to
\* wait for the lock.)
HandleAuction(t, k) ==
  /\ \E b \in pending : KeyOf[b] = k
  /\ Lock!GetOrCreate(t, k)
  /\ UNCHANGED <<storeVars, job, concludeVars, worldVars>>

LockAuction(t) ==
  /\ Lock!Acquire(t)
  /\ GoOn(t, "collect")
  /\ UNCHANGED <<storeVars, concludeVars, worldVars>>

PendingOf(k) == {b \in pending : KeyOf[b] = k}

\* is_ready: one bid is older than AUCTION_MINIMUM_LIFETIME.
IsReady(bs) == \E b \in bs : age[b] # "new"

\* Nothing to do: no pending bid of the key, or the auction is not ready yet.
NotReady(t) ==
  /\ job[t].at = "collect"
  /\ ~IsReady(PendingOf(lockKey[t]))
  /\ GoOn(t, "done")
  /\ UNCHANGED <<storeVars, lockVars, concludeVars, worldVars>>

\* Fault for NoWinners: nobody is told that the auction has no winner.
NoWinnersUntold(t) ==
  /\ job[t].at = "collect"
  /\ IsReady(PendingOf(lockKey[t]))
  /\ GoOn(t, "done")
  /\ UNCHANGED <<storeVars, lockVars, concludeVars, worldVars>>

\* The simulation accepts no bid: all of them are lost, in no auction.
NoWinners(t) ==
  /\ job[t].at = "collect"
  /\ IsReady(PendingOf(lockKey[t]))
  /\ Issue(t, [bid : PendingOf(lockKey[t]), to : {"Lost"}, auction : {NoAuction}])
  /\ GoOn(t, "done")
  /\ UNCHANGED <<bidRow, auctionRow, pending, auctions, held, told, faults>>
  /\ UNCHANGED <<lockVars, concludeVars, worldVars>>

\* Any others can be the winners: those the simulation accepts on top of the
\* transactions in flight or, when an RPC call fails, the highest bid.
PickWinners(t, a, winners) ==
  /\ job[t].at = "collect"
  /\ IsReady(PendingOf(lockKey[t]))
  /\ winners # {} /\ winners \subseteq PendingOf(lockKey[t])
  /\ TryNew(t, a, PendingOf(lockKey[t]), FALSE)
  /\ job' = [job EXCEPT ![t] = [at |-> "add", winners |-> winners]]
  /\ UNCHANGED <<bidRow, auctionRow, pending, auctions, calls, told, faults>>
  /\ UNCHANGED <<lockVars, concludeVars, worldVars>>

AddRow(t) ==
  /\ job[t].at = "add"
  /\ AddAuctionRow(t)
  /\ UNCHANGED <<taskVars, concludeVars, worldVars>>

\* The insertion fails: the handler ends and the bids stay pending.
AddRowFails(t) ==
  /\ faults < MaxFaults
  /\ job[t].at = "add" /\ held[t].step = "made"
  /\ faults' = faults + 1
  /\ GoOn(t, "done")
  /\ UNCHANGED <<bidRow, auctionRow, pending, auctions, held, calls, told>>
  /\ UNCHANGED <<lockVars, concludeVars, worldVars>>

\* add_auction spawns the conclusion loop as soon as the auction is in memory.
AddMemory(t) ==
  /\ job[t].at = "add"
  /\ AddAuctionMemory(t)
  /\ SpawnLoop(held[t].id)
  /\ GoOn(t, "send")
  /\ UNCHANGED <<lockVars, logs, logging, worldVars>>

\* submit_bids: each winner is broadcast; one that no broadcaster takes is
\* retried later, and the result is the same.
SubmitBids(t, taken) ==
  /\ job[t].at = "send"
  /\ taken \subseteq job[t].winners
  /\ SendTransactions(job[t].winners, taken)
  /\ GoOn(t, "submit")
  /\ UNCHANGED <<storeVars, lockVars, concludeVars, age, overdue>>

SubmitRow(t) ==
  /\ job[t].at = "submit"
  /\ SubmitAuctionRow(t)
  /\ IF held'[t].step = "ready" THEN GoOn(t, "update") ELSE UNCHANGED job
  /\ UNCHANGED <<lockVars, concludeVars, worldVars>>

\* The query fails, or its answer is lost: the handler ends.
SubmitRowFails(t, applied) ==
  /\ faults < MaxFaults
  /\ job[t].at = "submit" /\ held[t].step = "ready"
  /\ faults' = faults + 1
  /\ auctionRow' = IF applied THEN [auctionRow EXCEPT ![held[t].id].submitted = TRUE]
                              ELSE auctionRow
  /\ GoOn(t, "done")
  /\ UNCHANGED <<bidRow, pending, auctions, held, calls, told>>
  /\ UNCHANGED <<lockVars, concludeVars, worldVars>>

SubmitMemory(t) ==
  /\ job[t].at = "submit"
  /\ SubmitAuctionMemory(t)
  /\ GoOn(t, "update")
  /\ UNCHANGED <<lockVars, concludeVars, worldVars>>

\* Fault for NewStatus: winners and losers are swapped.
NewStatusSwapped(b, winners) == IF b \in winners THEN "Lost" ELSE "Submitted"

\* get_new_status
NewStatus(b, winners) == IF b \in winners THEN "Submitted" ELSE "Lost"

\* The bids of the auction become Submitted and Lost, concurrently.
UpdateBids(t) ==
  /\ job[t].at = "update"
  /\ Issue(t, {[bid |-> b, to |-> NewStatus(b, job[t].winners), auction |-> held[t].id] :
                 b \in held[t].value.bids})
  /\ GoOn(t, "done")
  /\ UNCHANGED <<bidRow, auctionRow, pending, auctions, held, told, faults>>
  /\ UNCHANGED <<lockVars, concludeVars, worldVars>>

\* The handler returns, whatever its result, and removes the lock next.
UnlockAuction(t) ==
  /\ job[t].at = "done" /\ Joined(t)
  /\ Lock!Leave(t)
  /\ DropAuction(t)
  /\ job' = [job EXCEPT ![t] = [at |-> "none", winners |-> {}]]
  /\ UNCHANGED <<bidRow, auctionRow, pending, auctions, calls, told, faults>>
  /\ UNCHANGED <<concludeVars, worldVars>>

RemoveLock(t) ==
  /\ Lock!Remove(t)
  /\ UNCHANGED <<storeVars, job, concludeVars, worldVars>>

-----------------------------------------------------------------------------
Handler(t) ==
  \/ \E k \in PermissionKeys : HandleAuction(t, k)
  \/ LockAuction(t)
  \/ NotReady(t)
  \/ NoWinners(t)
  \/ \E a \in Auctions, ws \in SUBSET Bids : PickWinners(t, a, ws)
  \/ AddRow(t)
  \/ AddMemory(t)
  \/ \E ws \in SUBSET Bids : SubmitBids(t, ws)
  \/ SubmitRow(t)
  \/ SubmitMemory(t)
  \/ UpdateBids(t)
  \/ UnlockAuction(t)
  \/ RemoveLock(t)

HandlerFault(t) ==
  \/ AddRowFails(t)
  \/ \E applied \in BOOLEAN : SubmitRowFails(t, applied)

Update(x) ==
  /\ UpdateStep(x)
  /\ UNCHANGED <<taskVars, concludeVars, worldVars>>

Fault(x) ==
  /\ UpdateFault(x)
  /\ UNCHANGED <<taskVars, concludeVars, worldVars>>

\* No handler takes two minutes: BID_MAXIMUM_LIFE_TIME_SVM passes after the
\* handler that collected the bid returned.
OutlivePromptly(b) ==
  /\ \A t \in Tasks : b \notin held[t].value.bids
  /\ \A x \in calls : x.req.bid = b => x.client \notin Tasks
  /\ Outlive(b)
  /\ UNCHANGED taskVars

ServerNext ==
  \/ \E t \in Tasks : Handler(t) \/ HandlerFault(t)
  \/ \E b \in Bids : HandleBid(b) \/ OutlivePromptly(b)
  \/ \E x \in calls : Update(x) \/ Fault(x)
  \/ ConclusionNext /\ UNCHANGED taskVars

ServerSafeSpec == ServerInit /\ [][ServerNext]_serverVars

\* The runtime runs every task, the trigger fires for ever and time passes; the
\* lock is fair.
ServerFairness ==
  /\ ConclusionFairness
  /\ \A t \in Tasks : WF_serverVars(Handler(t)) /\ SF_serverVars(LockAuction(t))
  /\ \A b \in Bids : WF_serverVars(OutlivePromptly(b))
  /\ \A c \in Clients : WF_serverVars(\E x \in calls : x.client = c /\ Update(x))

ServerSpec == ServerSafeSpec /\ ServerFairness

-----------------------------------------------------------------------------
ServerTypeOK ==
  /\ ConclusionTypeOK
  /\ Lock!LockTypeOK
  /\ job \in [Tasks -> [at : {"none", "collect", "add", "send", "submit", "update", "done"},
                        winners : SUBSET Bids]]

\* A bid is in one auction at most, in memory and among those the handlers are
\* about to add, whoever of the handlers of a key is faster and however often
\* the lock of the key is recycled.
OneAuctionPerBid ==
  /\ \A a, c \in Auctions : a # c => auctions[a].bids \cap auctions[c].bids = {}
  /\ \A t, u \in Tasks : t # u => held[t].value.bids \cap held[u].value.bids = {}

\* As long as no database call failed, the handler that sent a transaction
\* does not release its key before the bid is recorded as sent or further.
SentIsRecorded ==
  faults = 0 =>
    \A b \in Bids :
      (chain[b] # "unsent" /\ \A t \in Tasks : b \notin job[t].winners) =>
        bidRow[b].status \in {"Submitted", "Won", "Failed", "Expired"}

\* No lock of a key is left behind when its last handler is done.
NoLeakedLock == Lock!NoLeakedEntry

\* As long as no database call failed, every pending bid is taken into an
\* auction or is lost.  (One whose row is closed by an update whose answer got
\* lost can stay pending for ever.)
PendingResolved ==
  \A b \in Bids : (b \in pending /\ faults = 0) ~> (b \notin pending \/ faults > 0)

\* As long as no database call failed, every submitted bid reaches a final
\* status, even when its transaction neither lands nor is logged.
SubmittedSettles ==
  \A b \in Bids :
    (bidRow[b].status = "Submitted" /\ faults = 0)
      ~> (IsConcluded(bidRow[b].status) \/ faults > 0)

=============================================================================
