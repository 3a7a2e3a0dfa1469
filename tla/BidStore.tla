------------------------------- MODULE BidStore -------------------------------
(***************************************************************************)
(* The repository of the auction server: the bid and auction tables, the   *)
(* in-memory copies the server works from (pending bids and auctions), and *)
(* the repository's operations on both.  An operation writes the table and *)
(* then, after an await, the memory; update_bid_status runs concurrently   *)
(* for many bids and callers and ends with the broadcast of the update.    *)
(* Between any two of these steps other tasks run.                         *)
(***************************************************************************)
EXTENDS BidStatus, FiniteSets

CONSTANTS
  Bids,
  Auctions,   \* the ids Uuid::new_v4 can return for an auction
  Clients,    \* the tasks and requests that call the repository
  NoAuction,
  MaxFaults,  \* bound on the database calls that fail
  MaxCalls,   \* bound on the calls of update_bid_status in flight
  Asked       \* the statuses any client asks for (a bound on StoreNext)

ASSUME BidStoreAssumption ==
  /\ NoAuction \notin Auctions
  /\ MaxFaults \in Nat
  /\ MaxCalls \in Nat
  /\ Asked \subseteq Statuses \ {"Pending"}

VARIABLES
  bidRow,     \* table bid: status and auction_id of each bid
  auctionRow, \* table auction: inserted, submission_time and conclusion_time set
  pending,    \* in_memory_store.pending_bids, all keys together
  auctions,   \* in_memory_store.auctions: the copy of each auction, or Vacant
  held,       \* the auction value each client works with, and its repository call
  calls,      \* the update_bid_status calls in flight
  told,       \* the bid status updates broadcast so far
  faults      \* database calls that have failed

storeVars == <<bidRow, auctionRow, pending, auctions, held, calls, told, faults>>

-----------------------------------------------------------------------------
\* An auction value (entities::Auction): its bids with the statuses they had
\* when the value was made, and whether tx_hash is set.  No auction has no bids.
Values == [bids : SUBSET Bids, status : [Bids -> RowStatuses], hashed : BOOLEAN]

Vacant == [bids |-> {}, status |-> [b \in Bids |-> "Absent"], hashed |-> FALSE]

InMemory(a) == auctions[a].bids # {}

\* Where a client is with its auction value: it has none, it made it, its row
\* is inserted, it is in memory too (or was read from there), its row is
\* submitted and memory is not updated yet.
HeldSteps == {"none", "made", "inserted", "ready", "submitted"}

HeldValues == [step : HeldSteps, id : Auctions \cup {NoAuction}, value : Values]

NothingHeld == [step |-> "none", id |-> NoAuction, value |-> Vacant]

\* A call of update_bid_status: about to run its query, to drop the bid from
\* the pending bids, or to update the auction in memory and broadcast.
Requests == [bid : Bids, to : Statuses \ {"Pending"}, auction : Auctions \cup {NoAuction}]

Calls == [client : Clients, req : Requests, step : {"query", "pending", "memory"}]

\* A client has no call in flight: the join_all or await it was in is over.
Joined(c) == \A x \in calls : x.client # c

\* The only status without an auction is Lost (BidStatusSvm).
WellFormed(r) == r.auction = NoAuction => r.to = "Lost"

-----------------------------------------------------------------------------
StoreInit ==
  /\ bidRow = [b \in Bids |-> [status |-> "Absent", auction |-> NoAuction]]
  /\ auctionRow = [a \in Auctions |->
       [inserted |-> FALSE, submitted |-> FALSE, concluded |-> FALSE]]
  /\ pending = {}
  /\ auctions = [a \in Auctions |-> Vacant]
  /\ held = [c \in Clients |-> NothingHeld]
  /\ calls = {}
  /\ told = {}
  /\ faults = 0

\* add_bid: the row is inserted and the bid becomes a pending bid of its key.
\* Nobody knows the bid in between.
AddBid(b) ==
  /\ bidRow[b].status = "Absent"
  /\ bidRow' = [bidRow EXCEPT ![b].status = "Pending"]
  /\ pending' = pending \cup {b}
  /\ UNCHANGED <<auctionRow, auctions, held, calls, told, faults>>

\* Auction::try_new on bids read from pending_bids: a value with a fresh id.
\* `hashed` is what the caller sets tx_hash to.
TryNew(c, a, bs, hashed) ==
  /\ held[c].step = "none"
  /\ bs # {} /\ bs \subseteq pending
  /\ ~auctionRow[a].inserted
  /\ \A d \in Clients : held[d].id # a
  /\ held' = [held EXCEPT ![c] =
       [step |-> "made", id |-> a,
        value |-> [bids |-> bs,
                   status |-> [b \in Bids |-> IF b \in bs THEN "Pending" ELSE "Absent"],
                   hashed |-> hashed]]]

\* repo.add_auction, first half: the auction row is inserted.
AddAuctionRow(c) ==
  /\ held[c].step = "made"
  /\ auctionRow' = [auctionRow EXCEPT ![held[c].id].inserted = TRUE]
  /\ held' = [held EXCEPT ![c].step = "inserted"]
  /\ UNCHANGED <<bidRow, pending, auctions, calls, told, faults>>

\* repo.add_auction, second half: its bids are pending no longer and the
\* auction is in memory.
AddAuctionMemory(c) ==
  /\ held[c].step = "inserted"
  /\ pending' = pending \ held[c].value.bids
  /\ auctions' = [auctions EXCEPT ![held[c].id] = held[c].value]
  /\ held' = [held EXCEPT ![c].step = "ready"]
  /\ UNCHANGED <<bidRow, auctionRow, calls, told, faults>>

\* get_in_memory_auction_by_id: the client clones what memory has.
ReadAuction(c, a) ==
  /\ InMemory(a)
  /\ held' = [held EXCEPT ![c] = [step |-> "ready", id |-> a, value |-> auctions[a]]]

\* The client is done with its auction value.
DropAuction(c) == held' = [held EXCEPT ![c] = NothingHeld]

\* repo.submit_auction, first half: the row is marked submitted, unless it
\* already is; then the caller keeps the value it passed and memory is left
\* alone.
SubmitAuctionRow(c) ==
  /\ held[c].step = "ready"
  /\ IF auctionRow[held[c].id].submitted
       THEN UNCHANGED <<auctionRow, held>>
       ELSE /\ auctionRow' = [auctionRow EXCEPT ![held[c].id].submitted = TRUE]
            /\ held' = [held EXCEPT ![c] =
                 [step |-> "submitted", id |-> held[c].id,
                  value |-> [held[c].value EXCEPT !.hashed = TRUE]]]
  /\ UNCHANGED <<bidRow, pending, auctions, calls, told, faults>>

\* Fault for SubmitAuctionMemory: insert instead of replace.
SubmitAuctionInserts(c) ==
  /\ held[c].step = "submitted"
  /\ auctions' = [auctions EXCEPT ![held[c].id] = held[c].value]
  /\ held' = [held EXCEPT ![c].step = "ready"]
  /\ UNCHANGED <<bidRow, auctionRow, pending, calls, told, faults>>

\* repo.submit_auction, second half: the copy in memory, if there still is
\* one, is replaced by the caller's.
SubmitAuctionMemory(c) ==
  /\ held[c].step = "submitted"
  /\ auctions' = IF InMemory(held[c].id)
                   THEN [auctions EXCEPT ![held[c].id] = held[c].value]
                   ELSE auctions
  /\ held' = [held EXCEPT ![c].step = "ready"]
  /\ UNCHANGED <<bidRow, auctionRow, pending, calls, told, faults>>

\* repo.conclude_auction: the row is concluded (once) and the auction leaves
\* memory.  A conclusion is idempotent, so its two halves are one step.
ConcludeAuction(a) ==
  /\ InMemory(a)
  /\ auctionRow' = [auctionRow EXCEPT ![a].concluded = TRUE]
  /\ auctions' = [auctions EXCEPT ![a] = Vacant]
  /\ UNCHANGED <<bidRow, pending, held, calls, told, faults>>

-----------------------------------------------------------------------------
\* A client calls update_bid_status for each request of R.
Issue(c, R) ==
  calls' = calls \cup [client : {c}, req : R, step : {"query"}]

\* Fault for RowAfter: two columns of the update are swapped.
RowAfterSwapped(r) == [status |-> r.auction, auction |-> r.to]

\* The bid row after request r changed it.
RowAfter(r) ==
  [status |-> r.to,
   auction |-> IF SetsAuction(r.to, r.auction, NoAuction)
                 THEN r.auction ELSE bidRow[r.bid].auction]

\* Fault for UpdateRow: a call goes on although its query changed no row.
UpdateRowAnyway(x) ==
  /\ x \in calls
  /\ x.step = "query"
  /\ bidRow' = IF CanUpdate(bidRow[x.req.bid].status, x.req.to)
                 THEN [bidRow EXCEPT ![x.req.bid] = RowAfter(x.req)] ELSE bidRow
  /\ calls' = (calls \ {x}) \cup {[x EXCEPT !.step = "pending"]}
  /\ UNCHANGED <<auctionRow, pending, auctions, held, told, faults>>

\* Fault for UpdateRow: the bid is not dropped from the pending bids.
UpdateRowOnly(x) ==
  /\ x \in calls
  /\ x.step = "query"
  /\ CanUpdate(bidRow[x.req.bid].status, x.req.to)
  /\ bidRow' = [bidRow EXCEPT ![x.req.bid] = RowAfter(x.req)]
  /\ calls' = (calls \ {x}) \cup {[x EXCEPT !.step = "memory"]}
  /\ UNCHANGED <<auctionRow, pending, auctions, held, told, faults>>

\* update_bid_status, the query: the row changes if the WHERE clause lets it,
\* otherwise the call returns false and is over.
UpdateRow(x) ==
  /\ x \in calls
  /\ x.step = "query"
  /\ IF CanUpdate(bidRow[x.req.bid].status, x.req.to)
       THEN /\ bidRow' = [bidRow EXCEPT ![x.req.bid] = RowAfter(x.req)]
            /\ calls' = (calls \ {x}) \cup {[x EXCEPT !.step = "pending"]}
       ELSE /\ calls' = calls \ {x}
            /\ UNCHANGED bidRow
  /\ UNCHANGED <<auctionRow, pending, auctions, held, told, faults>>

\* update_bid_status, next: the bid is dropped from the pending bids.
ForgetPending(x) ==
  /\ x \in calls
  /\ x.step = "pending"
  /\ pending' = pending \ {x.req.bid}
  /\ calls' = (calls \ {x}) \cup {[x EXCEPT !.step = "memory"]}
  /\ UNCHANGED <<bidRow, auctionRow, auctions, held, told, faults>>

\* update_bid_status, last: the status of the bid is set in the auction it
\* names, if that is in memory and has the bid, and the update is broadcast.
UpdateMemory(x) ==
  /\ x \in calls
  /\ x.step = "memory"
  /\ auctions' =
       IF x.req.auction # NoAuction /\ x.req.bid \in auctions[x.req.auction].bids
         THEN [auctions EXCEPT ![x.req.auction].status[x.req.bid] = x.req.to]
         ELSE auctions
  /\ told' = told \cup {<<x.req.bid, x.req.to>>}
  /\ calls' = calls \ {x}
  /\ UNCHANGED <<bidRow, auctionRow, pending, held, faults>>

\* A query fails: the row is unchanged and the caller gets an error.
QueryFails(x) ==
  /\ faults < MaxFaults
  /\ x \in calls
  /\ x.step = "query"
  /\ calls' = calls \ {x}
  /\ faults' = faults + 1
  /\ UNCHANGED <<bidRow, auctionRow, pending, auctions, held, told>>

\* A query changes the row and its answer is lost (the connection breaks, or
\* the request that awaits it is dropped): the rest of the call never runs.
AnswerLost(x) ==
  /\ faults < MaxFaults
  /\ x \in calls
  /\ x.step = "query"
  /\ CanUpdate(bidRow[x.req.bid].status, x.req.to)
  /\ bidRow' = [bidRow EXCEPT ![x.req.bid] = RowAfter(x.req)]
  /\ calls' = calls \ {x}
  /\ faults' = faults + 1
  /\ UNCHANGED <<auctionRow, pending, auctions, held, told>>

UpdateStep(x) ==
  \/ UpdateRow(x)
  \/ ForgetPending(x)
  \/ UpdateMemory(x)

UpdateFault(x) ==
  \/ QueryFails(x)
  \/ AnswerLost(x)

-----------------------------------------------------------------------------
\* Any client may call any operation at any time: what holds of the store
\* then holds for every service built on it.
StoreNext ==
  \/ \E b \in Bids : AddBid(b)
  \/ \E c \in Clients :
       \/ \E a \in Auctions, bs \in SUBSET Bids, h \in BOOLEAN :
            /\ TryNew(c, a, bs, h)
            /\ UNCHANGED <<bidRow, auctionRow, pending, auctions, calls, told, faults>>
       \/ AddAuctionRow(c)
       \/ AddAuctionMemory(c)
       \/ \E a \in Auctions :
            /\ held[c].step = "none"
            /\ ReadAuction(c, a)
            /\ UNCHANGED <<bidRow, auctionRow, pending, auctions, calls, told, faults>>
       \/ /\ DropAuction(c)
          /\ UNCHANGED <<bidRow, auctionRow, pending, auctions, calls, told, faults>>
       \/ SubmitAuctionRow(c)
       \/ SubmitAuctionMemory(c)
       \/ \E r \in Requests :
            /\ Cardinality(calls) < MaxCalls
            /\ r.to \in Asked
            /\ WellFormed(r)
            /\ bidRow[r.bid].status # "Absent"
            /\ r.auction # NoAuction => auctionRow[r.auction].inserted
            /\ Issue(c, {r})
            /\ UNCHANGED <<bidRow, auctionRow, pending, auctions, held, told, faults>>
  \/ \E a \in Auctions : ConcludeAuction(a)
  \/ \E x \in calls : UpdateStep(x) \/ UpdateFault(x)

StoreSpec == StoreInit /\ [][StoreNext]_storeVars

-----------------------------------------------------------------------------
StoreTypeOK ==
  /\ bidRow \in [Bids -> [status : RowStatuses, auction : Auctions \cup {NoAuction}]]
  /\ auctionRow \in [Auctions -> [inserted : BOOLEAN, submitted : BOOLEAN, concluded : BOOLEAN]]
  /\ pending \subseteq Bids
  /\ auctions \in [Auctions -> Values]
  /\ held \in [Clients -> HeldValues]
  /\ calls \subseteq Calls
  /\ told \subseteq Bids \X Statuses
  /\ faults \in 0..MaxFaults

\* The server never believes a bid to be further than the table says: what an
\* auction in memory shows of a bid is what its row shows, or an earlier phase
\* of its life, although memory is written after the table, by many tasks, out
\* of order, and sometimes by copying back a value read long before.
MemoryNeverAhead ==
  \A a \in Auctions : \A b \in auctions[a].bids :
    Behind(auctions[a].status[b], bidRow[b].status)

\* What was broadcast about a bid had been recorded: subscribers never hear of
\* a status the table could still refuse.
ToldIsRecorded ==
  \A u \in told : Behind(u[2], bidRow[u[1]].status)

\* The same update of a bid is never broadcast twice, whoever reports it: the
\* log of its transaction, the poll of its auction, the quote request.
BroadcastOnce ==
  [][\A x \in calls :
       (x.step = "memory" /\ x \notin calls') => <<x.req.bid, x.req.to>> \notin told]_storeVars

\* Every row that is written can be read back: get_bid fails on a row that is
\* neither pending nor lost and has no auction, and Won and Failed do not
\* write the auction themselves.
RowReadable ==
  \A b \in Bids :
    bidRow[b].status \notin {"Absent", "Pending", "Lost"} =>
      /\ bidRow[b].auction # NoAuction
      /\ auctionRow[bidRow[b].auction].inserted

\* A concluded auction does not come back to memory, although a submission
\* may still be writing a copy of it there.
ConcludedStaysOut ==
  \A a \in Auctions : auctionRow[a].concluded => ~InMemory(a)

\* As long as no database call failed, a bid among the pending ones is still
\* open in the table, or the call that changed it is about to drop it.
PendingIsOpen ==
  faults = 0 =>
    \A b \in pending :
      \/ bidRow[b].status = "Pending"
      \/ \E x \in calls : x.req.bid = b /\ x.step = "pending"

\* The store keeps what BidLedger promises: an update is owed to the
\* subscribers from the query that made it to the broadcast.
Ledger == INSTANCE BidLedger WITH
  status <- [b \in Bids |-> bidRow[b].status],
  owed <- {<<x.req.bid, x.req.to>> : x \in {y \in calls : y.step # "query"}},
  told <- told

LedgerImplemented == Ledger!LedgerSpec

-----------------------------------------------------------------------------
\* What the invariants above need to be inductive.

\* A pending bid has a row.
PendingPlaced == \A b \in pending : bidRow[b].status # "Absent"

\* The values clients hold are as far behind the table as memory may be: they
\* were made from pending bids or read from memory, and rows only move on.
HeldNeverAhead ==
  \A c \in Clients : \A b \in held[c].value.bids :
    Behind(held[c].value.status[b], bidRow[b].status)

\* A call past its query has recorded its status, has not broadcast it, and is
\* the only call that will.
AppliedCalls ==
  \A x \in calls : x.step # "query" =>
    /\ Behind(x.req.to, bidRow[x.req.bid].status)
    /\ <<x.req.bid, x.req.to>> \notin told
    /\ \A y \in calls :
         (y.step # "query" /\ y.req.bid = x.req.bid /\ y.req.to = x.req.to) => y = x

\* A call names the auction of the status it sets, and that auction has a row.
CallsNamed ==
  \A x \in calls :
    /\ WellFormed(x.req)
    /\ x.req.auction # NoAuction => auctionRow[x.req.auction].inserted

\* An auction on its way into memory has one client that brings it there; it
\* was not there before.
FreshAuctions ==
  /\ \A a \in Auctions :
       InMemory(a) \/ auctionRow[a].concluded => auctionRow[a].inserted
  /\ \A c \in Clients :
       /\ held[c].step # "none" => held[c].id \in Auctions
       /\ held[c].step = "made" => ~auctionRow[held[c].id].inserted
       /\ held[c].step = "inserted" =>
            /\ auctionRow[held[c].id].inserted
            /\ ~auctionRow[held[c].id].concluded
            /\ ~InMemory(held[c].id)
       /\ \A d \in Clients :
            (/\ held[c].step \in {"made", "inserted"}
             /\ held[d].step \in {"made", "inserted"}
             /\ held[c].id = held[d].id) => c = d

StoreInv ==
  /\ StoreTypeOK
  /\ PendingPlaced
  /\ HeldNeverAhead
  /\ MemoryNeverAhead
  /\ ToldIsRecorded
  /\ AppliedCalls

ReadableInv ==
  /\ StoreTypeOK
  /\ CallsNamed
  /\ RowReadable
  /\ FreshAuctions
  /\ ConcludedStaysOut
=============================================================================
