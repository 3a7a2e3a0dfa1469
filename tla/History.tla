------------------------------ MODULE History ------------------------------
(* The tables of bids, auctions and opportunities as a record of the past: the *)
(* loop that deletes what is old, the requests that read it page by page, and  *)
(* the copy of every change that tracked tasks hand to the analytics database. *)
EXTENDS Opportunities, FiniteSetsExt

CONSTANTS
  Readers,     \* clients that read the history
  DeleteBatch, \* DELETE_BATCH_SIZE
  PageSize,    \* the LIMIT of a page
  ChannelSize, \* CHANNEL_SIZE
  MaxWritten   \* bound: bids and auctions ever added

(* A channel has a place; a scenario says whether there are analytics.        *)
ASSUME HistoryAssumption ==
  /\ ChannelSize \in Nat \ {0}
  /\ \A s \in Scenarios : "analytics" \in DOMAIN s

VARIABLES
  bidRows,     \* bid: id |-> [initiated, status, auction]
  auctionRows, \* auction: their ids
  written,     \* bids and auctions ever added: ids are in the order of creation_time
  horizon,     \* ids up to here are older than delete_threshold_secs
  deleting,    \* where run_delete_pg_db_history is
  reads,       \* a client's request and what it has read so far
  analytics,   \* tracked tasks: [kind, id, status]
  channel,     \* what ClickhouseInserter has not written yet
  stored,      \* the analytics database: <<kind, id>> |-> the status written last
  disordered   \* history: what two tasks were about at once, or what got lost on the way

historyVars ==
  <<bidRows, auctionRows, written, horizon, deleting, reads, analytics, channel, stored, disordered>>
tableVars == <<bidRows, auctionRows, written>>
analyticsVars == <<analytics, channel, stored, disordered>>

Worker == "deletion"
NoAuction == 0
NoRead == [pc |-> "idle", kind |-> "bid", cursor |-> 0, page |-> <<>>, got |-> {},
           present |-> <<>>, failed |-> {}]

(* No foreign key holds a bid to its auction (bid_drop_fk_auction_id): only an *)
(* auction that is old, and its bid is older still, can be missing.           *)
HistoryTypeOK ==
  /\ auctionRows \subseteq 1..written /\ DOMAIN bidRows \subseteq 1..written \ auctionRows
  /\ \A b \in DOMAIN bidRows :
       LET a == bidRows[b].auction IN
       a # NoAuction => a \in (b + 1)..written /\ (a \in auctionRows \/ a <= horizon)
  /\ horizon \in 0..written /\ Len(channel) <= ChannelSize
  /\ deleting \in {"check", "waiting", "bids", "opportunities", "auctions"}

HistoryInit ==
  /\ bidRows = <<>> /\ auctionRows = {} /\ written = 0 /\ horizon = 0
  /\ deleting = "waiting"
  /\ reads = [r \in Readers |-> NoRead]
  /\ analytics = {} /\ channel = <<>> /\ stored = <<>> /\ disordered = {}

---------------------------------------------------------------------------
(* Tasks about what changed.  Bound: only in scenarios with analytics.        *)
Watched == budget["analytics"] > 0
Subject(task) == <<task.kind, task.id>>
Spawn(tasks) ==
  /\ analytics' = analytics \cup tasks
  /\ disordered' = disordered \cup
       {Subject(t) : t \in {u \in analytics : \E v \in tasks : Subject(u) = Subject(v)}}

(* add_bid: a row with the time its request began, which may be before that   *)
(* of a row that is there already.                                            *)
NewBid(initiated) == [initiated |-> initiated, status |-> "pending", auction |-> NoAuction]
InsertBid(id, row) == bidRows' = Put(bidRows, id, row)

WriteBid(initiated) ==
  /\ Serving /\ written < MaxWritten /\ Spend("bids")
  /\ InsertBid(written + 1, NewBid(initiated))
  /\ written' = written + 1
  /\ UNCHANGED <<auctionRows, horizon, deleting, reads, analyticsVars>>

(* add_auction.  Bids and auctions are in use for minutes, and deleted after  *)
(* days: the server is done with a row before it is old.                      *)
WriteAuction ==
  /\ proc = "up" /\ written < MaxWritten
  /\ \E b \in DOMAIN bidRows : bidRows[b].status = "pending" /\ b > horizon
  /\ auctionRows' = auctionRows \cup {written + 1}
  /\ written' = written + 1
  /\ UNCHANGED <<bidRows, horizon, deleting, reads, analyticsVars, budget>>

NextStatuses(bid) ==
  CASE bid.status = "pending" -> {"submitted", "lost"}
    [] bid.status = "submitted" -> {"won"}
    [] OTHER -> {}

(* Mutant: the task gets the bid with the status it had.                      *)
TaskOfOld(b, status) == [kind |-> "bid", id |-> b, status |-> bidRows[b].status]

TaskOf(b, status) == [kind |-> "bid", id |-> b, status |-> status]

(* update_bid_status: a bid goes to an auction that was made of it; a task    *)
(* tells the analytics.  The row can change and the answer be lost.           *)
ChangeStatus(b, status) ==
  /\ proc = "up" /\ b > horizon
  /\ \E a \in IF status = "won" THEN {bidRows[b].auction}
              ELSE {x \in auctionRows : x > b} \cup (IF status = "lost" THEN {NoAuction} ELSE {}) :
       bidRows' = [bidRows EXCEPT ![b].status = status, ![b].auction = a]
  /\ \/ Spawn(IF Watched THEN {TaskOf(b, status)} ELSE {}) /\ UNCHANGED budget
     \/ /\ Spend("faults") /\ disordered' = disordered \cup {<<"bid", b>>}
        /\ UNCHANGED analytics
  /\ UNCHANGED <<auctionRows, written, horizon, deleting, reads, channel, stored>>

(* A place in the channel of the inserter of bids, or of opportunities; one   *)
(* channel stands for them.                                                   *)
AddBid(bid) == Len(channel) < ChannelSize /\ channel' = Append(channel, bid)
AddOpportunity(opp) == Len(channel) < ChannelSize /\ channel' = Append(channel, opp)

(* add_bid_analytics, add_opportunity_analytics: the mints of the tokens, the *)
(* prices, and a place in the channel of the inserter.                        *)
SendAnalytics(task) ==
  /\ proc = "up"
  /\ IF task.kind = "bid" THEN AddBid(task) ELSE AddOpportunity(task)
  /\ analytics' = analytics \ {task}
  /\ UNCHANGED <<tableVars, horizon, deleting, reads, stored, disordered, budget>>

(* get_token_mint does not know the mint and the node does not answer, or the *)
(* token program is not accepted: the task only logs it.                      *)
AnalyticsFail(task) ==
  /\ proc = "up" /\ Spend("faults")
  /\ analytics' = analytics \ {task}
  /\ disordered' = disordered \cup {Subject(task)}
  /\ UNCHANGED <<tableVars, horizon, deleting, reads, channel, stored>>

(* ClickhouseInserter::run: the row that is written last replaces the others; *)
(* rows that cannot be committed are logged and gone.                         *)
Insert ==
  /\ proc = "up" /\ channel # <<>>
  /\ channel' = Tail(channel)
  /\ \/ /\ stored' = Put(stored, Subject(Head(channel)), Head(channel).status)
        /\ UNCHANGED <<disordered, budget>>
     \/ /\ Spend("faults") /\ disordered' = disordered \cup {Subject(Head(channel))}
        /\ UNCHANGED stored
  /\ UNCHANGED <<tableVars, horizon, deleting, reads, analytics>>

(* What a step of an opportunity's call has the analytics told: an addition   *)
(* when memory has it, a removal when it was this call that marked the row,   *)
(* or took the key from memory.                                               *)
OpportunityTask(o, status) == [kind |-> "opportunity", id |-> o.id, status |-> status]
OpportunityTasks ==
  UNION {IF calls[c].pc = "memory" /\ calls'[c].pc = "tell" THEN {OpportunityTask(calls[c].opp, "live")}
         ELSE IF calls[c].pc = "dropMemory" /\ memory' # memory /\ calls[c].first
           THEN {OpportunityTask(calls[c].opp, "removed")}
         ELSE IF calls[c].pc = "deleteMemory" /\ memory' # memory
           THEN {OpportunityTask(o, "removed") : o \in ToSet(At(calls[c].key))}
         ELSE {} : c \in {d \in Tasks : calls'[d] # calls[d]}}

OpportunityAnalytics ==
  /\ IF Watched THEN Spawn(OpportunityTasks) ELSE UNCHANGED <<analytics, disordered>>
  /\ UNCHANGED <<tableVars, horizon, deleting, reads, channel, stored>>

---------------------------------------------------------------------------
(* Time passes.                                                               *)
GrowOld ==
  /\ horizon < written /\ Spend("ages")
  /\ horizon' = horizon + 1
  /\ UNCHANGED <<tableVars, deleting, reads, analyticsVars>>

Old(ids) == {id \in ids : id <= horizon}

(* A LIMIT without an ORDER BY: any of the rows, as many as it allows.        *)
Batches(ids) == kSubset(IF Cardinality(ids) < DeleteBatch THEN Cardinality(ids) ELSE DeleteBatch, ids)

(* A round of run_delete_pg_db_history.                                       *)
NextDeletion(step) ==
  CASE step = "waiting" -> "bids"
    [] step = "bids" -> "opportunities"
    [] step = "opportunities" -> "auctions"
    [] step = "auctions" -> "check"

InDeletion(step) == proc = "up" /\ loops[Worker] = "running" /\ deleting = step

(* Bound: rounds that begin with no bid and no auction to delete are left out. *)
NothingOld == Old(DOMAIN bidRows \cup auctionRows) = {}

DeletionTick ==
  /\ InDeletion("waiting")
  /\ \/ ~NothingOld /\ UNCHANGED budget
     \/ rows # <<>> /\ Spend("sweeps")
  /\ deleting' = NextDeletion("waiting")
  /\ UNCHANGED <<tableVars, horizon, reads, analyticsVars, loops, rows>>

WaitForTick ==
  /\ InDeletion("check") /\ ~exit
  /\ deleting' = "waiting"
  /\ UNCHANGED <<tableVars, horizon, reads, analyticsVars, loops, rows, budget>>

(* Each query takes the time anew.                                            *)
DeletePgDbBidHistory ==
  /\ InDeletion("bids")
  /\ \E gone \in Batches(Old(DOMAIN bidRows)) :
       bidRows' = Restrict(bidRows, DOMAIN bidRows \ gone)
  /\ deleting' = NextDeletion("bids")
  /\ UNCHANGED <<auctionRows, written, horizon, reads, analyticsVars, loops, rows, budget>>

(* Only those that were removed.  Which of them are old is left open.         *)
DeletePgDbOpportunityHistory ==
  /\ InDeletion("opportunities")
  /\ \E gone \in SUBSET {id \in DOMAIN rows : rows[id].removed /\ ~rows[id].deleted} :
       /\ Cardinality(gone) <= DeleteBatch
       /\ rows' = [id \in DOMAIN rows |-> IF id \in gone THEN [rows[id] EXCEPT !.deleted = TRUE] ELSE rows[id]]
  /\ deleting' = NextDeletion("opportunities")
  /\ UNCHANGED <<tableVars, horizon, reads, analyticsVars, loops, budget>>

(* Mutant: the LIMIT is applied to the rows before the time is.               *)
DeleteOldOfBatch ==
  /\ InDeletion("auctions")
  /\ \E batch \in Batches(auctionRows) : auctionRows' = auctionRows \ Old(batch)
  /\ deleting' = NextDeletion("auctions")
  /\ UNCHANGED <<bidRows, written, horizon, reads, analyticsVars, loops, rows, budget>>

(* Also those of bids that are still there: more bids are old than a batch    *)
(* takes, or a bid became old since the query that deletes bids.              *)
DeletePgDbAuctionHistory ==
  /\ InDeletion("auctions")
  /\ \E gone \in Batches(Old(auctionRows)) : auctionRows' = auctionRows \ gone
  /\ deleting' = NextDeletion("auctions")
  /\ UNCHANGED <<bidRows, written, horizon, reads, analyticsVars, loops, rows, budget>>

(* The loop looks at SHOULD_EXIT after a round only; a round that would find  *)
(* nothing is left out.                                                       *)
DeletionMayExit == deleting = "check" \/ (deleting = "waiting" /\ NothingOld)

---------------------------------------------------------------------------
(* A client reads its bids, or the opportunities, page by page: from the time *)
(* of the last item it got.                                                   *)
Kept(kind) == IF kind = "bid" THEN DOMAIN bidRows ELSE {id \in DOMAIN rows : ~rows[id].deleted}
Time(kind, id) == IF kind = "bid" THEN bidRows[id].initiated ELSE id

(* Mutant: from_time itself is left out.                                      *)
AfterTime(kind, from) == {id \in Kept(kind) : from = 0 \/ Time(kind, id) > from}

FromTime(kind, from) == {id \in Kept(kind) : Time(kind, id) >= from}

(* ORDER BY the time, LIMIT: rows of the same time are in any order.          *)
Pages(kind, from) ==
  LET ids == FromTime(kind, from) IN
  {page \in kSubset(IF Cardinality(ids) < PageSize THEN Cardinality(ids) ELSE PageSize, ids) :
     \A x \in page, y \in ids \ page : Time(kind, x) <= Time(kind, y)}

(* The first request notes what there is, for the property.                   *)
Present(r, kind) ==
  IF reads[r].cursor # 0 THEN reads[r].present ELSE [id \in Kept(kind) |-> Time(kind, id)]

GetBids(r) ==
  /\ Serving /\ reads[r].pc = "idle" /\ reads[r].kind = "bid" /\ Spend("reads")
  /\ \E page \in Pages("bid", reads[r].cursor) :
       reads' = [reads EXCEPT ![r].pc = "auctions", ![r].page = Restrict(bidRows, page),
                              ![r].present = Present(r, "bid")]
  /\ UNCHANGED <<tableVars, horizon, deleting, analyticsVars, rows, loops>>

(* get_bid_status_entity: which rows make a bid, given the auctions found.    *)
Converts(row, auctions) == row.status \in {"pending", "lost"} \/ row.auction \in auctions

Latest(items, cursor) == Max({cursor} \cup {time : time \in items})

AuctionsOf(page) == {page[b].auction : b \in DOMAIN page} \cap auctionRows

(* get_auctions_by_bids, a query of its own; bids that do not convert are     *)
(* left out of the answer.                                                    *)
GetAuctionsByBids(r) ==
  LET page == reads[r].page
      items == {b \in DOMAIN page : Converts(page[b], AuctionsOf(page))} IN
  /\ proc = "up" /\ reads[r].pc = "auctions"
  /\ reads' = [reads EXCEPT ![r].pc = "idle", ![r].page = <<>>, ![r].got = @ \cup items,
                 ![r].cursor = Latest({page[b].initiated : b \in items}, @)]
  /\ UNCHANGED <<tableVars, horizon, deleting, analyticsVars, rows, loops, budget>>

SelectBid(b) == Restrict(bidRows, {b})
HasAuction(row) == row.auction \in auctionRows

(* get_bid: a bid by its id, then its auction if it names one.  A bid of      *)
(* which this fails is noted.                                                 *)
GetBid(r, b) ==
  /\ Serving /\ reads[r].pc = "idle" /\ reads[r].kind = "bid" /\ Spend("reads")
  /\ reads' = [reads EXCEPT ![r].pc = "auction", ![r].page = SelectBid(b)]
  /\ UNCHANGED <<tableVars, horizon, deleting, analyticsVars, rows, loops>>

GetAuction(r) ==
  LET b == CHOOSE x \in DOMAIN reads[r].page : TRUE
      row == reads[r].page[b] IN
  /\ proc = "up" /\ reads[r].pc = "auction"
  /\ reads' = [reads EXCEPT ![r].pc = "idle", ![r].page = <<>>,
       ![r].failed = IF row.auction = NoAuction \/ HasAuction(row) THEN @ ELSE @ \cup {b}]
  /\ UNCHANGED <<tableVars, horizon, deleting, analyticsVars, rows, loops, budget>>

(* get_opportunities in historical mode: one query.                           *)
GetOpportunities(r) ==
  /\ Serving /\ reads[r].pc = "idle" /\ rows # <<>> /\ Spend("reads")
  /\ reads[r].kind = "opportunity" \/ reads[r] = NoRead
  /\ \E page \in Pages("opportunity", reads[r].cursor) :
       reads' = [reads EXCEPT ![r].kind = "opportunity", ![r].got = @ \cup page,
                   ![r].cursor = Latest(page, @), ![r].present = Present(r, "opportunity")]
  /\ UNCHANGED <<tableVars, horizon, deleting, analyticsVars, rows, loops>>

---------------------------------------------------------------------------
HistoryStep ==
  \/ \E initiated \in {written, written + 1} \ {0} : WriteBid(initiated)
  \/ WriteAuction
  \/ \E b \in DOMAIN bidRows : \E status \in NextStatuses(bidRows[b]) : ChangeStatus(b, status)
  \/ \E task \in analytics : SendAnalytics(task) \/ AnalyticsFail(task)
  \/ Insert \/ GrowOld

(* The steps that read or write the table of opportunities.                   *)
DeletionStep ==
  DeletionTick \/ WaitForTick \/ DeletePgDbBidHistory \/ DeletePgDbOpportunityHistory
    \/ DeletePgDbAuctionHistory

ReadStep ==
  \E r \in Readers :
    \/ GetBids(r) \/ GetAuctionsByBids(r) \/ GetAuction(r) \/ GetOpportunities(r)
    \/ \E b \in DOMAIN bidRows : GetBid(r, b)

(* The process is gone: requests, tasks and the channel with it.  Only the    *)
(* tables stay.                                                               *)
HistoryStops ==
  /\ reads' = [r \in Readers |-> NoRead]
  /\ analytics' = {} /\ channel' = <<>>
  /\ disordered' = disordered \cup {Subject(t) : t \in analytics \cup ToSet(channel)}
  /\ deleting' = "check"
  /\ UNCHANGED <<tableVars, horizon, stored>>
=============================================================================
