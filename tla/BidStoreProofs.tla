---------------------------- MODULE BidStoreProofs ----------------------------
(***************************************************************************)
(* The repository keeps its invariants for any clients, and implements the *)
(* ledger it promises, for every set of bids, auctions and clients.        *)
(***************************************************************************)
EXTENDS BidStore, TLAPS

-----------------------------------------------------------------------------
\* The order of the phases of a bid's life.

LEMMA RankInt == ASSUME NEW s PROVE Rank(s) \in 0..4
  BY DEF Rank

\* A status that is behind another stays behind what that one moves on to.
LEMMA BehindForward ==
  ASSUME NEW s, NEW t, NEW u, Behind(s, t), Behind(t, u)
  PROVE  Behind(s, u)
  BY RankInt DEF Behind

\* The table of guarded updates only moves a bid to a later phase.
LEMMA UpdateForward ==
  ASSUME NEW s, NEW t, CanUpdate(s, t)
  PROVE  Rank(s) < Rank(t)
  BY DEF CanUpdate, Rank

\* What is recorded about a bid is behind every later status of it, and is not
\* that status itself.
LEMMA BehindUpdate ==
  ASSUME NEW s, NEW t, NEW u, Behind(s, t), CanUpdate(t, u)
  PROVE  Behind(s, u) /\ s # u
  BY RankInt, UpdateForward DEF Behind

\* Any copy of a row that shows a pending bid is behind the row, once there is
\* a row.
LEMMA PendingBehind ==
  ASSUME NEW s \in RowStatuses, s # "Absent"
  PROVE  Behind("Pending", s)
  BY DEF RowStatuses, Statuses, Behind, Rank

\* An absent row allows no update.
LEMMA AbsentStays == ASSUME NEW t PROVE ~CanUpdate("Absent", t)
  BY DEF CanUpdate

-----------------------------------------------------------------------------
\* The two kinds of steps of update_bid_status that change a row.

\* The row of a call's bid after the update, whether or not the caller lives to
\* see the answer.
LEMMA RowMoves ==
  ASSUME StoreTypeOK, NEW x \in calls,
         CanUpdate(bidRow[x.req.bid].status, x.req.to),
         bidRow' = [bidRow EXCEPT ![x.req.bid] = RowAfter(x.req)]
  PROVE  /\ bidRow' \in [Bids -> [status : RowStatuses, auction : Auctions \cup {NoAuction}]]
         /\ bidRow'[x.req.bid].status = x.req.to
         /\ \A b \in Bids : b # x.req.bid => bidRow'[b] = bidRow[b]
         /\ \A b \in Bids : \A s : Behind(s, bidRow[b].status) => Behind(s, bidRow'[b].status)
         /\ \A b \in Bids : bidRow[b].status # "Absent" => bidRow'[b].status # "Absent"
<1>1. x.req \in Requests /\ x.req.bid \in Bids
  BY DEF StoreTypeOK, Calls, Requests
<1>2. RowAfter(x.req) \in [status : RowStatuses, auction : Auctions \cup {NoAuction}]
  BY <1>1 DEF StoreTypeOK, Requests, RowAfter, RowStatuses
<1>3. bidRow'[x.req.bid].status = x.req.to
  BY <1>1, <1>2 DEF StoreTypeOK, RowAfter
<1>4. \A b \in Bids : b # x.req.bid => bidRow'[b] = bidRow[b]
  BY <1>1 DEF StoreTypeOK
<1>5. ASSUME NEW b \in Bids, NEW s, Behind(s, bidRow[b].status)
      PROVE  Behind(s, bidRow'[b].status)
  <2>1. CASE b = x.req.bid
    BY <2>1, <1>3, <1>5, BehindUpdate
  <2>2. CASE b # x.req.bid
    BY <2>2, <1>4, <1>5
  <2>. QED
    BY <2>1, <2>2
<1>6. x.req.to # "Absent"
  BY <1>1 DEF Requests, Statuses
<1>. QED
  BY <1>1, <1>2, <1>3, <1>4, <1>5, <1>6 DEF StoreTypeOK

-----------------------------------------------------------------------------
\* The invariants about how far copies, calls and broadcasts are.

LEMMA StoreInitInv == StoreInit => StoreInv
<1> SUFFICES ASSUME StoreInit PROVE StoreInv
  OBVIOUS
<1>1. StoreTypeOK
  BY BidStoreAssumption
  DEF StoreInit, StoreTypeOK, Values, Vacant, HeldValues, HeldSteps, NothingHeld, RowStatuses, Statuses, Calls
<1>2. PendingPlaced /\ HeldNeverAhead /\ MemoryNeverAhead /\ ToldIsRecorded /\ AppliedCalls
  BY DEF StoreInit, PendingPlaced, HeldNeverAhead, MemoryNeverAhead, ToldIsRecorded,
         AppliedCalls, Vacant, NothingHeld
<1>. QED
  BY <1>1, <1>2 DEF StoreInv

LEMMA AddBidInv ==
  ASSUME StoreInv, NEW b \in Bids, AddBid(b)
  PROVE  StoreInv'
<1> USE DEF StoreInv
<1>1. /\ bidRow' \in [Bids -> [status : RowStatuses, auction : Auctions \cup {NoAuction}]]
      /\ bidRow'[b].status = "Pending"
      /\ \A d \in Bids : d # b => bidRow'[d] = bidRow[d]
  BY DEF AddBid, StoreTypeOK, RowStatuses, Statuses
<1>2. \A d \in Bids : \A s : Behind(s, bidRow[d].status) => Behind(s, bidRow'[d].status)
  <2> SUFFICES ASSUME NEW d \in Bids, NEW s, Behind(s, bidRow[d].status), d = b
               PROVE  Behind(s, "Pending")
    BY <1>1
  <2>1. Rank("Absent") = 0 /\ Rank("Pending") = 1
    BY DEF Rank
  <2>. QED
    BY <2>1, RankInt DEF AddBid, Behind
<1>3. StoreTypeOK'
  BY <1>1 DEF AddBid, StoreTypeOK
<1>4. PendingPlaced'
  BY <1>1 DEF AddBid, StoreTypeOK, PendingPlaced
<1>5. HeldNeverAhead' /\ MemoryNeverAhead'
  BY <1>2 DEF AddBid, StoreTypeOK, HeldNeverAhead, MemoryNeverAhead, HeldValues, Values
<1>6. ToldIsRecorded'
  BY <1>2 DEF AddBid, StoreTypeOK, ToldIsRecorded
<1>7. AppliedCalls'
  BY <1>2 DEF AddBid, StoreTypeOK, AppliedCalls, Calls, Requests
<1>. QED
  BY <1>3, <1>4, <1>5, <1>6, <1>7

LEMMA TryNewInv ==
  ASSUME StoreInv, NEW c \in Clients, NEW a \in Auctions, NEW bs \in SUBSET Bids,
         NEW h \in BOOLEAN, TryNew(c, a, bs, h),
         UNCHANGED <<bidRow, auctionRow, pending, auctions, calls, told, faults>>
  PROVE  StoreInv'
<1> USE DEF StoreInv
<1> DEFINE v == [bids |-> bs,
                 status |-> [b \in Bids |-> IF b \in bs THEN "Pending" ELSE "Absent"],
                 hashed |-> h]
           e == [step |-> "made", id |-> a, value |-> v]
<1>1. e \in HeldValues /\ held' = [held EXCEPT ![c] = e]
  <2>1. v \in Values
    BY DEF Values, RowStatuses, Statuses
  <2>. QED
    BY <2>1 DEF TryNew, HeldValues, HeldSteps
<1>2. StoreTypeOK'
  BY <1>1 DEF StoreTypeOK
<1>3. \A b \in bs : v.status[b] = "Pending" /\ Behind("Pending", bidRow[b].status)
  BY PendingBehind DEF TryNew, PendingPlaced, StoreTypeOK
<1>4. HeldNeverAhead'
  BY <1>1, <1>3 DEF StoreTypeOK, HeldNeverAhead
<1>. QED
  BY <1>2, <1>4 DEF PendingPlaced, MemoryNeverAhead, ToldIsRecorded, AppliedCalls

\* The operations on auctions leave rows, calls and broadcasts alone; what they
\* copy from a client to memory or back was behind the rows where it was.

LEMMA AddAuctionRowInv ==
  ASSUME StoreInv, NEW c \in Clients, AddAuctionRow(c)
  PROVE  StoreInv'
<1> USE DEF StoreInv
<1>1. StoreTypeOK'
  <2>1. UNCHANGED <<bidRow, pending, auctions, calls, told, faults>>
    BY DEF AddAuctionRow
  <2>2. auctionRow' \in [Auctions -> [inserted : BOOLEAN, submitted : BOOLEAN, concluded : BOOLEAN]]
    BY DEF AddAuctionRow, StoreTypeOK
  <2>3. held' \in [Clients -> HeldValues]
    BY DEF AddAuctionRow, StoreTypeOK, HeldValues, HeldSteps
  <2>. QED
    BY <2>1, <2>2, <2>3 DEF StoreTypeOK
<1>2. HeldNeverAhead'
  BY DEF AddAuctionRow, StoreTypeOK, HeldNeverAhead
<1>. QED
  BY <1>1, <1>2 DEF AddAuctionRow, PendingPlaced, MemoryNeverAhead, ToldIsRecorded, AppliedCalls

LEMMA AddAuctionMemoryInv ==
  ASSUME StoreInv, NEW c \in Clients, AddAuctionMemory(c)
  PROVE  StoreInv'
<1> USE DEF StoreInv
<1>1. StoreTypeOK'
  BY DEF AddAuctionMemory, StoreTypeOK, HeldValues, HeldSteps
<1>2. HeldNeverAhead'
  BY DEF AddAuctionMemory, StoreTypeOK, HeldNeverAhead
<1>3. MemoryNeverAhead'
  BY DEF AddAuctionMemory, StoreTypeOK, HeldNeverAhead, MemoryNeverAhead
<1>4. PendingPlaced'
  BY DEF AddAuctionMemory, PendingPlaced
<1>. QED
  BY <1>1, <1>2, <1>3, <1>4 DEF AddAuctionMemory, ToldIsRecorded, AppliedCalls

LEMMA ReadAuctionInv ==
  ASSUME StoreInv, NEW c \in Clients, NEW a \in Auctions, ReadAuction(c, a),
         UNCHANGED <<bidRow, auctionRow, pending, auctions, calls, told, faults>>
  PROVE  StoreInv'
<1> USE DEF StoreInv
<1>1. [step |-> "ready", id |-> a, value |-> auctions[a]] \in HeldValues
  BY DEF StoreTypeOK, HeldValues, HeldSteps
<1>2. StoreTypeOK'
  BY <1>1 DEF ReadAuction, StoreTypeOK
<1>3. HeldNeverAhead'
  BY <1>1 DEF ReadAuction, StoreTypeOK, HeldNeverAhead, MemoryNeverAhead
<1>. QED
  BY <1>2, <1>3 DEF PendingPlaced, MemoryNeverAhead, ToldIsRecorded, AppliedCalls

LEMMA DropAuctionInv ==
  ASSUME StoreInv, NEW c \in Clients, DropAuction(c),
         UNCHANGED <<bidRow, auctionRow, pending, auctions, calls, told, faults>>
  PROVE  StoreInv'
<1> USE DEF StoreInv
<1>1. NothingHeld \in HeldValues
  BY DEF NothingHeld, HeldValues, HeldSteps, Vacant, Values, RowStatuses
<1>2. StoreTypeOK'
  BY <1>1 DEF DropAuction, StoreTypeOK
<1>3. HeldNeverAhead'
  BY <1>1 DEF DropAuction, StoreTypeOK, HeldNeverAhead, NothingHeld, Vacant
<1>. QED
  BY <1>2, <1>3 DEF PendingPlaced, MemoryNeverAhead, ToldIsRecorded, AppliedCalls

LEMMA SubmitAuctionRowInv ==
  ASSUME StoreInv, NEW c \in Clients, SubmitAuctionRow(c)
  PROVE  StoreInv'
<1> USE DEF StoreInv
<1>1. CASE auctionRow[held[c].id].submitted
  BY <1>1 DEF SubmitAuctionRow, StoreTypeOK, PendingPlaced, HeldNeverAhead, MemoryNeverAhead,
              ToldIsRecorded, AppliedCalls
<1>2. CASE ~auctionRow[held[c].id].submitted
  <2> DEFINE v == held[c].value
             e == [step |-> "submitted", id |-> held[c].id,
                   value |-> [v EXCEPT !.hashed = TRUE]]
  <2>1. held' = [held EXCEPT ![c] = e]
    BY <1>2 DEF SubmitAuctionRow
  <2>2. StoreTypeOK'
    <3>1. held[c].id \in Auctions \cup {NoAuction} /\ v \in Values
      BY DEF StoreTypeOK, HeldValues
    <3>2. [v EXCEPT !.hashed = TRUE] \in Values
      <4> HIDE DEF v
      <4>. QED
        BY <3>1 DEF Values
    <3>3. e \in HeldValues
      BY <3>1, <3>2 DEF HeldValues, HeldSteps
    <3>4. held' \in [Clients -> HeldValues]
      BY <2>1, <3>3 DEF StoreTypeOK
    <3>5. auctionRow' \in [Auctions -> [inserted : BOOLEAN, submitted : BOOLEAN, concluded : BOOLEAN]]
      <4> DEFINE row == auctionRow[held[c].id]
      <4>1. auctionRow' = [auctionRow EXCEPT ![held[c].id] = [row EXCEPT !.submitted = TRUE]]
        BY <1>2 DEF SubmitAuctionRow
      <4>2. held[c].id \in Auctions =>
              [row EXCEPT !.submitted = TRUE]
                \in [inserted : BOOLEAN, submitted : BOOLEAN, concluded : BOOLEAN]
        BY DEF StoreTypeOK
      <4> HIDE DEF row
      <4>. QED
        BY <4>1, <4>2 DEF StoreTypeOK
    <3>. QED
      BY <3>4, <3>5 DEF SubmitAuctionRow, StoreTypeOK
  <2>3. HeldNeverAhead'
    BY <1>2, <2>1 DEF SubmitAuctionRow, StoreTypeOK, HeldNeverAhead, HeldValues, Values
  <2>. QED
    BY <2>2, <2>3 DEF SubmitAuctionRow, PendingPlaced, MemoryNeverAhead, ToldIsRecorded, AppliedCalls
<1>. QED
  BY <1>1, <1>2

LEMMA SubmitAuctionMemoryInv ==
  ASSUME StoreInv, NEW c \in Clients, SubmitAuctionMemory(c)
  PROVE  StoreInv'
<1> USE DEF StoreInv
<1>1. StoreTypeOK'
  BY DEF SubmitAuctionMemory, StoreTypeOK, HeldValues, HeldSteps
<1>2. HeldNeverAhead'
  BY DEF SubmitAuctionMemory, StoreTypeOK, HeldNeverAhead
<1>3. MemoryNeverAhead'
  BY DEF SubmitAuctionMemory, StoreTypeOK, HeldNeverAhead, MemoryNeverAhead
<1>. QED
  BY <1>1, <1>2, <1>3 DEF SubmitAuctionMemory, PendingPlaced, ToldIsRecorded, AppliedCalls

LEMMA ConcludeAuctionInv ==
  ASSUME StoreInv, NEW a \in Auctions, ConcludeAuction(a)
  PROVE  StoreInv'
<1> USE DEF StoreInv
<1>1. Vacant \in Values
  BY DEF Vacant, Values, RowStatuses
<1>2. StoreTypeOK'
  BY <1>1 DEF ConcludeAuction, StoreTypeOK
<1>3. MemoryNeverAhead'
  BY DEF ConcludeAuction, StoreTypeOK, MemoryNeverAhead, Vacant
<1>. QED
  BY <1>2, <1>3 DEF ConcludeAuction, PendingPlaced, HeldNeverAhead, ToldIsRecorded, AppliedCalls

-----------------------------------------------------------------------------
\* The steps of update_bid_status.

LEMMA IssueInv ==
  ASSUME StoreInv, NEW c \in Clients, NEW R \in SUBSET Requests, Issue(c, R),
         UNCHANGED <<bidRow, auctionRow, pending, auctions, held, told, faults>>
  PROVE  StoreInv'
<1> USE DEF StoreInv
<1>1. StoreTypeOK'
  BY DEF Issue, StoreTypeOK, Calls
<1>2. \A x \in calls' : x.step # "query" => x \in calls
  BY DEF Issue
<1>3. AppliedCalls'
  BY <1>2 DEF AppliedCalls
<1>. QED
  BY <1>1, <1>3 DEF PendingPlaced, HeldNeverAhead, MemoryNeverAhead, ToldIsRecorded

LEMMA UpdateRowInv ==
  ASSUME StoreInv, NEW x \in calls, UpdateRow(x)
  PROVE  StoreInv'
<1> USE DEF StoreInv
<1>1. CASE ~CanUpdate(bidRow[x.req.bid].status, x.req.to)
  BY <1>1 DEF UpdateRow, StoreTypeOK, PendingPlaced, HeldNeverAhead, MemoryNeverAhead,
              ToldIsRecorded, AppliedCalls
<1>2. CASE CanUpdate(bidRow[x.req.bid].status, x.req.to)
  <2> DEFINE z == [x EXCEPT !.step = "pending"]
  <2>1. /\ bidRow' = [bidRow EXCEPT ![x.req.bid] = RowAfter(x.req)]
        /\ calls' = (calls \ {x}) \cup {z}
    BY <1>2 DEF UpdateRow
  <2>2. /\ x \in Calls /\ z \in Calls
        /\ z.req = x.req /\ z.step = "pending"
        /\ x.req.bid \in Bids
    BY DEF StoreTypeOK, Calls, Requests
  <2>3. /\ bidRow' \in [Bids -> [status : RowStatuses, auction : Auctions \cup {NoAuction}]]
        /\ bidRow'[x.req.bid].status = x.req.to
        /\ \A b \in Bids : \A s : Behind(s, bidRow[b].status) => Behind(s, bidRow'[b].status)
        /\ \A b \in Bids : bidRow[b].status # "Absent" => bidRow'[b].status # "Absent"
    BY <1>2, <2>1, RowMoves
  <2>4. StoreTypeOK'
    BY <2>1, <2>2, <2>3 DEF UpdateRow, StoreTypeOK
  <2>5. PendingPlaced'
    BY <2>3 DEF UpdateRow, StoreTypeOK, PendingPlaced
  <2>6. HeldNeverAhead' /\ MemoryNeverAhead'
    BY <2>3 DEF UpdateRow, StoreTypeOK, HeldNeverAhead, MemoryNeverAhead, HeldValues, Values
  <2>7. ToldIsRecorded'
    BY <2>3 DEF UpdateRow, StoreTypeOK, ToldIsRecorded
  <2>8. \A y \in calls : y.step # "query" /\ y.req.bid = x.req.bid => y.req.to # x.req.to
    BY <1>2, BehindUpdate DEF AppliedCalls
  <2>9. <<x.req.bid, x.req.to>> \notin told
    <3> SUFFICES ASSUME <<x.req.bid, x.req.to>> \in told PROVE FALSE
      OBVIOUS
    <3>1. Behind(x.req.to, bidRow[x.req.bid].status)
      BY DEF ToldIsRecorded
    <3>. QED
      BY <1>2, <3>1, BehindUpdate
  <2>10. AppliedCalls'
    <3> SUFFICES ASSUME NEW y \in calls', y.step # "query"
                 PROVE  /\ Behind(y.req.to, bidRow'[y.req.bid].status)
                        /\ <<y.req.bid, y.req.to>> \notin told'
                        /\ \A w \in calls' :
                             (w.step # "query" /\ w.req.bid = y.req.bid /\ w.req.to = y.req.to)
                                => w = y
      BY DEF AppliedCalls
    <3>1. told' = told
      BY DEF UpdateRow
    <3>2. CASE y = z
      <4>1. y.req = x.req /\ Behind(y.req.to, bidRow'[y.req.bid].status)
        BY <2>2, <2>3, <3>2 DEF Behind
      <4>2. ASSUME NEW w \in calls', w.step # "query", w.req.bid = y.req.bid, w.req.to = y.req.to
            PROVE  w = y
        BY <2>1, <2>8, <3>2, <4>1, <4>2
      <4>. QED
        BY <2>9, <3>1, <4>1, <4>2
    <3>3. CASE y # z
      <4>1. y \in calls /\ y.req.bid \in Bids
        BY <2>1, <3>3 DEF StoreTypeOK, Calls, Requests
      <4>. QED
        BY <2>1, <2>2, <2>3, <2>8, <3>1, <4>1 DEF AppliedCalls
    <3>. QED
      BY <3>2, <3>3
  <2>. QED
    BY <2>4, <2>5, <2>6, <2>7, <2>10
<1>. QED
  BY <1>1, <1>2

LEMMA ForgetPendingInv ==
  ASSUME StoreInv, NEW x \in calls, ForgetPending(x)
  PROVE  StoreInv'
<1> USE DEF StoreInv
<1> DEFINE z == [x EXCEPT !.step = "memory"]
<1>1. /\ x \in Calls /\ z \in Calls
      /\ z.req = x.req /\ z.step = "memory"
      /\ calls' = (calls \ {x}) \cup {z}
  BY DEF ForgetPending, StoreTypeOK, Calls, Requests
<1>2. StoreTypeOK'
  BY <1>1 DEF ForgetPending, StoreTypeOK
<1>3. PendingPlaced'
  BY DEF ForgetPending, PendingPlaced
<1>4. AppliedCalls'
  <2> SUFFICES ASSUME NEW y \in calls', y.step # "query"
               PROVE  /\ Behind(y.req.to, bidRow'[y.req.bid].status)
                      /\ <<y.req.bid, y.req.to>> \notin told'
                      /\ \A w \in calls' :
                           (w.step # "query" /\ w.req.bid = y.req.bid /\ w.req.to = y.req.to)
                              => w = y
    BY DEF AppliedCalls
  <2>1. x.step = "pending" /\ told' = told /\ bidRow' = bidRow
    BY DEF ForgetPending
  <2>2. CASE y = z
    BY <1>1, <2>1, <2>2 DEF AppliedCalls
  <2>3. CASE y # z
    <3>1. y \in calls /\ y # x
      BY <1>1, <2>3
    <3>2. ASSUME NEW w \in calls', w.step # "query", w.req.bid = y.req.bid, w.req.to = y.req.to
          PROVE  w = y
      <4>1. CASE w = z
        BY <1>1, <2>1, <3>1, <3>2, <4>1 DEF AppliedCalls
      <4>2. CASE w # z
        BY <1>1, <3>1, <3>2, <4>2 DEF AppliedCalls
      <4>. QED
        BY <4>1, <4>2
    <3>. QED
      BY <2>1, <3>1, <3>2 DEF AppliedCalls
  <2>. QED
    BY <2>2, <2>3
<1>. QED
  BY <1>2, <1>3, <1>4 DEF ForgetPending, HeldNeverAhead, MemoryNeverAhead, ToldIsRecorded

LEMMA UpdateMemoryInv ==
  ASSUME StoreInv, NEW x \in calls, UpdateMemory(x)
  PROVE  StoreInv'
<1> USE DEF StoreInv
<1>1. /\ x \in Calls /\ x.req \in Requests
      /\ x.req.bid \in Bids /\ x.req.to \in Statuses
      /\ x.req.auction \in Auctions \cup {NoAuction}
      /\ Behind(x.req.to, bidRow[x.req.bid].status)
  BY DEF UpdateMemory, StoreTypeOK, AppliedCalls, Calls, Requests
<1>2. auctions' \in [Auctions -> Values]
  <2>1. CASE auctions' = auctions
    BY <2>1 DEF StoreTypeOK
  <2>2. CASE auctions' # auctions
    <3> DEFINE a == x.req.auction
               v == [auctions[a] EXCEPT !.status[x.req.bid] = x.req.to]
    <3>1. a \in Auctions /\ auctions' = [auctions EXCEPT ![a] = v]
      BY <1>1, <2>2 DEF UpdateMemory
    <3>2. auctions[a] \in Values
      BY <3>1 DEF StoreTypeOK
    <3>3. v \in Values
      <4> HIDE DEF a
      <4>. QED
        BY <1>1, <3>2 DEF Values, RowStatuses
    <3> HIDE DEF a, v
    <3>. QED
      BY <3>1, <3>3 DEF StoreTypeOK
  <2>. QED
    BY <2>1, <2>2
<1>3. StoreTypeOK'
  BY <1>1, <1>2 DEF UpdateMemory, StoreTypeOK
<1>4. MemoryNeverAhead'
  BY <1>1 DEF UpdateMemory, StoreTypeOK, MemoryNeverAhead, Values
<1>5. ToldIsRecorded'
  BY <1>1 DEF UpdateMemory, ToldIsRecorded
<1>6. AppliedCalls'
  BY <1>1 DEF UpdateMemory, AppliedCalls
<1>. QED
  BY <1>3, <1>4, <1>5, <1>6 DEF UpdateMemory, PendingPlaced, HeldNeverAhead

LEMMA QueryFailsInv ==
  ASSUME StoreInv, NEW x \in calls, QueryFails(x)
  PROVE  StoreInv'
  BY BidStoreAssumption
  DEF StoreInv, QueryFails, StoreTypeOK, PendingPlaced, HeldNeverAhead, MemoryNeverAhead,
      ToldIsRecorded, AppliedCalls

LEMMA AnswerLostInv ==
  ASSUME StoreInv, NEW x \in calls, AnswerLost(x)
  PROVE  StoreInv'
<1> USE DEF StoreInv
<1>1. /\ bidRow' \in [Bids -> [status : RowStatuses, auction : Auctions \cup {NoAuction}]]
      /\ \A b \in Bids : \A s : Behind(s, bidRow[b].status) => Behind(s, bidRow'[b].status)
      /\ \A b \in Bids : bidRow[b].status # "Absent" => bidRow'[b].status # "Absent"
  BY RowMoves DEF AnswerLost
<1>2. StoreTypeOK'
  BY <1>1, BidStoreAssumption DEF AnswerLost, StoreTypeOK
<1>3. PendingPlaced'
  BY <1>1 DEF AnswerLost, StoreTypeOK, PendingPlaced
<1>4. HeldNeverAhead' /\ MemoryNeverAhead'
  BY <1>1 DEF AnswerLost, StoreTypeOK, HeldNeverAhead, MemoryNeverAhead, HeldValues, Values
<1>5. ToldIsRecorded'
  BY <1>1 DEF AnswerLost, StoreTypeOK, ToldIsRecorded
<1>6. AppliedCalls'
  BY <1>1 DEF AnswerLost, StoreTypeOK, AppliedCalls, Calls, Requests
<1>. QED
  BY <1>2, <1>3, <1>4, <1>5, <1>6

LEMMA StoreNextInv == StoreInv /\ [StoreNext]_storeVars => StoreInv'
<1> SUFFICES ASSUME StoreInv, [StoreNext]_storeVars
             PROVE  StoreInv'
  OBVIOUS
<1>1. ASSUME NEW b \in Bids, AddBid(b) PROVE StoreInv'
  BY <1>1, AddBidInv
<1>2. ASSUME NEW c \in Clients, NEW a \in Auctions, NEW bs \in SUBSET Bids, NEW h \in BOOLEAN,
             TryNew(c, a, bs, h),
             UNCHANGED <<bidRow, auctionRow, pending, auctions, calls, told, faults>>
      PROVE  StoreInv'
  BY <1>2, TryNewInv
<1>3. ASSUME NEW c \in Clients,
             AddAuctionRow(c) \/ AddAuctionMemory(c) \/ SubmitAuctionRow(c) \/ SubmitAuctionMemory(c)
      PROVE  StoreInv'
  BY <1>3, AddAuctionRowInv, AddAuctionMemoryInv, SubmitAuctionRowInv, SubmitAuctionMemoryInv
<1>4. ASSUME NEW c \in Clients, NEW a \in Auctions, ReadAuction(c, a),
             UNCHANGED <<bidRow, auctionRow, pending, auctions, calls, told, faults>>
      PROVE  StoreInv'
  BY <1>4, ReadAuctionInv
<1>5. ASSUME NEW c \in Clients, DropAuction(c),
             UNCHANGED <<bidRow, auctionRow, pending, auctions, calls, told, faults>>
      PROVE  StoreInv'
  BY <1>5, DropAuctionInv
<1>6. ASSUME NEW c \in Clients, NEW r \in Requests, Issue(c, {r}),
             UNCHANGED <<bidRow, auctionRow, pending, auctions, held, told, faults>>
      PROVE  StoreInv'
  BY <1>6, IssueInv
<1>7. ASSUME NEW a \in Auctions, ConcludeAuction(a) PROVE StoreInv'
  BY <1>7, ConcludeAuctionInv
<1>8. ASSUME NEW x \in calls, UpdateStep(x) \/ UpdateFault(x) PROVE StoreInv'
  BY <1>8, UpdateRowInv, ForgetPendingInv, UpdateMemoryInv, QueryFailsInv, AnswerLostInv
  DEF UpdateStep, UpdateFault
<1>9. CASE UNCHANGED storeVars
  BY <1>9 DEF storeVars, StoreInv, StoreTypeOK, PendingPlaced, HeldNeverAhead,
              MemoryNeverAhead, ToldIsRecorded, AppliedCalls
<1>. QED
  BY <1>1, <1>2, <1>3, <1>4, <1>5, <1>6, <1>7, <1>8, <1>9 DEF StoreNext

\* The types of the store, and how far its copies, calls and broadcasts are.
THEOREM StoreInvariant == StoreSpec => []StoreInv
  BY StoreInitInv, StoreNextInv, PTL DEF StoreSpec

\* Rows, memory and the updates in flight stay of their types, whatever clients
\* call and whichever call fails.
THEOREM StoreTypes == StoreSpec => []StoreTypeOK
<1>1. StoreInv => StoreTypeOK
  BY DEF StoreInv
<1>. QED
  BY <1>1, StoreInvariant, PTL

\* Memory never shows a bid further than its row, for any clients.
THEOREM StoreMemoryNeverAhead == StoreSpec => []MemoryNeverAhead
<1>1. StoreInv => MemoryNeverAhead
  BY DEF StoreInv
<1>. QED
  BY <1>1, StoreInvariant, PTL

\* What subscribers have heard was recorded, for any clients.
THEOREM StoreToldIsRecorded == StoreSpec => []ToldIsRecorded
<1>1. StoreInv => ToldIsRecorded
  BY DEF StoreInv
<1>. QED
  BY <1>1, StoreInvariant, PTL

\* No update of a bid is broadcast twice, for any clients.
THEOREM StoreBroadcastOnce == StoreSpec => BroadcastOnce
<1>1. StoreInv => \A x \in calls :
        (x.step = "memory" /\ x \notin calls') => <<x.req.bid, x.req.to>> \notin told
  BY DEF StoreInv, AppliedCalls
<1>. QED
  BY <1>1, StoreInvariant, PTL DEF BroadcastOnce

-----------------------------------------------------------------------------
\* Rows can be read back, and concluded auctions stay out of memory.

LEMMA ReadableInitInv == StoreInit => ReadableInv
<1> SUFFICES ASSUME StoreInit PROVE ReadableInv
  OBVIOUS
<1>1. StoreTypeOK
  BY StoreInitInv DEF StoreInv
<1>2. CallsNamed /\ RowReadable /\ FreshAuctions /\ ConcludedStaysOut
  BY DEF StoreInit, CallsNamed, RowReadable, FreshAuctions, ConcludedStaysOut, InMemory,
         Vacant, NothingHeld
<1>. QED
  BY <1>1, <1>2 DEF ReadableInv

\* A row that an update changed is readable when the call named its auction.
LEMMA UpdatedReadable ==
  ASSUME ReadableInv, NEW x \in calls, auctionRow' = auctionRow,
         CanUpdate(bidRow[x.req.bid].status, x.req.to),
         bidRow' = [bidRow EXCEPT ![x.req.bid] = RowAfter(x.req)]
  PROVE  RowReadable'
<1> SUFFICES ASSUME NEW b \in Bids, bidRow'[b].status \notin {"Absent", "Pending", "Lost"}
             PROVE  /\ bidRow'[b].auction # NoAuction
                    /\ auctionRow[bidRow'[b].auction].inserted
  BY DEF RowReadable
<1>1. /\ x.req \in Requests /\ x.req.bid \in Bids
      /\ x.req.auction # NoAuction => auctionRow[x.req.auction].inserted
      /\ x.req.to # "Lost" => x.req.auction # NoAuction
  BY DEF ReadableInv, StoreTypeOK, Calls, Requests, CallsNamed, WellFormed
<1>2. CASE b # x.req.bid
  BY <1>1, <1>2 DEF ReadableInv, StoreTypeOK, RowReadable
<1>3. CASE b = x.req.bid
  <2>1. bidRow'[b] = RowAfter(x.req)
    BY <1>1, <1>3 DEF ReadableInv, StoreTypeOK
  <2>2. CASE x.req.to \in {"Won", "Failed"}
    <3>1. bidRow[b].status \in {"Submitted", "SentToUser"}
      BY <1>3, <2>2 DEF CanUpdate
    <3>2. bidRow'[b].auction = bidRow[b].auction
      BY <1>3, <2>1, <2>2 DEF RowAfter, SetsAuction
    <3>. QED
      BY <3>1, <3>2 DEF ReadableInv, RowReadable
  <2>3. CASE x.req.to \notin {"Won", "Failed"}
    BY <1>1, <1>3, <2>1, <2>3 DEF RowAfter, SetsAuction
  <2>. QED
    BY <2>2, <2>3
<1>. QED
  BY <1>2, <1>3

LEMMA ReadableNextInv == ReadableInv /\ StoreTypeOK' /\ [StoreNext]_storeVars => ReadableInv'
<1> SUFFICES ASSUME ReadableInv, StoreTypeOK', [StoreNext]_storeVars
             PROVE  ReadableInv'
  OBVIOUS
<1> USE BidStoreAssumption DEF ReadableInv
<1>1. ASSUME NEW b \in Bids, AddBid(b) PROVE ReadableInv'
  <2>1. RowReadable'
    BY <1>1 DEF AddBid, StoreTypeOK, RowReadable
  <2>. QED
    BY <1>1, <2>1 DEF AddBid, CallsNamed, FreshAuctions, ConcludedStaysOut, InMemory
<1>2. ASSUME NEW c \in Clients, NEW a \in Auctions, NEW bs \in SUBSET Bids, NEW h \in BOOLEAN,
             TryNew(c, a, bs, h),
             UNCHANGED <<bidRow, auctionRow, pending, auctions, calls, told, faults>>
      PROVE  ReadableInv'
  <2>1. /\ held'[c].step = "made" /\ held'[c].id = a
        /\ \A d \in Clients : d # c => held'[d] = held[d]
    BY <1>2 DEF TryNew, StoreTypeOK
  <2>2. FreshAuctions'
    <3>1. /\ UNCHANGED <<auctionRow, auctions>> /\ ~auctionRow[a].inserted
          /\ \A d \in Clients : held[d].id # a
      BY <1>2 DEF TryNew
    <3>2. FreshAuctions
      OBVIOUS
    <3>3. ASSUME NEW e \in Auctions
          PROVE  (InMemory(e) \/ auctionRow[e].concluded => auctionRow[e].inserted)'
      BY <3>1, <3>2 DEF FreshAuctions, InMemory
    <3>4. ASSUME NEW d \in Clients
          PROVE  (/\ held[d].step # "none" => held[d].id \in Auctions
                  /\ held[d].step = "made" => ~auctionRow[held[d].id].inserted
                  /\ held[d].step = "inserted" =>
                       /\ auctionRow[held[d].id].inserted
                       /\ ~auctionRow[held[d].id].concluded
                       /\ ~InMemory(held[d].id))'
      <4>1. CASE d = c
        BY <2>1, <3>1, <4>1
      <4>2. CASE d # c
        BY <2>1, <3>1, <3>2, <4>2 DEF FreshAuctions, InMemory
      <4>. QED
        BY <4>1, <4>2
    <3>5. ASSUME NEW d \in Clients, NEW e \in Clients, held'[d].step \in {"made", "inserted"},
                 held'[e].step \in {"made", "inserted"}, held'[d].id = held'[e].id
          PROVE  d = e
      BY <2>1, <3>1, <3>2, <3>5 DEF FreshAuctions
    <3>. QED
      BY <3>3, <3>4, <3>5 DEF FreshAuctions
  <2>. QED
    BY <1>2, <2>2 DEF CallsNamed, RowReadable, ConcludedStaysOut, InMemory
<1>3. ASSUME NEW c \in Clients, AddAuctionRow(c) PROVE ReadableInv'
  <2>1. held[c].id \in Auctions /\ ~auctionRow[held[c].id].inserted
    BY <1>3 DEF AddAuctionRow, FreshAuctions
  <2>2. /\ auctionRow'[held[c].id].inserted
        /\ auctionRow'[held[c].id].concluded = auctionRow[held[c].id].concluded
        /\ \A a \in Auctions : a # held[c].id => auctionRow'[a] = auctionRow[a]
    BY <1>3, <2>1 DEF AddAuctionRow, StoreTypeOK
  <2>3. CallsNamed' /\ RowReadable'
    BY <1>3, <2>1, <2>2 DEF AddAuctionRow, CallsNamed, RowReadable, StoreTypeOK, Calls, Requests
  <2>4. /\ held'[c].step = "inserted" /\ held'[c].id = held[c].id
        /\ \A d \in Clients : d # c => held'[d] = held[d]
    BY <1>3 DEF AddAuctionRow, StoreTypeOK, HeldValues
  <2>5. FreshAuctions'
    BY <1>3, <2>1, <2>2, <2>4 DEF AddAuctionRow, FreshAuctions, InMemory
  <2>6. ConcludedStaysOut'
    BY <1>3, <2>1, <2>2 DEF AddAuctionRow, ConcludedStaysOut, InMemory
  <2>. QED
    BY <2>3, <2>5, <2>6
<1>4. ASSUME NEW c \in Clients, AddAuctionMemory(c) PROVE ReadableInv'
  <2>1. held[c].id \in Auctions /\ auctionRow[held[c].id].inserted /\ ~auctionRow[held[c].id].concluded
    BY <1>4 DEF AddAuctionMemory, FreshAuctions
  <2>2. /\ held'[c].step = "ready" /\ held'[c].id = held[c].id
        /\ \A d \in Clients : d # c => held'[d] = held[d]
    BY <1>4 DEF AddAuctionMemory, StoreTypeOK, HeldValues
  <2>3. \A a \in Auctions : a # held[c].id => auctions'[a] = auctions[a]
    BY <1>4 DEF AddAuctionMemory, StoreTypeOK
  <2>4. \A d \in Clients : d # c /\ held[d].step = "inserted" => held[d].id # held[c].id
    BY <1>4 DEF AddAuctionMemory, FreshAuctions
  <2>5. FreshAuctions'
    BY <1>4, <2>1, <2>2, <2>3, <2>4 DEF AddAuctionMemory, FreshAuctions, InMemory
  <2>6. ConcludedStaysOut'
    BY <1>4, <2>1, <2>3 DEF AddAuctionMemory, ConcludedStaysOut, InMemory
  <2>. QED
    BY <1>4, <2>5, <2>6 DEF AddAuctionMemory, CallsNamed, RowReadable
<1>5. ASSUME NEW c \in Clients, NEW a \in Auctions, ReadAuction(c, a),
             UNCHANGED <<bidRow, auctionRow, pending, auctions, calls, told, faults>>
      PROVE  ReadableInv'
  <2>1. /\ held'[c].step = "ready" /\ held'[c].id = a
        /\ \A d \in Clients : d # c => held'[d] = held[d]
    BY <1>5 DEF ReadAuction, StoreTypeOK
  <2>2. FreshAuctions'
    BY <1>5, <2>1 DEF FreshAuctions, InMemory
  <2>. QED
    BY <1>5, <2>2 DEF CallsNamed, RowReadable, ConcludedStaysOut, InMemory
<1>6. ASSUME NEW c \in Clients, DropAuction(c),
             UNCHANGED <<bidRow, auctionRow, pending, auctions, calls, told, faults>>
      PROVE  ReadableInv'
  <2>1. /\ held'[c].step = "none"
        /\ \A d \in Clients : d # c => held'[d] = held[d]
    BY <1>6 DEF DropAuction, NothingHeld, StoreTypeOK
  <2>2. FreshAuctions'
    BY <1>6, <2>1 DEF FreshAuctions, InMemory
  <2>. QED
    BY <1>6, <2>2 DEF CallsNamed, RowReadable, ConcludedStaysOut, InMemory
<1>7. ASSUME NEW c \in Clients, SubmitAuctionRow(c) PROVE ReadableInv'
  <2>1. held[c].id \in Auctions
    BY <1>7 DEF SubmitAuctionRow, FreshAuctions
  <2>2. \A a \in Auctions : /\ auctionRow'[a].inserted = auctionRow[a].inserted
                            /\ auctionRow'[a].concluded = auctionRow[a].concluded
    BY <1>7, <2>1 DEF SubmitAuctionRow, StoreTypeOK
  <2>3. /\ held'[c].step \in {"ready", "submitted"} /\ held'[c].id = held[c].id
        /\ \A d \in Clients : d # c => held'[d] = held[d]
    BY <1>7 DEF SubmitAuctionRow, StoreTypeOK
  <2>4. FreshAuctions'
    <3>1. auctions' = auctions
      BY <1>7 DEF SubmitAuctionRow
    <3>2. ASSUME NEW d \in Clients, held'[d].step \in {"made", "inserted"}
          PROVE  held'[d] = held[d]
      BY <2>3, <3>2
    <3>3. \A a \in Auctions : InMemory(a)' = InMemory(a)
      BY <3>1 DEF InMemory
    <3>4. \A d \in Clients : held'[d].step # "none" => held'[d].id \in Auctions
      BY <2>1, <2>3 DEF FreshAuctions
    <3>. QED
      BY <2>2, <3>2, <3>3, <3>4 DEF FreshAuctions
  <2>5. CallsNamed' /\ RowReadable' /\ ConcludedStaysOut'
    BY <1>7, <2>2 DEF SubmitAuctionRow, CallsNamed, RowReadable, ConcludedStaysOut, InMemory,
                      StoreTypeOK, Calls, Requests
  <2>. QED
    BY <2>4, <2>5
<1>8. ASSUME NEW c \in Clients, SubmitAuctionMemory(c) PROVE ReadableInv'
  <2>1. \A a \in Auctions : InMemory(a)' => InMemory(a)
    BY <1>8 DEF SubmitAuctionMemory, StoreTypeOK, InMemory
  <2>2. /\ held'[c].step = "ready" /\ held'[c].id = held[c].id /\ held[c].step = "submitted"
        /\ \A d \in Clients : d # c => held'[d] = held[d]
    BY <1>8 DEF SubmitAuctionMemory, StoreTypeOK, HeldValues
  <2>3. FreshAuctions'
    BY <1>8, <2>1, <2>2 DEF SubmitAuctionMemory, FreshAuctions
  <2>. QED
    BY <1>8, <2>1, <2>3 DEF SubmitAuctionMemory, CallsNamed, RowReadable, ConcludedStaysOut
<1>9. ASSUME NEW a \in Auctions, ConcludeAuction(a) PROVE ReadableInv'
  <2>1. \A d \in Auctions : /\ auctionRow'[d].inserted = auctionRow[d].inserted
                            /\ d # a => auctionRow'[d] = auctionRow[d] /\ auctions'[d] = auctions[d]
    BY <1>9 DEF ConcludeAuction, StoreTypeOK
  <2>2. auctions'[a].bids = {} /\ auctionRow[a].inserted
    BY <1>9 DEF ConcludeAuction, StoreTypeOK, Vacant, FreshAuctions
  <2>3. FreshAuctions'
    <3>1. \A d \in Auctions : InMemory(d)' => InMemory(d) /\ auctionRow'[d] = auctionRow[d]
      BY <2>1, <2>2 DEF InMemory
    <3>2. \A d \in Auctions : (InMemory(d) \/ auctionRow[d].concluded => auctionRow[d].inserted)'
      BY <2>1, <2>2, <3>1 DEF FreshAuctions
    <3>3. \A d \in Clients : held[d].step = "inserted" => held[d].id \in Auctions /\ held[d].id # a
      BY <1>9 DEF ConcludeAuction, FreshAuctions
    <3>4. UNCHANGED held
      BY <1>9 DEF ConcludeAuction
    <3>5. ASSUME NEW d \in Clients, held[d].step = "inserted"
          PROVE  ~auctionRow'[held[d].id].concluded /\ ~(auctions'[held[d].id].bids # {})
      <4>1. held[d].id \in Auctions /\ held[d].id # a
        BY <3>3, <3>5
      <4>2. ~auctionRow[held[d].id].concluded /\ ~InMemory(held[d].id)
        BY <3>5 DEF FreshAuctions
      <4>. QED
        BY <2>1, <4>1, <4>2 DEF InMemory
    <3>. QED
      BY <2>1, <3>2, <3>4, <3>5 DEF FreshAuctions, InMemory
  <2>4. CallsNamed' /\ RowReadable' /\ ConcludedStaysOut'
    BY <1>9, <2>1, <2>2 DEF ConcludeAuction, CallsNamed, RowReadable, ConcludedStaysOut, InMemory,
                            StoreTypeOK, Calls, Requests
  <2>. QED
    BY <2>3, <2>4
<1>10. ASSUME NEW c \in Clients, NEW r \in Requests, WellFormed(r),
              r.auction # NoAuction => auctionRow[r.auction].inserted, Issue(c, {r}),
              UNCHANGED <<bidRow, auctionRow, pending, auctions, held, told, faults>>
       PROVE  ReadableInv'
  <2>1. CallsNamed'
    BY <1>10 DEF Issue, CallsNamed
  <2>. QED
    BY <1>10, <2>1 DEF RowReadable, FreshAuctions, ConcludedStaysOut, InMemory
<1>11. ASSUME NEW x \in calls, UpdateStep(x) \/ UpdateFault(x) PROVE ReadableInv'
  <2>1. /\ auctionRow' = auctionRow /\ held' = held
        /\ \A y \in calls' : \E w \in calls : y.req = w.req
    BY <1>11 DEF UpdateStep, UpdateFault, UpdateRow, ForgetPending, UpdateMemory, QueryFails,
                 AnswerLost, StoreTypeOK, Calls
  <2>2. CallsNamed'
    BY <2>1 DEF CallsNamed
  <2>3. RowReadable'
    <3>1. CASE bidRow' = bidRow
      BY <2>1, <3>1 DEF RowReadable
    <3>2. CASE bidRow' # bidRow
      <4>1. /\ CanUpdate(bidRow[x.req.bid].status, x.req.to)
            /\ bidRow' = [bidRow EXCEPT ![x.req.bid] = RowAfter(x.req)]
        BY <1>11, <3>2 DEF UpdateStep, UpdateFault, UpdateRow, ForgetPending, UpdateMemory,
                           QueryFails, AnswerLost
      <4>. QED
        BY <2>1, <4>1, UpdatedReadable
    <3>. QED
      BY <3>1, <3>2
  <2>4. \A a \in Auctions : auctions'[a].bids = auctions[a].bids
    <3>1. CASE UpdateMemory(x)
      BY <3>1 DEF UpdateMemory, StoreTypeOK, Values
    <3>2. CASE ~UpdateMemory(x)
      BY <1>11, <3>2 DEF UpdateStep, UpdateFault, UpdateRow, ForgetPending, QueryFails, AnswerLost
    <3>. QED
      BY <3>1, <3>2
  <2>5. FreshAuctions' /\ ConcludedStaysOut'
    BY <2>1, <2>4 DEF FreshAuctions, ConcludedStaysOut, InMemory
  <2>. QED
    BY <2>2, <2>3, <2>5
<1>12. CASE UNCHANGED storeVars
  BY <1>12 DEF storeVars, StoreTypeOK, CallsNamed, RowReadable, FreshAuctions, ConcludedStaysOut, InMemory
<1>. QED
  BY <1>1, <1>2, <1>3, <1>4, <1>5, <1>6, <1>7, <1>8, <1>9, <1>10, <1>11, <1>12 DEF StoreNext

LEMMA ReadableInvariant == StoreSpec => []ReadableInv
<1>1. StoreInv => StoreTypeOK
  BY DEF StoreInv
<1>. QED
  BY <1>1, StoreInvariant, ReadableInitInv, ReadableNextInv, PTL DEF StoreSpec

\* Every row that the clients of the store make can be read back by get_bid.
THEOREM StoreRowReadable == StoreSpec => []RowReadable
<1>1. ReadableInv => RowReadable
  BY DEF ReadableInv
<1>. QED
  BY <1>1, ReadableInvariant, PTL

\* A late submission does not bring a concluded auction back to memory.
THEOREM StoreConcludedStaysOut == StoreSpec => []ConcludedStaysOut
<1>1. ReadableInv => ConcludedStaysOut
  BY DEF ReadableInv
<1>. QED
  BY <1>1, ReadableInvariant, PTL

-----------------------------------------------------------------------------
\* Pending bids are open.

\* The query of an update closes the row, the same call drops the bid from the
\* pending ones next; nothing else closes rows or adds to the pending bids but
\* the insertion of a row.  The call may only fail to come to that when it is
\* cut short, and then a fault is counted.
LEMMA PendingOpenKept ==
  ASSUME StoreTypeOK, PendingIsOpen, [StoreNext]_storeVars
  PROVE  PendingIsOpen'
<1>1. ASSUME NEW b \in Bids, AddBid(b) PROVE PendingIsOpen'
  <2>1. /\ bidRow'[b].status = "Pending" /\ \A d \in Bids \ {b} : bidRow'[d] = bidRow[d]
        /\ pending' = pending \cup {b} /\ UNCHANGED <<calls, faults>>
    BY <1>1 DEF AddBid, StoreTypeOK
  <2>. QED
    BY <2>1 DEF PendingIsOpen, StoreTypeOK
<1>2. ASSUME pending' \subseteq pending, UNCHANGED <<bidRow, faults>>, calls \subseteq calls'
      PROVE  PendingIsOpen'
  BY <1>2 DEF PendingIsOpen
<1>3. ASSUME NEW c \in Clients,
             \/ AddAuctionRow(c) \/ AddAuctionMemory(c)
             \/ SubmitAuctionRow(c) \/ SubmitAuctionMemory(c)
      PROVE  PendingIsOpen'
  BY <1>2, <1>3 DEF AddAuctionRow, AddAuctionMemory, SubmitAuctionRow, SubmitAuctionMemory
<1>4. ASSUME NEW a \in Auctions, ConcludeAuction(a) PROVE PendingIsOpen'
  BY <1>2, <1>4 DEF ConcludeAuction
<1>5. ASSUME NEW c \in Clients, NEW r \in Requests, Issue(c, {r}),
             UNCHANGED <<bidRow, auctionRow, pending, auctions, held, told, faults>>
      PROVE  PendingIsOpen'
  BY <1>2, <1>5 DEF Issue
<1>6. ASSUME NEW x \in calls, UpdateRow(x) PROVE PendingIsOpen'
  <2>1. CASE ~CanUpdate(bidRow[x.req.bid].status, x.req.to)
    BY <1>6, <2>1 DEF UpdateRow, PendingIsOpen
  <2>2. CASE CanUpdate(bidRow[x.req.bid].status, x.req.to)
    <3> DEFINE z == [x EXCEPT !.step = "pending"]
    <3>1. /\ \A b \in Bids \ {x.req.bid} : bidRow'[b] = bidRow[b]
          /\ calls' = (calls \ {x}) \cup {z} /\ x.step = "query"
          /\ UNCHANGED <<pending, faults>>
      BY <1>6, <2>2, RowMoves DEF UpdateRow
    <3>2. z.req = x.req /\ z.step = "pending"
      BY DEF StoreTypeOK, Calls
    <3> HIDE DEF z
    <3>. QED
      BY <3>1, <3>2 DEF PendingIsOpen, StoreTypeOK
  <2>. QED
    BY <2>1, <2>2
<1>7. ASSUME NEW x \in calls, ForgetPending(x) PROVE PendingIsOpen'
  BY <1>7 DEF ForgetPending, PendingIsOpen
<1>8. ASSUME NEW x \in calls, UpdateMemory(x) PROVE PendingIsOpen'
  BY <1>8 DEF UpdateMemory, PendingIsOpen
<1>9. ASSUME NEW x \in calls, QueryFails(x) \/ AnswerLost(x) PROVE PendingIsOpen'
  <2>1. faults' # 0
    BY <1>9, BidStoreAssumption DEF QueryFails, AnswerLost, StoreTypeOK
  <2>. QED
    BY <2>1 DEF PendingIsOpen
<1>10. CASE UNCHANGED storeVars
  BY <1>2, <1>10 DEF storeVars
<1>. QED
  BY <1>1, <1>2, <1>3, <1>4, <1>5, <1>6, <1>7, <1>8, <1>9, <1>10 DEF StoreNext, UpdateStep, UpdateFault

LEMMA PendingOpenStart == StoreInit => PendingIsOpen
  BY DEF StoreInit, PendingIsOpen

\* Whatever clients call, and in whatever order their calls interleave: while
\* no database call failed, a bid that the server takes for pending is open in
\* the table or the call that closed it is about to drop it.
THEOREM StorePendingIsOpen == StoreSpec => []PendingIsOpen
<1>1. StoreInv => StoreTypeOK
  BY DEF StoreInv
<1>. QED
  BY <1>1, StoreInvariant, PendingOpenStart, PendingOpenKept, PTL DEF StoreSpec

-----------------------------------------------------------------------------
\* The store implements the ledger: the statuses of its rows, the updates past
\* their query and the broadcasts are a ledger.

LStatus == [b \in Bids |-> bidRow[b].status]
LOwed == {<<x.req.bid, x.req.to>> : x \in {y \in calls : y.step # "query"}}

\* The instance of BidStatus that the ledger sees orders statuses as this one.
LEMMA LedgerRank == ASSUME NEW s PROVE Ledger!Rank(s) = Rank(s)
  BY DEF Ledger!Rank, Rank

LEMMA LedgerStatuses == Ledger!Statuses = Statuses
  BY DEF Ledger!Statuses, Statuses

\* An update that changes a row moves the ledger forward.
LEMMA LedgerForward ==
  ASSUME StoreTypeOK, NEW x \in calls,
         CanUpdate(bidRow[x.req.bid].status, x.req.to),
         bidRow' = [bidRow EXCEPT ![x.req.bid] = RowAfter(x.req)]
  PROVE  Ledger!Forward(x.req.bid, x.req.to)
<1>1. x.req.bid \in Bids /\ LStatus[x.req.bid] = bidRow[x.req.bid].status
  BY DEF StoreTypeOK, Calls, Requests, LStatus
<1>2. LStatus' = [LStatus EXCEPT ![x.req.bid] = x.req.to]
  BY <1>1, RowMoves DEF LStatus
<1>3. /\ bidRow[x.req.bid].status # "Absent"
      /\ Ledger!Rank(bidRow[x.req.bid].status) < Ledger!Rank(x.req.to)
      /\ x.req.to \in {"Won", "Failed"} => bidRow[x.req.bid].status \in {"SentToUser", "Submitted"}
  BY UpdateForward, LedgerRank, AbsentStays DEF CanUpdate
<1>. QED
  BY <1>1, <1>2, <1>3 DEF Ledger!Forward, LStatus

\* Calls that are still before their query owe nothing.
LEMMA OwedKept ==
  ASSUME \A x \in calls' : x.step # "query" => \E y \in calls : y.step # "query" /\ y.req = x.req,
         \A x \in calls : x.step # "query" => \E y \in calls' : y.step # "query" /\ y.req = x.req
  PROVE  LOwed' = LOwed
  BY DEF LOwed

LEMMA LedgerStep ==
  StoreInv /\ [StoreNext]_storeVars => [Ledger!LedgerNext]_(Ledger!ledgerVars)
<1> SUFFICES ASSUME StoreInv, [StoreNext]_storeVars
             PROVE  [Ledger!LedgerNext]_(Ledger!ledgerVars)
  OBVIOUS
<1>1. ASSUME UNCHANGED <<bidRow, told>>, LOwed' = LOwed
      PROVE  UNCHANGED Ledger!ledgerVars
  BY <1>1 DEF Ledger!ledgerVars, LOwed
<1>2. ASSUME UNCHANGED <<bidRow, calls, told>>
      PROVE  UNCHANGED Ledger!ledgerVars
  BY <1>1, <1>2 DEF LOwed
<1>3. ASSUME NEW b \in Bids, AddBid(b)
      PROVE  Ledger!Place(b)
  <2>1. LStatus[b] = "Absent" /\ LStatus' = [LStatus EXCEPT ![b] = "Pending"]
    BY <1>3 DEF AddBid, StoreInv, StoreTypeOK, LStatus
  <2>2. told' = told /\ LOwed' = LOwed
    BY <1>3 DEF AddBid, LOwed
  <2>. QED
    BY <2>1, <2>2 DEF Ledger!Place, LStatus, LOwed
<1>4. ASSUME NEW c \in Clients, NEW r \in Requests, Issue(c, {r}),
             UNCHANGED <<bidRow, auctionRow, pending, auctions, held, told, faults>>
      PROVE  UNCHANGED Ledger!ledgerVars
  <2>1. LOwed' = LOwed
    BY <1>4, OwedKept DEF Issue
  <2>. QED
    BY <1>1, <1>4, <2>1
<1>5. ASSUME NEW x \in calls, UpdateStep(x) \/ UpdateFault(x)
      PROVE  [Ledger!LedgerNext]_(Ledger!ledgerVars)
  <2>1. /\ x \in Calls /\ x.req.bid \in Bids /\ x.req.to \in Ledger!Statuses \ {"Pending"}
    BY LedgerStatuses DEF StoreInv, StoreTypeOK, Calls, Requests
  <2>2. CASE UpdateRow(x) /\ ~CanUpdate(bidRow[x.req.bid].status, x.req.to)
    <3>1. calls' = calls \ {x} /\ x.step = "query" /\ UNCHANGED <<bidRow, told>>
      BY <2>2 DEF UpdateRow
    <3>2. LOwed' = LOwed
      BY <3>1, OwedKept
    <3>. QED
      BY <1>1, <3>1, <3>2
  <2>3. CASE UpdateRow(x) /\ CanUpdate(bidRow[x.req.bid].status, x.req.to)
    <3> DEFINE z == [x EXCEPT !.step = "pending"]
    <3>1. /\ bidRow' = [bidRow EXCEPT ![x.req.bid] = RowAfter(x.req)]
          /\ calls' = (calls \ {x}) \cup {z} /\ x.step = "query" /\ told' = told
      BY <2>3 DEF UpdateRow
    <3>2. z.req = x.req /\ z.step = "pending"
      BY <2>1 DEF Calls
    <3>3. LOwed' = LOwed \cup {<<x.req.bid, x.req.to>>}
      <4> HIDE DEF z
      <4>. QED
        BY <3>1, <3>2 DEF LOwed
    <3>4. Ledger!Forward(x.req.bid, x.req.to)
      BY <2>3, <3>1, LedgerForward DEF StoreInv
    <3>5. Ledger!Record(x.req.bid, x.req.to)
      BY <3>1, <3>3, <3>4 DEF Ledger!Record, LOwed
    <3>. QED
      BY <2>1, <3>5 DEF Ledger!LedgerNext
  <2>4. CASE ForgetPending(x)
    <3> DEFINE z == [x EXCEPT !.step = "memory"]
    <3>1. calls' = (calls \ {x}) \cup {z} /\ x.step = "pending" /\ UNCHANGED <<bidRow, told>>
      BY <2>4 DEF ForgetPending
    <3>2. z.req = x.req /\ z.step = "memory"
      BY <2>1 DEF Calls
    <3>3. LOwed' = LOwed
      <4> HIDE DEF z
      <4>. QED
        BY <3>1, <3>2, OwedKept
    <3>. QED
      BY <1>1, <3>1, <3>3
  <2>5. CASE UpdateMemory(x)
    <3>1. /\ calls' = calls \ {x} /\ x.step = "memory" /\ bidRow' = bidRow
          /\ told' = told \cup {<<x.req.bid, x.req.to>>}
      BY <2>5 DEF UpdateMemory
    <3>2. <<x.req.bid, x.req.to>> \in LOwed /\ <<x.req.bid, x.req.to>> \notin told
      BY <3>1 DEF LOwed, StoreInv, AppliedCalls
    <3>3. LOwed' = LOwed \ {<<x.req.bid, x.req.to>>}
      <4>1. \A y \in calls : y.step # "query" /\ <<y.req.bid, y.req.to>> = <<x.req.bid, x.req.to>> => y = x
        BY <3>1 DEF StoreInv, AppliedCalls
      <4>2. LOwed' \subseteq LOwed \ {<<x.req.bid, x.req.to>>}
        BY <3>1, <4>1 DEF LOwed
      <4>3. LOwed \ {<<x.req.bid, x.req.to>>} \subseteq LOwed'
        BY <3>1 DEF LOwed
      <4>. QED
        BY <4>2, <4>3
    <3>4. Ledger!Tell(x.req.bid, x.req.to)
      BY <3>1, <3>2, <3>3 DEF Ledger!Tell, LOwed
    <3>. QED
      BY <2>1, <3>4 DEF Ledger!LedgerNext
  <2>6. CASE QueryFails(x)
    <3>1. calls' = calls \ {x} /\ x.step = "query" /\ UNCHANGED <<bidRow, told>>
      BY <2>6 DEF QueryFails
    <3>2. LOwed' = LOwed
      BY <3>1, OwedKept
    <3>. QED
      BY <1>1, <3>1, <3>2
  <2>7. CASE AnswerLost(x)
    <3>1. /\ bidRow' = [bidRow EXCEPT ![x.req.bid] = RowAfter(x.req)]
          /\ calls' = calls \ {x} /\ x.step = "query" /\ told' = told
          /\ CanUpdate(bidRow[x.req.bid].status, x.req.to)
      BY <2>7 DEF AnswerLost
    <3>2. LOwed' = LOwed
      BY <3>1, OwedKept
    <3>3. Ledger!Forward(x.req.bid, x.req.to)
      BY <3>1, LedgerForward DEF StoreInv
    <3>4. Ledger!RecordSilently(x.req.bid, x.req.to)
      BY <3>1, <3>2, <3>3 DEF Ledger!RecordSilently, LOwed
    <3>. QED
      BY <2>1, <3>4 DEF Ledger!LedgerNext
  <2>. QED
    BY <1>5, <2>2, <2>3, <2>4, <2>5, <2>6, <2>7 DEF UpdateStep, UpdateFault
<1>6. CASE UNCHANGED storeVars
  BY <1>2, <1>6 DEF storeVars
<1>7. CASE \E c \in Clients :
             \/ AddAuctionRow(c) \/ AddAuctionMemory(c)
             \/ SubmitAuctionRow(c) \/ SubmitAuctionMemory(c)
  BY <1>2, <1>7 DEF AddAuctionRow, AddAuctionMemory, SubmitAuctionRow, SubmitAuctionMemory
<1>8. CASE \E a \in Auctions : ConcludeAuction(a)
  BY <1>2, <1>8 DEF ConcludeAuction
<1>. QED
  BY <1>2, <1>3, <1>4, <1>5, <1>6, <1>7, <1>8 DEF StoreNext, Ledger!LedgerNext

LEMMA LedgerStart == StoreInit => Ledger!LedgerInit
  BY DEF StoreInit, Ledger!LedgerInit

\* The repository implements the ledger: every step of it is a step of the
\* ledger or changes nothing there, whoever calls it and whatever fails.
THEOREM StoreImplementsLedger == StoreSpec => LedgerImplemented
  BY StoreInvariant, LedgerStart, LedgerStep, PTL
  DEF StoreSpec, LedgerImplemented, Ledger!LedgerSpec

=============================================================================
