--------------------------- MODULE ConclusionProofs ---------------------------
(***************************************************************************)
(* The services on top of the repository do to it what any client may do,  *)
(* and some things at once: a step of a service is a step of the store, a  *)
(* set of calls, or a failure.  Such steps keep the invariant of the store *)
(* and are steps of its ledger; the steps of the conclusion are of these.  *)
(***************************************************************************)
EXTENDS Conclusion, BidStoreProofs

\* A call of update_bid_status that a client may make: it names the auction of
\* the status, and that auction has a row.
MayAsk(x) ==
  /\ x \in [client : Clients, req : Requests, step : {"query"}]
  /\ WellFormed(x.req)
  /\ x.req.auction # NoAuction => auctionRow[x.req.auction].inserted

\* Several such calls begin, of one client or more.
Asks ==
  /\ \A x \in calls' \ calls : MayAsk(x)
  /\ calls \subseteq calls'
  /\ UNCHANGED <<bidRow, auctionRow, pending, auctions, held, told, faults>>

\* A database call on an auction fails, with its row changed or not, and the
\* client goes on with the value it has.
Fails ==
  /\ faults < MaxFaults
  /\ faults' = faults + 1
  /\ \/ UNCHANGED auctionRow
     \/ \E a \in Auctions : auctionRow' = [auctionRow EXCEPT ![a].submitted = TRUE]
  /\ UNCHANGED <<bidRow, pending, auctions, held, calls, told>>

\* A client reads an auction from memory again.
Rereads ==
  /\ \E c \in Clients, a \in Auctions : ReadAuction(c, a)
  /\ UNCHANGED <<bidRow, auctionRow, pending, auctions, calls, told, faults>>

\* The future of a client is dropped, with its call wherever that is.
CutShort(c) ==
  /\ faults < MaxFaults
  /\ faults' = faults + 1
  /\ calls' = {x \in calls : x.client # c}
  /\ DropAuction(c)
  /\ UNCHANGED <<bidRow, auctionRow, pending, auctions, told>>

\* What a service does to the store in one step, if it does anything.
ServiceNext ==
  \/ StoreNext
  \/ Asks
  \/ Fails
  \/ Rereads
  \/ \E c \in Clients : CutShort(c)

-----------------------------------------------------------------------------
\* The steps of services keep the invariant of the store.

LEMMA AsksInv == StoreInv /\ Asks => StoreInv'
<1> SUFFICES ASSUME StoreInv, Asks PROVE StoreInv'
  OBVIOUS
<1> USE DEF StoreInv
<1>1. StoreTypeOK'
  BY DEF Asks, MayAsk, StoreTypeOK, Calls
<1>2. \A x \in calls' : x.step # "query" => x \in calls
  BY DEF Asks, MayAsk
<1>3. AppliedCalls'
  BY <1>2 DEF Asks, AppliedCalls
<1>. QED
  BY <1>1, <1>3 DEF Asks, PendingPlaced, HeldNeverAhead, MemoryNeverAhead, ToldIsRecorded

LEMMA FailsInv == StoreInv /\ Fails => StoreInv'
<1> SUFFICES ASSUME StoreInv, Fails PROVE StoreInv'
  OBVIOUS
<1> USE DEF StoreInv
<1>1. auctionRow' \in [Auctions -> [inserted : BOOLEAN, submitted : BOOLEAN, concluded : BOOLEAN]]
  <2>1. ASSUME NEW a \in Auctions
        PROVE  [auctionRow[a] EXCEPT !.submitted = TRUE]
                 \in [inserted : BOOLEAN, submitted : BOOLEAN, concluded : BOOLEAN]
    BY DEF StoreTypeOK
  <2>. QED
    BY <2>1 DEF Fails, StoreTypeOK
<1>2. faults' \in 0..MaxFaults
  BY BidStoreAssumption DEF Fails, StoreTypeOK
<1>3. StoreTypeOK'
  BY <1>1, <1>2 DEF Fails, StoreTypeOK
<1>. QED
  BY <1>3 DEF Fails, PendingPlaced, HeldNeverAhead, MemoryNeverAhead, ToldIsRecorded, AppliedCalls

LEMMA CutShortInv ==
  ASSUME StoreInv, NEW c \in Clients, CutShort(c)
  PROVE  StoreInv'
<1> USE DEF StoreInv
<1>1. NothingHeld \in HeldValues
  BY DEF NothingHeld, HeldValues, HeldSteps, Vacant, Values, RowStatuses
<1>2. faults' \in 0..MaxFaults
  BY BidStoreAssumption DEF CutShort, StoreTypeOK
<1>3. StoreTypeOK'
  BY <1>1, <1>2 DEF CutShort, DropAuction, StoreTypeOK
<1>4. HeldNeverAhead'
  BY <1>1 DEF CutShort, DropAuction, StoreTypeOK, HeldNeverAhead, NothingHeld, Vacant
<1>5. AppliedCalls'
  BY DEF CutShort, AppliedCalls
<1>. QED
  BY <1>3, <1>4, <1>5 DEF CutShort, PendingPlaced, MemoryNeverAhead, ToldIsRecorded

LEMMA ServiceNextInv == StoreInv /\ [ServiceNext]_storeVars => StoreInv'
<1>1. StoreInv /\ Rereads => StoreInv'
  BY ReadAuctionInv DEF Rereads
<1>. QED
  BY <1>1, StoreNextInv, AsksInv, FailsInv, CutShortInv DEF ServiceNext

-----------------------------------------------------------------------------
\* The rows stay readable and concluded auctions out of memory.

\* A client that has an auction as it was in memory can name it in a call.
HeldInserted ==
  \A c \in Clients :
    held[c].step \in {"ready", "submitted"} => auctionRow[held[c].id].inserted

ServiceInv == StoreInv /\ ReadableInv /\ HeldInserted

LEMMA ServiceStart == StoreInit => ServiceInv
<1>1. StoreInit => HeldInserted
  BY DEF StoreInit, HeldInserted, NothingHeld
<1>. QED
  BY <1>1, StoreInitInv, ReadableInitInv DEF ServiceInv

LEMMA ReadableServiceInv ==
  ASSUME ReadableInv, StoreTypeOK', [ServiceNext]_storeVars
  PROVE  ReadableInv'
<1> USE BidStoreAssumption DEF ReadableInv
<1>1. CASE [StoreNext]_storeVars
  BY <1>1, ReadableNextInv
<1>2. CASE Asks
  <2>1. CallsNamed'
    BY <1>2 DEF Asks, MayAsk, CallsNamed
  <2>. QED
    BY <1>2, <2>1 DEF Asks, RowReadable, FreshAuctions, ConcludedStaysOut, InMemory
<1>3. CASE Fails
  <2>1. \A a \in Auctions : /\ auctionRow'[a].inserted = auctionRow[a].inserted
                            /\ auctionRow'[a].concluded = auctionRow[a].concluded
    BY <1>3 DEF Fails, StoreTypeOK
  <2>2. CallsNamed' /\ RowReadable' /\ ConcludedStaysOut'
    BY <1>3, <2>1 DEF Fails, CallsNamed, RowReadable, ConcludedStaysOut, InMemory,
                      StoreTypeOK, Calls, Requests
  <2>3. FreshAuctions'
    BY <1>3, <2>1 DEF Fails, FreshAuctions, InMemory
  <2>. QED
    BY <2>2, <2>3
<1>4. CASE Rereads
  <2>1. PICK c \in Clients, a \in Auctions : ReadAuction(c, a)
    BY <1>4 DEF Rereads
  <2>2. /\ held'[c].step = "ready" /\ held'[c].id = a
        /\ \A d \in Clients : d # c => held'[d] = held[d]
    BY <2>1 DEF ReadAuction, StoreTypeOK
  <2>3. FreshAuctions'
    BY <1>4, <2>2 DEF Rereads, FreshAuctions, InMemory
  <2>. QED
    BY <1>4, <2>3 DEF Rereads, CallsNamed, RowReadable, ConcludedStaysOut, InMemory
<1>5. ASSUME NEW c \in Clients, CutShort(c) PROVE ReadableInv'
  <2>1. /\ held'[c].step = "none"
        /\ \A d \in Clients : d # c => held'[d] = held[d]
    BY <1>5 DEF CutShort, DropAuction, NothingHeld, StoreTypeOK
  <2>2. FreshAuctions'
    BY <1>5, <2>1 DEF CutShort, FreshAuctions, InMemory
  <2>. QED
    BY <1>5, <2>2 DEF CutShort, CallsNamed, RowReadable, ConcludedStaysOut, InMemory
<1>. QED
  BY <1>1, <1>2, <1>3, <1>4, <1>5 DEF ServiceNext

\* No step takes an auction out of its table.
LEMMA InsertedStays ==
  ASSUME StoreTypeOK, [ServiceNext]_storeVars
  PROVE  \A a \in Auctions : auctionRow[a].inserted => auctionRow'[a].inserted
<1>1. ASSUME NEW c \in Clients, AddAuctionRow(c) \/ SubmitAuctionRow(c)
      PROVE  \A a \in Auctions : auctionRow[a].inserted => auctionRow'[a].inserted
  BY <1>1 DEF AddAuctionRow, SubmitAuctionRow, StoreTypeOK
<1>2. ASSUME NEW a \in Auctions, ConcludeAuction(a)
      PROVE  \A b \in Auctions : auctionRow[b].inserted => auctionRow'[b].inserted
  BY <1>2 DEF ConcludeAuction, StoreTypeOK
<1>3. CASE Fails
  BY <1>3 DEF Fails, StoreTypeOK
<1>. QED
  BY <1>1, <1>2, <1>3
  DEF ServiceNext, StoreNext, Asks, Rereads, CutShort, AddBid, AddAuctionMemory, SubmitAuctionMemory,
      UpdateStep, UpdateFault, UpdateRow, ForgetPending, UpdateMemory, QueryFails, AnswerLost, storeVars

LEMMA HeldServiceInv ==
  ASSUME ReadableInv, StoreTypeOK', HeldInserted, [ServiceNext]_storeVars
  PROVE  HeldInserted'
<1> USE DEF ReadableInv
<1> SUFFICES ASSUME NEW c \in Clients, held'[c].step \in {"ready", "submitted"}
             PROVE  auctionRow'[held'[c].id].inserted
  BY DEF HeldInserted
<1>1. \A a \in Auctions : auctionRow[a].inserted => auctionRow'[a].inserted
  BY InsertedStays
<1>2. held[c].step # "none" => held[c].id \in Auctions
  BY DEF FreshAuctions
<1>3. CASE held'[c] = held[c]
  BY <1>1, <1>2, <1>3 DEF HeldInserted
<1>4. CASE held'[c].id = held[c].id /\ held[c].step \in {"inserted", "ready", "submitted"}
  BY <1>1, <1>2, <1>4 DEF HeldInserted, FreshAuctions
<1>5. CASE held'[c].id \in Auctions /\ InMemory(held'[c].id)
  BY <1>1, <1>5 DEF FreshAuctions
<1>6. ASSUME NEW d \in Clients,
             \/ \E a \in Auctions, bs \in SUBSET Bids, h \in BOOLEAN : TryNew(d, a, bs, h)
             \/ AddAuctionRow(d)
             \/ DropAuction(d)
      PROVE  held'[c] = held[c]
  BY <1>6 DEF TryNew, AddAuctionRow, DropAuction, NothingHeld, StoreTypeOK, HeldValues
<1>7. ASSUME NEW d \in Clients, AddAuctionMemory(d) \/ SubmitAuctionRow(d) \/ SubmitAuctionMemory(d)
      PROVE  \/ held'[c] = held[c]
             \/ held'[c].id = held[c].id /\ held[c].step \in {"inserted", "ready", "submitted"}
  BY <1>7 DEF AddAuctionMemory, SubmitAuctionRow, SubmitAuctionMemory, StoreTypeOK, HeldValues
<1>8. ASSUME NEW d \in Clients, NEW a \in Auctions, ReadAuction(d, a)
      PROVE  held'[c] = held[c] \/ (held'[c].id \in Auctions /\ InMemory(held'[c].id))
  BY <1>8 DEF ReadAuction, StoreTypeOK
<1>. QED
  BY <1>3, <1>4, <1>5, <1>6, <1>7, <1>8
  DEF ServiceNext, StoreNext, Asks, Fails, Rereads, CutShort, AddBid, ConcludeAuction,
      UpdateStep, UpdateFault, UpdateRow, ForgetPending, UpdateMemory, QueryFails, AnswerLost, storeVars

LEMMA ServiceKeeps == ServiceInv /\ [ServiceNext]_storeVars => ServiceInv'
<1>1. StoreInv' => StoreTypeOK'
  BY DEF StoreInv
<1>. QED
  BY <1>1, ServiceNextInv, ReadableServiceInv, HeldServiceInv DEF ServiceInv

-----------------------------------------------------------------------------
\* Pending bids are open for services, too.

LEMMA PendingServiceInv ==
  ASSUME StoreTypeOK, PendingIsOpen, [ServiceNext]_storeVars
  PROVE  PendingIsOpen'
<1>1. CASE Asks \/ Rereads
  BY <1>1 DEF Asks, Rereads, PendingIsOpen
<1>2. ASSUME Fails \/ \E c \in Clients : CutShort(c)
      PROVE  PendingIsOpen'
  BY <1>2 DEF Fails, CutShort, PendingIsOpen, StoreTypeOK
<1>. QED
  BY <1>1, <1>2, PendingOpenKept DEF ServiceNext

-----------------------------------------------------------------------------
\* The steps of services are steps of the ledger.

LEMMA ServiceLedger ==
  StoreInv /\ [ServiceNext]_storeVars => [Ledger!LedgerNext]_(Ledger!ledgerVars)
<1> SUFFICES ASSUME StoreInv, [ServiceNext]_storeVars
             PROVE  [Ledger!LedgerNext]_(Ledger!ledgerVars)
  OBVIOUS
<1>1. CASE [StoreNext]_storeVars
  BY <1>1, LedgerStep
<1>2. ASSUME UNCHANGED <<bidRow, told>>, LOwed' = LOwed
      PROVE  UNCHANGED Ledger!ledgerVars
  BY <1>2 DEF Ledger!ledgerVars, LOwed
<1>3. CASE Asks
  <2>1. LOwed' = LOwed
    BY <1>3, OwedKept DEF Asks, MayAsk
  <2>. QED
    BY <1>2, <1>3, <2>1 DEF Asks
<1>4. CASE Fails \/ Rereads
  BY <1>2, <1>4 DEF Fails, Rereads, LOwed
<1>5. ASSUME NEW c \in Clients, CutShort(c)
      PROVE  Ledger!LedgerNext
  <2>1. LOwed' \subseteq LOwed
    BY <1>5 DEF CutShort, LOwed
  <2>2. PICK S \in SUBSET LOwed : LOwed' = LOwed \ S
    <3>1. LOwed' = LOwed \ (LOwed \ LOwed')
      BY <2>1
    <3>. QED
      BY <3>1
  <2>3. Ledger!Forget(S)
    BY <1>5, <2>2 DEF CutShort, Ledger!Forget, LOwed
  <2>. QED
    BY <2>3 DEF Ledger!LedgerNext, LOwed
<1>. QED
  BY <1>1, <1>3, <1>4, <1>5, <1>2 DEF ServiceNext

-----------------------------------------------------------------------------
\* The steps of the conclusion.

\* A task of the conclusion asks for updates of bids in auctions in memory, or
\* for their loss.
LEMMA ConclusionAsks ==
  ASSUME ServiceInv, NEW c \in Clients, NEW R, Issue(c, R),
         \A r \in R : /\ r \in Requests /\ WellFormed(r)
                      /\ r.auction # NoAuction => InMemory(r.auction),
         UNCHANGED <<bidRow, auctionRow, pending, auctions, held, told, faults>>
  PROVE  Asks
<1>1. \A a \in Auctions : InMemory(a) => auctionRow[a].inserted
  BY DEF ServiceInv, ReadableInv, FreshAuctions
<1>2. ASSUME NEW x \in [client : {c}, req : R, step : {"query"}]
      PROVE  MayAsk(x)
  BY <1>1 DEF MayAsk, Requests
<1>. QED
  BY <1>2 DEF Issue, Asks

LEMMA ConclusionClients ==
  /\ \A a \in Auctions : Loop(a) \in Clients
  /\ \A b \in Bids : LogTask(b) \in Clients
  BY ConclusionAssumption

LEMMA ConclusionIsService ==
  ASSUME ServiceInv, ConclusionNext
  PROVE  [ServiceNext]_storeVars
<1> USE BidStoreAssumption, ConclusionClients
<1>1. StoreTypeOK
  BY DEF ServiceInv, StoreInv
<1>2. \A a \in Auctions : OpenBids(a) \subseteq Bids /\ auctions[a].bids \subseteq Bids
  BY <1>1 DEF OpenBids, StoreTypeOK, Values
<1>3. ASSUME NEW a \in Auctions, Poll(a)
      PROVE  Asks
  <2>1. CASE Issue(Loop(a), BidResults(a))
    <3>1. ASSUME NEW r \in BidResults(a)
          PROVE  r \in Requests /\ WellFormed(r) /\ r.auction = a
      BY <1>2, <3>1 DEF BidResults, Outcome, Requests, WellFormed, Statuses
    <3>. QED
      BY <1>3, <2>1, <3>1, ConclusionAsks DEF Poll
  <2>2. CASE Issue(Loop(a), [bid : auctions[a].bids, to : {"Lost"}, auction : {NoAuction}])
    <3>1. ASSUME NEW r \in [bid : auctions[a].bids, to : {"Lost"}, auction : {NoAuction}]
          PROVE  r \in Requests /\ WellFormed(r) /\ r.auction = NoAuction
      BY <1>2 DEF Requests, WellFormed, Statuses
    <3>. QED
      BY <1>3, <2>2, <3>1, ConclusionAsks DEF Poll
  <2>. QED
    BY <1>3, <2>1, <2>2 DEF Poll
<1>4. ASSUME NEW a \in Auctions, Refetch(a) \/ RefetchFails(a)
      PROVE  [ServiceNext]_storeVars
  BY <1>4 DEF Refetch, RefetchFails, ServiceNext, StoreNext, Fails
<1>5. ASSUME NEW b \in Bids, HandleLog(b)
      PROVE  Asks
  <2> DEFINE as == {a \in Auctions : b \in auctions[a].bids}
  <2>1. Issue(LogTask(b), [bid : {b}, to : {Outcome(b)}, auction : as])
    BY <1>5 DEF HandleLog
  <2>2. ASSUME NEW r \in [bid : {b}, to : {Outcome(b)}, auction : as]
        PROVE  r \in Requests /\ WellFormed(r) /\ InMemory(r.auction)
    BY DEF Outcome, Requests, WellFormed, Statuses, InMemory
  <2>. QED
    BY <1>5, <2>1, <2>2, ConclusionAsks DEF HandleLog
<1>6. ASSUME NEW a \in Auctions, LoopEnds(a) \/ Expire(a)
      PROVE  UNCHANGED storeVars
  BY <1>6 DEF LoopEnds, Expire
<1>7. ASSUME NEW b \in Bids, LoseLog(b) \/ Retry(b) \/ FallDue(b) \/ \E r \in {"ok", "err"} : Land(b, r)
      PROVE  UNCHANGED storeVars
  BY <1>7 DEF LoseLog, Retry, FallDue, Land
<1>. QED
  BY <1>3, <1>4, <1>5, <1>6, <1>7 DEF ConclusionNext, Polled, Logged, ServiceNext

-----------------------------------------------------------------------------
\* What the loops, the logs, the chain and the ages are.

WorldTypeOK ==
  /\ loop \in [Auctions -> {"off", "wait", "update"}]
  /\ logs \subseteq Bids
  /\ logging \in [Bids -> SUBSET Auctions]
  /\ chain \in [Bids -> {"unsent", "retrying", "sent", "ok", "err"}]
  /\ age \in [Bids -> {"new", "due", "aged"}]
  /\ overdue \subseteq Auctions

LEMMA WorldStart == ConclusionInit => WorldTypeOK
  BY DEF ConclusionInit, WorldTypeOK

LEMMA SentWorld ==
  ASSUME WorldTypeOK, NEW bs, NEW taken, SendTransactions(bs, taken)
  PROVE  chain' \in [Bids -> {"unsent", "retrying", "sent", "ok", "err"}]
  BY DEF WorldTypeOK, SendTransactions

LEMMA ConclusionWorld ==
  ASSUME WorldTypeOK, ConclusionNext
  PROVE  WorldTypeOK'
<1>1. ASSUME NEW a \in Auctions, Poll(a) \/ Polled(a) \/ LoopEnds(a)
      PROVE  WorldTypeOK'
  BY <1>1 DEF Poll, Polled, LoopEnds, worldVars, WorldTypeOK
<1>2. ASSUME NEW a \in Auctions, Expire(a)
      PROVE  WorldTypeOK'
  BY <1>2 DEF Expire, concludeVars, WorldTypeOK
<1>3. ASSUME NEW b \in Bids, HandleLog(b) \/ LoseLog(b)
      PROVE  WorldTypeOK'
  BY <1>3 DEF HandleLog, LoseLog, worldVars, WorldTypeOK
<1>4. ASSUME NEW b \in Bids, NEW a \in Auctions, Logged(b, a)
      PROVE  WorldTypeOK'
  BY <1>4 DEF Logged, worldVars, WorldTypeOK
<1>5. ASSUME NEW b \in Bids, Retry(b) \/ FallDue(b) \/ \E r \in {"ok", "err"} : Land(b, r)
      PROVE  WorldTypeOK'
  BY <1>5 DEF Retry, FallDue, Land, concludeVars, WorldTypeOK
<1>. QED
  BY <1>1, <1>2, <1>3, <1>4, <1>5 DEF ConclusionNext

LEMMA ConclusionTypes == ConclusionTypeOK <=> StoreTypeOK /\ WorldTypeOK
  BY DEF ConclusionTypeOK, WorldTypeOK

=============================================================================
