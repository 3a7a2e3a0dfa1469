-------------------------- MODULE ServerAuctionProofs --------------------------
(***************************************************************************)
(* The handlers of server auctions, with the conclusion of their auctions, *)
(* keep what the repository and the lock map promise, and put no bid in    *)
(* two auctions, for any bids, keys, auctions, handlers and failures.      *)
(***************************************************************************)
EXTENDS ServerAuction, ConclusionProofs

Exclusion == INSTANCE LockMapProofs WITH
  Keys <- PermissionKeys, Users <- Tasks, Droppable <- {}, NoUser <- NoTask

-----------------------------------------------------------------------------
\* The locks: handlers do to them what users of LockMap do.

LEMMA LockStart == ServerInit => Exclusion!LockInv
<1>1. ServerInit => Exclusion!LockInit
  BY DEF ServerInit, Lock!LockInit, Exclusion!LockInit
<1>. QED
  BY <1>1, ServerAuctionAssumption, Exclusion!LockInitInv DEF Exclusion!LockMapAssumption

LEMMA LocksUsed ==
  ASSUME [ServerNext]_serverVars
  PROVE  [Exclusion!LockNext]_Exclusion!lockVars
<1>1. ASSUME NEW t \in Tasks, NEW k \in PermissionKeys, HandleAuction(t, k)
      PROVE  Exclusion!LockNext
  BY <1>1 DEF HandleAuction, Lock!GetOrCreate, Exclusion!GetOrCreate, Lock!Unallocated,
              Exclusion!Unallocated, Exclusion!LockNext
<1>2. ASSUME NEW t \in Tasks, LockAuction(t)
      PROVE  Exclusion!LockNext
  BY <1>2 DEF LockAuction, Lock!Acquire, Exclusion!Acquire, Exclusion!LockNext
<1>3. ASSUME NEW t \in Tasks, UnlockAuction(t)
      PROVE  Exclusion!LockNext
  BY <1>3 DEF UnlockAuction, Lock!Leave, Exclusion!Leave, Exclusion!LockNext
<1>4. ASSUME NEW t \in Tasks, RemoveLock(t)
      PROVE  Exclusion!LockNext
  BY <1>4 DEF RemoveLock, Lock!Remove, Exclusion!Remove, Lock!OnlyMapRefers, Exclusion!OnlyMapRefers,
              Exclusion!LockNext
<1>5. ASSUME NEW t \in Tasks,
             \/ NotReady(t) \/ NoWinners(t)
             \/ \E a \in Auctions, ws \in SUBSET Bids : PickWinners(t, a, ws)
             \/ AddRow(t) \/ AddMemory(t)
             \/ \E ws \in SUBSET Bids : SubmitBids(t, ws)
             \/ SubmitRow(t) \/ SubmitMemory(t) \/ UpdateBids(t) \/ HandlerFault(t)
      PROVE  UNCHANGED Exclusion!lockVars
  BY <1>5 DEF NotReady, NoWinners, PickWinners, AddRow, AddMemory, SubmitBids, SubmitRow,
              SubmitMemory, UpdateBids, HandlerFault, AddRowFails, SubmitRowFails, taskVars, lockVars,
              Exclusion!lockVars
<1>6. ASSUME UNCHANGED taskVars
      PROVE  UNCHANGED Exclusion!lockVars
  BY <1>6 DEF taskVars, lockVars, Exclusion!lockVars
<1>7. ASSUME \/ \E b \in Bids : HandleBid(b) \/ OutlivePromptly(b)
             \/ \E x \in calls : Update(x) \/ Fault(x)
             \/ ConclusionNext /\ UNCHANGED taskVars
             \/ UNCHANGED serverVars
      PROVE  UNCHANGED taskVars
  BY <1>7 DEF HandleBid, OutlivePromptly, Update, Fault, serverVars
<1>. QED
  BY <1>1, <1>2, <1>3, <1>4, <1>5, <1>6, <1>7 DEF ServerNext, Handler

LEMMA LockStep ==
  ASSUME Exclusion!LockInv, [ServerNext]_serverVars
  PROVE  Exclusion!LockInv'
  BY LocksUsed, ServerAuctionAssumption, Exclusion!LockNextInv DEF Exclusion!LockMapAssumption

-----------------------------------------------------------------------------
\* The jobs of the handlers.

JobRecords == [at : {"none", "collect", "add", "send", "submit", "update", "done"}, winners : SUBSET Bids]

\* Where a handler is: it works while it holds the mutex, it has the auction it
\* added when it updates the bids.
Jobs ==
  /\ job \in [Tasks -> JobRecords]
  /\ \A t \in Tasks :
       /\ (job[t].at # "none") = (lockStep[t] = "critical")
       /\ job[t].at = "update" => held[t].step = "ready"

LEMMA TasksAreClients == Tasks \subseteq Clients
  BY ServerAuctionAssumption, ConclusionAssumption

\* What a step of the handlers, of an update or of the conclusion does to the
\* store is what services do.
LEMMA ServerIsService ==
  ASSUME ServiceInv, Jobs, [ServerNext]_serverVars
  PROVE  [ServiceNext]_storeVars
<1> USE TasksAreClients, BidStoreAssumption
<1>1. /\ StoreTypeOK /\ HeldInserted
      /\ \A c \in Clients : held[c].step # "none" => held[c].id \in Auctions
  BY DEF ServiceInv, StoreInv, ReadableInv, FreshAuctions
<1>2. ASSUME NEW t \in Tasks,
             \/ \E k \in PermissionKeys : HandleAuction(t, k)
             \/ LockAuction(t) \/ NotReady(t) \/ RemoveLock(t)
             \/ \E ws \in SUBSET Bids : SubmitBids(t, ws)
      PROVE  UNCHANGED storeVars
  BY <1>2 DEF HandleAuction, LockAuction, NotReady, RemoveLock, SubmitBids
<1>3. ASSUME NEW t \in Tasks, NoWinners(t)
      PROVE  Asks
  <2>1. \A r \in [bid : PendingOf(lockKey[t]), to : {"Lost"}, auction : {NoAuction}] :
          r \in Requests /\ WellFormed(r) /\ r.auction = NoAuction
    BY <1>1 DEF PendingOf, Requests, WellFormed, Statuses, StoreTypeOK
  <2>. QED
    BY <1>3, <2>1, ConclusionAsks DEF NoWinners
<1>4. ASSUME NEW t \in Tasks, NEW a \in Auctions, NEW ws \in SUBSET Bids, PickWinners(t, a, ws)
      PROVE  StoreNext
  <2>1. PendingOf(lockKey[t]) \in SUBSET Bids
    BY <1>1 DEF PendingOf, StoreTypeOK
  <2>. QED
    BY <1>4, <2>1 DEF PickWinners, StoreNext
<1>5. ASSUME NEW t \in Tasks, AddRow(t) \/ AddMemory(t) \/ SubmitRow(t) \/ SubmitMemory(t)
      PROVE  StoreNext
  BY <1>5 DEF AddRow, AddMemory, SubmitRow, SubmitMemory, StoreNext
<1>6. ASSUME NEW t \in Tasks, UpdateBids(t)
      PROVE  Asks
  <2> DEFINE R == {[bid |-> b, to |-> NewStatus(b, job[t].winners), auction |-> held[t].id] :
                     b \in held[t].value.bids}
  <2>1. held[t].step = "ready" /\ held[t].id \in Auctions /\ auctionRow[held[t].id].inserted
    BY <1>1, <1>6 DEF UpdateBids, Jobs, HeldInserted
  <2>2. held[t].value.bids \subseteq Bids
    BY <1>1 DEF StoreTypeOK, HeldValues, Values
  <2>3. ASSUME NEW r \in R
        PROVE  r \in Requests /\ WellFormed(r) /\ r.auction = held[t].id
    BY <2>1, <2>2 DEF NewStatus, Requests, WellFormed, Statuses
  <2>4. ASSUME NEW x \in [client : {t}, req : R, step : {"query"}]
        PROVE  MayAsk(x)
    BY <2>1, <2>3 DEF MayAsk
  <2>. QED
    BY <1>6, <2>4 DEF UpdateBids, Issue, Asks
<1>7. ASSUME NEW t \in Tasks, UnlockAuction(t)
      PROVE  StoreNext
  BY <1>7 DEF UnlockAuction, StoreNext
<1>8. ASSUME NEW t \in Tasks, HandlerFault(t)
      PROVE  Fails
  BY <1>1, <1>8 DEF HandlerFault, AddRowFails, SubmitRowFails, Fails
<1>9. ASSUME NEW b \in Bids, HandleBid(b) \/ OutlivePromptly(b)
      PROVE  [StoreNext]_storeVars
  BY <1>9 DEF HandleBid, OutlivePromptly, Outlive, StoreNext
<1>10. ASSUME NEW x \in calls, Update(x) \/ Fault(x)
       PROVE  StoreNext
  BY <1>10 DEF Update, Fault, StoreNext
<1>11. CASE UNCHANGED serverVars
  BY <1>11 DEF serverVars, conclusionVars
<1>. QED
  BY <1>2, <1>3, <1>4, <1>5, <1>6, <1>7, <1>8, <1>9, <1>10, <1>11, ConclusionIsService
  DEF ServerNext, Handler, ServiceNext

\* Handlers do not meddle with each other: a step of one leaves the job, the
\* place in the queue and the auction of the others alone.
LEMMA OthersUntouched ==
  ASSUME StoreTypeOK, Exclusion!LockTypeOK, Jobs,
         NEW t \in Tasks, Handler(t) \/ HandlerFault(t), NEW u \in Tasks \ {t}
  PROVE  job'[u] = job[u] /\ lockStep'[u] = lockStep[u] /\ lockKey'[u] = lockKey[u] /\ held'[u] = held[u]
<1> USE TasksAreClients DEF StoreTypeOK, Exclusion!LockTypeOK, Jobs
<1>1. CASE \/ \E k \in PermissionKeys : HandleAuction(t, k)
           \/ LockAuction(t) \/ RemoveLock(t)
  BY <1>1 DEF HandleAuction, LockAuction, RemoveLock, GoOn, storeVars,
              Lock!GetOrCreate, Lock!Acquire, Lock!Remove
<1>2. CASE UnlockAuction(t)
  BY <1>2 DEF UnlockAuction, DropAuction, Lock!Leave
<1>3. CASE NotReady(t) \/ NoWinners(t) \/ \E ws \in SUBSET Bids : SubmitBids(t, ws)
  BY <1>3 DEF NotReady, NoWinners, SubmitBids, GoOn, storeVars, lockVars
<1>4. CASE \E a \in Auctions, ws \in SUBSET Bids : PickWinners(t, a, ws)
  BY <1>4 DEF PickWinners, TryNew, lockVars
<1>5. CASE AddRow(t) \/ AddMemory(t)
  BY <1>5 DEF AddRow, AddMemory, AddAuctionRow, AddAuctionMemory, GoOn, lockVars, taskVars
<1>6. CASE SubmitRow(t) \/ SubmitMemory(t) \/ UpdateBids(t)
  BY <1>6 DEF SubmitRow, SubmitMemory, UpdateBids, SubmitAuctionRow, SubmitAuctionMemory, GoOn, lockVars
<1>7. CASE HandlerFault(t)
  BY <1>7 DEF HandlerFault, AddRowFails, SubmitRowFails, GoOn, lockVars
<1>. QED
  BY <1>1, <1>2, <1>3, <1>4, <1>5, <1>6, <1>7 DEF Handler

\* Everything else leaves the handlers and their auctions alone.
LEMMA HandlersUntouched ==
  ASSUME \/ \E b \in Bids : HandleBid(b) \/ OutlivePromptly(b)
         \/ \E x \in calls : Update(x) \/ Fault(x)
         \/ ConclusionNext /\ UNCHANGED taskVars
         \/ UNCHANGED serverVars
  PROVE  UNCHANGED <<job, lockStep, lockKey, held>>
<1>1. UNCHANGED taskVars => UNCHANGED <<job, lockStep, lockKey>>
  BY DEF taskVars, lockVars
<1>2. CASE \E b \in Bids : HandleBid(b) \/ OutlivePromptly(b)
  BY <1>1, <1>2 DEF HandleBid, OutlivePromptly, Outlive, AddBid, storeVars
<1>3. CASE \E x \in calls : Update(x) \/ Fault(x)
  BY <1>1, <1>3 DEF Update, Fault, UpdateStep, UpdateFault, UpdateRow, ForgetPending, UpdateMemory,
                    QueryFails, AnswerLost
<1>4. CASE ConclusionNext /\ UNCHANGED taskVars
  BY <1>1, <1>4 DEF ConclusionNext, Poll, Polled, LoopEnds, Expire, HandleLog, Logged, LoseLog, Retry,
                    FallDue, Land, Refetch, RefetchFails, ConcludeAuction, storeVars
<1>5. CASE UNCHANGED serverVars
  BY <1>1, <1>5 DEF serverVars, conclusionVars, storeVars
<1>. QED
  BY <1>2, <1>3, <1>4, <1>5

LEMMA GoesOn ==
  ASSUME Jobs, NEW t \in Tasks,
         NEW step \in {"collect", "send", "submit", "update", "done"}, GoOn(t, step)
  PROVE  job' \in [Tasks -> JobRecords] /\ job'[t].at = step
<1>1. [job[t] EXCEPT !.at = step] \in JobRecords /\ [job[t] EXCEPT !.at = step].at = step
  BY DEF Jobs, JobRecords
<1> DEFINE e == [job[t] EXCEPT !.at = step]
<1>2. job' = [job EXCEPT ![t] = e]
  BY DEF GoOn
<1> HIDE DEF e
<1>. QED
  BY <1>1, <1>2 DEF Jobs, JobRecords, e

\* The handler whose step it is keeps what Jobs says of it.
LEMMA OwnJobKept ==
  ASSUME StoreTypeOK, Exclusion!LockTypeOK, Jobs, NEW t \in Tasks, Handler(t) \/ HandlerFault(t)
  PROVE  /\ job' \in [Tasks -> JobRecords]
         /\ (job'[t].at # "none") = (lockStep'[t] = "critical")
         /\ job'[t].at = "update" => held'[t].step = "ready"
<1> USE TasksAreClients
<1>0. /\ job \in [Tasks -> JobRecords] /\ lockStep \in [Tasks -> {"idle", "wait", "critical", "leaving"}]
      /\ (job[t].at # "none") = (lockStep[t] = "critical")
      /\ job[t].at = "update" => held[t].step = "ready"
  BY DEF Jobs, JobRecords, Exclusion!LockTypeOK
<1>1. CASE (\E k \in PermissionKeys : HandleAuction(t, k)) \/ RemoveLock(t)
  <2>1. UNCHANGED <<job, held>> /\ lockStep[t] # "critical" /\ lockStep'[t] # "critical"
    BY <1>0, <1>1 DEF HandleAuction, RemoveLock, storeVars, Lock!GetOrCreate, Lock!Remove
  <2>. QED
    BY <1>0, <2>1
<1>2. CASE LockAuction(t)
  <2>1. GoOn(t, "collect") /\ lockStep'[t] = "critical"
    BY <1>0, <1>2 DEF LockAuction, Lock!Acquire
  <2>. QED
    BY <2>1, GoesOn
<1>3. CASE UnlockAuction(t)
  <2> DEFINE e == [at |-> "none", winners |-> {}]
  <2>1. job' = [job EXCEPT ![t] = e] /\ lockStep'[t] = "leaving"
    BY <1>0, <1>3 DEF UnlockAuction, Lock!Leave
  <2>2. e \in JobRecords /\ e.at = "none"
    BY DEF JobRecords
  <2> HIDE DEF e
  <2>. QED
    BY <1>0, <2>1, <2>2
<1>4. CASE \/ NotReady(t) \/ NoWinners(t) \/ UpdateBids(t) \/ HandlerFault(t)
  <2>1. GoOn(t, "done") /\ job[t].at # "none" /\ lockStep' = lockStep
    BY <1>4 DEF NotReady, NoWinners, UpdateBids, HandlerFault, AddRowFails, SubmitRowFails, lockVars
  <2>. QED
    BY <1>0, <2>1, GoesOn
<1>5. CASE \E ws \in SUBSET Bids : SubmitBids(t, ws)
  <2>1. GoOn(t, "submit") /\ job[t].at # "none" /\ lockStep' = lockStep
    BY <1>5 DEF SubmitBids, lockVars
  <2>. QED
    BY <1>0, <2>1, GoesOn
<1>6. CASE \E a \in Auctions, ws \in SUBSET Bids : PickWinners(t, a, ws)
  <2>1. PICK ws \in SUBSET Bids : /\ job' = [job EXCEPT ![t] = [at |-> "add", winners |-> ws]]
                                  /\ job[t].at # "none" /\ lockStep' = lockStep
    BY <1>6 DEF PickWinners, lockVars
  <2> DEFINE e == [at |-> "add", winners |-> ws]
  <2>2. e \in JobRecords /\ e.at = "add" /\ job' = [job EXCEPT ![t] = e]
    BY <2>1 DEF JobRecords
  <2> HIDE DEF e
  <2>. QED
    BY <1>0, <2>1, <2>2
<1>7. CASE AddRow(t)
  <2>1. UNCHANGED <<job, lockStep>> /\ job[t].at = "add"
    BY <1>7 DEF AddRow, taskVars, lockVars
  <2>. QED
    BY <1>0, <2>1
<1>8. CASE AddMemory(t)
  <2>1. GoOn(t, "send") /\ job[t].at # "none" /\ lockStep' = lockStep
    BY <1>8 DEF AddMemory, lockVars
  <2>. QED
    BY <1>0, <2>1, GoesOn
<1>9. CASE SubmitRow(t)
  <2>1. job[t].at = "submit" /\ lockStep' = lockStep
    BY <1>9 DEF SubmitRow, lockVars
  <2>2. CASE held'[t].step = "ready" /\ GoOn(t, "update")
    BY <1>0, <2>1, <2>2, GoesOn
  <2>3. CASE UNCHANGED job
    BY <1>0, <2>1, <2>3
  <2>. QED
    BY <1>9, <2>2, <2>3 DEF SubmitRow
<1>10. CASE SubmitMemory(t)
  <2>1. GoOn(t, "update") /\ job[t].at # "none" /\ lockStep' = lockStep
    BY <1>10 DEF SubmitMemory, lockVars
  <2>2. held'[t].step = "ready"
    BY <1>10 DEF SubmitMemory, SubmitAuctionMemory, StoreTypeOK, HeldValues
  <2>. QED
    BY <1>0, <2>1, <2>2, GoesOn
<1>. QED
  BY <1>1, <1>2, <1>3, <1>4, <1>5, <1>6, <1>7, <1>8, <1>9, <1>10 DEF Handler

LEMMA JobsKept ==
  ASSUME StoreTypeOK, Exclusion!LockTypeOK, Jobs, [ServerNext]_serverVars
  PROVE  Jobs'
<1>1. ASSUME NEW t \in Tasks, Handler(t) \/ HandlerFault(t)
      PROVE  Jobs'
  <2>1. \A u \in Tasks \ {t} : UNCHANGED <<job[u], lockStep[u], held[u]>>
    BY <1>1, OthersUntouched
  <2>. QED
    BY <1>1, <2>1, OwnJobKept DEF Jobs, JobRecords
<1>2. CASE UNCHANGED <<job, lockStep, lockKey, held>>
  BY <1>2 DEF Jobs
<1>. QED
  BY <1>1, <1>2, HandlersUntouched DEF ServerNext

-----------------------------------------------------------------------------
\* No bid is in two auctions.

\* A bid is in one place: among the pending bids, in an auction that a handler
\* is about to add, or in one that was added.  A handler has bids of the key
\* whose mutex it holds only, which is what keeps the handlers of other keys
\* away from them, and the mutex those of the same key.

Fresh(t) == held[t].step \in {"made", "inserted"}

HeldOfKey ==
  \A t \in Tasks : held[t].value.bids # {} =>
    /\ job[t].at # "none" /\ held[t].step # "none"
    /\ \A b \in held[t].value.bids : KeyOf[b] = lockKey[t]

HeldApart ==
  /\ \A t, u \in Tasks : t # u => held[t].value.bids \cap held[u].value.bids = {}
  /\ \A t, u \in Tasks :
       (t # u /\ held[t].step # "none" /\ held[u].step # "none") => held[t].id # held[u].id

HeldAndMemory ==
  \A t \in Tasks :
    /\ Fresh(t) => \A a \in Auctions : held[t].value.bids \cap auctions[a].bids = {}
    /\ held[t].step \in {"ready", "submitted"} =>
         (InMemory(held[t].id) => auctions[held[t].id].bids = held[t].value.bids)

MemoryApart ==
  \A a, c \in Auctions : a # c => auctions[a].bids \cap auctions[c].bids = {}

PendingApart == \A a \in Auctions : auctions[a].bids \cap pending = {}

\* Bids in auctions have rows, so that a new bid is none of them.
AllPlaced ==
  /\ \A a \in Auctions : \A b \in auctions[a].bids : bidRow[b].status # "Absent"
  /\ \A t \in Tasks : \A b \in held[t].value.bids : bidRow[b].status # "Absent"

Apart ==
  HeldOfKey /\ HeldApart /\ HeldAndMemory /\ MemoryApart /\ PendingApart /\ AllPlaced

LEMMA ApartStart == ServerInit => Apart
  BY TasksAreClients
  DEF ServerInit, ConclusionInit, StoreInit, NothingHeld, Vacant, Apart, HeldOfKey, HeldApart, Fresh,
      HeldAndMemory, MemoryApart, PendingApart, AllPlaced, InMemory

\* Steps that bring no bid anywhere: what handlers and memory have is as before
\* or gone.
LEMMA ApartShrinks ==
  ASSUME Apart,
         \A t \in Tasks : held[t].step # "none" => held[t].id \in Auctions,
         \A t \in Tasks :
           \/ held'[t] = NothingHeld
           \/ /\ held'[t].value.bids = held[t].value.bids /\ held'[t].id = held[t].id
              /\ Fresh(t)' => Fresh(t)
              /\ (held'[t].step = "none") = (held[t].step = "none")
              /\ held'[t].step \in {"ready", "submitted"} => held[t].step \in {"ready", "submitted"}
              /\ held[t].value.bids # {} => job'[t].at # "none" /\ lockKey'[t] = lockKey[t],
         \A a \in Auctions : auctions'[a].bids \in {auctions[a].bids, {}},
         pending' \subseteq pending,
         \A b \in Bids : bidRow[b].status # "Absent" => bidRow'[b].status # "Absent",
         \A a \in Auctions : auctions[a].bids \subseteq Bids,
         \A t \in Tasks : held[t].value.bids \subseteq Bids
  PROVE  Apart'
<1> USE DEF Apart, NothingHeld, Vacant
<1>1. HeldOfKey'
  BY DEF HeldOfKey
<1>2. HeldApart'
  BY DEF HeldApart
<1>3. HeldAndMemory'
  <2> SUFFICES ASSUME NEW t \in Tasks, held'[t] # NothingHeld
               PROVE  /\ Fresh(t)' => \A a \in Auctions : held'[t].value.bids \cap auctions'[a].bids = {}
                      /\ held'[t].step \in {"ready", "submitted"} =>
                           (InMemory(held[t].id)' => auctions'[held[t].id].bids = held'[t].value.bids)
    BY DEF HeldAndMemory, Fresh
  <2>1. Fresh(t)' => \A a \in Auctions : held'[t].value.bids \cap auctions'[a].bids = {}
    BY DEF HeldAndMemory
  <2>2. ASSUME held'[t].step \in {"ready", "submitted"}, auctions'[held[t].id].bids # {}
        PROVE  auctions'[held[t].id].bids = held'[t].value.bids
    <3>1. held[t].step \in {"ready", "submitted"} /\ held[t].id \in Auctions
      BY <2>2
    <3>2. auctions'[held[t].id].bids = auctions[held[t].id].bids
      BY <2>2, <3>1
    <3>. QED
      BY <2>2, <3>1, <3>2 DEF HeldAndMemory, InMemory
  <2>. QED
    BY <2>1, <2>2 DEF InMemory
<1>4. MemoryApart' /\ PendingApart'
  BY DEF MemoryApart, PendingApart
<1>5. AllPlaced'
  BY DEF AllPlaced
<1>. QED
  BY <1>1, <1>2, <1>3, <1>4, <1>5

\* A new bid is in no auction: it has no row yet.
LEMMA HandleBidApart ==
  ASSUME Apart, StoreTypeOK, NEW b \in Bids, HandleBid(b)
  PROVE  Apart'
<1>1. /\ bidRow[b].status = "Absent" /\ pending' = pending \cup {b}
      /\ UNCHANGED <<auctions, held, job, lockKey>>
      /\ \A d : d # b => (bidRow'[d].status = bidRow[d].status \/ d \notin Bids)
      /\ bidRow'[b].status = "Pending"
  BY DEF HandleBid, AddBid, StoreTypeOK, taskVars, lockVars
<1>2. /\ \A a \in Auctions : auctions[a].bids \subseteq Bids
      /\ \A t \in Tasks : held[t].value.bids \subseteq Bids
  BY TasksAreClients DEF StoreTypeOK, HeldValues, Values
<1>3. HeldOfKey' /\ HeldApart' /\ HeldAndMemory' /\ MemoryApart'
  BY <1>1 DEF Apart, HeldOfKey, HeldApart, HeldAndMemory, MemoryApart, Fresh, InMemory
<1>4. PendingApart'
  BY <1>1 DEF Apart, AllPlaced, PendingApart
<1>5. AllPlaced'
  BY <1>1, <1>2 DEF Apart, AllPlaced
<1>. QED
  BY <1>3, <1>4, <1>5 DEF Apart

\* The bids of a new auction are pending and of its handler's key: they are in
\* no auction, and no other handler of the key is at work.
LEMMA PickWinnersApart ==
  ASSUME Apart, Jobs, ServiceInv, Exclusion!LockInv,
         NEW t \in Tasks, NEW a \in Auctions, NEW ws \in SUBSET Bids, PickWinners(t, a, ws)
  PROVE  Apart'
<1> DEFINE bs == PendingOf(lockKey[t])
<1> USE TasksAreClients
<1>1. /\ held'[t].step = "made" /\ held'[t].id = a /\ held'[t].value.bids = bs
      /\ \A u \in Tasks \ {t} : held'[u] = held[u] /\ held[u].id # a /\ job'[u] = job[u]
      /\ job'[t].at = "add" /\ job[t].at = "collect"
      /\ UNCHANGED <<auctions, pending, bidRow, lockKey, lockStep>>
  BY DEF PickWinners, TryNew, ServiceInv, StoreInv, StoreTypeOK, Jobs, lockVars
<1>2. /\ bs \subseteq pending /\ \A b \in bs : KeyOf[b] = lockKey[t] /\ bidRow[b].status # "Absent"
  BY DEF PendingOf, ServiceInv, StoreInv, PendingPlaced
<1>3. ASSUME NEW u \in Tasks \ {t}
      PROVE  held[u].value.bids \cap bs = {}
  <2> SUFFICES ASSUME NEW b \in bs, b \in held[u].value.bids PROVE FALSE
    OBVIOUS
  <2>1. lockStep[u] = "critical" /\ lockKey[u] = KeyOf[b]
    BY DEF Apart, HeldOfKey, Jobs
  <2>2. lockStep[t] = "critical" /\ lockKey[t] = KeyOf[b]
    BY <1>1, <1>2 DEF Jobs
  <2>3. Exclusion!MutualExclusion
    BY ServerAuctionAssumption, Exclusion!InvExcludes DEF Exclusion!LockMapAssumption
  <2>. QED
    BY <2>1, <2>2, <2>3 DEF Exclusion!MutualExclusion
<1> HIDE DEF bs
<1>4. HeldOfKey'
  BY <1>1, <1>2 DEF Apart, HeldOfKey
<1>5. HeldApart'
  BY <1>1, <1>3 DEF Apart, HeldApart
<1>6. HeldAndMemory'
  BY <1>1, <1>2 DEF Apart, HeldAndMemory, PendingApart, Fresh, InMemory
<1>7. MemoryApart' /\ PendingApart' /\ AllPlaced'
  BY <1>1, <1>2 DEF Apart, MemoryApart, PendingApart, AllPlaced
<1>. QED
  BY <1>4, <1>5, <1>6, <1>7 DEF Apart

\* An auction that gets into memory takes its bids there from its handler and
\* from the pending ones.
LEMMA AddMemoryApart ==
  ASSUME Apart, Jobs, ServiceInv, NEW t \in Tasks, AddMemory(t)
  PROVE  Apart'
<1> USE TasksAreClients
<1> DEFINE bs == held[t].value.bids
           i == held[t].id
<1>1. /\ held[t].step = "inserted" /\ held'[t].step = "ready"
      /\ held'[t].value = held[t].value /\ held'[t].id = held[t].id
      /\ \A u \in Tasks \ {t} : held'[u] = held[u] /\ job'[u] = job[u]
      /\ job[t].at = "add" /\ job'[t].at = "send"
      /\ pending' = pending \ bs
      /\ UNCHANGED <<bidRow, lockKey, lockStep>>
  BY DEF AddMemory, AddAuctionMemory, GoOn, ServiceInv, StoreInv, StoreTypeOK, HeldValues, Jobs,
         JobRecords, lockVars
<1>2. i \in Auctions
  BY <1>1 DEF ServiceInv, ReadableInv, FreshAuctions
<1>3. auctions'[i].bids = bs /\ \A a \in Auctions \ {i} : auctions'[a] = auctions[a]
  BY <1>2 DEF AddMemory, AddAuctionMemory, ServiceInv, StoreInv, StoreTypeOK
<1>4. \A u \in Tasks \ {t} : held[u].value.bids \cap bs = {} /\ (held[u].step # "none" => held[u].id # i)
  BY <1>1 DEF Apart, HeldApart
<1>5. \A a \in Auctions : bs \cap auctions[a].bids = {}
  BY <1>1 DEF Apart, HeldAndMemory, Fresh
<1> HIDE DEF bs, i
<1>6. HeldOfKey' /\ HeldApart'
  BY <1>1 DEF Apart, HeldOfKey, HeldApart
<1>7. HeldAndMemory'
  <2>1. ASSUME NEW u \in Tasks \ {t}, Fresh(u)', NEW a \in Auctions
        PROVE  held'[u].value.bids \cap auctions'[a].bids = {}
    BY <1>1, <1>3, <1>4, <2>1 DEF Apart, HeldAndMemory, Fresh
  <2>2. ASSUME NEW u \in Tasks \ {t}, held'[u].step \in {"ready", "submitted"}, InMemory(held[u].id)'
        PROVE  auctions'[held'[u].id].bids = held'[u].value.bids
    <3>1. held[u].id \in Auctions \ {i}
      BY <1>1, <1>4, <2>2 DEF ServiceInv, ReadableInv, FreshAuctions
    <3>. QED
      BY <1>1, <1>3, <2>2, <3>1 DEF Apart, HeldAndMemory, InMemory
  <2>3. ~Fresh(t)' /\ auctions'[held'[t].id].bids = held'[t].value.bids
    BY <1>1, <1>3 DEF Fresh, bs, i
  <2>. QED
    BY <2>1, <2>2, <2>3 DEF HeldAndMemory
<1>8. MemoryApart' /\ PendingApart'
  BY <1>1, <1>3, <1>5 DEF Apart, MemoryApart, PendingApart
<1>9. AllPlaced'
  BY <1>1, <1>3 DEF Apart, AllPlaced, bs
<1>. QED
  BY <1>6, <1>7, <1>8, <1>9 DEF Apart

\* The handler's copy of its auction goes through the store: same bids, next
\* step.
LEMMA HeldGoesOn ==
  ASSUME StoreTypeOK, NEW t \in Tasks, AddRow(t) \/ SubmitRow(t) \/ SubmitMemory(t)
  PROVE  /\ held'[t].value.bids = held[t].value.bids /\ held'[t].id = held[t].id
         /\ Fresh(t)' => Fresh(t)
         /\ (held'[t].step = "none") = (held[t].step = "none")
         /\ held'[t].step \in {"ready", "submitted"} => held[t].step \in {"ready", "submitted"}
<1>0. t \in Clients /\ held \in [Clients -> HeldValues] /\ held[t] \in HeldValues
  BY TasksAreClients DEF StoreTypeOK
<1>1. CASE held' = held
  BY <1>1 DEF Fresh
<1>2. CASE held[t].step = "made" /\ held' = [held EXCEPT ![t].step = "inserted"]
  <2>1. held'[t] = [held[t] EXCEPT !.step = "inserted"]
    BY <1>0, <1>2
  <2>2. held'[t].value = held[t].value /\ held'[t].id = held[t].id /\ held'[t].step = "inserted"
    BY <1>0, <2>1 DEF HeldValues
  <2>. QED
    BY <1>2, <2>2 DEF Fresh
<1>3. CASE held[t].step = "submitted" /\ held' = [held EXCEPT ![t].step = "ready"]
  <2>1. held'[t] = [held[t] EXCEPT !.step = "ready"]
    BY <1>0, <1>3
  <2>2. held'[t].value = held[t].value /\ held'[t].id = held[t].id /\ held'[t].step = "ready"
    BY <1>0, <2>1 DEF HeldValues
  <2>. QED
    BY <1>3, <2>2 DEF Fresh
<1>4. CASE /\ held[t].step = "ready"
           /\ held' = [held EXCEPT ![t] = [step |-> "submitted", id |-> held[t].id,
                                         value |-> [held[t].value EXCEPT !.hashed = TRUE]]]
  <2>1. held'[t] = [step |-> "submitted", id |-> held[t].id,
                    value |-> [held[t].value EXCEPT !.hashed = TRUE]]
    BY <1>0, <1>4
  <2>2. held'[t].step = "submitted" /\ held'[t].id = held[t].id
        /\ held'[t].value = [held[t].value EXCEPT !.hashed = TRUE]
    BY <2>1
  <2>3. [held[t].value EXCEPT !.hashed = TRUE].bids = held[t].value.bids
    BY <1>0 DEF HeldValues, Values
  <2>. QED
    BY <1>4, <2>2, <2>3 DEF Fresh
<1>. QED
  BY <1>1, <1>2, <1>3, <1>4
  DEF AddRow, SubmitRow, SubmitMemory, AddAuctionRow, SubmitAuctionRow, SubmitAuctionMemory

\* The other steps of a handler bring no bid anywhere.
LEMMA HandlerShrinks ==
  ASSUME Apart, Jobs, ServiceInv, Exclusion!LockInv, NEW t \in Tasks, Handler(t) \/ HandlerFault(t),
         ~(\E a \in Auctions, ws \in SUBSET Bids : PickWinners(t, a, ws)), ~AddMemory(t)
  PROVE  Apart'
<1> USE TasksAreClients
<1>0. /\ StoreTypeOK /\ Exclusion!LockTypeOK
      /\ \A c \in Clients : held[c].step # "none" => held[c].id \in Auctions
      /\ \A a \in Auctions : auctions[a].bids \subseteq Bids
      /\ \A u \in Tasks : held[u].value.bids \subseteq Bids
  BY DEF ServiceInv, StoreInv, ReadableInv, FreshAuctions, Exclusion!LockInv, StoreTypeOK, HeldValues, Values
<1>1. \A u \in Tasks \ {t} : held'[u] = held[u] /\ job'[u] = job[u] /\ lockKey'[u] = lockKey[u]
  BY <1>0, OthersUntouched
<1>2. (job'[t].at # "none") = (lockStep'[t] = "critical")
  BY <1>0, OwnJobKept
<1>3. /\ pending' = pending /\ bidRow' = bidRow
      /\ \A a \in Auctions : auctions'[a].bids = auctions[a].bids
  <2>1. CASE SubmitMemory(t)
    <3>1. held[t].step = "submitted" /\ held[t].id \in Auctions
      BY <1>0, <2>1 DEF SubmitMemory, SubmitAuctionMemory
    <3>2. InMemory(held[t].id) => auctions[held[t].id].bids = held[t].value.bids
      BY <3>1 DEF Apart, HeldAndMemory
    <3>. QED
      BY <1>0, <2>1, <3>1, <3>2 DEF SubmitMemory, SubmitAuctionMemory, StoreTypeOK
  <2>2. CASE ~SubmitMemory(t)
    BY <2>2 DEF Handler, HandlerFault, HandleAuction, LockAuction, RemoveLock, UnlockAuction, NotReady,
                NoWinners, AddRow, SubmitBids, SubmitRow, UpdateBids, AddRowFails, SubmitRowFails,
                AddAuctionRow, SubmitAuctionRow, storeVars
  <2>. QED
    BY <2>1, <2>2
<1>4. \/ held'[t] = NothingHeld
      \/ /\ held'[t].value.bids = held[t].value.bids /\ held'[t].id = held[t].id
         /\ Fresh(t)' => Fresh(t)
         /\ (held'[t].step = "none") = (held[t].step = "none")
         /\ held'[t].step \in {"ready", "submitted"} => held[t].step \in {"ready", "submitted"}
  <2>1. CASE UnlockAuction(t)
    BY <1>0, <2>1 DEF UnlockAuction, DropAuction, StoreTypeOK
  <2>2. CASE AddRow(t) \/ SubmitRow(t) \/ SubmitMemory(t)
    BY <1>0, <2>2, HeldGoesOn
  <2>3. CASE ~(UnlockAuction(t) \/ AddRow(t) \/ SubmitRow(t) \/ SubmitMemory(t))
    <3>1. held' = held
      BY <2>3 DEF Handler, HandlerFault, HandleAuction, LockAuction, RemoveLock, NotReady, NoWinners,
                  SubmitBids, UpdateBids, AddRowFails, SubmitRowFails, storeVars
    <3>. QED
      BY <3>1 DEF Fresh
  <2>. QED
    BY <2>1, <2>2, <2>3
<1>5. held'[t] # NothingHeld /\ held[t].value.bids # {} => job'[t].at # "none" /\ lockKey'[t] = lockKey[t]
  <2> SUFFICES ASSUME held'[t] # NothingHeld, held[t].value.bids # {}
               PROVE  job'[t].at # "none" /\ lockKey'[t] = lockKey[t]
    OBVIOUS
  <2>1. lockStep[t] = "critical"
    BY DEF Apart, HeldOfKey, Jobs
  <2>2. ~UnlockAuction(t)
    BY <1>0 DEF UnlockAuction, DropAuction, StoreTypeOK
  <2>3. UNCHANGED <<lockStep, lockKey>>
    BY <2>1, <2>2 DEF Handler, HandlerFault, HandleAuction, LockAuction, RemoveLock, Lock!GetOrCreate,
                      Lock!Acquire, Lock!Remove, NotReady, NoWinners, AddRow, SubmitBids, SubmitRow,
                      SubmitMemory, UpdateBids, AddRowFails, SubmitRowFails, lockVars, taskVars
  <2>. QED
    BY <1>2, <2>1, <2>3
<1>6. \A u \in Tasks \ {t} : held[u].value.bids # {} => job'[u].at # "none"
  BY <1>1 DEF Apart, HeldOfKey
<1>7. ASSUME NEW u \in Tasks
      PROVE \/ held'[u] = NothingHeld
            \/ /\ held'[u].value.bids = held[u].value.bids /\ held'[u].id = held[u].id
               /\ Fresh(u)' => Fresh(u)
               /\ (held'[u].step = "none") = (held[u].step = "none")
               /\ held'[u].step \in {"ready", "submitted"} => held[u].step \in {"ready", "submitted"}
               /\ held[u].value.bids # {} => job'[u].at # "none" /\ lockKey'[u] = lockKey[u]
  BY <1>1, <1>4, <1>5, <1>6 DEF Fresh
<1>. QED
  BY <1>0, <1>3, <1>7, ApartShrinks

\* Updates and the conclusion only take bids out of memory.
LEMMA OthersShrink ==
  ASSUME Apart, ServiceInv,
         \/ \E b \in Bids : OutlivePromptly(b)
         \/ \E x \in calls : Update(x) \/ Fault(x)
         \/ ConclusionNext /\ UNCHANGED taskVars
         \/ UNCHANGED serverVars
  PROVE  Apart'
<1> USE TasksAreClients
<1>0. /\ StoreTypeOK
      /\ \A c \in Clients : held[c].step # "none" => held[c].id \in Auctions
      /\ \A a \in Auctions : auctions[a].bids \subseteq Bids
      /\ \A u \in Tasks : held[u].value.bids \subseteq Bids
  BY DEF ServiceInv, StoreInv, ReadableInv, FreshAuctions, StoreTypeOK, HeldValues, Values
<1>1. UNCHANGED <<job, lockKey, held>>
  BY HandlersUntouched
<1>2. /\ pending' \subseteq pending
      /\ \A b \in Bids : bidRow[b].status # "Absent" => bidRow'[b].status # "Absent"
      /\ \A a \in Auctions : auctions'[a].bids \in {auctions[a].bids, {}}
  <2>1. CASE \E b \in Bids : OutlivePromptly(b)
    BY <2>1 DEF OutlivePromptly, Outlive, storeVars
  <2>2. ASSUME NEW x \in calls, UpdateRow(x) \/ AnswerLost(x)
        PROVE  /\ UNCHANGED <<pending, auctions>>
               /\ \A b \in Bids : bidRow[b].status # "Absent" => bidRow'[b].status # "Absent"
    BY <1>0, <2>2, RowMoves DEF UpdateRow, AnswerLost
  <2>3. ASSUME NEW x \in calls, ForgetPending(x) \/ QueryFails(x)
        PROVE  UNCHANGED <<auctions, bidRow>> /\ pending' \subseteq pending
    BY <2>3 DEF ForgetPending, QueryFails
  <2>4. ASSUME NEW x \in calls, UpdateMemory(x)
        PROVE  UNCHANGED <<pending, bidRow>> /\ \A a \in Auctions : auctions'[a].bids = auctions[a].bids
    BY <1>0, <2>4 DEF UpdateMemory, StoreTypeOK, Values
  <2>5. CASE ConclusionNext
    <3>1. ASSUME NEW a \in Auctions, ConcludeAuction(a)
          PROVE  /\ UNCHANGED <<pending, bidRow>>
                 /\ \A d \in Auctions : auctions'[d].bids \in {auctions[d].bids, {}}
      BY <1>0, <3>1 DEF ConcludeAuction, StoreTypeOK, Vacant
    <3>2. \/ \E a \in Auctions : ConcludeAuction(a)
          \/ UNCHANGED <<pending, bidRow, auctions>>
      BY <2>5 DEF ConclusionNext, Poll, Polled, LoopEnds, Expire, HandleLog, Logged, LoseLog, Retry,
                  FallDue, Land, Refetch, RefetchFails, storeVars
    <3>. QED
      BY <3>1, <3>2
  <2>6. CASE UNCHANGED serverVars
    BY <2>6 DEF serverVars, conclusionVars, storeVars
  <2>. QED
    BY <2>1, <2>2, <2>3, <2>4, <2>5, <2>6 DEF Update, Fault, UpdateStep, UpdateFault
<1>. QED
  BY <1>0, <1>1, <1>2, ApartShrinks DEF Fresh, HeldOfKey, Apart

-----------------------------------------------------------------------------
\* The invariant of the handlers, and what follows from it.

ServerInv == ServiceInv /\ Exclusion!LockInv /\ Jobs /\ Apart

LEMMA ServerStart == ServerInit => ServerInv
<1> SUFFICES ASSUME ServerInit PROVE ServerInv
  OBVIOUS
<1>1. ServiceInv
  BY ServiceStart DEF ServerInit, ConclusionInit
<1>2. Jobs
  BY DEF ServerInit, Lock!LockInit, Jobs, JobRecords
<1>. QED
  BY <1>1, <1>2, LockStart, ApartStart DEF ServerInv

LEMMA ServerStep == ServerInv /\ [ServerNext]_serverVars => ServerInv'
<1> SUFFICES ASSUME ServerInv, [ServerNext]_serverVars PROVE ServerInv'
  OBVIOUS
<1> USE DEF ServerInv
<1>1. StoreTypeOK /\ Exclusion!LockTypeOK
  BY DEF ServiceInv, StoreInv, Exclusion!LockInv
<1>2. ServiceInv'
  BY ServerIsService, ServiceKeeps
<1>3. Exclusion!LockInv' /\ Jobs'
  BY <1>1, LockStep, JobsKept
<1>4. Apart'
  BY HandleBidApart, PickWinnersApart, AddMemoryApart, HandlerShrinks, OthersShrink, <1>1
  DEF ServerNext
<1>. QED
  BY <1>2, <1>3, <1>4

\* Where every handler is, what it holds, and who has which bids: the invariant
\* of the handlers with the conclusion of their auctions.
THEOREM ServerInvariant == ServerSafeSpec => []ServerInv
  BY ServerStart, ServerStep, PTL DEF ServerSafeSpec

LEMMA ServerWorld ==
  ASSUME WorldTypeOK, ServerInv, [ServerNext]_serverVars
  PROVE  WorldTypeOK'
<1>1. ASSUME NEW t \in Tasks, Handler(t) \/ HandlerFault(t)
      PROVE  WorldTypeOK'
  <2>1. CASE AddMemory(t)
    BY <2>1 DEF AddMemory, SpawnLoop, worldVars, WorldTypeOK
  <2>2. CASE \E ws \in SUBSET Bids : SubmitBids(t, ws)
    BY <2>2, SentWorld DEF SubmitBids, concludeVars, WorldTypeOK
  <2>3. CASE UNCHANGED <<concludeVars, worldVars>>
    BY <2>3 DEF concludeVars, worldVars, WorldTypeOK
  <2>4. AddMemory(t) \/ (\E ws \in SUBSET Bids : SubmitBids(t, ws)) \/ UNCHANGED <<concludeVars, worldVars>>
    BY <1>1 DEF Handler, HandlerFault, HandleAuction, LockAuction, NotReady, NoWinners, PickWinners,
                AddRow, SubmitRow, SubmitMemory, UpdateBids, UnlockAuction, RemoveLock, AddRowFails,
                SubmitRowFails
  <2>. QED
    BY <2>1, <2>2, <2>3, <2>4
<1>2. ASSUME NEW b \in Bids, HandleBid(b) \/ OutlivePromptly(b)
      PROVE  WorldTypeOK'
  BY <1>2 DEF HandleBid, OutlivePromptly, Outlive, concludeVars, worldVars, WorldTypeOK
<1>3. ASSUME NEW x \in calls, Update(x) \/ Fault(x)
      PROVE  WorldTypeOK'
  BY <1>3 DEF Update, Fault, concludeVars, worldVars, WorldTypeOK
<1>4. CASE UNCHANGED serverVars
  BY <1>4 DEF serverVars, conclusionVars, concludeVars, worldVars, WorldTypeOK
<1>. QED
  BY <1>1, <1>2, <1>3, <1>4, ConclusionWorld DEF ServerNext

\* Everything the handlers and the conclusion keep stays of its type.
THEOREM ServerTypes == ServerSafeSpec => []ServerTypeOK
<1>1. ServerInit => WorldTypeOK
  BY WorldStart DEF ServerInit
<1>2. ServerInv /\ WorldTypeOK /\ [ServerNext]_serverVars => WorldTypeOK'
  BY ServerWorld
<1>3. ServerInv /\ WorldTypeOK => ServerTypeOK
  BY ConclusionTypes
  DEF ServerInv, ServiceInv, StoreInv, Exclusion!LockInv, Exclusion!LockTypeOK, Lock!LockTypeOK, Jobs,
      JobRecords, ServerTypeOK
<1>. QED
  BY <1>1, <1>2, <1>3, ServerInvariant, PTL DEF ServerSafeSpec

\* The handlers of a key work one at a time, although its mutex comes and goes.
THEOREM ServerMutualExclusion == ServerSafeSpec => []Exclusion!MutualExclusion
<1>1. ServerInv => Exclusion!MutualExclusion
  BY Exclusion!InvExcludes, ServerAuctionAssumption DEF ServerInv, Exclusion!LockMapAssumption
<1>. QED
  BY <1>1, ServerInvariant, PTL

\* The map of locks does not grow: a handler is spawned, not awaited by a
\* request, so that it always comes to remove the lock of its key, and whoever
\* finds it borrowed leaves it to a handler that is still at work.
THEOREM ServerNoLeakedLock == ServerSafeSpec => []NoLeakedLock
<1>1. ServerInit => Exclusion!LeakFree
  BY Exclusion!LeakFreeInit, ServerAuctionAssumption
  DEF ServerInit, Lock!LockInit, Exclusion!LockInit, Exclusion!LockMapAssumption
<1>2. ServerInv /\ Exclusion!LeakFree /\ [ServerNext]_serverVars => Exclusion!LeakFree'
  BY LocksUsed, Exclusion!LeakFreeNext, ServerAuctionAssumption
  DEF ServerInv, Exclusion!LockMapAssumption
<1>3. Exclusion!LeakFree => NoLeakedLock
  BY DEF Exclusion!LeakFree, Exclusion!NoLeakedEntry, NoLeakedLock, Lock!NoLeakedEntry
<1>. QED
  BY <1>1, <1>2, <1>3, ServerInvariant, PTL DEF ServerSafeSpec

\* No bid is in two auctions, whoever of the handlers of a key is faster,
\* however often its mutex is recycled, and whatever fails.
THEOREM ServerOneAuctionPerBid == ServerSafeSpec => []OneAuctionPerBid
<1>1. ServerInv => OneAuctionPerBid
  BY DEF ServerInv, Apart, MemoryApart, HeldApart, OneAuctionPerBid
<1>. QED
  BY <1>1, ServerInvariant, PTL

\* Memory is never ahead of the table, also with handlers, conclusion loops and
\* log tasks at work on it.
THEOREM ServerMemoryNeverAhead == ServerSafeSpec => []MemoryNeverAhead
<1>1. ServerInv => MemoryNeverAhead
  BY DEF ServerInv, ServiceInv, StoreInv
<1>. QED
  BY <1>1, ServerInvariant, PTL

\* Every row that they write can be read back, and an auction they concluded
\* does not come back to memory.
THEOREM ServerRowReadable == ServerSafeSpec => [](RowReadable /\ ConcludedStaysOut)
<1>1. ServerInv => RowReadable /\ ConcludedStaysOut
  BY DEF ServerInv, ServiceInv, ReadableInv
<1>. QED
  BY <1>1, ServerInvariant, PTL

\* A bid that a handler finds pending is open, or the call that closed it has
\* not come to drop it yet, also with handlers, loops and log tasks at work.
THEOREM ServerPendingIsOpen == ServerSafeSpec => []PendingIsOpen
<1>1. ServerInit => PendingIsOpen
  BY PendingOpenStart DEF ServerInit, ConclusionInit
<1>2. ServerInv /\ PendingIsOpen /\ [ServerNext]_serverVars => PendingIsOpen'
  BY ServerIsService, PendingServiceInv DEF ServerInv, ServiceInv, StoreInv
<1>. QED
  BY <1>1, <1>2, ServerInvariant, PTL DEF ServerSafeSpec

\* The handlers and the conclusion of their auctions together keep what the
\* ledger promises.
THEOREM ServerImplementsLedger == ServerSafeSpec => LedgerImplemented
<1>1. ServerInit => Ledger!LedgerInit
  BY LedgerStart DEF ServerInit, ConclusionInit
<1>2. ServerInv /\ [ServerNext]_serverVars => [Ledger!LedgerNext]_(Ledger!ledgerVars)
  BY ServerIsService, ServiceLedger DEF ServerInv, ServiceInv
<1>. QED
  BY <1>1, <1>2, ServerInvariant, PTL DEF ServerSafeSpec, LedgerImplemented, Ledger!LedgerSpec

-----------------------------------------------------------------------------
\* The outcome that is recorded is the one that happened.

\* What the conjuncts below say holds as long as no database call failed.  The
\* statuses that a bid of a server auction has after it was placed.
ServerStatuses == {"Pending", "Lost", "Submitted", "Won", "Failed", "Expired"}

\* A handler that picked winners has them in its auction; the copy of the
\* auction it works with shows its bids as they were when it was made.
Stages ==
  \A t \in Tasks :
    /\ job[t].at \in {"none", "collect"} => job[t].winners = {}
    /\ job[t].at = "add" => Fresh(t)
    /\ job[t].at = "send" => held[t].step = "ready"
    /\ job[t].at = "submit" => held[t].step \in {"ready", "submitted"}
    /\ job[t].winners \subseteq held[t].value.bids
    /\ \A b \in held[t].value.bids : held[t].value.status[b] = "Pending"

\* The bids of an auction that a handler added are pending no longer and in no
\* other auction.
HeldTaken ==
  \A t \in Tasks : held[t].step \in {"ready", "submitted"} =>
    /\ held[t].value.bids \cap pending = {}
    /\ \A a \in Auctions : a # held[t].id => held[t].value.bids \cap auctions[a].bids = {}

\* An auction in memory has a transaction hash unless its handler is about to
\* set it; what is overdue has no handler any more.
Unsubmitted ==
  /\ \A t \in Tasks :
       (job[t].at \in {"add", "send"} \/ (job[t].at = "submit" /\ held[t].step = "ready")) =>
         ~held[t].value.hashed /\ ~auctionRow[held[t].id].submitted
  /\ \A t \in Tasks : held[t].step = "submitted" => held[t].value.hashed
  /\ \A t \in Tasks : job[t].at \in {"send", "submit"} => ~auctions[held[t].id].hashed
  /\ \A a \in Auctions : (InMemory(a) /\ ~auctions[a].hashed) =>
       \E t \in Tasks : held[t].id = a /\ job[t].at \in {"send", "submit"}
  /\ \A a \in Auctions : auctionRow[a].submitted => auctionRow[a].inserted
  /\ \A a \in overdue : auctionRow[a].inserted /\ \A t \in Tasks : held[t].id # a

\* Nobody closes the bids of a handler before it submitted its auction.
Early ==
  \A t \in Tasks : job[t].at \in {"add", "send", "submit"} =>
    \A b \in held[t].value.bids :
      /\ bidRow[b].status = "Pending"
      /\ \A x \in calls : x.req.bid = b => x.req.to \in {"Won", "Failed"}

\* What a bid may be recorded as, by a call or in its row.
Fits(b, status) ==
  /\ status = "Won" => chain[b] = "ok"
  /\ status = "Failed" => chain[b] = "err"
  /\ status = "Lost" => chain[b] = "unsent" /\ \A t \in Tasks : b \notin job[t].winners
  /\ status = "Expired" => age[b] = "aged"

\* The calls of a handler, which has all of them in flight at its end.
OwnCall(x) ==
  LET t == x.client IN
  /\ job[t].at = "done"
  /\ KeyOf[x.req.bid] = lockKey[t]
  /\ \/ x.req.to = "Lost"
     \/ /\ x.req.to = "Submitted"
        /\ x.req.bid \in job[t].winners
        /\ held[t].step = "ready" /\ x.req.auction = held[t].id

CallsKnown ==
  \A x \in calls :
    /\ bidRow[x.req.bid].status # "Absent"
    /\ x.req.to \in ServerStatuses
    /\ Fits(x.req.bid, x.req.to)
    /\ x.req.to = "Expired" /\ Landed(x.req.bid) => IsConcluded(bidRow[x.req.bid].status)
    /\ x.client \in Tasks => OwnCall(x)
    /\ x.client \notin Tasks => x.req.to # "Submitted" /\ x.req.bid \notin pending

RowsKnown ==
  \A b \in Bids :
    /\ bidRow[b].status \in ServerStatuses \cup {"Absent"}
    /\ Fits(b, bidRow[b].status)
    /\ bidRow[b].status = "Expired" => ~Landed(b)

\* A bid that was sent is a winner of the handler that sent it, until it is
\* recorded.
SentBids ==
  \A b \in Bids : chain[b] # "unsent" =>
    /\ b \notin pending
    /\ \/ bidRow[b].status \in {"Submitted", "Won", "Failed", "Expired"}
       \/ \E t \in Tasks : b \in job[t].winners
    /\ \A t \in Tasks : b \in held[t].value.bids =>
         b \in job[t].winners /\ job[t].at \in {"submit", "update", "done"}

\* A handler at its end has recorded its winners or is about to.
WinnersOwed ==
  \A t \in Tasks : job[t].at = "done" =>
    \A b \in job[t].winners :
      \/ bidRow[b].status # "Pending"
      \/ \E x \in calls :
           x.client = t /\ x.req.bid = b /\ x.req.to = "Submitted" /\ x.step = "query"

\* Memory shows that a bid is submitted when its handler is done with it.
SubmittedShown ==
  \A a \in Auctions : \A b \in auctions[a].bids :
    /\ auctions[a].status[b] \in ServerStatuses
    /\ (bidRow[b].status = "Submitted" /\ auctions[a].status[b] = "Pending") =>
         \E x \in calls :
           x.client \in Tasks /\ x.req.bid = b /\ x.req.to = "Submitted" /\ x.step # "query"

\* A bid that landed and is aged has no handler any more.
LandedLeft ==
  \A b \in Bids : Landed(b) /\ age[b] = "aged" =>
    /\ \A t \in Tasks : b \notin held[t].value.bids
    /\ \A x \in calls : x.req.bid = b => x.client \notin Tasks

LogsLanded == \A b \in logs : Landed(b)

Outcomes ==
  /\ Stages /\ HeldTaken /\ Unsubmitted
  /\ Early /\ CallsKnown /\ RowsKnown
  /\ SentBids /\ WinnersOwed /\ SubmittedShown /\ LandedLeft /\ LogsLanded

OutcomeInv == faults = 0 => Outcomes

LEMMA OutcomesStart == ServerInit => OutcomeInv
<1> SUFFICES ASSUME ServerInit PROVE Outcomes
  BY DEF OutcomeInv
<1>1. /\ \A t \in Tasks : job[t] = [at |-> "none", winners |-> {}] /\ held[t] = NothingHeld
      /\ calls = {} /\ logs = {} /\ overdue = {} /\ pending = {}
      /\ \A b \in Bids : bidRow[b].status = "Absent" /\ chain[b] = "unsent"
      /\ \A a \in Auctions : auctions[a] = Vacant /\ ~auctionRow[a].submitted
  BY TasksAreClients DEF ServerInit, ConclusionInit, StoreInit
<1>2. Stages /\ HeldTaken /\ Unsubmitted
  BY <1>1 DEF Stages, HeldTaken, Unsubmitted, NothingHeld, Vacant, InMemory
<1>3. Early /\ CallsKnown /\ WinnersOwed /\ LogsLanded
  BY <1>1 DEF Early, CallsKnown, WinnersOwed, LogsLanded
<1>4. RowsKnown /\ SentBids /\ LandedLeft /\ SubmittedShown
  BY <1>1 DEF RowsKnown, Fits, SentBids, LandedLeft, Landed, SubmittedShown, Vacant
<1>. QED
  BY <1>2, <1>3, <1>4 DEF Outcomes

\* The types that the steps below use.
LEMMA ServerKinds ==
  ASSUME ServerInv
  PROVE  /\ \A t \in Tasks : /\ t \in Clients /\ held[t] \in HeldValues /\ job[t] \in JobRecords
                             /\ held[t].value.bids \subseteq Bids
                             /\ held[t].step # "none" => held[t].id \in Auctions
         /\ \A a \in Auctions : auctions[a] \in Values /\ auctions[a].bids \subseteq Bids
         /\ \A x \in calls : /\ x \in Calls /\ x.client \in Clients /\ x.req.bid \in Bids
                             /\ x.req.to \in Statuses \ {"Pending"}
         /\ pending \subseteq Bids
  BY TasksAreClients
  DEF ServerInv, ServiceInv, StoreInv, ReadableInv, FreshAuctions, StoreTypeOK, HeldValues, Values, Jobs,
      Calls, Requests

\* A handler without an auction begins, waits, or finds nothing to do.
LEMMA IdleOutcomes ==
  ASSUME Outcomes, NEW t \in Tasks, UNCHANGED <<storeVars, worldVars, logs>>,
         job[t].at \in {"none", "collect"}, job'[t].at \in {"none", "collect", "done"},
         job'[t].winners = {},
         \A u \in Tasks \ {t} : job'[u] = job[u] /\ lockKey'[u] = lockKey[u]
  PROVE  Outcomes'
<1> USE DEF Outcomes, storeVars, worldVars
<1>0. \A u \in Tasks : job'[u].winners = job[u].winners
  BY DEF Stages
<1>1. Stages' /\ HeldTaken'
  BY DEF Stages, HeldTaken, Fresh
<1>2. Unsubmitted'
  BY DEF Unsubmitted, InMemory
<1>3. Early' /\ WinnersOwed'
  BY DEF Early, WinnersOwed
<1>4. CallsKnown'
  BY <1>0 DEF CallsKnown, OwnCall, Fits, Landed
<1>5. RowsKnown'
  BY <1>0 DEF RowsKnown, Fits, Landed
<1>6. SentBids'
  BY <1>0 DEF SentBids
<1>7. SubmittedShown' /\ LandedLeft' /\ LogsLanded'
  BY DEF SubmittedShown, LandedLeft, LogsLanded, Landed
<1>. QED
  BY <1>1, <1>2, <1>3, <1>4, <1>5, <1>6, <1>7

\* Time passes and transactions land: not those of aged bids, and no bid ages
\* while a handler has it.
LEMMA WorldOutcomes ==
  ASSUME Outcomes, UNCHANGED <<storeVars, taskVars>>,
         UNCHANGED chain \/ UNCHANGED age,
         \A b \in Bids : chain'[b] # chain[b] =>
           chain[b] \in {"retrying", "sent"} /\ chain'[b] \in {"sent", "ok", "err"} /\ age[b] # "aged",
         \A b \in Bids : age'[b] # age[b] =>
           /\ age[b] # "aged"
           /\ age'[b] = "aged" => /\ \A t \in Tasks : b \notin held[t].value.bids
                                  /\ \A x \in calls : x.req.bid = b => x.client \notin Tasks,
         \A b \in logs' : b \in logs \/ Landed(b)',
         \A b \in logs : b \in Bids,
         \A a \in overdue' : a \in overdue \/ (auctionRow[a].inserted /\ \A t \in Tasks : held[t].id # a),
         \A x \in calls : x.req.bid \in Bids
  PROVE  Outcomes'
<1> USE DEF Outcomes, storeVars, taskVars, lockVars
<1>0. /\ \A b \in Bids : (chain'[b] = "unsent") = (chain[b] = "unsent")
      /\ \A b \in Bids : Landed(b) => chain'[b] = chain[b]
      /\ \A b \in Bids : age[b] = "aged" => age'[b] = "aged" /\ chain'[b] = chain[b]
  BY DEF Landed
<1>1. Stages' /\ HeldTaken' /\ Early' /\ WinnersOwed' /\ SubmittedShown'
  BY DEF Stages, HeldTaken, Fresh, Early, WinnersOwed, SubmittedShown
<1>2. Unsubmitted'
  BY DEF Unsubmitted, InMemory
<1>3. \A b \in Bids : \A s : Fits(b, s) => Fits(b, s)'
  BY <1>0 DEF Fits, Landed
<1>4. CallsKnown'
  BY <1>0, <1>3 DEF CallsKnown, OwnCall, Fits, Landed
<1>5. RowsKnown'
  BY <1>0, <1>3 DEF RowsKnown, Fits, Landed
<1>6. SentBids'
  BY <1>0 DEF SentBids
<1>7. LandedLeft'
  BY <1>0 DEF LandedLeft, Landed
<1>8. LogsLanded'
  BY <1>0 DEF LogsLanded, Landed
<1>. QED
  BY <1>1, <1>2, <1>4, <1>5, <1>6, <1>7, <1>8

\* An auction leaves memory.
LEMMA ConcludeOutcomes ==
  ASSUME ServerInv, WorldTypeOK, Outcomes, NEW a \in Auctions, ConcludeAuction(a),
         UNCHANGED <<taskVars, worldVars, logs>>
  PROVE  Outcomes'
<1> USE DEF Outcomes, worldVars, taskVars, lockVars
<1>0. /\ auctions'[a] = Vacant /\ \A c \in Auctions \ {a} : auctions'[c] = auctions[c]
      /\ \A c \in Auctions : /\ auctionRow'[c].inserted = auctionRow[c].inserted
                             /\ auctionRow'[c].submitted = auctionRow[c].submitted
      /\ UNCHANGED <<bidRow, pending, held, calls, told, faults>>
  BY DEF ConcludeAuction, ServerInv, ServiceInv, StoreInv, StoreTypeOK
<1>1. Stages' /\ Early' /\ WinnersOwed' /\ LogsLanded' /\ LandedLeft' /\ SentBids'
  BY <1>0 DEF Stages, Fresh, Early, WinnersOwed, LogsLanded, LandedLeft, Landed, SentBids
<1>2. CallsKnown' /\ RowsKnown'
  BY <1>0 DEF CallsKnown, OwnCall, Fits, Landed, RowsKnown
<1>3. HeldTaken' /\ SubmittedShown'
  BY <1>0 DEF HeldTaken, SubmittedShown, Vacant
<1>4. Unsubmitted'
  <2>1. \A t \in Tasks : job[t].at \in {"add", "send", "submit"} => held[t].id \in Auctions
    BY ServerKinds DEF Stages, Fresh
  <2>2. \A c \in Auctions : /\ InMemory(c)' => InMemory(c) /\ auctions'[c] = auctions[c]
                            /\ auctions'[c].hashed => auctions[c].hashed
    BY <1>0 DEF Vacant, InMemory
  <2>. QED
    BY <1>0, <2>1, <2>2 DEF Unsubmitted, WorldTypeOK
<1>. QED
  BY <1>1, <1>2, <1>3, <1>4

\* Loops and log tasks begin calls for what they saw.
LEMMA OthersAsk ==
  ASSUME ServerInv, Outcomes, calls \subseteq calls',
         \A x \in calls' \ calls :
           /\ x.step = "query" /\ x.client \notin Tasks /\ x.req.bid \in Bids
           /\ x.req.to \in {"Won", "Failed", "Expired"}
           /\ x.req.bid \notin pending /\ bidRow[x.req.bid].status # "Absent"
           /\ Fits(x.req.bid, x.req.to)
           /\ x.req.to = "Expired" =>
                /\ Landed(x.req.bid) => IsConcluded(bidRow[x.req.bid].status)
                /\ \A t \in Tasks : x.req.bid \in held[t].value.bids =>
                     job[t].at \notin {"add", "send", "submit"},
         UNCHANGED <<bidRow, auctionRow, pending, auctions, held, told, faults>>,
         UNCHANGED <<taskVars, worldVars>>, logs' \subseteq logs
  PROVE  Outcomes'
<1> USE DEF Outcomes, worldVars, taskVars, lockVars
<1>1. Stages' /\ HeldTaken' /\ LogsLanded' /\ SentBids' /\ RowsKnown'
  BY DEF Stages, Fresh, HeldTaken, LogsLanded, Landed, SentBids, RowsKnown, Fits
<1>2. Unsubmitted'
  BY DEF Unsubmitted, InMemory
<1>3. Early'
  BY DEF Early
<1>4. WinnersOwed' /\ SubmittedShown' /\ LandedLeft'
  BY DEF WinnersOwed, SubmittedShown, LandedLeft, Landed
<1>5. CallsKnown'
  <2> SUFFICES ASSUME NEW x \in calls'
               PROVE  /\ bidRow[x.req.bid].status # "Absent"
                      /\ x.req.to \in ServerStatuses
                      /\ Fits(x.req.bid, x.req.to)
                      /\ x.req.to = "Expired" /\ Landed(x.req.bid) => IsConcluded(bidRow[x.req.bid].status)
                      /\ x.client \in Tasks => OwnCall(x)
                      /\ x.client \notin Tasks => x.req.to # "Submitted" /\ x.req.bid \notin pending
    BY DEF CallsKnown, OwnCall, Fits, Landed
  <2>1. CASE x \in calls
    BY <2>1 DEF CallsKnown
  <2>2. CASE x \notin calls
    BY <2>2 DEF ServerStatuses
  <2>. QED
    BY <2>1, <2>2
<1>. QED
  BY <1>1, <1>2, <1>3, <1>4, <1>5

\* Only tasks of the conclusion are loops and log tasks.
LEMMA NotTasks == /\ \A a \in Auctions : Loop(a) \notin Tasks
                  /\ \A b \in Bids : LogTask(b) \notin Tasks
  BY ServerAuctionAssumption, ConclusionAssumption

\* What was sent has a row.
LEMMA SentPlaced ==
  ASSUME ServerInv, Outcomes, NEW b \in Bids, chain[b] # "unsent"
  PROVE  bidRow[b].status # "Absent" /\ b \notin pending
  BY DEF ServerInv, Apart, AllPlaced, Outcomes, SentBids, Stages

\* A poll finds nothing but what happened: a transaction that landed did so
\* before its bid aged, so that its handler has recorded it by then and memory
\* knows, or its log was faster than both.
LEMMA PollOutcomes ==
  ASSUME ServerInv, WorldTypeOK, Outcomes, NEW a \in Auctions, Poll(a), UNCHANGED taskVars
  PROVE  Outcomes'
<1> USE DEF Outcomes
<1>1. auctions[a].hashed /\ Issue(Loop(a), BidResults(a))
  <2> SUFFICES ASSUME InMemory(a), ~auctions[a].hashed, a \in overdue PROVE FALSE
    BY DEF Poll
  <2>. QED
    BY DEF Unsubmitted
<1>2. auctions[a].bids \subseteq Bids /\ auctions[a].bids \cap pending = {}
      /\ \A b \in auctions[a].bids : bidRow[b].status # "Absent"
  BY ServerKinds DEF ServerInv, Apart, PendingApart, AllPlaced
<1>3. ASSUME NEW b \in OpenBids(a), ~(AsksChain(a) /\ Landed(b)), age[b] = "aged", Landed(b)
      PROVE  IsConcluded(bidRow[b].status)
  <2>1. b \in auctions[a].bids /\ b \in Bids /\ chain[b] # "unsent"
    BY <1>2, <1>3 DEF OpenBids, Landed
  <2>2. auctions[a].status[b] = "Pending"
    BY <1>3, <2>1 DEF OpenBids, AsksChain, SubmittedShown, ServerStatuses, IsConcluded
  <2>3. /\ \A t \in Tasks : b \notin held[t].value.bids
        /\ \A x \in calls : x.req.bid = b => x.client \notin Tasks
    BY <1>3, <2>1 DEF LandedLeft
  <2>4. bidRow[b].status # "Submitted"
    BY <2>1, <2>2, <2>3 DEF SubmittedShown
  <2>5. bidRow[b].status \in {"Submitted", "Won", "Failed", "Expired"}
    BY <2>1, <2>3 DEF SentBids, Stages
  <2>. QED
    BY <2>4, <2>5 DEF IsConcluded
<1>4. ASSUME NEW t \in Tasks, NEW b \in auctions[a].bids, b \in held[t].value.bids
      PROVE  job[t].at \notin {"add", "send", "submit"}
  <2>1. job[t].at # "add"
    BY <1>4 DEF ServerInv, Apart, HeldAndMemory, Stages
  <2>2. job[t].at \in {"send", "submit"} => held[t].step \in {"ready", "submitted"} /\ held[t].id = a
    BY <1>4 DEF Stages, HeldTaken
  <2>. QED
    BY <1>1, <2>1, <2>2 DEF Unsubmitted
<1>5. ASSUME NEW r \in BidResults(a)
      PROVE  /\ r.bid \in OpenBids(a) /\ r.to \in {"Won", "Failed", "Expired"}
             /\ Fits(r.bid, r.to)
             /\ r.to = "Expired" => (Landed(r.bid) => IsConcluded(bidRow[r.bid].status))
  <2>1. CASE \E b \in OpenBids(a) : AsksChain(a) /\ Landed(b) /\ r = [bid |-> b, to |-> Outcome(b), auction |-> a]
    BY <2>1 DEF Outcome, Fits, Landed
  <2>2. CASE \E b \in OpenBids(a) : /\ ~(AsksChain(a) /\ Landed(b)) /\ age[b] = "aged"
                                    /\ r = [bid |-> b, to |-> "Expired", auction |-> a]
    BY <1>3, <2>2 DEF Fits
  <2>. QED
    BY <2>1, <2>2 DEF BidResults
<1>6. ASSUME NEW x \in calls' \ calls
      PROVE  x.step = "query" /\ x.client = Loop(a) /\ x.req \in BidResults(a)
  BY <1>1 DEF Issue
<1>7. OpenBids(a) \subseteq auctions[a].bids
  BY DEF OpenBids
<1>8. /\ UNCHANGED <<bidRow, auctionRow, pending, auctions, held, told, faults>>
      /\ UNCHANGED worldVars /\ logs' = logs /\ calls \subseteq calls'
  BY <1>1 DEF Poll, Issue
<1>9. ASSUME NEW x \in calls' \ calls
      PROVE  /\ x.step = "query" /\ x.client \notin Tasks /\ x.req.bid \in Bids
             /\ x.req.to \in {"Won", "Failed", "Expired"}
             /\ x.req.bid \notin pending /\ bidRow[x.req.bid].status # "Absent"
             /\ Fits(x.req.bid, x.req.to)
             /\ x.req.to = "Expired" =>
                  /\ Landed(x.req.bid) => IsConcluded(bidRow[x.req.bid].status)
                  /\ \A t \in Tasks : x.req.bid \in held[t].value.bids =>
                       job[t].at \notin {"add", "send", "submit"}
  <2>1. x.req \in BidResults(a) /\ x.step = "query" /\ x.client \notin Tasks
    BY <1>6, NotTasks
  <2>2. x.req.bid \in auctions[a].bids
    BY <1>5, <1>7, <2>1
  <2>. QED
    BY <1>2, <1>4, <1>5, <2>1, <2>2
<1>. QED
  BY <1>8, <1>9, OthersAsk

\* The task of a log reports what the log says.
LEMMA LogOutcomes ==
  ASSUME ServerInv, WorldTypeOK, Outcomes, NEW b \in Bids, HandleLog(b), UNCHANGED taskVars
  PROVE  Outcomes'
<1> USE DEF Outcomes
<1>1. chain[b] # "unsent" /\ Landed(b)
  BY DEF HandleLog, LogsLanded, Landed
<1>2. bidRow[b].status # "Absent" /\ b \notin pending
  BY <1>1, SentPlaced
<1>3. Outcome(b) \in {"Won", "Failed"} /\ Fits(b, Outcome(b))
  BY <1>1 DEF Outcome, Fits, Landed
<1>4. /\ UNCHANGED <<bidRow, auctionRow, pending, auctions, held, told, faults>>
      /\ UNCHANGED worldVars /\ logs' \subseteq logs /\ calls \subseteq calls'
  BY DEF HandleLog, Issue
<1>5. ASSUME NEW x \in calls' \ calls
      PROVE  x.step = "query" /\ x.client \notin Tasks /\ x.req.bid = b /\ x.req.to = Outcome(b)
  BY NotTasks DEF HandleLog, Issue
<1>. QED
  BY <1>2, <1>3, <1>4, <1>5, OthersAsk

\* What GoOn does to the jobs.
LEMMA GoesOnOnly ==
  ASSUME ServerInv, NEW t \in Tasks, NEW step, GoOn(t, step)
  PROVE  /\ job'[t].at = step /\ job'[t].winners = job[t].winners
         /\ \A u \in Tasks \ {t} : job'[u] = job[u]
<1> DEFINE e == [job[t] EXCEPT !.at = step]
<1>1. job[t] \in JobRecords /\ job \in [Tasks -> JobRecords] /\ job' = [job EXCEPT ![t] = e]
  BY DEF ServerInv, Jobs, GoOn
<1>2. e.at = step /\ e.winners = job[t].winners
  BY <1>1 DEF JobRecords
<1> HIDE DEF e
<1>. QED
  BY <1>1, <1>2

\* The pending bids of a key are untouched when a handler of the key begins to
\* work: who called for them before held the mutex of the key and is gone.
LEMMA Collected ==
  ASSUME ServerInv, PendingIsOpen, faults = 0, Outcomes, NEW t \in Tasks, job[t].at = "collect",
         NEW b \in PendingOf(lockKey[t])
  PROVE  /\ b \in Bids /\ b \in pending /\ KeyOf[b] = lockKey[t]
         /\ bidRow[b].status = "Pending" /\ chain[b] = "unsent"
         /\ \A x \in calls : x.req.bid # b
         /\ \A u \in Tasks : b \notin job[u].winners
         /\ \A u \in Tasks \ {t} : b \notin held[u].value.bids
<1> USE DEF Outcomes
<1>1. b \in Bids /\ b \in pending /\ KeyOf[b] = lockKey[t] /\ chain[b] = "unsent"
  BY ServerKinds DEF PendingOf, SentBids
<1>2. \A u \in Tasks : job[u].at # "none" /\ lockKey[u] = lockKey[t] => u = t
  <2>1. Exclusion!MutualExclusion
    BY ServerAuctionAssumption, Exclusion!InvExcludes DEF ServerInv, Exclusion!LockMapAssumption
  <2>. QED
    BY <2>1 DEF ServerInv, Jobs, Exclusion!MutualExclusion
<1>3. \A x \in calls : x.req.bid # b
  BY <1>1, <1>2 DEF CallsKnown, OwnCall
<1>4. bidRow[b].status = "Pending"
  BY <1>1, <1>3 DEF PendingIsOpen
<1>5. \A u \in Tasks \ {t} : b \notin held[u].value.bids
  BY <1>1, <1>2 DEF ServerInv, Apart, HeldOfKey
<1>6. \A u \in Tasks : b \notin job[u].winners
  BY <1>5 DEF Stages
<1>. QED
  BY <1>1, <1>3, <1>4, <1>5, <1>6

\* All bids of an auction without winners are lost: none of them was sent.
LEMMA NoWinnersOutcomes ==
  ASSUME ServerInv, PendingIsOpen, faults = 0, Outcomes, NEW t \in Tasks, NoWinners(t)
  PROVE  Outcomes'
<1> USE DEF Outcomes
<1>1. /\ job[t].at = "collect" /\ job'[t].at = "done"
      /\ \A u \in Tasks : job'[u].winners = job[u].winners
      /\ \A u \in Tasks \ {t} : job'[u] = job[u]
      /\ job[t].winners = {}
  BY GoesOnOnly DEF NoWinners, Stages
<1>2. /\ UNCHANGED <<bidRow, auctionRow, pending, auctions, held, lockKey, logs, chain, age, overdue>>
      /\ calls \subseteq calls'
  BY DEF NoWinners, Issue, lockVars, concludeVars, worldVars
<1>3. ASSUME NEW x \in calls' \ calls
      PROVE  /\ x.step = "query" /\ x.client = t /\ x.req.to = "Lost"
             /\ x.req.bid \in PendingOf(lockKey[t])
  BY DEF NoWinners, Issue
<1>4. Stages' /\ HeldTaken' /\ LogsLanded' /\ SentBids' /\ RowsKnown'
  BY <1>1, <1>2 DEF Stages, Fresh, HeldTaken, LogsLanded, Landed, SentBids, RowsKnown, Fits
<1>5. Unsubmitted'
  BY <1>1, <1>2 DEF Unsubmitted, InMemory
<1>6. Early'
  <2>1. ASSUME NEW u \in Tasks, job'[u].at \in {"add", "send", "submit"}, NEW b \in held[u].value.bids,
               NEW x \in calls', x.req.bid = b
        PROVE  x \in calls
    BY <1>1, <1>3, <2>1, Collected
  <2>. QED
    BY <1>1, <1>2, <2>1 DEF Early
<1>7. WinnersOwed' /\ SubmittedShown'
  BY <1>1, <1>2 DEF WinnersOwed, SubmittedShown
<1>8. LandedLeft'
  BY <1>2, <1>3, Collected, <1>1 DEF LandedLeft, Landed
<1>9. CallsKnown'
  <2> SUFFICES ASSUME NEW x \in calls'
               PROVE  /\ bidRow[x.req.bid].status # "Absent"
                      /\ x.req.to \in ServerStatuses
                      /\ Fits(x.req.bid, x.req.to)'
                      /\ x.req.to = "Expired" /\ Landed(x.req.bid) => IsConcluded(bidRow[x.req.bid].status)
                      /\ x.client \in Tasks => OwnCall(x)'
                      /\ x.client \notin Tasks => x.req.to # "Submitted" /\ x.req.bid \notin pending
    BY <1>2 DEF CallsKnown, Landed
  <2>1. CASE x \in calls
    <3>1. x.client # t
      BY <1>1, <2>1 DEF CallsKnown, OwnCall
    <3>. QED
      BY <1>1, <1>2, <2>1, <3>1 DEF CallsKnown, OwnCall, Fits
  <2>2. CASE x \notin calls
    <3>1. /\ x.client = t /\ x.req.to = "Lost" /\ x.req.bid \in PendingOf(lockKey[t])
      BY <1>3, <2>2
    <3>2. /\ bidRow[x.req.bid].status = "Pending" /\ chain[x.req.bid] = "unsent"
          /\ KeyOf[x.req.bid] = lockKey[t] /\ \A u \in Tasks : x.req.bid \notin job[u].winners
      BY <1>1, <3>1, Collected
    <3>. QED
      BY <1>1, <1>2, <3>1, <3>2 DEF OwnCall, Fits, ServerStatuses
  <2>. QED
    BY <2>1, <2>2
<1>. QED
  BY <1>4, <1>5, <1>6, <1>7, <1>8, <1>9

\* A handler makes an auction of bids that nobody else has or closed.
LEMMA PickWinnersOutcomes ==
  ASSUME ServerInv, WorldTypeOK, PendingIsOpen, faults = 0, Outcomes, NEW t \in Tasks,
         NEW a \in Auctions, NEW ws \in SUBSET Bids, PickWinners(t, a, ws)
  PROVE  Outcomes'
<1> USE DEF Outcomes
<1> DEFINE bs == PendingOf(lockKey[t])
<1>1. /\ job[t].at = "collect" /\ job'[t].at = "add" /\ job'[t].winners = ws /\ ws \subseteq bs
      /\ \A u \in Tasks \ {t} : job'[u] = job[u]
  BY DEF PickWinners, ServerInv, Jobs
<1>2. /\ held'[t].step = "made" /\ held'[t].id = a /\ held'[t].value.bids = bs
      /\ ~held'[t].value.hashed /\ \A b \in bs : b \in Bids => held'[t].value.status[b] = "Pending"
      /\ \A u \in Tasks \ {t} : held'[u] = held[u]
      /\ ~auctionRow[a].inserted
  BY ServerKinds DEF PickWinners, TryNew, ServerInv, ServiceInv, StoreInv, StoreTypeOK
<1>3. UNCHANGED <<bidRow, auctionRow, pending, auctions, calls, lockKey, logs, chain, age, overdue>>
  BY DEF PickWinners, lockVars, concludeVars, worldVars
<1>4. /\ \A b \in bs : /\ b \in Bids /\ b \in pending /\ KeyOf[b] = lockKey[t]
                       /\ bidRow[b].status = "Pending" /\ chain[b] = "unsent"
                       /\ \A x \in calls : x.req.bid # b
                       /\ \A u \in Tasks : b \notin job[u].winners
      /\ \A x \in calls : x.client # t
  BY <1>1, Collected DEF CallsKnown, OwnCall
<1> HIDE DEF bs
<1>5. Stages'
  BY <1>1, <1>2, <1>4 DEF Stages, Fresh
<1>6. HeldTaken' /\ Early'
  BY <1>1, <1>2, <1>3, <1>4 DEF HeldTaken, Early
<1>7. Unsubmitted'
  <2>1. ~auctionRow[a].submitted /\ a \notin overdue
    BY <1>2 DEF Unsubmitted
  <2>. QED
    BY <1>1, <1>2, <1>3, <2>1 DEF Unsubmitted, InMemory
<1>8. \A b \in Bids : \A s : Fits(b, s) /\ (b \in bs => s # "Lost") => Fits(b, s)'
  BY <1>1, <1>3 DEF Fits
<1>9. CallsKnown'
  BY <1>1, <1>2, <1>3, <1>4, <1>8, ServerKinds DEF CallsKnown, OwnCall, Landed
<1>10. RowsKnown'
  BY <1>3, <1>4, <1>8 DEF RowsKnown, Landed
<1>11. SentBids'
  BY <1>1, <1>2, <1>3, <1>4 DEF SentBids, Stages
<1>12. WinnersOwed' /\ LogsLanded' /\ SubmittedShown' /\ LandedLeft'
  BY <1>1, <1>2, <1>3, <1>4 DEF WinnersOwed, LogsLanded, SubmittedShown, LandedLeft, Landed
<1>. QED
  BY <1>5, <1>6, <1>7, <1>9, <1>10, <1>11, <1>12

\* What the steps of a handler on its auction do to its copy of it.
LEMMA HeldStepsOn ==
  ASSUME ServerInv, NEW t \in Tasks, NEW step \in HeldSteps, held' = [held EXCEPT ![t].step = step]
  PROVE  /\ held'[t].step = step /\ held'[t].value = held[t].value /\ held'[t].id = held[t].id
         /\ \A u \in Tasks \ {t} : held'[u] = held[u]
<1> DEFINE e == [held[t] EXCEPT !.step = step]
<1>1. t \in Clients /\ held \in [Clients -> HeldValues] /\ held' = [held EXCEPT ![t] = e]
  BY TasksAreClients DEF ServerInv, ServiceInv, StoreInv, StoreTypeOK
<1>2. e.step = step /\ e.value = held[t].value /\ e.id = held[t].id
  BY <1>1 DEF HeldValues
<1> HIDE DEF e
<1>. QED
  BY <1>1, <1>2, TasksAreClients

LEMMA AddRowOutcomes ==
  ASSUME ServerInv, WorldTypeOK, Outcomes, NEW t \in Tasks, AddRow(t)
  PROVE  Outcomes'
<1> USE DEF Outcomes
<1>1. /\ held[t].step = "made" /\ held'[t].step = "inserted"
      /\ held'[t].value = held[t].value /\ held'[t].id = held[t].id
      /\ \A u \in Tasks \ {t} : held'[u] = held[u]
      /\ job[t].at = "add"
  BY HeldStepsOn DEF AddRow, AddAuctionRow, HeldSteps
<1>2. /\ UNCHANGED <<bidRow, pending, auctions, calls, job, lockKey, logs, chain, age, overdue>>
      /\ \A a \in Auctions : /\ auctionRow'[a].submitted = auctionRow[a].submitted
                             /\ auctionRow[a].inserted => auctionRow'[a].inserted
      /\ held[t].id \in Auctions
  BY <1>1, ServerKinds
  DEF AddRow, AddAuctionRow, taskVars, lockVars, concludeVars, worldVars, ServerInv, ServiceInv, StoreInv,
      StoreTypeOK
<1>3. Stages' /\ HeldTaken' /\ Early' /\ WinnersOwed' /\ LandedLeft' /\ LogsLanded' /\ SentBids'
  BY <1>1, <1>2
  DEF Stages, Fresh, HeldTaken, Early, WinnersOwed, LandedLeft, Landed, LogsLanded, SentBids
<1>4. CallsKnown' /\ RowsKnown' /\ SubmittedShown'
  BY <1>1, <1>2 DEF CallsKnown, OwnCall, Fits, Landed, RowsKnown, SubmittedShown
<1>5. Unsubmitted'
  <2>1. \A u \in Tasks : held'[u].id = held[u].id /\ held'[u].value = held[u].value
    BY <1>1
  <2>2. \A u \in Tasks : job[u].at \in {"add", "send", "submit"} => held[u].id \in Auctions
    BY ServerKinds DEF Stages, Fresh
  <2>3. \A u \in Tasks : held'[u].step \in {"ready", "submitted"} => held'[u] = held[u]
    BY <1>1
  <2>. QED
    BY <1>1, <1>2, <2>1, <2>2, <2>3 DEF Unsubmitted, InMemory, WorldTypeOK
<1>. QED
  BY <1>3, <1>4, <1>5

LEMMA AddMemoryOutcomes ==
  ASSUME ServerInv, WorldTypeOK, Outcomes, NEW t \in Tasks, AddMemory(t)
  PROVE  Outcomes'
<1> USE DEF Outcomes
<1> DEFINE i == held[t].id
           bs == held[t].value.bids
<1>1. /\ held[t].step = "inserted" /\ held'[t].step = "ready"
      /\ held'[t].value = held[t].value /\ held'[t].id = held[t].id
      /\ \A u \in Tasks \ {t} : held'[u] = held[u]
      /\ job[t].at = "add" /\ job'[t].at = "send" /\ job'[t].winners = job[t].winners
      /\ \A u \in Tasks \ {t} : job'[u] = job[u]
  <2>1. /\ held[t].step = "inserted" /\ held'[t].step = "ready"
        /\ held'[t].value = held[t].value /\ held'[t].id = held[t].id
        /\ \A u \in Tasks \ {t} : held'[u] = held[u]
    BY HeldStepsOn DEF AddMemory, AddAuctionMemory, HeldSteps
  <2>2. /\ job[t].at = "add" /\ job'[t].at = "send" /\ job'[t].winners = job[t].winners
        /\ \A u \in Tasks \ {t} : job'[u] = job[u]
    BY GoesOnOnly DEF AddMemory
  <2>. QED
    BY <2>1, <2>2
<1>2. /\ UNCHANGED <<bidRow, auctionRow, calls, lockKey, logs, chain, age, overdue>>
      /\ i \in Auctions /\ auctions'[i] = held[t].value
      /\ \A a \in Auctions \ {i} : auctions'[a] = auctions[a]
      /\ pending' = pending \ bs
  BY <1>1, ServerKinds
  DEF AddMemory, AddAuctionMemory, lockVars, worldVars, ServerInv, ServiceInv, StoreInv, StoreTypeOK
<1>3. /\ \A u \in Tasks \ {t} : held[u].value.bids \cap bs = {} /\ (held[u].step # "none" => held[u].id # i)
      /\ \A a \in Auctions : bs \cap auctions[a].bids = {}
  BY <1>1 DEF ServerInv, Apart, HeldApart, HeldAndMemory, Fresh
<1>4. \A u \in Tasks : /\ held'[u].value = held[u].value /\ held'[u].id = held[u].id
                       /\ job'[u].winners = job[u].winners
  BY <1>1
<1>5. Stages'
  BY <1>1, <1>4 DEF Stages, Fresh
<1>6. HeldTaken'
  <2>1. ASSUME NEW u \in Tasks \ {t}, held'[u].step \in {"ready", "submitted"}
        PROVE  /\ held[u].value.bids \cap pending' = {}
               /\ \A a \in Auctions : a # held[u].id => held[u].value.bids \cap auctions'[a].bids = {}
    BY <1>1, <1>2, <1>3, <2>1 DEF HeldTaken
  <2>2. /\ bs \cap pending' = {}
        /\ \A a \in Auctions : a # i => bs \cap auctions'[a].bids = {}
    BY <1>2, <1>3
  <2>. QED
    BY <1>4, <2>1, <2>2 DEF HeldTaken
<1>7. Early' /\ WinnersOwed' /\ LandedLeft' /\ LogsLanded' /\ SentBids'
  BY <1>1, <1>2, <1>4 DEF Early, WinnersOwed, LandedLeft, Landed, LogsLanded, SentBids
<1>8. CallsKnown' /\ RowsKnown'
  BY <1>1, <1>2, <1>4 DEF CallsKnown, OwnCall, Fits, Landed, RowsKnown
<1>9. SubmittedShown'
  <2>1. \A b \in bs : held[t].value.status[b] = "Pending" /\ bidRow[b].status = "Pending"
    BY <1>1 DEF Stages, Early
  <2>. QED
    BY <1>2, <2>1 DEF SubmittedShown, ServerStatuses
<1>10. Unsubmitted'
  <2>1. \A u \in Tasks \ {t} : job[u].at \in {"add", "send", "submit"} => held[u].id \in Auctions \ {i}
    BY <1>3, ServerKinds DEF Stages, Fresh
  <2>2. ~held[t].value.hashed /\ ~auctionRow[i].submitted
    BY <1>1 DEF Unsubmitted
  <2>3. \A u \in Tasks : /\ job'[u].at \in {"add", "send"} => job[u].at \in {"add", "send"}
                         /\ job'[u].at = "submit" => job[u].at = "submit" /\ held'[u] = held[u]
                         /\ held'[u].step = "submitted" => held[u].step = "submitted"
    BY <1>1
  <2>4. \A u \in Tasks : job'[u].at \in {"send", "submit"} => ~auctions'[held'[u].id].hashed
    BY <1>1, <1>2, <2>1, <2>2 DEF Unsubmitted
  <2>5. ASSUME NEW a \in Auctions, InMemory(a)', ~auctions'[a].hashed
        PROVE  \E u \in Tasks : held'[u].id = a /\ job'[u].at \in {"send", "submit"}
    <3>1. CASE a = i
      BY <1>1, <3>1
    <3>2. CASE a # i
      <4>1. PICK u \in Tasks : held[u].id = a /\ job[u].at \in {"send", "submit"}
        BY <1>2, <2>5, <3>2 DEF Unsubmitted, InMemory
      <4>. QED
        BY <1>1, <1>4, <4>1
    <3>. QED
      BY <3>1, <3>2
  <2>. QED
    BY <1>2, <1>4, <2>3, <2>4, <2>5 DEF Unsubmitted
<1>. QED
  BY <1>5, <1>6, <1>7, <1>8, <1>9, <1>10

\* The winners are sent; nobody else has them.
LEMMA SubmitBidsOutcomes ==
  ASSUME ServerInv, WorldTypeOK, Outcomes, NEW t \in Tasks, NEW taken, SubmitBids(t, taken)
  PROVE  Outcomes'
<1> USE DEF Outcomes
<1>1. /\ job[t].at = "send" /\ job'[t].at = "submit" /\ held[t].step = "ready"
      /\ \A u \in Tasks : job'[u].winners = job[u].winners
      /\ \A u \in Tasks \ {t} : job'[u] = job[u]
  BY GoesOnOnly DEF SubmitBids, Stages
<1>2. /\ UNCHANGED <<bidRow, auctionRow, pending, auctions, held, calls, lockKey, logs, age, overdue>>
      /\ \A b \in Bids : (b \notin job[t].winners \/ chain[b] # "unsent") => chain'[b] = chain[b]
      /\ \A b \in Bids : chain[b] = "unsent" => chain'[b] \in {"unsent", "sent", "retrying"}
  BY DEF SubmitBids, SendTransactions, storeVars, lockVars, concludeVars
<1>3. \A b \in Bids : Landed(b)' = Landed(b)
  BY <1>2 DEF Landed
<1>4. Stages' /\ HeldTaken' /\ Early' /\ WinnersOwed' /\ SubmittedShown'
  BY <1>1, <1>2 DEF Stages, Fresh, HeldTaken, Early, WinnersOwed, SubmittedShown
<1>5. Unsubmitted'
  BY <1>1, <1>2 DEF Unsubmitted, InMemory
<1>6. \A b \in Bids : \A s : Fits(b, s) => Fits(b, s)'
  BY <1>1, <1>2 DEF Fits
<1>7. CallsKnown'
  BY <1>1, <1>2, <1>3, <1>6, ServerKinds DEF CallsKnown, OwnCall
<1>8. RowsKnown'
  BY <1>2, <1>3, <1>6 DEF RowsKnown
<1>9. SentBids'
  <2> SUFFICES ASSUME NEW b \in Bids, chain'[b] # "unsent"
               PROVE  /\ b \notin pending
                      /\ \/ bidRow[b].status \in {"Submitted", "Won", "Failed", "Expired"}
                         \/ \E u \in Tasks : b \in job[u].winners
                      /\ \A u \in Tasks : b \in held[u].value.bids =>
                           b \in job[u].winners /\ job'[u].at \in {"submit", "update", "done"}
    BY <1>1, <1>2 DEF SentBids
  <2>1. CASE chain[b] # "unsent"
    BY <1>1, <2>1 DEF SentBids
  <2>2. CASE chain[b] = "unsent"
    <3>1. b \in job[t].winners /\ b \in held[t].value.bids
      BY <1>2, <2>2 DEF Stages
    <3>2. \A u \in Tasks \ {t} : b \notin held[u].value.bids
      BY <3>1 DEF ServerInv, Apart, HeldApart
    <3>3. b \notin pending
      BY <1>1, <3>1 DEF HeldTaken
    <3>. QED
      BY <1>1, <3>1, <3>2, <3>3
  <2>. QED
    BY <2>1, <2>2
<1>10. LandedLeft' /\ LogsLanded'
  BY <1>2, <1>3 DEF LandedLeft, LogsLanded, WorldTypeOK
<1>. QED
  BY <1>4, <1>5, <1>7, <1>8, <1>9, <1>10

\* The row of an auction is submitted by its own handler, once.
LEMMA SubmitRowOutcomes ==
  ASSUME ServerInv, WorldTypeOK, Outcomes, NEW t \in Tasks, SubmitRow(t)
  PROVE  Outcomes'
<1> USE DEF Outcomes
<1> DEFINE i == held[t].id
           v == [held[t].value EXCEPT !.hashed = TRUE]
           e == [step |-> "submitted", id |-> i, value |-> v]
<1>1. /\ job[t].at = "submit" /\ held[t].step = "ready" /\ i \in Auctions
      /\ ~auctionRow[i].submitted /\ auctionRow[i].inserted
  BY ServerKinds DEF SubmitRow, SubmitAuctionRow, Unsubmitted, ServerInv, ServiceInv, HeldInserted
<1>2. held' = [held EXCEPT ![t] = e] /\ e.step = "submitted" /\ e.id = i /\ e.value = v
  BY <1>1 DEF SubmitRow, SubmitAuctionRow
<1>3. v.bids = held[t].value.bids /\ v.status = held[t].value.status /\ v.hashed
  BY ServerKinds DEF HeldValues, Values
<1> HIDE DEF v, e
<1>4. /\ held'[t].step = "submitted" /\ held'[t].id = i
      /\ held'[t].value.bids = held[t].value.bids /\ held'[t].value.status = held[t].value.status
      /\ held'[t].value.hashed
      /\ \A u \in Tasks \ {t} : held'[u] = held[u]
  BY <1>2, <1>3, TasksAreClients DEF ServerInv, ServiceInv, StoreInv, StoreTypeOK
<1>5. /\ UNCHANGED <<bidRow, pending, auctions, calls, job, lockKey, logs, chain, age, overdue>>
      /\ \A a \in Auctions : /\ auctionRow'[a].inserted = auctionRow[a].inserted
                             /\ a # i => auctionRow'[a] = auctionRow[a]
  BY <1>1, <1>4
  DEF SubmitRow, SubmitAuctionRow, lockVars, concludeVars, worldVars, ServerInv, ServiceInv, StoreInv,
      StoreTypeOK
<1>6. Stages' /\ HeldTaken'
  BY <1>1, <1>4, <1>5 DEF Stages, Fresh, HeldTaken
<1>7. Early' /\ WinnersOwed' /\ LandedLeft' /\ LogsLanded' /\ SentBids'
  BY <1>4, <1>5 DEF Early, WinnersOwed, LandedLeft, Landed, LogsLanded, SentBids
<1>8. CallsKnown' /\ RowsKnown' /\ SubmittedShown'
  <2>1. CallsKnown'
    BY <1>1, <1>4, <1>5 DEF CallsKnown, OwnCall, Fits, Landed
  <2>2. RowsKnown'
    BY <1>1, <1>4, <1>5 DEF Fits, Landed, RowsKnown
  <2>3. SubmittedShown'
    BY <1>1, <1>4, <1>5 DEF SubmittedShown
  <2>. QED
    BY <2>1, <2>2, <2>3
<1>9. Unsubmitted'
  <2>1. \A u \in Tasks \ {t} : job[u].at \in {"add", "send", "submit"} => held[u].id \in Auctions \ {i}
    BY <1>1, ServerKinds DEF Stages, Fresh, ServerInv, Apart, HeldApart
  <2>2. \A u \in Tasks : held'[u].id = held[u].id
    BY <1>4
  <2>. QED
    BY <1>1, <1>4, <1>5, <2>1, <2>2 DEF Unsubmitted, InMemory, WorldTypeOK
<1>. QED
  BY <1>6, <1>7, <1>8, <1>9

\* The copy that goes to memory with the transaction hash shows the bids as
\* pending, and they still are.
LEMMA SubmitMemoryOutcomes ==
  ASSUME ServerInv, WorldTypeOK, Outcomes, NEW t \in Tasks, SubmitMemory(t)
  PROVE  Outcomes'
<1> USE DEF Outcomes
<1> DEFINE i == held[t].id
           bs == held[t].value.bids
<1>1. /\ job[t].at = "submit" /\ job'[t].at = "update" /\ job'[t].winners = job[t].winners
      /\ \A u \in Tasks \ {t} : job'[u] = job[u]
      /\ held[t].step = "submitted" /\ held'[t].step = "ready"
      /\ held'[t].value = held[t].value /\ held'[t].id = held[t].id
      /\ \A u \in Tasks \ {t} : held'[u] = held[u]
  <2>1. /\ held[t].step = "submitted" /\ held'[t].step = "ready"
        /\ held'[t].value = held[t].value /\ held'[t].id = held[t].id
        /\ \A u \in Tasks \ {t} : held'[u] = held[u]
    BY HeldStepsOn DEF SubmitMemory, SubmitAuctionMemory, HeldSteps
  <2>2. /\ job[t].at = "submit" /\ job'[t].at = "update" /\ job'[t].winners = job[t].winners
        /\ \A u \in Tasks \ {t} : job'[u] = job[u]
    BY GoesOnOnly DEF SubmitMemory
  <2>. QED
    BY <2>1, <2>2
<1>2. /\ UNCHANGED <<bidRow, auctionRow, pending, calls, lockKey, logs, chain, age, overdue>>
      /\ i \in Auctions /\ \A a \in Auctions \ {i} : auctions'[a] = auctions[a]
      /\ auctions'[i] = IF InMemory(i) THEN held[t].value ELSE auctions[i]
      /\ auctions'[i].bids = auctions[i].bids
  BY <1>1, ServerKinds
  DEF SubmitMemory, SubmitAuctionMemory, lockVars, concludeVars, worldVars, ServerInv, ServiceInv, StoreInv,
      StoreTypeOK, Apart, HeldAndMemory
<1>3. \A u \in Tasks : /\ held'[u].value = held[u].value /\ held'[u].id = held[u].id
                       /\ job'[u].winners = job[u].winners
                       /\ job'[u].at \in {"add", "send", "submit"} => u # t
                       /\ job[u].at = "done" <=> job'[u].at = "done"
                       /\ held'[u].step \in {"ready", "submitted"} <=> held[u].step \in {"ready", "submitted"}
  BY <1>1
<1>4. Stages'
  BY <1>1, <1>3 DEF Stages, Fresh
<1>5. HeldTaken'
  BY <1>2, <1>3 DEF HeldTaken
<1>6. Early' /\ WinnersOwed' /\ LandedLeft' /\ LogsLanded'
  <2>1. Early'
    BY <1>1, <1>2, <1>3 DEF Early
  <2>2. WinnersOwed'
    BY <1>1, <1>2, <1>3 DEF WinnersOwed
  <2>3. LandedLeft' /\ LogsLanded'
    BY <1>2, <1>3 DEF LandedLeft, Landed, LogsLanded
  <2>. QED
    BY <2>1, <2>2, <2>3
<1>7. SentBids'
  BY <1>1, <1>2, <1>3 DEF SentBids
<1>8. CallsKnown' /\ RowsKnown'
  <2>1. CallsKnown'
    BY <1>1, <1>2, <1>3 DEF CallsKnown, OwnCall, Fits, Landed
  <2>2. RowsKnown'
    BY <1>1, <1>2, <1>3 DEF Fits, Landed, RowsKnown
  <2>. QED
    BY <2>1, <2>2
<1>9. SubmittedShown'
  <2>1. \A b \in bs : held[t].value.status[b] = "Pending" /\ bidRow[b].status = "Pending"
    BY <1>1 DEF Stages, Early
  <2>2. CASE ~InMemory(i)
    BY <1>2, <2>2 DEF SubmittedShown
  <2>3. CASE InMemory(i)
    BY <1>2, <2>1, <2>3 DEF SubmittedShown, ServerStatuses
  <2>. QED
    BY <2>2, <2>3
<1>10. Unsubmitted'
  <2>1. held[t].value.hashed
    BY <1>1 DEF Unsubmitted
  <2>2. \A u \in Tasks \ {t} : job[u].at \in {"add", "send", "submit"} => held[u].id \in Auctions \ {i}
    BY <1>1, ServerKinds DEF Stages, Fresh, ServerInv, Apart, HeldApart
  <2>3. ASSUME NEW a \in Auctions, InMemory(a)', ~auctions'[a].hashed
        PROVE  \E u \in Tasks : held'[u].id = a /\ job'[u].at \in {"send", "submit"}
    <3>1. a # i
      BY <1>2, <2>1, <2>3 DEF InMemory
    <3>2. PICK u \in Tasks : held[u].id = a /\ job[u].at \in {"send", "submit"}
      BY <1>2, <2>3, <3>1 DEF Unsubmitted, InMemory
    <3>. QED
      BY <1>1, <3>1, <3>2
  <2>. QED
    BY <1>1, <1>2, <1>3, <2>2, <2>3 DEF Unsubmitted
<1>. QED
  BY <1>4, <1>5, <1>6, <1>7, <1>8, <1>9, <1>10

\* The winners are to be recorded as submitted and the losers, which were not
\* sent, as lost.
LEMMA UpdateBidsOutcomes ==
  ASSUME ServerInv, WorldTypeOK, Outcomes, NEW t \in Tasks, UpdateBids(t)
  PROVE  Outcomes'
<1> USE DEF Outcomes
<1> DEFINE R == {[bid |-> b, to |-> NewStatus(b, job[t].winners), auction |-> held[t].id] :
                   b \in held[t].value.bids}
<1>1. /\ job[t].at = "update" /\ job'[t].at = "done" /\ held[t].step = "ready"
      /\ \A u \in Tasks : job'[u].winners = job[u].winners
      /\ \A u \in Tasks \ {t} : job'[u] = job[u]
  BY GoesOnOnly DEF UpdateBids, ServerInv, Jobs
<1>2. /\ UNCHANGED <<bidRow, auctionRow, pending, auctions, held, lockKey, logs, chain, age, overdue>>
      /\ calls' = calls \cup [client : {t}, req : R, step : {"query"}]
  BY DEF UpdateBids, Issue, lockVars, concludeVars, worldVars
<1>3. ASSUME NEW x \in calls' \ calls
      PROVE  /\ x.step = "query" /\ x.client = t /\ x.req.bid \in held[t].value.bids
             /\ x.req.to = NewStatus(x.req.bid, job[t].winners) /\ x.req.auction = held[t].id
  <2>1. x.step = "query" /\ x.client = t /\ x.req \in R
    BY <1>2
  <2>. QED
    BY <2>1
<1>4. \A b \in job[t].winners :
        \E x \in calls' : x.client = t /\ x.req.bid = b /\ x.req.to = "Submitted" /\ x.step = "query"
  <2> SUFFICES ASSUME NEW b \in job[t].winners
               PROVE  \E x \in calls' :
                        x.client = t /\ x.req.bid = b /\ x.req.to = "Submitted" /\ x.step = "query"
    OBVIOUS
  <2> DEFINE r == [bid |-> b, to |-> NewStatus(b, job[t].winners), auction |-> held[t].id]
             x == [client |-> t, req |-> r, step |-> "query"]
  <2>1. r \in R /\ r.to = "Submitted" /\ r.bid = b
    BY DEF Stages, NewStatus
  <2>2. x \in calls' /\ x.client = t /\ x.req = r /\ x.step = "query"
    BY <1>2, <2>1
  <2>. QED
    BY <2>1, <2>2
<1> HIDE DEF R
<1>5. Stages' /\ HeldTaken' /\ LogsLanded' /\ SentBids' /\ RowsKnown'
  BY <1>1, <1>2 DEF Stages, Fresh, HeldTaken, LogsLanded, Landed, SentBids, RowsKnown, Fits
<1>6. Unsubmitted'
  BY <1>1, <1>2 DEF Unsubmitted, InMemory
<1>7. \A u \in Tasks \ {t} : held[u].value.bids \cap held[t].value.bids = {}
  BY DEF ServerInv, Apart, HeldApart
<1>8. Early'
  <2>1. ASSUME NEW u \in Tasks, job'[u].at \in {"add", "send", "submit"}, NEW b \in held[u].value.bids,
               NEW x \in calls', x.req.bid = b
        PROVE  x \in calls
    BY <1>1, <1>3, <1>7, <2>1
  <2>. QED
    BY <1>1, <1>2, <2>1 DEF Early
<1>9. WinnersOwed'
  <2>1. \A u \in Tasks \ {t} : job'[u].at = "done" => job[u].at = "done" /\ job'[u].winners = job[u].winners
    BY <1>1
  <2>2. calls \subseteq calls'
    BY <1>2
  <2>. QED
    BY <1>1, <1>2, <1>4, <2>1, <2>2 DEF WinnersOwed
<1>10. SubmittedShown' /\ LandedLeft'
  BY <1>2, <1>3, ServerKinds DEF SubmittedShown, LandedLeft, Landed
<1>11. CallsKnown'
  <2> SUFFICES ASSUME NEW x \in calls'
               PROVE  /\ bidRow[x.req.bid].status # "Absent"
                      /\ x.req.to \in ServerStatuses
                      /\ Fits(x.req.bid, x.req.to)'
                      /\ x.req.to = "Expired" /\ Landed(x.req.bid) => IsConcluded(bidRow[x.req.bid].status)
                      /\ x.client \in Tasks => OwnCall(x)'
                      /\ x.client \notin Tasks => x.req.to # "Submitted" /\ x.req.bid \notin pending
    BY <1>2 DEF CallsKnown, Landed
  <2>1. CASE x \in calls
    <3>1. x.client # t
      BY <1>1, <2>1 DEF CallsKnown, OwnCall
    <3>. QED
      BY <1>1, <1>2, <2>1, <3>1 DEF CallsKnown, OwnCall, Fits
  <2>2. CASE x \notin calls
    <3> DEFINE b == x.req.bid
    <3>1. /\ x.client = t /\ b \in held[t].value.bids /\ b \in Bids
          /\ x.req.to = NewStatus(b, job[t].winners) /\ x.req.auction = held[t].id
      BY <1>3, <2>2, ServerKinds
    <3>2. bidRow[b].status # "Absent" /\ KeyOf[b] = lockKey[t]
      BY <3>1 DEF ServerInv, Apart, AllPlaced, HeldOfKey
    <3>3. b \notin job[t].winners => chain[b] = "unsent" /\ \A u \in Tasks : b \notin job[u].winners
      BY <1>7, <3>1 DEF SentBids, Stages
    <3>. QED
      BY <1>1, <1>2, <3>1, <3>2, <3>3 DEF OwnCall, Fits, ServerStatuses, NewStatus
  <2>. QED
    BY <2>1, <2>2
<1>. QED
  BY <1>5, <1>6, <1>8, <1>9, <1>10, <1>11

\* A handler that ends has recorded its winners.
LEMMA UnlockOutcomes ==
  ASSUME ServerInv, WorldTypeOK, Outcomes, NEW t \in Tasks, UnlockAuction(t)
  PROVE  Outcomes'
<1> USE DEF Outcomes
<1>1. /\ job[t].at = "done" /\ job'[t].at = "none" /\ job'[t].winners = {}
      /\ \A u \in Tasks \ {t} : job'[u] = job[u]
      /\ held'[t] = NothingHeld /\ \A u \in Tasks \ {t} : held'[u] = held[u]
      /\ \A x \in calls : x.client # t
  BY TasksAreClients
  DEF UnlockAuction, DropAuction, Joined, ServerInv, Jobs, ServiceInv, StoreInv, StoreTypeOK
<1>2. /\ UNCHANGED <<bidRow, auctionRow, pending, auctions, calls, lockKey, logs, chain, age, overdue>>
  BY DEF UnlockAuction, Lock!Leave, concludeVars, worldVars
<1>3. \A b \in job[t].winners : bidRow[b].status \in {"Submitted", "Won", "Failed", "Expired"}
  <2> SUFFICES ASSUME NEW b \in job[t].winners
               PROVE  bidRow[b].status \in {"Submitted", "Won", "Failed", "Expired"}
    OBVIOUS
  <2>1. b \in held[t].value.bids /\ b \in Bids
    BY ServerKinds DEF Stages
  <2>2. bidRow[b].status # "Pending"
    BY <1>1 DEF WinnersOwed
  <2>3. bidRow[b].status # "Absent"
    BY <2>1 DEF ServerInv, Apart, AllPlaced
  <2>4. bidRow[b].status # "Lost"
    BY <2>1 DEF RowsKnown, Fits
  <2>. QED
    BY <2>1, <2>2, <2>3, <2>4 DEF RowsKnown, ServerStatuses
<1>4. Stages' /\ HeldTaken'
  BY <1>1, <1>2 DEF Stages, Fresh, HeldTaken, NothingHeld, Vacant
<1>5. Early' /\ WinnersOwed' /\ LogsLanded' /\ SubmittedShown'
  BY <1>1, <1>2 DEF Early, WinnersOwed, LogsLanded, Landed, SubmittedShown
<1>6. Unsubmitted'
  <2>1. ASSUME NEW a \in overdue
        PROVE  a \in Auctions /\ a # NoAuction
    BY BidStoreAssumption DEF WorldTypeOK
  <2>. QED
    BY <1>1, <1>2, <2>1 DEF Unsubmitted, InMemory, NothingHeld
<1>7. CallsKnown' /\ RowsKnown'
  BY <1>1, <1>2 DEF CallsKnown, OwnCall, Fits, Landed, RowsKnown
<1>8. SentBids'
  BY <1>1, <1>2, <1>3 DEF SentBids, NothingHeld, Vacant
<1>9. LandedLeft'
  BY <1>1, <1>2 DEF LandedLeft, Landed, NothingHeld, Vacant
<1>. QED
  BY <1>4, <1>5, <1>6, <1>7, <1>8, <1>9

\* A new bid: nothing was known of it.
LEMMA HandleBidOutcomes ==
  ASSUME ServerInv, Outcomes, NEW b \in Bids, HandleBid(b)
  PROVE  Outcomes'
<1> USE DEF Outcomes
<1>1. /\ bidRow[b].status = "Absent" /\ bidRow'[b].status = "Pending"
      /\ \A d \in Bids \ {b} : bidRow'[d] = bidRow[d]
      /\ pending' = pending \cup {b}
      /\ UNCHANGED <<auctionRow, auctions, held, calls, job, lockKey, logs, chain, age, overdue>>
  BY DEF HandleBid, AddBid, taskVars, lockVars, concludeVars, worldVars, ServerInv, ServiceInv, StoreInv,
         StoreTypeOK
<1>2. /\ \A x \in calls : x.req.bid # b
      /\ \A t \in Tasks : b \notin held[t].value.bids
      /\ \A a \in Auctions : b \notin auctions[a].bids
      /\ chain[b] = "unsent"
  BY <1>1, SentPlaced DEF CallsKnown, ServerInv, Apart, AllPlaced
<1>3. Stages' /\ HeldTaken' /\ LogsLanded' /\ LandedLeft'
  BY <1>1, <1>2 DEF Stages, Fresh, HeldTaken, LogsLanded, LandedLeft, Landed
<1>4. Unsubmitted'
  BY <1>1 DEF Unsubmitted, InMemory
<1>5. Early' /\ WinnersOwed' /\ SubmittedShown'
  BY <1>1, <1>2, ServerKinds DEF Early, WinnersOwed, SubmittedShown, Stages
<1>6. CallsKnown'
  BY <1>1, <1>2, ServerKinds DEF CallsKnown, OwnCall, Fits, Landed
<1>7. RowsKnown' /\ SentBids'
  BY <1>1, <1>2 DEF RowsKnown, Fits, Landed, ServerStatuses, SentBids
<1>. QED
  BY <1>3, <1>4, <1>5, <1>6, <1>7

\* The query of an update: what the row shows then fits, as the call did, and
\* one that would expire a bid that landed is refused.
LEMMA UpdateRowOutcomes ==
  ASSUME ServerInv, Outcomes, NEW x \in calls, Update(x), UpdateRow(x)
  PROVE  Outcomes'
<1> USE DEF Outcomes
<1> DEFINE b == x.req.bid
           z == [x EXCEPT !.step = "pending"]
           ok == CanUpdate(bidRow[x.req.bid].status, x.req.to)
<1>0. StoreTypeOK
  BY DEF ServerInv, ServiceInv, StoreInv
<1>1. /\ x.step = "query" /\ b \in Bids
      /\ UNCHANGED <<auctionRow, pending, auctions, held, job, lockKey, logs, chain, age, overdue>>
      /\ \A d \in Bids \ {b} : bidRow'[d] = bidRow[d]
      /\ ok => bidRow'[b].status = x.req.to /\ calls' = (calls \ {x}) \cup {z}
      /\ ~ok => bidRow' = bidRow /\ calls' = calls \ {x}
  BY <1>0, ServerKinds, RowMoves
  DEF Update, UpdateRow, taskVars, lockVars, concludeVars, worldVars
<1>2. z.req = x.req /\ z.client = x.client /\ z.step = "pending"
  BY ServerKinds DEF Calls
<1> HIDE DEF z
<1>3. /\ bidRow[b].status # "Absent" /\ x.req.to \in ServerStatuses /\ Fits(b, x.req.to)
      /\ x.req.to = "Expired" /\ Landed(b) => IsConcluded(bidRow[b].status)
      /\ x.client \in Tasks => OwnCall(x)
      /\ x.client \notin Tasks => x.req.to # "Submitted" /\ b \notin pending
      /\ bidRow[b].status \in ServerStatuses \cup {"Absent"}
      /\ x.req.to \in Statuses \ {"Pending"}
  BY <1>1, ServerKinds DEF CallsKnown, RowsKnown
<1>4. /\ x.req.to = "Expired" /\ ok => ~Landed(b)
      /\ IsConcluded(bidRow[b].status) => ~ok
      /\ ok => x.req.to # "Absent" /\ x.req.to # "Pending"
      /\ ok /\ x.req.to \in {"Won", "Failed"} => bidRow[b].status # "Pending"
      /\ ok /\ x.req.to # "Submitted" => x.req.to \in {"Lost", "Won", "Failed", "Expired"}
      /\ ok => bidRow[b].status \in {"Pending", "Submitted"}
      /\ bidRow[b].status = "Pending" /\ x.req.to = "Submitted" => ok
  BY <1>3 DEF CanUpdate, IsConcluded, ServerStatuses
<1>5. \A y \in calls' : \E w \in calls : /\ y.req = w.req /\ y.client = w.client
                                         /\ w # x => y = w
  BY <1>1, <1>2
<1> HIDE DEF b
<1>6. Stages' /\ HeldTaken' /\ LogsLanded' /\ LandedLeft'
  BY <1>1, <1>5 DEF Stages, Fresh, HeldTaken, LogsLanded, LandedLeft, Landed
<1>7. Unsubmitted'
  BY <1>1 DEF Unsubmitted, InMemory
<1>8. Early'
  <2> SUFFICES ASSUME NEW t \in Tasks, job[t].at \in {"add", "send", "submit"},
                      NEW d \in held[t].value.bids
               PROVE  /\ bidRow'[d].status = "Pending"
                      /\ \A y \in calls' : y.req.bid = d => y.req.to \in {"Won", "Failed"}
    BY <1>1 DEF Early
  <2>1. \A y \in calls' : y.req.bid = d => y.req.to \in {"Won", "Failed"}
    BY <1>5 DEF Early
  <2>2. bidRow[d].status = "Pending" /\ d \in Bids
    BY ServerKinds DEF Early
  <2>3. ASSUME d = b
        PROVE  bidRow'[d] = bidRow[d]
    <3>1. x.req.to \in {"Won", "Failed"}
      BY <2>3 DEF Early, b
    <3>2. bidRow[b].status = "Pending"
      BY <2>2, <2>3
    <3>3. ~ok
      BY <1>4, <3>1, <3>2
    <3>. QED
      BY <1>1, <3>3
  <2>4. d # b => bidRow'[d] = bidRow[d]
    BY <1>1, <2>2
  <2>. QED
    BY <2>1, <2>2, <2>3, <2>4
<1>9. CallsKnown'
  <2> SUFFICES ASSUME NEW y \in calls'
               PROVE  /\ bidRow'[y.req.bid].status # "Absent"
                      /\ y.req.to \in ServerStatuses
                      /\ Fits(y.req.bid, y.req.to)
                      /\ y.req.to = "Expired" /\ Landed(y.req.bid) => IsConcluded(bidRow'[y.req.bid].status)
                      /\ y.client \in Tasks => OwnCall(y)
                      /\ y.client \notin Tasks => y.req.to # "Submitted" /\ y.req.bid \notin pending
    BY <1>1 DEF CallsKnown, OwnCall, Fits, Landed
  <2>1. PICK w \in calls : y.req = w.req /\ y.client = w.client
    BY <1>5
  <2>2. /\ bidRow[y.req.bid].status # "Absent" /\ y.req.bid \in Bids
        /\ y.req.to \in ServerStatuses /\ Fits(y.req.bid, y.req.to)
        /\ y.req.to = "Expired" /\ Landed(y.req.bid) => IsConcluded(bidRow[y.req.bid].status)
        /\ y.client \in Tasks => OwnCall(y)
        /\ y.client \notin Tasks => y.req.to # "Submitted" /\ y.req.bid \notin pending
    BY <2>1, ServerKinds DEF CallsKnown, OwnCall
  <2>3. CASE y.req.bid = b
    BY <1>1, <1>4, <2>2, <2>3 DEF b
  <2>4. CASE y.req.bid # b
    BY <1>1, <2>2, <2>4 DEF b
  <2>. QED
    BY <2>2, <2>3, <2>4
<1>10. RowsKnown'
  <2>1. bidRow'[b].status \in ServerStatuses \cup {"Absent"} /\ Fits(b, bidRow'[b].status)
        /\ (bidRow'[b].status = "Expired" => ~Landed(b))
    BY <1>1, <1>3, <1>4 DEF RowsKnown, b
  <2>. QED
    BY <1>1, <2>1 DEF RowsKnown, Fits, Landed
<1>11. SentBids'
  <2>1. chain[b] # "unsent" => \/ bidRow'[b].status \in {"Submitted", "Won", "Failed", "Expired"}
                               \/ \E t \in Tasks : b \in job[t].winners
    <3>1. CASE ok
      BY <1>1, <1>3, <1>4, <3>1 DEF Fits, b, ServerStatuses
    <3>2. CASE ~ok
      BY <1>1, <3>2 DEF SentBids, b
    <3>. QED
      BY <3>1, <3>2
  <2>. QED
    BY <1>1, <2>1 DEF SentBids
<1>12. WinnersOwed'
  <2> SUFFICES ASSUME NEW t \in Tasks, job[t].at = "done", NEW d \in job[t].winners,
                      bidRow'[d].status = "Pending"
               PROVE  \E y \in calls' :
                        y.client = t /\ y.req.bid = d /\ y.req.to = "Submitted" /\ y.step = "query"
    BY <1>1 DEF WinnersOwed
  <2>1. d \in Bids
    BY ServerKinds DEF Stages
  <2>2. bidRow[d].status = "Pending" /\ (d = b => ~ok)
    BY <1>1, <1>4, <2>1 DEF b
  <2>3. PICK y \in calls : y.client = t /\ y.req.bid = d /\ y.req.to = "Submitted" /\ y.step = "query"
    BY <2>2 DEF WinnersOwed
  <2>4. y # x
    BY <1>4, <2>2, <2>3 DEF b
  <2>. QED
    BY <1>1, <2>3, <2>4
<1>13. SubmittedShown'
  <2> SUFFICES ASSUME NEW a \in Auctions, NEW d \in auctions[a].bids,
                      bidRow'[d].status = "Submitted", auctions[a].status[d] = "Pending"
               PROVE  \E y \in calls' :
                        y.client \in Tasks /\ y.req.bid = d /\ y.req.to = "Submitted" /\ y.step # "query"
    BY <1>1 DEF SubmittedShown
  <2>1. d \in Bids
    BY ServerKinds
  <2>2. CASE bidRow[d].status = "Submitted"
    <3>1. PICK y \in calls : y.client \in Tasks /\ y.req.bid = d /\ y.req.to = "Submitted" /\ y.step # "query"
      BY <2>2 DEF SubmittedShown
    <3>. QED
      BY <1>1, <3>1
  <2>3. CASE bidRow[d].status # "Submitted"
    <3>1. d = b /\ ok /\ x.req.to = "Submitted"
      BY <1>1, <2>1, <2>3
    <3>2. z \in calls' /\ x.client \in Tasks
      BY <1>1, <1>3, <3>1
    <3>. QED
      BY <1>2, <3>1, <3>2 DEF b
  <2>. QED
    BY <2>2, <2>3
<1>. QED
  BY <1>6, <1>7, <1>8, <1>9, <1>10, <1>11, <1>12, <1>13

LEMMA ForgetOutcomes ==
  ASSUME ServerInv, Outcomes, NEW x \in calls, Update(x), ForgetPending(x)
  PROVE  Outcomes'
<1> USE DEF Outcomes
<1> DEFINE z == [x EXCEPT !.step = "memory"]
<1>1. /\ x.step = "pending" /\ calls' = (calls \ {x}) \cup {z}
      /\ UNCHANGED <<bidRow, auctionRow, auctions, held, job, lockKey, logs, chain, age, overdue>>
      /\ pending' \subseteq pending
  BY DEF Update, ForgetPending, taskVars, lockVars, concludeVars, worldVars
<1>2. z.req = x.req /\ z.client = x.client /\ z.step = "memory"
  BY ServerKinds DEF Calls
<1> HIDE DEF z
<1>3. /\ \A y \in calls' : \E w \in calls : y.req = w.req /\ y.client = w.client
      /\ \A y \in calls : y.step = "query" => y \in calls'
      /\ \A y \in calls : \E w \in calls' : /\ w.req = y.req /\ w.client = y.client
                                            /\ y.step # "query" => w.step # "query"
  BY <1>1, <1>2
<1>4. Stages' /\ HeldTaken' /\ LogsLanded' /\ LandedLeft' /\ Early'
  BY <1>1, <1>3 DEF Stages, Fresh, HeldTaken, LogsLanded, LandedLeft, Landed, Early
<1>5. Unsubmitted'
  BY <1>1 DEF Unsubmitted, InMemory
<1>6. CallsKnown' /\ RowsKnown' /\ SentBids'
  <2>1. \A y \in calls' : \E w \in calls : y.req = w.req /\ y.client = w.client
    BY <1>3
  <2>2. UNCHANGED <<bidRow, held, job, lockKey, chain, age>> /\ pending' \subseteq pending
    BY <1>1
  <2>3. CallsKnown'
    BY <2>1, <2>2 DEF CallsKnown, OwnCall, Fits, Landed
  <2>4. RowsKnown'
    BY <2>2 DEF RowsKnown, Fits, Landed
  <2>5. SentBids'
    BY <2>2 DEF SentBids
  <2>. QED
    BY <2>3, <2>4, <2>5
<1>7. WinnersOwed' /\ SubmittedShown'
  BY <1>1, <1>3 DEF WinnersOwed, SubmittedShown
<1>. QED
  BY <1>4, <1>5, <1>6, <1>7

\* The auction in memory shows what was recorded: the call of a handler names
\* the auction that its bid is in.
LEMMA UpdateMemoryOutcomes ==
  ASSUME ServerInv, WorldTypeOK, Outcomes, NEW x \in calls, Update(x), UpdateMemory(x)
  PROVE  Outcomes'
<1> USE DEF Outcomes
<1> DEFINE b == x.req.bid
           i == x.req.auction
<1>1. /\ x.step = "memory" /\ calls' = calls \ {x} /\ b \in Bids
      /\ UNCHANGED <<bidRow, auctionRow, pending, held, job, lockKey, logs, chain, age, overdue>>
  BY ServerKinds DEF Update, UpdateMemory, taskVars, lockVars, concludeVars, worldVars
<1>2. /\ \A a \in Auctions : /\ auctions'[a].bids = auctions[a].bids
                             /\ auctions'[a].hashed = auctions[a].hashed
      /\ \A a \in Auctions, d \in Bids :
           auctions'[a].status[d] = IF a = i /\ d = b /\ b \in auctions[a].bids
                                      THEN x.req.to ELSE auctions[a].status[d]
  <2>1. CASE auctions' = auctions /\ ~(i \in Auctions /\ b \in auctions[i].bids)
    BY <2>1
  <2>2. CASE i \in Auctions /\ b \in auctions[i].bids /\ auctions' = [auctions EXCEPT ![i].status[b] = x.req.to]
    <3> DEFINE v == [auctions[i] EXCEPT !.status = [auctions[i].status EXCEPT ![b] = x.req.to]]
    <3>1. auctions[i] \in Values /\ auctions \in [Auctions -> Values]
      BY <2>2 DEF ServerInv, ServiceInv, StoreInv, StoreTypeOK
    <3>2. /\ v.bids = auctions[i].bids /\ v.hashed = auctions[i].hashed
          /\ v.status = [auctions[i].status EXCEPT ![b] = x.req.to]
      BY <3>1 DEF Values
    <3>3. auctions' = [auctions EXCEPT ![i] = v]
      BY <2>2
    <3>4. \A d \in Bids : v.status[d] = IF d = b THEN x.req.to ELSE auctions[i].status[d]
      BY <3>1, <3>2 DEF Values
    <3> HIDE DEF v, i, b
    <3>. QED
      BY <2>2, <3>1, <3>2, <3>3, <3>4
  <2>3. i \in Auctions \cup {NoAuction}
    BY ServerKinds DEF Calls, Requests
  <2>. QED
    BY <2>1, <2>2, <2>3, BidStoreAssumption DEF UpdateMemory
<1>3. x.req.to \in ServerStatuses /\ x.req.to # "Pending"
  BY ServerKinds DEF CallsKnown
<1>4. ASSUME NEW a \in Auctions, b \in auctions[a].bids, x.client \in Tasks, x.req.to = "Submitted"
      PROVE  a = i
  BY <1>4 DEF CallsKnown, OwnCall, Stages, HeldTaken
<1> HIDE DEF b, i
<1>5. Stages' /\ HeldTaken' /\ LogsLanded' /\ LandedLeft' /\ Early' /\ WinnersOwed'
  BY <1>1, <1>2 DEF Stages, Fresh, HeldTaken, LogsLanded, LandedLeft, Landed, Early, WinnersOwed
<1>6. Unsubmitted'
  <2>1. \A t \in Tasks : job[t].at \in {"send", "submit"} => held[t].id \in Auctions
    BY ServerKinds DEF Stages
  <2>. QED
    BY <1>1, <1>2, <2>1 DEF Unsubmitted, InMemory
<1>7. CallsKnown' /\ RowsKnown' /\ SentBids'
  BY <1>1 DEF CallsKnown, OwnCall, RowsKnown, Fits, Landed, SentBids
<1>8. SubmittedShown'
  <2> SUFFICES ASSUME NEW a \in Auctions, NEW d \in auctions[a].bids
               PROVE  /\ auctions'[a].status[d] \in ServerStatuses
                      /\ (bidRow[d].status = "Submitted" /\ auctions'[a].status[d] = "Pending") =>
                           \E y \in calls' :
                             y.client \in Tasks /\ y.req.bid = d /\ y.req.to = "Submitted" /\ y.step # "query"
    BY <1>1, <1>2 DEF SubmittedShown
  <2>1. d \in Bids
    BY ServerKinds
  <2>2. CASE a = i /\ d = b
    BY <1>2, <1>3, <2>1, <2>2
  <2>3. CASE ~(a = i /\ d = b)
    <3>1. auctions'[a].status[d] = auctions[a].status[d]
      BY <1>2, <2>1, <2>3
    <3>2. ASSUME NEW y \in calls, y.client \in Tasks, y.req.bid = d, y.req.to = "Submitted"
          PROVE  y # x
      BY <1>4, <2>3, <3>2 DEF b, i
    <3>. QED
      BY <1>1, <3>1, <3>2 DEF SubmittedShown
  <2>. QED
    BY <2>2, <2>3
<1>. QED
  BY <1>5, <1>6, <1>7, <1>8

\* What the conclusion does, and time, while no database call fails.
LEMMA ConclusionOutcomes ==
  ASSUME ServerInv, WorldTypeOK, Outcomes, faults' = 0, ConclusionNext, UNCHANGED taskVars
  PROVE  Outcomes'
<1>0. faults \in Nat /\ \A x \in calls : x.req.bid \in Bids
  BY ServerKinds, BidStoreAssumption DEF ServerInv, ServiceInv, StoreInv, StoreTypeOK
<1>1. ASSUME UNCHANGED <<storeVars, worldVars>>, logs' \subseteq logs
      PROVE  Outcomes'
  BY <1>0, <1>1, WorldOutcomes DEF worldVars, WorldTypeOK, Outcomes, Unsubmitted
<1>2. ASSUME NEW a \in Auctions, Refetch(a) \/ RefetchFails(a), UNCHANGED worldVars, logs' = logs
      PROVE  Outcomes'
  <2>1. ~RefetchFails(a)
    BY <1>0 DEF RefetchFails
  <2>2. CASE ConcludeAuction(a)
    BY <1>2, <2>2, ConcludeOutcomes
  <2>3. CASE UNCHANGED storeVars
    BY <1>1, <1>2, <2>3
  <2>. QED
    BY <1>2, <2>1, <2>2, <2>3 DEF Refetch
<1>3. ASSUME NEW a \in Auctions, Expire(a)
      PROVE  Outcomes'
  <2>1. auctionRow[a].inserted /\ \A t \in Tasks : held[t].id # a
    BY <1>3, ServerAuctionAssumption DEF Expire, ServerInv, ServiceInv, ReadableInv, FreshAuctions
  <2>. QED
    BY <1>0, <1>3, <2>1, WorldOutcomes DEF Expire, concludeVars, WorldTypeOK
<1>4. ASSUME NEW b \in Bids, Retry(b) \/ \E r \in {"ok", "err"} : Land(b, r)
      PROVE  Outcomes'
  <2>1. /\ UNCHANGED <<storeVars, age, overdue>>
        /\ \A d \in Bids : chain'[d] # chain[d] =>
             chain[d] \in {"retrying", "sent"} /\ chain'[d] \in {"sent", "ok", "err"} /\ age[d] # "aged"
        /\ \A d \in logs' : d \in logs \/ Landed(d)'
    BY <1>4 DEF Retry, Land, concludeVars, WorldTypeOK, Landed
  <2>. QED
    BY <1>0, <2>1, WorldOutcomes DEF WorldTypeOK
<1>5. ASSUME NEW b \in Bids, FallDue(b)
      PROVE  Outcomes'
  BY <1>0, <1>5, WorldOutcomes DEF FallDue, concludeVars, WorldTypeOK
<1>6. ASSUME NEW a \in Auctions, LoopEnds(a)
      PROVE  Outcomes'
  BY <1>1, <1>6 DEF LoopEnds
<1>7. ASSUME NEW b \in Bids, LoseLog(b)
      PROVE  Outcomes'
  BY <1>1, <1>7 DEF LoseLog
<1>8. ASSUME NEW a \in Auctions, Polled(a)
      PROVE  Outcomes'
  BY <1>2, <1>8 DEF Polled
<1>9. ASSUME NEW b \in Bids, NEW a \in Auctions, Logged(b, a)
      PROVE  Outcomes'
  BY <1>2, <1>9 DEF Logged
<1>. QED
  BY <1>3, <1>4, <1>5, <1>6, <1>7, <1>8, <1>9, PollOutcomes, LogOutcomes DEF ConclusionNext

LEMMA HandlerOutcomes ==
  ASSUME ServerInv, WorldTypeOK, PendingIsOpen, faults = 0, Outcomes, NEW t \in Tasks, Handler(t)
  PROVE  Outcomes'
<1>0. /\ StoreTypeOK /\ Exclusion!LockTypeOK /\ Jobs
  BY DEF ServerInv, ServiceInv, StoreInv, Exclusion!LockInv
<1>1. \A u \in Tasks \ {t} : job'[u] = job[u] /\ lockKey'[u] = lockKey[u]
  BY <1>0, OthersUntouched
<1>2. job[t].at \in {"none", "collect"} => job[t].winners = {}
  BY DEF Outcomes, Stages
<1>3. CASE (\E k \in PermissionKeys : HandleAuction(t, k)) \/ RemoveLock(t)
  <2>1. UNCHANGED <<storeVars, worldVars, logs, job>> /\ job[t].at = "none"
    BY <1>0, <1>3
    DEF HandleAuction, RemoveLock, concludeVars, Lock!GetOrCreate, Lock!Remove, Jobs, JobRecords
  <2>. QED
    BY <1>1, <1>2, <2>1, IdleOutcomes
<1>4. CASE LockAuction(t) \/ NotReady(t)
  <2>1. UNCHANGED <<storeVars, worldVars, logs>> /\ job[t].at \in {"none", "collect"}
    BY <1>0, <1>4 DEF LockAuction, NotReady, concludeVars, Lock!Acquire, Jobs, JobRecords
  <2>2. job'[t].at \in {"collect", "done"} /\ job'[t].winners = job[t].winners
    BY <1>4, GoesOnOnly DEF LockAuction, NotReady
  <2>. QED
    BY <1>1, <1>2, <2>1, <2>2, IdleOutcomes
<1>. QED
  BY <1>3, <1>4, NoWinnersOutcomes, PickWinnersOutcomes, AddRowOutcomes, AddMemoryOutcomes, SubmitBidsOutcomes,
     SubmitRowOutcomes, SubmitMemoryOutcomes, UpdateBidsOutcomes, UnlockOutcomes
  DEF Handler

\* A failure of the database is never forgotten.
LEMMA FaultsGrow ==
  ASSUME faults \in Nat, faults' = 0, [ServerNext]_serverVars
  PROVE  faults = 0 /\ ~(\E t \in Tasks : HandlerFault(t)) /\ ~(\E x \in calls : Fault(x))
<1>1. ASSUME NEW t \in Tasks, Handler(t)
      PROVE  faults' = faults
  BY <1>1
  DEF Handler, HandleAuction, LockAuction, NotReady, NoWinners, PickWinners, AddRow, AddMemory, SubmitBids, SubmitRow,
      SubmitMemory, UpdateBids, UnlockAuction, RemoveLock, AddAuctionRow, AddAuctionMemory, SubmitAuctionRow,
      SubmitAuctionMemory, storeVars
<1>2. ASSUME NEW t \in Tasks
      PROVE  ~HandlerFault(t)
  BY DEF HandlerFault, AddRowFails, SubmitRowFails
<1>3. ASSUME NEW b \in Bids, HandleBid(b) \/ OutlivePromptly(b)
      PROVE  faults' = faults
  BY <1>3 DEF HandleBid, OutlivePromptly, Outlive, AddBid, storeVars
<1>4. ASSUME NEW x \in calls, Update(x)
      PROVE  faults' = faults
  BY <1>4 DEF Update, UpdateStep, UpdateRow, ForgetPending, UpdateMemory
<1>5. ASSUME NEW x \in calls
      PROVE  ~Fault(x)
  BY DEF Fault, UpdateFault, QueryFails, AnswerLost
<1>6. ASSUME ConclusionNext
      PROVE  faults' = faults
  <2>1. ASSUME NEW a \in Auctions, Poll(a) \/ Polled(a) \/ LoopEnds(a) \/ Expire(a)
        PROVE  faults' = faults
    BY <2>1 DEF Poll, Polled, LoopEnds, Expire, Refetch, RefetchFails, ConcludeAuction, storeVars
  <2>2. ASSUME NEW b \in Bids, HandleLog(b) \/ LoseLog(b) \/ Retry(b) \/ FallDue(b)
        PROVE  faults' = faults
    BY <2>2 DEF HandleLog, LoseLog, Retry, FallDue, storeVars
  <2>3. ASSUME NEW b \in Bids, NEW r \in {"ok", "err"}, Land(b, r)
        PROVE  faults' = faults
    BY <2>3 DEF Land, storeVars
  <2>4. ASSUME NEW b \in Bids, NEW a \in Auctions, Logged(b, a)
        PROVE  faults' = faults
    BY <2>4 DEF Logged, Refetch, RefetchFails, ConcludeAuction, storeVars
  <2>. QED
    BY <1>6, <2>1, <2>2, <2>3, <2>4 DEF ConclusionNext
<1>7. ASSUME UNCHANGED serverVars
      PROVE  faults' = faults
  BY <1>7 DEF serverVars, conclusionVars, storeVars
<1>. QED
  BY <1>1, <1>2, <1>3, <1>4, <1>5, <1>6, <1>7 DEF ServerNext

LEMMA OutcomesKept ==
  ASSUME ServerInv, WorldTypeOK, PendingIsOpen, OutcomeInv, [ServerNext]_serverVars
  PROVE  OutcomeInv'
<1> SUFFICES ASSUME faults' = 0 PROVE Outcomes'
  BY DEF OutcomeInv
<1>0. faults \in Nat /\ \A x \in calls : x.req.bid \in Bids
  BY ServerKinds, BidStoreAssumption DEF ServerInv, ServiceInv, StoreInv, StoreTypeOK
<1>1. faults = 0 /\ ~(\E t \in Tasks : HandlerFault(t)) /\ ~(\E x \in calls : Fault(x))
  BY <1>0, FaultsGrow
<1>2. Outcomes
  BY <1>1 DEF OutcomeInv
<1>3. CASE \E b \in Bids : OutlivePromptly(b)
  <2>1. PICK b \in Bids : OutlivePromptly(b)
    BY <1>3
  <2>2. /\ UNCHANGED <<storeVars, taskVars, chain, logs, overdue>>
        /\ \A d \in Bids : age'[d] # age[d] => d = b /\ age[d] # "aged"
        /\ \A t \in Tasks : b \notin held[t].value.bids
        /\ \A x \in calls : x.req.bid = b => x.client \notin Tasks
    BY <2>1 DEF OutlivePromptly, Outlive, concludeVars, WorldTypeOK
  <2>. QED
    BY <1>0, <1>2, <2>2, WorldOutcomes DEF WorldTypeOK, Outcomes, LogsLanded
<1>4. CASE UNCHANGED serverVars
  <2>1. UNCHANGED <<storeVars, taskVars, chain, age, logs, overdue>>
    BY <1>4 DEF serverVars, conclusionVars, concludeVars, worldVars
  <2>. QED
    BY <1>0, <1>2, <2>1, WorldOutcomes DEF WorldTypeOK
<1>. QED
  BY <1>1, <1>2, <1>3, <1>4, HandlerOutcomes, HandleBidOutcomes, UpdateRowOutcomes, ForgetOutcomes,
     UpdateMemoryOutcomes, ConclusionOutcomes
  DEF ServerNext, Update, UpdateStep

\* The invariant behind the outcomes: as long as no database call failed, what
\* each handler, call and copy knows of a bid is what happened to it.
THEOREM ServerOutcomes == ServerSafeSpec => []OutcomeInv
<1>1. ServerInit => WorldTypeOK
  BY WorldStart DEF ServerInit
<1>2. ServerInv /\ WorldTypeOK /\ [ServerNext]_serverVars => WorldTypeOK'
  BY ServerWorld
<1>3. ServerInv /\ WorldTypeOK /\ PendingIsOpen /\ OutcomeInv /\ [ServerNext]_serverVars => OutcomeInv'
  BY OutcomesKept
<1>. QED
  BY <1>1, <1>2, <1>3, OutcomesStart, ServerInvariant, ServerPendingIsOpen, PTL DEF ServerSafeSpec

\* As long as no database call failed, the outcome recorded for a bid is what
\* happened to its transaction, for any bids, keys, auctions and handlers:
\* however late its log, its poll or its handler's own update comes, and
\* although a submission copies an old value over the memory that the poll
\* reads.
THEOREM ServerRecordedOutcome == ServerSafeSpec => []RecordedOutcome
<1>1. OutcomeInv => RecordedOutcome
  BY DEF OutcomeInv, Outcomes, RowsKnown, Fits, Landed, RecordedOutcome
<1>. QED
  BY <1>1, ServerOutcomes, PTL

\* As long as no database call failed, the handler that sent a transaction does
\* not release its key before the bid is recorded as sent or further.
THEOREM ServerSentIsRecorded == ServerSafeSpec => []SentIsRecorded
<1>1. OutcomeInv => SentIsRecorded
  BY DEF OutcomeInv, Outcomes, SentBids, SentIsRecorded
<1>. QED
  BY <1>1, ServerOutcomes, PTL

=============================================================================
