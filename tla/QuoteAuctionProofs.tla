-------------------------- MODULE QuoteAuctionProofs --------------------------
(***************************************************************************)
(* Quotes, submissions, cancellations and sweeps, with the conclusion of   *)
(* their auctions, keep what the repository and the locks promise, for any *)
(* bids, keys, auctions, requests, failures and dropped requests.          *)
(***************************************************************************)
EXTENDS QuoteAuction, ConclusionProofs

Exclusion == INSTANCE LockMapProofs WITH
  Keys <- Bids, Users <- Submitters, Droppable <- Submitters,
  NoUser <- NoSubmitter, NoKey <- NoBid

LEMMA ClientsOfQuotes ==
  /\ Quoters \subseteq Clients /\ Submitters \subseteq Clients /\ Background \in Clients
  /\ \A q \in Quoters, s \in Submitters : q # s
  /\ \A q \in Quoters : q # Background
  /\ \A s \in Submitters : s # Background
  BY QuoteAuctionAssumption, ConclusionAssumption

LEMMA WinnersAreBids ==
  ASSUME StoreTypeOK, NEW a \in Auctions
  PROVE  WinnersOf(a) \subseteq Bids /\ (WinnersOf(a) # {} => InMemory(a))
  BY DEF StoreTypeOK, Values, WinnersOf, InMemory
\* A call is added at its query.
LEMMA IssueAdds ==
  ASSUME NEW c, NEW R, Issue(c, R)
  PROVE  /\ calls \subseteq calls'
         /\ \A x \in calls' : x \in calls \/ (x.client = c /\ x.step = "query")
  BY DEF Issue

-----------------------------------------------------------------------------
\* The locks: submissions and cancellations do to them what users of LockMap do.

LEMMA LocksOfBids ==
  ASSUME StoreTypeOK, [QuoteNext]_quoteAuctionVars
  PROVE  [Exclusion!LockNext]_Exclusion!lockVars
<1>1. ASSUME NEW s \in Submitters,
             \/ \E a \in Auctions : SubmitQuote(s, a)
             \/ \E b \in Bids : CancelBid(s, b)
      PROVE  Exclusion!LockNext
  <2>1. PICK b \in Bids : Lock!GetOrCreate(s, b)
    BY <1>1, WinnersAreBids DEF SubmitQuote, CancelBid
  <2>. QED
    BY <2>1 DEF Lock!GetOrCreate, Exclusion!GetOrCreate, Lock!Unallocated, Exclusion!Unallocated,
                Exclusion!LockNext
<1>2. ASSUME NEW s \in Submitters, LockBid(s)
      PROVE  Exclusion!LockNext
  BY <1>2 DEF LockBid, Lock!Acquire, Exclusion!Acquire, Exclusion!LockNext
<1>3. ASSUME NEW s \in Submitters, UnlockBid(s)
      PROVE  Exclusion!LockNext
  BY <1>3 DEF UnlockBid, Lock!Leave, Exclusion!Leave, Exclusion!LockNext
<1>4. ASSUME NEW s \in Submitters, RemoveLock(s)
      PROVE  Exclusion!LockNext
  BY <1>4 DEF RemoveLock, Lock!Remove, Exclusion!Remove, Lock!OnlyMapRefers, Exclusion!OnlyMapRefers,
              Exclusion!LockNext
<1>5. ASSUME NEW s \in Submitters, Disconnect(s)
      PROVE  Exclusion!LockNext
  BY <1>5 DEF Disconnect, Lock!Abandon, Exclusion!Abandon, Exclusion!LockNext
<1>6. ASSUME NEW s \in Submitters,
             \/ CancelChecks(s) \/ NothingToSubmit(s) \/ PastDeadline(s) \/ WasCancelled(s)
             \/ SubmitChecked(s) \/ SubmitRow(s) \/ SubmitMemory(s) \/ RecordSubmitted(s)
             \/ \E taken \in SUBSET Bids : SendTransaction(s, taken)
             \/ SubmitFails(s)
      PROVE  UNCHANGED lockVars
  BY <1>6 DEF CancelChecks, NothingToSubmit, PastDeadline, WasCancelled, SubmitChecked, SubmitRow,
              SubmitMemory, RecordSubmitted, SendTransaction, SubmitFails
<1>7. ASSUME NEW q \in Quoters, Quoter(q) \/ QuoteFails(q) \/ RemoveStale(q) \/ UserSends(q)
      PROVE  UNCHANGED lockVars
  BY <1>7 DEF Quoter, GetQuote, CollectBids, NoBids, AddRow, AddMemory, RemoveOpportunity, OfferWinner,
              Recorded, SignBid, SignRow, SignMemory, Return, QuoteFails, RemoveStale, UserSends,
              submitVars, requestVars
<1>8. ASSUME \/ \E k \in PermissionKeys : FindInvalid(k) \/ Sweep(k)
             \/ \E b \in Bids : HandleBid(b) \/ OutlivePromptly(b)
             \/ \E x \in calls : Update(x) \/ Fault(x)
             \/ ConclusionNext /\ UNCHANGED requestVars
             \/ UNCHANGED quoteAuctionVars
      PROVE  UNCHANGED lockVars
  BY <1>8 DEF FindInvalid, Sweep, HandleBid, OutlivePromptly, Update, Fault, submitVars, requestVars,
              quoteAuctionVars
<1>9. UNCHANGED lockVars => UNCHANGED Exclusion!lockVars
  BY DEF lockVars, Exclusion!lockVars
<1>. QED
  BY <1>1, <1>2, <1>3, <1>4, <1>5, <1>6, <1>7, <1>8, <1>9 DEF QuoteNext, Submitter

LEMMA LocksOfBidsStart == QuoteInit => Exclusion!LockInv
<1>1. QuoteInit => Exclusion!LockInit
  BY DEF QuoteInit, Lock!LockInit, Exclusion!LockInit
<1>2. NoSubmitter \notin Submitters /\ NoBid \notin Bids /\ NoLock \notin Locks
  BY QuoteAuctionAssumption
<1>. QED
  BY <1>1, <1>2, Exclusion!LockInitInv DEF Exclusion!LockMapAssumption

LEMMA LocksOfBidsStep ==
  ASSUME StoreTypeOK, Exclusion!LockInv, [QuoteNext]_quoteAuctionVars
  PROVE  Exclusion!LockInv'
  BY LocksOfBids, QuoteAuctionAssumption, Exclusion!LockNextInv DEF Exclusion!LockMapAssumption

-----------------------------------------------------------------------------
\* Where requests are.

QuoteSteps == {"none", "asked", "add", "remove", "offer", "record", "sign", "submit",
               "reply", "empty", "answered", "ended"}
QuoteRecords == [at : QuoteSteps, cancellable : BOOLEAN, winner : Bids \cup {NoBid},
                 auction : Auctions \cup {NoAuction}]
JobSteps == {"none", "check", "submit", "update", "send", "done"}
JobRecords == [at : JobSteps, auction : Auctions \cup {NoAuction}]

\* A quote that is about to offer or to sign has its winner and the auction it
\* added.
QuotePlace(q) ==
  /\ quote[q].at \in {"none", "asked"} => quote[q].winner = NoBid
  /\ quote[q].at = "remove" /\ quote[q].winner # NoBid => held[q].step = "ready"
  /\ quote[q].at \in {"offer", "record", "sign"} => quote[q].winner # NoBid /\ held[q].step = "ready"

\* A submission or a cancellation works while it holds the mutex of its bid, and
\* its calls are in flight at no other time; it has the auction when it records
\* the submission.
JobPlace(s) ==
  /\ job[s].at # "none" => lockStep[s] = "critical"
  /\ job[s].at = "update" => held[s].step = "ready"

Places ==
  /\ quote \in [Quoters -> QuoteRecords]
  /\ job \in [Submitters -> JobRecords]
  /\ \A q \in Quoters : QuotePlace(q)
  /\ \A s \in Submitters : JobPlace(s)
  /\ \A x \in calls : x.client \in Submitters => job[x.client].at # "none"

\* What a step of a service of quotes does to the store is what services do.
LEMMA QuoteIsService ==
  ASSUME ServiceInv, Places, Exclusion!LockInv, [QuoteNext]_quoteAuctionVars
  PROVE  [ServiceNext]_storeVars
<1> USE ClientsOfQuotes, BidStoreAssumption
<1>1. /\ StoreTypeOK /\ HeldInserted
      /\ \A c \in Clients : held[c].step # "none" => held[c].id \in Auctions
      /\ \A c \in Clients : held[c].value.bids \subseteq Bids
  BY DEF ServiceInv, StoreInv, ReadableInv, FreshAuctions, StoreTypeOK, HeldValues, Values
<1>2. \A s \in Submitters : job[s].at # "none" => lockKey[s] \in Bids
  BY DEF Places, JobPlace, Exclusion!LockInv, Exclusion!RefsFollowSteps
<1>3. \A a \in Auctions : InMemory(a) => auctionRow[a].inserted
  BY DEF ServiceInv, ReadableInv, FreshAuctions
<1>4. ASSUME NEW q \in Quoters,
             \/ \E c \in Choices : GetQuote(q, c)
             \/ NoBids(q) \/ Recorded(q) \/ RemoveStale(q) \/ UserSends(q)
      PROVE  UNCHANGED storeVars
  BY <1>4 DEF GetQuote, NoBids, Recorded, RemoveStale, UserSends
<1>5. ASSUME NEW q \in Quoters, NEW a \in Auctions, NEW w \in Bids, CollectBids(q, a, w)
      PROVE  StoreNext
  <2>1. PendingOf(KeyWanted[q]) \in SUBSET Bids
    BY <1>1 DEF PendingOf, StoreTypeOK
  <2>. QED
    BY <1>5, <2>1 DEF CollectBids, StoreNext
<1>6. ASSUME NEW q \in Quoters, AddRow(q) \/ AddMemory(q) \/ SignRow(q) \/ SignMemory(q) \/ Return(q)
      PROVE  StoreNext
  BY <1>6 DEF AddRow, AddMemory, SignRow, SignMemory, Return, StoreNext
<1>7. ASSUME NEW q \in Quoters, RemoveOpportunity(q)
      PROVE  Fails \/ UNCHANGED storeVars
  BY <1>7 DEF RemoveOpportunity, Fails, storeVars
<1>8. ASSUME NEW q \in Quoters, OfferWinner(q)
      PROVE  Asks
  <2>1. held[q].step = "ready" /\ held[q].id \in Auctions /\ auctionRow[held[q].id].inserted
        /\ quote[q].winner \in Bids
    BY <1>1, <1>8 DEF OfferWinner, Places, QuotePlace, QuoteRecords, HeldInserted
  <2>2. ASSUME NEW x \in [client : {Background}, step : {"query"},
                          req : [bid : held[q].value.bids \ {quote[q].winner}, to : {"Lost"},
                                 auction : {held[q].id}]]
        PROVE  MayAsk(x)
    BY <1>1, <2>1 DEF MayAsk, Requests, WellFormed, Statuses
  <2>3. ASSUME NEW x \in [client : {q}, step : {"query"},
                          req : [bid : {quote[q].winner}, to : {Offered(q)}, auction : {held[q].id}]]
        PROVE  MayAsk(x)
    BY <2>1 DEF MayAsk, Requests, WellFormed, Statuses, Offered
  <2>. QED
    BY <1>8, <2>2, <2>3 DEF OfferWinner, Asks
<1>9. ASSUME NEW q \in Quoters, SignBid(q)
      PROVE  Rereads \/ UNCHANGED storeVars
  <2>1. held[q].id \in Auctions
    BY <1>1, <1>9 DEF SignBid, Places, QuotePlace
  <2>. QED
    BY <1>9, <2>1 DEF SignBid, Rereads, storeVars
<1>10. ASSUME NEW q \in Quoters, QuoteFails(q)
       PROVE  CutShort(q)
  BY <1>10 DEF QuoteFails, CutShort
<1>11. ASSUME NEW k \in PermissionKeys, FindInvalid(k)
       PROVE  UNCHANGED storeVars
  BY <1>11 DEF FindInvalid
<1>12. ASSUME NEW k \in PermissionKeys, Sweep(k)
       PROVE  Asks
  <2>1. ASSUME NEW r \in [bid : PendingOf(k), to : {"Lost"}, auction : {NoAuction}]
        PROVE  r \in Requests /\ WellFormed(r) /\ r.auction = NoAuction
    BY <1>1 DEF PendingOf, Requests, WellFormed, Statuses, StoreTypeOK
  <2>. QED
    BY <1>12, <2>1, ConclusionAsks DEF Sweep
<1>13. ASSUME NEW s \in Submitters, NEW R, Issue(s, R),
              \A r \in R : r \in Requests /\ WellFormed(r) /\ InMemory(r.auction),
              UNCHANGED <<bidRow, auctionRow, pending, auctions, held, told, faults>>
       PROVE  Asks
  BY <1>13, ConclusionAsks
<1>14. ASSUME NEW s \in Submitters, CancelChecks(s)
       PROVE  Asks
  <2>1. lockKey[s] \in Bids
    BY <1>2, <1>14 DEF CancelChecks
  <2>2. PICK as \in SUBSET {a \in Auctions : lockKey[s] \in auctions[a].bids} :
          Issue(s, [bid : {lockKey[s]}, to : {"Cancelled"}, auction : as])
    BY <1>14 DEF CancelChecks
  <2>3. ASSUME NEW r \in [bid : {lockKey[s]}, to : {"Cancelled"}, auction : as]
        PROVE  r \in Requests /\ WellFormed(r) /\ InMemory(r.auction)
    BY <2>1, <2>2 DEF Requests, WellFormed, Statuses, InMemory
  <2>. QED
    BY <1>13, <1>14, <2>2, <2>3 DEF CancelChecks
<1>15. ASSUME NEW s \in Submitters, NothingToSubmit(s)
       PROVE  Asks
  BY <1>15 DEF NothingToSubmit, Refuse, Issue, Asks
<1>16. ASSUME NEW s \in Submitters, PastDeadline(s) \/ WasCancelled(s)
       PROVE  Asks
  <2>1. job[s].auction \in Auctions
    BY <1>16 DEF PastDeadline, WasCancelled, Cancels, Places, JobRecords
  <2>2. ASSUME NEW b \in WinnersOf(job[s].auction),
               NEW to \in {"SubmissionFailedDeadline", "SubmissionFailedCancelled"}
        PROVE  LET r == [bid |-> b, to |-> to, auction |-> job[s].auction]
               IN  r \in Requests /\ WellFormed(r) /\ InMemory(r.auction)
    BY <1>1, <2>1, WinnersAreBids DEF Requests, WellFormed, Statuses
  <2>3. CASE Refuse(s, {})
    BY <2>3 DEF Refuse, Issue, Asks
  <2>4. ASSUME NEW b \in WinnersOf(job[s].auction),
               NEW to \in {"SubmissionFailedDeadline", "SubmissionFailedCancelled"},
               Refuse(s, {[bid |-> b, to |-> to, auction |-> job[s].auction]})
        PROVE  Asks
    <3> DEFINE r == [bid |-> b, to |-> to, auction |-> job[s].auction]
    <3>1. r \in Requests /\ WellFormed(r) /\ InMemory(r.auction)
      BY <2>2, <2>4
    <3>2. Issue(s, {r}) /\ UNCHANGED <<bidRow, auctionRow, pending, auctions, held, told, faults>>
      BY <2>4 DEF Refuse
    <3> HIDE DEF r
    <3>. QED
      BY <1>13, <3>1, <3>2
  <2>. QED
    BY <1>16, <2>3, <2>4 DEF PastDeadline, WasCancelled
<1>17. ASSUME NEW s \in Submitters, SubmitChecked(s)
       PROVE  Rereads
  <2>1. job[s].auction \in Auctions
    BY <1>17 DEF SubmitChecked, Cancels, Places, JobRecords
  <2>. QED
    BY <1>17, <2>1 DEF SubmitChecked, Rereads
<1>18. ASSUME NEW s \in Submitters, RecordSubmitted(s)
       PROVE  Asks
  <2>1. held[s].step = "ready" /\ held[s].id \in Auctions /\ auctionRow[held[s].id].inserted
    BY <1>1, <1>18 DEF RecordSubmitted, Places, JobPlace, HeldInserted
  <2>2. lockKey[s] \in Bids
    BY <1>2, <1>18 DEF RecordSubmitted
  <2>3. ASSUME NEW x \in [client : {s}, step : {"query"},
                          req : {[bid |-> lockKey[s], to |-> "Submitted", auction |-> held[s].id]}]
        PROVE  MayAsk(x)
    BY <2>1, <2>2 DEF MayAsk, Requests, WellFormed, Statuses
  <2>. QED
    BY <1>18, <2>3 DEF RecordSubmitted, Issue, Asks
<1>19. ASSUME NEW s \in Submitters, SubmitRow(s) \/ SubmitMemory(s) \/ UnlockBid(s)
       PROVE  StoreNext
  BY <1>19 DEF SubmitRow, SubmitMemory, UnlockBid, StoreNext
<1>20. ASSUME NEW s \in Submitters,
              \/ LockBid(s) \/ RemoveLock(s)
              \/ \E taken \in SUBSET Bids : SendTransaction(s, taken)
              \/ \E a \in Auctions : SubmitQuote(s, a)
              \/ \E b \in Bids : CancelBid(s, b)
       PROVE  UNCHANGED storeVars
  BY <1>20 DEF LockBid, RemoveLock, SendTransaction, SubmitQuote, CancelBid
<1>21. ASSUME NEW s \in Submitters, SubmitFails(s)
       PROVE  Fails
  BY <1>21 DEF SubmitFails, Fails
<1>22. ASSUME NEW s \in Submitters, Disconnect(s)
       PROVE  CutShort(s)
  BY <1>22 DEF Disconnect, CutShort
<1>23. ASSUME NEW b \in Bids, HandleBid(b) \/ OutlivePromptly(b)
       PROVE  [StoreNext]_storeVars
  BY <1>23 DEF HandleBid, OutlivePromptly, Outlive, StoreNext
<1>24. ASSUME NEW x \in calls, Update(x) \/ Fault(x)
       PROVE  StoreNext
  BY <1>24 DEF Update, Fault, StoreNext
<1>25. CASE UNCHANGED quoteAuctionVars
  BY <1>25 DEF quoteAuctionVars, conclusionVars
<1>26. ASSUME NEW q \in Quoters, Quoter(q) \/ QuoteFails(q) \/ RemoveStale(q) \/ UserSends(q)
       PROVE  [ServiceNext]_storeVars
  BY <1>26, <1>4, <1>5, <1>6, <1>7, <1>8, <1>9, <1>10 DEF Quoter, ServiceNext
<1>27. ASSUME NEW s \in Submitters,
              \/ \E a \in Auctions : SubmitQuote(s, a)
              \/ \E b \in Bids : CancelBid(s, b)
              \/ Submitter(s) \/ SubmitFails(s) \/ Disconnect(s)
       PROVE  [ServiceNext]_storeVars
  BY <1>27, <1>14, <1>15, <1>16, <1>17, <1>18, <1>19, <1>20, <1>21, <1>22 DEF Submitter, ServiceNext
<1>. QED
  BY <1>11, <1>12, <1>23, <1>24, <1>25, <1>26, <1>27, ConclusionIsService DEF QuoteNext, ServiceNext

-----------------------------------------------------------------------------
\* Requests do not meddle with each other, and keep their places.

\* What a step has to do to the jobs to keep what Places says of them.
LEMMA JobsUntouched ==
  ASSUME Places, UNCHANGED <<job, lockStep>>,
         \A s \in Submitters : held'[s] = held[s],
         \A x \in calls' : x.client \in Submitters => \E y \in calls : y.client = x.client
  PROVE  /\ job' \in [Submitters -> JobRecords]
         /\ \A s \in Submitters : JobPlace(s)'
         /\ \A x \in calls' : x.client \in Submitters => job'[x.client].at # "none"
  BY DEF Places, JobPlace

LEMMA QuotesUntouched ==
  ASSUME Places, UNCHANGED quote, \A q \in Quoters : held'[q] = held[q]
  PROVE  quote' \in [Quoters -> QuoteRecords] /\ \A q \in Quoters : QuotePlace(q)'
  BY DEF Places, QuotePlace

LEMMA QuoteStepped ==
  ASSUME Places, NEW q \in Quoters, NEW step \in QuoteSteps, QuoteGoesOn(q, step)
  PROVE  /\ quote' \in [Quoters -> QuoteRecords]
         /\ quote'[q].at = step /\ quote'[q].winner = quote[q].winner
         /\ quote'[q].auction = quote[q].auction /\ quote'[q].cancellable = quote[q].cancellable
         /\ \A r \in Quoters \ {q} : quote'[r] = quote[r]
<1> DEFINE e == [quote[q] EXCEPT !.at = step]
<1>1. /\ e \in QuoteRecords /\ e.at = step /\ e.winner = quote[q].winner
      /\ e.auction = quote[q].auction /\ e.cancellable = quote[q].cancellable
  BY DEF Places, QuoteRecords
<1>2. quote' = [quote EXCEPT ![q] = e]
  BY DEF QuoteGoesOn
<1> HIDE DEF e
<1>. QED
  BY <1>1, <1>2 DEF Places

LEMMA JobStepped ==
  ASSUME Places, NEW s \in Submitters, NEW step \in JobSteps, job' = [job EXCEPT ![s].at = step]
  PROVE  /\ job' \in [Submitters -> JobRecords]
         /\ job'[s].at = step
         /\ \A u \in Submitters \ {s} : job'[u] = job[u]
<1> DEFINE e == [job[s] EXCEPT !.at = step]
<1>1. e \in JobRecords /\ e.at = step
  BY DEF Places, JobRecords
<1>2. job' = [job EXCEPT ![s] = e]
  OBVIOUS
<1> HIDE DEF e
<1>. QED
  BY <1>1, <1>2 DEF Places

\* A quote that goes on keeps its own place.
LEMMA OwnQuoteKept ==
  ASSUME StoreTypeOK, Places, NEW q \in Quoters, Quoter(q) \/ QuoteFails(q) \/ RemoveStale(q) \/ UserSends(q)
  PROVE  /\ quote' \in [Quoters -> QuoteRecords]
         /\ QuotePlace(q)'
         /\ \A r \in Quoters \ {q} : quote'[r] = quote[r]
<1> USE ClientsOfQuotes
<1>0. quote \in [Quoters -> QuoteRecords] /\ QuotePlace(q) /\ held \in [Clients -> HeldValues]
  BY DEF Places, StoreTypeOK
<1>1. ASSUME NEW c \in Choices, GetQuote(q, c)
      PROVE  quote' \in [Quoters -> QuoteRecords] /\ QuotePlace(q)'
             /\ \A r \in Quoters \ {q} : quote'[r] = quote[r]
  <2> DEFINE e == [quote[q] EXCEPT !.at = "asked", !.cancellable = c]
  <2>1. c \in BOOLEAN
    BY <1>1, QuoteAuctionAssumption
  <2>2. e \in QuoteRecords /\ e.at = "asked" /\ e.winner = quote[q].winner /\ quote[q].at = "none"
    BY <1>0, <1>1, <2>1 DEF GetQuote, QuoteRecords, QuoteSteps
  <2>3. quote' = [quote EXCEPT ![q] = e]
    BY <1>1 DEF GetQuote
  <2> HIDE DEF e
  <2>. QED
    BY <1>0, <2>2, <2>3 DEF QuotePlace
<1>2. ASSUME NEW a \in Auctions, NEW w \in Bids, CollectBids(q, a, w)
      PROVE  quote' \in [Quoters -> QuoteRecords] /\ QuotePlace(q)'
             /\ \A r \in Quoters \ {q} : quote'[r] = quote[r]
  <2> DEFINE e == [quote[q] EXCEPT !.at = "add", !.winner = w, !.auction = a]
  <2>1. e \in QuoteRecords /\ e.at = "add"
    BY <1>0 DEF QuoteRecords, QuoteSteps
  <2>2. quote' = [quote EXCEPT ![q] = e]
    BY <1>2 DEF CollectBids
  <2> HIDE DEF e
  <2>. QED
    BY <1>0, <2>1, <2>2 DEF QuotePlace
<1>3. CASE NoBids(q)
  BY <1>0, <1>3, QuoteStepped DEF NoBids, QuotePlace, QuoteSteps
<1>4. CASE AddRow(q)
  BY <1>0, <1>4 DEF AddRow, QuotePlace, requestVars, quoteVars
<1>5. CASE AddMemory(q)
  <2>1. QuoteGoesOn(q, "remove") /\ held'[q].step = "ready"
    BY <1>0, <1>5 DEF AddMemory, AddAuctionMemory, HeldValues
  <2>. QED
    BY <2>1, QuoteStepped DEF QuotePlace, QuoteSteps
<1>6. CASE RemoveOpportunity(q)
  BY <1>0, <1>6, QuoteStepped DEF RemoveOpportunity, QuotePlace, QuoteSteps
<1>7. CASE OfferWinner(q)
  BY <1>0, <1>7, QuoteStepped DEF OfferWinner, QuotePlace, QuoteSteps
<1>8. CASE Recorded(q)
  <2>1. PICK step \in {"empty", IF quote[q].cancellable THEN "reply" ELSE "sign"} : QuoteGoesOn(q, step)
    BY <1>8 DEF Recorded
  <2>2. step \in {"empty", "reply", "sign"} /\ quote[q].at = "record" /\ held'[q] = held[q]
    BY <1>8 DEF Recorded, storeVars
  <2>. QED
    BY <1>0, <2>1, <2>2, QuoteStepped DEF QuotePlace, QuoteSteps
<1>9. CASE SignBid(q)
  BY <1>0, <1>9, QuoteStepped DEF SignBid, QuotePlace, QuoteSteps
<1>10. CASE SignRow(q) \/ SignMemory(q)
  <2>1. QuoteGoesOn(q, "reply") \/ (UNCHANGED quote /\ quote[q].at = "submit")
    BY <1>10 DEF SignRow, SignMemory
  <2>. QED
    BY <1>0, <2>1, QuoteStepped DEF QuotePlace, QuoteSteps
<1>11. CASE Return(q) \/ QuoteFails(q)
  <2>1. QuoteGoesOn(q, "answered") \/ QuoteGoesOn(q, "ended")
    BY <1>11 DEF Return, QuoteFails
  <2>. QED
    BY <1>0, <2>1, QuoteStepped DEF QuotePlace, QuoteSteps
<1>12. CASE RemoveStale(q) \/ UserSends(q)
  BY <1>0, <1>12 DEF RemoveStale, UserSends, QuotePlace, requestVars, quoteVars, storeVars
<1>. QED
  BY <1>1, <1>2, <1>3, <1>4, <1>5, <1>6, <1>7, <1>8, <1>9, <1>10, <1>11, <1>12 DEF Quoter

LEMMA QuoterKeepsPlaces ==
  ASSUME StoreTypeOK, Places, NEW q \in Quoters, Quoter(q) \/ QuoteFails(q) \/ RemoveStale(q) \/ UserSends(q)
  PROVE  Places'
<1> USE ClientsOfQuotes
<1>1. UNCHANGED <<job, lockStep>>
  BY DEF Quoter, GetQuote, CollectBids, NoBids, AddRow, AddMemory, RemoveOpportunity, OfferWinner,
         Recorded, SignBid, SignRow, SignMemory, Return, QuoteFails, RemoveStale, UserSends,
         submitVars, requestVars, lockVars
<1>2. \A c \in Clients \ {q} : held'[c] = held[c]
  <2>1. CASE \/ \E c \in Choices : GetQuote(q, c)
             \/ NoBids(q) \/ RemoveOpportunity(q) \/ OfferWinner(q) \/ Recorded(q)
             \/ RemoveStale(q) \/ UserSends(q)
    BY <2>1 DEF GetQuote, NoBids, RemoveOpportunity, OfferWinner, Recorded, RemoveStale, UserSends, storeVars
  <2>2. CASE \E a \in Auctions, w \in Bids : CollectBids(q, a, w)
    BY <2>2 DEF CollectBids, TryNew, StoreTypeOK
  <2>3. CASE AddRow(q) \/ AddMemory(q) \/ SignRow(q) \/ SignMemory(q)
    BY <2>3 DEF AddRow, AddMemory, SignRow, SignMemory, AddAuctionRow, AddAuctionMemory,
                SubmitAuctionRow, SubmitAuctionMemory, StoreTypeOK
  <2>4. CASE SignBid(q) \/ Return(q) \/ QuoteFails(q)
    BY <2>4 DEF SignBid, Return, QuoteFails, ReadAuction, DropAuction, StoreTypeOK
  <2>. QED
    BY <2>1, <2>2, <2>3, <2>4 DEF Quoter
<1>3. \A x \in calls' : x.client \in Submitters => x \in calls
  <2>1. CASE OfferWinner(q)
    BY <2>1 DEF OfferWinner
  <2>2. CASE ~OfferWinner(q)
    BY <2>2 DEF Quoter, GetQuote, CollectBids, NoBids, AddRow, AddMemory, AddAuctionRow, AddAuctionMemory,
                RemoveOpportunity, Recorded, SignBid, SignRow, SignMemory, SubmitAuctionRow,
                SubmitAuctionMemory, Return, QuoteFails, RemoveStale, UserSends, storeVars
  <2>. QED
    BY <2>1, <2>2
<1>4. \A s \in Submitters : held'[s] = held[s]
  BY <1>2
<1>5. /\ job' \in [Submitters -> JobRecords]
      /\ \A s \in Submitters : JobPlace(s)'
      /\ \A x \in calls' : x.client \in Submitters => job'[x.client].at # "none"
  BY <1>1, <1>3, <1>4, JobsUntouched
<1>6. \A r \in Quoters \ {q} : QuotePlace(r)'
  BY <1>2, OwnQuoteKept DEF Places, QuotePlace
<1>. QED
  BY <1>5, <1>6, OwnQuoteKept DEF Places

\* The steps of a submission or a cancellation, and what fails it.
Submission(s) ==
  \/ \E a \in Auctions : SubmitQuote(s, a)
  \/ \E b \in Bids : CancelBid(s, b)
  \/ Submitter(s) \/ SubmitFails(s) \/ Disconnect(s)

\* A submission or a cancellation that goes on keeps its own place.
LEMMA OwnJobKept ==
  ASSUME StoreTypeOK, Places, Exclusion!LockInv, NEW s \in Submitters, Submission(s)
  PROVE  /\ job' \in [Submitters -> JobRecords]
         /\ JobPlace(s)'
         /\ \A u \in Submitters \ {s} : job'[u] = job[u] /\ lockStep'[u] = lockStep[u]
         /\ \A x \in calls' : x.client = s => job'[s].at # "none"
<1> USE ClientsOfQuotes
<1>0. /\ job \in [Submitters -> JobRecords] /\ JobPlace(s) /\ held \in [Clients -> HeldValues]
      /\ lockStep \in [Submitters -> {"idle", "wait", "critical", "leaving"}]
      /\ \A x \in calls : x.client = s => job[s].at # "none"
  BY DEF Places, StoreTypeOK, Exclusion!LockInv, Exclusion!LockTypeOK
<1> DEFINE Kept == /\ job' \in [Submitters -> JobRecords]
                   /\ JobPlace(s)'
                   /\ \A u \in Submitters \ {s} : job'[u] = job[u] /\ lockStep'[u] = lockStep[u]
                   /\ \A x \in calls' : x.client = s => job'[s].at # "none"
<1>1. ASSUME NEW a \in Auctions, SubmitQuote(s, a)
      PROVE  Kept
  <2> DEFINE e == [at |-> "none", auction |-> a]
  <2>1. e \in JobRecords /\ e.at = "none"
    BY DEF JobRecords, JobSteps
  <2>2. /\ job' = [job EXCEPT ![s] = e] /\ lockStep[s] = "idle" /\ UNCHANGED calls
        /\ lockStep' = [lockStep EXCEPT ![s] = "wait"]
    BY <1>1 DEF SubmitQuote, Lock!GetOrCreate, storeVars
  <2> HIDE DEF e
  <2>. QED
    BY <1>0, <2>1, <2>2 DEF JobPlace
<1>2. ASSUME NEW b \in Bids, CancelBid(s, b)
      PROVE  Kept
  <2>1. /\ lockStep[s] = "idle" /\ UNCHANGED <<job, calls>>
        /\ lockStep' = [lockStep EXCEPT ![s] = "wait"]
    BY <1>2 DEF CancelBid, Lock!GetOrCreate, storeVars
  <2>. QED
    BY <1>0, <2>1 DEF JobPlace
<1>3. CASE LockBid(s)
  <2>1. job' = [job EXCEPT ![s].at = "check"] /\ lockStep' = [lockStep EXCEPT ![s] = "critical"]
    BY <1>3 DEF LockBid, Lock!Acquire
  <2>. QED
    BY <1>0, <2>1, JobStepped DEF JobPlace, JobSteps
<1>4. CASE RemoveLock(s)
  <2>1. /\ lockStep[s] = "leaving" /\ UNCHANGED <<job, calls>>
        /\ lockStep' = [lockStep EXCEPT ![s] = "idle"]
    BY <1>4 DEF RemoveLock, Lock!Remove, storeVars
  <2>. QED
    BY <1>0, <2>1 DEF JobPlace
<1>5. CASE UnlockBid(s) \/ Disconnect(s)
  <2>1. Idle \in JobRecords /\ Idle.at = "none"
    BY DEF JobRecords, JobSteps, Idle
  <2>2. /\ job' = [job EXCEPT ![s] = Idle]
        /\ \A u \in Submitters \ {s} : lockStep'[u] = lockStep[u]
        /\ \A x \in calls' : x.client # s
    BY <1>0, <1>5 DEF UnlockBid, Disconnect, Lock!Leave, Lock!Abandon, Joined
  <2>. QED
    BY <1>0, <2>1, <2>2 DEF JobPlace
<1>6. CASE \/ CancelChecks(s) \/ NothingToSubmit(s) \/ PastDeadline(s) \/ WasCancelled(s)
           \/ SubmitFails(s) \/ \E taken \in SUBSET Bids : SendTransaction(s, taken)
  <2>1. job' = [job EXCEPT ![s].at = "done"] /\ job[s].at # "none" /\ lockStep' = lockStep
    BY <1>6 DEF CancelChecks, NothingToSubmit, PastDeadline, WasCancelled, SubmitFails, SendTransaction,
                Refuse, lockVars
  <2>. QED
    BY <1>0, <2>1, JobStepped DEF JobPlace, JobSteps
<1>7. CASE SubmitChecked(s)
  <2>1. job' = [job EXCEPT ![s].at = "submit"] /\ job[s].at # "none" /\ lockStep' = lockStep
    BY <1>7 DEF SubmitChecked, lockVars
  <2>. QED
    BY <1>0, <2>1, JobStepped DEF JobPlace, JobSteps
<1>8. CASE SubmitRow(s)
  <2> DEFINE step == IF held'[s].step = "ready" THEN "update" ELSE "submit"
  <2>1. job' = [job EXCEPT ![s].at = step] /\ job[s].at # "none" /\ lockStep' = lockStep
    BY <1>8 DEF SubmitRow, lockVars
  <2>2. step \in JobSteps /\ step # "none" /\ (step = "update" => held'[s].step = "ready")
    BY DEF JobSteps
  <2> HIDE DEF step
  <2>. QED
    BY <1>0, <2>1, <2>2, JobStepped DEF JobPlace
<1>9. CASE SubmitMemory(s)
  <2>1. job' = [job EXCEPT ![s].at = "update"] /\ job[s].at # "none" /\ lockStep' = lockStep
    BY <1>9 DEF SubmitMemory, lockVars
  <2>2. held'[s].step = "ready"
    BY <1>0, <1>9 DEF SubmitMemory, SubmitAuctionMemory, HeldValues
  <2>. QED
    BY <1>0, <2>1, <2>2, JobStepped DEF JobPlace, JobSteps
<1>10. CASE RecordSubmitted(s)
  <2>1. job' = [job EXCEPT ![s].at = "send"] /\ job[s].at # "none" /\ lockStep' = lockStep
    BY <1>10 DEF RecordSubmitted, lockVars
  <2>. QED
    BY <1>0, <2>1, JobStepped DEF JobPlace, JobSteps
<1>. QED
  BY <1>1, <1>2, <1>3, <1>4, <1>5, <1>6, <1>7, <1>8, <1>9, <1>10 DEF Submission, Submitter

LEMMA SubmissionKeepsPlaces ==
  ASSUME StoreTypeOK, Places, Exclusion!LockInv, NEW s \in Submitters, Submission(s)
  PROVE  Places'
<1> USE ClientsOfQuotes
<1>1. UNCHANGED quote
  BY DEF Submission, Submitter, SubmitQuote, CancelBid, LockBid, CancelChecks, NothingToSubmit,
         PastDeadline, WasCancelled, SubmitChecked, SubmitRow, SubmitMemory, RecordSubmitted,
         SendTransaction, UnlockBid, RemoveLock, SubmitFails, Disconnect, quoteVars
<1>2. \A c \in Clients \ {s} : held'[c] = held[c]
  <2>1. CASE \/ \E a \in Auctions : SubmitQuote(s, a)
             \/ \E b \in Bids : CancelBid(s, b)
             \/ LockBid(s) \/ CancelChecks(s) \/ NothingToSubmit(s) \/ PastDeadline(s) \/ WasCancelled(s)
             \/ RecordSubmitted(s) \/ (\E taken \in SUBSET Bids : SendTransaction(s, taken))
             \/ RemoveLock(s) \/ SubmitFails(s)
    BY <2>1 DEF SubmitQuote, CancelBid, LockBid, CancelChecks, NothingToSubmit, PastDeadline, WasCancelled,
                RecordSubmitted, SendTransaction, RemoveLock, SubmitFails, Refuse, storeVars
  <2>2. CASE SubmitRow(s) \/ SubmitMemory(s)
    BY <2>2 DEF SubmitRow, SubmitMemory, SubmitAuctionRow, SubmitAuctionMemory, StoreTypeOK
  <2>3. CASE SubmitChecked(s) \/ UnlockBid(s) \/ Disconnect(s)
    BY <2>3 DEF SubmitChecked, UnlockBid, Disconnect, ReadAuction, DropAuction, StoreTypeOK
  <2>. QED
    BY <2>1, <2>2, <2>3 DEF Submission, Submitter
<1>3. \A x \in calls' : x.client \in Submitters \ {s} => x \in calls
  <2>1. CASE \/ CancelChecks(s) \/ NothingToSubmit(s) \/ PastDeadline(s) \/ WasCancelled(s)
             \/ RecordSubmitted(s)
    <3>1. \E R : Issue(s, R)
      BY <2>1 DEF CancelChecks, NothingToSubmit, PastDeadline, WasCancelled, RecordSubmitted, Refuse
    <3>. QED
      BY <3>1, IssueAdds
  <2>2. CASE \/ \E a \in Auctions : SubmitQuote(s, a)
             \/ \E b \in Bids : CancelBid(s, b)
             \/ LockBid(s) \/ (\E taken \in SUBSET Bids : SendTransaction(s, taken))
             \/ RemoveLock(s) \/ SubmitFails(s) \/ SubmitRow(s) \/ SubmitMemory(s)
             \/ SubmitChecked(s) \/ UnlockBid(s) \/ Disconnect(s)
    BY <2>2 DEF SubmitQuote, CancelBid, LockBid, SendTransaction, RemoveLock, SubmitFails, SubmitRow,
                SubmitMemory, SubmitAuctionRow, SubmitAuctionMemory, SubmitChecked, UnlockBid, Disconnect,
                storeVars
  <2>. QED
    BY <2>1, <2>2 DEF Submission, Submitter
<1>4. quote' \in [Quoters -> QuoteRecords] /\ \A q \in Quoters : QuotePlace(q)'
  BY <1>1, <1>2, QuotesUntouched
<1>5. \A u \in Submitters \ {s} : JobPlace(u)'
  BY <1>2, OwnJobKept DEF Places, JobPlace
<1>6. ASSUME NEW x \in calls', x.client \in Submitters
      PROVE  job'[x.client].at # "none"
  <2>1. CASE x.client = s
    BY <2>1, OwnJobKept
  <2>2. CASE x.client # s
    BY <1>3, <1>6, <2>2, OwnJobKept DEF Places
  <2>. QED
    BY <2>1, <2>2
<1>. QED
  BY <1>4, <1>5, <1>6, OwnJobKept DEF Places

\* An update ends a request only while it is at work.
LEMMA UpdateKeepsPlaces ==
  ASSUME StoreTypeOK, Places, NEW x \in calls, Update(x) \/ Fault(x)
  PROVE  Places'
<1> USE ClientsOfQuotes
<1>1. UNCHANGED <<held, lockStep>>
  BY DEF Update, Fault, UpdateStep, UpdateFault, UpdateRow, ForgetPending, UpdateMemory, QueryFails,
         AnswerLost, submitVars, lockVars
<1>2. \A y \in calls' : \E z \in calls : z.client = y.client
  <2>1. /\ [x EXCEPT !.step = "pending"].client = x.client
        /\ [x EXCEPT !.step = "memory"].client = x.client
    BY DEF StoreTypeOK, Calls
  <2>2. calls' \subseteq calls \cup {[x EXCEPT !.step = "pending"], [x EXCEPT !.step = "memory"]}
    BY DEF Update, Fault, UpdateStep, UpdateFault, UpdateRow, ForgetPending, UpdateMemory, QueryFails,
           AnswerLost
  <2>. QED
    BY <2>1, <2>2
<1>3. /\ quote' \in [Quoters -> QuoteRecords]
      /\ \A q \in Quoters : quote'[q] = quote[q] \/ quote'[q].at = "empty"
  <2>1. \A q \in Quoters : [quote[q] EXCEPT !.at = "empty"] \in QuoteRecords
                           /\ [quote[q] EXCEPT !.at = "empty"].at = "empty"
    BY DEF Places, QuoteRecords, QuoteSteps
  <2>2. \E P \in [Quoters -> BOOLEAN] :
          quote' = [q \in Quoters |-> IF P[q] THEN [quote[q] EXCEPT !.at = "empty"] ELSE quote[q]]
    <3>1. CASE Update(x)
      <4> DEFINE P == [q \in Quoters |-> x.client = q /\ Refused(x)]
      <4>1. P \in [Quoters -> BOOLEAN]
        BY DEF Refused
      <4>2. quote' = [q \in Quoters |-> IF P[q] THEN [quote[q] EXCEPT !.at = "empty"] ELSE quote[q]]
        BY <3>1 DEF Update
      <4>. QED
        BY <4>1, <4>2
    <3>2. CASE Fault(x)
      <4> DEFINE P == [q \in Quoters |-> x.client = q]
      <4>1. P \in [Quoters -> BOOLEAN]
        OBVIOUS
      <4>2. quote' = [q \in Quoters |-> IF P[q] THEN [quote[q] EXCEPT !.at = "empty"] ELSE quote[q]]
        BY <3>2 DEF Fault
      <4>. QED
        BY <4>1, <4>2
    <3>. QED
      BY <3>1, <3>2
  <2>. QED
    BY <2>1, <2>2 DEF Places
<1>4. /\ job' \in [Submitters -> JobRecords]
      /\ \A s \in Submitters : job'[s] = job[s] \/ (job'[s].at = "done" /\ job[s].at # "none")
  <2>1. \A s \in Submitters : [job[s] EXCEPT !.at = "done"] \in JobRecords
                              /\ [job[s] EXCEPT !.at = "done"].at = "done"
    BY DEF Places, JobRecords, JobSteps
  <2>2. CASE Update(x)
    BY <2>2 DEF Update, submitVars, Places
  <2>3. CASE Fault(x)
    BY <2>1, <2>3 DEF Fault, Places
  <2>. QED
    BY <2>2, <2>3
<1>5. \A q \in Quoters : QuotePlace(q)'
  BY <1>1, <1>3 DEF Places, QuotePlace
<1>6. \A s \in Submitters : JobPlace(s)'
  BY <1>1, <1>4 DEF Places, JobPlace
<1>7. \A y \in calls' : y.client \in Submitters => job'[y.client].at # "none"
  BY <1>2, <1>4 DEF Places
<1>. QED
  BY <1>3, <1>4, <1>5, <1>6, <1>7 DEF Places

\* The sweep, new bids, time and the conclusion of auctions leave requests alone.
LEMMA OthersKeepPlaces ==
  ASSUME StoreTypeOK, Places,
         \/ \E k \in PermissionKeys : FindInvalid(k) \/ Sweep(k)
         \/ \E b \in Bids : HandleBid(b) \/ OutlivePromptly(b)
         \/ ConclusionNext /\ UNCHANGED requestVars
         \/ UNCHANGED quoteAuctionVars
  PROVE  Places'
<1> USE ClientsOfQuotes
<1>1. UNCHANGED requestVars => UNCHANGED <<quote, job, lockStep>>
  BY DEF requestVars, quoteVars, submitVars, lockVars
<1>2. (\A a \in Auctions : Loop(a) \notin Submitters) /\ (\A b \in Bids : LogTask(b) \notin Submitters)
  BY QuoteAuctionAssumption, ConclusionAssumption
<1>3. UNCHANGED <<quote, job, lockStep, held>>
      /\ \A x \in calls' : x.client \in Submitters => x \in calls
  <2>1. CASE \E k \in PermissionKeys : FindInvalid(k) \/ Sweep(k)
    BY <2>1 DEF FindInvalid, Sweep, Issue, storeVars, submitVars, lockVars
  <2>2. CASE \E b \in Bids : HandleBid(b) \/ OutlivePromptly(b)
    BY <1>1, <2>2 DEF HandleBid, OutlivePromptly, Outlive, AddBid, storeVars
  <2>3. CASE ConclusionNext /\ UNCHANGED requestVars
    <3>1. ASSUME NEW a \in Auctions, Poll(a)
          PROVE  held' = held /\ \A x \in calls' : x.client \in Submitters => x \in calls
      BY <1>2, <3>1 DEF Poll, Issue
    <3>2. ASSUME NEW b \in Bids, HandleLog(b)
          PROVE  held' = held /\ \A x \in calls' : x.client \in Submitters => x \in calls
      BY <1>2, <3>2 DEF HandleLog, Issue
    <3>3. \/ \E a \in Auctions : Poll(a)
          \/ \E b \in Bids : HandleLog(b)
          \/ UNCHANGED <<held, calls>>
      BY <2>3 DEF ConclusionNext, Polled, LoopEnds, Expire, Logged, LoseLog, Retry, FallDue, Land,
                  Refetch, RefetchFails, ConcludeAuction, storeVars
    <3>. QED
      BY <1>1, <2>3, <3>1, <3>2, <3>3
  <2>4. CASE UNCHANGED quoteAuctionVars
    BY <1>1, <2>4 DEF quoteAuctionVars, conclusionVars, storeVars
  <2>. QED
    BY <2>1, <2>2, <2>3, <2>4
<1>. QED
  BY <1>3, JobsUntouched, QuotesUntouched DEF Places

LEMMA PlacesKept ==
  ASSUME StoreTypeOK, Places, Exclusion!LockInv, [QuoteNext]_quoteAuctionVars
  PROVE  Places'
  BY QuoterKeepsPlaces, SubmissionKeepsPlaces, UpdateKeepsPlaces, OthersKeepPlaces
  DEF QuoteNext, Submission

-----------------------------------------------------------------------------
\* The invariant of the requests, and what follows from it.

QuoteInv == ServiceInv /\ Exclusion!LockInv /\ Places

LEMMA QuoteStart == QuoteInit => QuoteInv
<1> SUFFICES ASSUME QuoteInit PROVE QuoteInv
  OBVIOUS
<1>1. ServiceInv
  BY ServiceStart DEF QuoteInit, ConclusionInit
<1>2. Idle \in JobRecords /\ Idle.at = "none"
  BY DEF Idle, JobRecords, JobSteps
<1>3. Places
  BY <1>2 DEF QuoteInit, ConclusionInit, StoreInit, Places, QuoteRecords, QuoteSteps, QuotePlace, JobPlace
<1>. QED
  BY <1>1, <1>3, LocksOfBidsStart DEF QuoteInv

LEMMA QuoteStep == QuoteInv /\ [QuoteNext]_quoteAuctionVars => QuoteInv'
<1> SUFFICES ASSUME QuoteInv, [QuoteNext]_quoteAuctionVars PROVE QuoteInv'
  OBVIOUS
<1> USE DEF QuoteInv
<1>1. StoreTypeOK
  BY DEF ServiceInv, StoreInv
<1>2. ServiceInv'
  BY QuoteIsService, ServiceKeeps
<1>. QED
  BY <1>1, <1>2, LocksOfBidsStep, PlacesKept

\* Where every request is, which mutex it holds and what it has of its auction:
\* the invariant of quotes, submissions, cancellations and sweeps with the
\* conclusion of auctions.
THEOREM QuoteInvariant == QuoteSafeSpec => []QuoteInv
  BY QuoteStart, QuoteStep, PTL DEF QuoteSafeSpec

LEMMA QuoteWorld ==
  ASSUME WorldTypeOK, QuoteInv, [QuoteNext]_quoteAuctionVars
  PROVE  WorldTypeOK'
<1>1. ASSUME NEW q \in Quoters, Quoter(q) \/ QuoteFails(q) \/ RemoveStale(q) \/ UserSends(q)
      PROVE  WorldTypeOK'
  <2>1. CASE AddMemory(q)
    BY <2>1 DEF AddMemory, SpawnLoop, worldVars, WorldTypeOK
  <2>2. CASE UserSends(q)
    BY <2>2, SentWorld DEF UserSends, concludeVars, WorldTypeOK
  <2>3. AddMemory(q) \/ UserSends(q) \/ UNCHANGED <<concludeVars, worldVars>>
    BY <1>1 DEF Quoter, GetQuote, CollectBids, NoBids, AddRow, RemoveOpportunity, OfferWinner, Recorded,
                SignBid, SignRow, SignMemory, Return, QuoteFails, RemoveStale
  <2>. QED
    BY <2>1, <2>2, <2>3 DEF concludeVars, worldVars, WorldTypeOK
<1>2. ASSUME NEW s \in Submitters, Submission(s)
      PROVE  WorldTypeOK'
  <2>1. CASE \E taken \in SUBSET Bids : SendTransaction(s, taken)
    BY <2>1, SentWorld DEF SendTransaction, concludeVars, WorldTypeOK
  <2>2. (\E taken \in SUBSET Bids : SendTransaction(s, taken)) \/ UNCHANGED <<concludeVars, worldVars>>
    BY <1>2 DEF Submission, Submitter, SubmitQuote, CancelBid, LockBid, CancelChecks, NothingToSubmit,
                PastDeadline, WasCancelled, SubmitChecked, SubmitRow, SubmitMemory, RecordSubmitted,
                UnlockBid, RemoveLock, SubmitFails, Disconnect
  <2>. QED
    BY <2>1, <2>2 DEF concludeVars, worldVars, WorldTypeOK
<1>3. ASSUME NEW k \in PermissionKeys, FindInvalid(k) \/ Sweep(k)
      PROVE  WorldTypeOK'
  BY <1>3 DEF FindInvalid, Sweep, concludeVars, worldVars, WorldTypeOK
<1>4. ASSUME NEW b \in Bids, HandleBid(b) \/ OutlivePromptly(b)
      PROVE  WorldTypeOK'
  BY <1>4 DEF HandleBid, OutlivePromptly, Outlive, concludeVars, worldVars, WorldTypeOK
<1>5. ASSUME NEW x \in calls, Update(x) \/ Fault(x)
      PROVE  WorldTypeOK'
  BY <1>5 DEF Update, Fault, concludeVars, worldVars, WorldTypeOK
<1>6. CASE UNCHANGED quoteAuctionVars
  BY <1>6 DEF quoteAuctionVars, conclusionVars, concludeVars, worldVars, WorldTypeOK
<1>. QED
  BY <1>1, <1>2, <1>3, <1>4, <1>5, <1>6, ConclusionWorld DEF QuoteNext, Submission

\* The opportunities in memory are those of quotes, and the keys to sweep are
\* permission keys.
LEMMA SweptKeys ==
  ASSUME live \subseteq Quoters, sweeping \subseteq PermissionKeys, [QuoteNext]_quoteAuctionVars
  PROVE  live' \subseteq Quoters /\ sweeping' \subseteq PermissionKeys
<1>1. ASSUME NEW q \in Quoters, Quoter(q) \/ QuoteFails(q) \/ RemoveStale(q) \/ UserSends(q)
      PROVE  sweeping' = sweeping /\ live' \subseteq live \cup {q}
  BY <1>1 DEF Quoter, GetQuote, CollectBids, NoBids, AddRow, AddMemory, RemoveOpportunity, OfferWinner,
              Recorded, SignBid, SignRow, SignMemory, Return, QuoteFails, RemoveStale, UserSends,
              requestVars, quoteVars
<1>2. ASSUME NEW s \in Submitters, Submission(s)
      PROVE  UNCHANGED <<sweeping, live>>
  BY <1>2 DEF Submission, Submitter, SubmitQuote, CancelBid, LockBid, CancelChecks, NothingToSubmit,
              PastDeadline, WasCancelled, SubmitChecked, SubmitRow, SubmitMemory, RecordSubmitted,
              SendTransaction, UnlockBid, RemoveLock, SubmitFails, Disconnect, quoteVars
<1>3. ASSUME NEW k \in PermissionKeys, FindInvalid(k) \/ Sweep(k)
      PROVE  live' = live /\ sweeping' \subseteq sweeping \cup {k}
  BY <1>3 DEF FindInvalid, Sweep
<1>4. CASE \/ \E b \in Bids : HandleBid(b) \/ OutlivePromptly(b)
           \/ \E x \in calls : Update(x) \/ Fault(x)
           \/ ConclusionNext /\ UNCHANGED requestVars
           \/ UNCHANGED quoteAuctionVars
  BY <1>4 DEF HandleBid, OutlivePromptly, Update, Fault, requestVars, quoteVars, quoteAuctionVars
<1>. QED
  BY <1>1, <1>2, <1>3, <1>4 DEF QuoteNext, Submission

\* Everything the requests and the conclusion keep stays of its type.
THEOREM QuoteTypes == QuoteSafeSpec => []QuoteTypeOK
<1> DEFINE Swept == live \subseteq Quoters /\ sweeping \subseteq PermissionKeys
<1>1. QuoteInit => WorldTypeOK /\ Swept
  BY WorldStart DEF QuoteInit
<1>2. QuoteInv /\ WorldTypeOK /\ Swept /\ [QuoteNext]_quoteAuctionVars => WorldTypeOK' /\ Swept'
  BY QuoteWorld, SweptKeys
<1>3. QuoteInv /\ WorldTypeOK /\ Swept => QuoteTypeOK
  BY ConclusionTypes
  DEF QuoteInv, ServiceInv, StoreInv, Exclusion!LockInv, Exclusion!LockTypeOK, Lock!LockTypeOK, Places,
      QuoteRecords, QuoteSteps, JobRecords, JobSteps, QuoteTypeOK
<1> HIDE DEF Swept
<1>. QED
  BY <1>1, <1>2, <1>3, QuoteInvariant, PTL DEF QuoteSafeSpec

\* A submission and a cancellation of the same bid exclude each other, although
\* the mutex of the bid comes and goes and callers disconnect while they hold it
\* or wait for it.
THEOREM QuoteMutualExclusion == QuoteSafeSpec => []Exclusion!MutualExclusion
<1>1. QuoteInv => Exclusion!MutualExclusion
  BY Exclusion!InvExcludes, QuoteAuctionAssumption DEF QuoteInv, Exclusion!LockMapAssumption
<1>. QED
  BY <1>1, QuoteInvariant, PTL

\* Memory is never ahead of the table, also with quotes, submissions,
\* cancellations and sweeps that write it without waiting for each other, and
\* with requests that are dropped half way.
THEOREM QuoteMemoryNeverAhead == QuoteSafeSpec => []MemoryNeverAhead
<1>1. QuoteInv => MemoryNeverAhead
  BY DEF QuoteInv, ServiceInv, StoreInv
<1>. QED
  BY <1>1, QuoteInvariant, PTL

\* Every row that they write can be read back, and an auction that was concluded
\* does not come back to memory when a late submission writes its copy.
THEOREM QuoteRowReadable == QuoteSafeSpec => [](RowReadable /\ ConcludedStaysOut)
<1>1. QuoteInv => RowReadable /\ ConcludedStaysOut
  BY DEF QuoteInv, ServiceInv, ReadableInv
<1>. QED
  BY <1>1, QuoteInvariant, PTL

\* A bid that a quote finds pending is open, or the call that closed it has not
\* come to drop it yet: while nothing fails no quote is made of a closed bid.
THEOREM QuotePendingIsOpen == QuoteSafeSpec => []PendingIsOpen
<1>1. QuoteInit => PendingIsOpen
  BY PendingOpenStart DEF QuoteInit, ConclusionInit
<1>2. QuoteInv /\ PendingIsOpen /\ [QuoteNext]_quoteAuctionVars => PendingIsOpen'
  BY QuoteIsService, PendingServiceInv DEF QuoteInv, ServiceInv, StoreInv
<1>. QED
  BY <1>1, <1>2, QuoteInvariant, PTL DEF QuoteSafeSpec

\* The requests and the conclusion of their auctions together keep what the
\* ledger promises.
THEOREM QuoteImplementsLedger == QuoteSafeSpec => LedgerImplemented
<1>1. QuoteInit => Ledger!LedgerInit
  BY LedgerStart DEF QuoteInit, ConclusionInit
<1>2. QuoteInv /\ [QuoteNext]_quoteAuctionVars => [Ledger!LedgerNext]_(Ledger!ledgerVars)
  BY QuoteIsService, ServiceLedger DEF QuoteInv, ServiceInv
<1>. QED
  BY <1>1, <1>2, QuoteInvariant, PTL DEF QuoteSafeSpec, LedgerImplemented, Ledger!LedgerSpec
-----------------------------------------------------------------------------
\* What a quote offers is its own, and what memory shows as offered was offered.

\* The statuses that only the winner of an auction gets, those of its offer, of
\* its withdrawal, and those it may have once it is sent.
Offers == {"AwaitingSignature", "SentToUser"}
Withdrawn == {"Cancelled", "SubmissionFailedCancelled", "SubmissionFailedDeadline"}
Winning == Offers \cup {"Submitted"} \cup Withdrawn
Sent == {"SentToUser", "Submitted", "Won", "Failed", "Expired"}

\* Bid b was offered in auction a, by a quote: its row says so, unless it expired.
WonIn(a, b) ==
  /\ bidRow[b].status \notin {"Absent", "Pending", "Lost"}
  /\ bidRow[b].status # "Expired" => bidRow[b].auction = a
  /\ \E q \in Quoters : quote[q].auction = a /\ quote[q].winner = b

\* It was, and subscribers heard of it.
Shown(a, b) == WonIn(a, b) /\ \E to \in Offers : <<b, to>> \in told

\* A quote keeps the auction it named and has it in its hands while it works on
\* it; it signs and submits only what its user cannot cancel.
Working == {"add", "remove", "offer", "record", "sign", "submit"}

QuoteName(q) ==
  /\ quote[q].winner = NoBid <=> quote[q].auction = NoAuction
  /\ quote[q].at \in Working /\ quote[q].winner # NoBid => held[q].id = quote[q].auction
  /\ quote[q].at \in {"sign", "submit"} => ~quote[q].cancellable

QuoteNames == \A q \in Quoters : QuoteName(q)

\* What memory, or a copy of it, shows as offered or as more was offered there.
MemoryShows ==
  \A a \in Auctions : \A b \in auctions[a].bids :
    auctions[a].status[b] \in Winning => Shown(a, b)

HeldShows ==
  \A c \in Clients : \A b \in held[c].value.bids :
    held[c].value.status[b] \in Winning =>
      held[c].step \notin {"made", "inserted"} /\ Shown(held[c].id, b)

\* A quote has one call at a time, for the offer of its winner.
CallOfQuote(x) ==
  x.client \in Quoters =>
    /\ quote[x.client].at = "record"
    /\ x.req = [bid |-> quote[x.client].winner, to |-> Offered(x.client),
                auction |-> quote[x.client].auction]
    /\ \A y \in calls : y.client = x.client => y = x

\* Only quotes ask for offers, and only submissions and cancellations for what
\* comes after; that of a bid that was sent to its user never fails for being late.
CallOfWinner(x) ==
  /\ x.req.to \in Offers =>
       x.client \in Quoters /\ (x.step # "query" => WonIn(x.req.auction, x.req.bid))
  /\ x.req.to \in Winning \ Offers =>
       x.client \in Submitters /\ Shown(x.req.auction, x.req.bid)
  /\ x.req.to = "SubmissionFailedDeadline" => bidRow[x.req.bid].status # "SentToUser"

CallsShow == \A x \in calls : CallOfQuote(x) /\ CallOfWinner(x)

\* A submission is of a bid that its auction offered.
JobShows(s) ==
  /\ job[s].at \in {"submit", "update", "send"} => job[s].auction # NoAuction
  /\ job[s].auction # NoAuction =>
       /\ lockStep[s] \in {"wait", "critical"}
       /\ Shown(job[s].auction, lockKey[s])
       /\ job[s].at \in {"submit", "update"} => held[s].id = job[s].auction

JobsShow == \A s \in Submitters : JobShows(s)

\* The update of the winner was made.
Applied(q) ==
  \/ quote[q].at \in {"sign", "submit", "reply", "answered"}
  \/ quote[q].at = "record" /\ \A x \in calls : x.client = q => x.step # "query"

AnswersStand ==
  \A q \in Quoters : Applied(q) =>
    /\ quote[q].winner \in Bids
    /\ WonIn(quote[q].auction, quote[q].winner)
    /\ ~quote[q].cancellable => bidRow[quote[q].winner].status \in Sent
    /\ \A r \in Quoters \ {q} : Applied(r) => quote[r].winner # quote[q].winner

\* What has been recorded, to be broadcast or broadcast.
Recordings == told \cup {<<x.req.bid, x.req.to>> : x \in {y \in calls : y.step # "query"}}

\* A bid is offered once, in one way.
OneOffer ==
  \A b \in Bids : ~(<<b, "AwaitingSignature">> \in Recordings /\ <<b, "SentToUser">> \in Recordings)

OfferInv ==
  /\ QuoteNames
  /\ MemoryShows
  /\ HeldShows
  /\ CallsShow
  /\ JobsShow
  /\ AnswersStand
  /\ OneOffer
-----------------------------------------------------------------------------
\* What a step does to rows, memory and the values of clients, whoever takes it.

LEMMA RowSteps ==
  ASSUME StoreTypeOK, [ServiceNext]_storeVars
  PROVE  \/ UNCHANGED bidRow
         \/ \E b \in Bids : /\ bidRow[b].status = "Absent"
                            /\ bidRow' = [bidRow EXCEPT ![b].status = "Pending"]
         \/ \E x \in calls : /\ x.step = "query"
                             /\ CanUpdate(bidRow[x.req.bid].status, x.req.to)
                             /\ bidRow' = [bidRow EXCEPT ![x.req.bid] = RowAfter(x.req)]
<1>1. CASE StoreNext
  BY <1>1 DEF StoreNext, AddBid, TryNew, AddAuctionRow, AddAuctionMemory, ReadAuction, DropAuction,
              SubmitAuctionRow, SubmitAuctionMemory, Issue, ConcludeAuction, UpdateStep, UpdateFault,
              UpdateRow, ForgetPending, UpdateMemory, QueryFails, AnswerLost
<1>2. CASE ~StoreNext
  BY <1>2 DEF ServiceNext, Asks, Fails, Rereads, CutShort, storeVars
<1>. QED
  BY <1>1, <1>2

LEMMA ToldGrows ==
  ASSUME StoreTypeOK, [ServiceNext]_storeVars
  PROVE  told \subseteq told'
<1>1. CASE StoreNext
  BY <1>1 DEF StoreNext, AddBid, TryNew, AddAuctionRow, AddAuctionMemory, ReadAuction, DropAuction,
              SubmitAuctionRow, SubmitAuctionMemory, Issue, ConcludeAuction, UpdateStep, UpdateFault,
              UpdateRow, ForgetPending, UpdateMemory, QueryFails, AnswerLost
<1>2. CASE ~StoreNext
  BY <1>2 DEF ServiceNext, Asks, Fails, Rereads, CutShort, storeVars
<1>. QED
  BY <1>1, <1>2

\* An update tells memory.
LEMMA MemoryUpdated ==
  ASSUME StoreTypeOK, NEW x \in calls, UpdateMemory(x), NEW a \in Auctions, NEW b \in auctions'[a].bids
  PROVE  /\ b \in auctions[a].bids
         /\ \/ /\ x.req.auction = a /\ x.req.bid = b
               /\ auctions'[a].status[b] = x.req.to /\ <<b, x.req.to>> \in told'
            \/ /\ ~(x.req.auction = a /\ x.req.bid = b)
               /\ auctions'[a].status[b] = auctions[a].status[b]
<1>0. auctions \in [Auctions -> Values] /\ a # NoAuction
  BY BidStoreAssumption DEF StoreTypeOK
<1>1. x.req.auction \in Auctions \cup {NoAuction} /\ x.req.bid \in Bids
  BY DEF StoreTypeOK, Calls, Requests
<1>2. CASE auctions' = auctions /\ ~(x.req.auction # NoAuction /\ x.req.bid \in auctions[x.req.auction].bids)
  BY <1>0, <1>2
<1>3. CASE /\ x.req.auction # NoAuction /\ x.req.bid \in auctions[x.req.auction].bids
           /\ auctions' = [auctions EXCEPT ![x.req.auction].status[x.req.bid] = x.req.to]
  <2>1. x.req.auction \in Auctions /\ auctions[x.req.auction].status \in [Bids -> RowStatuses]
    BY <1>0, <1>1, <1>3 DEF Values
  <2>2. told' = told \cup {<<x.req.bid, x.req.to>>}
    BY DEF UpdateMemory
  <2> DEFINE e == [auctions[x.req.auction] EXCEPT !.status[x.req.bid] = x.req.to]
  <2>3. /\ e.bids = auctions[x.req.auction].bids
        /\ \A d \in Bids : e.status[d] = IF d = x.req.bid THEN x.req.to ELSE auctions[x.req.auction].status[d]
    BY <1>0, <1>1, <2>1 DEF Values
  <2>4. auctions' = [auctions EXCEPT ![x.req.auction] = e]
    BY <1>3
  <2>5. auctions[a].bids \subseteq Bids
    BY <1>0 DEF Values
  <2> HIDE DEF e
  <2>6. CASE a # x.req.auction
    BY <1>0, <2>1, <2>4, <2>6
  <2>7. CASE a = x.req.auction
    <3>1. auctions'[a] = e
      BY <1>0, <2>1, <2>4, <2>7
    <3>2. b \in auctions[a].bids
      BY <2>3, <2>7, <3>1
    <3>. QED
      BY <1>1, <2>2, <2>3, <2>5, <2>7, <3>1, <3>2
  <2>. QED
    BY <2>6, <2>7
<1>. QED
  BY <1>2, <1>3 DEF UpdateMemory

\* A client writes its copy of an auction to memory.
LEMMA MemoryWritten ==
  ASSUME StoreTypeOK, FreshAuctions, NEW c \in Clients, AddAuctionMemory(c) \/ SubmitAuctionMemory(c),
         NEW a \in Auctions, NEW b \in auctions'[a].bids
  PROVE  \/ b \in auctions[a].bids /\ auctions'[a].status[b] = auctions[a].status[b]
         \/ /\ held[c].step \in {"inserted", "submitted"} /\ held[c].id = a
            /\ b \in held[c].value.bids /\ auctions'[a].status[b] = held[c].value.status[b]
<1>0. /\ auctions \in [Auctions -> Values]
      /\ held[c].step # "none" => held[c].id \in Auctions
  BY DEF StoreTypeOK, FreshAuctions
<1>1. held[c].step \in {"inserted", "submitted"} /\ held[c].id \in Auctions
  BY <1>0 DEF AddAuctionMemory, SubmitAuctionMemory
<1>2. auctions' = [auctions EXCEPT ![held[c].id] = held[c].value] \/ auctions' = auctions
  BY DEF AddAuctionMemory, SubmitAuctionMemory
<1>3. CASE auctions' = auctions
  BY <1>3
<1>4. CASE auctions' = [auctions EXCEPT ![held[c].id] = held[c].value]
  BY <1>0, <1>1, <1>4
<1>. QED
  BY <1>2, <1>3, <1>4

\* A status in memory was there, or in a copy that is written back, or is that
\* of an update.
LEMMA MemorySteps ==
  ASSUME StoreTypeOK, FreshAuctions, [ServiceNext]_storeVars,
         NEW a \in Auctions, NEW b \in auctions'[a].bids
  PROVE  \/ b \in auctions[a].bids /\ auctions'[a].status[b] = auctions[a].status[b]
         \/ \E c \in Clients :
              /\ held[c].step \in {"inserted", "submitted"} /\ held[c].id = a
              /\ b \in held[c].value.bids /\ auctions'[a].status[b] = held[c].value.status[b]
         \/ \E x \in calls :
              /\ x.step = "memory" /\ x.req.auction = a /\ x.req.bid = b
              /\ b \in auctions[a].bids /\ auctions'[a].status[b] = x.req.to
              /\ <<b, x.req.to>> \in told'
<1>1. CASE \E c \in Clients : AddAuctionMemory(c) \/ SubmitAuctionMemory(c)
  BY <1>1, MemoryWritten
<1>2. ASSUME NEW e \in Auctions, ConcludeAuction(e)
      PROVE  b \in auctions[a].bids /\ auctions'[a].status[b] = auctions[a].status[b]
  BY <1>2 DEF ConcludeAuction, Vacant, StoreTypeOK
<1>3. CASE \E x \in calls : UpdateMemory(x)
  <2>1. PICK x \in calls : UpdateMemory(x)
    BY <1>3
  <2>2. x.step = "memory"
    BY <2>1 DEF UpdateMemory
  <2>3. /\ b \in auctions[a].bids
        /\ \/ /\ x.req.auction = a /\ x.req.bid = b
              /\ auctions'[a].status[b] = x.req.to /\ <<b, x.req.to>> \in told'
           \/ auctions'[a].status[b] = auctions[a].status[b]
    BY <2>1, MemoryUpdated
  <2>. QED
    BY <2>2, <2>3
<1>4. CASE UNCHANGED auctions
  BY <1>4
<1>5. \/ \E c \in Clients : AddAuctionMemory(c) \/ SubmitAuctionMemory(c)
      \/ \E e \in Auctions : ConcludeAuction(e)
      \/ \E x \in calls : UpdateMemory(x)
      \/ UNCHANGED auctions
  <2>1. CASE StoreNext
    BY <2>1 DEF StoreNext, AddBid, AddAuctionRow, SubmitAuctionRow, UpdateStep, UpdateFault,
                UpdateRow, ForgetPending, QueryFails, AnswerLost
  <2>2. CASE ~StoreNext
    BY <2>2 DEF ServiceNext, Asks, Fails, Rereads, CutShort, storeVars
  <2>. QED
    BY <2>1, <2>2
<1>. QED
  BY <1>1, <1>2, <1>3, <1>4, <1>5

\* What a client has of an auction it had, or read from memory, or made.
CopyFrom(c, b) ==
  \/ /\ b \in held[c].value.bids /\ held'[c].value.status[b] = held[c].value.status[b]
     /\ held'[c].id = held[c].id
     /\ held'[c].step \in {"made", "inserted"} => held[c].step \in {"made", "inserted"}
  \/ \E a \in Auctions :
       /\ held'[c].step = "ready" /\ held'[c].id = a
       /\ b \in auctions[a].bids /\ held'[c].value.status[b] = auctions[a].status[b]
  \/ held'[c].value.status[b] = "Pending"

LEMMA CopySteps ==
  ASSUME StoreTypeOK, [ServiceNext]_storeVars, NEW c \in Clients
  PROVE  \A b \in held'[c].value.bids : CopyFrom(c, b)
<1> SUFFICES ASSUME NEW b \in held'[c].value.bids
             PROVE  CopyFrom(c, b)
  OBVIOUS
<1>0. held \in [Clients -> HeldValues]
  BY DEF StoreTypeOK
<1>2. ASSUME NEW d \in Clients, \E a \in Auctions, bs \in SUBSET Bids, h \in BOOLEAN : TryNew(d, a, bs, h)
      PROVE  CopyFrom(c, b)
  BY <1>0, <1>2 DEF TryNew, CopyFrom
<1>3. ASSUME NEW d \in Clients, AddAuctionRow(d) \/ AddAuctionMemory(d) \/ SubmitAuctionMemory(d)
      PROVE  CopyFrom(c, b)
  <2>1. PICK step \in {"inserted", "ready"} :
          held' = [held EXCEPT ![d].step = step] /\ (step = "inserted" => held[d].step = "made")
    BY <1>3 DEF AddAuctionRow, AddAuctionMemory, SubmitAuctionMemory
  <2> DEFINE e == [held[d] EXCEPT !.step = step]
  <2>2. e.step = step /\ e.id = held[d].id /\ e.value = held[d].value
    BY <1>0 DEF HeldValues
  <2>3. held' = [held EXCEPT ![d] = e]
    BY <2>1
  <2> HIDE DEF e
  <2>4. CASE c # d
    BY <1>0, <2>3, <2>4 DEF CopyFrom
  <2>5. CASE c = d
    <3>1. held'[c] = e
      BY <1>0, <2>3, <2>5
    <3>. QED
      BY <2>1, <2>2, <2>5, <3>1 DEF CopyFrom
  <2>. QED
    BY <2>4, <2>5
<1>4. ASSUME NEW d \in Clients, SubmitAuctionRow(d)
      PROVE  CopyFrom(c, b)
  <2>1. CASE held' = held
    BY <2>1 DEF CopyFrom
  <2>2. CASE held' = [held EXCEPT ![d] =
                 [step |-> "submitted", id |-> held[d].id,
                  value |-> [held[d].value EXCEPT !.hashed = TRUE]]]
    <3> DEFINE v == [held[d].value EXCEPT !.hashed = TRUE]
    <3>1. v.bids = held[d].value.bids /\ v.status = held[d].value.status
      BY <1>0 DEF HeldValues, Values
    <3>2. held' = [held EXCEPT ![d] = [step |-> "submitted", id |-> held[d].id, value |-> v]]
      BY <2>2
    <3> HIDE DEF v
    <3>. QED
      BY <1>0, <3>1, <3>2 DEF CopyFrom
  <2>. QED
    BY <1>4, <2>1, <2>2 DEF SubmitAuctionRow
<1>5. ASSUME NEW d \in Clients, NEW a \in Auctions, ReadAuction(d, a)
      PROVE  CopyFrom(c, b)
  BY <1>0, <1>5 DEF ReadAuction, CopyFrom
<1>6. ASSUME NEW d \in Clients, DropAuction(d)
      PROVE  CopyFrom(c, b)
  BY <1>0, <1>6 DEF DropAuction, NothingHeld, Vacant, CopyFrom
<1>7. CASE UNCHANGED held
  BY <1>7 DEF CopyFrom
<1>8. \/ \E d \in Clients :
           \/ \E a \in Auctions, bs \in SUBSET Bids, h \in BOOLEAN : TryNew(d, a, bs, h)
           \/ AddAuctionRow(d) \/ AddAuctionMemory(d) \/ SubmitAuctionMemory(d)
           \/ SubmitAuctionRow(d) \/ DropAuction(d)
           \/ \E a \in Auctions : ReadAuction(d, a)
      \/ UNCHANGED held
  <2>1. CASE StoreNext
    BY <2>1 DEF StoreNext, AddBid, ConcludeAuction, UpdateStep, UpdateFault, UpdateRow,
                ForgetPending, UpdateMemory, QueryFails, AnswerLost
  <2>2. CASE ~StoreNext
    BY <2>2 DEF ServiceNext, Asks, Fails, Rereads, CutShort, storeVars
  <2>. QED
    BY <2>1, <2>2
<1>. QED
  BY <1>2, <1>3, <1>4, <1>5, <1>6, <1>7, <1>8

\* What is recorded was before, but for what a query records now.
LEMMA RecordingSteps ==
  ASSUME StoreTypeOK, [ServiceNext]_storeVars
  PROVE  \/ Recordings' \subseteq Recordings
         \/ \E x \in calls :
              /\ x.step = "query" /\ CanUpdate(bidRow[x.req.bid].status, x.req.to)
              /\ Recordings' \subseteq Recordings \cup {<<x.req.bid, x.req.to>>}
<1>1. ASSUME told' = told, \A x \in calls' : x \in calls \/ x.step = "query"
      PROVE  Recordings' \subseteq Recordings
  BY <1>1 DEF Recordings
<1>2. ASSUME NEW x \in calls, UpdateRow(x)
      PROVE  /\ x.step = "query"
             /\ \/ Recordings' \subseteq Recordings
                \/ /\ CanUpdate(bidRow[x.req.bid].status, x.req.to)
                   /\ Recordings' \subseteq Recordings \cup {<<x.req.bid, x.req.to>>}
  <2>1. /\ [x EXCEPT !.step = "pending"].req = x.req
        /\ calls' \subseteq calls \cup {[x EXCEPT !.step = "pending"]}
        /\ CanUpdate(bidRow[x.req.bid].status, x.req.to) \/ calls' \subseteq calls
        /\ told' = told /\ x.step = "query"
    BY <1>2 DEF UpdateRow, StoreTypeOK, Calls
  <2>. QED
    BY <2>1 DEF Recordings
<1>3. ASSUME NEW x \in calls, ForgetPending(x)
      PROVE  Recordings' \subseteq Recordings
  <2>1. /\ [x EXCEPT !.step = "memory"].req = x.req
        /\ calls' \subseteq calls \cup {[x EXCEPT !.step = "memory"]}
        /\ told' = told /\ x.step # "query"
    BY <1>3 DEF ForgetPending, StoreTypeOK, Calls
  <2>. QED
    BY <2>1 DEF Recordings
<1>4. ASSUME NEW x \in calls, UpdateMemory(x)
      PROVE  Recordings' \subseteq Recordings
  <2>1. /\ told' = told \cup {<<x.req.bid, x.req.to>>} /\ x.step # "query"
        /\ calls' \subseteq calls
    BY <1>4 DEF UpdateMemory
  <2>. QED
    BY <2>1 DEF Recordings
<1>5. \/ told' = told /\ \A x \in calls' : x \in calls \/ x.step = "query"
      \/ \E x \in calls : UpdateRow(x) \/ ForgetPending(x) \/ UpdateMemory(x)
  <2>1. CASE StoreNext
    <3>1. CASE \E c \in Clients, r \in Requests : Issue(c, {r}) /\ told' = told
      BY <3>1 DEF Issue
    <3>2. CASE \E x \in calls : UpdateStep(x) \/ UpdateFault(x)
      BY <3>2 DEF UpdateStep, UpdateFault, QueryFails, AnswerLost
    <3>3. CASE UNCHANGED <<calls, told>>
      BY <3>3
    <3>. QED
      BY <2>1, <3>1, <3>2, <3>3
      DEF StoreNext, AddBid, TryNew, AddAuctionRow, AddAuctionMemory, ReadAuction, DropAuction,
          SubmitAuctionRow, SubmitAuctionMemory, ConcludeAuction
  <2>2. CASE ~StoreNext
    BY <2>2 DEF ServiceNext, Asks, MayAsk, Fails, Rereads, CutShort, storeVars
  <2>. QED
    BY <2>1, <2>2
<1>. QED
  BY <1>1, <1>2, <1>3, <1>4, <1>5

-----------------------------------------------------------------------------
\* What the steps leave alone.

LEMMA QuoterFrame ==
  ASSUME StoreTypeOK, Places, NEW q \in Quoters, Quoter(q) \/ QuoteFails(q) \/ RemoveStale(q) \/ UserSends(q)
  PROVE  /\ UNCHANGED <<bidRow, told, job, lockKey, lockStep>>
         /\ \A r \in Quoters \ {q} : quote'[r] = quote[r]
         /\ \A c \in Clients \ {q} : held'[c] = held[c]
         /\ \A x \in calls : x.client # q => x \in calls'
         /\ OfferWinner(q) \/ calls' \subseteq calls
<1> USE ClientsOfQuotes
<1>1. UNCHANGED <<bidRow, told, job, lockKey, lockStep>>
  BY DEF Quoter, GetQuote, CollectBids, NoBids, AddRow, AddMemory, RemoveOpportunity, OfferWinner,
         Recorded, SignBid, SignRow, SignMemory, Return, QuoteFails, RemoveStale, UserSends,
         AddAuctionRow, AddAuctionMemory, SubmitAuctionRow, SubmitAuctionMemory,
         storeVars, submitVars, requestVars, lockVars
<1>2. \A c \in Clients \ {q} : held'[c] = held[c]
  <2>1. CASE \/ \E c \in Choices : GetQuote(q, c)
             \/ NoBids(q) \/ RemoveOpportunity(q) \/ OfferWinner(q) \/ Recorded(q)
             \/ RemoveStale(q) \/ UserSends(q)
    BY <2>1 DEF GetQuote, NoBids, RemoveOpportunity, OfferWinner, Recorded, RemoveStale, UserSends, storeVars
  <2>2. CASE \E a \in Auctions, w \in Bids : CollectBids(q, a, w)
    BY <2>2 DEF CollectBids, TryNew, StoreTypeOK
  <2>3. CASE AddRow(q) \/ AddMemory(q) \/ SignRow(q) \/ SignMemory(q)
    BY <2>3 DEF AddRow, AddMemory, SignRow, SignMemory, AddAuctionRow, AddAuctionMemory,
                SubmitAuctionRow, SubmitAuctionMemory, StoreTypeOK
  <2>4. CASE SignBid(q) \/ Return(q) \/ QuoteFails(q)
    BY <2>4 DEF SignBid, Return, QuoteFails, ReadAuction, DropAuction, StoreTypeOK
  <2>. QED
    BY <2>1, <2>2, <2>3, <2>4 DEF Quoter
<1>3. (\A x \in calls : x.client # q => x \in calls') /\ (OfferWinner(q) \/ calls' \subseteq calls)
  <2>1. CASE OfferWinner(q)
    BY <2>1 DEF OfferWinner
  <2>2. CASE QuoteFails(q)
    BY <2>2 DEF QuoteFails
  <2>3. CASE ~OfferWinner(q) /\ ~QuoteFails(q)
    <3>1. UNCHANGED calls
      BY <2>3 DEF Quoter, GetQuote, CollectBids, NoBids, AddRow, AddMemory, AddAuctionRow,
                  AddAuctionMemory, RemoveOpportunity, Recorded, SignBid, SignRow, SignMemory,
                  SubmitAuctionRow, SubmitAuctionMemory, Return, RemoveStale, UserSends, storeVars
    <3>. QED
      BY <3>1
  <2>. QED
    BY <2>1, <2>2, <2>3
<1>. QED
  BY <1>1, <1>2, <1>3, OwnQuoteKept

LEMMA SubmissionFrame ==
  ASSUME StoreTypeOK, Places, Exclusion!LockInv, NEW s \in Submitters, Submission(s)
  PROVE  /\ UNCHANGED <<bidRow, told, quote>>
         /\ \A u \in Submitters \ {s} :
              job'[u] = job[u] /\ lockStep'[u] = lockStep[u] /\ lockKey'[u] = lockKey[u]
         /\ \A c \in Clients \ {s} : held'[c] = held[c]
         /\ \A x \in calls : x.client # s => x \in calls'
         /\ \A x \in calls' : x \in calls \/ (x.client = s /\ x.step = "query")
<1> USE ClientsOfQuotes
<1>1. UNCHANGED <<bidRow, told, quote>>
  BY DEF Submission, Submitter, SubmitQuote, CancelBid, LockBid, CancelChecks, NothingToSubmit,
         PastDeadline, WasCancelled, SubmitChecked, SubmitRow, SubmitMemory, RecordSubmitted,
         SendTransaction, UnlockBid, RemoveLock, SubmitFails, Disconnect, Refuse, Issue,
         SubmitAuctionRow, SubmitAuctionMemory, storeVars, quoteVars
<1>2. \A c \in Clients \ {s} : held'[c] = held[c]
  <2>1. CASE \/ \E a \in Auctions : SubmitQuote(s, a)
             \/ \E b \in Bids : CancelBid(s, b)
             \/ LockBid(s) \/ CancelChecks(s) \/ NothingToSubmit(s) \/ PastDeadline(s) \/ WasCancelled(s)
             \/ RecordSubmitted(s) \/ (\E taken \in SUBSET Bids : SendTransaction(s, taken))
             \/ RemoveLock(s) \/ SubmitFails(s)
    BY <2>1 DEF SubmitQuote, CancelBid, LockBid, CancelChecks, NothingToSubmit, PastDeadline, WasCancelled,
                RecordSubmitted, SendTransaction, RemoveLock, SubmitFails, Refuse, storeVars
  <2>2. CASE SubmitRow(s) \/ SubmitMemory(s)
    BY <2>2 DEF SubmitRow, SubmitMemory, SubmitAuctionRow, SubmitAuctionMemory, StoreTypeOK
  <2>3. CASE SubmitChecked(s) \/ UnlockBid(s) \/ Disconnect(s)
    BY <2>3 DEF SubmitChecked, UnlockBid, Disconnect, ReadAuction, DropAuction, StoreTypeOK
  <2>. QED
    BY <2>1, <2>2, <2>3 DEF Submission, Submitter
<1>3. /\ \A x \in calls : x.client # s => x \in calls'
      /\ \A x \in calls' : x \in calls \/ (x.client = s /\ x.step = "query")
  <2>1. CASE \/ CancelChecks(s) \/ NothingToSubmit(s) \/ PastDeadline(s) \/ WasCancelled(s)
             \/ RecordSubmitted(s)
    <3>1. \E R : Issue(s, R)
      BY <2>1 DEF CancelChecks, NothingToSubmit, PastDeadline, WasCancelled, RecordSubmitted, Refuse
    <3>. QED
      BY <3>1, IssueAdds
  <2>2. CASE Disconnect(s)
    BY <2>2 DEF Disconnect
  <2>3. CASE \/ \E a \in Auctions : SubmitQuote(s, a)
             \/ \E b \in Bids : CancelBid(s, b)
             \/ LockBid(s) \/ (\E taken \in SUBSET Bids : SendTransaction(s, taken))
             \/ RemoveLock(s) \/ SubmitFails(s) \/ SubmitRow(s) \/ SubmitMemory(s)
             \/ SubmitChecked(s) \/ UnlockBid(s)
    BY <2>3 DEF SubmitQuote, CancelBid, LockBid, SendTransaction, RemoveLock, SubmitFails, SubmitRow,
                SubmitMemory, SubmitAuctionRow, SubmitAuctionMemory, SubmitChecked, UnlockBid,
                storeVars
  <2>. QED
    BY <2>1, <2>2, <2>3 DEF Submission, Submitter
<1>4. \A u \in Submitters \ {s} : lockKey'[u] = lockKey[u]
  <2>1. \/ UNCHANGED lockKey
        \/ \E b \in Bids \cup {NoBid} : lockKey' = [lockKey EXCEPT ![s] = b]
    <3>1. ASSUME NEW a \in Auctions, SubmitQuote(s, a)
          PROVE  \E b \in Bids \cup {NoBid} : lockKey' = [lockKey EXCEPT ![s] = b]
      BY <3>1, WinnersAreBids DEF SubmitQuote, Lock!GetOrCreate
    <3>2. ASSUME NEW b \in Bids, CancelBid(s, b)
          PROVE  lockKey' = [lockKey EXCEPT ![s] = b]
      BY <3>2 DEF CancelBid, Lock!GetOrCreate
    <3>3. ASSUME RemoveLock(s) \/ Disconnect(s)
          PROVE  lockKey' = [lockKey EXCEPT ![s] = NoBid]
      BY <3>3 DEF RemoveLock, Disconnect, Lock!Remove, Lock!Abandon
    <3>. QED
      BY <3>1, <3>2, <3>3
      DEF Submission, Submitter, LockBid, CancelChecks, NothingToSubmit, PastDeadline, WasCancelled,
          SubmitChecked, SubmitRow, SubmitMemory, RecordSubmitted, SendTransaction, UnlockBid,
          SubmitFails, Lock!Acquire, Lock!Leave, lockVars
  <2>. QED
    BY <2>1 DEF Exclusion!LockInv, Exclusion!LockTypeOK
<1>. QED
  BY <1>1, <1>2, <1>3, <1>4, OwnJobKept

LEMMA UpdateFrame ==
  ASSUME StoreTypeOK, Places, NEW x \in calls, Update(x) \/ Fault(x)
  PROVE  /\ UNCHANGED <<held, lockKey, lockStep, auctionRow>>
         /\ \A q \in Quoters :
              /\ quote'[q].winner = quote[q].winner /\ quote'[q].auction = quote[q].auction
              /\ quote'[q].cancellable = quote[q].cancellable
              /\ quote'[q] = quote[q] \/ (x.client = q /\ quote'[q].at = "empty")
         /\ \A s \in Submitters :
              /\ job'[s].auction = job[s].auction
              /\ job'[s] = job[s] \/ (x.client = s /\ job'[s].at = "done" /\ Fault(x))
         /\ \A y \in calls : y # x => y \in calls'
         /\ \/ calls' = calls \ {x}
            \/ /\ \A q \in Quoters : quote'[q] = quote[q]
               /\ Update(x) /\ ~Refused(x)
               /\ \E z : /\ z.client = x.client /\ z.req = x.req /\ z.step # "query"
                         /\ calls' = (calls \ {x}) \cup {z}
<1>1. UNCHANGED <<held, lockKey, lockStep, auctionRow>>
  BY DEF Update, Fault, UpdateStep, UpdateFault, UpdateRow, ForgetPending, UpdateMemory, QueryFails,
         AnswerLost, submitVars, lockVars
<1>2. \A q \in Quoters :
        /\ quote'[q].winner = quote[q].winner /\ quote'[q].auction = quote[q].auction
        /\ quote'[q].cancellable = quote[q].cancellable
        /\ quote'[q] = quote[q] \/ (x.client = q /\ quote'[q].at = "empty")
  <2>1. ASSUME NEW q \in Quoters, quote'[q] = [quote[q] EXCEPT !.at = "empty"]
        PROVE  /\ quote'[q].winner = quote[q].winner /\ quote'[q].auction = quote[q].auction
               /\ quote'[q].cancellable = quote[q].cancellable /\ quote'[q].at = "empty"
    BY <2>1 DEF Places, QuoteRecords
  <2>2. ASSUME NEW q \in Quoters
        PROVE  \/ quote'[q] = quote[q]
               \/ x.client = q /\ quote'[q] = [quote[q] EXCEPT !.at = "empty"]
    BY DEF Update, Fault
  <2>. QED
    BY <2>1, <2>2
<1>3. \A s \in Submitters :
        /\ job'[s].auction = job[s].auction
        /\ job'[s] = job[s] \/ (x.client = s /\ job'[s].at = "done" /\ Fault(x))
  <2>1. ASSUME NEW s \in Submitters, job'[s] = [job[s] EXCEPT !.at = "done"]
        PROVE  job'[s].auction = job[s].auction /\ job'[s].at = "done"
    BY <2>1 DEF Places, JobRecords
  <2>2. ASSUME NEW s \in Submitters
        PROVE  \/ job'[s] = job[s]
               \/ x.client = s /\ job'[s] = [job[s] EXCEPT !.at = "done"] /\ Fault(x)
    BY DEF Update, Fault, submitVars
  <2>. QED
    BY <2>1, <2>2
<1>4. \/ calls' = calls \ {x}
      \/ /\ \A q \in Quoters : quote'[q] = quote[q]
         /\ Update(x) /\ ~Refused(x)
         /\ \E z : /\ z.client = x.client /\ z.req = x.req /\ z.step # "query"
                   /\ calls' = (calls \ {x}) \cup {z}
  <2>1. ASSUME NEW st \in {"pending", "memory"}, calls' = (calls \ {x}) \cup {[x EXCEPT !.step = st]}
        PROVE  \E z : /\ z.client = x.client /\ z.req = x.req /\ z.step # "query"
                      /\ calls' = (calls \ {x}) \cup {z}
    <3>1. LET y == [x EXCEPT !.step = st]
          IN  y.client = x.client /\ y.req = x.req /\ y.step # "query"
      BY DEF StoreTypeOK, Calls
    <3>. QED
      BY <2>1, <3>1
  <2>2. CASE Fault(x)
    BY <2>2 DEF Fault, UpdateFault, QueryFails, AnswerLost
  <2>3. CASE Update(x) /\ Refused(x)
    BY <2>3 DEF Update, UpdateStep, UpdateRow, ForgetPending, UpdateMemory, Refused
  <2>4. CASE Update(x) /\ ~Refused(x)
    <3>1. \A q \in Quoters : quote'[q] = quote[q]
      BY <2>4 DEF Update
    <3>2. \/ calls' = calls \ {x}
          \/ calls' = (calls \ {x}) \cup {[x EXCEPT !.step = "pending"]}
          \/ calls' = (calls \ {x}) \cup {[x EXCEPT !.step = "memory"]}
      BY <2>4 DEF Update, UpdateStep, UpdateRow, ForgetPending, UpdateMemory
    <3>. QED
      BY <2>1, <2>4, <3>1, <3>2
  <2>. QED
    BY <2>2, <2>3, <2>4
<1>5. \A y \in calls : y # x => y \in calls'
  BY <1>4
<1>. QED
  BY <1>1, <1>2, <1>3, <1>4, <1>5

\* Sweeps, new bids, time and conclusions.
Others ==
  \/ \E k \in PermissionKeys : FindInvalid(k) \/ Sweep(k)
  \/ \E b \in Bids : HandleBid(b) \/ OutlivePromptly(b)
  \/ ConclusionNext /\ UNCHANGED requestVars
  \/ UNCHANGED quoteAuctionVars

LEMMA OthersFrame ==
  ASSUME StoreTypeOK, Others
  PROVE  /\ UNCHANGED <<told, quote, held, job, lockKey, lockStep>>
         /\ calls \subseteq calls'
         /\ \A x \in calls' : x \in calls \/
              (/\ x.step = "query" /\ x.client \notin Quoters \cup Submitters
               /\ x.req.to \in {"Lost", "Won", "Failed", "Expired"})
<1> USE ClientsOfQuotes
<1> DEFINE Asked1 ==
         /\ calls \subseteq calls'
         /\ \A x \in calls' : x \in calls \/
              (/\ x.step = "query" /\ x.client \notin Quoters \cup Submitters
               /\ x.req.to \in {"Lost", "Won", "Failed", "Expired"})
<1>1. UNCHANGED requestVars => UNCHANGED <<quote, job, lockKey, lockStep>>
  BY DEF requestVars, quoteVars, submitVars, lockVars
<1>2. /\ \A a \in Auctions : Loop(a) \notin Quoters \cup Submitters
      /\ \A b \in Bids : LogTask(b) \notin Quoters \cup Submitters
  BY QuoteAuctionAssumption, ConclusionAssumption
<1>3. Background \notin Quoters \cup Submitters
  BY QuoteAuctionAssumption
<1>4. ASSUME NEW c, c \notin Quoters \cup Submitters, NEW R, Issue(c, R),
             \A r \in R : r.to \in {"Lost", "Won", "Failed", "Expired"}
      PROVE  Asked1
  BY <1>4 DEF Issue
<1>5. CASE \E k \in PermissionKeys : FindInvalid(k) \/ Sweep(k)
  <2>1. ASSUME NEW k \in PermissionKeys, Sweep(k)
        PROVE  Asked1
    BY <1>3, <1>4, <2>1 DEF Sweep
  <2>. QED
    BY <1>5, <2>1 DEF FindInvalid, Sweep, storeVars, submitVars, lockVars
<1>6. CASE \E b \in Bids : HandleBid(b) \/ OutlivePromptly(b)
  BY <1>1, <1>6 DEF HandleBid, OutlivePromptly, Outlive, AddBid, storeVars
<1>7. CASE ConclusionNext /\ UNCHANGED requestVars
  <2>1. ASSUME NEW a \in Auctions, Poll(a)
        PROVE  Asked1 /\ UNCHANGED <<told, held>>
    <3>1. \A r \in BidResults(a) : r.to \in {"Lost", "Won", "Failed", "Expired"}
      BY DEF BidResults, Outcome
    <3>2. \A r \in [bid : auctions[a].bids, to : {"Lost"}, auction : {NoAuction}] :
            r.to \in {"Lost", "Won", "Failed", "Expired"}
      OBVIOUS
    <3>. QED
      BY <1>2, <1>4, <2>1, <3>1, <3>2 DEF Poll
  <2>2. ASSUME NEW b \in Bids, HandleLog(b)
        PROVE  Asked1 /\ UNCHANGED <<told, held>>
    BY <1>2, <1>4, <2>2 DEF HandleLog, Outcome
  <2>3. \/ \E a \in Auctions : Poll(a)
        \/ \E b \in Bids : HandleLog(b)
        \/ UNCHANGED <<told, held, calls>>
    BY <1>7 DEF ConclusionNext, Polled, LoopEnds, Expire, Logged, LoseLog, Retry, FallDue, Land,
                Refetch, RefetchFails, ConcludeAuction, storeVars
  <2>. QED
    BY <1>1, <1>7, <2>1, <2>2, <2>3
<1>8. CASE UNCHANGED quoteAuctionVars
  BY <1>1, <1>8 DEF quoteAuctionVars, conclusionVars, storeVars
<1>. QED
  BY <1>5, <1>6, <1>7, <1>8 DEF Others

LEMMA QuoteKinds ==
  ASSUME [QuoteNext]_quoteAuctionVars
  PROVE  \/ \E q \in Quoters : Quoter(q) \/ QuoteFails(q) \/ RemoveStale(q) \/ UserSends(q)
         \/ \E s \in Submitters : Submission(s)
         \/ \E x \in calls : Update(x) \/ Fault(x)
         \/ Others
  BY DEF QuoteNext, Submission, Others

-----------------------------------------------------------------------------
\* An offer stays one.

\* A step of a quote, after it collected its bids, only moves it on.
LEMMA QuoteMovesOn ==
  ASSUME StoreTypeOK, Places, NEW q \in Quoters, quote[q].winner # NoBid,
         Quoter(q) \/ QuoteFails(q) \/ RemoveStale(q) \/ UserSends(q)
  PROVE  UNCHANGED quote \/ \E step \in QuoteSteps : QuoteGoesOn(q, step)
<1>1. ~(\E c \in Choices : GetQuote(q, c)) /\ ~(\E a \in Auctions, w \in Bids : CollectBids(q, a, w))
  BY DEF GetQuote, CollectBids, Places, QuotePlace
<1>2. CASE NoBids(q) \/ AddMemory(q) \/ OfferWinner(q) \/ SignMemory(q) \/ Return(q) \/ QuoteFails(q)
  BY <1>2 DEF NoBids, AddMemory, OfferWinner, SignMemory, Return, QuoteFails, QuoteSteps
<1>3. CASE RemoveOpportunity(q)
  BY <1>3 DEF RemoveOpportunity, QuoteSteps
<1>4. CASE Recorded(q)
  BY <1>4 DEF Recorded, QuoteSteps
<1>5. CASE SignBid(q) \/ SignRow(q)
  BY <1>5 DEF SignBid, SignRow, QuoteSteps
<1>6. CASE AddRow(q) \/ RemoveStale(q) \/ UserSends(q)
  BY <1>6 DEF AddRow, RemoveStale, UserSends, requestVars, quoteVars
<1>. QED
  BY <1>1, <1>2, <1>3, <1>4, <1>5, <1>6 DEF Quoter

LEMMA NamesStay ==
  ASSUME StoreTypeOK, Places, Exclusion!LockInv, [QuoteNext]_quoteAuctionVars,
         NEW q \in Quoters, quote[q].winner # NoBid
  PROVE  /\ quote'[q].winner = quote[q].winner /\ quote'[q].auction = quote[q].auction
         /\ quote'[q].cancellable = quote[q].cancellable
<1> USE ClientsOfQuotes
<1>1. ASSUME NEW r \in Quoters, Quoter(r) \/ QuoteFails(r) \/ RemoveStale(r) \/ UserSends(r)
      PROVE  /\ quote'[q].winner = quote[q].winner /\ quote'[q].auction = quote[q].auction
             /\ quote'[q].cancellable = quote[q].cancellable
  <2>1. CASE r # q
    BY <1>1, <2>1, QuoterFrame
  <2>2. CASE r = q
    BY <1>1, <2>2, QuoteMovesOn, QuoteStepped
  <2>. QED
    BY <2>1, <2>2
<1>2. ASSUME NEW s \in Submitters, Submission(s)
      PROVE  quote' = quote
  BY <1>2, SubmissionFrame
<1>3. CASE Others
  BY <1>3, OthersFrame
<1>4. ASSUME NEW x \in calls, Update(x) \/ Fault(x)
      PROVE  /\ quote'[q].winner = quote[q].winner /\ quote'[q].auction = quote[q].auction
             /\ quote'[q].cancellable = quote[q].cancellable
  BY <1>4, UpdateFrame
<1>. QED
  BY <1>1, <1>2, <1>3, <1>4, QuoteKinds

\* What an update that is allowed after an offer does to the row.
LEMMA WonUpdated ==
  ASSUME StoreTypeOK, CallsShow, NEW x \in calls, NEW a, WonIn(a, x.req.bid),
         CanUpdate(bidRow[x.req.bid].status, x.req.to),
         bidRow' = [bidRow EXCEPT ![x.req.bid] = RowAfter(x.req)]
  PROVE  /\ bidRow'[x.req.bid].status \notin {"Absent", "Pending", "Lost"}
         /\ bidRow'[x.req.bid].status # "Expired" => bidRow'[x.req.bid].auction = a
         /\ x.req.to \notin Offers \cup {"Lost"}
<1> DEFINE b == x.req.bid
           row == bidRow[b]
<1>1. b \in Bids /\ x.req.to \in Statuses /\ x.req.to # "Pending" /\ bidRow'[b] = RowAfter(x.req)
  BY DEF StoreTypeOK, Calls, Requests
<1>2. row.status \notin {"Absent", "Pending", "Lost"} /\ (row.status # "Expired" => row.auction = a)
  BY DEF WonIn
<1>3. CanUpdate(row.status, x.req.to)
  OBVIOUS
<1> HIDE DEF row
<1>4. x.req.to \notin Offers \cup {"Lost"} /\ row.status # "Expired"
  BY <1>2, <1>3 DEF CanUpdate, Offers
<1>5. CASE x.req.to \in {"Won", "Failed"}
  <2>1. RowAfter(x.req) = [status |-> x.req.to, auction |-> row.auction]
    BY <1>5 DEF RowAfter, SetsAuction, row
  <2>. QED
    BY <1>1, <1>2, <1>4, <1>5, <2>1
<1>6. CASE x.req.to = "Expired"
  BY <1>1, <1>4, <1>6 DEF RowAfter
<1>7. CASE x.req.to \in Winning \ Offers
  <2>1. WonIn(x.req.auction, b)
    BY <1>7 DEF CallsShow, CallOfWinner, Shown
  <2>2. x.req.auction = a
    BY <1>2, <1>4, <2>1 DEF WonIn, row
  <2>3. RowAfter(x.req).auction = a /\ RowAfter(x.req).status = x.req.to
    BY <1>2, <1>4, <2>2 DEF RowAfter, row
  <2>. QED
    BY <1>1, <1>4, <1>7, <2>3 DEF Winning, Offers, Withdrawn
<1>. QED
  BY <1>1, <1>4, <1>5, <1>6, <1>7 DEF Statuses, Winning, Offers, Withdrawn

LEMMA WonStays ==
  ASSUME QuoteInv, QuoteNames, CallsShow, [QuoteNext]_quoteAuctionVars,
         NEW a, NEW b \in Bids, WonIn(a, b)
  PROVE  WonIn(a, b)'
<1> USE DEF QuoteInv, ServiceInv, StoreInv
<1>1. [ServiceNext]_storeVars /\ StoreTypeOK
  BY QuoteIsService
<1>2. PICK q \in Quoters : quote[q].auction = a /\ quote[q].winner = b
  BY DEF WonIn
<1>3. quote'[q].auction = a /\ quote'[q].winner = b
  <2>1. b # NoBid
    BY QuoteAuctionAssumption
  <2>. QED
    BY <1>2, <2>1, NamesStay
<1>4. /\ bidRow'[b].status \notin {"Absent", "Pending", "Lost"}
      /\ bidRow'[b].status # "Expired" => bidRow'[b].auction = a
  <2>1. CASE UNCHANGED bidRow
    BY <2>1 DEF WonIn
  <2>2. ASSUME NEW d \in Bids, bidRow[d].status = "Absent",
               bidRow' = [bidRow EXCEPT ![d].status = "Pending"]
        PROVE  bidRow'[b] = bidRow[b]
    BY <1>1, <2>2 DEF WonIn, StoreTypeOK
  <2>3. ASSUME NEW x \in calls, CanUpdate(bidRow[x.req.bid].status, x.req.to),
               bidRow' = [bidRow EXCEPT ![x.req.bid] = RowAfter(x.req)]
        PROVE  /\ bidRow'[b].status \notin {"Absent", "Pending", "Lost"}
               /\ bidRow'[b].status # "Expired" => bidRow'[b].auction = a
    <3>1. CASE b = x.req.bid
      BY <1>1, <2>3, <3>1, WonUpdated
    <3>2. CASE b # x.req.bid
      BY <1>1, <2>3, <3>2 DEF WonIn, StoreTypeOK
    <3>. QED
      BY <3>1, <3>2
  <2>. QED
    BY <1>1, <2>1, <2>2, <2>3, RowSteps DEF WonIn
<1>. QED
  BY <1>3, <1>4 DEF WonIn

LEMMA ShownStays ==
  ASSUME QuoteInv, QuoteNames, CallsShow, [QuoteNext]_quoteAuctionVars,
         NEW a, NEW b \in Bids, Shown(a, b)
  PROVE  Shown(a, b)'
<1>1. told \subseteq told'
  BY QuoteIsService, ToldGrows DEF QuoteInv, ServiceInv, StoreInv
<1>. QED
  BY <1>1, WonStays DEF Shown

\* What was sent, or can be, stays so.
LEMMA SentStays ==
  ASSUME QuoteInv, CallsShow, [QuoteNext]_quoteAuctionVars,
         NEW b \in Bids, bidRow[b].status \in Sent
  PROVE  bidRow'[b].status \in Sent
<1> USE DEF QuoteInv, ServiceInv, StoreInv
<1>1. [ServiceNext]_storeVars /\ StoreTypeOK
  BY QuoteIsService
<1>2. CASE UNCHANGED bidRow
  BY <1>2
<1>3. ASSUME NEW d \in Bids, bidRow[d].status = "Absent",
             bidRow' = [bidRow EXCEPT ![d].status = "Pending"]
      PROVE  bidRow'[b] = bidRow[b]
  BY <1>1, <1>3 DEF Sent, StoreTypeOK
<1>4. ASSUME NEW x \in calls, CanUpdate(bidRow[x.req.bid].status, x.req.to),
             bidRow' = [bidRow EXCEPT ![x.req.bid] = RowAfter(x.req)]
      PROVE  bidRow'[b].status \in Sent
  <2>1. CASE b = x.req.bid
    <3>1. bidRow'[b].status = x.req.to
      BY <1>1, <1>4, <2>1, RowMoves
    <3>2. ~(bidRow[b].status = "SentToUser" /\ x.req.to = "SubmissionFailedDeadline")
      BY <2>1 DEF CallsShow, CallOfWinner
    <3> DEFINE s == bidRow[b].status
    <3>3. s \in Sent /\ CanUpdate(s, x.req.to) /\ ~(s = "SentToUser" /\ x.req.to = "SubmissionFailedDeadline")
      BY <1>4, <2>1, <3>2
    <3> HIDE DEF s
    <3>4. x.req.to \in Sent
      BY <3>3 DEF CanUpdate, Sent
    <3>. QED
      BY <3>1, <3>4
  <2>2. CASE b # x.req.bid
    BY <1>1, <1>4, <2>2 DEF StoreTypeOK
  <2>. QED
    BY <2>1, <2>2
<1>. QED
  BY <1>1, <1>2, <1>3, <1>4, RowSteps

-----------------------------------------------------------------------------
\* Memory, its copies and what is recorded.

LEMMA MemoryStillShows ==
  ASSUME QuoteInv, OfferInv, [QuoteNext]_quoteAuctionVars
  PROVE  MemoryShows'
<1> USE DEF QuoteInv, ServiceInv, StoreInv, OfferInv
<1>1. [ServiceNext]_storeVars /\ StoreTypeOK /\ FreshAuctions
  BY QuoteIsService DEF ReadableInv
<1> SUFFICES ASSUME NEW a \in Auctions, NEW b \in auctions'[a].bids, auctions'[a].status[b] \in Winning
             PROVE  Shown(a, b)'
  BY DEF MemoryShows
<1>2. CASE b \in auctions[a].bids /\ auctions'[a].status[b] = auctions[a].status[b]
  <2>1. Shown(a, b) /\ b \in Bids
    BY <1>1, <1>2 DEF MemoryShows, StoreTypeOK, Values
  <2>. QED
    BY <2>1, ShownStays
<1>3. ASSUME NEW c \in Clients, held[c].id = a, b \in held[c].value.bids,
             auctions'[a].status[b] = held[c].value.status[b]
      PROVE  Shown(a, b)'
  <2>1. Shown(a, b) /\ b \in Bids
    BY <1>1, <1>3 DEF HeldShows, StoreTypeOK, HeldValues, Values
  <2>. QED
    BY <2>1, ShownStays
<1>4. ASSUME NEW x \in calls, x.step = "memory", x.req.auction = a, x.req.bid = b,
             auctions'[a].status[b] = x.req.to, <<b, x.req.to>> \in told'
      PROVE  Shown(a, b)'
  <2>0. b \in Bids
    BY <1>1, <1>4 DEF StoreTypeOK, Calls, Requests
  <2>1. CASE x.req.to \in Offers
    <3>1. WonIn(a, b)
      BY <1>4, <2>1 DEF CallsShow, CallOfWinner
    <3>2. WonIn(a, b)'
      BY <2>0, <3>1, WonStays
    <3>. QED
      BY <1>4, <2>1, <3>2 DEF Shown
  <2>2. CASE x.req.to \in Winning \ Offers
    <3>1. Shown(a, b)
      BY <1>4, <2>2 DEF CallsShow, CallOfWinner
    <3>. QED
      BY <2>0, <3>1, ShownStays
  <2>. QED
    BY <1>4, <2>1, <2>2
<1>5. \/ b \in auctions[a].bids /\ auctions'[a].status[b] = auctions[a].status[b]
      \/ \E c \in Clients :
           /\ held[c].step \in {"inserted", "submitted"} /\ held[c].id = a
           /\ b \in held[c].value.bids /\ auctions'[a].status[b] = held[c].value.status[b]
      \/ \E x \in calls :
           /\ x.step = "memory" /\ x.req.auction = a /\ x.req.bid = b
           /\ b \in auctions[a].bids /\ auctions'[a].status[b] = x.req.to
           /\ <<b, x.req.to>> \in told'
  BY <1>1, MemorySteps
<1>. QED
  BY <1>2, <1>3, <1>4, <1>5

LEMMA HeldStillShows ==
  ASSUME QuoteInv, OfferInv, [QuoteNext]_quoteAuctionVars
  PROVE  HeldShows'
<1> USE DEF QuoteInv, ServiceInv, StoreInv, OfferInv
<1>1. [ServiceNext]_storeVars /\ StoreTypeOK
  BY QuoteIsService
<1>2. \A a : \A b \in Bids : Shown(a, b) => Shown(a, b)'
  BY ShownStays
<1>3. ASSUME NEW c \in Clients, NEW b \in held'[c].value.bids, held'[c].value.status[b] \in Winning
      PROVE  held'[c].step \notin {"made", "inserted"}
             /\ \E a : a = held'[c].id /\ Shown(a, b)'
  <2>1. CASE /\ b \in held[c].value.bids /\ held'[c].value.status[b] = held[c].value.status[b]
             /\ held'[c].id = held[c].id
             /\ held'[c].step \in {"made", "inserted"} => held[c].step \in {"made", "inserted"}
    <3>1. held[c].step \notin {"made", "inserted"} /\ Shown(held[c].id, b) /\ b \in Bids
      BY <1>1, <1>3, <2>1 DEF HeldShows, StoreTypeOK, HeldValues, Values
    <3>. QED
      BY <1>2, <2>1, <3>1
  <2>2. ASSUME NEW a \in Auctions, held'[c].step = "ready", held'[c].id = a,
               b \in auctions[a].bids, held'[c].value.status[b] = auctions[a].status[b]
        PROVE  held'[c].step \notin {"made", "inserted"}
               /\ \E e : e = held'[c].id /\ Shown(e, b)'
    <3>1. Shown(a, b) /\ b \in Bids
      BY <1>1, <1>3, <2>2 DEF MemoryShows, StoreTypeOK, Values
    <3>. QED
      BY <1>2, <2>2, <3>1
  <2>3. held'[c].value.status[b] # "Pending"
    BY <1>3 DEF Winning, Offers, Withdrawn
  <2>4. CopyFrom(c, b)
    BY <1>1, CopySteps
  <2>. QED
    BY <2>1, <2>2, <2>3, <2>4 DEF CopyFrom
<1>. QED
  BY <1>3 DEF HeldShows, Shown, WonIn

LEMMA OneOfferStays ==
  ASSUME QuoteInv, OfferInv, [QuoteNext]_quoteAuctionVars
  PROVE  OneOffer'
<1> USE DEF QuoteInv, ServiceInv, StoreInv, OfferInv
<1>1. [ServiceNext]_storeVars /\ StoreTypeOK
  BY QuoteIsService
<1>2. ASSUME NEW b \in Bids, NEW s \in Offers, <<b, s>> \in Recordings
      PROVE  bidRow[b].status # "Pending"
  <2>1. Behind(s, bidRow[b].status)
    <3>1. CASE <<b, s>> \in told
      BY <3>1 DEF ToldIsRecorded
    <3>2. CASE <<b, s>> \notin told
      BY <1>2, <3>2 DEF Recordings, AppliedCalls
    <3>. QED
      BY <3>1, <3>2
  <2>2. ~Behind("AwaitingSignature", "Pending") /\ ~Behind("SentToUser", "Pending")
    BY DEF Behind, Rank
  <2>. QED
    BY <2>1, <2>2 DEF Offers
<1>3. CASE Recordings' \subseteq Recordings
  BY <1>3 DEF OneOffer
<1>4. ASSUME NEW x \in calls, CanUpdate(bidRow[x.req.bid].status, x.req.to),
             Recordings' \subseteq Recordings \cup {<<x.req.bid, x.req.to>>}
      PROVE  OneOffer'
  <2>1. ASSUME x.req.to \in Offers
        PROVE  bidRow[x.req.bid].status = "Pending" /\ x.req.bid \in Bids
    <3> DEFINE from == bidRow[x.req.bid].status
    <3>1. CanUpdate(from, x.req.to) /\ x.req.bid \in Bids
      BY <1>1, <1>4 DEF StoreTypeOK, Calls, Requests
    <3> HIDE DEF from
    <3>2. from = "Pending"
      BY <2>1, <3>1 DEF CanUpdate, Offers
    <3>. QED
      BY <3>1, <3>2 DEF from
  <2>2. ASSUME NEW b \in Bids, NEW s \in Offers, <<b, s>> \in Recordings
        PROVE  ~(x.req.to \in Offers /\ x.req.bid = b)
    BY <1>2, <2>1, <2>2
  <2>3. "AwaitingSignature" \in Offers /\ "SentToUser" \in Offers
    BY DEF Offers
  <2>. QED
    BY <1>4, <2>2, <2>3 DEF OneOffer
<1>. QED
  BY <1>1, <1>3, <1>4, RecordingSteps

-----------------------------------------------------------------------------
\* Quotes keep their names.

LEMMA OwnNamesKept ==
  ASSUME StoreTypeOK, Places, QuoteNames, NEW q \in Quoters,
         Quoter(q) \/ QuoteFails(q) \/ RemoveStale(q) \/ UserSends(q)
  PROVE  QuoteName(q)'
<1> USE ClientsOfQuotes
<1>0. /\ quote \in [Quoters -> QuoteRecords] /\ QuotePlace(q) /\ held \in [Clients -> HeldValues]
      /\ quote[q].winner = NoBid <=> quote[q].auction = NoAuction
      /\ quote[q].at \in Working /\ quote[q].winner # NoBid => held[q].id = quote[q].auction
      /\ quote[q].at \in {"sign", "submit"} => ~quote[q].cancellable
  BY DEF Places, StoreTypeOK, QuoteNames, QuoteName
<1>1. ASSUME NEW c \in Choices, GetQuote(q, c)
      PROVE  QuoteName(q)'
  <2> DEFINE e == [quote[q] EXCEPT !.at = "asked", !.cancellable = c]
  <2>1. e.at = "asked" /\ e.winner = quote[q].winner /\ e.auction = quote[q].auction
    BY <1>0 DEF QuoteRecords
  <2>2. quote' = [quote EXCEPT ![q] = e]
    BY <1>1 DEF GetQuote
  <2> HIDE DEF e
  <2>. QED
    BY <1>0, <2>1, <2>2 DEF QuoteName, Working
<1>2. ASSUME NEW a \in Auctions, NEW w \in Bids, CollectBids(q, a, w)
      PROVE  QuoteName(q)'
  <2> DEFINE e == [quote[q] EXCEPT !.at = "add", !.winner = w, !.auction = a]
  <2>1. e.at = "add" /\ e.winner = w /\ e.auction = a /\ w # NoBid /\ a # NoAuction
    BY <1>0, QuoteAuctionAssumption, BidStoreAssumption DEF QuoteRecords
  <2>2. quote' = [quote EXCEPT ![q] = e] /\ held'[q].id = a
    BY <1>0, <1>2 DEF CollectBids, TryNew
  <2> HIDE DEF e
  <2>. QED
    BY <1>0, <2>1, <2>2 DEF QuoteName
<1>3. CASE NoBids(q)
  BY <1>0, <1>3, QuoteStepped DEF NoBids, QuotePlace, QuoteSteps, QuoteName
<1>4. ASSUME NEW step \in {"inserted", "ready"}, held' = [held EXCEPT ![q].step = step]
      PROVE  held'[q].id = held[q].id
  <2> DEFINE e == [held[q] EXCEPT !.step = step]
  <2>1. e.id = held[q].id
    BY <1>0 DEF HeldValues
  <2>2. held' = [held EXCEPT ![q] = e]
    BY <1>4
  <2> HIDE DEF e
  <2>. QED
    BY <1>0, <2>1, <2>2
<1>5. ASSUME NEW step \in QuoteSteps \ {"sign", "submit"}, QuoteGoesOn(q, step),
             held'[q].id = held[q].id, quote[q].at \in Working
      PROVE  QuoteName(q)'
  <2>1. /\ quote'[q].at = step /\ quote'[q].winner = quote[q].winner /\ quote'[q].auction = quote[q].auction
    BY <1>5, QuoteStepped
  <2>. QED
    BY <1>0, <1>5, <2>1 DEF QuoteName
<1>6. CASE AddRow(q)
  <2>1. held'[q].id = held[q].id /\ quote' = quote
    BY <1>4, <1>6 DEF AddRow, AddAuctionRow, requestVars, quoteVars
  <2>. QED
    BY <1>0, <2>1 DEF QuoteName
<1>7. CASE AddMemory(q) \/ RemoveOpportunity(q) \/ OfferWinner(q)
  <2>1. held'[q].id = held[q].id
    BY <1>4, <1>7 DEF AddMemory, AddAuctionMemory, RemoveOpportunity, OfferWinner
  <2>2. PICK step \in QuoteSteps \ {"sign", "submit"} : QuoteGoesOn(q, step)
    BY <1>7 DEF AddMemory, RemoveOpportunity, OfferWinner, QuoteSteps
  <2>3. quote[q].at \in Working
    BY <1>7 DEF AddMemory, RemoveOpportunity, OfferWinner, Working
  <2>. QED
    BY <1>5, <2>1, <2>2, <2>3
<1>8. CASE Recorded(q)
  <2>1. PICK step \in {"empty", IF quote[q].cancellable THEN "reply" ELSE "sign"} : QuoteGoesOn(q, step)
    BY <1>8 DEF Recorded
  <2>2. /\ quote'[q].at = step /\ quote'[q].winner = quote[q].winner /\ quote'[q].auction = quote[q].auction
        /\ quote'[q].cancellable = quote[q].cancellable
    BY <2>1, QuoteStepped DEF QuoteSteps
  <2>3. held' = held /\ quote[q].at = "record"
    BY <1>8 DEF Recorded, storeVars
  <2>. QED
    BY <1>0, <2>1, <2>2, <2>3 DEF QuoteName, Working
<1>9. CASE SignBid(q)
  <2>1. PICK step \in {"submit", "empty"} : QuoteGoesOn(q, step) /\ held'[q].id = held[q].id
    BY <1>0, <1>9 DEF SignBid, ReadAuction
  <2>2. /\ quote'[q].at = step /\ quote'[q].winner = quote[q].winner /\ quote'[q].auction = quote[q].auction
        /\ quote'[q].cancellable = quote[q].cancellable
    BY <2>1, QuoteStepped DEF QuoteSteps
  <2>3. quote[q].at = "sign"
    BY <1>9 DEF SignBid
  <2>. QED
    BY <1>0, <2>1, <2>2, <2>3 DEF QuoteName, Working
<1>10. CASE SignRow(q) /\ UNCHANGED quote
  <2>1. held'[q].id = held[q].id
    BY <1>0, <1>10 DEF SignRow, SubmitAuctionRow
  <2>. QED
    BY <1>0, <1>10, <2>1 DEF QuoteName
<1>11. ASSUME NEW step \in {"reply", "answered", "ended"}, QuoteGoesOn(q, step)
       PROVE  QuoteName(q)'
  <2>1. /\ quote'[q].at = step /\ quote'[q].winner = quote[q].winner /\ quote'[q].auction = quote[q].auction
    BY <1>11, QuoteStepped DEF QuoteSteps
  <2>. QED
    BY <1>0, <1>11, <2>1 DEF QuoteName, Working
<1>12. CASE SignRow(q) \/ SignMemory(q) \/ Return(q) \/ QuoteFails(q)
  BY <1>10, <1>11, <1>12 DEF SignRow, SignMemory, Return, QuoteFails
<1>13. CASE RemoveStale(q) \/ UserSends(q)
  BY <1>0, <1>13 DEF RemoveStale, UserSends, storeVars, requestVars, quoteVars, QuoteName
<1>. QED
  BY <1>1, <1>2, <1>3, <1>6, <1>7, <1>8, <1>9, <1>12, <1>13 DEF Quoter

LEMMA QuoteNamesStay ==
  ASSUME QuoteInv, OfferInv, [QuoteNext]_quoteAuctionVars
  PROVE  QuoteNames'
<1> USE ClientsOfQuotes
<1>0. StoreTypeOK /\ Places /\ Exclusion!LockInv /\ QuoteNames
  BY DEF QuoteInv, ServiceInv, StoreInv, OfferInv
<1>1. ASSUME NEW q \in Quoters, held'[q] = held[q],
             \/ quote'[q] = quote[q]
             \/ /\ quote'[q].winner = quote[q].winner /\ quote'[q].auction = quote[q].auction
                /\ quote'[q].at = "empty"
      PROVE  QuoteName(q)'
  BY <1>0, <1>1 DEF QuoteNames, QuoteName, Working
<1>2. ASSUME NEW r \in Quoters, Quoter(r) \/ QuoteFails(r) \/ RemoveStale(r) \/ UserSends(r),
             NEW q \in Quoters
      PROVE  QuoteName(q)'
  BY <1>0, <1>1, <1>2, QuoterFrame, OwnNamesKept
<1>3. ASSUME NEW s \in Submitters, Submission(s), NEW q \in Quoters
      PROVE  QuoteName(q)'
  BY <1>0, <1>1, <1>3, SubmissionFrame
<1>4. ASSUME NEW x \in calls, Update(x) \/ Fault(x), NEW q \in Quoters
      PROVE  QuoteName(q)'
  BY <1>0, <1>1, <1>4, UpdateFrame
<1>5. ASSUME Others, NEW q \in Quoters
      PROVE  QuoteName(q)'
  BY <1>0, <1>1, <1>5, OthersFrame
<1>. QED
  BY <1>2, <1>3, <1>4, <1>5, QuoteKinds DEF QuoteNames

-----------------------------------------------------------------------------
\* What calls ask for.

\* What was offered is not offered again.
LEMMA NotSentAgain ==
  ASSUME QuoteInv, CallsShow, [QuoteNext]_quoteAuctionVars, NEW a, NEW b \in Bids,
         WonIn(a, b), bidRow[b].status # "SentToUser"
  PROVE  bidRow'[b].status # "SentToUser"
<1> USE DEF QuoteInv, ServiceInv, StoreInv
<1>1. [ServiceNext]_storeVars /\ StoreTypeOK
  BY QuoteIsService
<1>2. ASSUME NEW d \in Bids, bidRow[d].status = "Absent",
             bidRow' = [bidRow EXCEPT ![d].status = "Pending"]
      PROVE  bidRow'[b] = bidRow[b]
  BY <1>1, <1>2 DEF WonIn, StoreTypeOK
<1>3. ASSUME NEW x \in calls, CanUpdate(bidRow[x.req.bid].status, x.req.to),
             bidRow' = [bidRow EXCEPT ![x.req.bid] = RowAfter(x.req)]
      PROVE  bidRow'[b].status # "SentToUser"
  <2>1. CASE b = x.req.bid
    <3>1. bidRow'[b].status = x.req.to
      BY <1>1, <1>3, <2>1, RowMoves
    <3>2. x.req.to \notin Offers
      BY <1>1, <1>3, <2>1, WonUpdated
    <3>. QED
      BY <3>1, <3>2 DEF Offers
  <2>2. CASE b # x.req.bid
    BY <1>1, <1>3, <2>2 DEF StoreTypeOK
  <2>. QED
    BY <2>1, <2>2
<1>. QED
  BY <1>1, <1>2, <1>3, RowSteps

\* What a call asks for goes on being so, but for an offer that is made now.
LEMMA CallStillShows ==
  ASSUME QuoteInv, OfferInv, [QuoteNext]_quoteAuctionVars, NEW x \in calls
  PROVE  /\ x.req.to \in Offers /\ x.step # "query" => WonIn(x.req.auction, x.req.bid)'
         /\ x.req.to \in Winning \ Offers => Shown(x.req.auction, x.req.bid)'
         /\ x.req.to = "SubmissionFailedDeadline" => bidRow'[x.req.bid].status # "SentToUser"
<1> USE DEF QuoteInv, ServiceInv, StoreInv, OfferInv
<1>1. x.req.bid \in Bids
  BY DEF StoreTypeOK, Calls, Requests
<1>2. CallOfWinner(x)
  BY DEF CallsShow
<1>3. \A a : WonIn(a, x.req.bid) => WonIn(a, x.req.bid)'
  BY <1>1, WonStays
<1>4. \A a : Shown(a, x.req.bid) => Shown(a, x.req.bid)'
  BY <1>1, ShownStays
<1>5. ASSUME x.req.to = "SubmissionFailedDeadline"
      PROVE  bidRow'[x.req.bid].status # "SentToUser"
  <2>1. WonIn(x.req.auction, x.req.bid) /\ bidRow[x.req.bid].status # "SentToUser"
    BY <1>2, <1>5 DEF CallOfWinner, Shown, Winning, Offers, Withdrawn
  <2>. QED
    BY <1>1, <2>1, NotSentAgain
<1>. QED
  BY <1>2, <1>3, <1>4, <1>5 DEF CallOfWinner

\* The offer is made: its query changes the row of a winner.
LEMMA OfferMade ==
  ASSUME QuoteInv, OfferInv, [QuoteNext]_quoteAuctionVars,
         NEW x \in calls, x.req.to \in Offers, x.step = "query",
         bidRow' = [bidRow EXCEPT ![x.req.bid] = RowAfter(x.req)]
  PROVE  /\ WonIn(x.req.auction, x.req.bid)'
         /\ bidRow'[x.req.bid].status = x.req.to
<1> USE DEF QuoteInv, ServiceInv, StoreInv, OfferInv
<1>1. x.req.bid \in Bids /\ x.req.bid # NoBid /\ bidRow'[x.req.bid] = RowAfter(x.req)
  BY QuoteAuctionAssumption DEF StoreTypeOK, Calls, Requests
<1>2. x.req.auction # NoAuction
  BY DEF ReadableInv, CallsNamed, WellFormed, Offers
<1>3. RowAfter(x.req).status = x.req.to /\ RowAfter(x.req).auction = x.req.auction
  BY <1>2 DEF RowAfter, SetsAuction, Offers
<1>4. /\ x.client \in Quoters
      /\ quote[x.client].winner = x.req.bid /\ quote[x.client].auction = x.req.auction
  <2>1. CallOfQuote(x) /\ CallOfWinner(x)
    BY DEF CallsShow
  <2>2. x.client \in Quoters
    BY <2>1 DEF CallOfWinner
  <2>3. x.req = [bid |-> quote[x.client].winner, to |-> Offered(x.client),
                 auction |-> quote[x.client].auction]
    BY <2>1, <2>2 DEF CallOfQuote
  <2>. QED
    BY <2>2, <2>3
<1>5. quote'[x.client].winner = x.req.bid /\ quote'[x.client].auction = x.req.auction
  BY <1>1, <1>4, NamesStay
<1>. QED
  BY <1>1, <1>3, <1>4, <1>5 DEF WonIn, Offers

LEMMA OldCallShows ==
  ASSUME QuoteInv, OfferInv, [QuoteNext]_quoteAuctionVars, NEW x \in calls, x.step # "query" \/ x \in calls'
  PROVE  CallOfWinner(x)'
<1>1. CallOfWinner(x)
  BY DEF OfferInv, CallsShow
<1>. QED
  BY <1>1, CallStillShows DEF CallOfWinner

\* A quote asks for its offer, and for nothing else.
LEMMA QuoterAsks ==
  ASSUME QuoteInv, OfferInv, [QuoteNext]_quoteAuctionVars, NEW q \in Quoters,
         Quoter(q) \/ QuoteFails(q) \/ RemoveStale(q) \/ UserSends(q), NEW x \in calls'
  PROVE  CallOfQuote(x)' /\ CallOfWinner(x)'
<1> USE ClientsOfQuotes
<1>0. /\ StoreTypeOK /\ Places /\ QuoteNames
      /\ \A y \in calls : CallOfQuote(y) /\ CallOfWinner(y)
  BY DEF QuoteInv, ServiceInv, StoreInv, OfferInv, CallsShow
<1>1. /\ \A r \in Quoters \ {q} : quote'[r] = quote[r]
      /\ OfferWinner(q) \/ calls' \subseteq calls
  BY <1>0, QuoterFrame
<1>2. ASSUME OfferWinner(q), NEW y \in calls', y \notin calls
      PROVE  \/ y.client = Background /\ y.req.to = "Lost"
             \/ y = [client |-> q, step |-> "query",
                     req |-> [bid |-> quote[q].winner, to |-> Offered(q), auction |-> held[q].id]]
  BY <1>2 DEF OfferWinner
<1>3. ASSUME OfferWinner(q)
      PROVE  /\ quote'[q].at = "record" /\ quote'[q].winner = quote[q].winner
             /\ quote'[q].auction = quote[q].auction /\ quote'[q].cancellable = quote[q].cancellable
             /\ held[q].id = quote[q].auction /\ \A y \in calls : y.client # q
  <2>1. quote[q].at = "offer" /\ QuoteGoesOn(q, "record")
    BY <1>3 DEF OfferWinner
  <2>2. held[q].id = quote[q].auction
    BY <1>0, <2>1 DEF QuoteNames, QuoteName, Working, Places, QuotePlace
  <2>3. \A y \in calls : y.client # q
    BY <1>0, <2>1 DEF CallOfQuote
  <2>. QED
    BY <1>0, <2>1, <2>2, <2>3, QuoteStepped DEF QuoteSteps
<1>4. CASE x \in calls
  <2>1. CallOfWinner(x)'
    BY <1>4, OldCallShows
  <2>2. CASE x.client = q
    <3>1. quote[q].at = "record"
      BY <1>0, <1>4, <2>2 DEF CallOfQuote
    <3>2. ~Joined(q) /\ ~QuoteFails(q)
      BY <1>4, <2>2 DEF Joined, QuoteFails
    <3>. QED
      BY <3>1, <3>2 DEF Quoter, GetQuote, CollectBids, NoBids, AddRow, AddMemory, RemoveOpportunity,
                        OfferWinner, Recorded, SignBid, SignRow, SignMemory, Return, RemoveStale, UserSends
  <2>3. CASE x.client # q
    <3>1. ASSUME x.client \in Quoters
          PROVE  /\ quote[x.client].at = "record"
                 /\ x.req = [bid |-> quote[x.client].winner, to |-> Offered(x.client),
                             auction |-> quote[x.client].auction]
                 /\ \A y \in calls : y.client = x.client => y = x
      BY <1>0, <1>4, <3>1 DEF CallOfQuote
    <3>2. ASSUME x.client \in Quoters
          PROVE  quote'[x.client] = quote[x.client]
      BY <1>1, <2>3, <3>2
    <3>3. ASSUME x.client \in Quoters, NEW y \in calls', y.client = x.client
          PROVE  y \in calls
      BY <1>1, <1>2, <2>3, <3>3
    <3>4. CallOfQuote(x)'
      BY <3>1, <3>2, <3>3 DEF CallOfQuote, Offered
    <3>. QED
      BY <2>1, <3>4
  <2>. QED
    BY <2>2, <2>3
<1>5. CASE x \notin calls
  <2>1. OfferWinner(q)
    BY <1>1, <1>5
  <2>2. CASE x.client = Background /\ x.req.to = "Lost"
    BY <2>2 DEF CallOfQuote, CallOfWinner, Offers, Winning, Withdrawn
  <2>3. CASE x = [client |-> q, step |-> "query",
                  req |-> [bid |-> quote[q].winner, to |-> Offered(q), auction |-> held[q].id]]
    <3>1. /\ x.client = q /\ x.step = "query" /\ x.req.to = Offered(q)
          /\ x.req = [bid |-> quote[q].winner, to |-> Offered(q), auction |-> held[q].id]
      BY <2>3
    <3>2. \A y \in calls' : y.client = q => y = x
      BY <1>2, <1>3, <2>1, <2>3
    <3>3. Offered(q)' = Offered(q) /\ Offered(q) \in Offers
      BY <1>3, <2>1 DEF Offered, Offers
    <3>4. CallOfQuote(x)'
      BY <1>3, <2>1, <3>1, <3>2, <3>3 DEF CallOfQuote
    <3>5. x.req.to \in Offers /\ x.req.to \notin Winning \ Offers /\ x.req.to # "SubmissionFailedDeadline"
      BY <3>1, <3>3 DEF Offers
    <3>6. CallOfWinner(x)'
      BY <3>1, <3>5 DEF CallOfWinner
    <3>. QED
      BY <3>4, <3>6
  <2>. QED
    BY <1>2, <1>5, <2>1, <2>2, <2>3
<1>. QED
  BY <1>4, <1>5

\* A submission or a cancellation asks only for what follows an offer of its bid.
LEMMA SubmissionAsks ==
  ASSUME QuoteInv, OfferInv, NEW s \in Submitters, Submission(s), NEW x \in calls', x \notin calls
  PROVE  /\ x.client = s /\ x.step = "query" /\ x.req.bid \in Bids
         /\ x.req.to \in Winning \ Offers
         /\ Shown(x.req.auction, x.req.bid)
         /\ x.req.to = "SubmissionFailedDeadline" => bidRow[x.req.bid].status # "SentToUser"
<1> USE DEF QuoteInv, ServiceInv, StoreInv, OfferInv
<1> DEFINE Goal ==
         /\ x.client = s /\ x.step = "query" /\ x.req.bid \in Bids
         /\ x.req.to \in Winning \ Offers
         /\ Shown(x.req.auction, x.req.bid)
         /\ x.req.to = "SubmissionFailedDeadline" => bidRow[x.req.bid].status # "SentToUser"
<1>1. /\ job \in [Submitters -> JobRecords] /\ JobPlace(s) /\ JobShows(s)
      /\ \A a \in Auctions : auctions[a].bids \subseteq Bids
  BY DEF Places, JobsShow, StoreTypeOK, Values
<1>2. job[s].at # "none" => lockKey[s] \in Bids
  BY <1>1 DEF JobPlace, Exclusion!LockInv, Exclusion!RefsFollowSteps
<1>3. {"Submitted", "Cancelled", "SubmissionFailedCancelled", "SubmissionFailedDeadline"} = Winning \ Offers
  BY DEF Winning, Offers, Withdrawn
<1>4. \A a \in Auctions : \A b \in auctions[a].bids : auctions[a].status[b] \in Winning => Shown(a, b)
  BY DEF MemoryShows
<1>5. ASSUME NEW R, Issue(s, R)
      PROVE  x.client = s /\ x.step = "query" /\ x.req \in R
  BY <1>5 DEF Issue
<1>6. CASE CancelChecks(s)
  <2>1. PICK as \in SUBSET {a \in Auctions : /\ lockKey[s] \in auctions[a].bids
                                             /\ auctions[a].status[lockKey[s]] = "AwaitingSignature"} :
          Issue(s, [bid : {lockKey[s]}, to : {"Cancelled"}, auction : as])
    BY <1>6 DEF CancelChecks
  <2>2. x.req \in [bid : {lockKey[s]}, to : {"Cancelled"}, auction : as]
    BY <1>5, <2>1
  <2>3. x.req.bid = lockKey[s] /\ x.req.to = "Cancelled" /\ x.req.auction \in as
    BY <2>2
  <2>4. Shown(x.req.auction, x.req.bid)
    BY <1>4, <2>1, <2>3 DEF Winning, Offers
  <2>5. x.req.bid \in Bids
    BY <1>2, <1>6, <2>3 DEF CancelChecks
  <2>. QED
    BY <1>3, <1>5, <2>1, <2>3, <2>4, <2>5
<1>7. ASSUME PastDeadline(s) \/ WasCancelled(s)
      PROVE  Goal
  <2>1. job[s].auction \in Auctions
    BY <1>1, <1>7 DEF PastDeadline, WasCancelled, Cancels, JobRecords
  <2>2. PICK b \in WinnersOf(job[s].auction), to \in {"SubmissionFailedDeadline", "SubmissionFailedCancelled"} :
          /\ x.req = [bid |-> b, to |-> to, auction |-> job[s].auction]
          /\ x.client = s /\ x.step = "query"
          /\ to = "SubmissionFailedDeadline" =>
               auctions[job[s].auction].status[b] \notin {"Submitted", "SentToUser"}
    <3>1. ~Refuse(s, {})
      BY <1>5 DEF Refuse
    <3>2. ASSUME NEW r, Refuse(s, {r})
          PROVE  x.req = r /\ x.client = s /\ x.step = "query"
      BY <1>5, <3>2 DEF Refuse
    <3>3. CASE PastDeadline(s)
      <4>1. PICK b \in WinnersOf(job[s].auction) :
              /\ auctions[job[s].auction].status[b] \notin {"Submitted", "SentToUser"}
              /\ Refuse(s, {[bid |-> b, to |-> "SubmissionFailedDeadline", auction |-> job[s].auction]})
        BY <3>1, <3>3 DEF PastDeadline
      <4>. QED
        BY <3>2, <4>1
    <3>4. CASE WasCancelled(s)
      <4>1. PICK b \in WinnersOf(job[s].auction) :
              Refuse(s, {[bid |-> b, to |-> "SubmissionFailedCancelled", auction |-> job[s].auction]})
        BY <3>4 DEF WasCancelled
      <4>. QED
        BY <3>2, <4>1
    <3>. QED
      BY <1>7, <3>3, <3>4
  <2>3. b \in auctions[job[s].auction].bids /\ auctions[job[s].auction].status[b] \in Submittable
    BY <2>2 DEF WinnersOf
  <2>4. Shown(job[s].auction, b)
    BY <1>4, <2>1, <2>3 DEF Submittable, Winning, Offers, Withdrawn
  <2>5. ASSUME to = "SubmissionFailedDeadline"
        PROVE  bidRow[b].status # "SentToUser"
    <3>1. auctions[job[s].auction].status[b] \in {"AwaitingSignature", "Cancelled"}
      BY <2>2, <2>3, <2>5 DEF Submittable
    <3>2. Behind(auctions[job[s].auction].status[b], bidRow[b].status)
      BY <2>1, <2>3 DEF MemoryNeverAhead
    <3>3. ~Behind("AwaitingSignature", "SentToUser") /\ ~Behind("Cancelled", "SentToUser")
      BY DEF Behind, Rank
    <3>. QED
      BY <3>1, <3>2, <3>3
  <2>. QED
    BY <1>1, <1>3, <2>1, <2>2, <2>3, <2>4, <2>5
<1>8. CASE RecordSubmitted(s)
  <2>1. x.req = [bid |-> lockKey[s], to |-> "Submitted", auction |-> held[s].id]
    BY <1>5, <1>8 DEF RecordSubmitted
  <2>2. held[s].id = job[s].auction /\ Shown(job[s].auction, lockKey[s]) /\ lockKey[s] \in Bids
    BY <1>1, <1>2, <1>8 DEF RecordSubmitted, JobShows
  <2>. QED
    BY <1>3, <1>5, <1>8, <2>1, <2>2 DEF RecordSubmitted
<1>9. CancelChecks(s) \/ PastDeadline(s) \/ WasCancelled(s) \/ RecordSubmitted(s)
  <2>1. CASE NothingToSubmit(s)
    BY <1>5, <2>1 DEF NothingToSubmit, Refuse
  <2>2. CASE \/ \E a \in Auctions : SubmitQuote(s, a)
             \/ \E b \in Bids : CancelBid(s, b)
             \/ LockBid(s) \/ (\E taken \in SUBSET Bids : SendTransaction(s, taken))
             \/ RemoveLock(s) \/ SubmitFails(s) \/ SubmitRow(s) \/ SubmitMemory(s)
             \/ SubmitChecked(s) \/ UnlockBid(s) \/ Disconnect(s)
    BY <2>2 DEF SubmitQuote, CancelBid, LockBid, SendTransaction, RemoveLock, SubmitFails, SubmitRow,
                SubmitMemory, SubmitAuctionRow, SubmitAuctionMemory, SubmitChecked, UnlockBid,
                Disconnect, storeVars
  <2>. QED
    BY <2>1, <2>2 DEF Submission, Submitter
<1>. QED
  BY <1>6, <1>7, <1>8, <1>9

LEMMA CallsStillShow ==
  ASSUME QuoteInv, OfferInv, [QuoteNext]_quoteAuctionVars
  PROVE  CallsShow'
<1> USE ClientsOfQuotes
<1>0. /\ StoreTypeOK /\ Places /\ Exclusion!LockInv
      /\ \A x \in calls : CallOfQuote(x) /\ CallOfWinner(x)
  BY DEF QuoteInv, ServiceInv, StoreInv, OfferInv, CallsShow
<1>1. ASSUME NEW q \in Quoters, Quoter(q) \/ QuoteFails(q) \/ RemoveStale(q) \/ UserSends(q)
      PROVE  CallsShow'
  BY <1>1, QuoterAsks DEF CallsShow
<1>2. ASSUME NEW x \in calls, x \in calls', \A q \in Quoters : quote'[q] = quote[q],
             \A y \in calls' : y \in calls \/ y.client \notin Quoters
      PROVE  CallOfQuote(x)'
  <2>1. CallOfQuote(x)
    BY <1>0
  <2>2. ASSUME x.client \in Quoters
        PROVE  /\ quote'[x.client].at = "record"
               /\ x.req = [bid |-> quote'[x.client].winner, to |-> Offered(x.client)',
                           auction |-> quote'[x.client].auction]
               /\ \A y \in calls' : y.client = x.client => y = x
    BY <1>2, <2>1, <2>2 DEF CallOfQuote, Offered
  <2>. QED
    BY <2>2 DEF CallOfQuote
<1>3. ASSUME NEW s \in Submitters, Submission(s), NEW x \in calls'
      PROVE  CallOfQuote(x)' /\ CallOfWinner(x)'
  <2>1. /\ quote' = quote /\ \A y \in calls' : y \in calls \/ y.client = s
    BY <1>0, <1>3, SubmissionFrame
  <2>2. CASE x \in calls
    BY <1>2, <1>3, <2>1, <2>2, OldCallShows
  <2>3. CASE x \notin calls
    <3>1. /\ x.client = s /\ x.step = "query" /\ x.req.bid \in Bids
          /\ x.req.to \in Winning \ Offers
          /\ Shown(x.req.auction, x.req.bid)
          /\ x.req.to = "SubmissionFailedDeadline" => bidRow[x.req.bid].status # "SentToUser"
      BY <1>3, <2>3, SubmissionAsks
    <3>2. Shown(x.req.auction, x.req.bid)'
      BY <3>1, ShownStays DEF OfferInv
    <3>3. bidRow' = bidRow
      BY <1>0, <1>3, SubmissionFrame
    <3>. QED
      BY <3>1, <3>2, <3>3 DEF CallOfQuote, CallOfWinner
  <2>. QED
    BY <2>2, <2>3
<1>4. ASSUME NEW u \in calls, Update(u) \/ Fault(u), NEW x \in calls'
      PROVE  CallOfQuote(x)' /\ CallOfWinner(x)'
  <2>1. CallOfQuote(u) /\ CallOfWinner(u)
    BY <1>0
  <2>2. CASE calls' = calls \ {u}
    <3>1. x \in calls /\ x # u
      BY <2>2
    <3>2. CallOfQuote(x)
      BY <1>0, <3>1
    <3>3. ASSUME x.client \in Quoters
          PROVE  quote'[x.client] = quote[x.client]
      <4>1. u.client # x.client
        BY <3>1, <3>2, <3>3 DEF CallOfQuote
      <4>. QED
        BY <1>0, <1>4, <3>3, <4>1, UpdateFrame
    <3>4. CallOfQuote(x)'
      BY <2>2, <3>2, <3>3 DEF CallOfQuote, Offered
    <3>. QED
      BY <1>4, <3>1, <3>4, OldCallShows
  <2>3. ASSUME \A q \in Quoters : quote'[q] = quote[q], Update(u), ~Refused(u),
               NEW z, z.client = u.client, z.req = u.req, z.step # "query",
               calls' = (calls \ {u}) \cup {z}
        PROVE  CallOfQuote(x)' /\ CallOfWinner(x)'
    <3>1. CASE x \in calls \ {u}
      <4>1. CallOfQuote(x)
        BY <1>0, <3>1
      <4>2. x.client \in Quoters => z.client # x.client
        BY <2>3, <3>1, <4>1 DEF CallOfQuote
      <4>3. CallOfQuote(x)'
        BY <2>3, <4>1, <4>2 DEF CallOfQuote, Offered
      <4>. QED
        BY <1>4, <3>1, <4>3, OldCallShows
    <3>2. CASE x = z
      <4>1. CallOfQuote(x)'
        BY <2>1, <2>3, <3>2 DEF CallOfQuote, Offered
      <4>2. /\ u.req.to \in Winning \ Offers => Shown(u.req.auction, u.req.bid)'
            /\ u.req.to = "SubmissionFailedDeadline" => bidRow'[u.req.bid].status # "SentToUser"
        BY CallStillShows
      <4>3. ASSUME u.req.to \in Offers
            PROVE  WonIn(u.req.auction, u.req.bid)'
        <5>1. CASE u.step = "query"
          <6>1. bidRow' = [bidRow EXCEPT ![u.req.bid] = RowAfter(u.req)]
            BY <2>3, <5>1 DEF Update, UpdateStep, UpdateRow, ForgetPending, UpdateMemory, Refused
          <6>. QED
            BY <4>3, <5>1, <6>1, OfferMade
        <5>2. CASE u.step # "query"
          BY <4>3, <5>2, CallStillShows
        <5>. QED
          BY <5>1, <5>2
      <4>4. CallOfWinner(x)'
        BY <2>1, <2>3, <3>2, <4>2, <4>3 DEF CallOfWinner
      <4>. QED
        BY <4>1, <4>4
    <3>. QED
      BY <2>3, <3>1, <3>2
  <2>. QED
    BY <1>0, <1>4, <2>2, <2>3, UpdateFrame
<1>5. ASSUME Others, NEW x \in calls'
      PROVE  CallOfQuote(x)' /\ CallOfWinner(x)'
  <2>1. /\ quote' = quote
        /\ \A y \in calls' : y \in calls \/
             (/\ y.step = "query" /\ y.client \notin Quoters \cup Submitters
              /\ y.req.to \in {"Lost", "Won", "Failed", "Expired"})
    BY <1>0, <1>5, OthersFrame
  <2>2. CASE x \in calls
    BY <1>2, <1>5, <2>1, <2>2, OldCallShows
  <2>3. CASE x \notin calls
    BY <1>5, <2>1, <2>3 DEF CallOfQuote, CallOfWinner, Winning, Offers, Withdrawn
  <2>. QED
    BY <2>2, <2>3
<1>. QED
  BY <1>1, <1>3, <1>4, <1>5, QuoteKinds DEF CallsShow

-----------------------------------------------------------------------------
\* What submissions are of.

LEMMA JobShown ==
  ASSUME NEW s \in Submitters,
         job'[s].at \in {"submit", "update", "send"} => job'[s].auction # NoAuction,
         job'[s].auction # NoAuction =>
           /\ lockStep'[s] \in {"wait", "critical"}
           /\ \E a, b : a = job'[s].auction /\ b = lockKey'[s] /\ Shown(a, b)'
           /\ job'[s].at \in {"submit", "update"} => held'[s].id = job'[s].auction
  PROVE  JobShows(s)'
  BY DEF JobShows, Shown, WonIn

LEMMA JobStaysShown ==
  ASSUME QuoteInv, OfferInv, [QuoteNext]_quoteAuctionVars, NEW s \in Submitters,
         job'[s].auction = job[s].auction, lockStep'[s] \in {"wait", "critical"}, lockKey'[s] = lockKey[s],
         lockStep[s] \in {"wait", "critical"},
         job'[s].at \in {"submit", "update", "send"} => job'[s].auction # NoAuction,
         job'[s].auction # NoAuction /\ job'[s].at \in {"submit", "update"} => held'[s].id = job'[s].auction
  PROVE  JobShows(s)'
<1> USE DEF QuoteInv, OfferInv
<1>1. lockKey[s] \in Bids
  BY DEF Exclusion!LockInv, Exclusion!RefsFollowSteps
<1>2. ASSUME job[s].auction # NoAuction
      PROVE  Shown(job[s].auction, lockKey[s])
  BY <1>2 DEF JobsShow, JobShows
<1>3. \A a : Shown(a, lockKey[s]) => Shown(a, lockKey[s])'
  BY <1>1, ShownStays
<1>4. job'[s].auction # NoAuction => \E a, b : a = job'[s].auction /\ b = lockKey'[s] /\ Shown(a, b)'
  BY <1>2, <1>3
<1>. QED
  BY <1>4, JobShown

LEMMA JobUntouched ==
  ASSUME QuoteInv, OfferInv, [QuoteNext]_quoteAuctionVars, NEW s \in Submitters,
         job'[s] = job[s] \/ (job'[s].auction = job[s].auction /\ job'[s].at = "done"),
         lockStep'[s] = lockStep[s], lockKey'[s] = lockKey[s], held'[s] = held[s]
  PROVE  JobShows(s)'
<1>1. JobShows(s)
  BY DEF OfferInv, JobsShow
<1>2. CASE job[s].auction = NoAuction
  BY <1>1, <1>2, JobShown DEF JobShows
<1>3. CASE job[s].auction # NoAuction
  BY <1>1, <1>3, JobStaysShown DEF JobShows
<1>. QED
  BY <1>2, <1>3

LEMMA OwnJobShows ==
  ASSUME QuoteInv, OfferInv, [QuoteNext]_quoteAuctionVars, NEW s \in Submitters, Submission(s)
  PROVE  JobShows(s)'
<1> USE ClientsOfQuotes
<1>0. /\ StoreTypeOK /\ Places /\ JobShows(s) /\ JobPlace(s)
      /\ job \in [Submitters -> JobRecords] /\ held \in [Clients -> HeldValues]
      /\ lockStep \in [Submitters -> {"idle", "wait", "critical", "leaving"}]
      /\ lockKey \in [Submitters -> Bids \cup {NoBid}]
      /\ job[s].at # "none" => lockStep[s] = "critical"
  BY DEF QuoteInv, ServiceInv, StoreInv, OfferInv, JobsShow, Places, JobPlace, StoreTypeOK,
         Exclusion!LockInv, Exclusion!LockTypeOK
<1>1. ASSUME NEW a \in Auctions, SubmitQuote(s, a)
      PROVE  JobShows(s)'
  <2>1. PICK b \in WinnersOf(a) : Lock!GetOrCreate(s, b)
    BY <1>1 DEF SubmitQuote
  <2>2. b \in Bids /\ Shown(a, b)
    BY <1>0, <2>1, WinnersAreBids
    DEF OfferInv, MemoryShows, WinnersOf, Submittable, Winning, Offers, Withdrawn
  <2>3. Shown(a, b)'
    BY <2>2, ShownStays DEF OfferInv
  <2>4. lockStep'[s] = "wait" /\ lockKey'[s] = b
    BY <1>0, <2>1 DEF Lock!GetOrCreate
  <2>5. job'[s] = [at |-> "none", auction |-> a]
    BY <1>0, <1>1 DEF SubmitQuote
  <2>. QED
    BY <2>3, <2>4, <2>5, JobShown
<1>2. ASSUME NEW b \in Bids, CancelBid(s, b)
      PROVE  JobShows(s)'
  <2>1. job' = job /\ lockStep[s] = "idle"
    BY <1>2 DEF CancelBid, Lock!GetOrCreate
  <2>. QED
    BY <1>0, <2>1, JobShown DEF JobShows
<1>3. CASE RemoveLock(s)
  <2>1. job' = job /\ lockStep[s] = "leaving"
    BY <1>3 DEF RemoveLock, Lock!Remove
  <2>. QED
    BY <1>0, <2>1, JobShown DEF JobShows
<1>4. CASE UnlockBid(s) \/ Disconnect(s)
  <2>1. job'[s] = [at |-> "none", auction |-> NoAuction]
    BY <1>0, <1>4 DEF UnlockBid, Disconnect, Idle
  <2>. QED
    BY <2>1, JobShown
<1>5. CASE LockBid(s)
  <2> DEFINE e == [job[s] EXCEPT !.at = "check"]
  <2>1. e.at = "check" /\ e.auction = job[s].auction
    BY <1>0 DEF JobRecords
  <2>2. job' = [job EXCEPT ![s] = e] /\ lockStep[s] = "wait" /\ lockStep'[s] = "critical" /\ lockKey' = lockKey
    BY <1>0, <1>5 DEF LockBid, Lock!Acquire
  <2> HIDE DEF e
  <2>. QED
    BY <1>0, <2>1, <2>2, JobStaysShown
<1>6. ASSUME NEW step \in {"done", "submit", "update", "send"}, job' = [job EXCEPT ![s].at = step],
             job[s].at # "none", lockVars' = lockVars,
             step # "done" => job[s].auction # NoAuction,
             step \in {"submit", "update"} => held'[s].id = job[s].auction
      PROVE  JobShows(s)'
  <2> DEFINE e == [job[s] EXCEPT !.at = step]
  <2>1. e.at = step /\ e.auction = job[s].auction
    BY <1>0 DEF JobRecords
  <2>2. job' = [job EXCEPT ![s] = e] /\ lockStep' = lockStep /\ lockKey' = lockKey
    BY <1>6 DEF lockVars
  <2> HIDE DEF e
  <2>. QED
    BY <1>0, <1>6, <2>1, <2>2, JobStaysShown
<1>7. CASE \/ CancelChecks(s) \/ NothingToSubmit(s) \/ PastDeadline(s) \/ WasCancelled(s)
           \/ SubmitFails(s) \/ \E taken \in SUBSET Bids : SendTransaction(s, taken)
  <2>1. job' = [job EXCEPT ![s].at = "done"] /\ job[s].at # "none" /\ lockVars' = lockVars
    BY <1>7 DEF CancelChecks, NothingToSubmit, PastDeadline, WasCancelled, SubmitFails, SendTransaction, Refuse
  <2>. QED
    BY <1>6, <2>1
<1>8. CASE SubmitChecked(s)
  <2>1. /\ job' = [job EXCEPT ![s].at = "submit"] /\ job[s].at # "none" /\ lockVars' = lockVars
        /\ job[s].auction # NoAuction
    BY <1>8 DEF SubmitChecked, Cancels
  <2>2. held'[s].id = job[s].auction
    BY <1>0, <1>8 DEF SubmitChecked, ReadAuction
  <2>. QED
    BY <1>6, <2>1, <2>2
<1>9. CASE SubmitRow(s) \/ SubmitMemory(s)
  <2>1. PICK step \in {"submit", "update"} : job' = [job EXCEPT ![s].at = step]
    BY <1>9 DEF SubmitRow, SubmitMemory
  <2>2. job[s].at = "submit" /\ lockVars' = lockVars
    BY <1>9 DEF SubmitRow, SubmitMemory
  <2>3. held[s].id = job[s].auction /\ job[s].auction # NoAuction
    BY <1>0, <2>2 DEF JobShows
  <2>4. held'[s].id = held[s].id
    <3>1. CASE held' = held
      BY <3>1
    <3>2. CASE held' = [held EXCEPT ![s].step = "ready"]
      <4> DEFINE h == [held[s] EXCEPT !.step = "ready"]
      <4>1. h.id = held[s].id
        BY <1>0 DEF HeldValues
      <4>2. held' = [held EXCEPT ![s] = h]
        BY <3>2
      <4> HIDE DEF h
      <4>. QED
        BY <1>0, <4>1, <4>2
    <3>3. CASE held' = [held EXCEPT ![s] =
                 [step |-> "submitted", id |-> held[s].id,
                  value |-> [held[s].value EXCEPT !.hashed = TRUE]]]
      BY <1>0, <3>3
    <3>. QED
      BY <1>9, <3>1, <3>2, <3>3 DEF SubmitRow, SubmitMemory, SubmitAuctionRow, SubmitAuctionMemory
  <2>. QED
    BY <1>6, <2>1, <2>2, <2>3, <2>4
<1>10. CASE RecordSubmitted(s)
  <2>1. /\ job' = [job EXCEPT ![s].at = "send"] /\ job[s].at = "update" /\ lockVars' = lockVars
    BY <1>10 DEF RecordSubmitted
  <2>2. job[s].auction # NoAuction
    BY <1>0, <2>1 DEF JobShows
  <2>. QED
    BY <1>6, <2>1, <2>2
<1>. QED
  BY <1>1, <1>2, <1>3, <1>4, <1>5, <1>7, <1>8, <1>9, <1>10 DEF Submission, Submitter

LEMMA JobsStillShow ==
  ASSUME QuoteInv, OfferInv, [QuoteNext]_quoteAuctionVars
  PROVE  JobsShow'
<1> USE ClientsOfQuotes
<1>0. StoreTypeOK /\ Places /\ Exclusion!LockInv
  BY DEF QuoteInv, ServiceInv, StoreInv
<1>1. ASSUME NEW q \in Quoters, Quoter(q) \/ QuoteFails(q) \/ RemoveStale(q) \/ UserSends(q),
             NEW s \in Submitters
      PROVE  JobShows(s)'
  BY <1>0, <1>1, QuoterFrame, JobUntouched
<1>2. ASSUME NEW u \in Submitters, Submission(u), NEW s \in Submitters
      PROVE  JobShows(s)'
  BY <1>0, <1>2, SubmissionFrame, OwnJobShows, JobUntouched
<1>3. ASSUME NEW x \in calls, Update(x) \/ Fault(x), NEW s \in Submitters
      PROVE  JobShows(s)'
  BY <1>0, <1>3, UpdateFrame, JobUntouched
<1>4. ASSUME Others, NEW s \in Submitters
      PROVE  JobShows(s)'
  BY <1>0, <1>4, OthersFrame, JobUntouched
<1>. QED
  BY <1>1, <1>2, <1>3, <1>4, QuoteKinds DEF JobsShow

-----------------------------------------------------------------------------
\* What answers rest on.

LEMMA OwnApplied ==
  ASSUME Places, NEW q \in Quoters,
         Quoter(q) \/ QuoteFails(q) \/ RemoveStale(q) \/ UserSends(q), Applied(q)'
  PROVE  Applied(q)
<1>0. /\ quote \in [Quoters -> QuoteRecords]
      /\ \/ quote'[q].at \in {"sign", "submit", "reply", "answered"}
         \/ quote'[q].at = "record" /\ \A x \in calls' : x.client = q => x.step # "query"
  BY DEF Places, Applied
<1>1. ASSUME NEW c \in Choices, GetQuote(q, c)
      PROVE  FALSE
  <2> DEFINE e == [quote[q] EXCEPT !.at = "asked", !.cancellable = c]
  <2>1. e.at = "asked"
    BY <1>0 DEF QuoteRecords
  <2>2. quote' = [quote EXCEPT ![q] = e]
    BY <1>1 DEF GetQuote
  <2> HIDE DEF e
  <2>. QED
    BY <1>0, <2>1, <2>2
<1>2. ASSUME NEW a \in Auctions, NEW w \in Bids, CollectBids(q, a, w)
      PROVE  FALSE
  <2> DEFINE e == [quote[q] EXCEPT !.at = "add", !.winner = w, !.auction = a]
  <2>1. e.at = "add"
    BY <1>0 DEF QuoteRecords
  <2>2. quote' = [quote EXCEPT ![q] = e]
    BY <1>2 DEF CollectBids
  <2> HIDE DEF e
  <2>. QED
    BY <1>0, <2>1, <2>2
<1>3. CASE NoBids(q) \/ AddMemory(q) \/ RemoveOpportunity(q) \/ QuoteFails(q)
  <2>1. PICK step \in {"remove", "offer", "ended"} : QuoteGoesOn(q, step)
    BY <1>3 DEF NoBids, AddMemory, RemoveOpportunity, QuoteFails
  <2>2. quote'[q].at = step
    BY <2>1, QuoteStepped DEF QuoteSteps
  <2>. QED
    BY <1>0, <2>2
<1>4. CASE OfferWinner(q)
  <2>1. quote'[q].at = "record"
    BY <1>4, QuoteStepped DEF OfferWinner, QuoteSteps
  <2>2. [client |-> q, step |-> "query",
         req |-> [bid |-> quote[q].winner, to |-> Offered(q), auction |-> held[q].id]] \in calls'
    BY <1>4 DEF OfferWinner
  <2>. QED
    BY <1>0, <2>1, <2>2
<1>5. CASE Recorded(q) \/ SignBid(q) \/ SignRow(q) \/ SignMemory(q)
  BY <1>5 DEF Recorded, Joined, SignBid, SignRow, SignMemory, Applied
<1>6. CASE Return(q)
  <2>1. quote[q].at = "reply" \/ quote'[q].at = "ended"
    BY <1>6, QuoteStepped DEF Return, QuoteSteps
  <2>. QED
    BY <1>0, <2>1 DEF Applied
<1>7. CASE AddRow(q)
  BY <1>0, <1>7 DEF AddRow, requestVars, quoteVars
<1>8. CASE RemoveStale(q) \/ UserSends(q)
  BY <1>0, <1>8 DEF RemoveStale, UserSends, storeVars, requestVars, quoteVars, Applied
<1>. QED
  BY <1>1, <1>2, <1>3, <1>4, <1>5, <1>6, <1>7, <1>8 DEF Quoter

LEMMA AppliedBefore ==
  ASSUME QuoteInv, OfferInv, [QuoteNext]_quoteAuctionVars, NEW q \in Quoters, Applied(q)'
  PROVE  \/ Applied(q)
         \/ \E x \in calls :
              /\ x.client = q /\ x.step = "query"
              /\ CanUpdate(bidRow[x.req.bid].status, x.req.to)
              /\ bidRow' = [bidRow EXCEPT ![x.req.bid] = RowAfter(x.req)]
              /\ \A y \in calls : y # x => y \in calls'
<1> USE ClientsOfQuotes
<1>0. /\ StoreTypeOK /\ Places /\ Exclusion!LockInv
      /\ \/ quote'[q].at \in {"sign", "submit", "reply", "answered"}
         \/ quote'[q].at = "record" /\ \A x \in calls' : x.client = q => x.step # "query"
  BY DEF QuoteInv, ServiceInv, StoreInv, Applied
<1>1. ASSUME quote'[q] = quote[q], \A x \in calls : x.client = q /\ x.step = "query" => x \in calls'
      PROVE  Applied(q)
  BY <1>0, <1>1 DEF Applied
<1>2. ASSUME NEW r \in Quoters, Quoter(r) \/ QuoteFails(r) \/ RemoveStale(r) \/ UserSends(r)
      PROVE  Applied(q)
  <2>1. CASE r = q
    BY <1>0, <1>2, <2>1, OwnApplied
  <2>2. CASE r # q
    BY <1>0, <1>1, <1>2, <2>2, QuoterFrame
  <2>. QED
    BY <2>1, <2>2
<1>3. ASSUME NEW s \in Submitters, Submission(s)
      PROVE  Applied(q)
  BY <1>0, <1>1, <1>3, SubmissionFrame
<1>4. CASE Others
  BY <1>0, <1>1, <1>4, OthersFrame
<1>5. ASSUME NEW x \in calls, Update(x) \/ Fault(x), ~Applied(q)
      PROVE  /\ x.client = q /\ x.step = "query"
             /\ CanUpdate(bidRow[x.req.bid].status, x.req.to)
             /\ bidRow' = [bidRow EXCEPT ![x.req.bid] = RowAfter(x.req)]
             /\ \A y \in calls : y # x => y \in calls'
  <2>1. \A y \in calls : y # x => y \in calls'
    BY <1>0, <1>5, UpdateFrame
  <2>2. quote'[q] = quote[q]
    BY <1>0, <1>5, UpdateFrame
  <2>3. x.client = q /\ x.step = "query"
    BY <1>1, <1>5, <2>1, <2>2
  <2>4. Update(x) /\ ~Refused(x)
    <3>1. CASE (Update(x) /\ Refused(x)) \/ Fault(x)
      <4>1. quote'[q] = [quote[q] EXCEPT !.at = "empty"]
        BY <2>3, <3>1 DEF Update, Fault
      <4>2. quote'[q].at = "empty"
        BY <1>0, <4>1 DEF Places, QuoteRecords
      <4>. QED
        BY <1>0, <4>2
    <3>. QED
      BY <1>5, <3>1
  <2>5. /\ CanUpdate(bidRow[x.req.bid].status, x.req.to)
        /\ bidRow' = [bidRow EXCEPT ![x.req.bid] = RowAfter(x.req)]
    BY <2>3, <2>4 DEF Update, UpdateStep, UpdateRow, ForgetPending, UpdateMemory, Refused
  <2>. QED
    BY <2>1, <2>3, <2>5
<1>. QED
  BY <1>2, <1>3, <1>4, <1>5, QuoteKinds

\* An update to an offer finds the row open.
LEMMA OffersOpen ==
  ASSUME NEW s, NEW to \in Offers, CanUpdate(s, to)
  PROVE  s = "Pending"
  BY DEF CanUpdate, Offers

LEMMA AnswersStillStand ==
  ASSUME QuoteInv, OfferInv, [QuoteNext]_quoteAuctionVars
  PROVE  AnswersStand'
<1> DEFINE New(q, x) ==
         /\ x.client = q /\ x.step = "query"
         /\ CanUpdate(bidRow[x.req.bid].status, x.req.to)
         /\ bidRow' = [bidRow EXCEPT ![x.req.bid] = RowAfter(x.req)]
         /\ \A y \in calls : y # x => y \in calls'
<1>0. /\ StoreTypeOK /\ Places /\ Exclusion!LockInv /\ AnswersStand /\ CallsShow
      /\ QuoteNames /\ NoBid \notin Bids
      /\ \A x \in calls : CallOfQuote(x) /\ x.req.bid \in Bids
  BY QuoteAuctionAssumption
  DEF QuoteInv, ServiceInv, StoreInv, OfferInv, CallsShow, StoreTypeOK, Calls, Requests
<1>1. ASSUME NEW q \in Quoters, Applied(q)'
      PROVE  Applied(q) \/ \E x \in calls : New(q, x)
  BY <1>1, AppliedBefore
<1>2. ASSUME NEW q \in Quoters, Applied(q)
      PROVE  /\ quote[q].winner \in Bids /\ WonIn(quote[q].auction, quote[q].winner)
             /\ ~quote[q].cancellable => bidRow[quote[q].winner].status \in Sent
             /\ \A r \in Quoters \ {q} : Applied(r) => quote[r].winner # quote[q].winner
  BY <1>0, <1>2 DEF AnswersStand
<1>3. ASSUME NEW q \in Quoters, NEW x \in calls, New(q, x)
      PROVE  /\ x.req.bid = quote[q].winner /\ x.req.auction = quote[q].auction
             /\ x.req.to = Offered(q) /\ quote[q].winner \in Bids
             /\ bidRow[x.req.bid].status = "Pending"
             /\ x.req.to \in Offers
  <2>1. x.req = [bid |-> quote[q].winner, to |-> Offered(q), auction |-> quote[q].auction]
    BY <1>0, <1>3 DEF CallOfQuote
  <2>2. Offered(q) \in Offers
    BY DEF Offered, Offers
  <2>. QED
    BY <1>0, <1>3, <2>1, <2>2, OffersOpen
<1>4. ASSUME NEW q \in Quoters, quote[q].winner \in Bids
      PROVE  /\ quote'[q].winner = quote[q].winner /\ quote'[q].auction = quote[q].auction
             /\ quote'[q].cancellable = quote[q].cancellable
  BY <1>0, <1>4, NamesStay
<1>5. ASSUME NEW q \in Quoters, Applied(q)'
      PROVE  /\ quote'[q].winner \in Bids
             /\ \E a, b : a = quote'[q].auction /\ b = quote'[q].winner /\ WonIn(a, b)'
             /\ ~quote'[q].cancellable => bidRow'[quote'[q].winner].status \in Sent
  <2>1. CASE Applied(q)
    <3>1. \E a, b : a = quote'[q].auction /\ b = quote'[q].winner /\ WonIn(a, b)'
      BY <1>0, <1>2, <1>4, <2>1, WonStays
    <3>2. ~quote'[q].cancellable => bidRow'[quote'[q].winner].status \in Sent
      BY <1>0, <1>2, <1>4, <2>1, SentStays
    <3>. QED
      BY <1>2, <1>4, <2>1, <3>1, <3>2
  <2>2. ASSUME NEW x \in calls, New(q, x)
        PROVE  /\ quote'[q].winner \in Bids
               /\ \E a, b : a = quote'[q].auction /\ b = quote'[q].winner /\ WonIn(a, b)'
               /\ ~quote'[q].cancellable => bidRow'[quote'[q].winner].status \in Sent
    <3>1. WonIn(x.req.auction, x.req.bid)' /\ bidRow'[x.req.bid].status = x.req.to
      BY <1>3, <2>2, OfferMade
    <3>2. ~quote[q].cancellable => Offered(q) \in Sent
      BY DEF Offered, Sent
    <3>. QED
      <4>1. /\ quote'[q].winner = x.req.bid /\ quote'[q].auction = x.req.auction
            /\ quote'[q].cancellable = quote[q].cancellable
            /\ x.req.bid \in Bids /\ x.req.to = Offered(q)
        BY <1>3, <1>4, <2>2
      <4>. HIDE DEF New
      <4>. QED
        BY <3>1, <3>2, <4>1
  <2>. QED
    BY <1>1, <1>5, <2>1, <2>2
<1>6. ASSUME NEW q \in Quoters, NEW r \in Quoters \ {q}, NEW x \in calls, New(q, x), Applied(r)'
      PROVE  quote'[r].winner # quote'[q].winner
  <2>1. Applied(r)
    <3>1. ASSUME NEW y \in calls, New(r, y)
          PROVE  FALSE
      <4>1. y # x
        BY <1>6, <3>1
      <4>2. y \in calls' /\ y.client = r /\ y.step = "query"
        BY <1>6, <3>1, <4>1
      <4>3. quote[r].at = "record"
        BY <1>0, <3>1 DEF CallOfQuote
      <4>4. quote'[r].at \in {"record", "empty"}
        <5>1. ASSUME NEW z \in calls, Update(z) \/ Fault(z)
              PROVE  quote'[r] = quote[r] \/ quote'[r].at = "empty"
          BY <1>0, <5>1, UpdateFrame
        <5>2. ASSUME NEW p \in Quoters, Quoter(p) \/ QuoteFails(p) \/ RemoveStale(p) \/ UserSends(p)
              PROVE  FALSE
          <6>1. UNCHANGED bidRow
            BY <1>0, <5>2, QuoterFrame
          <6>2. WonIn(x.req.auction, x.req.bid)'
            BY <1>3, <1>6, OfferMade
          <6>. QED
            BY <1>3, <1>6, <6>1, <6>2 DEF WonIn
        <5>3. ASSUME NEW s \in Submitters, Submission(s)
              PROVE  quote' = quote
          BY <1>0, <5>3, SubmissionFrame
        <5>4. CASE Others
          BY <1>0, <4>3, <5>4, OthersFrame
        <5>. QED
          BY <4>3, <5>1, <5>2, <5>3, <5>4, QuoteKinds
      <4>. QED
        BY <1>6, <4>2, <4>4 DEF Applied
    <3>. QED
      BY <1>1, <1>6, <3>1
  <2>2. bidRow[quote[r].winner].status # "Pending" /\ quote[r].winner \in Bids
    BY <1>2, <2>1 DEF WonIn
  <2>3. quote[r].winner # quote[q].winner
    <3>1. x.req.bid = quote[q].winner /\ bidRow[x.req.bid].status = "Pending"
      BY <1>3, <1>6
    <3> HIDE DEF New
    <3>. QED
      BY <2>2, <3>1
  <2>. QED
    BY <1>3, <1>4, <1>6, <2>2, <2>3
<1>7. ASSUME NEW q \in Quoters, NEW r \in Quoters \ {q}, Applied(q)', Applied(r)'
      PROVE  quote'[r].winner # quote'[q].winner
  <2>1. CASE Applied(q) /\ Applied(r)
    BY <1>2, <1>4, <2>1
  <2>2. CASE \E x \in calls : New(q, x)
    BY <1>6, <1>7, <2>2
  <2>3. CASE \E x \in calls : New(r, x)
    BY <1>6, <1>7, <2>3
  <2>. QED
    BY <1>1, <1>7, <2>1, <2>2, <2>3
<1> HIDE DEF New
<1>. QED
  BY <1>5, <1>7 DEF AnswersStand, WonIn

-----------------------------------------------------------------------------
\* The invariant of offers, and what follows from it.

LEMMA OffersStart == QuoteInit => OfferInv
<1> SUFFICES ASSUME QuoteInit PROVE OfferInv
  OBVIOUS
<1> USE ClientsOfQuotes DEF QuoteInit, ConclusionInit, StoreInit
<1>1. QuoteNames
  BY DEF QuoteNames, QuoteName, Working
<1>2. MemoryShows /\ HeldShows
  BY DEF MemoryShows, HeldShows, Vacant, NothingHeld
<1>3. CallsShow /\ OneOffer
  BY DEF CallsShow, OneOffer, Recordings
<1>4. JobsShow
  BY DEF JobsShow, JobShows, Idle
<1>5. AnswersStand
  BY DEF AnswersStand, Applied
<1>. QED
  BY <1>1, <1>2, <1>3, <1>4, <1>5 DEF OfferInv

LEMMA OffersStep == QuoteInv /\ OfferInv /\ [QuoteNext]_quoteAuctionVars => OfferInv'
  BY QuoteNamesStay, MemoryStillShows, HeldStillShows, CallsStillShow, JobsStillShow, AnswersStillStand,
     OneOfferStays
  DEF OfferInv

\* What memory and every copy of an auction show as offered was offered there by
\* a quote, submissions and cancellations work on nothing else, and no bid is
\* offered twice: the invariant of what quotes offer.
THEOREM QuoteOffers == QuoteSafeSpec => []OfferInv
  BY OffersStart, OffersStep, QuoteInvariant, PTL DEF QuoteSafeSpec

\* The quote a user got stands: its bid was offered in its auction and is that
\* of no other quote, although requests for the same key collect the same
\* pending bids at the same time and record their winners without a lock.
THEOREM QuoteOfferStands == QuoteSafeSpec => []OfferStands
<1>1. OfferInv => OfferStands
  BY DEF OfferInv, AnswersStand, Applied, WonIn, OfferStands
<1>. QED
  BY <1>1, QuoteOffers, PTL
-----------------------------------------------------------------------------
\* What is sent was offered, and what is recorded as submitted is sent.

\* An auction is named by one quote; its row is inserted once it was added.
OwnAuctions ==
  \A q \in Quoters : quote[q].auction # NoAuction =>
    /\ quote[q].at = "add" \/ auctionRow[quote[q].auction].inserted
    /\ \A r \in Quoters \ {q} : quote[r].auction # quote[q].auction

\* The calls of submissions and cancellations are about the bid they locked, and
\* are those of their last step.
CallOfJob(x) ==
  /\ x.req.to \in {"Submitted"} \cup Withdrawn => lockKey[x.client] = x.req.bid
  /\ x.client \in Submitters =>
       /\ job[x.client].at \in {"send", "done"}
       /\ job[x.client].at = "send" <=> x.req.to = "Submitted"

JobCalls == \A x \in calls : CallOfJob(x)

\* A bid is not withdrawn while it is being submitted, and can be sent once its
\* update was tried.
MaySendJob(s) ==
  /\ job[s].at \in {"submit", "update", "send"} =>
       bidRow[lockKey[s]].status \in Sent \cup {"AwaitingSignature"}
  /\ job[s].at = "send" /\ (\A x \in calls : x.client = s => x.step # "query") =>
       bidRow[lockKey[s]].status \in Sent

MaySend == \A s \in Submitters : MaySendJob(s)

\* Subscribers heard of the offer of what is withdrawn.
WithdrawnTold ==
  \A b \in Bids : bidRow[b].status \in Withdrawn => \E to \in Offers : <<b, to>> \in told

\* Memory does not show a withdrawn bid as offered once the withdrawal is over,
\* although quotes and submissions write their copies back.
Withdrawing(b) ==
  \E x \in calls : x.req.bid = b /\ x.step # "query" /\ x.req.to \in Withdrawn

CaughtUp ==
  \A b \in Bids : bidRow[b].status \in Withdrawn /\ ~Withdrawing(b) =>
    \A a \in Auctions : b \in auctions[a].bids => auctions[a].status[b] \notin Offers

SubmitParts ==
  /\ OwnAuctions
  /\ JobCalls
  /\ MaySend
  /\ WithdrawnTold
  /\ CaughtUp
  /\ SentIsOffered
  /\ SubmittedIsSent

SubmitInv == faults = 0 => SubmitParts

-----------------------------------------------------------------------------
\* Steps without a fault.

CalmQuoter(q) == Quoter(q) \/ RemoveStale(q) \/ UserSends(q)

CalmSubmission(s) ==
  \/ \E a \in Auctions : SubmitQuote(s, a)
  \/ \E b \in Bids : CancelBid(s, b)
  \/ Submitter(s)

CalmNext ==
  /\ faults = 0
  /\ \/ \E q \in Quoters : CalmQuoter(q)
     \/ \E s \in Submitters : CalmSubmission(s)
     \/ \E x \in calls : Update(x)
     \/ Others

LEMMA FaultsGrow ==
  ASSUME StoreTypeOK, [ServiceNext]_storeVars
  PROVE  faults \in Nat /\ (faults' = faults \/ faults' = faults + 1)
<1>0. faults \in Nat
  BY BidStoreAssumption DEF StoreTypeOK
<1>1. CASE StoreNext
  BY <1>0, <1>1
  DEF StoreNext, AddBid, TryNew, AddAuctionRow, AddAuctionMemory, ReadAuction, DropAuction,
      SubmitAuctionRow, SubmitAuctionMemory, Issue, ConcludeAuction, UpdateStep, UpdateFault,
      UpdateRow, ForgetPending, UpdateMemory, QueryFails, AnswerLost
<1>2. CASE ~StoreNext
  BY <1>0, <1>2 DEF ServiceNext, Asks, Fails, Rereads, CutShort, storeVars
<1>. QED
  BY <1>1, <1>2

LEMMA CalmKinds ==
  ASSUME QuoteInv, [QuoteNext]_quoteAuctionVars, faults' = 0
  PROVE  CalmNext
<1>1. faults = 0 /\ 0 # 0 + 1
  BY QuoteIsService, FaultsGrow DEF QuoteInv, ServiceInv, StoreInv
<1>2. \A q \in Quoters : ~QuoteFails(q)
  BY <1>1 DEF QuoteFails
<1>3. \A s \in Submitters : ~SubmitFails(s) /\ ~Disconnect(s)
  BY <1>1 DEF SubmitFails, Disconnect
<1>4. \A x \in calls : ~Fault(x)
  BY <1>1 DEF Fault, UpdateFault, QueryFails, AnswerLost
<1>. QED
  BY <1>1, <1>2, <1>3, <1>4, QuoteKinds DEF Submission, CalmNext, CalmQuoter, CalmSubmission

LEMMA CalmRefines ==
  ASSUME CalmNext
  PROVE  /\ \A q : CalmQuoter(q) => (Quoter(q) \/ QuoteFails(q) \/ RemoveStale(q) \/ UserSends(q))
         /\ \A s : CalmSubmission(s) => Submission(s)
  BY DEF CalmQuoter, CalmSubmission, Submission

-----------------------------------------------------------------------------
\* Auctions are named by one quote each.

\* The step that names an auction.
LEMMA NewName ==
  ASSUME QuoteInv, OfferInv, CalmNext, NEW q \in Quoters,
         quote[q].auction = NoAuction, quote'[q].auction # NoAuction
  PROVE  \E a \in Auctions, w \in Bids :
           /\ CollectBids(q, a, w)
           /\ quote'[q].auction = a /\ quote'[q].at = "add"
<1>0. /\ StoreTypeOK /\ Places /\ Exclusion!LockInv /\ quote \in [Quoters -> QuoteRecords]
  BY DEF QuoteInv, ServiceInv, StoreInv, Places
<1>1. ASSUME NEW r \in Quoters, CalmQuoter(r)
      PROVE  r = q
  <2>1. \A p \in Quoters \ {r} : quote'[p] = quote[p]
    BY <1>0, <1>1, CalmRefines, QuoterFrame
  <2>. QED
    BY <2>1
<1>2. \A s \in Submitters : ~CalmSubmission(s)
  BY <1>0, CalmRefines, SubmissionFrame
<1>3. ~Others
  BY <1>0, OthersFrame
<1>4. \A x \in calls : ~Update(x)
  BY <1>0, UpdateFrame
<1>5. CalmQuoter(q)
  BY <1>1, <1>2, <1>3, <1>4 DEF CalmNext
<1>6. ASSUME NEW c \in Choices, GetQuote(q, c)
      PROVE  FALSE
  <2> DEFINE e == [quote[q] EXCEPT !.at = "asked", !.cancellable = c]
  <2>1. e.auction = quote[q].auction
    BY <1>0 DEF QuoteRecords
  <2>2. quote' = [quote EXCEPT ![q] = e]
    BY <1>6 DEF GetQuote
  <2> HIDE DEF e
  <2>. QED
    BY <1>0, <2>1, <2>2
<1>7. ASSUME NEW step \in QuoteSteps, QuoteGoesOn(q, step)
      PROVE  FALSE
  BY <1>0, <1>7, QuoteStepped
<1>8. ASSUME NEW a \in Auctions, NEW w \in Bids, CollectBids(q, a, w)
      PROVE  quote'[q].auction = a /\ quote'[q].at = "add"
  <2> DEFINE e == [quote[q] EXCEPT !.at = "add", !.winner = w, !.auction = a]
  <2>1. e.auction = a /\ e.at = "add"
    BY <1>0 DEF QuoteRecords
  <2>2. quote' = [quote EXCEPT ![q] = e]
    BY <1>8 DEF CollectBids
  <2> HIDE DEF e
  <2>. QED
    BY <1>0, <2>1, <2>2
<1>9. \/ \E c \in Choices : GetQuote(q, c)
      \/ \E a \in Auctions, w \in Bids : CollectBids(q, a, w)
      \/ \E step \in QuoteSteps : QuoteGoesOn(q, step)
      \/ quote' = quote
  BY <1>5 DEF CalmQuoter, Quoter, NoBids, AddRow, AddMemory, RemoveOpportunity, OfferWinner,
              Recorded, SignBid, SignRow, SignMemory, Return, RemoveStale, UserSends,
              requestVars, quoteVars, QuoteSteps
<1>. QED
  BY <1>6, <1>7, <1>8, <1>9

\* A quote goes on from "add" when its auction has a row.
LEMMA LeavesAdd ==
  ASSUME QuoteInv, OfferInv, CalmNext, NEW q \in Quoters,
         quote[q].auction # NoAuction, quote[q].at = "add", quote'[q].at # "add"
  PROVE  auctionRow[quote[q].auction].inserted
<1> USE ClientsOfQuotes
<1>0. /\ StoreTypeOK /\ Places /\ Exclusion!LockInv /\ quote \in [Quoters -> QuoteRecords]
      /\ FreshAuctions /\ QuoteName(q) /\ \A x \in calls : CallOfQuote(x)
  BY DEF QuoteInv, ServiceInv, StoreInv, ReadableInv, Places, OfferInv, QuoteNames, CallsShow
<1>1. ASSUME NEW r \in Quoters, CalmQuoter(r)
      PROVE  r = q
  <2>1. \A p \in Quoters \ {r} : quote'[p] = quote[p]
    BY <1>0, <1>1, CalmRefines, QuoterFrame
  <2>. QED
    BY <2>1
<1>2. \A s \in Submitters : ~CalmSubmission(s)
  BY <1>0, CalmRefines, SubmissionFrame
<1>3. ~Others
  BY <1>0, OthersFrame
<1>4. ASSUME NEW x \in calls, Update(x)
      PROVE  FALSE
  <2>1. x.client = q
    BY <1>0, <1>4, UpdateFrame
  <2>. QED
    BY <1>0, <2>1 DEF CallOfQuote
<1>5. CalmQuoter(q)
  BY <1>1, <1>2, <1>3, <1>4 DEF CalmNext
<1>6. AddMemory(q) \/ AddRow(q)
  <2>1. ~RemoveStale(q) /\ ~UserSends(q)
    BY DEF RemoveStale, UserSends
  <2>. QED
    BY <1>5, <2>1 DEF CalmQuoter, Quoter, GetQuote, CollectBids, NoBids, RemoveOpportunity, OfferWinner,
              Recorded, SignBid, SignRow, SignMemory, Return
<1>7. AddMemory(q)
  BY <1>6 DEF AddRow, requestVars, quoteVars
<1>8. held[q].step = "inserted" /\ held[q].id = quote[q].auction
  BY <1>0, <1>7 DEF AddMemory, AddAuctionMemory, QuoteName, Working
<1>. QED
  BY <1>0, <1>8 DEF FreshAuctions

LEMMA OwnAuctionsStay ==
  ASSUME QuoteInv, OfferInv, OwnAuctions, [QuoteNext]_quoteAuctionVars, CalmNext
  PROVE  OwnAuctions'
<1> USE ClientsOfQuotes
<1>0. /\ StoreTypeOK /\ Places /\ Exclusion!LockInv /\ quote \in [Quoters -> QuoteRecords]
      /\ \A q \in Quoters : QuoteName(q)
      /\ \A a \in Auctions : auctionRow[a].inserted => auctionRow'[a].inserted
  BY QuoteIsService, InsertedStays DEF QuoteInv, ServiceInv, StoreInv, Places, OfferInv, QuoteNames
<1>1. ASSUME NEW q \in Quoters, quote[q].auction # NoAuction
      PROVE  quote'[q].auction = quote[q].auction
             /\ (quote'[q].at = "add" \/ auctionRow'[quote[q].auction].inserted)
  <2>1. quote[q].winner # NoBid /\ quote[q].auction \in Auctions
    BY <1>0, <1>1 DEF QuoteName, QuoteRecords
  <2>2. quote'[q].auction = quote[q].auction
    BY <1>0, <2>1, NamesStay
  <2>3. quote[q].at = "add" \/ auctionRow[quote[q].auction].inserted
    BY <1>1 DEF OwnAuctions
  <2>4. quote'[q].at = "add" \/ auctionRow[quote[q].auction].inserted
    BY <1>1, <2>3, LeavesAdd
  <2>. QED
    BY <1>0, <2>1, <2>2, <2>4
<1>2. ASSUME NEW q \in Quoters, quote[q].auction = NoAuction, quote'[q].auction # NoAuction,
             NEW r \in Quoters \ {q}
      PROVE  quote'[q].at = "add" /\ quote'[r].auction # quote'[q].auction
  <2>1. PICK a \in Auctions, w \in Bids :
          CollectBids(q, a, w) /\ quote'[q].auction = a /\ quote'[q].at = "add"
    BY <1>2, NewName
  <2>2. quote'[r] = quote[r]
    BY <1>0, <2>1, QuoterFrame DEF Quoter
  <2>3. ~auctionRow[a].inserted /\ \A d \in Clients : held[d].id # a
    BY <2>1 DEF CollectBids, TryNew
  <2>4. quote[r].auction # a
    <3>1. ASSUME quote[r].auction = a
          PROVE  FALSE
      <4>1. a # NoAuction
        BY BidStoreAssumption
      <4>2. quote[r].at = "add"
        BY <2>3, <3>1, <4>1 DEF OwnAuctions
      <4>3. held[r].id = a
        BY <1>0, <3>1, <4>1, <4>2 DEF QuoteName, Working
      <4>. QED
        BY <2>3, <4>3
    <3>. QED
      BY <3>1
  <2>. QED
    BY <2>1, <2>2, <2>4
<1>3. ASSUME NEW q \in Quoters, quote[q].auction = NoAuction, quote'[q].auction # NoAuction
      PROVE  quote'[q].at = "add"
  BY <1>3, NewName
<1>4. ASSUME NEW q \in Quoters, quote'[q].auction # NoAuction
      PROVE  quote'[q].at = "add" \/ auctionRow'[quote'[q].auction].inserted
  BY <1>1, <1>3, <1>4
<1>5. ASSUME NEW q \in Quoters, quote'[q].auction # NoAuction, NEW r \in Quoters \ {q}
      PROVE  quote'[r].auction # quote'[q].auction
  <2>1. CASE quote[q].auction = NoAuction
    BY <1>2, <1>5, <2>1
  <2>2. CASE quote[q].auction # NoAuction /\ quote[r].auction # NoAuction
    BY <1>1, <1>5, <2>2 DEF OwnAuctions
  <2>3. CASE quote[q].auction # NoAuction /\ quote[r].auction = NoAuction
    <3>1. CASE quote'[r].auction = NoAuction
      BY <1>5, <3>1
    <3>2. CASE quote'[r].auction # NoAuction
      BY <1>2, <2>3, <3>2
    <3>. QED
      BY <3>1, <3>2
  <2>. QED
    BY <2>1, <2>2, <2>3
<1>. QED
  BY <1>4, <1>5 DEF OwnAuctions

-----------------------------------------------------------------------------
\* One winner per auction, and one submission or cancellation at work on it.

LEMMA OneWinner ==
  ASSUME OwnAuctions, NEW a, a # NoAuction, NEW b, NEW c, WonIn(a, b), WonIn(a, c)
  PROVE  b = c
  BY DEF OwnAuctions, WonIn

\* The winner that a submission finds in its auction is the bid it locked.
LEMMA SoleWinner ==
  ASSUME QuoteInv, OfferInv, OwnAuctions, NEW s \in Submitters, ~Cancels(s),
         NEW b \in WinnersOf(job[s].auction)
  PROVE  b = lockKey[s] /\ job[s].auction \in Auctions /\ Shown(job[s].auction, b)
<1>1. job[s].auction \in Auctions /\ job[s].auction # NoAuction
  BY DEF Cancels, QuoteInv, Places, JobRecords
<1>2. Shown(job[s].auction, lockKey[s])
  BY <1>1 DEF OfferInv, JobsShow, JobShows
<1>3. Shown(job[s].auction, b)
  BY <1>1 DEF OfferInv, MemoryShows, WinnersOf, Submittable, Winning, Offers, Withdrawn
<1>. QED
  BY <1>1, <1>2, <1>3, OneWinner DEF Shown

LEMMA MutexOfJobs == QuoteInv => Exclusion!MutualExclusion
  BY Exclusion!InvExcludes, QuoteAuctionAssumption DEF QuoteInv, Exclusion!LockMapAssumption

\* An update that submits or withdraws a bid is that of the job that works on it.
LEMMA SoleJob ==
  ASSUME QuoteInv, OfferInv, JobCalls, NEW x \in calls, x.req.to \in {"Submitted"} \cup Withdrawn,
         NEW s \in Submitters, job[s].at # "none", lockKey[s] = x.req.bid
  PROVE  x.client = s
<1>1. x.client \in Submitters
  BY DEF OfferInv, CallsShow, CallOfWinner, Winning, Offers, Withdrawn
<1>2. lockKey[x.client] = x.req.bid /\ job[x.client].at # "none"
  BY <1>1 DEF JobCalls, CallOfJob
<1>3. lockStep[x.client] = "critical" /\ lockStep[s] = "critical"
  BY <1>1, <1>2 DEF QuoteInv, Places, JobPlace
<1>. QED
  BY <1>1, <1>2, <1>3, MutexOfJobs DEF Exclusion!MutualExclusion

\* A job waits for its updates.
LEMMA JobWaits ==
  ASSUME QuoteInv, JobCalls, NEW s \in Submitters, CalmSubmission(s)
  PROVE  \A x \in calls : x.client # s
<1> SUFFICES ASSUME NEW x \in calls, x.client = s
             PROVE  FALSE
  OBVIOUS
<1>1. job[s].at \in {"send", "done"} /\ lockStep[s] = "critical" /\ ~Joined(s)
  BY DEF JobCalls, CallOfJob, QuoteInv, Places, JobPlace, Joined
<1>2. ~(\E a \in Auctions : SubmitQuote(s, a)) /\ ~(\E b \in Bids : CancelBid(s, b))
  BY <1>1 DEF SubmitQuote, CancelBid, Lock!GetOrCreate
<1>3. ~LockBid(s) /\ ~RemoveLock(s)
  BY <1>1 DEF LockBid, RemoveLock, Lock!Acquire, Lock!Remove
<1>. QED
  BY <1>1, <1>2, <1>3 DEF CalmSubmission, Submitter, CancelChecks, NothingToSubmit, PastDeadline,
     WasCancelled, SubmitChecked, SubmitRow, SubmitMemory, RecordSubmitted, SendTransaction, UnlockBid

\* What a job asks for is about its own bid.
LEMMA JobAsks ==
  ASSUME QuoteInv, OfferInv, OwnAuctions, NEW s \in Submitters, CalmSubmission(s),
         NEW x \in calls', x \notin calls
  PROVE  /\ x.req.bid = lockKey[s] /\ UNCHANGED lockKey
         /\ \/ job'[s].at = "send" /\ x.req.to = "Submitted"
            \/ job'[s].at = "done" /\ x.req.to \in Withdrawn
<1>0. /\ StoreTypeOK /\ Places
      /\ job \in [Submitters -> JobRecords]
  BY DEF QuoteInv, ServiceInv, StoreInv, Places
<1>1. ASSUME NEW R, Issue(s, R)
      PROVE  x.req \in R
  BY <1>1 DEF Issue
<1>2. ASSUME NEW step \in {"send", "done"}, job' = [job EXCEPT ![s].at = step]
      PROVE  job'[s].at = step
  BY <1>0, <1>2, JobStepped DEF JobSteps
<1>3. CASE CancelChecks(s)
  <2>1. PICK as : Issue(s, [bid : {lockKey[s]}, to : {"Cancelled"}, auction : as])
    BY <1>3 DEF CancelChecks
  <2>2. x.req \in [bid : {lockKey[s]}, to : {"Cancelled"}, auction : as]
    BY <1>1, <2>1
  <2>3. x.req.bid = lockKey[s] /\ x.req.to = "Cancelled"
    BY <2>2
  <2>4. UNCHANGED lockKey /\ job' = [job EXCEPT ![s].at = "done"]
    BY <1>3 DEF CancelChecks, lockVars
  <2>. QED
    BY <1>2, <2>3, <2>4 DEF Withdrawn
<1>4. CASE PastDeadline(s)
  <2>1. ~Cancels(s) /\ UNCHANGED lockKey /\ ~Refuse(s, {})
    BY <1>1, <1>4 DEF PastDeadline, Refuse, lockVars
  <2>2. PICK b \in WinnersOf(job[s].auction) :
          Refuse(s, {[bid |-> b, to |-> "SubmissionFailedDeadline", auction |-> job[s].auction]})
    BY <1>4, <2>1 DEF PastDeadline
  <2>3. x.req = [bid |-> b, to |-> "SubmissionFailedDeadline", auction |-> job[s].auction]
        /\ job' = [job EXCEPT ![s].at = "done"]
    BY <1>1, <2>2 DEF Refuse
  <2>4. x.req.bid = b /\ x.req.to = "SubmissionFailedDeadline"
    BY <2>3
  <2>. QED
    BY <1>2, <2>1, <2>2, <2>3, <2>4, SoleWinner DEF Withdrawn
<1>5. CASE WasCancelled(s)
  <2>1. ~Cancels(s) /\ UNCHANGED lockKey
    BY <1>5 DEF WasCancelled, lockVars
  <2>2. PICK b \in WinnersOf(job[s].auction) :
          Refuse(s, {[bid |-> b, to |-> "SubmissionFailedCancelled", auction |-> job[s].auction]})
    BY <1>5 DEF WasCancelled
  <2>3. x.req = [bid |-> b, to |-> "SubmissionFailedCancelled", auction |-> job[s].auction]
        /\ job' = [job EXCEPT ![s].at = "done"]
    BY <1>1, <2>2 DEF Refuse
  <2>4. x.req.bid = b /\ x.req.to = "SubmissionFailedCancelled"
    BY <2>3
  <2>. QED
    BY <1>2, <2>1, <2>2, <2>3, <2>4, SoleWinner DEF Withdrawn
<1>6. CASE RecordSubmitted(s)
  <2>1. x.req = [bid |-> lockKey[s], to |-> "Submitted", auction |-> held[s].id]
    BY <1>1, <1>6 DEF RecordSubmitted
  <2>2. UNCHANGED lockKey /\ job' = [job EXCEPT ![s].at = "send"]
    BY <1>6 DEF RecordSubmitted, lockVars
  <2>. QED
    BY <1>2, <2>1, <2>2
<1>7. CASE NothingToSubmit(s)
  BY <1>1, <1>7 DEF NothingToSubmit, Refuse
<1>8. UNCHANGED calls => FALSE
  OBVIOUS
<1>. QED
  BY <1>3, <1>4, <1>5, <1>6, <1>7, <1>8
  DEF CalmSubmission, Submitter, SubmitQuote, CancelBid, LockBid, SubmitChecked, SubmitRow, SubmitMemory,
      SubmitAuctionRow, SubmitAuctionMemory, SendTransaction, UnlockBid, RemoveLock, storeVars

LEMMA JobCallsStay ==
  ASSUME QuoteInv, OfferInv, OwnAuctions, JobCalls, CalmNext
  PROVE  JobCalls'
<1> USE ClientsOfQuotes
<1>0. /\ StoreTypeOK /\ Places /\ Exclusion!LockInv
      /\ \A x \in calls : CallOfWinner(x) /\ CallOfJob(x)
  BY DEF QuoteInv, ServiceInv, StoreInv, OfferInv, CallsShow, JobCalls
<1>1. ASSUME NEW x \in calls, x.client \in Submitters =>
               job'[x.client] = job[x.client] /\ lockKey'[x.client] = lockKey[x.client]
      PROVE  CallOfJob(x)'
  <2>1. x.req.to \in {"Submitted"} \cup Withdrawn => x.client \in Submitters
    BY <1>0 DEF CallOfWinner, Winning, Offers, Withdrawn
  <2>2. CallOfJob(x)
    BY <1>0
  <2>. QED
    BY <1>1, <2>1, <2>2 DEF CallOfJob
<1>2. ASSUME NEW q \in Quoters, CalmQuoter(q), NEW x \in calls'
      PROVE  CallOfJob(x)'
  <2>1. UNCHANGED <<job, lockKey>> /\ (OfferWinner(q) \/ calls' \subseteq calls)
    BY <1>0, <1>2, CalmRefines, QuoterFrame
  <2>2. CASE x \in calls
    BY <1>1, <2>1, <2>2
  <2>3. CASE x \notin calls
    <3>1. x.client \in {Background, q} /\ x.req.to \in {"Lost", Offered(q)}
      BY <2>1, <2>3 DEF OfferWinner
    <3>. QED
      BY <3>1 DEF CallOfJob, Offered, Withdrawn
  <2>. QED
    BY <2>2, <2>3
<1>3. ASSUME NEW s \in Submitters, CalmSubmission(s), NEW x \in calls'
      PROVE  CallOfJob(x)'
  <2>1. /\ \A u \in Submitters \ {s} : job'[u] = job[u] /\ lockKey'[u] = lockKey[u]
        /\ \A y \in calls' : y \in calls \/ y.client = s
    BY <1>0, <1>3, CalmRefines, SubmissionFrame
  <2>2. CASE x \in calls
    <3>1. x.client # s
      BY <1>3, <2>2, JobWaits
    <3>. QED
      BY <1>1, <2>1, <2>2, <3>1
  <2>3. CASE x \notin calls
    <3>1. /\ x.req.bid = lockKey[s] /\ UNCHANGED lockKey
          /\ \/ job'[s].at = "send" /\ x.req.to = "Submitted"
             \/ job'[s].at = "done" /\ x.req.to \in Withdrawn
      BY <1>3, <2>3, JobAsks
    <3>. QED
      BY <2>1, <2>3, <3>1 DEF CallOfJob, Withdrawn
  <2>. QED
    BY <2>2, <2>3
<1>4. ASSUME NEW u \in calls, Update(u), NEW x \in calls'
      PROVE  CallOfJob(x)'
  <2>1. UNCHANGED <<job, lockKey>>
    BY <1>4 DEF Update, submitVars, lockVars
  <2>2. \E y \in calls : y.client = x.client /\ y.req = x.req
    BY <1>0, <1>4, UpdateFrame
  <2>. QED
    BY <1>1, <2>1, <2>2 DEF CallOfJob
<1>5. ASSUME Others, NEW x \in calls'
      PROVE  CallOfJob(x)'
  <2>1. /\ UNCHANGED <<job, lockKey>>
        /\ x \in calls \/ (/\ x.client \notin Quoters \cup Submitters
                           /\ x.req.to \in {"Lost", "Won", "Failed", "Expired"})
    BY <1>0, <1>5, OthersFrame
  <2>2. CASE x \in calls
    BY <1>1, <2>1, <2>2
  <2>3. CASE x \notin calls
    BY <2>1, <2>3 DEF CallOfJob, Withdrawn
  <2>. QED
    BY <2>2, <2>3
<1>. QED
  BY <1>2, <1>3, <1>4, <1>5 DEF CalmNext, JobCalls

-----------------------------------------------------------------------------
\* What is being submitted is not withdrawn.

LEMMA SubmittableMoves ==
  ASSUME NEW s \in Sent \cup {"AwaitingSignature"}, NEW to, CanUpdate(s, to), to \notin Withdrawn
  PROVE  to \in Sent
  BY DEF CanUpdate, Sent, Withdrawn

LEMMA OfferedMoves ==
  ASSUME NEW s \in Sent \cup {"AwaitingSignature"}, ~CanUpdate(s, "Submitted")
  PROVE  s \in Sent
  BY DEF CanUpdate, Sent

LEMMA OfferedNow ==
  ASSUME NEW s \in Offers, NEW t \in RowStatuses, Behind(s, t), t # "Lost", t \notin Withdrawn
  PROVE  t \in Sent \cup {"AwaitingSignature"}
  BY DEF Offers, RowStatuses, Statuses, Behind, Rank, Withdrawn, Sent

LEMMA LockedBid ==
  ASSUME QuoteInv, NEW s \in Submitters, job[s].at # "none"
  PROVE  lockKey[s] \in Bids
  BY DEF QuoteInv, Places, JobPlace, Exclusion!LockInv, Exclusion!RefsFollowSteps

\* The bid that is being submitted stays submittable, and is sent if it was.
LEMMA SubmittedRow ==
  ASSUME QuoteInv, OfferInv, JobCalls, [QuoteNext]_quoteAuctionVars, NEW s \in Submitters,
         job[s].at \in {"submit", "update", "send"},
         bidRow[lockKey[s]].status \in Sent \cup {"AwaitingSignature"}
  PROVE  bidRow'[lockKey[s]].status \in Sent \cup {"AwaitingSignature"}
<1>0. StoreTypeOK /\ CallsShow /\ [ServiceNext]_storeVars /\ lockKey[s] \in Bids
  BY QuoteIsService, LockedBid DEF QuoteInv, ServiceInv, StoreInv, OfferInv
<1> DEFINE b == lockKey[s]
<1>1. CASE bidRow[b].status \in Sent
  BY <1>0, <1>1, SentStays
<1>2. ASSUME NEW x \in calls, x.req.bid = b, CanUpdate(bidRow[x.req.bid].status, x.req.to),
             bidRow' = [bidRow EXCEPT ![x.req.bid] = RowAfter(x.req)]
      PROVE  bidRow'[b].status \in Sent
  <2>1. bidRow'[b].status = x.req.to
    BY <1>0, <1>2, RowMoves
  <2>2. x.req.to \notin Withdrawn
    <3>1. ASSUME x.req.to \in Withdrawn
          PROVE  FALSE
      <4>1. x.client = s
        BY <1>2, <3>1, SoleJob
      <4>2. job[s].at = "send" /\ x.req.to = "Submitted"
        BY <4>1 DEF JobCalls, CallOfJob
      <4>. QED
        BY <3>1, <4>2 DEF Withdrawn
    <3>. QED
      BY <3>1
  <2>. QED
    BY <1>2, <2>1, <2>2, SubmittableMoves
<1>3. ASSUME NEW x \in calls, x.req.bid # b, CanUpdate(bidRow[x.req.bid].status, x.req.to),
             bidRow' = [bidRow EXCEPT ![x.req.bid] = RowAfter(x.req)]
      PROVE  bidRow'[b] = bidRow[b]
  BY <1>0, <1>3, RowMoves
<1>4. ASSUME NEW d \in Bids, bidRow[d].status = "Absent",
             bidRow' = [bidRow EXCEPT ![d].status = "Pending"]
      PROVE  bidRow'[b] = bidRow[b]
  BY <1>0, <1>4 DEF Sent, StoreTypeOK
<1>. QED
  BY <1>0, <1>1, <1>2, <1>3, <1>4, RowSteps

\* Nothing withdraws the bid of a submission that finds it offered.
LEMMA OfferedIsSubmittable ==
  ASSUME QuoteInv, OfferInv, OwnAuctions, JobCalls, CaughtUp, NEW s \in Submitters, SubmitChecked(s)
  PROVE  bidRow[lockKey[s]].status \in Sent \cup {"AwaitingSignature"}
<1>1. ~Cancels(s) /\ job[s].at = "check"
  BY DEF SubmitChecked
<1>2. PICK b \in WinnersOf(job[s].auction) :
        auctions[job[s].auction].status[b] \in {"AwaitingSignature", "SentToUser"}
  BY DEF SubmitChecked
<1>3. b = lockKey[s] /\ job[s].auction \in Auctions /\ Shown(job[s].auction, b) /\ b \in Bids
  BY <1>1, <1>2, SoleWinner, LockedBid
<1>4. b \in auctions[job[s].auction].bids /\ auctions[job[s].auction].status[b] \in Offers
  BY <1>2 DEF WinnersOf, Offers
<1>5. bidRow[b].status \notin Withdrawn
  <2>1. ASSUME Withdrawing(b)
        PROVE  FALSE
    <3>1. PICK x \in calls : x.req.bid = b /\ x.req.to \in Withdrawn
      BY <2>1 DEF Withdrawing
    <3>2. x.client = s
      BY <1>1, <1>3, <3>1, SoleJob
    <3>3. job[s].at \in {"send", "done"}
      BY <3>2 DEF JobCalls, CallOfJob
    <3>. QED
      BY <1>1, <3>3
  <2>. QED
    BY <1>3, <1>4, <2>1 DEF CaughtUp
<1>6. Behind(auctions[job[s].auction].status[b], bidRow[b].status)
  BY <1>3, <1>4 DEF QuoteInv, ServiceInv, StoreInv, MemoryNeverAhead
<1>7. bidRow[b].status \in RowStatuses /\ bidRow[b].status # "Lost"
  BY <1>3 DEF QuoteInv, ServiceInv, StoreInv, StoreTypeOK, Shown, WonIn
<1>. QED
  BY <1>3, <1>4, <1>5, <1>6, <1>7, OfferedNow

LEMMA JobMaySend ==
  ASSUME NEW s \in Submitters,
         \E b : b = lockKey'[s] /\
           /\ job'[s].at \in {"submit", "update", "send"} =>
                bidRow'[b].status \in Sent \cup {"AwaitingSignature"}
           /\ job'[s].at = "send" /\ (\A x \in calls' : x.client = s => x.step # "query") =>
                bidRow'[b].status \in Sent
  PROVE  MaySendJob(s)'
  BY DEF MaySendJob

\* A job that does not move.
LEMMA JobStillMaySend ==
  ASSUME QuoteInv, OfferInv, JobCalls, MaySend, [QuoteNext]_quoteAuctionVars, NEW s \in Submitters,
         job'[s] = job[s], lockKey'[s] = lockKey[s],
         \A x \in calls : x.client = s /\ x.step = "query" =>
           x \in calls' \/ bidRow'[lockKey[s]].status \in Sent
  PROVE  MaySendJob(s)'
<1>1. CallsShow /\ (job[s].at # "none" => lockKey[s] \in Bids)
  BY LockedBid DEF OfferInv
<1>2. MaySendJob(s)
  BY DEF MaySend
<1>3. job[s].at \in {"submit", "update", "send"} =>
        bidRow'[lockKey[s]].status \in Sent \cup {"AwaitingSignature"}
  BY <1>2, SubmittedRow DEF MaySendJob
<1>4. job[s].at = "send" /\ (\A x \in calls' : x.client = s => x.step # "query") =>
        bidRow'[lockKey[s]].status \in Sent
  <2>1. CASE \A x \in calls : x.client = s => x.step # "query"
    BY <1>1, <1>2, <2>1, SentStays DEF MaySendJob
  <2>2. CASE \E x \in calls : x.client = s /\ x.step = "query"
    BY <2>2
  <2>. QED
    BY <2>1, <2>2
<1>. QED
  BY <1>3, <1>4, JobMaySend

LEMMA OwnJobMaySend ==
  ASSUME QuoteInv, OfferInv, OwnAuctions, JobCalls, MaySend, CaughtUp, [QuoteNext]_quoteAuctionVars,
         NEW s \in Submitters, CalmSubmission(s)
  PROVE  MaySendJob(s)'
<1>0. /\ StoreTypeOK /\ Places /\ Exclusion!LockInv /\ MaySendJob(s) /\ JobPlace(s)
      /\ job \in [Submitters -> JobRecords]
  BY DEF QuoteInv, ServiceInv, StoreInv, Places, MaySend
<1>1. UNCHANGED bidRow
  BY <1>0, SubmissionFrame DEF CalmSubmission, Submission
<1>2. ASSUME NEW step \in {"check", "done"}, job' = [job EXCEPT ![s].at = step]
      PROVE  MaySendJob(s)'
  BY <1>0, <1>2, JobStepped, JobMaySend DEF JobSteps
<1>3. CASE \/ LockBid(s) \/ CancelChecks(s) \/ NothingToSubmit(s) \/ PastDeadline(s) \/ WasCancelled(s)
           \/ \E taken \in SUBSET Bids : SendTransaction(s, taken)
  BY <1>2, <1>3 DEF LockBid, CancelChecks, NothingToSubmit, PastDeadline, WasCancelled, SendTransaction, Refuse
<1>4. CASE \E a \in Auctions : SubmitQuote(s, a)
  <2>1. PICK a \in Auctions : job' = [job EXCEPT ![s] = [at |-> "none", auction |-> a]]
    BY <1>4 DEF SubmitQuote
  <2>2. job'[s] = [at |-> "none", auction |-> a]
    BY <1>0, <2>1
  <2>3. job'[s].at = "none"
    BY <2>2
  <2>. QED
    BY <2>3, JobMaySend
<1>5. CASE UnlockBid(s)
  <2>1. job'[s] = Idle
    BY <1>0, <1>5 DEF UnlockBid
  <2>. QED
    BY <2>1, JobMaySend DEF Idle
<1>6. CASE RemoveLock(s) \/ \E b \in Bids : CancelBid(s, b)
  <2>1. job' = job /\ lockStep[s] # "critical"
    BY <1>6 DEF RemoveLock, CancelBid, Lock!Remove, Lock!GetOrCreate
  <2>2. job'[s].at = "none"
    BY <1>0, <2>1 DEF JobPlace
  <2>. QED
    BY <2>2, JobMaySend
<1>7. CASE SubmitChecked(s)
  <2>1. bidRow[lockKey[s]].status \in Sent \cup {"AwaitingSignature"}
    BY <1>7, OfferedIsSubmittable
  <2>2. job' = [job EXCEPT ![s].at = "submit"] /\ UNCHANGED lockKey
    BY <1>7 DEF SubmitChecked, lockVars
  <2>3. job'[s].at = "submit"
    BY <1>0, <2>2, JobStepped DEF JobSteps
  <2>. QED
    BY <1>1, <2>1, <2>2, <2>3, JobMaySend
<1>8. CASE SubmitRow(s) \/ SubmitMemory(s)
  <2>1. PICK step \in {"submit", "update"} : job' = [job EXCEPT ![s].at = step]
    BY <1>8 DEF SubmitRow, SubmitMemory
  <2>2. job[s].at = "submit" /\ UNCHANGED lockKey
    BY <1>8 DEF SubmitRow, SubmitMemory, lockVars
  <2>3. job'[s].at = step
    BY <1>0, <2>1, JobStepped DEF JobSteps
  <2>. QED
    BY <1>0, <1>1, <2>2, <2>3, JobMaySend DEF MaySendJob
<1>9. CASE RecordSubmitted(s)
  <2>1. job' = [job EXCEPT ![s].at = "send"] /\ job[s].at = "update" /\ UNCHANGED lockKey
    BY <1>9 DEF RecordSubmitted, lockVars
  <2>2. job'[s].at = "send"
    BY <1>0, <2>1, JobStepped DEF JobSteps
  <2>3. [client |-> s, step |-> "query",
         req |-> [bid |-> lockKey[s], to |-> "Submitted", auction |-> held[s].id]] \in calls'
    BY <1>9 DEF RecordSubmitted, Issue
  <2>. QED
    BY <1>0, <1>1, <2>1, <2>2, <2>3, JobMaySend DEF MaySendJob
<1>. QED
  BY <1>3, <1>4, <1>5, <1>6, <1>7, <1>8, <1>9 DEF CalmSubmission, Submitter

LEMMA MaySendStays ==
  ASSUME QuoteInv, OfferInv, OwnAuctions, JobCalls, MaySend, CaughtUp, [QuoteNext]_quoteAuctionVars, CalmNext
  PROVE  MaySend'
<1> USE ClientsOfQuotes
<1>0. StoreTypeOK /\ Places /\ Exclusion!LockInv /\ \A x \in calls : CallOfJob(x)
  BY DEF QuoteInv, ServiceInv, StoreInv, JobCalls
<1>1. ASSUME NEW q \in Quoters, CalmQuoter(q), NEW s \in Submitters
      PROVE  MaySendJob(s)'
  BY <1>0, <1>1, CalmRefines, QuoterFrame, JobStillMaySend
<1>2. ASSUME NEW u \in Submitters, CalmSubmission(u), NEW s \in Submitters
      PROVE  MaySendJob(s)'
  <2>1. CASE s = u
    BY <1>2, <2>1, OwnJobMaySend
  <2>2. CASE s # u
    BY <1>0, <1>2, <2>2, CalmRefines, SubmissionFrame, JobStillMaySend
  <2>. QED
    BY <2>1, <2>2
<1>3. ASSUME Others, NEW s \in Submitters
      PROVE  MaySendJob(s)'
  BY <1>0, <1>3, OthersFrame, JobStillMaySend
<1>4. ASSUME NEW x \in calls, Update(x), NEW s \in Submitters
      PROVE  MaySendJob(s)'
  <2>1. UNCHANGED <<job, lockKey>> /\ \A y \in calls : y # x => y \in calls'
    BY <1>0, <1>4, UpdateFrame DEF Update, submitVars, lockVars
  <2>2. ASSUME job[s].at # "send"
        PROVE  MaySendJob(s)'
    <3>1. MaySendJob(s)
      BY DEF MaySend
    <3>2. job[s].at \in {"submit", "update"} =>
            bidRow'[lockKey[s]].status \in Sent \cup {"AwaitingSignature"}
      BY <3>1, SubmittedRow DEF MaySendJob
    <3>. QED
      BY <2>1, <2>2, <3>2, JobMaySend
  <2>3. ASSUME job[s].at = "send", x.client = s, x.step = "query"
        PROVE  bidRow'[lockKey[s]].status \in Sent
    <3>1. x.req.to = "Submitted" /\ x.req.bid = lockKey[s]
      BY <1>0, <2>3 DEF CallOfJob
    <3>2. bidRow[lockKey[s]].status \in Sent \cup {"AwaitingSignature"} /\ lockKey[s] \in Bids
      BY <2>3, LockedBid DEF MaySend, MaySendJob
    <3>3. CASE CanUpdate(bidRow[x.req.bid].status, x.req.to)
      <4>1. bidRow' = [bidRow EXCEPT ![x.req.bid] = RowAfter(x.req)]
        BY <1>4, <2>3, <3>3 DEF Update, UpdateStep, UpdateRow, ForgetPending, UpdateMemory
      <4>. QED
        BY <1>0, <3>1, <3>3, <4>1, RowMoves DEF Sent
    <3>4. CASE ~CanUpdate(bidRow[x.req.bid].status, x.req.to)
      <4>1. bidRow[lockKey[s]].status \in Sent
        BY <3>1, <3>2, <3>4, OfferedMoves
      <4>. QED
        BY <3>2, <4>1, SentStays DEF OfferInv
    <3>. QED
      BY <3>3, <3>4
  <2>. QED
    BY <2>1, <2>2, <2>3, JobStillMaySend
<1>. QED
  BY <1>1, <1>2, <1>3, <1>4 DEF CalmNext, MaySend

-----------------------------------------------------------------------------
\* Withdrawals are over once memory shows them.

LEMMA WithdrawnToldStays ==
  ASSUME QuoteInv, OfferInv, WithdrawnTold, [QuoteNext]_quoteAuctionVars
  PROVE  WithdrawnTold'
<1>0. StoreTypeOK /\ [ServiceNext]_storeVars /\ told \subseteq told'
  BY QuoteIsService, ToldGrows DEF QuoteInv, ServiceInv, StoreInv
<1> SUFFICES ASSUME NEW b \in Bids, bidRow'[b].status \in Withdrawn
             PROVE  \E to \in Offers : <<b, to>> \in told
  BY <1>0 DEF WithdrawnTold
<1>1. CASE bidRow[b].status \in Withdrawn
  BY <1>1 DEF WithdrawnTold
<1>2. ASSUME NEW x \in calls, x.req.bid = b, CanUpdate(bidRow[x.req.bid].status, x.req.to),
             bidRow' = [bidRow EXCEPT ![x.req.bid] = RowAfter(x.req)]
      PROVE  \E to \in Offers : <<b, to>> \in told
  <2>1. x.req.to \in Winning \ Offers
    BY <1>0, <1>2, RowMoves DEF Winning, Withdrawn, Offers
  <2>. QED
    BY <1>2, <2>1 DEF OfferInv, CallsShow, CallOfWinner, Shown
<1>3. ASSUME NEW x \in calls, x.req.bid # b, CanUpdate(bidRow[x.req.bid].status, x.req.to),
             bidRow' = [bidRow EXCEPT ![x.req.bid] = RowAfter(x.req)]
      PROVE  bidRow'[b] = bidRow[b]
  BY <1>0, <1>3, RowMoves
<1>4. ASSUME NEW d \in Bids, bidRow' = [bidRow EXCEPT ![d].status = "Pending"]
      PROVE  bidRow'[b] = bidRow[b]
  BY <1>0, <1>4 DEF Withdrawn, StoreTypeOK
<1>. QED
  BY <1>0, <1>1, <1>2, <1>3, <1>4, RowSteps

LEMMA OthersRows ==
  ASSUME Others
  PROVE  bidRow' = bidRow \/ \E b \in Bids : bidRow' = [bidRow EXCEPT ![b].status = "Pending"]
  BY DEF Others, FindInvalid, Sweep, HandleBid, AddBid, OutlivePromptly, Outlive, ConclusionNext,
     Poll, Polled, LoopEnds, Expire, HandleLog, LoseLog, Retry, FallDue, Land, Logged, Refetch,
     RefetchFails, ConcludeAuction, quoteAuctionVars, conclusionVars, storeVars

\* A row is withdrawn by a call that is then withdrawing it, and such a call
\* ends by telling memory.
LEMMA WithdrawalEnds ==
  ASSUME QuoteInv, OfferInv, JobCalls, CalmNext, NEW b \in Bids,
         bidRow'[b].status \in Withdrawn, ~Withdrawing(b)'
  PROVE  /\ bidRow[b].status \in Withdrawn
         /\ \/ ~Withdrawing(b)
            \/ \E x \in calls :
                 /\ x.req.bid = b /\ x.req.to \in Withdrawn
                 /\ Update(x) /\ UpdateMemory(x)
<1> USE ClientsOfQuotes
<1>0. StoreTypeOK /\ Places /\ Exclusion!LockInv
  BY DEF QuoteInv, ServiceInv, StoreInv
<1>1. ASSUME NEW y \in calls', y.req.bid = b, y.step # "query", y.req.to \in Withdrawn
      PROVE  FALSE
  BY <1>1 DEF Withdrawing
<1>2. \A x \in calls : x.req.to \in Withdrawn => x.client \in Submitters
  BY DEF OfferInv, CallsShow, CallOfWinner, Winning, Withdrawn, Offers
<1>3. ASSUME NEW q \in Quoters, CalmQuoter(q)
      PROVE  bidRow' = bidRow /\ ~Withdrawing(b)
  <2>1. bidRow' = bidRow /\ \A x \in calls : x.client # q => x \in calls'
    BY <1>0, <1>3, CalmRefines, QuoterFrame
  <2>. QED
    BY <1>1, <1>2, <2>1 DEF Withdrawing
<1>4. ASSUME NEW s \in Submitters, CalmSubmission(s)
      PROVE  bidRow' = bidRow /\ ~Withdrawing(b)
  <2>1. bidRow' = bidRow /\ \A x \in calls : x.client # s => x \in calls'
    BY <1>0, <1>4, CalmRefines, SubmissionFrame
  <2>2. \A x \in calls : x \in calls'
    BY <1>4, <2>1, JobWaits
  <2>. QED
    BY <1>1, <2>1, <2>2 DEF Withdrawing
<1>5. ASSUME Others
      PROVE  bidRow'[b] = bidRow[b] /\ ~Withdrawing(b)
  <2>1. calls \subseteq calls'
    BY <1>0, <1>5, OthersFrame
  <2>2. bidRow' = bidRow \/ \E d \in Bids : bidRow' = [bidRow EXCEPT ![d].status = "Pending"]
    BY <1>5, OthersRows
  <2>3. bidRow'[b] = bidRow[b]
    BY <1>0, <2>2 DEF Withdrawn, StoreTypeOK
  <2>. QED
    BY <1>1, <2>1, <2>3 DEF Withdrawing
<1>6. ASSUME NEW x \in calls, Update(x)
      PROVE  bidRow'[b] = bidRow[b]
             /\ (~Withdrawing(b) \/ (x.req.bid = b /\ x.req.to \in Withdrawn /\ UpdateMemory(x)))
  <2>1. /\ \A y \in calls : y # x => y \in calls'
        /\ x \in [client : Clients, req : Requests, step : {"query", "pending", "memory"}]
    BY <1>0, <1>6, UpdateFrame DEF StoreTypeOK, Calls
  <2>2. CASE UpdateMemory(x)
    BY <1>1, <2>1, <2>2 DEF UpdateMemory, Withdrawing
  <2>3. CASE ForgetPending(x)
    <3> DEFINE z == [x EXCEPT !.step = "memory"]
    <3>1. z \in calls' /\ bidRow' = bidRow
      BY <2>3 DEF ForgetPending
    <3>2. z.req = x.req /\ z.step = "memory"
      BY <2>1
    <3> HIDE DEF z
    <3>. QED
      BY <1>1, <2>1, <3>1, <3>2 DEF Withdrawing
  <2>4. CASE UpdateRow(x)
    <3>1. x.step = "query"
      BY <2>4 DEF UpdateRow
    <3>2. ~Withdrawing(b)
      BY <1>1, <2>1, <3>1 DEF Withdrawing
    <3>3. bidRow'[b] = bidRow[b]
      <4>1. CASE bidRow' = bidRow
        BY <4>1
      <4>2. CASE CanUpdate(bidRow[x.req.bid].status, x.req.to) /\ x.req.bid # b
        BY <1>0, <2>4, <4>2, RowMoves DEF UpdateRow
      <4>3. CASE CanUpdate(bidRow[x.req.bid].status, x.req.to) /\ x.req.bid = b
        <5> DEFINE z == [x EXCEPT !.step = "pending"]
        <5>1. z \in calls' /\ bidRow' = [bidRow EXCEPT ![x.req.bid] = RowAfter(x.req)]
          BY <2>4, <4>3 DEF UpdateRow
        <5>2. z.req = x.req /\ z.step = "pending"
          BY <2>1
        <5> HIDE DEF z
        <5>3. bidRow'[b].status = x.req.to
          BY <1>0, <4>3, <5>1, RowMoves
        <5>. QED
          BY <1>1, <4>3, <5>1, <5>2, <5>3
      <4>. QED
        BY <2>4, <4>1, <4>2, <4>3 DEF UpdateRow
    <3>. QED
      BY <3>2, <3>3
  <2>. QED
    BY <1>6, <2>2, <2>3, <2>4 DEF Update, UpdateStep
<1>. QED
  BY <1>3, <1>4, <1>5, <1>6 DEF CalmNext

\* What memory shows anew was written back by the quote or the submission that
\* takes the step, or is that of the update.
LEMMA CalmMemory ==
  ASSUME StoreTypeOK, FreshAuctions, CalmNext, NEW a \in Auctions, NEW b \in auctions'[a].bids
  PROVE  \/ b \in auctions[a].bids /\ auctions'[a].status[b] = auctions[a].status[b]
         \/ \E c \in Clients :
              /\ \/ c \in Quoters /\ (AddMemory(c) \/ SignMemory(c))
                 \/ c \in Submitters /\ SubmitMemory(c)
              /\ held[c].id = a /\ held[c].step \in {"inserted", "submitted"}
              /\ b \in held[c].value.bids /\ auctions'[a].status[b] = held[c].value.status[b]
         \/ \E x \in calls :
              /\ UpdateMemory(x) /\ x.req.auction = a /\ x.req.bid = b
              /\ auctions'[a].status[b] = x.req.to
<1> USE ClientsOfQuotes
<1>1. ASSUME NEW c \in Clients, AddMemory(c) \/ SignMemory(c) \/ SubmitMemory(c)
      PROVE  \/ b \in auctions[a].bids /\ auctions'[a].status[b] = auctions[a].status[b]
             \/ /\ held[c].step \in {"inserted", "submitted"} /\ held[c].id = a
                /\ b \in held[c].value.bids /\ auctions'[a].status[b] = held[c].value.status[b]
  BY <1>1, MemoryWritten DEF AddMemory, SignMemory, SubmitMemory
<1>2. ASSUME NEW q \in Quoters, CalmQuoter(q)
      PROVE  AddMemory(q) \/ SignMemory(q) \/ UNCHANGED auctions
  BY <1>2 DEF CalmQuoter, Quoter, GetQuote, CollectBids, NoBids, AddRow, AddAuctionRow, RemoveOpportunity,
     OfferWinner, Recorded, SignBid, SignRow, SubmitAuctionRow, Return, RemoveStale, UserSends, storeVars
<1>3. ASSUME NEW s \in Submitters, CalmSubmission(s)
      PROVE  SubmitMemory(s) \/ UNCHANGED auctions
  BY <1>3 DEF CalmSubmission, SubmitQuote, CancelBid, Submitter, LockBid, CancelChecks, NothingToSubmit,
     PastDeadline, WasCancelled, Refuse, SubmitChecked, SubmitRow, SubmitAuctionRow, RecordSubmitted,
     SendTransaction, UnlockBid, RemoveLock, storeVars
<1>4. ASSUME NEW x \in calls, Update(x)
      PROVE  UpdateMemory(x) \/ UNCHANGED auctions
  BY <1>4 DEF Update, UpdateStep, UpdateRow, ForgetPending
<1>5. ASSUME Others
      PROVE  UNCHANGED auctions \/ \E e \in Auctions : auctions' = [auctions EXCEPT ![e] = Vacant]
  BY <1>5 DEF Others, FindInvalid, Sweep, HandleBid, AddBid, OutlivePromptly, Outlive, ConclusionNext,
     Poll, Polled, LoopEnds, Expire, HandleLog, LoseLog, Retry, FallDue, Land, Logged, Refetch,
     RefetchFails, ConcludeAuction, quoteAuctionVars, conclusionVars, storeVars
<1>6. ASSUME NEW e \in Auctions, auctions' = [auctions EXCEPT ![e] = Vacant]
      PROVE  b \in auctions[a].bids /\ auctions'[a].status[b] = auctions[a].status[b]
  BY <1>6 DEF Vacant, StoreTypeOK
<1>7. CASE \E q \in Quoters : CalmQuoter(q)
  BY <1>1, <1>2, <1>7
<1>8. CASE \E s \in Submitters : CalmSubmission(s)
  BY <1>1, <1>3, <1>8
<1>9. CASE \E x \in calls : Update(x)
  <2>1. PICK x \in calls : Update(x)
    BY <1>9
  <2>2. CASE UNCHANGED auctions
    BY <2>2
  <2>3. CASE UpdateMemory(x)
    <3>1. /\ b \in auctions[a].bids
          /\ \/ /\ x.req.auction = a /\ x.req.bid = b
                /\ auctions'[a].status[b] = x.req.to /\ <<b, x.req.to>> \in told'
             \/ /\ ~(x.req.auction = a /\ x.req.bid = b)
                /\ auctions'[a].status[b] = auctions[a].status[b]
      BY <2>3, MemoryUpdated
    <3>. QED
      BY <2>3, <3>1
  <2>. QED
    BY <1>4, <2>1, <2>2, <2>3
<1>. QED
  BY <1>5, <1>6, <1>7, <1>8, <1>9 DEF CalmNext

\* What is written back does not show a withdrawn bid as offered.
LEMMA CopiesCaughtUp ==
  ASSUME QuoteInv, OfferInv, OwnAuctions, MaySend, NEW c \in Clients,
         \/ c \in Quoters /\ (AddMemory(c) \/ SignMemory(c))
         \/ c \in Submitters /\ SubmitMemory(c),
         NEW b \in held[c].value.bids, held[c].value.status[b] \in Offers
  PROVE  bidRow[b].status \notin Withdrawn
<1>0. Shown(held[c].id, b) /\ held[c].step \notin {"made", "inserted"}
  BY DEF OfferInv, HeldShows, Winning
<1>1. CASE c \in Quoters /\ AddMemory(c)
  BY <1>0, <1>1 DEF AddMemory, AddAuctionMemory
<1>2. CASE c \in Quoters /\ SignMemory(c)
  <2>1. quote[c].at = "submit" /\ Applied(c)
    BY <1>2 DEF SignMemory, Applied
  <2>2. /\ quote[c].winner \in Bids /\ WonIn(quote[c].auction, quote[c].winner)
        /\ QuoteName(c)
        /\ ~quote[c].cancellable => bidRow[quote[c].winner].status \in Sent
    BY <1>2, <2>1 DEF OfferInv, AnswersStand, QuoteNames
  <2>3. quote[c].winner # NoBid
    BY <2>2, QuoteAuctionAssumption
  <2>4. held[c].id = quote[c].auction /\ quote[c].auction # NoAuction /\ ~quote[c].cancellable
    BY <2>1, <2>2, <2>3 DEF QuoteName, Working
  <2>5. b = quote[c].winner
    BY <1>0, <2>2, <2>4, OneWinner DEF Shown
  <2>. QED
    BY <2>2, <2>4, <2>5 DEF Sent, Withdrawn
<1>3. CASE c \in Submitters /\ SubmitMemory(c)
  <2>1. job[c].at = "submit" /\ JobShows(c) /\ MaySendJob(c)
    BY <1>3 DEF SubmitMemory, OfferInv, JobsShow, MaySend
  <2>2. /\ held[c].id = job[c].auction /\ job[c].auction # NoAuction
        /\ Shown(job[c].auction, lockKey[c])
    BY <2>1 DEF JobShows
  <2>3. b = lockKey[c]
    BY <1>0, <2>2, OneWinner DEF Shown
  <2>. QED
    BY <2>1, <2>3 DEF MaySendJob, Sent, Withdrawn
<1>. QED
  BY <1>1, <1>2, <1>3

\* An offer is not told once the bid is withdrawn.
LEMMA NoLateOffer ==
  ASSUME QuoteInv, OfferInv, WithdrawnTold, NEW x \in calls, x.step = "memory",
         x.req.to \in Offers
  PROVE  bidRow[x.req.bid].status \notin Withdrawn
<1>1. x.req.bid \in Bids
  BY DEF QuoteInv, ServiceInv, StoreInv, StoreTypeOK, Calls, Requests
<1>2. <<x.req.bid, x.req.to>> \notin told
  BY DEF QuoteInv, ServiceInv, StoreInv, AppliedCalls
<1>3. <<x.req.bid, x.req.to>> \in Recordings
  BY DEF Recordings
<1>4. SUFFICES ASSUME NEW to \in Offers, <<x.req.bid, to>> \in told
               PROVE  FALSE
  BY <1>1 DEF WithdrawnTold
<1>5. to # x.req.to /\ <<x.req.bid, to>> \in Recordings
  BY <1>2, <1>4 DEF Recordings
<1>. QED
  BY <1>1, <1>3, <1>4, <1>5 DEF OfferInv, OneOffer, Offers

LEMMA CaughtUpStays ==
  ASSUME QuoteInv, OfferInv, OwnAuctions, JobCalls, MaySend, WithdrawnTold, CaughtUp, CalmNext
  PROVE  CaughtUp'
<1>0. StoreTypeOK /\ FreshAuctions
  BY DEF QuoteInv, ServiceInv, StoreInv, ReadableInv
<1> SUFFICES ASSUME NEW b \in Bids, bidRow'[b].status \in Withdrawn, ~Withdrawing(b)',
                    NEW a \in Auctions, b \in auctions'[a].bids, auctions'[a].status[b] \in Offers
             PROVE  FALSE
  BY DEF CaughtUp
<1>1. bidRow[b].status \in Withdrawn
  BY WithdrawalEnds
<1>2. ASSUME b \in auctions[a].bids, auctions'[a].status[b] = auctions[a].status[b], ~Withdrawing(b)
      PROVE  FALSE
  BY <1>1, <1>2 DEF CaughtUp
<1>3. ASSUME b \in auctions[a].bids, auctions'[a].status[b] = auctions[a].status[b],
             NEW x \in calls, x.req.bid = b, x.req.to \in Withdrawn, UpdateMemory(x)
      PROVE  FALSE
  <2>1. WonIn(x.req.auction, b)
    BY <1>3 DEF OfferInv, CallsShow, CallOfWinner, Shown, Winning, Withdrawn, Offers
  <2>2. WonIn(a, b)
    BY <1>3 DEF OfferInv, MemoryShows, Shown, Winning
  <2>3. x.req.auction = a
    BY <1>1, <2>1, <2>2 DEF WonIn, Withdrawn
  <2>4. auctions'[a].status[b] = x.req.to
    BY <1>0, <1>3, <2>3, MemoryUpdated
  <2>. QED
    BY <1>3, <2>4 DEF Offers, Withdrawn
<1>4. ASSUME NEW c \in Clients,
             \/ c \in Quoters /\ (AddMemory(c) \/ SignMemory(c))
             \/ c \in Submitters /\ SubmitMemory(c),
             b \in held[c].value.bids, auctions'[a].status[b] = held[c].value.status[b]
      PROVE  FALSE
  BY <1>1, <1>4, CopiesCaughtUp
<1>5. ASSUME NEW x \in calls, UpdateMemory(x), x.req.bid = b, auctions'[a].status[b] = x.req.to
      PROVE  FALSE
  BY <1>1, <1>5, NoLateOffer DEF UpdateMemory
<1>6. \/ ~Withdrawing(b)
      \/ \E x \in calls : x.req.bid = b /\ x.req.to \in Withdrawn /\ UpdateMemory(x)
  BY WithdrawalEnds
<1>. QED
  BY <1>0, <1>2, <1>3, <1>4, <1>5, <1>6, CalmMemory

-----------------------------------------------------------------------------
\* What is sent, and what is recorded as submitted.

\* A transaction is sent once its bid is submitted, or by its user.
LEMMA ChainMoves ==
  ASSUME WorldTypeOK, CalmNext, NEW b \in Bids
  PROVE  /\ chain[b] # "unsent" => chain'[b] # "unsent"
         /\ chain'[b] # "unsent" =>
              \/ chain[b] # "unsent"
              \/ \E s \in Submitters, taken \in SUBSET Bids : SendTransaction(s, taken) /\ lockKey[s] = b
              \/ \E q \in Quoters : UserSends(q) /\ quote[q].winner = b
         /\ \A s \in Submitters, taken \in SUBSET Bids :
              SendTransaction(s, taken) /\ lockKey[s] = b => chain'[b] # "unsent"
<1>0. chain \in [Bids -> {"unsent", "retrying", "sent", "ok", "err"}]
  BY DEF WorldTypeOK
<1>1. ASSUME NEW bs, NEW taken, SendTransactions(bs, taken)
      PROVE  /\ chain[b] # "unsent" => chain'[b] # "unsent"
             /\ chain'[b] # "unsent" <=> chain[b] # "unsent" \/ b \in bs
  BY <1>0, <1>1 DEF SendTransactions
<1>2. ASSUME NEW s \in Submitters, NEW taken \in SUBSET Bids, SendTransaction(s, taken)
      PROVE  /\ chain[b] # "unsent" => chain'[b] # "unsent"
             /\ chain'[b] # "unsent" <=> chain[b] # "unsent" \/ b = lockKey[s]
  BY <1>1, <1>2 DEF SendTransaction
<1>3. ASSUME NEW q \in Quoters, UserSends(q)
      PROVE  /\ chain[b] # "unsent" => chain'[b] # "unsent"
             /\ chain'[b] # "unsent" <=> chain[b] # "unsent" \/ b = quote[q].winner
  BY <1>1, <1>3 DEF UserSends
<1>4. ASSUME NEW q \in Quoters, CalmQuoter(q)
      PROVE  UserSends(q) \/ UNCHANGED chain
  BY <1>4 DEF CalmQuoter, Quoter, GetQuote, CollectBids, NoBids, AddRow, AddMemory, RemoveOpportunity,
     OfferWinner, Recorded, SignBid, SignRow, SignMemory, Return, RemoveStale, worldVars
<1>5. ASSUME NEW s \in Submitters, CalmSubmission(s)
      PROVE  (\E taken \in SUBSET Bids : SendTransaction(s, taken)) \/ UNCHANGED chain
  BY <1>5 DEF CalmSubmission, SubmitQuote, CancelBid, Submitter, LockBid, CancelChecks, NothingToSubmit,
     PastDeadline, WasCancelled, SubmitChecked, SubmitRow, SubmitMemory, RecordSubmitted, UnlockBid,
     RemoveLock, worldVars
<1>6. ASSUME NEW x \in calls, Update(x)
      PROVE  UNCHANGED chain
  BY <1>6 DEF Update, worldVars
<1>7. ASSUME Others
      PROVE  (chain'[b] # "unsent") <=> (chain[b] # "unsent")
  <2>1. \/ UNCHANGED chain
        \/ \E d \in Bids : chain[d] # "unsent" /\ \E to \in {"sent", "ok", "err"} : chain' = [chain EXCEPT ![d] = to]
    BY <1>7 DEF Others, FindInvalid, Sweep, HandleBid, OutlivePromptly, Outlive, ConclusionNext,
       Poll, Polled, LoopEnds, Expire, HandleLog, LoseLog, Retry, FallDue, Land, Logged,
       quoteAuctionVars, conclusionVars, worldVars
  <2>. QED
    BY <1>0, <2>1
<1>8. CASE \E q \in Quoters : CalmQuoter(q)
  BY <1>2, <1>3, <1>4, <1>8
<1>9. CASE \E s \in Submitters : CalmSubmission(s)
  BY <1>2, <1>5, <1>9
<1>. QED
  BY <1>2, <1>6, <1>7, <1>8, <1>9 DEF CalmNext

LEMMA SentIsOfferedStays ==
  ASSUME WorldTypeOK, QuoteInv, OfferInv, MaySend, SentIsOffered, [QuoteNext]_quoteAuctionVars, CalmNext,
         NEW b \in Bids, chain'[b] # "unsent"
  PROVE  bidRow'[b].status \in Sent
<1>1. bidRow[b].status \in Sent
  <2>1. CASE chain[b] # "unsent"
    BY <2>1 DEF SentIsOffered, CalmNext, Sent
  <2>2. ASSUME NEW s \in Submitters, NEW taken \in SUBSET Bids, SendTransaction(s, taken), lockKey[s] = b
        PROVE  bidRow[b].status \in Sent
    BY <2>2 DEF SendTransaction, Joined, MaySend, MaySendJob
  <2>3. ASSUME NEW q \in Quoters, UserSends(q), quote[q].winner = b
        PROVE  bidRow[b].status \in Sent
    BY <2>3 DEF UserSends, OfferInv, AnswersStand, Applied
  <2>. QED
    BY <2>1, <2>2, <2>3, ChainMoves
<1>. QED
  BY <1>1, SentStays DEF OfferInv

\* A job that is about to send still is, or has sent.
LEMMA AboutToSend ==
  ASSUME WorldTypeOK, QuoteInv, CalmNext, NEW s \in Submitters, job[s].at = "send", lockKey[s] \in Bids
  PROVE  \/ job'[s].at = "send" /\ lockKey'[s] = lockKey[s]
         \/ chain'[lockKey[s]] # "unsent"
<1>0. StoreTypeOK /\ Places /\ Exclusion!LockInv /\ lockStep[s] = "critical"
  BY DEF QuoteInv, ServiceInv, StoreInv, Places, JobPlace
<1>1. ASSUME NEW q \in Quoters, CalmQuoter(q)
      PROVE  UNCHANGED <<job, lockKey>>
  BY <1>0, <1>1, CalmRefines, QuoterFrame
<1>2. ASSUME NEW u \in Submitters \ {s}, CalmSubmission(u)
      PROVE  job'[s] = job[s] /\ lockKey'[s] = lockKey[s]
  BY <1>0, <1>2, CalmRefines, SubmissionFrame
<1>3. ASSUME CalmSubmission(s)
      PROVE  chain'[lockKey[s]] # "unsent"
  <2>1. ~(\E a \in Auctions : SubmitQuote(s, a)) /\ ~(\E b \in Bids : CancelBid(s, b))
    BY <1>0 DEF SubmitQuote, CancelBid, Lock!GetOrCreate
  <2>2. ~LockBid(s) /\ ~RemoveLock(s)
    BY <1>0 DEF LockBid, RemoveLock, Lock!Acquire, Lock!Remove
  <2>3. \E taken \in SUBSET Bids : SendTransaction(s, taken)
    BY <1>3, <2>1, <2>2 DEF CalmSubmission, Submitter, CancelChecks, NothingToSubmit, PastDeadline,
       WasCancelled, SubmitChecked, SubmitRow, SubmitMemory, RecordSubmitted, UnlockBid
  <2>. QED
    BY <2>3, ChainMoves
<1>4. ASSUME NEW x \in calls, Update(x)
      PROVE  UNCHANGED <<job, lockKey>>
  BY <1>4 DEF Update, submitVars, lockVars
<1>5. ASSUME Others
      PROVE  UNCHANGED <<job, lockKey>>
  BY <1>0, <1>5, OthersFrame
<1>. QED
  BY <1>1, <1>2, <1>3, <1>4, <1>5 DEF CalmNext

\* A row becomes submitted by the update of a job that is about to send.
LEMMA SubmittedByJob ==
  ASSUME QuoteInv, OfferInv, JobCalls, CalmNext, NEW b \in Bids,
         bidRow[b].status # "Submitted", bidRow'[b].status = "Submitted"
  PROVE  \E s \in Submitters : lockKey'[s] = b /\ job'[s].at = "send"
<1>0. StoreTypeOK /\ Places /\ Exclusion!LockInv
  BY DEF QuoteInv, ServiceInv, StoreInv
<1>1. ~(\E q \in Quoters : CalmQuoter(q))
  BY <1>0, CalmRefines, QuoterFrame
<1>2. ~(\E s \in Submitters : CalmSubmission(s))
  BY <1>0, CalmRefines, SubmissionFrame
<1>3. ~Others
  BY <1>0, OthersRows DEF StoreTypeOK
<1>4. PICK x \in calls : Update(x)
  BY <1>1, <1>2, <1>3 DEF CalmNext
<1>5. UNCHANGED <<job, lockKey>>
  BY <1>4 DEF Update, submitVars, lockVars
<1>6. CanUpdate(bidRow[x.req.bid].status, x.req.to) /\ bidRow' = [bidRow EXCEPT ![x.req.bid] = RowAfter(x.req)]
  BY <1>4 DEF Update, UpdateStep, UpdateRow, ForgetPending, UpdateMemory
<1>7. x.req.bid = b /\ x.req.to = "Submitted"
  BY <1>0, <1>6, RowMoves
<1>8. x.client \in Submitters
  BY <1>7 DEF OfferInv, CallsShow, CallOfWinner, Winning, Offers
<1>. QED
  BY <1>5, <1>7, <1>8 DEF JobCalls, CallOfJob

LEMMA SubmittedIsSentStays ==
  ASSUME WorldTypeOK, QuoteInv, OfferInv, JobCalls, SubmittedIsSent, CalmNext,
         NEW b \in Bids, bidRow'[b].status = "Submitted"
  PROVE  \/ chain'[b] # "unsent"
         \/ \E s \in Submitters : lockKey'[s] = b /\ job'[s].at = "send"
<1>1. CASE bidRow[b].status # "Submitted"
  BY <1>1, SubmittedByJob
<1>2. CASE bidRow[b].status = "Submitted"
  <2>1. chain[b] # "unsent" \/ \E s \in Submitters : lockKey[s] = b /\ job[s].at = "send"
    BY <1>2 DEF SubmittedIsSent, CalmNext
  <2>. QED
    BY <2>1, ChainMoves, AboutToSend
<1>. QED
  BY <1>1, <1>2

-----------------------------------------------------------------------------
\* The invariant of submissions, and what follows from it.

LEMMA SubmitStart == QuoteInit => SubmitInv
<1> SUFFICES ASSUME QuoteInit PROVE SubmitParts
  BY DEF SubmitInv
<1> USE ClientsOfQuotes DEF QuoteInit, ConclusionInit, StoreInit
<1>1. OwnAuctions
  BY DEF OwnAuctions
<1>2. JobCalls /\ MaySend
  BY DEF JobCalls, MaySend, MaySendJob, Idle
<1>3. WithdrawnTold /\ CaughtUp
  BY DEF WithdrawnTold, CaughtUp, Withdrawn
<1>4. SentIsOffered /\ SubmittedIsSent
  BY DEF SentIsOffered, SubmittedIsSent
<1>. QED
  BY <1>1, <1>2, <1>3, <1>4 DEF SubmitParts

LEMMA SubmitStep ==
  WorldTypeOK /\ QuoteInv /\ OfferInv /\ SubmitInv /\ [QuoteNext]_quoteAuctionVars => SubmitInv'
<1> SUFFICES ASSUME WorldTypeOK, QuoteInv, OfferInv, SubmitInv, [QuoteNext]_quoteAuctionVars, faults' = 0
             PROVE  SubmitParts'
  BY DEF SubmitInv
<1>1. CalmNext /\ SubmitParts
  BY CalmKinds DEF SubmitInv, CalmNext
<1> USE <1>1 DEF SubmitParts
<1>2. OwnAuctions' /\ JobCalls'
  BY OwnAuctionsStay, JobCallsStay
<1>3. MaySend' /\ WithdrawnTold' /\ CaughtUp'
  BY MaySendStays, WithdrawnToldStays, CaughtUpStays
<1>4. SentIsOffered'
  BY SentIsOfferedStays DEF SentIsOffered, Sent
<1>5. SubmittedIsSent'
  BY SubmittedIsSentStays DEF SubmittedIsSent
<1>. QED
  BY <1>2, <1>3, <1>4, <1>5

\* As long as no call failed and no request was dropped: an auction is named by
\* one quote, a bid that is being submitted is not withdrawn, and memory does not
\* show as offered what was withdrawn, although quotes and submissions write back
\* copies they read long before.  This is what submissions rest on.
THEOREM QuoteSubmissions == QuoteSafeSpec => []SubmitInv
<1>2. QuoteTypeOK => WorldTypeOK
  BY DEF QuoteTypeOK, ConclusionTypeOK, WorldTypeOK
<1>. QED
  BY <1>2, SubmitStart, SubmitStep, QuoteOffers, QuoteInvariant, QuoteTypes, PTL DEF QuoteSafeSpec

\* As long as no call failed and no request was dropped, a transaction that was
\* sent is that of a bid its auction offered, and of none that was cancelled,
\* refused or lost: submit_quote and cancel_bid exclude each other, the update
\* comes before the sending, and the sweep, the polls and the copies that are
\* written back to memory do not mislead the checks in between.
THEOREM QuoteSentIsOffered == QuoteSafeSpec => []SentIsOffered
<1>1. SubmitInv => SentIsOffered
  BY DEF SubmitInv, SubmitParts, SentIsOffered
<1>. QED
  BY <1>1, QuoteSubmissions, PTL

\* As long as no call failed and no request was dropped, a bid that is recorded
\* as submitted was sent, or the submission that recorded it holds its lock and
\* sends it next: the submissions that find it Submitted rightly do nothing.
THEOREM QuoteSubmittedIsSent == QuoteSafeSpec => []SubmittedIsSent
<1>1. SubmitInv => SubmittedIsSent
  BY DEF SubmitInv, SubmitParts, SubmittedIsSent
<1>. QED
  BY <1>1, QuoteSubmissions, PTL
=============================================================================
