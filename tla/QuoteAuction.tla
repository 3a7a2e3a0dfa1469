----------------------------- MODULE QuoteAuction -----------------------------
(***************************************************************************)
(* The auctions of swap quotes, which the server does not submit itself    *)
(* (SubmitType::ByOther): get_quote auctions the bids of its opportunity   *)
(* and offers the winner to a user, who then submits or cancels it with    *)
(* requests of his own; the trigger sweeps up the bids that no opportunity *)
(* wants any more.  A submission and a cancellation of a bid exclude each  *)
(* other by the lock of the bid (LockMap); get_quote takes no lock.        *)
(* Requests are dropped half way when their caller disconnects.            *)
(***************************************************************************)
EXTENDS Conclusion

CONSTANTS
  PermissionKeys,
  KeyOf,        \* the permission key of each bid
  Quoters,      \* the requests that call get_quote
  KeyWanted,    \* the permission key of each quote
  Choices,      \* what requests say of `cancellable`: TRUE, FALSE or both
  Submitters,   \* the requests that call submit_quote or cancel_bid
  Background,   \* the tasks spawned to record losers and to sweep
  Locks,
  NoLock, NoSubmitter, NoBid

VARIABLES
  lockMap, lockRef, lockOwner, lockKey, lockStep,   \* see LockMap
  quote,    \* where each get_quote is, whether its quote is cancellable, its
            \* winner_bid and its auction
  live,     \* the quotes whose opportunity is in memory
  sweeping, \* the keys that a handle_auction found to be SubmitType::Invalid
  job       \* where each submit_quote or cancel_bid is, and its auction (cancel_bid: none)

ASSUME QuoteAuctionAssumption ==
  /\ KeyOf \in [Bids -> PermissionKeys]
  /\ KeyWanted \in [Quoters -> PermissionKeys]
  /\ Choices \subseteq BOOLEAN
  /\ Handlers = Quoters \cup Submitters \cup {Background}
  /\ Quoters \cap Submitters = {} /\ Background \notin Quoters \cup Submitters
  /\ NoLock \notin Locks /\ NoSubmitter \notin Submitters /\ NoBid \notin Bids

Lock == INSTANCE LockMap WITH
  Keys <- Bids, Users <- Submitters, Droppable <- Submitters,
  NoUser <- NoSubmitter, NoKey <- NoBid

lockVars == <<lockMap, lockRef, lockOwner, lockKey, lockStep>>
quoteVars == <<quote, live, sweeping>>
submitVars == <<job, lockVars>>
requestVars == <<quoteVars, submitVars>>
quoteAuctionVars == <<conclusionVars, requestVars>>

Idle == [at |-> "none", auction |-> NoAuction]

QuoteInit ==
  /\ ConclusionInit
  /\ Lock!LockInit
  /\ quote = [q \in Quoters |->
       [at |-> "none", cancellable |-> FALSE, winner |-> NoBid, auction |-> NoAuction]]
  /\ live = {}
  /\ sweeping = {}
  /\ job = [s \in Submitters |-> Idle]

-----------------------------------------------------------------------------
\* get_quote adds its opportunity and sleeps while searchers bid.
GetQuote(q, cancellable) ==
  /\ quote[q].at = "none"
  /\ quote' = [quote EXCEPT ![q].at = "asked", ![q].cancellable = cancellable]
  /\ live' = live \cup {q}
  /\ UNCHANGED <<storeVars, concludeVars, worldVars, sweeping, submitVars>>

\* handle_bid: verify_bid saw an opportunity of the key, which may be gone when
\* the bid is added.
HandleBid(b) ==
  /\ \E q \in Quoters : quote[q].at # "none" /\ KeyWanted[q] = KeyOf[b]
  /\ AddBid(b)
  /\ UNCHANGED <<concludeVars, worldVars, requestVars>>

PendingOf(k) == {b \in pending : KeyOf[b] = k}

QuoteGoesOn(q, step) == quote' = [quote EXCEPT ![q].at = step]

\* The sleep is over: the best bid wins, whichever it is.  The auction has the
\* winner's hash although nothing is submitted.
CollectBids(q, a, w) ==
  /\ quote[q].at = "asked"
  /\ w \in PendingOf(KeyWanted[q])
  /\ TryNew(q, a, PendingOf(KeyWanted[q]), TRUE)
  /\ quote' = [quote EXCEPT ![q].at = "add", ![q].winner = w, ![q].auction = a]
  /\ UNCHANGED <<bidRow, auctionRow, pending, auctions, calls, told, faults>>
  /\ UNCHANGED <<concludeVars, worldVars, live, sweeping, submitVars>>

\* The sleep is over and there is no bid: QuoteNotFound, once the opportunity is
\* removed.
NoBids(q) ==
  /\ quote[q].at = "asked"
  /\ PendingOf(KeyWanted[q]) = {}
  /\ QuoteGoesOn(q, "remove")
  /\ UNCHANGED <<storeVars, concludeVars, worldVars, live, sweeping, submitVars>>

AddRow(q) ==
  /\ quote[q].at = "add"
  /\ AddAuctionRow(q)
  /\ UNCHANGED <<concludeVars, worldVars, requestVars>>

AddMemory(q) ==
  /\ quote[q].at = "add"
  /\ AddAuctionMemory(q)
  /\ SpawnLoop(held[q].id)
  /\ QuoteGoesOn(q, "remove")
  /\ UNCHANGED <<logs, logging, worldVars, live, sweeping, submitVars>>

\* remove_quote_opportunity, whose error is only logged.
RemoveOpportunity(q) ==
  /\ quote[q].at = "remove"
  /\ QuoteGoesOn(q, IF quote[q].winner = NoBid THEN "ended" ELSE "offer")
  /\ \/ live' = live \ {q} /\ UNCHANGED faults
     \/ faults < MaxFaults /\ faults' = faults + 1 /\ UNCHANGED live
  /\ UNCHANGED <<bidRow, auctionRow, pending, auctions, held, calls, told>>
  /\ UNCHANGED <<concludeVars, worldVars, sweeping, submitVars>>

Offered(q) == IF quote[q].cancellable THEN "AwaitingSignature" ELSE "SentToUser"

\* The losers are recorded by tasks that nobody waits for, the winner by the
\* request itself.
OfferWinner(q) ==
  /\ quote[q].at = "offer"
  /\ calls' = calls
       \cup [client : {Background}, step : {"query"},
             req : [bid : held[q].value.bids \ {quote[q].winner}, to : {"Lost"},
                    auction : {held[q].id}]]
       \cup [client : {q}, step : {"query"},
             req : [bid : {quote[q].winner}, to : {Offered(q)}, auction : {held[q].id}]]
  /\ QuoteGoesOn(q, "record")
  /\ UNCHANGED <<bidRow, auctionRow, pending, auctions, held, told, faults>>
  /\ UNCHANGED <<concludeVars, worldVars, live, sweeping, submitVars>>

\* The winner is recorded.  A cancellable quote is the answer; one that is not
\* is signed, and its auction submitted, before it is.  A user without the
\* amount gets no transaction either way.
Recorded(q) ==
  /\ quote[q].at = "record" /\ Joined(q)
  /\ \E step \in {"empty", IF quote[q].cancellable THEN "reply" ELSE "sign"} :
       QuoteGoesOn(q, step)
  /\ UNCHANGED <<storeVars, concludeVars, worldVars, live, sweeping, submitVars>>

\* sign_bid_and_submit_auction works on the latest version of the auction.
SignBid(q) ==
  /\ quote[q].at = "sign"
  /\ IF InMemory(held[q].id)
       THEN ReadAuction(q, held[q].id) /\ QuoteGoesOn(q, "submit")
       ELSE QuoteGoesOn(q, "empty") /\ UNCHANGED held
  /\ UNCHANGED <<bidRow, auctionRow, pending, auctions, calls, told, faults>>
  /\ UNCHANGED <<concludeVars, worldVars, live, sweeping, submitVars>>

SignRow(q) ==
  /\ quote[q].at = "submit"
  /\ SubmitAuctionRow(q)
  /\ IF held'[q].step = "ready" THEN QuoteGoesOn(q, "reply") ELSE UNCHANGED quote
  /\ UNCHANGED <<concludeVars, worldVars, live, sweeping, submitVars>>

SignMemory(q) ==
  /\ quote[q].at = "submit"
  /\ SubmitAuctionMemory(q)
  /\ QuoteGoesOn(q, "reply")
  /\ UNCHANGED <<concludeVars, worldVars, live, sweeping, submitVars>>

\* The request returns, with the transaction or without one.
Return(q) ==
  /\ \/ quote[q].at = "reply" /\ QuoteGoesOn(q, "answered")
     \/ quote[q].at = "empty" /\ QuoteGoesOn(q, "ended")
  /\ DropAuction(q)
  /\ UNCHANGED <<bidRow, auctionRow, pending, auctions, calls, told, faults>>
  /\ UNCHANGED <<concludeVars, worldVars, live, sweeping, submitVars>>

\* The request fails between two of its steps: a call returns an error, or the
\* caller disconnects and its future is dropped.
QuoteFails(q) ==
  /\ faults < MaxFaults
  /\ quote[q].at \in {"asked", "add", "remove", "offer", "record", "sign", "submit",
                     "reply"}
  /\ faults' = faults + 1
  /\ calls' = {x \in calls : x.client # q}
  /\ DropAuction(q)
  /\ QuoteGoesOn(q, "ended")
  /\ UNCHANGED <<bidRow, auctionRow, pending, auctions, told>>
  /\ UNCHANGED <<concludeVars, worldVars, live, sweeping, submitVars>>

\* The verification loop removes an opportunity when it is stale, which takes
\* longer than its request does.
RemoveStale(q) ==
  /\ q \in live /\ quote[q].at \in {"ended", "answered"}
  /\ live' = live \ {q}
  /\ UNCHANGED <<storeVars, concludeVars, worldVars, quote, sweeping, submitVars>>

-----------------------------------------------------------------------------
\* handle_auction for a key with pending bids: get_submission_state finds no
\* opportunity.
FindInvalid(k) ==
  /\ PendingOf(k) # {}
  /\ \A q \in live : KeyWanted[q] # k
  /\ k \notin sweeping
  /\ sweeping' = sweeping \cup {k}
  /\ UNCHANGED <<storeVars, concludeVars, worldVars, quote, live, submitVars>>

\* Then it fetches the bids that are pending by now and marks them as lost.
Sweep(k) ==
  /\ k \in sweeping
  /\ Issue(Background, [bid : PendingOf(k), to : {"Lost"}, auction : {NoAuction}])
  /\ sweeping' = sweeping \ {k}
  /\ UNCHANGED <<bidRow, auctionRow, pending, auctions, held, told, faults>>
  /\ UNCHANGED <<concludeVars, worldVars, quote, live, submitVars>>

-----------------------------------------------------------------------------
\* The statuses of the bid that get_winner_bid_for_submission looks for.
Submittable == {"AwaitingSignature", "SentToUser", "Submitted", "Cancelled"}

WinnersOf(a) == {b \in auctions[a].bids : auctions[a].status[b] \in Submittable}

\* submit_quote finds the winner of auction a, signs it and asks for its lock.
SubmitQuote(s, a) ==
  /\ \E b \in WinnersOf(a) : Lock!GetOrCreate(s, b)
  /\ job' = [job EXCEPT ![s] = [at |-> "none", auction |-> a]]
  /\ UNCHANGED <<storeVars, concludeVars, worldVars, quoteVars>>

\* cancel_bid asks for the lock of any bid.
CancelBid(s, b) ==
  /\ bidRow[b].status # "Absent"
  /\ Lock!GetOrCreate(s, b)
  /\ UNCHANGED <<storeVars, concludeVars, worldVars, quoteVars, job>>

LockBid(s) ==
  /\ Lock!Acquire(s)
  /\ job' = [job EXCEPT ![s].at = "check"]
  /\ UNCHANGED <<storeVars, concludeVars, worldVars, quoteVars>>

Cancels(s) == job[s].auction = NoAuction

\* cancel_bid_for_lock: the bid is looked for in the auctions in memory, and the
\* first copy of it that is found must be awaiting a signature.  The profile may
\* have lost the privilege to cancel.
CancelChecks(s) ==
  LET b == lockKey[s]
      cancellable == {a \in Auctions : /\ b \in auctions[a].bids
                                       /\ auctions[a].status[b] = "AwaitingSignature"}
  IN
  /\ job[s].at = "check" /\ Cancels(s)
  /\ \E as \in {{}} \cup {{a} : a \in cancellable} :
       Issue(s, [bid : {b}, to : {"Cancelled"}, auction : as])
  /\ job' = [job EXCEPT ![s].at = "done"]
  /\ UNCHANGED <<bidRow, auctionRow, pending, auctions, held, told, faults>>
  /\ UNCHANGED <<concludeVars, worldVars, quoteVars, lockVars>>

\* is_within_deadline_buffer
WithinDeadline(b) == age[b] = "new"

\* The request is refused, once the updates R are made.
Refuse(s, R) ==
  /\ Issue(s, R)
  /\ job' = [job EXCEPT ![s].at = "done"]
  /\ UNCHANGED <<bidRow, auctionRow, pending, auctions, held, told, faults>>

\* submit_auction_bid_for_lock, its checks, on the latest version of the auction:
\* it may be over, or its winner already submitted.
NothingToSubmit(s) ==
  LET a == job[s].auction IN
  /\ job[s].at = "check" /\ ~Cancels(s)
  /\ \/ WinnersOf(a) = {}
     \/ \E b \in WinnersOf(a) : auctions[a].status[b] = "Submitted"
  /\ Refuse(s, {})
  /\ UNCHANGED <<concludeVars, worldVars, quoteVars, lockVars>>

\* Too late: a bid that only the server can submit has failed.
PastDeadline(s) ==
  LET a == job[s].auction IN
  /\ job[s].at = "check" /\ ~Cancels(s)
  /\ \E b \in WinnersOf(a) :
       /\ auctions[a].status[b] # "Submitted"
       /\ ~WithinDeadline(b)
       /\ IF auctions[a].status[b] = "SentToUser"
            THEN Refuse(s, {})
            ELSE Refuse(s, {[bid |-> b, to |-> "SubmissionFailedDeadline", auction |-> a]})
  /\ UNCHANGED <<concludeVars, worldVars, quoteVars, lockVars>>

\* The submission of a cancelled quote.
WasCancelled(s) ==
  LET a == job[s].auction IN
  /\ job[s].at = "check" /\ ~Cancels(s)
  /\ \E b \in WinnersOf(a) :
       /\ auctions[a].status[b] = "Cancelled"
       /\ WithinDeadline(b)
       /\ Refuse(s, {[bid |-> b, to |-> "SubmissionFailedCancelled", auction |-> a]})
  /\ UNCHANGED <<concludeVars, worldVars, quoteVars, lockVars>>

\* Fault for SubmitChecked: the status of the latest version is not looked at.
SubmitUnchecked(s) ==
  LET a == job[s].auction IN
  /\ job[s].at = "check" /\ ~Cancels(s)
  /\ \E b \in WinnersOf(a) : WithinDeadline(b)
  /\ ReadAuction(s, a)
  /\ job' = [job EXCEPT ![s].at = "submit"]
  /\ UNCHANGED <<bidRow, auctionRow, pending, auctions, calls, told, faults>>
  /\ UNCHANGED <<concludeVars, worldVars, quoteVars, lockVars>>

\* The quote can be submitted.
SubmitChecked(s) ==
  LET a == job[s].auction IN
  /\ job[s].at = "check" /\ ~Cancels(s)
  /\ \E b \in WinnersOf(a) :
       auctions[a].status[b] \in {"AwaitingSignature", "SentToUser"} /\ WithinDeadline(b)
  /\ ReadAuction(s, a)
  /\ job' = [job EXCEPT ![s].at = "submit"]
  /\ UNCHANGED <<bidRow, auctionRow, pending, auctions, calls, told, faults>>
  /\ UNCHANGED <<concludeVars, worldVars, quoteVars, lockVars>>

SubmitRow(s) ==
  /\ job[s].at = "submit"
  /\ SubmitAuctionRow(s)
  /\ job' = [job EXCEPT ![s].at = IF held'[s].step = "ready" THEN "update" ELSE "submit"]
  /\ UNCHANGED <<concludeVars, worldVars, quoteVars, lockVars>>

SubmitMemory(s) ==
  /\ job[s].at = "submit"
  /\ SubmitAuctionMemory(s)
  /\ job' = [job EXCEPT ![s].at = "update"]
  /\ UNCHANGED <<concludeVars, worldVars, quoteVars, lockVars>>

\* Fault for RecordSubmitted: what the user can send himself is not sent.
RecordUserSubmitted(s) ==
  /\ job[s].at = "update"
  /\ Issue(s, {[bid |-> lockKey[s], to |-> "Submitted", auction |-> held[s].id]})
  /\ job' = [job EXCEPT ![s].at =
       IF held[s].value.status[lockKey[s]] = "SentToUser" THEN "done" ELSE "send"]
  /\ UNCHANGED <<bidRow, auctionRow, pending, auctions, held, told, faults>>
  /\ UNCHANGED <<concludeVars, worldVars, quoteVars, lockVars>>

RecordSubmitted(s) ==
  /\ job[s].at = "update"
  /\ Issue(s, {[bid |-> lockKey[s], to |-> "Submitted", auction |-> held[s].id]})
  /\ job' = [job EXCEPT ![s].at = "send"]
  /\ UNCHANGED <<bidRow, auctionRow, pending, auctions, held, told, faults>>
  /\ UNCHANGED <<concludeVars, worldVars, quoteVars, lockVars>>

\* The update is over, whether it changed the row or not.
SendTransaction(s, taken) ==
  /\ job[s].at = "send" /\ Joined(s)
  /\ taken \subseteq {lockKey[s]}
  /\ SendTransactions({lockKey[s]}, taken)
  /\ job' = [job EXCEPT ![s].at = "done"]
  /\ UNCHANGED <<storeVars, concludeVars, age, overdue, quoteVars, lockVars>>

UnlockBid(s) ==
  /\ job[s].at = "done" /\ Joined(s)
  /\ Lock!Leave(s)
  /\ DropAuction(s)
  /\ job' = [job EXCEPT ![s] = Idle]
  /\ UNCHANGED <<bidRow, auctionRow, pending, auctions, calls, told, faults>>
  /\ UNCHANGED <<concludeVars, worldVars, quoteVars>>

RemoveLock(s) ==
  /\ Lock!Remove(s)
  /\ UNCHANGED <<storeVars, concludeVars, worldVars, quoteVars, job>>

\* The query of submit_auction fails, or its answer is lost.
SubmitFails(s) ==
  /\ faults < MaxFaults
  /\ job[s].at = "submit"
  /\ faults' = faults + 1
  /\ job' = [job EXCEPT ![s].at = "done"]
  /\ UNCHANGED <<bidRow, auctionRow, pending, auctions, held, calls, told>>
  /\ UNCHANGED <<concludeVars, worldVars, quoteVars, lockVars>>

\* The caller disconnects: its future is dropped, and the lock stays in the map.
Disconnect(s) ==
  /\ faults < MaxFaults
  /\ Lock!Abandon(s)
  /\ faults' = faults + 1
  /\ calls' = {x \in calls : x.client # s}
  /\ DropAuction(s)
  /\ job' = [job EXCEPT ![s] = Idle]
  /\ UNCHANGED <<bidRow, auctionRow, pending, auctions, told>>
  /\ UNCHANGED <<concludeVars, worldVars, quoteVars>>

-----------------------------------------------------------------------------
\* The user of a quote that is not cancellable has the transaction with the
\* relayer's signature and can send it himself.
UserSends(q) ==
  /\ quote[q].at = "answered" /\ ~quote[q].cancellable
  /\ SendTransactions({quote[q].winner}, {quote[q].winner})
  /\ UNCHANGED <<storeVars, concludeVars, age, overdue, requestVars>>

\* Fault for Refused: the boolean is not looked at.
RefusalIgnored(x) == FALSE

\* The query of x changes no row.
Refused(x) == x.step = "query" /\ ~CanUpdate(bidRow[x.req.bid].status, x.req.to)

\* Only get_quote looks at the boolean update_bid_status returns: it answers
\* DuplicateOpportunity.
Update(x) ==
  /\ UpdateStep(x)
  /\ quote' = [q \in Quoters |->
       IF x.client = q /\ Refused(x) THEN [quote[q] EXCEPT !.at = "empty"] ELSE quote[q]]
  /\ UNCHANGED <<concludeVars, worldVars, live, sweeping, submitVars>>

\* An update that fails ends the request that awaits it.
Fault(x) ==
  /\ UpdateFault(x)
  /\ quote' = [q \in Quoters |->
       IF x.client = q THEN [quote[q] EXCEPT !.at = "empty"] ELSE quote[q]]
  /\ job' = [s \in Submitters |->
       IF x.client = s THEN [job[s] EXCEPT !.at = "done"] ELSE job[s]]
  /\ UNCHANGED <<concludeVars, worldVars, live, sweeping, lockVars>>

-----------------------------------------------------------------------------
Quoter(q) ==
  \/ \E c \in Choices : GetQuote(q, c)
  \/ \E a \in Auctions, w \in Bids : CollectBids(q, a, w)
  \/ NoBids(q)
  \/ AddRow(q)
  \/ AddMemory(q)
  \/ RemoveOpportunity(q)
  \/ OfferWinner(q)
  \/ Recorded(q)
  \/ SignBid(q)
  \/ SignRow(q)
  \/ SignMemory(q)
  \/ Return(q)

Submitter(s) ==
  \/ LockBid(s)
  \/ CancelChecks(s)
  \/ NothingToSubmit(s)
  \/ PastDeadline(s)
  \/ WasCancelled(s)
  \/ SubmitChecked(s)
  \/ SubmitRow(s)
  \/ SubmitMemory(s)
  \/ RecordSubmitted(s)
  \/ \E taken \in SUBSET Bids : SendTransaction(s, taken)
  \/ UnlockBid(s)
  \/ RemoveLock(s)

\* get_quote and the tasks it spawns do not take two minutes.  A submission may
\* still be running when its bid gets that old.
OutlivePromptly(b) ==
  /\ \A q \in Quoters : b \notin held[q].value.bids
  /\ \A x \in calls : x.req.bid = b => x.client \notin Quoters \cup {Background}
  /\ Outlive(b)
  /\ UNCHANGED requestVars

QuoteNext ==
  \/ \E q \in Quoters : Quoter(q) \/ QuoteFails(q) \/ RemoveStale(q) \/ UserSends(q)
  \/ \E k \in PermissionKeys : FindInvalid(k) \/ Sweep(k)
  \/ \E b \in Bids : HandleBid(b) \/ OutlivePromptly(b)
  \/ \E s \in Submitters :
       \/ \E a \in Auctions : SubmitQuote(s, a)
       \/ \E b \in Bids : CancelBid(s, b)
       \/ Submitter(s) \/ SubmitFails(s) \/ Disconnect(s)
  \/ \E x \in calls : Update(x) \/ Fault(x)
  \/ ConclusionNext /\ UNCHANGED requestVars

QuoteSafeSpec == QuoteInit /\ [][QuoteNext]_quoteAuctionVars

\* The runtime runs every request and task and time passes; the lock is fair.
\* No user needs to submit anything.
QuoteFairness ==
  /\ ConclusionFairness
  /\ \A q \in Quoters :
       /\ WF_quoteAuctionVars(quote[q].at # "none" /\ Quoter(q))
       /\ WF_quoteAuctionVars(RemoveStale(q))
  /\ \A k \in PermissionKeys :
       WF_quoteAuctionVars(FindInvalid(k)) /\ WF_quoteAuctionVars(Sweep(k))
  /\ \A s \in Submitters :
       WF_quoteAuctionVars(Submitter(s)) /\ SF_quoteAuctionVars(LockBid(s))
  /\ \A b \in Bids : WF_quoteAuctionVars(OutlivePromptly(b))
  /\ \A c \in Clients : WF_quoteAuctionVars(\E x \in calls : x.client = c /\ Update(x))

QuoteSpec == QuoteSafeSpec /\ QuoteFairness

-----------------------------------------------------------------------------
QuoteTypeOK ==
  /\ ConclusionTypeOK
  /\ Lock!LockTypeOK
  /\ quote \in [Quoters ->
       [at : {"none", "asked", "add", "remove", "offer", "record", "sign", "submit",
              "reply", "empty", "answered", "ended"},
        cancellable : BOOLEAN, winner : Bids \cup {NoBid}, auction : Auctions \cup {NoAuction}]]
  /\ live \subseteq Quoters
  /\ sweeping \subseteq PermissionKeys
  /\ job \in [Submitters -> [at : {"none", "check", "submit", "update", "send", "done"},
                             auction : Auctions \cup {NoAuction}]]

\* As long as no call failed and no request was dropped, a transaction that was
\* sent is that of a bid its auction offered: never of one that was cancelled,
\* refused or lost, whatever the cancellations, submissions, polls and sweeps
\* that run at the time.
SentIsOffered ==
  faults = 0 =>
    \A b \in Bids : chain[b] # "unsent" =>
      bidRow[b].status \in {"SentToUser", "Submitted", "Won", "Failed", "Expired"}

\* As long as no call failed and no request was dropped, a bid that is recorded
\* as submitted was sent, or a request is about to send it: several submissions
\* of a quote do not rely on each other in vain.
SubmittedIsSent ==
  faults = 0 =>
    \A b \in Bids : bidRow[b].status = "Submitted" =>
      \/ chain[b] # "unsent"
      \/ \E s \in Submitters : lockKey[s] = b /\ job[s].at = "send"

\* The quote a user got stands: its bid was offered in its auction and no other
\* quote offers the same bid, although requests for the same key auction the
\* same bids at the same time.  (An expiry can name another of its auctions.)
OfferStands ==
  \A q \in Quoters : quote[q].at = "answered" =>
    LET row == bidRow[quote[q].winner] IN
    /\ row.status \notin {"Pending", "Lost"}
    /\ row.status # "Expired" => row.auction = quote[q].auction
    /\ \A r \in Quoters \ {q} :
         quote[r].at = "answered" => quote[r].winner # quote[q].winner

\* As long as no call failed and no request was dropped, every bid reaches a
\* final status, whether its quote is answered, submitted, cancelled or none of
\* these.
BidSettles ==
  \A b \in Bids :
    (bidRow[b].status # "Absent" /\ faults = 0)
      ~> (IsConcluded(bidRow[b].status) \/ faults > 0)

-----------------------------------------------------------------------------
\* submit_auction_bid_for_lock: sending after the update makes sure that no
\* transaction is sent of a bid that is cancelled.  It is what a comment says.
CancelledNotSent ==
  \A b \in Bids :
    bidRow[b].status \in {"Cancelled", "SubmissionFailedCancelled"} => chain[b] = "unsent"
=============================================================================
