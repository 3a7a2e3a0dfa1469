------------------------------ MODULE Conclusion ------------------------------
(***************************************************************************)
(* How auctions end, whoever submits them: the loop that every auction has *)
(* and that polls the chain for its transactions, the tasks that handle    *)
(* the log of a transaction, and what they observe, the chain and the      *)
(* time.  They run on the repository (BidStore) concurrently with each     *)
(* other and with the handlers of the modules that extend this one.  The   *)
(* chain executes a transaction at most once and only while its block hash *)
(* is recent.                                                              *)
(***************************************************************************)
EXTENDS BidStore

CONSTANTS
  Handlers  \* the other clients of the repository

VARIABLES
  loop,     \* conclude_auction_loop of each auction: off, wait or update
  logs,     \* the transactions whose log is on its way in the log channel
  logging,  \* the auctions the task of a log is still updating
  chain,    \* each transaction: unsent, retrying, sent, ok or err
  age,      \* each bid: new, due (what its handler waits for) or aged (2 minutes)
  overdue   \* the auctions for which is_auction_expired (4 minutes)

\* The conclusion loop of an auction and the task of a log, as clients.
Loop(a) == <<"loop", a>>
LogTask(b) == <<"log", b>>

ASSUME ConclusionAssumption ==
  /\ Clients = Handlers \cup {Loop(a) : a \in Auctions} \cup {LogTask(b) : b \in Bids}
  /\ \A a \in Auctions : Loop(a) \notin Handlers
  /\ \A b \in Bids : LogTask(b) \notin Handlers

concludeVars == <<loop, logs, logging>>
worldVars == <<chain, age, overdue>>
conclusionVars == <<storeVars, concludeVars, worldVars>>

-----------------------------------------------------------------------------
ConclusionInit ==
  /\ StoreInit
  /\ loop = [a \in Auctions |-> "off"]
  /\ logs = {}
  /\ logging = [b \in Bids |-> {}]
  /\ chain = [b \in Bids |-> "unsent"]
  /\ age = [b \in Bids |-> "new"]
  /\ overdue = {}

\* add_auction ends by spawning the conclusion loop.
SpawnLoop(a) == loop' = [loop EXCEPT ![a] = "wait"]

\* send_transaction for every bid of bs: those of `taken` reach a broadcaster,
\* the others are retried later; the result is the same.
SendTransactions(bs, taken) ==
  chain' = [b \in Bids |->
    IF b \notin bs \/ chain[b] # "unsent" THEN chain[b]
    ELSE IF b \in taken THEN "sent" ELSE "retrying"]

Landed(b) == chain[b] \in {"ok", "err"}

\* The bids of auction a that are not concluded in memory.
OpenBids(a) == {b \in auctions[a].bids : ~IsConcluded(auctions[a].status[b])}

\* The chain is asked only when a bid is known to be sent.
AsksChain(a) ==
  \E b \in OpenBids(a) : auctions[a].status[b] \in {"Submitted", "SentToUser"}

Outcome(b) == IF chain[b] = "ok" THEN "Won" ELSE "Failed"

\* Faults for BidResults: an old bid is expired without a look at the chain; a
\* bid never expires.
BidResultsAgeFirst(a) ==
  {[bid |-> b, to |-> "Expired", auction |-> a] : b \in {c \in OpenBids(a) : age[c] = "aged"}}
BidResultsForever(a) ==
  {[bid |-> b, to |-> Outcome(b), auction |-> a] :
     b \in {c \in OpenBids(a) : AsksChain(a) /\ Landed(c)}}

\* get_bid_results: what to record about the bids of auction a, if anything.
BidResults(a) ==
  LET known == {b \in OpenBids(a) : AsksChain(a) /\ Landed(b)}
      old   == {b \in OpenBids(a) \ known : age[b] = "aged"}
  IN {[bid |-> b, to |-> Outcome(b), auction |-> a] : b \in known}
     \cup {[bid |-> b, to |-> "Expired", auction |-> a] : b \in old}

\* conclude_auction: an auction with a transaction hash is polled for, one
\* without is lost when it is overdue.  An RPC failure leaves all as it is.
Poll(a) ==
  /\ loop[a] = "wait"
  /\ InMemory(a)
  /\ \/ /\ auctions[a].hashed
        /\ Issue(Loop(a), BidResults(a))
     \/ /\ ~auctions[a].hashed /\ a \in overdue
        /\ Issue(Loop(a), [bid : auctions[a].bids, to : {"Lost"}, auction : {NoAuction}])
  /\ loop' = [loop EXCEPT ![a] = "update"]
  /\ UNCHANGED <<bidRow, auctionRow, pending, auctions, held, told, faults>>
  /\ UNCHANGED <<logs, logging, worldVars>>

\* Fault for Over: no workaround for stuck auctions.
OverStrict(a) == InMemory(a) /\ OpenBids(a) = {}

\* conclude_auction_with_statuses, after its updates: an auction is over when
\* all its bids are concluded in memory or, as a workaround, when it is overdue.
Over(a) == InMemory(a) /\ (OpenBids(a) = {} \/ a \in overdue)

Refetch(a) == IF Over(a) THEN ConcludeAuction(a) ELSE UNCHANGED storeVars

\* repo.conclude_auction fails: the auction stays.
RefetchFails(a) ==
  /\ faults < MaxFaults
  /\ Over(a)
  /\ faults' = faults + 1
  /\ UNCHANGED <<bidRow, auctionRow, pending, auctions, held, calls, told>>

\* The loop's updates are over.
Polled(a) ==
  /\ loop[a] = "update" /\ Joined(Loop(a))
  /\ Refetch(a) \/ RefetchFails(a)
  /\ loop' = [loop EXCEPT ![a] = "wait"]
  /\ UNCHANGED <<logs, logging, worldVars>>

LoopEnds(a) ==
  /\ loop[a] = "wait" /\ ~InMemory(a)
  /\ loop' = [loop EXCEPT ![a] = "off"]
  /\ UNCHANGED <<storeVars, logs, logging, worldVars>>

-----------------------------------------------------------------------------
\* The conclusion loop of the chain receives the log of a transaction and
\* updates the bid in every auction in memory that has it.
HandleLog(b) ==
  LET as == {a \in Auctions : b \in auctions[a].bids} IN
  /\ b \in logs
  /\ logs' = logs \ {b}
  /\ logging' = [logging EXCEPT ![b] = as]
  /\ Issue(LogTask(b), [bid : {b}, to : {Outcome(b)}, auction : as])
  /\ UNCHANGED <<bidRow, auctionRow, pending, auctions, held, told, faults>>
  /\ UNCHANGED <<loop, worldVars>>

\* The update for auction a is over.
Logged(b, a) ==
  /\ a \in logging[b]
  /\ \A x \in calls : x.client = LogTask(b) => x.req.auction # a
  /\ Refetch(a) \/ RefetchFails(a)
  /\ logging' = [logging EXCEPT ![b] = @ \ {a}]
  /\ UNCHANGED <<loop, logs, worldVars>>

\* The channel drops the log (its receiver lags or the connection is lost).
LoseLog(b) ==
  /\ b \in logs
  /\ logs' = logs \ {b}
  /\ UNCHANGED <<storeVars, loop, logging, worldVars>>

-----------------------------------------------------------------------------
\* blocking_send_transaction: a later broadcast is taken.
Retry(b) ==
  /\ chain[b] = "retrying" /\ age[b] # "aged"
  /\ chain' = [chain EXCEPT ![b] = "sent"]
  /\ UNCHANGED <<storeVars, concludeVars, age, overdue>>

\* A transaction lands, is confirmed and logged; not after two minutes, when
\* its block hash is too old.
Land(b, result) ==
  /\ chain[b] = "sent" /\ age[b] # "aged"
  /\ chain' = [chain EXCEPT ![b] = result]
  /\ logs' = logs \cup {b}
  /\ UNCHANGED <<storeVars, loop, logging, age, overdue>>

\* A bid waited long enough: it is older than AUCTION_MINIMUM_LIFETIME or, when
\* it is a swap, closer than MIN_DEADLINE_BUFFER_SECS to its deadline.
FallDue(b) ==
  /\ bidRow[b].status # "Absent" /\ age[b] = "new"
  /\ age' = [age EXCEPT ![b] = "due"]
  /\ UNCHANGED <<storeVars, concludeVars, chain, overdue>>

\* BID_MAXIMUM_LIFE_TIME_SVM passes; when it may is said in the modules that
\* extend this one.
Outlive(b) ==
  /\ age[b] = "due"
  /\ age' = [age EXCEPT ![b] = "aged"]
  /\ UNCHANGED <<storeVars, concludeVars, chain, overdue>>

\* Four minutes after its creation the handler of an auction has returned, its
\* bids, older than it, have been aged for two, no poll from before is still
\* running, and the logs of its bids have been handled or were lost.
Expire(a) ==
  /\ a \notin overdue /\ InMemory(a) /\ loop[a] # "update"
  /\ \A c \in Handlers : held[c].id # a
  /\ \A b \in auctions[a].bids : age[b] = "aged" /\ b \notin logs /\ logging[b] = {}
  /\ overdue' = overdue \cup {a}
  /\ UNCHANGED <<storeVars, concludeVars, chain, age>>

-----------------------------------------------------------------------------
ConclusionNext ==
  \/ \E a \in Auctions : Poll(a) \/ Polled(a) \/ LoopEnds(a) \/ Expire(a)
  \/ \E b \in Bids :
       \/ HandleLog(b) \/ LoseLog(b) \/ Retry(b) \/ FallDue(b)
       \/ \E r \in {"ok", "err"} : Land(b, r)
       \/ \E a \in Auctions : Logged(b, a)

\* The runtime runs every task and time passes.  Nothing makes a transaction
\* land or its log arrive.
ConclusionFairness ==
  /\ \A a \in Auctions :
       /\ WF_conclusionVars(Poll(a))
       /\ WF_conclusionVars(Polled(a))
       /\ SF_conclusionVars(Expire(a))
  /\ \A b \in Bids :
       /\ WF_conclusionVars(FallDue(b))
       /\ WF_conclusionVars(HandleLog(b))
       /\ \A a \in Auctions : WF_conclusionVars(Logged(b, a))

ConclusionTypeOK ==
  /\ StoreTypeOK
  /\ loop \in [Auctions -> {"off", "wait", "update"}]
  /\ logs \subseteq Bids
  /\ logging \in [Bids -> SUBSET Auctions]
  /\ chain \in [Bids -> {"unsent", "retrying", "sent", "ok", "err"}]
  /\ age \in [Bids -> {"new", "due", "aged"}]
  /\ overdue \subseteq Auctions

\* As long as no database call failed, the outcome recorded for a bid is what
\* happened to its transaction: neither the poll, nor the log, nor the expiry
\* of bids and auctions records anything else, in whatever order they come.
RecordedOutcome ==
  faults = 0 =>
    \A b \in Bids :
      /\ bidRow[b].status = "Won" => chain[b] = "ok"
      /\ bidRow[b].status = "Failed" => chain[b] = "err"
      /\ bidRow[b].status \in {"Lost", "Expired"} => ~Landed(b)

\* Every auction leaves memory, whatever happens to its transactions.
AuctionLeaves == \A a \in Auctions : InMemory(a) ~> ~InMemory(a)

\* get_bid_results: a bid that is recorded as expired has a transaction that
\* did not land and never will.  It is what a comment says, see the findings.
ExpiredNeverLanded == \A b \in Bids : bidRow[b].status = "Expired" => ~Landed(b)
=============================================================================
