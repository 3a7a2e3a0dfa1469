# Express Relay in TLA+

This directory models Express Relay in TLA+: the auction server of the repository
(`src/auction-server`), the program it serves (`src/contracts/svm`) and the Rust
SDK its searchers use (`src/sdk/rust`). TLC checks the models on small instances;
TLAPS proves what holds of the auctions, the locks, the feed (opportunities,
connections, tokens, history) and the fee arithmetic for every value of the
constants.

- [1. The system](#1-the-system): components, state, interactions, what is hard
- [2. The modules](#2-the-modules): how they correspond to the code
- [3. The runs](#3-the-runs): what is checked, bounds, fairness, assumptions
- [4. The proofs](#4-the-proofs)
- [5. Findings](#5-findings) and other observations
- [6. What is not modelled, and the plan](#6-what-is-not-modelled-and-the-plan)

Paths are relative to `src/auction-server/src/` unless they start with `src/`.

## 1. The system

Searchers bid for the right to execute transactions against protocols that are
integrated with Express Relay. The auction server collects bids, simulates them,
picks winners, and either submits their transactions itself or offers the winner
as a quote to a user, who signs. An on-chain program verifies that a transaction
was permissioned by the relayer and splits the fees.

### Components

| Component | State it keeps | Operations | What makes it correct | Modelled in |
|---|---|---|---|---|
| Auction repository (`auction/repository`, `auction/entities`) | tables `bid` and `auction`; in memory `pending_bids` and `auctions` | `add_bid`, `add_auction`, `submit_auction`, `conclude_auction`, `update_bid_status`, reads | memory never runs ahead of the tables; a bid's status only moves forward; rows can be read back; an update is broadcast once, after it was recorded; a concluded auction stays out of memory | `BidStatus`, `BidLedger`, `BidStore`; reads in `History` |
| Lock maps (`auction_lock`, `bid_lock` in `auction/repository`) | a map from keys to reference-counted mutexes | get or create, lock, remove when unused | users of a key exclude each other although its mutex is recycled; waiters are served; no entry is left behind | `LockMap` |
| Server auctions (`auction/service/handle_auction(s).rs`, `auction_manager.rs`) | local: the collected bids, the winners, the auction | a handler per trigger and key: lock, collect, pick winners, add, send, record | a bid is in one auction; what is recorded is what happened to the transaction; pending bids do not starve | `ServerAuction` |
| Conclusion (`conclude_auction.rs`, `workers.rs`, `auction_manager.rs`) | a loop per auction; a task per log; retries of transactions | poll, record, refetch, conclude, expire | outcomes are recorded whatever comes first: log, poll, expiry; auctions leave memory | `Conclusion` |
| Swap quotes (`opportunity/service/get_quote.rs`, `submit_quote.rs`, `cancel_bid.rs`, `handle_auction.rs` for `SubmitType::Invalid`) | local to each request; the lock of the bid | ask for a quote, auction its bids, offer the winner; submit; cancel; sweep up late bids | an offered bid is not offered twice, lost or refused; what is sent was offered; what is recorded as submitted is sent; every bid settles | `QuoteAuction`; amounts in `SwapQuote` |
| Bid verification (`verification.rs`) | none; reads opportunities, cached metadata and fee samples | decode and check a transaction, simulate it | what is accepted is what was agreed; what the SDK builds is accepted | `BidVerification`, `Market` |
| Prioritization fees (`update_recent_prioritization_fee.rs`) | window of recent samples | append, expire, look up | the fee asked of a transaction is one of the window | `BidVerification`, `Market` |
| Simulator (`simulator.rs`, `optimize_bids.rs`) | pending transactions, cached accounts | add, remove, expire, fetch, simulate on top of the pending ones | winners do not conflict with transactions in flight | `Simulator` |
| Opportunities (`opportunity/repository`, `opportunity/service`, `opportunity/workers.rs`) | table `opportunity`; in memory the opportunities of each key | add or refresh, end of a quote, delete, the rounds of the verification loop, list | memory shows what is live; what was broadcast last of a key agrees with it; everything leaves | `Opportunities` |
| WebSocket subscribers (`api/ws.rs`, `src/sdk/rust/src/lib.rs`) | subscribed chains and bid ids of a connection; connections per address; requests in flight of a client | admit, subscribe, post or cancel a bid, forward updates, ping, close | no update a client is owed is missing or out of order; an answer reaches its own caller; dead connections end | `Connections` |
| Profiles, tokens, privileges (`state.rs`, `api/profile.rs`) | tables; cached tokens and privileges | create, revoke, grant, look up, load at a start | a revoked token is not accepted; the latest privilege counts | `Access` |
| Tables as a record of the past (`kernel/workers.rs`, `get_bids.rs`, `get_opportunities.rs`, `kernel/analytics_db.rs`) | rows, the channel to the analytics database | delete old rows in batches, read page by page, copy changes | old rows go; a reader misses nothing that is not old; the copy is current | `History` |
| The process (`server.rs`, `api.rs`, `main.rs`, `kernel/pyth_lazer.rs`) | `SHOULD_EXIT`, its loops | start, run a failed loop again, exit, the price stream | asked to end, it ends | `Server` |
| Express Relay program (`src/contracts/svm/programs/express_relay`) | metadata and router accounts, balances | `submit_bid`, `check_permission`, `swap`, fee splits, withdrawals, admin | a permission is paid for; a swap pays what was agreed; splits add up; accounts keep their rent | `FeeMath`, `ExpressRelay` |

### How they interact

`handle_bid` verifies a bid and adds it to the repository: a row, and an entry
in `pending_bids`. From there it goes one of two ways, by the kind of its
permission key.

*Server-submitted bids.* The watcher loop fires a trigger and `handle_auctions` spawns a
`handle_auction` per key with pending bids. Handlers of one key exclude each
other by a mutex from the lock map. The holder collects the pending bids, waits
for the next trigger unless one is old enough, picks winners by simulation, adds
an auction (row, then memory), sends the winners' transactions, records the
submission (row, then memory), and updates the bids to Submitted or Lost.

*Swap bids.* `get_quote` adds an opportunity, sleeps while searchers bid,
auctions the pending bids of the key itself, takes the opportunity away, offers
the winner (AwaitingSignature when the user may let it be cancelled,
SentToUserForSubmission otherwise) and leaves the losers to spawned tasks. The
user later calls `submit_quote`, the searcher `cancel_bid`; the two exclude each
other by the bid's mutex. When the key of a pending swap bid has no opportunity
any more, `handle_auction` marks the bid as lost.

*Conclusion.* Every auction gets a `conclude_auction_loop` that polls the chain;
independently of it, every transaction log spawns a task that updates the bid in
every auction in memory that has it. Both end in `update_bid_status`, as do
submission, quote, cancellation and sweep. It runs a guarded SQL update and, if
that changed the row, takes the bid out of `pending_bids`, updates the auction
in memory and broadcasts the update to the subscribers.

*Verification and execution.* `get_quote` builds an opportunity from the request,
the balances on the chain and the cached metadata of the program. A searcher's
SDK builds a transaction for it. `verify_bid` decodes the transaction, compares
it with the opportunity, checks fee payer and signatures and simulates it. The
program executes it later, when balances, accounts, metadata and the clock may
have changed.

*Around the auctions.* Opportunities are posted or quoted, verified again and
again by a loop, and removed; each addition and removal is broadcast, as is each
update of a bid. Every WebSocket connection is an actor that forwards what its
client subscribed to and defers requests to tracked tasks. Requests are
authenticated with tokens cached in memory. A loop deletes old rows while other
requests read them. Every change is also handed, by a tracked task and a channel,
to the analytics database. The loops of the process are supervised: one that
fails is run again, one that panics makes all of them exit.

### What is hard

The database and the memory are written one after the other with an `await` in
between, by up to five kinds of tasks at once; copies of auctions are read,
kept across awaits and written back; mutexes are created and dropped while
others wait for them; transactions are sent before or after they are recorded,
depending on the path, and land at any time; logs are lost or arrive early;
database calls fail, or succeed and lose their answer; requests are dropped half
way when their caller disconnects; and several timeouts (bid, auction, deadline,
staleness) race all of this. Around it, caches (tokens, privileges, metadata,
lookup tables, accounts, the opportunities a loop works on) are stale when
used; broadcast channels, permits and slots have limits; reads go page by page
over tables that change; loops fail, panic and are interrupted; and integer
arithmetic rounds. `PROJECT.json` lists these hazards at their lines with the
properties that cover them.

## 2. The modules

Three families, each with its own composition. Arrows point to the module that
is extended.

```
 Auctions   BidStatus <--- BidLedger                  LockMap <--- LockMapProofs
                ^             ^ refines                  ^ INSTANCE     ^ INSTANCE
                +--------- BidStore <-- BidStoreProofs   |              |
                              ^              ^           |              |
                         Conclusion <-- ConclusionProofs |              |
                            ^   ^            ^           |              |
               QuoteAuction-+   +-ServerAuction <-- ServerAuctionProofs-+
                    ^                                                   |
                    +---- QuoteAuctionProofs (and ConclusionProofs) ----+

 Market     FeeMath <--- ExpressRelay <--- SwapQuote <--- BidVerification <--- Market
                                                              |                 ^
                                  Tables (below) <------------+           MarketProofs
                                                                  (and Induction, below)

 Feed       Server <--- Access <--- Opportunities <--- Connections <--+
              | ^                          ^---------- History <------+--- Feed
              | +------------------------------------- Simulator <----+      ^
              v                                                              |
            Tables <--- Induction <------------------------------------- FeedProofs
```

**Auctions**

| Module | Models | State and actions in the code's terms |
|---|---|---|
| `BidStatus` | `BidStatusSvm` and the WHERE clauses of `get_update_bid_query` | `CanUpdate(from, to)`: the statuses a row may have for the update to change it; `SetsAuction`: the updates that write `auction_id`. SubmissionFailed counts as two statuses because its reasons have different guards |
| `BidLedger` | what the server promises of a bid (abstract) | the recorded status moves forward; each status is announced at most once, after it was recorded; whoever owes announcements may be gone before (`Forget`) |
| `BidStore` | the repository | `bidRow`, `auctionRow`: the tables; `pending`, `auctions`: the memory; `held`: the auction value a client keeps across awaits; `calls`: the `update_bid_status` calls in flight with their three steps; `told`: the broadcasts. One action per half of an operation, because other tasks run at the await in between |
| `LockMap` | both lock maps | the map, the `Arc`s held (`lockRef`), the guards (`lockOwner`), where each user stands; `OnlyMapRefers` is `Arc::strong_count == 1` |
| `Conclusion` | the ends of auctions and the world they observe | `loop`, `logging`: the conclusion loops and log tasks; `logs`: the log channel; `chain`, `age`, `overdue`: transactions, bids and auctions as time goes by |
| `ServerAuction` | `handle_auction` for `SubmitType::ByServer` | `job`: where the holder of a key's lock is and its winners |
| `QuoteAuction` | `get_quote`, `submit_quote`, `cancel_bid`, the sweep | `quote`: where each `get_quote` is, its winner and its auction; `live`: opportunities in memory; `sweeping`: keys found without one; `job`: where each submission or cancellation is |

`BidStore` has a `StoreNext` of its own that lets any client call any operation
at any time: what is checked and proved of it does not depend on how the services
happen to use it. The services' modules use the same actions, in the order and under
the guards of their code.

A bid row has the two columns the code branches on. All pending bids are in one
set, and the key of a bid is a function. A copy of an auction is its set of bids
with a status each and whether `tx_hash` is set; an auction without bids does not
exist, so an empty one means "not in memory". A call of `update_bid_status` is a
record in a set: two identical calls of one client would merge, which no client
makes except the background tasks, where the second would only be refused.

**Market**

| Module | Models | State and actions in the code's terms |
|---|---|---|
| `FeeMath` | `utils.rs` and `swap.rs` of the program: splits and swap fees in checked u64 arithmetic | operators that answer a record with the parts and whether the arithmetic succeeded |
| `ExpressRelay` | the program and the accounts it works on | a chain is a record of the metadata, the routers' splits, lamports and tokens; `Execute(chain, tx, now)` runs the instructions of a transaction in turn and undoes them all when one fails |
| `SwapQuote` | `get_quote.rs` up to the opportunity and from the winner to the answer; the SDK's transaction | `Opportunity`, `SwapTransaction`, `SubmitBidTransaction`, `Answer`: pure operators of a request, the chain and the metadata |
| `BidVerification` | the checks of `verify_bid` | predicates over a transaction, an opportunity, the metadata and the fee samples |
| `Market` | one bid from the request to the chain | `quote`, `bid`: the opportunity and the stage of the bid; `cached`: the server's copy of the metadata; `samples`: the fee window. The steps of `verify_bid` are actions of their own, and between any two of them the chain, the clock and the opportunity may change |

**Feed**

| Module | Models | State and actions in the code's terms |
|---|---|---|
| `Tables` | sequences and functions as tables | `Selected` keeps of a sequence what is in a set; `Merge` and `Put` write rows |
| `Server` | the process | `loops`: starting, running, failed, done; `exit`: `SHOULD_EXIT`; `stream`: the price feed's |
| `Access` | profiles, tokens, privileges | the tables, their copies in memory, and the requests between the two |
| `Opportunities` | the opportunity service | `rows`, `memory`; `calls`: every service call between its query and its turn at the memory's lock; `events`: what was broadcast; the rounds of the verification loop |
| `Connections` | the `Subscriber` actor, the SDK's task on the other side, the network | `sub`: subscriptions and the position in the broadcast channel; `cli`: the callers that wait; `net`: both directions; `deferred`: the requests handed to tracked tasks; `slots`: connections per address |
| `History` | deletions, paged reads, analytics | `deleting`: where the deletion loop is, whose three queries delete bids, opportunities and auctions apart from each other: no foreign key holds an auction to its bids since `bid_drop_fk_auction_id`; `reads`: the cursor of a reader and what it got; `analytics`, `channel`, `stored`: from a change to the analytics database |
| `Simulator` | the simulator the auctions of a chain share | `pending`: sent transactions; `sims`: the simulations under way, with the accounts fetched so far; `tableCached`; `chain`: the external node |
| `Feed` | the composition | the steps of the parts with what they leave alone, the interrupts, panics, crashes and restarts that touch all of them, fairness and the properties |

A few variables are history: they record, for the properties, what the code does
not keep (`raced`, `unsettled`, `disordered`, `due`, `basis`, and `told` of
`BidStore`). No guard of a step of the code reads them.

Operators marked as a *fault* for a definition, and variants of a definition that
nothing uses, state how the code could be wrong; they show that a property
notices.

## 3. The runs

| Run | Instance | States | Shows |
|---|---|---|---|
| `locks` | 3 users (2 droppable), 2 keys, 3 mutexes | 2 515 | exclusion per key; waiters served |
| `store` | 1 bid, 1 auction, 2 clients, 1 failure, 2 updates in flight, 5 statuses | 0.7 million | the store's invariants, single broadcast, refinement of `BidLedger` |
| `server` | 2 bids, 2 auctions, 2 handlers, 1 key, 2 mutexes, no failure | 1.2 million | no bid in two auctions; recorded = happened; sent = recorded; no lock left behind |
| `server_live` | 1 bid, 2 auctions, 2 handlers, 1 failure | 95 000 | pending bids are resolved, submitted ones settle, auctions leave memory |
| `quote_race` | 2 bids, 2 auctions, 2 concurrent quotes of 1 key, no failure | 1.0 million | an offered quote stands |
| `quote_submit` | 1 bid, 1 auction, 1 quote (cancellable or not), 2 submitters, 1 failure or disconnection | 0.7 million | sent = offered; submitted = sent |
| `quote_live` | 1 bid, 1 auction, 1 quote, 1 submitter, 1 failure | 0.2 million | every bid settles |
| `market` | 6 requests, 2 mints and a third the server does not quote, 4 chains to start from, bids by the SDK and deviations from them, one change by others | 1.1 million | what is accepted is what was agreed, and what executes pays it |
| `feed` | 34 scenarios | 0.4 million | the properties of the parts of `Feed` |
| `market_quote`, `quote_cancelled`, `quote_expired` | as above, smaller | - | the three findings of section 5 |

### Bounds

**Auctions.** `MaxFaults` bounds the failing calls and dropped requests, `MaxCalls`
and `Asked` bound `StoreNext` (the services' modules do not use them; they
have 0 and `{}`). The others are sizes of sets. Each auction id, quote or
bid is used once, handlers and submitters any number of times. Two handlers
and two mutexes suffice for a mutex to be recycled while another user waits or
arrives; two auctions for a bid to be in both; two bids for a winner and a loser
in one auction. One failure shows every recovery path; the properties
that say "as long as no database call failed" are false with one, and section 5
says what happens then.

**Market.** One request and one bid at a time: `verify_bid` keeps no state between
bids, and two bids meet in the auctions (`QuoteAuction`, `Simulator`). `MaxChanges`
bounds what others do to the chain to one change, `MaxTime` the clock to one tick,
in any place between any two steps; the deadlines and lifetimes of the
configuration are chosen so that both outcomes of every comparison occur. Fee
splits count in quarters (`Precision`) and amounts stay below 20, so that
rounding, exact division, zero fees and insufficient balances all occur; the
amount 16 is the one that is exactly affordable. Every view of the chain is that
of one node: the code reads accounts at one commitment.

**Feed.** A behaviour has one scenario, a `budget` of how often each kind of call,
fault or event may happen; what it does not name does not happen. Within it every
interleaving is explored. The scenarios of `MCFeed` are grouped by what they are
about, and pair the events that can meet there: two additions, an addition and a
deletion, a deletion with a failing query, a dropped request and a crash, a
revocation during a grant, three requests of a connection that admits one, and so
on. `MaxIds` and `MaxWritten` are 3. Channel capacities, page and batch sizes,
connections per address and active requests are all 1, the smallest size at which
each limit is reached and passed.

`CHECK_DEADLOCK FALSE` is used where bids, ids or budgets run out and the system
rests; `locks` and `market` are checked for deadlock (in `market` a bid that ended
repeats its last state).

### Fairness

**Auctions.** Weak fairness of every task's next step: the runtime polls
every task, and database and RPC calls return. Strong fairness of taking a mutex
(tokio's mutexes queue their waiters) and of `Expire`, which polls interrupt
but do not prevent. Weak fairness of `FallDue` and `OutlivePromptly`: time
passes. In `ServerAuction` the handlers' actions include being spawned, because
the trigger fires for ever. There is *no* fairness of a user's submission or
cancellation, of a transaction landing (`Land`, `Retry`), of a log being
sent, or of any failure. Faults are bounded, not fair.

**Feed.** Three weak-fairness conditions. `ServerRuns` is everything that ends by
itself once it was started: calls that wait for a query or a lock, the arms of a
Subscriber's select, deferred requests, loops that see `SHOULD_EXIT`, the clock. It
is one condition because each of these can happen only a bounded number of times,
so that something of it happening as long as it can means that all of it does.
The rounds of the verification loop and those of the deletion loop never end, and
each is a task of its own: `VerificationRuns`, `DeletionRuns`. There is no fairness of
what clients ask for, of a failure, an interrupt, a crash or a start. "It does not
stay so" is written `[]<>~P`.

### Assumptions on time

Time is abstracted to what the code tells apart; in the auction modules the
guards that relate clocks are these.
- A bid gets two minutes old (`BID_MAXIMUM_LIFE_TIME_SVM` of
  `auction_manager.rs`) only after the handler or `get_quote` that collected it
  is done (`OutlivePromptly`). These take seconds. Submissions and cancellations
  by users may still be running.
- A transaction lands only within these two minutes (its block hash is
  recent); the code makes the same assumption in a comment of
  `get_bid_results`.
- The deadline of a swap bid passes before it is two minutes old:
  `verify_bid` limits it to 45 seconds after the bid. A server bid falls due
  when it is older than `AUCTION_MINIMUM_LIFETIME`.
- An auction gets four minutes old (`is_auction_expired`) when its bids, which
  are older, have been two minutes old for two minutes, and no poll from before
  is still running, no handler still works on it, and the logs of its bids were
  handled or lost (`Expire`).
- A stale opportunity is removed (2 minutes) after the request that added it is
  over.
- A poll takes its snapshot of memory, chain and clock in one step. The code
  takes them within one RPC call, which is short compared to two minutes.

In `Feed`, a tick of the clock makes opportunities grow stale (`StaleAfter`), a
pending transaction of the simulator gets old, a cached lookup table expires and a
row falls behind the deletion threshold whenever the scenario allows.

**Two quotes of one key.** `add_opportunity` refuses an opportunity that equals a
live one. Two requests of one key still run at once when anything else differs,
such as the memo or the second in which they were asked for (`minimum_deadline`
is part of the opportunity), or when both are assessed before either is added. A
request that is refused there changes nothing and is left out of `GetQuote`.

### The properties

Each is stated at the end of its module with the reason why it matters.

- Repository: `MemoryNeverAhead`, `BroadcastOnce`, `RowReadable`,
  `ConcludedStaysOut`, `PendingIsOpen`, `LedgerImplemented`.
- Locks: `MutualExclusion`, `WaiterServed`, and `NoLeakedEntry`
  (checked as `NoLeakedLock` of `ServerAuction`, whose handlers are not dropped).
- Conclusion: `RecordedOutcome`, `AuctionLeaves`, and `ExpiredNeverLanded`
  (a finding).
- Server auctions: `OneAuctionPerBid`, `SentIsRecorded`, `PendingResolved`,
  `SubmittedSettles`.
- Quotes: `SentIsOffered`, `SubmittedIsSent`, `OfferStands`, `BidSettles`, and
  `CancelledNotSent` (a finding).
- Market: what the SDK builds for a live opportunity passes the checks
  (`SdkBidAccepted`). Whatever a searcher makes of it, a swap that was accepted and
  executes pays router, relayer and program the agreed fees and pays nobody else,
  unless the metadata changed under an old instruction (`FeesAsAgreed`); an account gets
  more only where the transaction syncs its wrapped SOL, which no check forbids. Mint
  by mint it costs the user no more than was answered and the rent the user was to pay,
  and brings the searcher's amount, if the searcher is not the user itself
  (`UserProtected`). A permission that is checked was paid for, in the same transaction
  and by one bid, whose parts add up; every wallet's gain is accounted for
  (`PermissionPaid`). A payment leaves no account below its rent (`RentKept`). The swap
  of what the simulation accepts executes once its user has the amount, where the
  accounts of the fees exist (`FundedExecutes`); what comes after the swap is not
  simulated. And `QuoteHonoured` (a finding).
- Opportunities: `FeedTold` (what was broadcast last of a key agrees with what is
  live), `StaleLeaves`.
- Connections: `NoGap`, `OwnResponse`, `DeadClosed`.
- Access: `RevokedRefused`, `PrivilegeLatest`.
- History: `ReadsComplete` (a reader misses nothing that was there when it began and
  is neither deleted nor a bid older than the deletion's threshold: such a bid may
  have lost its auction, and is then left out of pages and cannot be read by its
  id), `StaleRowsGo` (it goes in the end, like all that is old), `AnalyticsCurrent`.
- Simulator: `WinnersExecute`. Process: `ExitCompletes`.

## 4. The proofs

The assumptions are those of the modules: the "none" values are not members of
their sets, the bounds are natural numbers, the clients of the repository are the
handlers, loops and log tasks (`ConclusionAssumption`), the tokens of earlier runs
are tokens (`InitialTokensAssumption`), the loop of the opportunities is not a
call and a key's opportunities are of one kind (`OpportunitiesAssumption`), a
channel has a place and limits are natural numbers (`ConnectionsAssumption`,
`HistoryAssumption`), transactions take natural amounts from the accounts and no
permission key is the simulator's own (`SimulatorAssumption`), the loops the code names exist (`LoopAssumption`), the requests for quotes, those that submit
or cancel and the background tasks are different clients
(`QuoteAuctionAssumption`), a fee split counts in a positive number of
parts (`FeeAssumption`), rents are natural numbers and grow with the size of an account,
addresses of wallets and of token accounts differ (`ChainAssumption`), a million
is a `u64` (`QuoteAssumption`), the chain starts with
wrapped SOL that is backed, nobody has a key to the metadata account, and
bids for a permission are made of the bid and of checks of the permission, what is sold
being left out (`MarketAssumption`). No bound of section 3 is assumed to be small.

**`LockMapProofs`**, for any keys, users, mutexes and droppable users. `MutualExclusion`
is not inductive by itself: a newcomer to a key must be given the mutex of those
who wait or work. `LockInv` adds that a reference is held exactly while waiting or
working (`RefsFollowSteps`) and that it is the one in the map (`SameMutex`,
`LockSameMutex`); removal is guarded by the reference count, so it never takes away
a mutex somebody refers to. `LockNoLeakedEntry` needs one more fact, that no two
keys share a mutex (`OwnMutex`): a user that finds its mutex borrowed leaves the
entry to a user of the *same* key, who is still going to remove it. It is proved
where no user is droppable.

**`BidStoreProofs`**, of `StoreSpec`, for any bids, auctions, clients, bounds and
statuses asked for:

| Theorem | From | Argument |
|---|---|---|
| `StoreMemoryNeverAhead`, `StoreToldIsRecorded`, `StoreBroadcastOnce`, `StoreTypes` | `StoreInv` | Rows only move to a later phase (`UpdateForward`), so that "behind the row" is kept by every change of the row (`BehindUpdate`). Memory is overwritten by held copies and by calls past their query, so both must be behind the row as well (`HeldNeverAhead`, `AppliedCalls`); a call is the only one for its status because no second query could have moved the row to it |
| `StoreRowReadable`, `StoreConcludedStaysOut` | `ReadableInv` | Calls name an auction that has a row (`CallsNamed`); an auction on its way into memory has one client that brings it, and was not concluded (`FreshAuctions`) |
| `StorePendingIsOpen` | `StoreTypeOK` | The row of a pending bid is closed only by the query of a call that drops the bid from `pending` next (`PendingOpenKept`); what keeps it from coming to that counts as a fault |
| `StoreImplementsLedger` | `StoreInv` | Step simulation with the mapping of `Ledger` in `BidStore`: the query of an update is `Record` or, when its answer is lost, `RecordSilently`; the broadcast is `Tell`; everything else stutters |

**`ConclusionProofs`** takes these to the services. Services do a little more than
`StoreNext` allows: they ask for several updates at once, a submission fails
half way, a request is dropped with all its calls. `ServiceNext` adds those
steps, and `ServiceInv` (the store's two invariants, and that a held auction past its
insertion has a row) is kept by it (`ServiceKeeps`); each is a step of the ledger
(`ServiceLedger`), where the announcements that a dropped request owed are forgotten.
`ConclusionIsService`: every poll, log and expiry is such a step.

**`ServerAuctionProofs`** composes: the handlers with the conclusion of their
auctions, for any bids, keys, auctions, handlers, mutexes and failures.
`ServerInv` has four parts.

- `ServiceInv`, because every step of a handler is a service's (`ServerIsService`):
  from it `ServerMemoryNeverAhead`, `ServerRowReadable`, `ServerPendingIsOpen` and
  `ServerImplementsLedger`.
- `LockInv` of `LockMapProofs`, instantiated, because handlers use the locks as
  `LockMap` has it (`LocksUsed`): from it `ServerMutualExclusion` and
  `ServerNoLeakedLock`.
- `Jobs`: a handler works exactly while it holds the guard.
- `Apart`: a bid is pending, in the hands of the one handler that holds its key, or
  in one auction in memory. A handler's fresh auction shares no bid with memory, and a copy it
  holds later has the bids that memory has.

`ServerOneAuctionPerBid` is `Apart`; it needs mutual exclusion at one place, when a
handler collects the pending bids of its key (`PickWinnersApart`): nobody else
holds bids of that key, because it would have to hold its guard. Nothing is
assumed of how fast handlers are or of which call fails. `ServerTypes` is the type
invariant of the composition.

What is recorded is what happened (`ServerRecordedOutcome`) and what is sent is
recorded (`ServerSentIsRecorded`), as long as no database call failed. Both follow
from `OutcomeInv`, which is inductive on top of `ServerInv` and says, while
`faults = 0`, what everybody knows of the chain:

- A handler's copy shows its bids as Pending, and from its insertion on they are
  neither pending nor in another auction (`Stages`, `HeldTaken`). An auction in memory
  without a hash has a handler that is about to set it (`Unsubmitted`), so no loop expires
  it, and nobody but a log closes its bids before that (`Early`).
- A call or a row says Won, Failed, Lost or Expired only of a bid for which that is so
  (`Fits`, in `CallsKnown` and `RowsKnown`): logs tell of what landed (`LogsLanded`), and a
  bid that landed and is old has no handler left (`LandedLeft`).
- A bid that was sent is recorded, or it is among the winners of its handler
  (`SentBids`), which at its end has recorded them or has the call in flight
  (`WinnersOwed`). Memory shows a submitted bid as such once the call is over
  (`SubmittedShown`), so that the loop knows to ask the chain.

The difficult step is the expiry of an auction: it relies on memory's copy to
tell which bids were sent, and on `Apart` for no other auction having them.

**`QuoteAuctionProofs`** does the same for quotes, submissions, cancellations and
sweeps, whose steps are less orderly: nobody waits for the losers' updates, and a
request may be dropped at any await, with its calls, its copy of the auction and
its guard. `QuoteInv` has three parts.

- `ServiceInv`, because every step is a service's (`QuoteIsService`): a dropped
  request is `CutShort`, a later look at the latest version of an auction is
  `Rereads`. From it `QuoteMemoryNeverAhead`, `QuoteRowReadable`,
  `QuotePendingIsOpen` and `QuoteImplementsLedger`.
- `LockInv`, instantiated with droppable users (`LocksOfBids`): from it
  `QuoteMutualExclusion`. That no lock is leaked does not follow, because it is
  not so: a dropped request leaves its entry in the map (see the hazards).
- `Places`: what a request may rely on where it is. A quote that is about to
  offer, to record or to sign has a winner and an auction that has a row; a submission
  or a cancellation that works holds the guard of its bid, and has calls in
  flight at no other time. This is what makes the updates they ask for name
  auctions that exist. An update that ends a request early (`Update`, `Fault`)
  finds it at work.

`QuoteTypes` is the type invariant of the composition. Two more invariants rest on
`QuoteInv`.

`OfferInv` (`QuoteOffers`) holds whatever fails. What memory (`MemoryShows`), a
copy of it (`HeldShows`) or a call (`CallsShow`) shows as offered, submitted or
withdrawn in an auction was offered there by a quote and announced; submissions and
cancellations work on nothing else (`JobsShow`). An answered quote has a row that
says so (`AnswersStand`), and a bid is offered in one way only (`OneOffer`). From it
`QuoteOfferStands`: two requests may collect the same pending bid, and it is the
guarded update, which the first one wins, that keeps the other from answering with it.

`SubmitInv` (`QuoteSubmissions`) holds while `faults = 0`; a fault makes it true, so that
only the steps without one (`CalmNext`) are left to consider. An auction is named by one
quote (`OwnAuctions`); a bid on its way to the chain is not withdrawn (`MaySend`), because
only the job that holds the lock of the bid submits or withdraws it (`SoleJob`, from
mutual exclusion and `JobCalls`) and because a job that takes the lock after a
withdrawal finds it in memory. The last is `CaughtUp`: once the call of a withdrawal is
over, no auction in memory shows the bid as offered. Copies that were read before it are
written back after it; whoever does so either holds the lock of the bid or is the
quote of a bid that cannot be withdrawn (`CopiesCaughtUp`), and an offer is written to
memory before it is announced, which is before anybody withdraws it (`NoLateOffer`, from
`WithdrawnTold`). From it `QuoteSentIsOffered` and
`QuoteSubmittedIsSent`. With a failure they do not hold (the first finding).

**`FeedProofs`**, of `Feed`'s specification with everything in it: failures,
dropped requests, panics, crashes and restarts, for any profiles, tokens,
opportunities, connections, rows and limits.

| Theorem | From | Argument |
|---|---|---|
| `MemoryHasLatestPrivilege`, `RevokedAreRefused` | `AccessInv` | A privilege in memory or in a request's hands is one of the table (`PrivilegesOfTable`), the newest is in memory or on its way (`NewestKept`), a revoked token still in memory is about to be dropped (`RevokedLeave`); each but for what a failure, a dropped request or two requests that overtook each other left `unsettled` |
| `CallersGetOwnResponse` | `OwnInv` | Every message on its way, deferred request and response carries the number of the caller it is for; the client's table of pending requests maps an id to the caller of that number, so that a late answer to a request that timed out meets nobody |
| `OpenHasNoGap` | `GapInv` | A Subscriber has sent, in order (`InOrder`), all it owes up to its position in the channel (`Complete`); what it subscribes to counts from there (`Marked`). A lagging one is closed. `OppInv` gives the types of the events |
| `TellsWhatIsLive` | `ToldInv` | Of a key for which no addition and removal overlapped, memory and the last broadcast differ only while a call is about to make up for it (`ToldOf`) |
| `AnalyticsCatchUp` | `RecordsInv`, `CopyInv` | A bid is copied by one task at a time, the last of its copies in the channel has its status, and when there is none the analytics database has it |
| `ReadersMissNothing` | `ReadInv` | What a reader noted when it began and from before its cursor it got, is deleted or, a bid, is old (`ReadBids`, `ReadOpps`); a page has what is first in time from the cursor on (`FirstInTime`), and its auctions are read after it (`PageOf`). A bid's auction is made after the bid, so that the loop cannot have deleted it while the bid is not old (`YoungHasAuction`) |
| `SimulatedWinnersExecute` | `SimInv` | Of each account: what a simulation saw of it, less what the pending transactions take, is on the chain less what those of them take that have not landed (`Seen`), so that the winners' accounts have what they and the known transactions take (`BackedBy`), unless an unknown one that takes from the account has landed (`Missed`). A landing takes as much from the one side as from the other (`LandCovers`) |
| `FeedIsTyped` | `LimitInv` and the above | The types of every part, with its limits: connections of an address, buffered responses, active requests of a connection, places of the channel; and that a bid's auction is younger than the bid and there unless it is old (`HistoryTypeOK`) |

**`Induction`** has the lemmas about data that these proofs need. The library's
induction theorems take an operator as a parameter; here a property is a set of
numbers and induction is the least counterexample (`LeastOf`, from the
well-foundedness of the numbers): a set with zero and every successor up to `n` is
`0..n` (`InductionUpTo`), a recursive function on an interval exists
(`RecursionUpTo`), a finite family of numbers is bounded (`BoundedUpTo`), a bounded
set has a greatest member (`GreatestOf`), an iterated function has its values
(`IteratedIs`; `Load`, what transactions take together, is one). From these it is proved what `Selected`
computes (`SelectedIs`, `SelectedElements`, `SelectedAppend`, `SelectedSame`).

**`MarketProofs`**, of `Market`'s specification, for any wallets, mints, requests, bids,
amounts, splits, fees, chains to start from and changes by others. The transactions that
are considered are all that `Market` can send: what the SDK builds, its deviations, and
`BidTxs`. It has four layers.

- Arithmetic, for every amount, fee and split the program accepts: the parts of a bid
  add up to it (`SplitsAddUp`), and the fees of a swap with what is left add up to
  its amount, the relayer's part being one of the platform's (`SwapFeesAddUp`).
- Execution. A chain is `Fine` if wrapped SOL is backed by lamports and the metadata
  account, once it exists, has its rent; it `Becomes` another that is `Fine` and still
  initialized. Each instruction's result is an `Outcome`: an error of `Failures`, or such
  a chain. By induction over the instructions (`Run` is a fold over `1..Len(tx.ixs)`, and
  `RunIs` gives its steps) every transaction that the metadata account does not
  sign is one too; it signs none, because it is an address of the program.
- The inductive invariant `MarketInv` (`MarketInvariant`): `ChainInv`, `ClockInv`
  (the fee window), `QuoteInv` (an opportunity is one `get_quote` could have made) and
  `BidInv`: every transaction of a bid is a sequence of instructions, and one that
  passed the first check has what the check looked at (`Verified` for a swap, the only
  instruction that pays for a bid). Types (`MarketIsTyped`) follow. The first check is
  done once and the transaction executes later, possibly on another chain; what links
  the two is `BidInv`.
- What a landing does, from the invariant and the fold.
  `PermissionIsPaid` and `RentIsKept`: only the bid's own instruction touches the
  parties (`BidLanded`), so that the chain changed as that instruction pays (`BidPaidIs`).
  `FeesAreAgreed`: of a verified swap all instructions but the swap are `Quiet`; they
  change no other party's account except by syncing it (`QuietIs`), the swap
  pays its parts (`SwapSeen`), together `SwapLanded`, and the parts are the agreed
  ones (`AgreedIs`). `UserIsProtected` counts lamports and wrapped SOL of the
  user as one (`Worth`). Every quiet instruction is `Harmless` (`HarmlessIs`): the user's
  lamports move only into its own wrapped SOL and its accounts are closed to itself;
  at most as many creations as the user was to pay for are
  paid by it (`CreationsIs`, through the loop of `check_create_ata` that removes what it
  has accounted for). So the user loses at most these rents (`QuietWorth`) and
  what the swap takes (`SwapWorth`); with the induction over the transaction
  this is `UserLanded`. That the amounts are those that were answered needs a second
  invariant, `AnswerInv`: the answered amount is the one of the bid's swap.

The invariants behind all of these were invariants of the runs of section 3 before they
were proved.

**Only model-checked**: `SdkBidAccepted`, which evaluates every check on the concatenated
sequences of instructions that the SDK builds, and `FundedExecutes`, which compares two
executions of a transaction on different chains instruction by instruction; the proofs
above only follow one. And liveness
(`WaiterServed`, `PendingResolved`, `SubmittedSettles`, `AuctionLeaves`, `BidSettles`,
`StaleLeaves`, `DeadClosed`, `StaleRowsGo`, `ExitCompletes`), which is beyond the
prover. `RecordedOutcome` is proved of server auctions only: of quotes it is false
(the second finding).

## 5. Findings

Three places of the code do not do what is said of them; each has a run in which
TLC shows the behaviour.

1. `quote_cancelled`: `submit_quote.rs:160-162` says that sending after the
   update makes sure that no cancelled bid is sent. The update's answer `false`
   is not looked at. When a cancellation changed the row and did not reach
   memory (its answer was lost, or its request dropped), the submission
   passes the check on memory, its update is refused, and the transaction is
   sent. Without a failure the comment holds: `SentIsOffered`.
2. `quote_expired`: `auction_manager.rs:313` says that the transaction of an old
   bid has expired. The chain is asked only if a bid of the auction is known
   to be sent *in that auction's copy*. When two quotes of a key share a bid, the
   copy of the auction that was refused still shows Pending; its loop expires the
   bid although the transaction landed.
3. `market_quote`: the amounts that `get_quote` answers are computed with the
   program's default platform fee (`get_quote.rs:656`), while the opportunity and
   the swap have the larger of it and the pair's minimum (`get_quote.rs:220-226`). For a
   pair with a minimum above the default and fees in the searcher's token, the
   user is told more than he receives
   (`src/auction-server/api-types/src/opportunity.rs:555`).

Also observed, where no property claims otherwise:

- `conclude_auction.rs:53-55` explains the workaround for stuck auctions by bids that
  are in two auctions. It is also needed for an auction that shares no bid: the
  handler's update to Submitted changes the row, a log moves the row on to
  Won and writes memory, and the handler's write to memory comes last. Memory shows
  Submitted until the auction leaves after four minutes. `MemoryNeverAhead` is the
  direction that does hold.
- A database failure after the transactions were sent (`handle_auction.rs:87`)
  leaves the auction without a hash; it is never polled for, and its bids are recorded as lost
  when it expires, unless the log tells first. This is why `RecordedOutcome` and
  `SentIsRecorded` are stated for runs without failures.
- A closing update of a bid whose answer is lost leaves the bid in `pending_bids`
  although its row is closed; it is auctioned again and again, or stays for ever
  (`PendingIsOpen`, `PendingResolved`).
- `RecordedOutcome` does not hold with two quotes that share a bid; this is the
  second finding.
- A request that is dropped while it holds the lock of a bid leaves the entry
  in the lock map until the next request for the bid. Exclusion is unaffected.
- `get_quote.rs:639` says an update to the winner can only be refused
  because of another `get_quote`. The sweep can do it too: the opportunity is
  removed before the winner is recorded.
- After a restart the rows of bids and auctions that were in memory stay open for
  ever: nothing reads them back.
- Two identical bids that are verified at once are both added
  (`verification.rs:1403`); the second fails in the simulation.
- When an addition and a removal of a key overlap, the broadcasts can come in the
  other order than the changes of memory (`raced`); memory is right.
- The readers' cursor is a time. A bid that is inserted late, with an earlier
  `initiation_time`, appears behind it, and as many bids at one time as a page
  has stop it (`auction/repository/get_bids.rs`); `ReadsComplete` is about what
  was there when the reader began. A page whose bids all lost their auctions is
  empty, and looks to the client like the end.
- No foreign key holds an auction to its bids any more (the migration
  `20250731160326_bid_drop_fk_auction_id`), and the deletion loop takes auctions in
  batches of their own (`kernel/workers.rs:226`). When more bids are old than a batch
  takes, or one becomes old between the two queries, an auction goes before its
  bid. Until a later round deletes the bid, `get_bids` leaves it out
  (`auction/repository/models.rs:219-222` calls it an error: it "should have an
  auction") and `get_bid` answers that the service is unavailable
  (`auction/repository/models.rs:716-730`). `ReadsComplete` is stated of bids that are
  not old, to which it cannot happen; a scenario of `feed` reads a bid it did happen to.
- A lookup table that was extended is seen after its cached copy expired, an hour later;
  until then bids that need the extension are refused (`simulator.rs`).
- A transaction that landed and is not confirmed yet is applied a second time in
  simulations (`WinnersExecute` speaks of winners that fail, not of bids that are
  refused).
- A failed WebSocket upgrade keeps the slot of its address (`api/ws.rs:172`).
- The amount of a quote is multiplied without a check (`get_quote.rs:246`).

## 6. What is not modelled, and the plan

Not modelled: byte formats (instructions, accounts, requests, answers), the
contents of simulated programs (a transaction takes amounts from accounts),
resolution of lookup tables inside a transaction, prices, metrics, tracing,
routing and configuration, the connections of the watcher and log loops, the
JavaScript and Python SDKs (clients like the Rust SDK's), and the scripts and
examples. Wallets that send transactions of their own to the chain are in
`Market` only as changes of balances and accounts. `PROJECT.json` lists each
component with what is left out of it.

The plan, in order of importance:

1. *(done)* `BidStatus`, `BidLedger`, `LockMap`, `BidStore`: the repository, with
   the proofs of its invariants and of the refinement.
2. *(done)* `Conclusion`, `ServerAuction`, `QuoteAuction`: the services on top of it.
3. *(done)* `FeeMath`, `ExpressRelay`, `SwapQuote`, `BidVerification`, `Market`: the
   program, the SDK's bids and their verification.
4. *(done)* `Server`, `Access`, `Opportunities`, `Connections`, `History`,
   `Simulator`, `Feed`: the rest of the server, with restarts, and `FeedProofs`.
5. *(done)* `ConclusionProofs`, `ServerAuctionProofs`, `QuoteAuctionProofs`: the
   store's and the locks' theorems for both compositions, and `OneAuctionPerBid`.
6. *(done)* The proofs of `PendingIsOpen`, `RecordedOutcome`, `SentIsRecorded`,
   `OfferStands`, `SentIsOffered`, `SubmittedIsSent`, and of the feed's properties.
7. *(done)* `MarketProofs`: `MarketTypeOK`, `RentKept`, `PermissionPaid`,
   `FeesAsAgreed`, `UserProtected`.
8. A restart of the auction repository, should the code ever read its tables back.
