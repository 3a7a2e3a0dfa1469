----------------------------- MODULE Simulator -----------------------------
(* The auctions of a chain share a simulator: a bid is verified, and winners   *)
(* are picked, by running transactions on accounts fetched from the node after *)
(* those that were sent and are not confirmed.  Meanwhile the auctions of      *)
(* other keys send theirs and the chain goes on.                               *)
EXTENDS Server, SequencesExt

CONSTANTS
  Txs,      \* transactions of bids: [key, amount, takes, table]
  Accounts, \* the accounts they take from
  Funds     \* what is in them at first

(* "verification" names a simulation that is not of a key.                    *)
ASSUME SimulatorAssumption ==
  /\ \A tx \in Txs : tx.takes \in [Accounts -> Nat] /\ tx.key # "verification"
  /\ Funds \in [Accounts -> Nat]

VARIABLES
  pending,     \* Simulator.pending_txs: Seq([tx, old]), old after MAX_PENDING_DURATION
  tableCached, \* how much of the lookup table account_cache has, 0 for nothing
  sims,        \* the simulations: of a key's auction, and of a bid's verification
  pendingBids, \* bids that were verified and wait for the auction of their key
  chain,       \* external: [funds, sent, landed, failed, table]
  due,         \* history: sent by this process, neither confirmed nor too old
  basis        \* history: what the simulation of a winner rests on

simVars == <<pending, tableCached, sims, pendingBids, chain, due, basis>>

TxKeys == {tx.key : tx \in Txs}
Verification == "verification"
Slots == TxKeys \cup {Verification}
NoSim == [pc |-> "idle"]

SimulatorInit ==
  /\ pending = <<>> /\ tableCached = 0 /\ pendingBids = {}
  /\ sims = [s \in Slots |-> NoSim]
  /\ chain = [funds |-> Funds, sent |-> {}, landed |-> {}, failed |-> {}, table |-> 1]
  /\ due = {} /\ basis = <<>>

(* A transaction takes what it needs from the accounts, or fails.             *)
Affords(funds, tx) == \A a \in Accounts : tx.takes[a] <= funds[a]
Taken(funds, tx) == [a \in Accounts |-> funds[a] - tx.takes[a]]

(* A transaction that needs more of the lookup table than is cached fails in  *)
(* the simulation: none of the table's addresses is resolved and the accounts *)
(* are not there.                                                             *)
Succeeds(funds, tx) == Affords(funds, tx) /\ tx.table <= tableCached

(* Transactions in order, a failed one left out; which of them succeed.       *)
Run(funds, txs) ==
  LET run[i \in 0..Len(txs)] ==
        IF i = 0 THEN [funds |-> funds, ok |-> <<>>]
        ELSE IF Succeeds(run[i - 1].funds, txs[i])
        THEN [funds |-> Taken(run[i - 1].funds, txs[i]), ok |-> Append(run[i - 1].ok, txs[i])]
        ELSE run[i - 1]
  IN  run[Len(txs)]

(* Highest amount first; bids of one amount in any order.                     *)
SortedByAmount(bids) ==
  {txs \in SetToSeqs(bids) : \A i, j \in DOMAIN txs : i < j => txs[i].amount >= txs[j].amount}
TxsOf(entries) == [i \in 1..Len(entries) |-> entries[i].tx]

(* fetch_pending_and_remove_old_txs, the first step of every simulation.      *)
StartSimulation(s, txs) ==
  LET recent == Selected(pending, {entry \in ToSet(pending) : ~entry.old}) IN
  /\ proc = "up" /\ sims[s] = NoSim /\ txs # <<>>
  /\ pending' = recent
  /\ sims' = [sims EXCEPT ![s] = [pc |-> "table", txs |-> txs, before |-> TxsOf(recent),
                known |-> due \cup chain.landed, left |-> Accounts, view |-> <<>>]]
  /\ UNCHANGED <<tableCached, pendingBids, chain, due, basis>>

(* simulate_transaction, for a bid that is verified.  Bound: one at a time.   *)
SimulateTransaction(tx) ==
  /\ Serving /\ tx \notin pendingBids \cup DOMAIN basis /\ Spend("verified")
  /\ StartSimulation(Verification, <<tx>>)

(* optimize_bids, for the auction of a key, under its lock.                   *)
OptimizeBids(key) ==
  /\ \E txs \in SortedByAmount({tx \in pendingBids : tx.key = key}) : StartSimulation(key, txs)
  /\ UNCHANGED budget

(* resolve_lookup_addresses: what is cached stays so for an hour, however     *)
(* much the table grows.                                                      *)
ResolveLookupAddresses(s) ==
  LET uses == \E tx \in ToSet(sims[s].txs) \cup ToSet(sims[s].before) : tx.table > 0 IN
  /\ proc = "up" /\ sims[s].pc = "table"
  /\ tableCached' = IF uses /\ tableCached = 0 THEN chain.table ELSE tableCached
  /\ sims' = [sims EXCEPT ![s].pc = "fetch"]
  /\ UNCHANGED <<pending, pendingBids, chain, due, basis, budget>>

CacheExpires ==
  /\ proc = "up" /\ tableCached \in 1..(chain.table - 1)
  /\ tableCached' = 0
  /\ UNCHANGED <<pending, sims, pendingBids, chain, due, basis, budget>>

(* fetch_tx_accounts_via_rpc, in chunks that may come from different slots.   *)
FetchAccount(s, a) ==
  /\ proc = "up" /\ sims[s].pc = "fetch" /\ a \in sims[s].left
  /\ sims' = [sims EXCEPT ![s].left = @ \ {a}, ![s].view = Put(@, a, chain.funds[a])]
  /\ UNCHANGED <<pending, tableCached, pendingBids, chain, due, basis, budget>>

Fetched(s) == proc = "up" /\ sims[s].pc = "fetch" /\ sims[s].left = {}
AfterPending(s) == Run(sims[s].view, sims[s].before)

(* A bid that succeeds after the pending transactions waits for its auction.  *)
Verified ==
  LET tx == Head(sims[Verification].txs) IN
  /\ Fetched(Verification)
  /\ pendingBids' = IF Succeeds(AfterPending(Verification).funds, tx) THEN pendingBids \cup {tx}
                    ELSE pendingBids
  /\ sims' = [sims EXCEPT ![Verification] = NoSim]
  /\ UNCHANGED <<pending, tableCached, chain, due, basis, budget>>

(* The bids that were not picked have lost; each winner is sent by a task.    *)
Pick(key, winners, sound) ==
  /\ pendingBids' = pendingBids \ ToSet(sims[key].txs)
  /\ sims' = [sims EXCEPT ![key] =
       IF winners = <<>> THEN NoSim
       ELSE [pc |-> "send", toSend |-> ToSet(winners), toNote |-> ToSet(winners)]]
  /\ basis' = Merge([tx \in ToSet(winners) |->
                       [known |-> sims[key].known \cup ToSet(winners), sound |-> sound]], basis)
  /\ UNCHANGED <<pending, tableCached, chain, due>>

(* get_winner_bids.                                                           *)
GetWinnerBids(key) ==
  LET first == AfterPending(key) IN
  /\ Fetched(key)
  /\ Pick(key, Run(first.funds, sims[key].txs).ok, first.ok = sims[key].before)
  /\ UNCHANGED budget

(* The node does not answer: an auction takes its highest bid as it is.       *)
RpcFails(s) ==
  /\ proc = "up" /\ sims[s].pc \in {"table", "fetch"} /\ Spend("faults")
  /\ IF s = Verification
     THEN sims' = [sims EXCEPT ![s] = NoSim]
          /\ UNCHANGED <<pending, tableCached, pendingBids, chain, due, basis>>
     ELSE Pick(s, <<Head(sims[s].txs)>>, FALSE)

(* send_transaction, for all winners at once: to the network, which takes it  *)
(* at the first try or at a later one.                                        *)
SendTransactionToNetwork(key, tx) ==
  /\ proc = "up" /\ sims[key].pc = "send" /\ tx \in sims[key].toSend
  /\ chain' = [chain EXCEPT !.sent = @ \cup {tx}]
  /\ sims' = [sims EXCEPT ![key].toSend = @ \ {tx}]
  /\ UNCHANGED <<pending, tableCached, pendingBids, due, basis, budget>>

(* Mutant: the simulator is not told of it.                                   *)
SentUnnoted(tx) == pending

Noted(tx) == Append(pending, [tx |-> tx, old |-> FALSE])

(* Only then is it added to the pending transactions; the auction goes on     *)
(* when all are.                                                              *)
AddPendingTransaction(key, tx) ==
  LET rest == sims[key].toNote \ {tx} IN
  /\ proc = "up" /\ sims[key].pc = "send" /\ tx \in sims[key].toNote \ sims[key].toSend
  /\ pending' = Noted(tx)
  /\ due' = due \cup {tx}
  /\ sims' = [sims EXCEPT ![key] = IF rest = {} THEN NoSim ELSE [@ EXCEPT !.toNote = rest]]
  /\ UNCHANGED <<tableCached, pendingBids, chain, basis, budget>>

(* get_bid_results, for the auction that a transaction is of: its signature   *)
(* has a status.                                                              *)
RemovePendingTransaction(tx) ==
  /\ proc = "up" /\ tx \in ToSet(TxsOf(pending)) \cap (chain.landed \cup chain.failed)
  /\ pending' = Selected(pending, {entry \in ToSet(pending) : entry.tx # tx})
  /\ due' = due \ {tx}
  /\ UNCHANGED <<tableCached, sims, pendingBids, chain, basis, budget>>

(* MAX_PENDING_DURATION passes: a transaction may land later than that.       *)
Outlives(i) ==
  /\ proc = "up" /\ i \in DOMAIN pending /\ ~pending[i].old /\ Spend("slow")
  /\ pending' = [pending EXCEPT ![i].old = TRUE]
  /\ due' = due \ {pending[i].tx}
  /\ UNCHANGED <<tableCached, sims, pendingBids, chain, basis>>

(* The chain, in any order, also when the server is gone.                     *)
Lands(tx) ==
  /\ tx \in chain.sent \ (chain.landed \cup chain.failed)
  /\ chain' = IF Affords(chain.funds, tx)
              THEN [chain EXCEPT !.landed = @ \cup {tx}, !.funds = Taken(@, tx)]
              ELSE [chain EXCEPT !.failed = @ \cup {tx}]
  /\ UNCHANGED <<pending, tableCached, sims, pendingBids, due, basis, budget>>

(* The owner of the lookup table extends it.                                  *)
ExtendTable ==
  /\ \E tx \in Txs : tx.table > chain.table
  /\ Spend("extensions")
  /\ chain' = [chain EXCEPT !.table = @ + 1]
  /\ UNCHANGED <<pending, tableCached, sims, pendingBids, due, basis>>

SimulationRuns(s) ==
  \/ ResolveLookupAddresses(s) \/ \E a \in Accounts : FetchAccount(s, a)
  \/ s = Verification /\ Verified
  \/ s # Verification /\ (GetWinnerBids(s) \/ \E tx \in Txs : SendTransactionToNetwork(s, tx)
                                                        \/ AddPendingTransaction(s, tx))

SimulatorStep ==
  \/ \E tx \in Txs : SimulateTransaction(tx) \/ RemovePendingTransaction(tx) \/ Lands(tx)
  \/ \E key \in TxKeys : OptimizeBids(key)
  \/ \E s \in Slots : SimulationRuns(s) \/ RpcFails(s)
  \/ \E i \in 1..Len(pending) : Outlives(i)
  \/ CacheExpires \/ ExtendTable

(* The process is gone, and what it knew of the transactions it sent.         *)
SimulatorStops ==
  /\ pending' = <<>> /\ tableCached' = 0 /\ pendingBids' = {} /\ due' = {}
  /\ sims' = [s \in Slots |-> NoSim]
  /\ UNCHANGED <<chain, basis>>
=============================================================================
