-------------------------------- MODULE Feed --------------------------------
(* The server as its clients see it: the process and its loops, the tokens     *)
(* requests are authenticated with, the opportunities, the connections that    *)
(* deliver what is broadcast of them, the tables that keep a record of the     *)
(* past, and the simulator that auctions share.  It may be interrupted, crash  *)
(* and be started again.                                                       *)
EXTENDS Connections, History, Simulator

vars == <<serverVars, accessVars, oppVars, connVars, historyVars, simVars, budget>>

Init ==
  /\ ServerInit /\ AccessInit /\ OppInit /\ ConnInit /\ HistoryInit /\ SimulatorInit
  /\ budget \in Scenarios

(* Requests over HTTP: the API's graceful shutdown waits for them.  A quote   *)
(* runs in a task of its own, which is not waited for.                        *)
HttpIdle ==
  /\ \A a \in Admins : access[a] = NoAccess
  /\ \A r \in Readers : reads[r].pc = "idle"
  /\ sims[Verification] = NoSim
  /\ \A c \in Calls : calls[c] = NoCall \/ (calls[c].opp # None /\ calls[c].opp.create.kind = "swap")

(* The verification and the deletion loop look at SHOULD_EXIT between two     *)
(* rounds, the API returns when its requests have.                            *)
Exits(l) ==
  /\ SeesExit(l)
  /\ (l = Loop => calls[l] = NoCall) /\ (l = Worker => DeletionMayExit) /\ (l = "api" => HttpIdle)

(* A deletion loop that failed or panicked begins its rounds anew.            *)
OfServer(A) ==
  /\ A
  /\ deleting' = IF loops'[Worker] = "running" THEN deleting ELSE "check"
  /\ UNCHANGED <<accessVars, oppVars, connVars, tableVars, horizon, reads, analyticsVars, simVars>>

ServerStep ==
  \/ \E l \in Loops : SetUp(l) \/ Fails(l) \/ RunAgain(l) \/ Exits(l)
  \/ \E l \in Loops \ {Loop} : Panics(l)
  \/ Interrupt \/ StreamSilent \/ StreamInactive \/ PriceClosed

(* A panic of the verification loop cuts a removal short and loses the rest   *)
(* of its round.                                                              *)
VerificationPanics ==
  /\ Panics(Loop)
  /\ calls' = [calls EXCEPT ![Loop] = NoCall]
  /\ raced' = raced \cup Removing(calls)
  /\ UNCHANGED <<memory, rows, now, events, accessVars, connVars, historyVars, simVars>>

(* The process ends when its loops and its tracked tasks have: the requests   *)
(* that Subscribers deferred, the auctions, what the analytics are to be told. *)
(* Or it crashes.                                                             *)
Down == ConnStops /\ OppStops /\ HistoryStops /\ SimulatorStops /\ UNCHANGED accessVars
Completes ==
  /\ deferred = {} /\ analytics = {} /\ \A s \in Slots : sims[s] = NoSim
  /\ ProcessEnds /\ Down
Crash == Crashes /\ Down

StartsAgain ==
  /\ Starts
  /\ AccessStarts
  /\ UNCHANGED <<oppVars, connVars, historyVars, simVars>>

OfAccess(A) == A /\ proc = "up" /\ UNCHANGED <<serverVars, oppVars, connVars, historyVars, simVars>>
OfOpp(A) ==
  /\ A /\ proc = "up" /\ OpportunityAnalytics
  /\ UNCHANGED <<serverVars, accessVars, connVars, simVars>>
OfConn(A) == A /\ UNCHANGED <<serverVars, accessVars, oppVars, historyVars, simVars>>
OfHistory(A) == A /\ UNCHANGED <<serverVars, accessVars, oppVars, connVars, simVars>>
OfTables(A) ==
  A /\ UNCHANGED <<proc, exit, stream, accessVars, memory, calls, now, events, raced, connVars, simVars>>
OfSimulator(A) == A /\ UNCHANGED <<serverVars, accessVars, oppVars, connVars, historyVars>>

Next ==
  \/ OfServer(ServerStep) \/ VerificationPanics \/ Completes \/ Crash \/ StartsAgain
  \/ OfAccess(AccessStep) \/ OfOpp(OppStep) \/ OfConn(ConnStep)
  \/ OfHistory(HistoryStep) \/ OfTables(DeletionStep) \/ OfTables(ReadStep)
  \/ OfSimulator(SimulatorStep)
  \/ /\ BroadcastUpdate
     /\ UNCHANGED <<serverVars, accessVars, memory, rows, calls, now, raced, historyVars, simVars>>

(* Loops run and are run again, time passes, calls that were started are      *)
(* served by the database, and a Subscriber's select serves every ready arm:  *)
(* something of all this happens as long as it can, and each of it ends.  The *)
(* two loops whose rounds go on for ever are tasks of their own.              *)
LoopRuns == \E l \in Loops : SetUp(l) \/ RunAgain(l) \/ Exits(l)
StreamRuns == StreamInactive \/ PriceClosed
AccessRuns(a) == InsertToken(a) \/ ReadToken(a) \/ CacheToken(a) \/ RevokeRow(a) \/ DropToken(a)
                   \/ UpdateInMemoryPrivilege(a)
CallRuns(c) == AddRow(c) \/ AddMemory(c) \/ RefreshInMemoryOpportunity(c) \/ TellNew(c) \/ EndQuote(c)
                 \/ DropRow(c) \/ DropMemory(c) \/ TellGone(c) \/ DeleteRows(c) \/ DeleteMemory(c)
ConnRuns(c) == Open(c) \/ HandleUpdate(c) \/ Lags(c) \/ HandleClientMessage(c) \/ SpawnDeferred(c)
                 \/ HandleResponse(c) \/ PingTick(c) \/ ExitTick(c)
DeferredRuns == \E task \in deferred : RunDeferred(task) \/ RespondDeferred(task)
HistoryRuns == (\E task \in analytics : SendAnalytics(task)) \/ Insert \/ GrowOld
ReadRuns == \E r \in Readers : GetAuctionsByBids(r) \/ GetAuction(r)

ServerRuns ==
  \/ OfServer(LoopRuns \/ StreamRuns) \/ Completes
  \/ OfAccess(\E a \in Admins : AccessRuns(a))
  \/ OfOpp((\E c \in Calls : CallRuns(c)) \/ Tick)
  \/ OfConn((\E c \in Conns : ConnRuns(c)) \/ DeferredRuns)
  \/ OfHistory(HistoryRuns) \/ OfTables(ReadRuns)
  \/ OfSimulator(\E s \in Slots : SimulationRuns(s))
VerificationRuns == OfOpp(CallRuns(Loop) \/ CheckKey(Loop) \/ StartRound \/ Visit)
DeletionRuns == OfTables(DeletionStep /\ UNCHANGED budget)

Fairness == WF_vars(ServerRuns) /\ WF_vars(VerificationRuns) /\ WF_vars(DeletionRuns)

Spec == Init /\ [][Next]_vars /\ Fairness

---------------------------------------------------------------------------
(* Types; and get_opportunities, which panics when a key in memory has no     *)
(* opportunity, never meets one.                                              *)
FeedTypeOK ==
  /\ ServerTypeOK /\ AccessTypeOK /\ OppTypeOK /\ ConnTypeOK /\ HistoryTypeOK
  /\ \A key \in DOMAIN memory : memory[key] # <<>>

Busy(key) == key \in Adding(calls) \cup Removing(calls)
EventsOf(key) == Selected(events, {e \in ToSet(events) : e.kind \in {"new", "gone"} /\ e.key = key})

(* What was broadcast last of a key agrees with what get_opportunities shows:  *)
(* a client that heard everything knows which keys are live.  Not for the keys *)
(* of quotes, whose end is not broadcast, nor where an addition and a removal *)
(* overlapped.                                                                *)
FeedTold ==
  \A key \in Keys :
    LET told == EventsOf(key) IN
    ~Busy(key) /\ key \notin raced /\ KindOf(key) = "limo" =>
      ((\E o \in LiveOpportunities : o.create.key = key) <=> told # <<>> /\ Last(told).kind = "new")

(* "It does not stay so" is []<>~P here: P ~> ~P says the same, and is slower  *)
(* to check.                                                                  *)
(* Every opportunity leaves memory: deleted, at the end of its quote, or      *)
(* removed by the loop, which tries again when the database refuses, also     *)
(* when its row is marked already.                                            *)
StaleLeaves ==
  \A id \in 1..MaxIds : []<>(id \notin IdsInMemory \/ exit)

(* The updates a client is owed: of a chain since the server subscribed it,   *)
(* of a bid since it was answered about it.                                   *)
Owed(c) ==
  {i \in 1..sub[c].pos :
     IF events[i].kind = "bid" THEN events[i].id \in sub[c].bids /\ i > sub[c].told[events[i].id]
     ELSE events[i].chain \in sub[c].chains /\ i > sub[c].since[events[i].chain]}

(* As long as the connection is open the client was sent every update it is   *)
(* owed, in the order of the broadcasts, and none of a bid whose id it does   *)
(* not know yet; a Subscriber that missed one closes.                         *)
NoGap ==
  \A c \in Conns : IsOpen(c) =>
    LET got == sub[c].got IN
    /\ Owed(c) \subseteq ToSet(got)
    /\ \A i, j \in 1..Len(got) : i < j => got[i] < got[j]
    /\ \A i \in ToSet(got) : events[i].kind = "bid" => i \in Owed(c)

(* A caller of the SDK gets the answer to its own request or none, whatever   *)
(* timed out before and answers late.                                         *)
OwnResponse ==
  \A c \in Conns : \A n \in DOMAIN cli[c].callers :
    cli[c].callers[n] \in {Waiting, TimedOut, Failed, Answered(n)}

(* A connection whose network is gone without a word is closed by the pings   *)
(* and its address gets the slot back.                                        *)
DeadClosed ==
  \A c \in Conns :
    LET dead == cli[c].state # "none" /\ ~net[c].up IN
    []<>~(dead /\ (IsOpen(c) \/ \E ip \in Ips : c \in slots[ip]))

(* A revoked token is refused once its revocation answered, also after a      *)
(* restart; except a token that a request was caching at that moment, or      *)
(* whose revocation was dropped half way.                                     *)
RevokedRefused ==
  \A t \in DOMAIN tokenRows :
    tokenRows[t].revoked /\ t \notin unsettled /\ proc = "up"
      /\ ~(\E a \in Admins : access[a].pc = "drop" /\ access[a].token = t)
    => t \notin DOMAIN tokens

(* Memory has the newest privilege of the table, in whatever order requests   *)
(* reach it, also after a restart.                                            *)
PrivilegeLatest ==
  \A p \in Profiles :
    (\A a \in Admins : access[a].pc # "cachePrivilege") /\ p \notin unsettled /\ proc = "up"
    => HasPrivilege(p) = (privilegeRows[p] # <<>> => Last(privilegeRows[p]) = "enabled")

(* What a reader must not miss: a bid that is old may have lost its auction,  *)
(* and is then left out of pages and cannot be read by its id.                *)
Due(kind) == IF kind = "bid" THEN {b \in DOMAIN bidRows : b > horizon} ELSE Kept(kind)

(* A client that reads its bids, or the opportunities, from the time of the   *)
(* last item it got misses nothing that was there when it began, unless it is *)
(* deleted or a bid older than the threshold: not an item with the time it    *)
(* asks from, nor one that was at the end of a page; and a bid that is not    *)
(* old can be read by its id, though its auction is fetched by a query of its *)
(* own and the loop deletes auctions without a look at their bids.            *)
ReadsComplete ==
  \A r \in Readers :
    LET past == {id \in DOMAIN reads[r].present : reads[r].present[id] < reads[r].cursor} IN
    (past \cup reads[r].failed) \cap Due(reads[r].kind) \subseteq reads[r].got

(* What is older than the threshold is deleted, however many rows there are   *)
(* for the batches and however often the loop fails and is run again; also a  *)
(* bid whose auction went before it, which nobody can read any more.          *)
StaleRowsGo ==
  \A id \in 1..MaxWritten :
    LET stale == id <= horizon /\ id \in auctionRows \cup DOMAIN bidRows IN
    []<>(~stale \/ exit \/ proc = "down")

(* When its tasks are done the analytics database shows a bid as the table    *)
(* does; except where two tasks of it ran at once, one failed, or the process *)
(* ended before the row was written.                                          *)
AnalyticsCurrent ==
  \A b \in DOMAIN bidRows :
    LET bid == <<"bid", b>> IN
    Watched /\ bidRows[b].status # "pending" /\ bid \notin disordered
        /\ bid \notin {Subject(t) : t \in analytics \cup ToSet(channel)}
      => bid \in DOMAIN stored /\ stored[bid] = bidRows[b].status

(* A winner fails on the chain, for what it takes from an account, only when  *)
(* its simulation had no way to know: the node did not answer, a transaction  *)
(* pending then failed in the simulation, or another has landed that was not  *)
(* all sent when the simulation began, was pending for too long to be counted, *)
(* or was sent before a restart.                                              *)
WinnersExecute ==
  \A tx \in chain.failed :
    \/ ~basis[tx].sound
    \/ \E other \in chain.landed \ basis[tx].known :
         \E a \in Accounts : other.takes[a] > 0 /\ tx.takes[a] > 0

(* Asked to end, the server ends: every loop sees it, connections close and   *)
(* the tracked tasks finish, even when loops fail and are run again.          *)
ExitCompletes == []<>~(proc = "up" /\ exit)
=============================================================================
