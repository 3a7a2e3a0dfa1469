--------------------------- MODULE Opportunities ---------------------------
(* The opportunities of the server: rows in the database, the live ones in     *)
(* memory by key, and what is broadcast of them.  Every service call is a task *)
(* whose database queries and turns at the memory's lock are separate steps.   *)
EXTENDS Access, SequencesExt

CONSTANTS
  Calls,        \* service calls in flight, besides the verification loop
  Creates,      \* what is posted or quoted: [key, chain, kind, order]
  RefreshAfter, \* MIN_REFRESH_TIME
  StaleAfter,   \* MAX_STALE_OPPORTUNITY_DURATION
  MaxIds,       \* bound: opportunities ever added
  Program       \* the profile whose role and name get_program accepts

VARIABLES
  memory,  \* in_memory_store.opportunities: key |-> Seq([id, create, refreshed])
  rows,    \* opportunity: id |-> [key, removed, deleted]; a deleted row stays as a mark
  calls,   \* the calls in flight
  now,     \* the clock
  events,  \* everything sent to the broadcast channel since the start
  raced    \* history: keys an addition and a removal of which overlapped

oppVars == <<memory, rows, calls, now, events, raced>>

Loop == "verification"
Tasks == Calls \cup {Loop}
Keys == {create.key : create \in Creates}

(* A program has permission keys of its own.                                  *)
ASSUME OpportunitiesAssumption ==
  /\ Loop \notin Calls
  /\ \A x, y \in Creates : x.key = y.key => x.kind = y.kind

ChainOf(key) == (CHOOSE create \in Creates : create.key = key).chain
KindOf(key) == (CHOOSE create \in Creates : create.key = key).kind

None == [id |-> 0]
NoCall == [pc |-> "idle", opp |-> None, left |-> {}]

At(key) == IF key \in DOMAIN memory THEN memory[key] ELSE <<>>
InMemory == UNION {ToSet(At(key)) : key \in Keys}

(* get_opportunities: the last opportunity of every key in memory.            *)
LiveOpportunities == {Last(memory[key]) : key \in DOMAIN memory}
IdsInMemory == {o.id : o \in InMemory}
KeyOf(call) == IF call.pc = "deleteRows" \/ call.pc = "deleteMemory"
               THEN call.key ELSE call.opp.create.key

OppTypeOK ==
  /\ DOMAIN memory \subseteq Keys
  /\ \A key \in DOMAIN memory : \A o \in ToSet(memory[key]) :
       o.create.key = key /\ o.refreshed <= now /\ o.id \in DOMAIN rows
  /\ \A id \in DOMAIN rows : rows[id] \in [key : Keys, removed : BOOLEAN, deleted : BOOLEAN]
  /\ DOMAIN calls = Tasks

OppInit ==
  /\ memory = <<>>
  /\ rows = <<>>
  /\ calls = [c \in Tasks |-> NoCall]
  /\ now = 0
  /\ events = <<>>
  /\ raced = {}

(* Who is about to add to a key, and who is about to remove from it.          *)
Adding(cs) == {cs[c].opp.create.key : c \in {d \in Tasks : cs[d].pc \in {"row", "memory", "refresh", "tell"}}}
Removing(cs) ==
  {KeyOf(cs[c]) : c \in {d \in Tasks : cs[d].pc \in
     {"deleteRows", "deleteMemory", "dropRow", "dropMemory", "check", "tellGone"}}}

Proceed(c, next) ==
  /\ calls' = [calls EXCEPT ![c] = next]
  /\ raced' = raced \cup (Adding(calls') \cap Removing(calls'))

Goto(c, pc) == Proceed(c, [calls[c] EXCEPT !.pc = pc])

(* A removal returns to the loop's snapshot, or ends the call.                *)
Return(c) == Proceed(c, IF c = Loop THEN [NoCall EXCEPT !.pc = "visit", !.left = calls[c].left]
                                    ELSE NoCall)

(* Opportunities are compared by what they buy and sell and by their order;   *)
(* the slot of a limo order is left out, here too.                            *)
Same(o, create) == create = o.create
NeedsRefresh(o) == o.refreshed + RefreshAfter < now
Matching(create) == Selected(At(create.key), {o \in InMemory : Same(o, create)})

(* assess_action, then add_opportunity: a duplicate is refused.               *)
AssessAction(c, create) ==
  LET same == Matching(create) IN
  /\ calls[c] = NoCall
  /\ \/ /\ same = <<>>
        /\ Proceed(c, [NoCall EXCEPT !.pc = "row", !.opp = [id |-> 0, create |-> create]])
     \/ /\ same # <<>> /\ NeedsRefresh(Head(same))
        /\ Proceed(c, [NoCall EXCEPT !.pc = "refresh", !.opp = Head(same)])
  /\ UNCHANGED <<memory, rows, now, events>>

(* Which profile may post and delete opportunities.                           *)
GetProgram(t) == IF GetProfileByToken(t) = {Program} THEN "limo" ELSE "Forbidden"

PostOpportunity(c, t, create) ==
  /\ Serving /\ Spend("posts")
  /\ GetProgram(t) = create.kind
  /\ AssessAction(c, create)

(* get_quote adds the opportunity of the quote in the same way.               *)
PostQuote(c, create) ==
  /\ Serving /\ Spend("quotes")
  /\ create.kind = "swap"
  /\ AssessAction(c, create)

AddRow(c) ==
  /\ calls[c].pc = "row" /\ Cardinality(DOMAIN rows) < MaxIds
  /\ LET id == Cardinality(DOMAIN rows) + 1
         create == calls[c].opp.create IN
     /\ rows' = Put(rows, id, [key |-> create.key, removed |-> FALSE, deleted |-> FALSE])
     /\ Proceed(c, [calls[c] EXCEPT !.pc = "memory",
                      !.opp = [id |-> id, create |-> create, refreshed |-> now]])
  /\ UNCHANGED <<memory, now, events, budget>>

AddMemory(c) ==
  /\ calls[c].pc = "memory"
  /\ LET key == calls[c].opp.create.key IN
       memory' = Put(memory, key, Append(At(key), calls[c].opp))
  /\ Goto(c, "tell")
  /\ UNCHANGED <<rows, now, events, budget>>

(* The opportunity is replaced when it is still there as it was read; it is   *)
(* broadcast again even when it is not.                                       *)
RefreshInMemoryOpportunity(c) ==
  LET old == calls[c].opp
      new == [old EXCEPT !.refreshed = now]
      key == old.create.key IN
  /\ calls[c].pc = "refresh"
  /\ memory' = IF key \in DOMAIN memory
               THEN [memory EXCEPT ![key] = ReplaceAll(@, old, new)] ELSE memory
  /\ Proceed(c, [calls[c] EXCEPT !.pc = "tell", !.opp = new])
  /\ UNCHANGED <<rows, now, events, budget>>

Event(kind, key, id) == [kind |-> kind, chain |-> ChainOf(key), key |-> key, id |-> id]
Send(event) == events' = Append(events, event)

TellNew(c) ==
  LET opp == calls[c].opp IN
  /\ calls[c].pc = "tell"
  /\ Send(Event("new", opp.create.key, opp.id))
  /\ Proceed(c, IF opp.create.kind = "swap" THEN [calls[c] EXCEPT !.pc = "quoted"] ELSE NoCall)
  /\ UNCHANGED <<memory, rows, now, budget>>

(* get_quote has the bids, or none: remove_quote_opportunity.  A quote that   *)
(* fails in between leaves its opportunity to the verification loop.          *)
EndQuote(c) ==
  /\ calls[c].pc = "quoted"
  /\ \/ Goto(c, "dropRow") /\ UNCHANGED budget
     \/ Proceed(c, NoCall) /\ Spend("faults")
  /\ UNCHANGED <<memory, rows, now, events>>

(* Mutant: a row that is removed already ends the removal.                    *)
DropRowOnce(c) ==
  LET id == calls[c].opp.id IN
  /\ calls[c].pc = "dropRow"
  /\ rows' = [rows EXCEPT ![id].removed = TRUE]
  /\ IF rows[id].removed THEN Return(c)
     ELSE Proceed(c, [pc |-> "dropMemory", first |-> TRUE, opp |-> calls[c].opp, left |-> calls[c].left])
  /\ UNCHANGED <<memory, now, events, budget>>

(* remove_opportunity: the row unless it is removed already, then memory; the *)
(* analytics are told of the first removal.                                   *)
DropRow(c) ==
  LET id == calls[c].opp.id IN
  /\ calls[c].pc = "dropRow"
  /\ rows' = [rows EXCEPT ![id].removed = TRUE]
  /\ Proceed(c, [pc |-> "dropMemory", first |-> ~rows[id].removed, opp |-> calls[c].opp, left |-> calls[c].left])
  /\ UNCHANGED <<memory, now, events, budget>>

(* Mutant: the key stays, with no opportunity.                                *)
DropMemoryKeepsKey(c) ==
  LET opp == calls[c].opp
      key == opp.create.key IN
  /\ calls[c].pc = "dropMemory"
  /\ memory' = IF key \in DOMAIN memory
               THEN [memory EXCEPT ![key] = Selected(@, InMemory \ {opp})] ELSE memory
  /\ IF c = Loop THEN Goto(c, "check") ELSE Return(c)
  /\ UNCHANGED <<rows, now, events, budget>>

DropMemory(c) ==
  LET opp == calls[c].opp
      key == opp.create.key
      rest == Selected(At(key), InMemory \ {opp}) IN
  /\ calls[c].pc = "dropMemory"
  /\ memory' = IF rest = <<>> THEN Restrict(memory, DOMAIN memory \ {key})
               ELSE [memory EXCEPT ![key] = rest]
  /\ IF c = Loop THEN Goto(c, "check") ELSE Return(c)
  /\ UNCHANGED <<rows, now, events, budget>>

(* The loop's look at the key after it removed an opportunity.                *)
CheckKey(c) ==
  /\ calls[c].pc = "check"
  /\ IF At(calls[c].opp.create.key) = <<>> THEN Goto(c, "tellGone") ELSE Return(c)
  /\ UNCHANGED <<memory, rows, now, events, budget>>

TellGone(c) ==
  /\ calls[c].pc = "tellGone"
  /\ Send(Event("gone", calls[c].opp.create.key, 0))
  /\ Return(c)
  /\ UNCHANGED <<memory, rows, now, budget>>

(* remove_opportunities: all live rows of the key, then the key in memory.    *)
DeleteOpportunities(c, t, key) ==
  /\ Serving /\ calls[c] = NoCall /\ Spend("deletes")
  /\ GetProgram(t) = KindOf(key)
  /\ Proceed(c, [pc |-> "deleteRows", key |-> key, opp |-> None, left |-> {}])
  /\ UNCHANGED <<memory, rows, now, events>>

DeleteRows(c) ==
  /\ calls[c].pc = "deleteRows"
  /\ rows' = [id \in DOMAIN rows |-> IF rows[id].key = calls[c].key
                THEN [rows[id] EXCEPT !.removed = TRUE] ELSE rows[id]]
  /\ Goto(c, "deleteMemory")
  /\ UNCHANGED <<memory, now, events, budget>>

(* Mutant: clients are not told that the key is gone.                         *)
DeleteMemoryUntold(c) ==
  /\ calls[c].pc = "deleteMemory"
  /\ memory' = Restrict(memory, DOMAIN memory \ {calls[c].key})
  /\ Return(c)
  /\ UNCHANGED <<rows, now, events, budget>>

DeleteMemory(c) ==
  LET key == calls[c].key IN
  /\ calls[c].pc = "deleteMemory"
  /\ memory' = Restrict(memory, DOMAIN memory \ {key})
  /\ IF At(key) = <<>> THEN Return(c)
     ELSE Proceed(c, [NoCall EXCEPT !.pc = "tellGone", !.opp = Head(At(key))])
  /\ UNCHANGED <<rows, now, events, budget>>

(* A query fails: the call ends, the loop goes on with its snapshot.          *)
OppQueryFails(c) ==
  /\ calls[c].pc \in {"row", "dropRow", "deleteRows"} /\ Spend("faults")
  /\ Return(c)
  /\ UNCHANGED <<memory, rows, now, events>>

(* A client that goes away takes its request with it, where it waits for the  *)
(* database or the lock of memory; a quote runs in a task of its own.         *)
RequestDropped(c) ==
  /\ \/ calls[c].pc \in {"memory", "refresh"} /\ calls[c].opp.create.kind # "swap"
     \/ calls[c].pc = "deleteMemory"
  /\ Spend("drops")
  /\ Proceed(c, NoCall)
  /\ UNCHANGED <<memory, rows, now, events>>

(* A round of the loop looks at a copy of memory, in any order of the keys;   *)
(* what has grown stale when its turn comes is removed.                       *)
StartRound ==
  /\ proc = "up" /\ loops[Loop] = "running" /\ calls[Loop] = NoCall
  /\ InMemory # {}
  /\ Proceed(Loop, [NoCall EXCEPT !.pc = "visit", !.left = InMemory])
  /\ UNCHANGED <<memory, rows, now, events, budget>>

Stale(o) == now - o.refreshed > StaleAfter

Visit ==
  /\ calls[Loop].pc = "visit"
  /\ \/ \E o \in calls[Loop].left :
          LET left == calls[Loop].left \ {o} IN
          IF Stale(o) THEN Proceed(Loop, [pc |-> "dropRow", opp |-> o, left |-> left])
          ELSE Proceed(Loop, [calls[Loop] EXCEPT !.left = left])
     \/ calls[Loop].left = {} /\ Proceed(Loop, NoCall)
  /\ UNCHANGED <<memory, rows, now, events, budget>>

(* Bound: the clock moves only as long as something can still grow stale.     *)
Tick ==
  /\ \E o \in InMemory \cup calls[Loop].left : ~Stale(o)
  /\ now' = now + 1
  /\ UNCHANGED <<memory, rows, calls, events, raced, budget>>

OppStep ==
  \/ \E c \in Free(Restrict(calls, Calls), NoCall) :
       \/ \E create \in Creates : PostQuote(c, create)
                                  \/ \E t \in DOMAIN tokens : PostOpportunity(c, t, create)
       \/ \E key \in Keys, t \in DOMAIN tokens : DeleteOpportunities(c, t, key)
  \/ \E c \in Calls :
       \/ AddRow(c) \/ AddMemory(c) \/ RefreshInMemoryOpportunity(c) \/ TellNew(c)
       \/ EndQuote(c) \/ DeleteRows(c) \/ DeleteMemory(c) \/ RequestDropped(c)
  \/ \E c \in Tasks : DropRow(c) \/ DropMemory(c) \/ TellGone(c) \/ OppQueryFails(c)
  \/ CheckKey(Loop) \/ StartRound \/ Visit \/ Tick

(* The process is gone: memory, the calls and the channel are its own.  A     *)
(* start does not read the opportunities back.                                *)
OppStops ==
  /\ memory' = <<>>
  /\ calls' = [c \in Tasks |-> NoCall]
  /\ events' = <<>>
  /\ raced' = {}
  /\ UNCHANGED <<rows, now>>
=============================================================================
