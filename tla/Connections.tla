---------------------------- MODULE Connections ----------------------------
(* WebSocket connections: the server's Subscriber actor of each, the client    *)
(* SDK's task on the other side, and the network in between.  The Subscriber   *)
(* selects among the broadcast channel, its client's messages, the responses   *)
(* of requests it deferred, its ping interval and its exit check.              *)
EXTENDS Opportunities

CONSTANTS
  Conns, Ips,
  Chains,         \* the chains the server knows
  Asked,          \* the sets of chains a client asks for
  EventCapacity, ResponseCapacity, \* of the broadcast channels
  MaxActive,      \* MAX_ACTIVE_REQUESTS
  MaxPerIp        \* MAXIMUM_SUBSCRIBERS_PER_IP

(* A channel of no capacity cannot be made.                                   *)
ASSUME ConnectionsAssumption ==
  /\ EventCapacity \in Nat \ {0} /\ ResponseCapacity \in Nat \ {0}
  /\ MaxActive \in Nat /\ MaxPerIp \in Nat

VARIABLES
  slots,  \* subscriber_per_ip
  sub,    \* the Subscriber of each connection
  cli,    \* the client's task of each connection
  net,    \* what is on its way in both directions
  deferred, \* requests of Subscribers running in tasks of their own
  placed  \* bids the auction service has taken

connVars == <<slots, sub, cli, net, deferred, placed>>

NoSub == [state |-> "none"]
NoCli == [state |-> "none", count |-> 0, map |-> <<>>, callers |-> <<>>]
NoNet == [up |-> TRUE, toServer |-> <<>>, toClient |-> <<>>]

IsOpen(c) == sub[c].state \in {"open", "acquiring"}

ConnTypeOK ==
  /\ \A ip \in Ips : slots[ip] \subseteq Conns /\ Cardinality(slots[ip]) <= MaxPerIp
  /\ \A c \in Conns : sub[c].state \in {"none", "upgrading", "open", "acquiring", "closed"}
  /\ \A c \in Conns : IsOpen(c) =>
       /\ sub[c].chains \subseteq Chains /\ sub[c].pos <= Len(events)
       /\ Len(sub[c].responses) <= ResponseCapacity
       /\ Cardinality({task \in deferred : task.conn = c}) <= MaxActive

ConnInit ==
  /\ slots = [ip \in Ips |-> {}]
  /\ sub = [c \in Conns |-> NoSub]
  /\ cli = [c \in Conns |-> NoCli]
  /\ net = [c \in Conns |-> NoNet]
  /\ deferred = {}
  /\ placed = {}

(* ws_route_handler: a slot of the client's address, then the upgrade.        *)
GetNewSubscriberId(c, ip, t) ==
  /\ Serving /\ sub[c] = NoSub /\ Spend("connects")
  /\ Accepted(t)
  /\ Cardinality(slots[ip]) < MaxPerIp
  /\ slots' = [slots EXCEPT ![ip] = @ \cup {c}]
  /\ sub' = [sub EXCEPT ![c] = [state |-> "upgrading", ip |-> ip, token |-> t]]
  /\ UNCHANGED <<cli, net, deferred, placed>>

(* The upgrade fails: the handler that gives the slot back never runs.        *)
UpgradeFails(c) ==
  /\ sub[c].state = "upgrading" /\ Spend("drops")
  /\ sub' = [sub EXCEPT ![c] = [state |-> "closed"]]
  /\ UNCHANGED <<slots, cli, net, deferred, placed>>

(* websocket_handler: the receiver starts at the end of the channel.  History: *)
(* since and told are the positions from which the client is owed the updates *)
(* of a chain and of a bid, got are the updates it was sent.                  *)
Open(c) ==
  /\ sub[c].state = "upgrading"
  /\ sub' = [sub EXCEPT ![c] =
       [state |-> "open", ip |-> sub[c].ip, token |-> sub[c].token, pos |-> Len(events),
        chains |-> {}, bids |-> {}, responded |-> TRUE, responses |-> <<>>,
        acquiring |-> <<>>, since |-> <<>>, told |-> <<>>, got |-> <<>>]]
  /\ cli' = [cli EXCEPT ![c].state = "up"]
  /\ UNCHANGED <<slots, net, deferred, placed, budget>>

---------------------------------------------------------------------------
(* The network keeps the order; once it is lost nothing arrives, silently.    *)
ToClient(c, message) ==
  net' = [net EXCEPT ![c].toClient = IF net[c].up THEN Append(@, message) ELSE @]
ToServer(c, message) ==
  net' = [net EXCEPT ![c].toServer = IF net[c].up THEN Append(@, message) ELSE @]

NetworkLost(c) ==
  /\ net[c].up /\ IsOpen(c) /\ Spend("losses")
  /\ net' = [net EXCEPT ![c] = [up |-> FALSE, toServer |-> <<>>, toClient |-> <<>>]]
  /\ UNCHANGED <<slots, sub, cli, deferred, placed>>

---------------------------------------------------------------------------
(* The Subscriber ends: its address gets its slot back and the client sees    *)
(* the connection close.  Requests it deferred go on, without a receiver.     *)
CloseSubscriber(c) ==
  /\ sub' = [sub EXCEPT ![c] = [state |-> "closed"]]
  /\ slots' = [slots EXCEPT ![sub[c].ip] = @ \ {c}]
  /\ ToClient(c, [type |-> "close"])

Selecting(c) == proc = "up" /\ sub[c].state = "open"

Relevant(c, event) == IF event.kind = "bid" THEN event.id \in sub[c].bids
                      ELSE event.chain \in sub[c].chains

(* The arm of the broadcast channel: what the client did not ask for is       *)
(* skipped.                                                                   *)
HandleUpdate(c) ==
  LET next == sub[c].pos + 1 IN
  /\ Selecting(c) /\ next <= Len(events) /\ Len(events) - sub[c].pos <= EventCapacity
  /\ sub' = [sub EXCEPT ![c].pos = next,
       ![c].got = IF Relevant(c, events[next]) THEN Append(@, next) ELSE @]
  /\ IF Relevant(c, events[next]) THEN ToClient(c, [type |-> "update", event |-> next])
     ELSE UNCHANGED net
  /\ UNCHANGED <<slots, cli, deferred, placed, budget>>

(* Mutant: the Subscriber goes on with the oldest update it can still read.   *)
SkipsAhead(c) ==
  /\ Selecting(c) /\ Len(events) - sub[c].pos > EventCapacity
  /\ sub' = [sub EXCEPT ![c].pos = Len(events) - EventCapacity]
  /\ UNCHANGED <<slots, net, cli, deferred, placed, budget>>

(* The channel has overwritten what the Subscriber had not read.              *)
Lags(c) ==
  /\ Selecting(c) /\ Len(events) - sub[c].pos > EventCapacity
  /\ CloseSubscriber(c)
  /\ UNCHANGED <<cli, deferred, placed, budget>>

(* send_response: the channel drops the oldest response when it is full, and  *)
(* the Subscriber only warns.                                                 *)
Pushed(responses, response) ==
  Append(IF Len(responses) = ResponseCapacity THEN Tail(responses) ELSE responses, response)
Response(request, result) ==
  [type |-> "response", id |-> request.id, to |-> request.n, result |-> result]

(* One chain that the server does not know refuses the whole request.         *)
Subscribe(c, request) ==
  LET ok == request.chains \subseteq Chains IN
  sub' = [sub EXCEPT
    ![c].chains = IF ok THEN @ \cup request.chains ELSE @,
    ![c].since = IF ok THEN Merge(@, [ch \in request.chains |-> sub[c].pos]) ELSE @,
    ![c].responses = Pushed(@, Response(request, IF ok THEN "ok" ELSE "error"))]

Unsubscribe(c, request) ==
  sub' = [sub EXCEPT
    ![c].chains = @ \ request.chains,
    ![c].since = Restrict(@, DOMAIN @ \ request.chains),
    ![c].responses = Pushed(@, Response(request, "ok"))]

(* handle_client_message.  A bid or a cancellation waits for a permit, and    *)
(* the Subscriber with it.                                                    *)
HandleClientMessage(c) ==
  LET message == Head(net[c].toServer)
      read == net' = [net EXCEPT ![c].toServer = Tail(@)] /\ UNCHANGED slots IN
  /\ Selecting(c) /\ net[c].toServer # <<>>
  /\ \/ message.type = "subscribe" /\ Subscribe(c, message) /\ read
     \/ message.type = "unsubscribe" /\ Unsubscribe(c, message) /\ read
     \/ /\ message.type \in {"post_bid", "cancel_bid"} /\ read
        /\ sub' = [sub EXCEPT ![c].state = "acquiring", ![c].acquiring = <<message>>]
     \/ message.type = "pong" /\ sub' = [sub EXCEPT ![c].responded = TRUE] /\ read
     \/ message.type = "close" /\ CloseSubscriber(c)
  /\ UNCHANGED <<cli, deferred, placed, budget>>

(* spawn_deferred: with a permit the request runs in a tracked task.          *)
SpawnDeferred(c) ==
  /\ proc = "up" /\ sub[c].state = "acquiring"
  /\ Cardinality({task \in deferred : task.conn = c}) < MaxActive
  /\ deferred' = deferred \cup
       {[conn |-> c, token |-> sub[c].token, request |-> Head(sub[c].acquiring), result |-> "none"]}
  /\ sub' = [sub EXCEPT ![c].state = "open", ![c].acquiring = <<>>]
  /\ UNCHANGED <<slots, cli, net, placed, budget>>

BidOf(task) == <<task.conn, task.request.n>>

(* process_bid and cancel_bid: anybody may bid, only a profile with the       *)
(* privilege may cancel; the auction service can refuse either.               *)
MayCancel(t) == t # NoToken /\ HasPrivilege(tokenRows[t].owner)

RunDeferred(task) ==
  /\ proc = "up" /\ task \in deferred /\ task.result = "none"
  /\ \E result \in IF task.request.type = "cancel_bid" /\ ~MayCancel(task.token)
                   THEN {"error"} ELSE {"ok", "error"} :
       /\ deferred' = (deferred \ {task}) \cup {[task EXCEPT !.result = result]}
       /\ placed' = IF task.request.type = "post_bid" /\ result = "ok"
                    THEN placed \cup {BidOf(task)} ELSE placed
  /\ UNCHANGED <<slots, sub, cli, net, budget>>

(* Mutant: the task waits for a Subscriber that takes its response.           *)
RespondWhenOpen(task) ==
  /\ proc = "up" /\ task \in deferred /\ task.result # "none" /\ IsOpen(task.conn)
  /\ sub' = [sub EXCEPT ![task.conn].responses = Pushed(@, Response(task.request, task.result))]
  /\ deferred' = deferred \ {task}
  /\ UNCHANGED <<slots, cli, net, placed, budget>>

(* The task queues its response for the Subscriber and returns the permit.    *)
RespondDeferred(task) ==
  /\ proc = "up" /\ task \in deferred /\ task.result # "none"
  /\ sub' = IF IsOpen(task.conn)
            THEN [sub EXCEPT ![task.conn].responses = Pushed(@, Response(task.request, task.result))]
            ELSE sub
  /\ deferred' = deferred \ {task}
  /\ UNCHANGED <<slots, cli, net, placed, budget>>

(* The arm of the responses: from here on the client gets the updates of the  *)
(* bid it is answered about.                                                  *)
HandleResponse(c) ==
  LET response == Head(sub[c].responses)
      bids == {<<c, response.to>>} \cap placed IN
  /\ Selecting(c) /\ sub[c].responses # <<>>
  /\ sub' = [sub EXCEPT ![c].responses = Tail(@), ![c].bids = @ \cup bids,
                        ![c].told = Merge(@, [bid \in bids |-> sub[c].pos])]
  /\ ToClient(c, response)
  /\ UNCHANGED <<slots, cli, deferred, placed, budget>>

(* Mutant: a ping that was not answered is forgotten.                         *)
PingUnanswered(c) ==
  /\ Selecting(c)
  /\ IF net[c].up THEN Spend("pings") ELSE UNCHANGED budget
  /\ IF Accepted(sub[c].token)
     THEN /\ sub' = [sub EXCEPT ![c].responded = FALSE]
          /\ ToClient(c, [type |-> "ping"])
          /\ UNCHANGED slots
     ELSE CloseSubscriber(c)
  /\ UNCHANGED <<cli, deferred, placed>>

(* The arm of the ping interval.  Bound: pings of a connection that works.    *)
PingTick(c) ==
  /\ Selecting(c)
  /\ IF net[c].up THEN Spend("pings") ELSE UNCHANGED budget
  /\ IF Accepted(sub[c].token) /\ sub[c].responded
     THEN /\ sub' = [sub EXCEPT ![c].responded = FALSE]
          /\ ToClient(c, [type |-> "ping"])
          /\ UNCHANGED slots
     ELSE CloseSubscriber(c)
  /\ UNCHANGED <<cli, deferred, placed>>

(* The arm of the exit check.                                                 *)
ExitTick(c) ==
  /\ Selecting(c) /\ exit
  /\ CloseSubscriber(c)
  /\ UNCHANGED <<cli, deferred, placed, budget>>

(* Updates from the auction services: of bids, and of a chain's blockhash.    *)
BroadcastUpdate ==
  /\ proc = "up" /\ Spend("updates")
  /\ \/ \E bid \in placed : Send([kind |-> "bid", id |-> bid])
     \/ \E ch \in Chains : Send([kind |-> "chain", chain |-> ch])
  /\ UNCHANGED connVars

---------------------------------------------------------------------------
(* WsClient::send: the next id, and the request is on its way.  The task ends *)
(* the caller's wait when the stream refuses the message.                     *)
Waiting == [state |-> "waiting"]
TimedOut == [state |-> "timeout"]
Failed == [state |-> "failed"]
Answered(n) == [state |-> "answered", with |-> n]

(* Mutant: an id is used again when its request timed out.                    *)
WaitingRequests(c) == Cardinality({n \in DOMAIN cli[c].callers : cli[c].callers[n] = Waiting}) + 1

FetchAddRequestId(c) == cli[c].count + 1

Request(c, body) ==
  LET n == Cardinality(DOMAIN cli[c].callers) + 1
      id == FetchAddRequestId(c) IN
  /\ cli[c].state = "up" /\ Spend("requests")
  /\ \/ /\ cli' = [cli EXCEPT ![c].count = id, ![c].map = Put(@, id, n),
                              ![c].callers = Put(@, n, Waiting)]
        /\ ToServer(c, Merge(body, [id |-> id, n |-> n]))
     \/ /\ ~net[c].up
        /\ cli' = [cli EXCEPT ![c].count = id, ![c].callers = Put(@, n, Failed)]
        /\ UNCHANGED net
  /\ UNCHANGED <<slots, sub, deferred, placed>>

(* Five seconds: the caller gives up and its entry stays in requests_map.     *)
CallerTimesOut(c, n) ==
  /\ cli[c].state = "up" /\ cli[c].callers[n] = Waiting /\ Spend("timeouts")
  /\ cli' = [cli EXCEPT ![c].callers[n] = TimedOut]
  /\ UNCHANGED <<slots, sub, net, deferred, placed>>

(* The run loop ends: requests_map is dropped and its callers are told so.    *)
RunEnds(c) ==
  cli' = [cli EXCEPT ![c].state = "ended", ![c].map = <<>>,
            ![c].callers = [n \in DOMAIN @ |-> IF @[n] = Waiting THEN Failed ELSE @[n]]]

ReceiveResponse(c, response) ==
  IF response.id \notin DOMAIN cli[c].map THEN UNCHANGED cli
  ELSE LET n == cli[c].map[response.id] IN
       cli' = [cli EXCEPT ![c].map = Restrict(@, DOMAIN @ \ {response.id}),
                 ![c].callers[n] = IF @ = Waiting THEN Answered(response.to) ELSE @]

ClientReceives(c) ==
  LET message == Head(net[c].toClient)
      rest == [net EXCEPT ![c].toClient = Tail(@)] IN
  /\ cli[c].state = "up" /\ net[c].toClient # <<>>
  /\ \/ message.type = "response" /\ ReceiveResponse(c, message) /\ net' = rest
     \/ message.type = "update" /\ UNCHANGED cli /\ net' = rest
     \/ /\ message.type = "ping" /\ UNCHANGED cli
        /\ net' = [rest EXCEPT ![c].toServer = Append(@, [type |-> "pong"])]
     \/ message.type = "close" /\ RunEnds(c) /\ net' = rest
  /\ UNCHANGED <<slots, sub, deferred, placed, budget>>

(* No ping for 32 seconds, or the client is dropped: its socket closes.       *)
ClientGivesUp(c) ==
  /\ cli[c].state = "up"
  /\ IF net[c].up THEN Spend("drops") ELSE UNCHANGED budget
  /\ RunEnds(c) /\ ToServer(c, [type |-> "close"])
  /\ UNCHANGED <<slots, sub, deferred, placed>>

Bodies == [type : {"subscribe", "unsubscribe"}, chains : Asked]
            \cup [type : {"post_bid", "cancel_bid"}]

ConnStep ==
  \/ \E c \in Conns :
       \/ \E ip \in Ips, t \in Tokens \cup {NoToken} : c \in Free(sub, NoSub) /\ GetNewSubscriberId(c, ip, t)
       \/ UpgradeFails(c) \/ Open(c) \/ NetworkLost(c)
       \/ HandleUpdate(c) \/ Lags(c) \/ HandleClientMessage(c) \/ SpawnDeferred(c)
       \/ HandleResponse(c) \/ PingTick(c) \/ ExitTick(c)
       \/ \E body \in Bodies : Request(c, body)
       \/ \E n \in DOMAIN cli[c].callers : CallerTimesOut(c, n)
       \/ ClientReceives(c) \/ ClientGivesUp(c)
  \/ \E task \in deferred : RunDeferred(task) \/ RespondDeferred(task)

(* The process is gone: its sockets close, its tasks and tables with it.      *)
ConnStops ==
  /\ slots' = [ip \in Ips |-> {}]
  /\ sub' = [c \in Conns |-> IF sub[c] = NoSub THEN NoSub ELSE [state |-> "closed"]]
  /\ net' = [c \in Conns |-> IF cli[c].state = "up" /\ net[c].up /\ IsOpen(c)
       THEN [net[c] EXCEPT !.toClient = Append(@, [type |-> "close"])] ELSE net[c]]
  /\ deferred' = {}
  /\ UNCHANGED <<cli, placed>>
=============================================================================
