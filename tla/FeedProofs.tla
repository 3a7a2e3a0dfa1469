----------------------------- MODULE FeedProofs -----------------------------
(* What holds of the server whatever its instance: any number of profiles,     *)
(* tokens, opportunities, calls, connections, requests and rows, whatever      *)
(* fails, is dropped, times out or crashes.                                    *)
EXTENDS Feed, Induction, FiniteSetTheorems

(* The requests in flight.                                                    *)
Requests ==
  {NoAccess}
    \cup [pc : {"insert", "read"}, profile : Profiles]
    \cup [pc : {"cache"}, profile : Profiles, token : Tokens]
    \cup [pc : {"revokeRow", "drop"}, token : Tokens]
    \cup [pc : {"cachePrivilege"}, profile : Profiles, privilege : [state : States, created : Nat \ {0}]]

RequestTypes ==
  /\ access \in [Admins -> Requests]
  /\ DOMAIN tokenRows \subseteq Tokens /\ DOMAIN tokens \subseteq Tokens

---------------------------------------------------------------------------
(* A privilege in memory, or on its way there, is one of the table; the       *)
(* newest is in memory or on its way, unless its request was dropped.         *)
OfTable(p, privilege) ==
  /\ privilege.created \in 1..Len(privilegeRows[p])
  /\ privilege.state = privilegeRows[p][privilege.created]

Underway(p) ==
  \E a \in Admins :
    /\ access[a].pc = "cachePrivilege" /\ access[a].profile = p
    /\ access[a].privilege.created = Len(privilegeRows[p])

PrivilegesOfTable ==
  /\ privilegeRows \in [Profiles -> Seq(States)]
  /\ \A p \in DOMAIN privileges : p \in Profiles /\ OfTable(p, privileges[p])
  /\ \A a \in Admins :
       access[a].pc = "cachePrivilege" => OfTable(access[a].profile, access[a].privilege)

NewestKept ==
  \A p \in Profiles :
    p \notin unsettled /\ privilegeRows[p] # <<>> =>
      \/ p \in DOMAIN privileges /\ privileges[p].created = Len(privilegeRows[p])
      \/ Underway(p)

---------------------------------------------------------------------------
(* A revoked token that memory still accepts is about to be dropped from it,  *)
(* and no request is about to cache a revoked one; unless it is unsettled.    *)
IsRevoked(t) == t \in DOMAIN tokenRows /\ tokenRows[t].revoked

Dropping(t) == \E a \in Admins : access[a].pc = "drop" /\ access[a].token = t

RevokedLeave ==
  /\ \A a \in Admins : access[a].pc = "cache" /\ IsRevoked(access[a].token) => access[a].token \in unsettled
  /\ \A t \in DOMAIN tokens : IsRevoked(t) => t \in unsettled \/ Dropping(t)

AccessInv == RequestTypes /\ PrivilegesOfTable /\ NewestKept /\ RevokedLeave

---------------------------------------------------------------------------
(* The invariant holds initially.                                             *)
LEMMA InitAccess == Init => AccessInv
<1> SUFFICES ASSUME Init PROVE AccessInv
  OBVIOUS
<1> USE DEF Init, AccessInit
<1>1. RequestTypes
  BY InitialTokensAssumption DEF RequestTypes, Requests, LoadTokens
<1>2. PrivilegesOfTable
  BY DEF PrivilegesOfTable, NoAccess
<1>3. NewestKept
  BY DEF NewestKept
<1>4. RevokedLeave
  BY DEF RevokedLeave, IsRevoked, LoadTokens, NoAccess
<1> QED
  BY <1>1, <1>2, <1>3, <1>4 DEF AccessInv

(* A start of the server reads both tables.                                   *)
LEMMA StartAccess == ASSUME AccessInv, AccessStarts PROVE AccessInv'
<1> USE DEF AccessStarts
<1>1. RequestTypes'
  BY DEF AccessInv, RequestTypes, Requests, LoadTokens
<1>2. PrivilegesOfTable'
  BY DEF AccessInv, PrivilegesOfTable, OfTable, LoadPrivileges, NoAccess
<1>3. NewestKept'
  BY DEF AccessInv, PrivilegesOfTable, NewestKept, LoadPrivileges
<1>4. RevokedLeave'
  BY DEF RevokedLeave, IsRevoked, LoadTokens, NoAccess
<1> QED
  BY <1>1, <1>2, <1>3, <1>4 DEF AccessInv

---------------------------------------------------------------------------
(* A request that goes on keeps what is in the tables.                        *)
LEMMA OvertakenUnsettled ==
  ASSUME RequestTypes', NEW a \in Admins, NEW next, Continue(a, next),
         NEW b \in Admins, access'[b].pc = "cache",
         NEW c \in Admins, access'[c].pc \in {"revokeRow", "drop"}, access'[c].token = access'[b].token
  PROVE  access'[b].token \in unsettled'
<1>1. access'[b].token \in Tokens
  BY DEF RequestTypes, Requests, NoAccess
<1> QED
  BY <1>1 DEF Continue, Overtaken

(* Granting a token.                                                          *)
LEMMA GrantsKeep ==
  ASSUME AccessInv, NEW a \in Admins,
         (\E p \in Profiles : Grant(a, p)) \/ InsertToken(a) \/ ReadToken(a) \/ CacheToken(a)
  PROVE  AccessInv'
<1> USE DEF AccessInv, RequestTypes
<1>1. CASE \E p \in Profiles : Grant(a, p)
  <2> PICK p \in Profiles : Grant(a, p)
    BY <1>1
  <2> USE DEF Grant, Continue
  <2>1. RequestTypes'
    BY DEF Requests
  <2>2. PrivilegesOfTable'
    BY DEF PrivilegesOfTable, OfTable
  <2>3. NewestKept'
    BY DEF NewestKept, Underway, NoAccess
  <2>4. RevokedLeave'
    BY DEF RevokedLeave, IsRevoked, Dropping, NoAccess
  <2> QED
    BY <2>1, <2>2, <2>3, <2>4
<1>2. CASE InsertToken(a)
  <2> USE <1>2 DEF InsertToken, Continue
  <2> DEFINE t == CHOOSE new \in Tokens : new \notin DOMAIN tokenRows
  <2>0. /\ t \in Tokens /\ t \notin DOMAIN tokenRows
        /\ tokenRows' = Put(tokenRows, t, [owner |-> access[a].profile, revoked |-> FALSE])
        /\ access[a] \in [pc : {"insert", "read"}, profile : Profiles]
    BY DEF Requests, NoAccess
  <2> HIDE DEF t
  <2>1. RequestTypes'
    BY <2>0 DEF Requests, Put
  <2>2. PrivilegesOfTable'
    BY <2>0 DEF PrivilegesOfTable, OfTable
  <2>3. NewestKept'
    BY <2>0 DEF NewestKept, Underway
  <2>4. \A u : IsRevoked(u)' => IsRevoked(u)
    BY <2>0 DEF IsRevoked, Put
  <2>5. RevokedLeave'
    BY <2>0, <2>4 DEF RevokedLeave, Dropping
  <2> QED
    BY <2>1, <2>2, <2>3, <2>5
<1>3. CASE ReadToken(a)
  <2> USE <1>3 DEF ReadToken, Continue
  <2>0. /\ access[a] \in [pc : {"insert", "read"}, profile : Profiles]
        /\ \/ access' = [access EXCEPT ![a] = NoAccess]
           \/ \E t \in Tokens :
                /\ ~IsRevoked(t)
                /\ access' = [access EXCEPT ![a] = [pc |-> "cache", profile |-> access[a].profile, token |-> t]]
    BY DEF Requests, NoAccess, Active, IsRevoked
  <2>1. RequestTypes'
    BY <2>0 DEF Requests
  <2>2. PrivilegesOfTable'
    BY <2>0, SMTT(20) DEF PrivilegesOfTable, OfTable, NoAccess
  <2>3. NewestKept'
    BY <2>0 DEF NewestKept, Underway, NoAccess
  <2>4. RevokedLeave'
    BY <2>0 DEF RevokedLeave, IsRevoked, Dropping, NoAccess
  <2> QED
    BY <2>1, <2>2, <2>3, <2>4
<1>4. CASE CacheToken(a)
  <2> USE <1>4 DEF CacheToken, Continue
  <2>0. /\ access[a] \in [pc : {"cache"}, profile : Profiles, token : Tokens]
        /\ DOMAIN tokens' = DOMAIN tokens \cup {access[a].token}
    BY DEF Requests, NoAccess, Put
  <2>1. RequestTypes'
    BY <2>0 DEF Requests
  <2>2. PrivilegesOfTable'
    BY <2>0 DEF PrivilegesOfTable, OfTable, NoAccess
  <2>3. NewestKept'
    BY <2>0 DEF NewestKept, Underway, NoAccess
  <2>4. RevokedLeave'
    BY <2>0 DEF RevokedLeave, IsRevoked, Dropping, NoAccess
  <2> QED
    BY <2>1, <2>2, <2>3, <2>4
<1> QED
  BY <1>1, <1>2, <1>3, <1>4

(* Revoking a token.                                                          *)
LEMMA RevocationsKeep ==
  ASSUME AccessInv, NEW a \in Admins,
         (\E t \in DOMAIN tokens : Revoke(a, t)) \/ RevokeRow(a) \/ DropToken(a)
  PROVE  AccessInv'
<1> USE DEF AccessInv, RequestTypes
<1>1. CASE \E t \in DOMAIN tokens : Revoke(a, t)
  <2> PICK t \in DOMAIN tokens : Revoke(a, t)
    BY <1>1
  <2> USE DEF Revoke, Continue
  <2>1. RequestTypes'
    BY DEF Requests
  <2>2. PrivilegesOfTable'
    BY DEF PrivilegesOfTable, OfTable
  <2>3. NewestKept'
    BY DEF NewestKept, Underway, NoAccess
  <2>4. RevokedLeave'
    BY DEF RevokedLeave, IsRevoked, Dropping, NoAccess
  <2> QED
    BY <2>1, <2>2, <2>3, <2>4
<1>2. CASE RevokeRow(a)
  <2>0. /\ access[a] \in [pc : {"revokeRow", "drop"}, token : Tokens]
        /\ Continue(a, [access[a] EXCEPT !.pc = "drop"])
        /\ access' = [access EXCEPT ![a] = [access[a] EXCEPT !.pc = "drop"]]
        /\ tokenRows' = [tokenRows EXCEPT ![access[a].token].revoked = TRUE]
        /\ UNCHANGED <<profileRows, tokens, privilegeRows, privileges>>
        /\ unsettled \subseteq unsettled' /\ access[a].pc = "revokeRow"
    BY <1>2 DEF RevokeRow, Continue, Requests, NoAccess
  <2>1. RequestTypes'
    BY <2>0 DEF Requests
  <2>2. PrivilegesOfTable'
    BY <2>0 DEF PrivilegesOfTable, OfTable
  <2>3. NewestKept'
    BY <2>0 DEF NewestKept, Underway
  <2>4. \A u : IsRevoked(u)' => IsRevoked(u) \/ u = access[a].token
    BY <2>0 DEF IsRevoked
  <2>5. access'[a].pc = "drop" /\ access'[a].token = access[a].token
    BY <2>0
  <2>6. ASSUME NEW b \in Admins, access'[b].pc = "cache", (IsRevoked(access[b].token))'
        PROVE  access'[b].token \in unsettled'
    <3>1. access'[b] = access[b]
      BY <2>0, <2>5, <2>6
    <3>2. CASE access[b].token = access[a].token
      BY <2>0, <2>1, <2>5, <2>6, <3>1, <3>2, OvertakenUnsettled
    <3>3. CASE IsRevoked(access[b].token)
      BY <2>0, <2>6, <3>1, <3>3 DEF RevokedLeave
    <3> QED
      BY <2>4, <2>6, <3>1, <3>2, <3>3
  <2>7. ASSUME NEW t \in DOMAIN tokens', IsRevoked(t)'
        PROVE  t \in unsettled' \/ Dropping(t)'
    <3>1. CASE t = access[a].token
      BY <2>5, <3>1 DEF Dropping
    <3>2. CASE IsRevoked(t)
      BY <2>0, <2>7, <3>2 DEF RevokedLeave, Dropping
    <3> QED
      BY <2>4, <2>7, <3>1, <3>2
  <2>8. RevokedLeave'
    BY <2>6, <2>7 DEF RevokedLeave
  <2> QED
    BY <2>1, <2>2, <2>3, <2>8
<1>3. CASE DropToken(a)
  <2> USE <1>3 DEF DropToken, Continue
  <2>0. /\ access[a] \in [pc : {"revokeRow", "drop"}, token : Tokens]
        /\ DOMAIN tokens' = DOMAIN tokens \ {access[a].token}
    BY DEF Requests, NoAccess, Restrict
  <2>1. RequestTypes'
    BY <2>0 DEF Requests
  <2>2. PrivilegesOfTable'
    BY <2>0 DEF PrivilegesOfTable, OfTable, NoAccess
  <2>3. NewestKept'
    BY <2>0 DEF NewestKept, Underway, NoAccess
  <2>4. RevokedLeave'
    BY <2>0 DEF RevokedLeave, IsRevoked, Dropping, NoAccess
  <2> QED
    BY <2>1, <2>2, <2>3, <2>4
<1> QED
  BY <1>1, <1>2, <1>3

(* Privileges, and requests that fail or are dropped.                         *)
LEMMA PrivilegesKeep ==
  ASSUME AccessInv, NEW a \in Admins,
         \/ \E p \in Profiles, s \in States : CreatePrivilege(a, p, s)
         \/ UpdateInMemoryPrivilege(a) \/ AccessRequestDropped(a)
  PROVE  AccessInv'
<1> USE DEF AccessInv, RequestTypes
<1>1. CASE \E p \in Profiles, s \in States : CreatePrivilege(a, p, s)
  <2> PICK p \in Profiles, s \in States : CreatePrivilege(a, p, s)
    BY <1>1
  <2> USE DEF CreatePrivilege, Continue
  <2>0. /\ privilegeRows \in [Profiles -> Seq(States)]
        /\ privilegeRows'[p] = Append(privilegeRows[p], s)
        /\ \A q \in Profiles \ {p} : privilegeRows'[q] = privilegeRows[q]
        /\ Len(privilegeRows'[p]) = Len(privilegeRows[p]) + 1
        /\ access'[a] = [pc |-> "cachePrivilege", profile |-> p,
                         privilege |-> [state |-> s, created |-> Len(privilegeRows[p]) + 1]]
        /\ \A b \in Admins \ {a} : access'[b] = access[b]
        /\ Len(privilegeRows[p]) \in Nat
    BY DEF PrivilegesOfTable
  <2>1. RequestTypes'
    BY <2>0 DEF Requests
  <2>2. \A q \in Profiles : \A x : OfTable(q, x) => OfTable(q, x)'
    BY <2>0 DEF OfTable
  <2>3. (OfTable(access[a].profile, access[a].privilege))'
    BY <2>0 DEF OfTable
  <2>4. PrivilegesOfTable'
    <3>1. privilegeRows' \in [Profiles -> Seq(States)]
      BY <2>0
    <3>2. (\A q \in DOMAIN privileges : q \in Profiles /\ OfTable(q, privileges[q]))'
      BY <2>2 DEF PrivilegesOfTable
    <3>3. ASSUME NEW b \in Admins, access'[b].pc = "cachePrivilege"
          PROVE  (OfTable(access[b].profile, access[b].privilege))'
      <4>1. CASE b = a
        BY <2>3, <4>1
      <4>2. CASE b # a
        <5>1. access[b].profile \in Profiles
          BY <2>0, <3>3, <4>2 DEF Requests, NoAccess
        <5> QED
          BY <2>0, <2>2, <3>3, <4>2, <5>1 DEF PrivilegesOfTable
      <4> QED
        BY <4>1, <4>2
    <3> QED
      BY <3>1, <3>2, <3>3 DEF PrivilegesOfTable
  <2>5. Underway(p)'
    BY <2>0 DEF Underway
  <2>6. \A q \in Profiles \ {p} : Underway(q) => Underway(q)'
    BY <2>0 DEF Underway, NoAccess
  <2>7. NewestKept'
    BY <2>0, <2>5, <2>6 DEF NewestKept
  <2>8. RevokedLeave'
    BY <2>0 DEF RevokedLeave, IsRevoked, Dropping, NoAccess
  <2> QED
    BY <2>1, <2>4, <2>7, <2>8
<1>2. CASE UpdateInMemoryPrivilege(a)
  <2> USE <1>2 DEF UpdateInMemoryPrivilege, Continue
  <2> DEFINE p == access[a].profile
  <2>0. /\ access[a] \in [pc : {"cachePrivilege"}, profile : Profiles,
                           privilege : [state : States, created : Nat \ {0}]]
        /\ OfTable(p, access[a].privilege)
    BY DEF Requests, NoAccess, PrivilegesOfTable
  <2>1. \/ /\ DOMAIN privileges' = DOMAIN privileges \cup {p}
           /\ privileges'[p] = access[a].privilege
           /\ \A q \in DOMAIN privileges \ {p} : privileges'[q] = privileges[q]
        \/ /\ p \in DOMAIN privileges /\ ~(privileges[p].created < access[a].privilege.created)
           /\ privileges' = privileges
    BY DEF Newer, Put
  <2>2. RequestTypes'
    BY <2>0 DEF Requests
  <2>3. PrivilegesOfTable'
    BY <2>0, <2>1 DEF PrivilegesOfTable, OfTable, NoAccess
  <2>4. ASSUME NEW q \in Profiles, q \notin unsettled', privilegeRows'[q] # <<>>
        PROVE  (q \in DOMAIN privileges' /\ privileges'[q].created = Len(privilegeRows'[q])) \/ Underway(q)'
    <3>1. \/ q \in DOMAIN privileges /\ privileges[q].created = Len(privilegeRows[q])
          \/ Underway(q)
      BY <2>4 DEF NewestKept
    <3>2. Len(privilegeRows[q]) \in Nat
      BY DEF PrivilegesOfTable
    <3>3. CASE q # p
      BY <2>1, <3>1, <3>3 DEF Underway
    <3>4. CASE q = p
      <4>1. CASE Underway(q) /\ access[a].privilege.created # Len(privilegeRows[q])
        BY <3>4, <4>1 DEF Underway
      <4>2. CASE access[a].privilege.created = Len(privilegeRows[q])
        BY <2>0, <2>1, <3>2, <3>4, <4>2, SMTT(20) DEF PrivilegesOfTable, OfTable
      <4>3. CASE /\ q \in DOMAIN privileges /\ privileges[q].created = Len(privilegeRows[q])
                 /\ access[a].privilege.created # Len(privilegeRows[q])
        <5>1. access[a].privilege.created \in 1..Len(privilegeRows[q])
          BY <2>0, <3>4 DEF OfTable
        <5>2. ~Newer(p, access[a].privilege)
          BY <3>2, <3>4, <4>3, <5>1 DEF Newer
        <5>3. privileges' = privileges /\ privilegeRows' = privilegeRows
          BY <5>2
        <5> QED
          BY <4>3, <5>3
      <4> QED
        BY <3>1, <4>1, <4>2, <4>3
    <3> QED
      BY <3>3, <3>4
  <2>5. NewestKept'
    BY <2>4 DEF NewestKept
  <2>6. RevokedLeave'
    BY <2>0 DEF RevokedLeave, IsRevoked, Dropping, NoAccess
  <2> QED
    BY <2>2, <2>3, <2>5, <2>6
<1>3. CASE AccessRequestDropped(a)
  <2> USE <1>3 DEF AccessRequestDropped
  <2>1. RequestTypes'
    BY DEF Requests
  <2>2. PrivilegesOfTable'
    BY DEF PrivilegesOfTable, OfTable, NoAccess
  <2>3. NewestKept'
    BY DEF NewestKept, Underway
  <2>4. RevokedLeave'
    BY DEF RevokedLeave, IsRevoked, Dropping, NoAccess
  <2> QED
    BY <2>1, <2>2, <2>3, <2>4
<1> QED
  BY <1>1, <1>2, <1>3

(* Every step of the server keeps the invariant.                              *)
LEMMA UnchangedKeeps == ASSUME AccessInv, UNCHANGED accessVars PROVE AccessInv'
  BY DEF AccessInv, accessVars, RequestTypes, PrivilegesOfTable, OfTable, NewestKept, Underway,
         RevokedLeave, IsRevoked, Dropping

LEMMA NextAccess == AccessInv /\ [Next]_vars => AccessInv'
<1> SUFFICES ASSUME AccessInv, [Next]_vars PROVE AccessInv'
  OBVIOUS
<1>1. CASE StartsAgain
  BY <1>1, StartAccess DEF StartsAgain
<1>2. CASE OfAccess(AccessStep)
  <2>1. CASE \E p \in Profiles : CreateProfile(p)
    BY <2>1, UnchangedKeeps, SMTT(20) DEF CreateProfile, AccessInv, RequestTypes, PrivilegesOfTable, OfTable,
       NewestKept, Underway, RevokedLeave, IsRevoked, Dropping
  <2>2. CASE ~(\E p \in Profiles : CreateProfile(p))
    <3>1. PICK a \in Admins :
            \/ \E p \in Profiles : Grant(a, p) \/ \E s \in States : CreatePrivilege(a, p, s)
            \/ \E t \in DOMAIN tokens : Revoke(a, t)
            \/ InsertToken(a) \/ ReadToken(a) \/ CacheToken(a) \/ RevokeRow(a) \/ DropToken(a)
            \/ UpdateInMemoryPrivilege(a) \/ AccessRequestDropped(a)
      BY <1>2, <2>2 DEF OfAccess, AccessStep, Free, AccessInv, RequestTypes
    <3> QED
      BY <3>1, GrantsKeep, RevocationsKeep, PrivilegesKeep
  <2> QED
    BY <2>1, <2>2
<1>3. CASE UNCHANGED accessVars
  BY <1>3, UnchangedKeeps
<1>4. \/ StartsAgain \/ OfAccess(AccessStep) \/ UNCHANGED accessVars
  BY DEF Next, vars, OfServer, VerificationPanics, Completes, Crash, Down, OfOpp, OfConn, OfHistory,
         OfTables, OfSimulator
<1> QED
  BY <1>1, <1>2, <1>3, <1>4

LEMMA SpecAccess == Spec => []AccessInv
<1> QED
  BY InitAccess, NextAccess, PTL DEF Spec

---------------------------------------------------------------------------
(* Memory has the newest privilege of the table, in whatever order requests   *)
(* reach it, whichever of them fails, and after any number of restarts        *)
(* (create_privilege and update_in_memory_privilege in state.rs).             *)
THEOREM MemoryHasLatestPrivilege == Spec => []PrivilegeLatest
<1>1. ASSUME AccessInv PROVE PrivilegeLatest
  <2> USE <1>1
  <2>1. SUFFICES ASSUME NEW p \in Profiles, \A a \in Admins : access[a].pc # "cachePrivilege",
                        p \notin unsettled
                 PROVE  (p \in DOMAIN privileges => privileges[p].state = "enabled")
                          <=> (privilegeRows[p] # <<>> => Last(privilegeRows[p]) = "enabled")
    BY DEF PrivilegeLatest, HasPrivilege
  <2>2. ~Underway(p)
    BY <2>1 DEF Underway
  <2>3. CASE privilegeRows[p] = <<>>
    <3>1. p \notin DOMAIN privileges
      BY <1>1, <2>3 DEF AccessInv, PrivilegesOfTable, OfTable
    <3> QED
      BY <2>3, <3>1
  <2>4. CASE privilegeRows[p] # <<>>
    <3>1. p \in DOMAIN privileges /\ privileges[p].created = Len(privilegeRows[p])
      BY <1>1, <2>1, <2>2, <2>4 DEF AccessInv, NewestKept
    <3>2. privileges[p].state = privilegeRows[p][Len(privilegeRows[p])]
      BY <1>1, <3>1 DEF AccessInv, PrivilegesOfTable, OfTable
    <3> QED
      BY <2>4, <3>1, <3>2 DEF Last
  <2> QED
    BY <2>3, <2>4
<1> QED
  BY <1>1, SpecAccess, PTL

(* A revoked token is refused once its revocation has answered, also after a  *)
(* restart, except where its revocation was dropped half way or a request was *)
(* caching it at that moment (get_or_create_access_token and                  *)
(* revoke_access_token in state.rs).                                          *)
THEOREM RevokedAreRefused == Spec => []RevokedRefused
<1>1. AccessInv => RevokedRefused
  BY DEF AccessInv, RevokedLeave, IsRevoked, Dropping, RevokedRefused
<1> QED
  BY <1>1, SpecAccess, PTL
---------------------------------------------------------------------------
(* What is on its way on a connection: a request, and the answer to it, carry  *)
(* the number of the caller that sent it.                                     *)
Posted == {m \in [type : {"post_bid", "cancel_bid"}, id : Nat, n : Nat] : m.id = m.n}
Subscriptions ==
  {m \in [type : {"subscribe", "unsubscribe"}, chains : Asked, id : Nat, n : Nat] : m.id = m.n}
Responses ==
  {m \in [type : {"response"}, id : Nat, to : Nat, result : {"ok", "error"}] : m.id = m.to}
FromClient == Posted \cup Subscriptions \cup [type : {"pong", "close"}]
FromServer == Responses \cup [type : {"ping", "close"}] \cup [type : {"update"}, event : Nat]
Networks == [up : BOOLEAN, toServer : Seq(FromClient), toClient : Seq(FromServer)]

(* The client's callers are numbered like its requests.                       *)
OwnClient(client) ==
  /\ DOMAIN client = {"state", "count", "map", "callers"}
  /\ client.count \in Nat
  /\ DOMAIN client.callers = 1..client.count
  /\ \A n \in 1..client.count : client.callers[n] \in {Waiting, TimedOut, Failed, Answered(n)}
  /\ \A id \in DOMAIN client.map : id \in 1..client.count /\ client.map[id] = id

SubscriberFields ==
  {"state", "ip", "token", "pos", "chains", "bids", "responded", "responses", "acquiring",
   "since", "told", "got"}

OwnSubscriber(s) ==
  /\ s.state \in {"none", "upgrading", "open", "acquiring", "closed"}
  /\ s.state \in {"open", "acquiring"} =>
       /\ DOMAIN s = SubscriberFields
       /\ s.pos \in Nat /\ s.got \in Seq(Nat)
       /\ s.responses \in Seq(Responses) /\ s.acquiring \in Seq(Posted)
       /\ s.state = "acquiring" => s.acquiring # <<>>

OwnDeferred(task) ==
  /\ DOMAIN task = {"conn", "token", "request", "result"}
  /\ task.conn \in Conns /\ task.request \in Posted /\ task.result \in {"none", "ok", "error"}

OwnInv ==
  /\ DOMAIN cli = Conns /\ \A c \in Conns : OwnClient(cli[c])
  /\ net \in [Conns -> Networks]
  /\ DOMAIN sub = Conns /\ \A c \in Conns : OwnSubscriber(sub[c])
  /\ \A task \in deferred : OwnDeferred(task)

(* A request is one of the messages of a client, with its caller's number.    *)
LEMMA RequestTagged ==
  ASSUME NEW body \in Bodies, NEW k \in Nat
  PROVE  Merge(body, [id |-> k, n |-> k]) \in FromClient
<1> DEFINE m == Merge(body, [id |-> k, n |-> k])
<1>1. CASE body \in [type : {"subscribe", "unsubscribe"}, chains : Asked]
  <2>1. /\ DOMAIN m = {"type", "chains", "id", "n"}
        /\ m.type = body.type /\ m.chains = body.chains /\ m.id = k /\ m.n = k
    BY <1>1 DEF Merge
  <2>2. m = [type |-> body.type, chains |-> body.chains, id |-> k, n |-> k]
    <3>1. m = [x \in DOMAIN m |-> m[x]]
      BY DEF Merge
    <3> HIDE DEF m
    <3> QED
      BY <2>1, <3>1
  <2> QED
    BY <1>1, <2>2 DEF FromClient, Subscriptions
<1>2. CASE body \in [type : {"post_bid", "cancel_bid"}]
  <2>1. /\ DOMAIN m = {"type", "id", "n"}
        /\ m.type = body.type /\ m.id = k /\ m.n = k
    BY <1>2 DEF Merge
  <2>2. m = [type |-> body.type, id |-> k, n |-> k]
    <3>1. m = [x \in DOMAIN m |-> m[x]]
      BY DEF Merge
    <3> HIDE DEF m
    <3> QED
      BY <2>1, <3>1
  <2> QED
    BY <1>2, <2>2 DEF FromClient, Posted
<1> QED
  BY <1>1, <1>2 DEF Bodies

LEMMA ResponseTagged ==
  ASSUME NEW request \in Posted \cup Subscriptions, NEW result \in {"ok", "error"}
  PROVE  Response(request, result) \in Responses
  BY DEF Posted, Subscriptions, Responses, Response

LEMMA PushedTyped ==
  ASSUME NEW responses \in Seq(Responses), NEW response \in Responses
  PROVE  Pushed(responses, response) \in Seq(Responses)
<1>1. CASE Len(responses) = ResponseCapacity
  <2>1. responses # <<>>
    BY <1>1, ConnectionsAssumption
  <2>2. Tail(responses) \in Seq(Responses)
    BY <2>1
  <2> QED
    BY <1>1, <2>2 DEF Pushed
<1>2. CASE Len(responses) # ResponseCapacity
  BY <1>2 DEF Pushed
<1> QED
  BY <1>1, <1>2
---------------------------------------------------------------------------
LEMMA InitOwn == Init => OwnInv
<1> SUFFICES ASSUME Init PROVE OwnInv
  OBVIOUS
<1> USE DEF Init, ConnInit
<1>1. DOMAIN cli = Conns /\ \A c \in Conns : OwnClient(cli[c])
  BY DEF OwnClient, NoCli
<1>2. net \in [Conns -> Networks]
  BY DEF NoNet, Networks
<1>3. DOMAIN sub = Conns /\ \A c \in Conns : OwnSubscriber(sub[c])
  BY DEF OwnSubscriber, NoSub
<1> QED
  BY <1>1, <1>2, <1>3 DEF OwnInv

(* The ends of the connections.                                               *)
LEMMA ClosedTyped == ASSUME NEW s, s = [state |-> "closed"] PROVE OwnSubscriber(s)
  BY DEF OwnSubscriber

LEMMA ToClientTyped ==
  ASSUME OwnInv, NEW c \in Conns, NEW m \in FromServer, ToClient(c, m)
  PROVE  net' \in [Conns -> Networks]
<1>1. net[c] \in Networks /\ net[c].toClient \in Seq(FromServer)
  BY DEF OwnInv, Networks
<1>2. Append(net[c].toClient, m) \in Seq(FromServer)
  BY <1>1
<1> DEFINE q == IF net[c].up THEN Append(net[c].toClient, m) ELSE net[c].toClient
           e == [net[c] EXCEPT !.toClient = q]
<1>3. q \in Seq(FromServer) /\ net' = [net EXCEPT ![c] = e]
  BY <1>1, <1>2 DEF ToClient, OwnInv
<1>4. e \in Networks
  <2> HIDE DEF q
  <2> QED
    BY <1>1, <1>3 DEF Networks
<1> HIDE DEF e
<1> QED
  BY <1>3, <1>4 DEF OwnInv

LEMMA ToServerTyped ==
  ASSUME OwnInv, NEW c \in Conns, NEW m \in FromClient, ToServer(c, m)
  PROVE  net' \in [Conns -> Networks]
<1>1. net[c] \in Networks /\ net[c].toServer \in Seq(FromClient)
  BY DEF OwnInv, Networks
<1>2. Append(net[c].toServer, m) \in Seq(FromClient)
  BY <1>1
<1> DEFINE q == IF net[c].up THEN Append(net[c].toServer, m) ELSE net[c].toServer
           e == [net[c] EXCEPT !.toServer = q]
<1>3. q \in Seq(FromClient) /\ net' = [net EXCEPT ![c] = e]
  BY <1>1, <1>2 DEF ToServer, OwnInv
<1>4. e \in Networks
  <2> HIDE DEF q
  <2> QED
    BY <1>1, <1>3 DEF Networks
<1> HIDE DEF e
<1> QED
  BY <1>3, <1>4 DEF OwnInv

LEMMA CloseTyped ==
  ASSUME OwnInv, NEW c \in Conns, CloseSubscriber(c), UNCHANGED <<cli, deferred>>
  PROVE  OwnInv'
<1>1. net' \in [Conns -> Networks]
  <2>1. [type |-> "close"] \in FromServer
    BY DEF FromServer
  <2> QED
    BY <2>1, ToClientTyped DEF CloseSubscriber
<1>2. DOMAIN sub' = Conns /\ \A d \in Conns : OwnSubscriber(sub'[d])
  BY ClosedTyped DEF CloseSubscriber, OwnInv
<1> QED
  BY <1>1, <1>2 DEF OwnInv

(* A step that changes one Subscriber, which is open before and after.        *)
LEMMA SubscriberKeeps ==
  ASSUME OwnInv, NEW c \in Conns, NEW s, sub' = [sub EXCEPT ![c] = s], OwnSubscriber(s),
         net' \in [Conns -> Networks], UNCHANGED <<cli, deferred>>
  PROVE  OwnInv'
<1>1. DOMAIN sub' = Conns /\ \A d \in Conns : OwnSubscriber(sub'[d])
  BY DEF OwnInv
<1> QED
  BY <1>1 DEF OwnInv
---------------------------------------------------------------------------
(* A connection is made and ends.                                             *)
LEMMA ConnectOwn ==
  ASSUME OwnInv, NEW c \in Conns,
         \/ \E ip \in Ips, t \in Tokens \cup {NoToken} : GetNewSubscriberId(c, ip, t)
         \/ UpgradeFails(c) \/ Open(c) \/ NetworkLost(c)
  PROVE  OwnInv'
<1>1. CASE \E ip \in Ips, t \in Tokens \cup {NoToken} : GetNewSubscriberId(c, ip, t)
  <2> PICK ip \in Ips, t \in Tokens \cup {NoToken} : GetNewSubscriberId(c, ip, t)
    BY <1>1
  <2> DEFINE s == [state |-> "upgrading", ip |-> ip, token |-> t]
  <2>1. OwnSubscriber(s)
    BY DEF OwnSubscriber
  <2>2. sub' = [sub EXCEPT ![c] = s] /\ UNCHANGED <<cli, net, deferred>>
    BY DEF GetNewSubscriberId
  <2> HIDE DEF s
  <2> QED
    BY <2>1, <2>2, SubscriberKeeps DEF OwnInv
<1>2. CASE UpgradeFails(c)
  <2>1. sub' = [sub EXCEPT ![c] = [state |-> "closed"]] /\ UNCHANGED <<cli, net, deferred>>
    BY <1>2 DEF UpgradeFails
  <2> QED
    BY <2>1, SubscriberKeeps, ClosedTyped DEF OwnInv
<1>3. CASE Open(c)
  <2> DEFINE s == [state |-> "open", ip |-> sub[c].ip, token |-> sub[c].token, pos |-> Len(events),
                   chains |-> {}, bids |-> {}, responded |-> TRUE, responses |-> <<>>,
                   acquiring |-> <<>>, since |-> <<>>, told |-> <<>>, got |-> <<>>]
  <2>0. Len(events) \in Nat
    BY DEF OwnInv
  <2>1. OwnSubscriber(s)
    BY <2>0 DEF OwnSubscriber, SubscriberFields
  <2>2. sub' = [sub EXCEPT ![c] = s] /\ UNCHANGED <<net, deferred>>
    BY <1>3 DEF Open
  <2> HIDE DEF s
  <2>3. DOMAIN sub' = Conns /\ \A d \in Conns : OwnSubscriber(sub'[d])
    BY <2>1, <2>2 DEF OwnInv
  <2>4. cli' = [cli EXCEPT ![c].state = "up"]
    BY <1>3 DEF Open
  <2>5. DOMAIN cli' = Conns /\ \A d \in Conns : OwnClient(cli'[d])
    BY <2>4 DEF OwnInv, OwnClient
  <2> QED
    BY <2>2, <2>3, <2>5 DEF OwnInv
<1>4. CASE NetworkLost(c)
  <2> DEFINE e == [up |-> FALSE, toServer |-> <<>>, toClient |-> <<>>]
  <2>1. e \in Networks
    BY DEF Networks
  <2>2. net' = [net EXCEPT ![c] = e] /\ UNCHANGED <<cli, sub, deferred>>
    BY <1>4 DEF NetworkLost
  <2> HIDE DEF e
  <2> QED
    BY <2>1, <2>2 DEF OwnInv
<1> QED
  BY <1>1, <1>2, <1>3, <1>4

(* The arms of a Subscriber's select.                                         *)
LEMMA UpdatesOwn ==
  ASSUME OwnInv, NEW c \in Conns, HandleUpdate(c) \/ Lags(c) \/ PingTick(c) \/ ExitTick(c)
  PROVE  OwnInv'
<1>0. OwnSubscriber(sub[c]) /\ DOMAIN sub = Conns
  BY DEF OwnInv
<1>1. CASE HandleUpdate(c)
  <2> DEFINE next == sub[c].pos + 1
             got == IF Relevant(c, events[next]) THEN Append(sub[c].got, next) ELSE sub[c].got
             s == [sub[c] EXCEPT !.pos = next, !.got = got]
  <2>1. sub[c].state = "open" /\ DOMAIN sub[c] = SubscriberFields /\ next \in Nat /\ got \in Seq(Nat)
    BY <1>0, <1>1 DEF HandleUpdate, Selecting, OwnSubscriber
  <2>2. sub' = [sub EXCEPT ![c] = s] /\ UNCHANGED <<cli, deferred>>
    BY <1>0, <1>1 DEF HandleUpdate
  <2>3. net' \in [Conns -> Networks]
    <3>1. [type |-> "update", event |-> next] \in FromServer
      BY <2>1 DEF FromServer
    <3>2. UNCHANGED net \/ ToClient(c, [type |-> "update", event |-> next])
      BY <1>1 DEF HandleUpdate
    <3> QED
      BY <3>1, <3>2, ToClientTyped DEF OwnInv
  <2> HIDE DEF next, got
  <2>4. OwnSubscriber(s)
    BY <1>0, <2>1 DEF OwnSubscriber, SubscriberFields
  <2> HIDE DEF s
  <2> QED
    BY <2>2, <2>3, <2>4, SubscriberKeeps
<1>2. CASE Lags(c)
  BY <1>2, CloseTyped DEF Lags
<1>3. CASE PingTick(c)
  <2>1. CASE CloseSubscriber(c)
    BY <1>3, <2>1, CloseTyped DEF PingTick
  <2>2. CASE ~CloseSubscriber(c)
    <3> DEFINE s == [sub[c] EXCEPT !.responded = FALSE]
    <3>1. sub' = [sub EXCEPT ![c] = s] /\ ToClient(c, [type |-> "ping"]) /\ UNCHANGED <<cli, deferred>>
      BY <1>0, <1>3, <2>2 DEF PingTick
    <3>2. OwnSubscriber(s)
      BY <1>0, <1>3 DEF OwnSubscriber, SubscriberFields, PingTick, Selecting
    <3>3. [type |-> "ping"] \in FromServer
      BY DEF FromServer
    <3> HIDE DEF s
    <3> QED
      BY <3>1, <3>2, <3>3, ToClientTyped, SubscriberKeeps
  <2> QED
    BY <2>1, <2>2
<1>4. CASE ExitTick(c)
  BY <1>4, CloseTyped DEF ExitTick
<1> QED
  BY <1>1, <1>2, <1>3, <1>4

LEMMA MessagesOwn ==
  ASSUME OwnInv, NEW c \in Conns, HandleClientMessage(c)
  PROVE  OwnInv'
<1> DEFINE message == Head(net[c].toServer)
           read == net' = [net EXCEPT ![c].toServer = Tail(@)] /\ UNCHANGED slots
           e == [net[c] EXCEPT !.toServer = Tail(net[c].toServer)]
<1>0. /\ OwnSubscriber(sub[c]) /\ DOMAIN sub = Conns /\ sub[c].state = "open"
      /\ DOMAIN sub[c] = SubscriberFields /\ UNCHANGED <<cli, deferred>>
  BY DEF OwnInv, HandleClientMessage, Selecting, OwnSubscriber
<1>1. net[c] \in Networks /\ net[c].toServer \in Seq(FromClient) /\ net[c].toServer # <<>>
  BY DEF OwnInv, Networks, HandleClientMessage
<1>2. message \in FromClient /\ Tail(net[c].toServer) \in Seq(FromClient)
  BY <1>1
<1>3. read => net' \in [Conns -> Networks]
  <2>1. e \in Networks
    BY <1>1, <1>2 DEF Networks
  <2>2. read => net' = [net EXCEPT ![c] = e]
    BY DEF OwnInv
  <2> HIDE DEF e
  <2> QED
    BY <2>1, <2>2 DEF OwnInv
<1>4. CASE message.type = "close" /\ CloseSubscriber(c)
  BY <1>0, <1>4, CloseTyped
<1>5. CASE ~(message.type = "close" /\ CloseSubscriber(c))
  <2>1. /\ read
        /\ \/ message.type = "subscribe" /\ Subscribe(c, message)
           \/ message.type = "unsubscribe" /\ Unsubscribe(c, message)
           \/ /\ message.type \in {"post_bid", "cancel_bid"}
              /\ sub' = [sub EXCEPT ![c].state = "acquiring", ![c].acquiring = <<message>>]
           \/ message.type = "pong" /\ sub' = [sub EXCEPT ![c].responded = TRUE]
    BY <1>5 DEF HandleClientMessage
  <2>2. \E s : OwnSubscriber(s) /\ sub' = [sub EXCEPT ![c] = s]
    <3> HIDE DEF message
    <3>1. CASE message.type = "subscribe" /\ Subscribe(c, message)
      <4> DEFINE ok == message.chains \subseteq Chains
                 chains == IF ok THEN sub[c].chains \cup message.chains ELSE sub[c].chains
                 since == IF ok THEN Merge(sub[c].since, [ch \in message.chains |-> sub[c].pos])
                          ELSE sub[c].since
                 responses == Pushed(sub[c].responses, Response(message, IF ok THEN "ok" ELSE "error"))
                 s == [sub[c] EXCEPT !.chains = chains, !.since = since, !.responses = responses]
      <4>1. message \in Posted \cup Subscriptions
        BY <1>2, <3>1 DEF FromClient
      <4>2. responses \in Seq(Responses)
        <5>1. (IF ok THEN "ok" ELSE "error") \in {"ok", "error"}
          OBVIOUS
        <5>2. Response(message, IF ok THEN "ok" ELSE "error") \in Responses
          <6> HIDE DEF ok
          <6> QED
            BY <4>1, <5>1, ResponseTagged
        <5> QED
          BY <1>0, <5>2, PushedTyped DEF OwnSubscriber
      <4>3. sub' = [sub EXCEPT ![c] = s]
        BY <1>0, <3>1 DEF Subscribe
      <4> HIDE DEF chains, since, responses
      <4>4. OwnSubscriber(s)
        BY <1>0, <4>2 DEF OwnSubscriber, SubscriberFields
      <4> QED
        BY <4>3, <4>4
    <3>2. CASE message.type = "unsubscribe" /\ Unsubscribe(c, message)
      <4> DEFINE chains == sub[c].chains \ message.chains
                 since == Restrict(sub[c].since, DOMAIN sub[c].since \ message.chains)
                 responses == Pushed(sub[c].responses, Response(message, "ok"))
                 s == [sub[c] EXCEPT !.chains = chains, !.since = since, !.responses = responses]
      <4>1. message \in Posted \cup Subscriptions
        BY <1>2, <3>2 DEF FromClient
      <4>2. responses \in Seq(Responses)
        <5>1. Response(message, "ok") \in Responses
          BY <4>1, ResponseTagged
        <5> QED
          BY <1>0, <5>1, PushedTyped DEF OwnSubscriber
      <4>3. sub' = [sub EXCEPT ![c] = s]
        BY <1>0, <3>2 DEF Unsubscribe
      <4> HIDE DEF chains, since, responses
      <4>4. OwnSubscriber(s)
        BY <1>0, <4>2 DEF OwnSubscriber, SubscriberFields
      <4> QED
        BY <4>3, <4>4
    <3>3. CASE /\ message.type \in {"post_bid", "cancel_bid"}
               /\ sub' = [sub EXCEPT ![c].state = "acquiring", ![c].acquiring = <<message>>]
      <4> DEFINE s == [sub[c] EXCEPT !.state = "acquiring", !.acquiring = <<message>>]
      <4>1. message \in Posted
        BY <1>2, <3>3 DEF FromClient, Subscriptions
      <4>2. <<message>> \in Seq(Posted) /\ <<message>> # <<>>
        BY <4>1
      <4>3. sub' = [sub EXCEPT ![c] = s]
        BY <1>0, <3>3
      <4>4. OwnSubscriber(s)
        BY <1>0, <4>2 DEF OwnSubscriber, SubscriberFields
      <4> QED
        BY <4>3, <4>4
    <3>4. CASE message.type = "pong" /\ sub' = [sub EXCEPT ![c].responded = TRUE]
      <4> DEFINE s == [sub[c] EXCEPT !.responded = TRUE]
      <4>1. OwnSubscriber(s) /\ sub' = [sub EXCEPT ![c] = s]
        BY <1>0, <3>4 DEF OwnSubscriber, SubscriberFields
      <4> QED
        BY <4>1
    <3> QED
      BY <2>1, <3>1, <3>2, <3>3, <3>4
  <2> QED
    BY <1>0, <1>3, <2>1, <2>2, SubscriberKeeps
<1> QED
  BY <1>4, <1>5
(* A deferred request answers with its own number.                            *)
LEMMA DeferredOwn ==
  ASSUME OwnInv,
         \/ \E c \in Conns : SpawnDeferred(c) \/ HandleResponse(c)
         \/ \E task \in deferred : RunDeferred(task) \/ RespondDeferred(task)
  PROVE  OwnInv'
<1>1. ASSUME NEW c \in Conns, SpawnDeferred(c) PROVE OwnInv'
  <2> DEFINE request == Head(sub[c].acquiring)
             task == [conn |-> c, token |-> sub[c].token, request |-> request, result |-> "none"]
             s == [sub[c] EXCEPT !.state = "open", !.acquiring = <<>>]
  <2>1. /\ OwnSubscriber(sub[c]) /\ sub[c].state = "acquiring" /\ DOMAIN sub = Conns
        /\ DOMAIN sub[c] = SubscriberFields
    BY <1>1 DEF OwnInv, SpawnDeferred, OwnSubscriber
  <2>2. request \in Posted
    BY <2>1 DEF OwnSubscriber
  <2>3. /\ sub' = [sub EXCEPT ![c] = s] /\ deferred' = deferred \cup {task}
        /\ UNCHANGED <<cli, net>>
    BY <1>1, <2>1 DEF SpawnDeferred
  <2> HIDE DEF request
  <2>4. OwnSubscriber(s)
    BY <2>1 DEF OwnSubscriber, SubscriberFields
  <2>5. OwnDeferred(task)
    BY <2>2 DEF OwnDeferred
  <2> HIDE DEF s, task
  <2>6. DOMAIN sub' = Conns /\ \A d \in Conns : OwnSubscriber(sub'[d])
    BY <2>3, <2>4 DEF OwnInv
  <2> QED
    BY <2>3, <2>5, <2>6 DEF OwnInv
<1>2. ASSUME NEW c \in Conns, HandleResponse(c) PROVE OwnInv'
  <2> DEFINE response == Head(sub[c].responses)
             bids == {<<c, response.to>>} \cap placed
             owned == sub[c].bids \cup bids
             told == Merge(sub[c].told, [bid \in bids |-> sub[c].pos])
             s == [sub[c] EXCEPT !.responses = Tail(sub[c].responses), !.bids = owned, !.told = told]
  <2>1. /\ OwnSubscriber(sub[c]) /\ sub[c].state = "open" /\ DOMAIN sub = Conns
        /\ DOMAIN sub[c] = SubscriberFields /\ sub[c].responses # <<>>
    BY <1>2 DEF OwnInv, HandleResponse, Selecting, OwnSubscriber
  <2>2. response \in Responses /\ Tail(sub[c].responses) \in Seq(Responses)
    BY <2>1 DEF OwnSubscriber
  <2>3. /\ sub' = [sub EXCEPT ![c] = s] /\ ToClient(c, response)
        /\ UNCHANGED <<cli, deferred>>
    BY <1>2, <2>1 DEF HandleResponse
  <2> HIDE DEF response, bids, owned, told
  <2>4. OwnSubscriber(s)
    BY <2>1, <2>2 DEF OwnSubscriber, SubscriberFields
  <2>5. net' \in [Conns -> Networks]
    BY <2>2, <2>3, ToClientTyped DEF FromServer
  <2> HIDE DEF s
  <2> QED
    BY <2>3, <2>4, <2>5, SubscriberKeeps
<1>3. ASSUME NEW task \in deferred, RunDeferred(task) PROVE OwnInv'
  <2>1. PICK result \in {"ok", "error"} :
          deferred' = (deferred \ {task}) \cup {[task EXCEPT !.result = result]}
    BY <1>3 DEF RunDeferred
  <2>2. OwnDeferred([task EXCEPT !.result = result])
    BY DEF OwnInv, OwnDeferred
  <2>3. UNCHANGED <<sub, cli, net>>
    BY <1>3 DEF RunDeferred
  <2> QED
    BY <2>1, <2>2, <2>3 DEF OwnInv
<1>4. ASSUME NEW task \in deferred, RespondDeferred(task) PROVE OwnInv'
  <2> DEFINE c == task.conn
             responses == Pushed(sub[c].responses, Response(task.request, task.result))
             s == [sub[c] EXCEPT !.responses = responses]
  <2>1. OwnDeferred(task) /\ task.result \in {"ok", "error"} /\ c \in Conns /\ DOMAIN sub = Conns
    BY <1>4 DEF OwnInv, RespondDeferred, OwnDeferred
  <2>2. Response(task.request, task.result) \in Responses
    BY <2>1, ResponseTagged DEF OwnDeferred
  <2>3. DOMAIN sub' = Conns /\ \A d \in Conns : OwnSubscriber(sub'[d])
    <3>1. CASE IsOpen(c)
      <4>1. OwnSubscriber(sub[c]) /\ sub[c].state \in {"open", "acquiring"} /\ DOMAIN sub[c] = SubscriberFields
        BY <2>1, <3>1 DEF OwnInv, IsOpen, OwnSubscriber
      <4>2. responses \in Seq(Responses)
        BY <2>2, <4>1, PushedTyped DEF OwnSubscriber
      <4>3. sub' = [sub EXCEPT ![c] = s]
        BY <1>4, <2>1, <3>1 DEF RespondDeferred
      <4> HIDE DEF responses
      <4>4. OwnSubscriber(s)
        BY <4>1, <4>2 DEF OwnSubscriber, SubscriberFields
      <4> QED
        BY <2>1, <4>3, <4>4 DEF OwnInv
    <3>2. CASE ~IsOpen(c)
      BY <1>4, <2>1, <3>2 DEF RespondDeferred, OwnInv
    <3> QED
      BY <3>1, <3>2
  <2>4. deferred' \subseteq deferred /\ UNCHANGED <<cli, net>>
    BY <1>4 DEF RespondDeferred
  <2> QED
    BY <2>3, <2>4 DEF OwnInv
<1> QED
  BY <1>1, <1>2, <1>3, <1>4

---------------------------------------------------------------------------
(* The client.                                                                *)
LEMMA ClientKeeps ==
  ASSUME OwnInv, NEW c \in Conns, NEW client, cli' = [cli EXCEPT ![c] = client], OwnClient(client),
         net' \in [Conns -> Networks], UNCHANGED <<sub, deferred>>
  PROVE  OwnInv'
<1>1. DOMAIN cli' = Conns /\ \A d \in Conns : OwnClient(cli'[d])
  BY DEF OwnInv
<1> QED
  BY <1>1 DEF OwnInv

LEMMA RequestOwn ==
  ASSUME OwnInv, NEW c \in Conns, NEW body \in Bodies, Request(c, body)
  PROVE  OwnInv'
<1> DEFINE n == Cardinality(DOMAIN cli[c].callers) + 1
           id == cli[c].count + 1
<1>0. OwnClient(cli[c]) /\ DOMAIN cli = Conns
  BY DEF OwnInv
<1>1. n = id /\ id \in Nat
  <2>1. cli[c].count \in Nat /\ DOMAIN cli[c].callers = 1..cli[c].count
    BY <1>0 DEF OwnClient
  <2>2. Cardinality(1..cli[c].count) = cli[c].count
    <3> DEFINE k == cli[c].count
    <3>1. k \in Nat
      BY <2>1
    <3> HIDE DEF k
    <3>2. Cardinality(1..k) = k
      BY <3>1, FS_Interval
    <3> QED
      BY <3>2 DEF k
  <2> QED
    BY <2>1, <2>2
<1> HIDE DEF n, id
<1>2. \/ /\ cli' = [cli EXCEPT ![c].count = id, ![c].map = Put(@, id, n),
                               ![c].callers = Put(@, n, Waiting)]
         /\ ToServer(c, Merge(body, [id |-> id, n |-> n]))
      \/ /\ cli' = [cli EXCEPT ![c].count = id, ![c].callers = Put(@, n, Failed)]
         /\ UNCHANGED net
  BY DEF Request, FetchAddRequestId, n, id
<1>3. UNCHANGED <<sub, deferred>>
  BY DEF Request
<1>4. ASSUME NEW w \in {Waiting, Failed}
      PROVE  /\ DOMAIN Put(cli[c].callers, n, w) = 1..id
             /\ \A k \in 1..id :
                  Put(cli[c].callers, n, w)[k] \in {Waiting, TimedOut, Failed, Answered(k)}
  <2>1. 1..id = (1..cli[c].count) \cup {n}
    BY <1>0, <1>1 DEF OwnClient, id
  <2> QED
    BY <1>0, <2>1 DEF Put, OwnClient
<1>5. CASE /\ cli' = [cli EXCEPT ![c].count = id, ![c].map = Put(@, id, n),
                                 ![c].callers = Put(@, n, Waiting)]
           /\ ToServer(c, Merge(body, [id |-> id, n |-> n]))
  <2> DEFINE map == Put(cli[c].map, id, n)
             callers == Put(cli[c].callers, n, Waiting)
             client == [cli[c] EXCEPT !.count = id, !.map = map, !.callers = callers]
  <2>1. \A k \in DOMAIN map : k \in 1..id /\ map[k] = k
    BY <1>0, <1>1 DEF Put, OwnClient, id
  <2>2. cli' = [cli EXCEPT ![c] = client]
    BY <1>0, <1>5
  <2>3. DOMAIN callers = 1..id /\ \A k \in 1..id : callers[k] \in {Waiting, TimedOut, Failed, Answered(k)}
    BY <1>4
  <2> HIDE DEF map, callers
  <2>4. OwnClient(client)
    BY <1>0, <1>1, <2>1, <2>3 DEF OwnClient
  <2>5. net' \in [Conns -> Networks]
    <3>1. Merge(body, [id |-> n, n |-> n]) \in FromClient
      BY <1>1, RequestTagged
    <3> QED
      BY <1>1, <1>5, <3>1, ToServerTyped
  <2> HIDE DEF client
  <2> QED
    BY <1>3, <2>2, <2>4, <2>5, ClientKeeps
<1>6. CASE /\ cli' = [cli EXCEPT ![c].count = id, ![c].callers = Put(@, n, Failed)]
           /\ UNCHANGED net
  <2> DEFINE callers == Put(cli[c].callers, n, Failed)
             client == [cli[c] EXCEPT !.count = id, !.callers = callers]
  <2>1. cli' = [cli EXCEPT ![c] = client]
    BY <1>0, <1>6
  <2>2. DOMAIN callers = 1..id /\ \A k \in 1..id : callers[k] \in {Waiting, TimedOut, Failed, Answered(k)}
    BY <1>4
  <2>3. \A k \in DOMAIN cli[c].map : k \in 1..id /\ cli[c].map[k] = k
    BY <1>0, <1>1 DEF OwnClient, id
  <2> HIDE DEF callers
  <2>4. OwnClient(client)
    BY <1>0, <1>1, <2>2, <2>3 DEF OwnClient
  <2>5. net' \in [Conns -> Networks]
    BY <1>6 DEF OwnInv
  <2> HIDE DEF client
  <2> QED
    BY <1>3, <2>1, <2>4, <2>5, ClientKeeps
<1> QED
  BY <1>2, <1>5, <1>6
LEMMA EndsOwn == ASSUME OwnInv, NEW c \in Conns, RunEnds(c)
                 PROVE  DOMAIN cli' = Conns /\ \A d \in Conns : OwnClient(cli'[d])
<1> DEFINE callers == [n \in DOMAIN cli[c].callers |->
                         IF cli[c].callers[n] = Waiting THEN Failed ELSE cli[c].callers[n]]
           client == [cli[c] EXCEPT !.state = "ended", !.map = <<>>, !.callers = callers]
<1>1. OwnClient(cli[c]) /\ DOMAIN cli = Conns /\ cli' = [cli EXCEPT ![c] = client]
  BY DEF OwnInv, RunEnds
<1>2. DOMAIN callers = 1..cli[c].count
      /\ \A n \in 1..cli[c].count : callers[n] \in {Waiting, TimedOut, Failed, Answered(n)}
  BY <1>1 DEF OwnClient
<1> HIDE DEF callers
<1>3. OwnClient(client)
  BY <1>1, <1>2 DEF OwnClient
<1> HIDE DEF client
<1> QED
  BY <1>1, <1>3 DEF OwnInv

LEMMA ReceiveOwn ==
  ASSUME OwnInv, NEW c \in Conns, NEW response \in Responses, ReceiveResponse(c, response)
  PROVE  DOMAIN cli' = Conns /\ \A d \in Conns : OwnClient(cli'[d])
<1>1. OwnClient(cli[c]) /\ DOMAIN cli = Conns
  BY DEF OwnInv
<1>2. CASE response.id \notin DOMAIN cli[c].map
  BY <1>2 DEF ReceiveResponse, OwnInv
<1>3. CASE response.id \in DOMAIN cli[c].map
  <2> DEFINE n == cli[c].map[response.id]
             map == Restrict(cli[c].map, DOMAIN cli[c].map \ {response.id})
             callers == [cli[c].callers EXCEPT ![n] = IF @ = Waiting THEN Answered(response.to) ELSE @]
             client == [cli[c] EXCEPT !.map = map, !.callers = callers]
  <2>1. n = response.to /\ n \in 1..cli[c].count
    BY <1>1, <1>3 DEF OwnClient, Responses
  <2>2. cli' = [cli EXCEPT ![c] = client]
    <3>1. cli' = [cli EXCEPT ![c].map = map,
                             ![c].callers[n] = IF @ = Waiting THEN Answered(response.to) ELSE @]
      BY <1>3 DEF ReceiveResponse
    <3> HIDE DEF n, map
    <3> QED
      BY <1>1, <3>1 DEF OwnClient
  <2>3. \A id \in DOMAIN map : id \in 1..cli[c].count /\ map[id] = id
    BY <1>1 DEF OwnClient, Restrict
  <2>4. DOMAIN callers = 1..cli[c].count
        /\ \A k \in 1..cli[c].count : callers[k] \in {Waiting, TimedOut, Failed, Answered(k)}
    <3> HIDE DEF n
    <3> QED
      BY <1>1, <2>1 DEF OwnClient
  <2> HIDE DEF map, callers
  <2>5. OwnClient(client)
    BY <1>1, <2>3, <2>4 DEF OwnClient
  <2> HIDE DEF client
  <2> QED
    BY <1>1, <2>2, <2>5 DEF OwnInv
<1> QED
  BY <1>2, <1>3

LEMMA ClientOwn ==
  ASSUME OwnInv, NEW c \in Conns,
         \/ \E n \in DOMAIN cli[c].callers : CallerTimesOut(c, n)
         \/ ClientReceives(c) \/ ClientGivesUp(c)
  PROVE  OwnInv'
<1>0. OwnClient(cli[c]) /\ DOMAIN cli = Conns
  BY DEF OwnInv
<1>1. ASSUME NEW n \in DOMAIN cli[c].callers, CallerTimesOut(c, n) PROVE OwnInv'
  <2> DEFINE callers == [cli[c].callers EXCEPT ![n] = TimedOut]
             client == [cli[c] EXCEPT !.callers = callers]
  <2>1. cli' = [cli EXCEPT ![c] = client] /\ UNCHANGED <<sub, net, deferred>>
    BY <1>0, <1>1 DEF CallerTimesOut
  <2>2. DOMAIN callers = 1..cli[c].count
        /\ \A k \in 1..cli[c].count : callers[k] \in {Waiting, TimedOut, Failed, Answered(k)}
    BY <1>0 DEF OwnClient
  <2> HIDE DEF callers
  <2>3. OwnClient(client)
    BY <1>0, <2>2 DEF OwnClient
  <2> HIDE DEF client
  <2> QED
    BY <2>1, <2>3, ClientKeeps DEF OwnInv
<1>2. CASE ClientReceives(c)
  <2> DEFINE message == Head(net[c].toClient)
             rest == [net[c] EXCEPT !.toClient = Tail(net[c].toClient)]
             ponged == [rest EXCEPT !.toServer = Append(rest.toServer, [type |-> "pong"])]
  <2>1. net[c] \in Networks /\ net[c].toClient \in Seq(FromServer) /\ net[c].toClient # <<>>
    BY <1>2 DEF OwnInv, Networks, ClientReceives
  <2>2. message \in FromServer /\ Tail(net[c].toClient) \in Seq(FromServer)
    BY <2>1
  <2>3. rest \in Networks
    BY <2>1, <2>2 DEF Networks
  <2>4. ponged \in Networks
    <3>1. rest.toServer \in Seq(FromClient) /\ [type |-> "pong"] \in FromClient
      BY <2>3 DEF Networks, FromClient
    <3> HIDE DEF rest
    <3>2. Append(rest.toServer, [type |-> "pong"]) \in Seq(FromClient)
      BY <3>1
    <3> QED
      BY <2>3, <3>2 DEF Networks
  <2>5. net' = [net EXCEPT ![c] = rest] \/ net' = [net EXCEPT ![c] = ponged]
    BY <1>2 DEF ClientReceives, OwnInv
  <2>6. net' \in [Conns -> Networks]
    <3> HIDE DEF rest, ponged
    <3> QED
      BY <2>3, <2>4, <2>5 DEF OwnInv
  <2>7. \/ message.type = "response" /\ ReceiveResponse(c, message)
        \/ RunEnds(c) \/ UNCHANGED cli
    BY <1>2 DEF ClientReceives
  <2>8. message.type = "response" => message \in Responses
    BY <2>2 DEF FromServer
  <2> HIDE DEF message
  <2>9. DOMAIN cli' = Conns /\ \A d \in Conns : OwnClient(cli'[d])
    BY <2>7, <2>8, ReceiveOwn, EndsOwn DEF OwnInv
  <2>10. UNCHANGED <<sub, deferred>>
    BY <1>2 DEF ClientReceives
  <2> QED
    BY <2>6, <2>9, <2>10 DEF OwnInv
<1>3. CASE ClientGivesUp(c)
  <2>1. [type |-> "close"] \in FromClient
    BY DEF FromClient
  <2>2. net' \in [Conns -> Networks]
    BY <1>3, <2>1, ToServerTyped DEF ClientGivesUp
  <2>3. DOMAIN cli' = Conns /\ \A d \in Conns : OwnClient(cli'[d])
    BY <1>3, EndsOwn DEF ClientGivesUp
  <2> QED
    BY <1>3, <2>2, <2>3 DEF ClientGivesUp, OwnInv
<1> QED
  BY <1>1, <1>2, <1>3

LEMMA ConnStopsOwn == ASSUME OwnInv, ConnStops PROVE OwnInv'
<1>1. DOMAIN cli' = Conns /\ \A c \in Conns : OwnClient(cli'[c])
  BY DEF OwnInv, ConnStops
<1>2. net' \in [Conns -> Networks]
  <2>1. ASSUME NEW c \in Conns
        PROVE  [net[c] EXCEPT !.toClient = Append(@, [type |-> "close"])] \in Networks
    <3> DEFINE q == Append(net[c].toClient, [type |-> "close"])
    <3>1. net[c] \in Networks /\ net[c].toClient \in Seq(FromServer) /\ [type |-> "close"] \in FromServer
      BY DEF OwnInv, Networks, FromServer
    <3>2. q \in Seq(FromServer)
      BY <3>1
    <3> HIDE DEF q
    <3>3. [net[c] EXCEPT !.toClient = q] \in Networks
      BY <3>1, <3>2 DEF Networks
    <3> QED
      BY <3>3 DEF q
  <2> QED
    BY <2>1 DEF ConnStops, OwnInv
<1>3. DOMAIN sub' = Conns /\ \A c \in Conns : OwnSubscriber(sub'[c])
  BY ClosedTyped DEF ConnStops, OwnInv, OwnSubscriber, NoSub
<1>4. deferred' = {}
  BY DEF ConnStops
<1> QED
  BY <1>1, <1>2, <1>3, <1>4 DEF OwnInv

LEMMA NextOwn == OwnInv /\ [Next]_vars => OwnInv'
<1> SUFFICES ASSUME OwnInv, [Next]_vars PROVE OwnInv'
  OBVIOUS
<1>1. CASE ConnStep
  <2>1. ASSUME NEW c \in Conns, NEW body \in Bodies, Request(c, body) PROVE OwnInv'
    BY <2>1, RequestOwn
  <2>2. ASSUME NEW task \in deferred, RunDeferred(task) \/ RespondDeferred(task) PROVE OwnInv'
    BY <2>2, DeferredOwn
  <2>3. ASSUME NEW c \in Conns,
               \/ \E ip \in Ips, t \in Tokens \cup {NoToken} : GetNewSubscriberId(c, ip, t)
               \/ UpgradeFails(c) \/ Open(c) \/ NetworkLost(c)
        PROVE  OwnInv'
    BY <2>3, ConnectOwn
  <2>4. ASSUME NEW c \in Conns,
               \/ HandleUpdate(c) \/ Lags(c) \/ HandleClientMessage(c) \/ SpawnDeferred(c)
               \/ HandleResponse(c) \/ PingTick(c) \/ ExitTick(c)
        PROVE  OwnInv'
    BY <2>4, UpdatesOwn, MessagesOwn, DeferredOwn
  <2>5. ASSUME NEW c \in Conns,
               \/ \E n \in DOMAIN cli[c].callers : CallerTimesOut(c, n)
               \/ ClientReceives(c) \/ ClientGivesUp(c)
        PROVE  OwnInv'
    BY <2>5, ClientOwn
  <2> QED
    BY <1>1, <2>1, <2>2, <2>3, <2>4, <2>5 DEF ConnStep
<1>2. CASE ConnStops
  BY <1>2, ConnStopsOwn
<1>3. CASE UNCHANGED connVars
  BY <1>3 DEF connVars, OwnInv
<1>4. ConnStep \/ ConnStops \/ UNCHANGED connVars
  BY DEF Next, vars, OfServer, VerificationPanics, Completes, Crash, Down, StartsAgain, OfAccess,
         OfOpp, OfConn, OfHistory, OfTables, OfSimulator, BroadcastUpdate
<1> QED
  BY <1>1, <1>2, <1>3, <1>4

LEMMA SpecOwn == Spec => []OwnInv
<1> QED
  BY InitOwn, NextOwn, PTL DEF Spec

(* A caller of the SDK gets the answer to its own request or none, whatever   *)
(* timed out before and answers late (WsClient::send and the request map of   *)
(* the SDK's run loop, handle_response of the Subscriber).                    *)
THEOREM CallersGetOwnResponse == Spec => []OwnResponse
<1>1. OwnInv => OwnResponse
  BY DEF OwnInv, OwnClient, OwnResponse
<1> QED
  BY <1>1, SpecOwn, PTL
---------------------------------------------------------------------------
(* The opportunities that were ever added, as they were at most until now.    *)
Known ==
  {o \in [id : Nat, create : Creates, refreshed : Nat] : o.refreshed <= now /\ o.id \in DOMAIN rows}
OfKey(opps, key) == {o \in opps : o.create.key = key}

Row == [key : Keys, removed : BOOLEAN, deleted : BOOLEAN]

RowsOK ==
  /\ now \in Nat /\ \E n \in Nat : DOMAIN rows = 1..n
  /\ \A id \in DOMAIN rows : rows[id] \in Row

MemoryOK ==
  /\ DOMAIN memory \subseteq Keys
  /\ \A key \in DOMAIN memory : memory[key] # <<>> /\ memory[key] \in Seq(OfKey(Known, key))

(* What a call knows at each of its steps; only quotes and the loop remove a  *)
(* single opportunity.                                                        *)
CallOK(c, call, opps) ==
  /\ {"pc", "opp", "left"} \subseteq DOMAIN call
  /\ call.left \subseteq opps
  /\ \/ call = NoCall
     \/ call.pc = "visit" /\ c = Loop
     \/ call.pc = "row" /\ call.opp.create \in Creates
     \/ call.pc \in {"memory", "refresh", "tell"} /\ call.opp \in opps
     \/ call.pc = "quoted" /\ call.opp \in opps /\ call.opp.create.kind = "swap"
     \/ call.pc = "dropRow" /\ call.opp \in opps /\ (c = Loop \/ call.opp.create.kind = "swap")
     \/ /\ call.pc = "dropMemory" /\ call.opp \in opps /\ (c = Loop \/ call.opp.create.kind = "swap")
        /\ "first" \in DOMAIN call
     \/ call.pc = "check" /\ call.opp \in opps /\ c = Loop
     \/ call.pc = "tellGone" /\ call.opp \in opps
     \/ call.pc \in {"deleteRows", "deleteMemory"} /\ "key" \in DOMAIN call /\ call.key \in Keys

CallsOK == DOMAIN calls = Tasks /\ \A c \in Tasks : CallOK(c, calls[c], Known)

Events ==
  [kind : {"new", "gone"}, chain : {create.chain : create \in Creates}, key : Keys, id : Nat]
    \cup [kind : {"bid"}, id : Conns \X Nat] \cup [kind : {"chain"}, chain : Chains]

EventsOK == events \in Seq(Events) /\ placed \subseteq Conns \X Nat

OppInv == RowsOK /\ MemoryOK /\ CallsOK /\ EventsOK

---------------------------------------------------------------------------
LEMMA SeqGrows == ASSUME NEW A, NEW B, A \subseteq B, NEW s \in Seq(A) PROVE s \in Seq(B)
  OBVIOUS

(* What is known stays known.                                                 *)
LEMMA KnownGrows ==
  ASSUME RowsOK, now' \in Nat, now <= now', DOMAIN rows \subseteq DOMAIN rows'
  PROVE  Known \subseteq Known'
  BY DEF RowsOK, Known

LEMMA OfKeyGrows == ASSUME NEW A, NEW B, A \subseteq B, NEW key PROVE OfKey(A, key) \subseteq OfKey(B, key)
  BY DEF OfKey

LEMMA CallGrows ==
  ASSUME NEW A, NEW B, A \subseteq B, NEW c, NEW call, CallOK(c, call, A)
  PROVE  CallOK(c, call, B)
  BY DEF CallOK

LEMMA MemorySame == ASSUME MemoryOK, Known \subseteq Known', memory' = memory PROVE MemoryOK'
<1>1. ASSUME NEW key \in DOMAIN memory
      PROVE  memory[key] \in Seq(OfKey(Known', key))
  BY OfKeyGrows, SeqGrows DEF MemoryOK
<1> QED
  BY <1>1 DEF MemoryOK, OfKey

LEMMA CallsSame == ASSUME CallsOK, Known \subseteq Known', calls' = calls PROVE CallsOK'
  BY CallGrows DEF CallsOK, Tasks

LEMMA CallsProceed ==
  ASSUME CallsOK, Known \subseteq Known', NEW c \in Tasks, NEW next, Proceed(c, next),
         CallOK(c, next, Known')
  PROVE  CallsOK'
<1>1. calls' = [calls EXCEPT ![c] = next]
  BY DEF Proceed
<1>2. ASSUME NEW d \in Tasks PROVE CallOK(d, calls'[d], Known')
  BY <1>1, CallGrows DEF CallsOK
<1> QED
  BY <1>1, <1>2 DEF CallsOK, Tasks

LEMMA NoCallOK == ASSUME NEW c, NEW opps PROVE CallOK(c, NoCall, opps)
  BY DEF CallOK, NoCall

LEMMA VisitOK ==
  ASSUME NEW opps, NEW left, left \subseteq opps
  PROVE  CallOK(Loop, [NoCall EXCEPT !.pc = "visit", !.left = left], opps)
  BY DEF CallOK, NoCall

LEMMA ReturnOK == ASSUME CallsOK, Known \subseteq Known', NEW c \in Tasks, Return(c) PROVE CallsOK'
<1>1. calls[c].left \subseteq Known'
  BY DEF CallsOK, CallOK
<1> QED
  BY <1>1, NoCallOK, VisitOK, CallsProceed DEF Return

(* What memory has of a key.                                                  *)
LEMMA AtIs ==
  ASSUME MemoryOK, NEW key
  PROVE  /\ At(key) \in Seq(OfKey(Known, key))
         /\ At(key) = <<>> <=> key \notin DOMAIN memory
  BY DEF MemoryOK, At

LEMMA ToSetTyped ==
  ASSUME NEW T, NEW s \in Seq(T)
  PROVE  ToSet(s) \subseteq T /\ \A x : x \in ToSet(s) <=> \E i \in 1..Len(s) : s[i] = x
<1>1. DOMAIN s = 1..Len(s) /\ \A i \in 1..Len(s) : s[i] \in T
  OBVIOUS
<1> QED
  BY <1>1 DEF ToSet

LEMMA InMemoryIs == ASSUME MemoryOK PROVE InMemory \subseteq Known
<1>1. ASSUME NEW key PROVE ToSet(At(key)) \subseteq Known
  <2>1. ToSet(At(key)) \subseteq OfKey(Known, key)
    BY AtIs, ToSetTyped
  <2> QED
    BY <2>1 DEF OfKey
<1> QED
  BY <1>1 DEF InMemory

LEMMA AtInMemory ==
  ASSUME MemoryOK, NEW key \in Keys, NEW i \in 1..Len(At(key))
  PROVE  At(key)[i] \in InMemory
  BY AtIs DEF InMemory, ToSet

LEMMA MatchingIs ==
  ASSUME MemoryOK, NEW create \in Creates
  PROVE  /\ Matching(create) \in Seq(OfKey(Known, create.key))
         /\ Matching(create) # <<>> => create.key \in DOMAIN memory
<1> DEFINE key == create.key
           T == OfKey(Known, key)
           s == At(key)
           S == {o \in InMemory : Same(o, create)}
<1>1. s \in Seq(T)
  BY AtIs
<1>2. Matching(create) = Selected(s, S)
  BY DEF Matching
<1> HIDE DEF T, S, s
<1>3. /\ Selected(s, S) \in Seq(T)
      /\ \A i \in 1..Len(Selected(s, S)) : \E j \in 1..Len(s) : s[j] = Selected(s, S)[i]
  BY <1>1, SelectedElements
<1>4. Selected(s, S) # <<>> => s # <<>>
  BY <1>1, <1>3
<1> QED
  BY <1>2, <1>3, <1>4, AtIs DEF T, s
---------------------------------------------------------------------------
(* Steps that change no more than a call.                                     *)
LEMMA CallStep ==
  ASSUME OppInv, UNCHANGED <<memory, rows, now, events, placed>>, CallsOK'
  PROVE  OppInv'
<1>1. Known' = Known
  BY DEF Known
<1> QED
  BY <1>1, MemorySame DEF OppInv, RowsOK, EventsOK

LEMMA ProceedStep ==
  ASSUME OppInv, UNCHANGED <<memory, rows, now, events, placed>>,
         NEW c \in Tasks, NEW next, Proceed(c, next), CallOK(c, next, Known)
  PROVE  OppInv'
<1>1. Known' = Known
  BY DEF Known
<1> QED
  BY <1>1, CallsProceed, CallStep DEF OppInv

LEMMA ReturnStep ==
  ASSUME OppInv, UNCHANGED <<memory, rows, now, events, placed>>, NEW c \in Tasks, Return(c)
  PROVE  OppInv'
<1>1. Known' = Known
  BY DEF Known
<1> QED
  BY <1>1, ReturnOK, CallStep DEF OppInv

(* A call goes on to a step that needs what it has.                           *)
LEMMA GotoOK ==
  ASSUME NEW c, NEW call, NEW opps, CallOK(c, call, opps), call.opp \in opps, NEW pc,
         pc \in {"memory", "refresh", "tell", "tellGone"}
           \/ (pc = "check" /\ c = Loop)
           \/ (pc \in {"quoted", "dropRow"} /\ call.opp.create.kind = "swap")
  PROVE  CallOK(c, [call EXCEPT !.pc = pc], opps)
  BY DEF CallOK

LEMMA BeginsTyped ==
  ASSUME OppInv, NEW c \in Calls, UNCHANGED placed,
         \/ \E create \in Creates : AssessAction(c, create)
         \/ \E key \in Keys, t \in DOMAIN tokens : DeleteOpportunities(c, t, key)
  PROVE  OppInv'
<1>0. c \in Tasks
  BY DEF Tasks
<1>1. ASSUME NEW create \in Creates, AssessAction(c, create) PROVE OppInv'
  <2> DEFINE same == Matching(create)
  <2>1. same \in Seq(OfKey(Known, create.key))
    BY MatchingIs DEF OppInv
  <2>2. UNCHANGED <<memory, rows, now, events>>
    BY <1>1 DEF AssessAction
  <2>3. CASE /\ same = <<>>
             /\ Proceed(c, [NoCall EXCEPT !.pc = "row", !.opp = [id |-> 0, create |-> create]])
    <3> DEFINE next == [NoCall EXCEPT !.pc = "row", !.opp = [id |-> 0, create |-> create]]
    <3>1. CallOK(c, next, Known)
      BY DEF CallOK, NoCall
    <3> HIDE DEF next
    <3>2. Proceed(c, next)
      BY <2>3 DEF next
    <3> QED
      BY <1>0, <2>2, <3>1, <3>2, ProceedStep
  <2>4. CASE /\ same # <<>>
             /\ Proceed(c, [NoCall EXCEPT !.pc = "refresh", !.opp = Head(same)])
    <3> DEFINE opp == Head(same)
               next == [NoCall EXCEPT !.pc = "refresh", !.opp = opp]
    <3>1. opp \in Known
      <4> HIDE DEF same
      <4>1. Head(same) \in OfKey(Known, create.key)
        BY <2>1, <2>4
      <4> QED
        BY <4>1 DEF OfKey
    <3>2. Proceed(c, next)
      BY <2>4
    <3> HIDE DEF opp
    <3>3. CallOK(c, next, Known)
      BY <3>1 DEF CallOK, NoCall
    <3> HIDE DEF next
    <3> QED
      BY <1>0, <2>2, <3>2, <3>3, ProceedStep
  <2> QED
    BY <1>1, <2>3, <2>4 DEF AssessAction
<1>2. ASSUME NEW key \in Keys, NEW t \in DOMAIN tokens, DeleteOpportunities(c, t, key) PROVE OppInv'
  <2> DEFINE next == [pc |-> "deleteRows", key |-> key, opp |-> None, left |-> {}]
  <2>1. CallOK(c, next, Known)
    BY DEF CallOK
  <2>2. Proceed(c, next) /\ UNCHANGED <<memory, rows, now, events>>
    BY <1>2 DEF DeleteOpportunities
  <2> HIDE DEF next
  <2> QED
    BY <1>0, <2>1, <2>2, ProceedStep
<1> QED
  BY <1>1, <1>2

LEMMA CallsTyped ==
  ASSUME OppInv, NEW c \in Tasks, UNCHANGED placed,
         EndQuote(c) \/ (c = Loop /\ CheckKey(c)) \/ OppQueryFails(c) \/ RequestDropped(c)
  PROVE  OppInv'
<1>0. CallOK(c, calls[c], Known)
  BY DEF OppInv, CallsOK
<1>1. CASE EndQuote(c)
  <2>0. UNCHANGED <<memory, rows, now, events>> /\ calls[c].pc = "quoted"
    BY <1>1 DEF EndQuote
  <2>1. CASE Goto(c, "dropRow")
    <3>1. calls[c].opp \in Known /\ calls[c].opp.create.kind = "swap"
      BY <1>0, <2>0 DEF CallOK, NoCall
    <3>2. CallOK(c, [calls[c] EXCEPT !.pc = "dropRow"], Known)
      BY <1>0, <3>1, GotoOK
    <3> QED
      BY <2>0, <2>1, <3>2, ProceedStep DEF Goto
  <2>2. CASE Proceed(c, NoCall)
    BY <2>0, <2>2, NoCallOK, ProceedStep
  <2> QED
    BY <1>1, <2>1, <2>2 DEF EndQuote
<1>2. CASE c = Loop /\ CheckKey(c)
  <2>0. UNCHANGED <<memory, rows, now, events>> /\ calls[c].pc = "check"
    BY <1>2 DEF CheckKey
  <2>1. calls[c].opp \in Known
    BY <1>0, <2>0 DEF CallOK, NoCall
  <2>2. CallOK(c, [calls[c] EXCEPT !.pc = "tellGone"], Known)
    BY <1>0, <2>1 DEF CallOK
  <2>3. Proceed(c, [calls[c] EXCEPT !.pc = "tellGone"]) \/ Return(c)
    BY <1>2 DEF CheckKey, Goto
  <2> QED
    BY <2>0, <2>2, <2>3, ProceedStep, ReturnStep
<1>3. CASE OppQueryFails(c)
  BY <1>3, ReturnStep DEF OppQueryFails
<1>4. CASE RequestDropped(c)
  BY <1>4, NoCallOK, ProceedStep DEF RequestDropped
<1> QED
  BY <1>1, <1>2, <1>3, <1>4

LEMMA RoundTyped ==
  ASSUME OppInv, UNCHANGED placed, StartRound \/ Visit
  PROVE  OppInv'
<1>0. Loop \in Tasks /\ CallOK(Loop, calls[Loop], Known)
  BY DEF OppInv, CallsOK, Tasks
<1>1. CASE StartRound
  BY <1>0, <1>1, InMemoryIs, VisitOK, ProceedStep DEF StartRound, OppInv
<1>2. CASE Visit
  <2>0. UNCHANGED <<memory, rows, now, events>> /\ calls[Loop].pc = "visit" /\ calls[Loop].left \subseteq Known
        /\ {"pc", "opp", "left"} \subseteq DOMAIN calls[Loop]
    BY <1>0, <1>2 DEF Visit, CallOK
  <2>1. CASE Proceed(Loop, NoCall)
    BY <1>0, <2>0, <2>1, NoCallOK, ProceedStep
  <2>2. ASSUME NEW o \in calls[Loop].left,
               LET left == calls[Loop].left \ {o} IN
                 \/ Proceed(Loop, [pc |-> "dropRow", opp |-> o, left |-> left])
                 \/ Proceed(Loop, [calls[Loop] EXCEPT !.left = left])
        PROVE  OppInv'
    <3> DEFINE left == calls[Loop].left \ {o}
               remove == [pc |-> "dropRow", opp |-> o, left |-> left]
               skip == [calls[Loop] EXCEPT !.left = left]
    <3>1. left \subseteq Known /\ o \in Known
      BY <2>0
    <3>2. Proceed(Loop, remove) \/ Proceed(Loop, skip)
      BY <2>2
    <3> HIDE DEF left
    <3>3. CallOK(Loop, remove, Known)
      BY <3>1 DEF CallOK
    <3>4. CallOK(Loop, skip, Known)
      BY <2>0, <3>1 DEF CallOK
    <3> HIDE DEF remove, skip
    <3> QED
      BY <1>0, <2>0, <3>2, <3>3, <3>4, ProceedStep
  <2> QED
    BY <1>2, <2>1, <2>2 DEF Visit
<1> QED
  BY <1>1, <1>2
---------------------------------------------------------------------------
(* Steps that change the table.                                               *)
LEMMA AddRowTyped ==
  ASSUME OppInv, NEW c \in Tasks, UNCHANGED placed, AddRow(c)
  PROVE  OppInv'
<1> DEFINE id == Cardinality(DOMAIN rows) + 1
           create == calls[c].opp.create
           opp == [id |-> id, create |-> create, refreshed |-> now]
           next == [calls[c] EXCEPT !.pc = "memory", !.opp = opp]
           row == [key |-> create.key, removed |-> FALSE, deleted |-> FALSE]
<1>0. CallOK(c, calls[c], Known) /\ calls[c].pc = "row" /\ now \in Nat
  BY DEF OppInv, CallsOK, AddRow, RowsOK
<1>1. create \in Creates /\ {"pc", "opp", "left"} \subseteq DOMAIN calls[c] /\ calls[c].left \subseteq Known
  BY <1>0 DEF CallOK, NoCall
<1>2. PICK n \in Nat : DOMAIN rows = 1..n
  BY DEF OppInv, RowsOK
<1>3. id = n + 1
  <2>1. Cardinality(1..n) = n
    BY FS_Interval
  <2> QED
    BY <1>2, <2>1
<1>4. /\ rows' = Put(rows, id, row) /\ Proceed(c, next) /\ UNCHANGED <<memory, now, events>>
  BY DEF AddRow
<1>5. DOMAIN rows' = 1..(n + 1) /\ \A i \in DOMAIN rows' : rows'[i] \in Row
  <2>1. row \in Row
    BY <1>1 DEF Keys, Row
  <2>2. 1..(n + 1) = (1..n) \cup {n + 1}
    OBVIOUS
  <2> HIDE DEF id, row
  <2>3. DOMAIN rows' = DOMAIN rows \cup {id} /\ \A i \in DOMAIN rows' : rows'[i] = IF i = id THEN row ELSE rows[i]
    BY <1>4 DEF Put
  <2>4. \A i \in DOMAIN rows : rows[i] \in Row
    BY DEF OppInv, RowsOK
  <2>5. DOMAIN rows' = 1..(n + 1)
    BY <1>2, <1>3, <2>2, <2>3
  <2> QED
    BY <2>1, <2>3, <2>4, <2>5
<1>6. RowsOK'
  <2>1. now' \in Nat /\ n + 1 \in Nat
    BY <1>0, <1>4
  <2> HIDE DEF opp, next
  <2> QED
    BY <1>5, <2>1 DEF RowsOK
<1>7. Known \subseteq Known' /\ opp \in Known'
  <2>1. id \in Nat /\ id \in DOMAIN rows'
    BY <1>2, <1>3, <1>5
  <2>2. DOMAIN rows \subseteq DOMAIN rows'
    BY <1>2, <1>5
  <2> HIDE DEF id, create
  <2>3. Known \subseteq Known'
    <3>1. RowsOK /\ now' \in Nat /\ now <= now'
      BY <1>0, <1>4 DEF OppInv
    <3> QED
      BY <2>2, <3>1, KnownGrows
  <2>4. opp \in Known'
    BY <1>0, <1>1, <1>4, <2>1 DEF Known
  <2> QED
    BY <2>3, <2>4
<1> HIDE DEF opp
<1>8. CallOK(c, next, Known')
  BY <1>1, <1>7 DEF CallOK
<1> HIDE DEF next
<1>9. CallsOK'
  BY <1>4, <1>7, <1>8, CallsProceed DEF OppInv
<1> QED
  BY <1>4, <1>6, <1>7, <1>9, MemorySame DEF OppInv, EventsOK

(* A row changes in place.                                                    *)
LEMMA SameRows ==
  ASSUME OppInv, UNCHANGED now, DOMAIN rows' = DOMAIN rows,
         \A id \in DOMAIN rows : rows'[id] \in Row
  PROVE  RowsOK' /\ Known' = Known
  BY DEF OppInv, RowsOK, Known

LEMMA MarksTyped ==
  ASSUME OppInv, NEW c \in Tasks, UNCHANGED placed, DropRow(c) \/ DeleteRows(c)
  PROVE  OppInv'
<1>0. /\ CallOK(c, calls[c], Known) /\ {"pc", "opp", "left"} \subseteq DOMAIN calls[c]
      /\ calls[c].left \subseteq Known
  BY DEF OppInv, CallsOK, CallOK
<1>1. CASE DropRow(c)
  <2> DEFINE id == calls[c].opp.id
             next == [pc |-> "dropMemory", first |-> ~rows[id].removed, opp |-> calls[c].opp, left |-> calls[c].left]
  <2>1. calls[c].opp \in Known /\ (c = Loop \/ calls[c].opp.create.kind = "swap")
    BY <1>0, <1>1, SMTT(20) DEF DropRow, CallOK, NoCall
  <2>2. CallOK(c, next, Known)
    BY <1>0, <2>1 DEF CallOK
  <2>3. /\ rows' = [rows EXCEPT ![id].removed = TRUE] /\ Proceed(c, next)
        /\ UNCHANGED <<memory, now, events>>
    BY <1>1 DEF DropRow
  <2>4. RowsOK' /\ Known' = Known
    <3> HIDE DEF next
    <3>1. \A i \in DOMAIN rows : rows'[i] \in Row
      BY <2>3 DEF OppInv, RowsOK, Row
    <3> QED
      BY <2>3, <3>1, SameRows
  <2> HIDE DEF next
  <2>5. CallsOK'
    BY <2>2, <2>3, <2>4, CallsProceed DEF OppInv
  <2> QED
    BY <2>3, <2>4, <2>5, MemorySame DEF OppInv, EventsOK
<1>2. CASE DeleteRows(c)
  <2>1. calls[c].pc = "deleteRows" /\ "key" \in DOMAIN calls[c] /\ calls[c].key \in Keys
    BY <1>0, <1>2 DEF DeleteRows, CallOK, NoCall
  <2>2. CallOK(c, [calls[c] EXCEPT !.pc = "deleteMemory"], Known)
    BY <1>0, <2>1 DEF CallOK
  <2>3. /\ DOMAIN rows' = DOMAIN rows
        /\ \A id \in DOMAIN rows : rows'[id] = rows[id] \/ rows'[id] = [rows[id] EXCEPT !.removed = TRUE]
        /\ Proceed(c, [calls[c] EXCEPT !.pc = "deleteMemory"]) /\ UNCHANGED <<memory, now, events>>
    BY <1>2 DEF DeleteRows, Goto
  <2>4. RowsOK' /\ Known' = Known
    <3>1. \A i \in DOMAIN rows : rows'[i] \in Row
      BY <2>3 DEF OppInv, RowsOK, Row
    <3> QED
      BY <2>3, <3>1, SameRows
  <2>5. CallsOK'
    BY <2>2, <2>3, <2>4, CallsProceed DEF OppInv
  <2> QED
    BY <2>3, <2>4, <2>5, MemorySame DEF OppInv, EventsOK
<1> QED
  BY <1>1, <1>2

(* The deletion loop marks rows as deleted.                                   *)
LEMMA DeletionTyped ==
  ASSUME OppInv, UNCHANGED <<memory, calls, now, events, placed>>, DeletionStep \/ ReadStep \/ UNCHANGED rows
  PROVE  OppInv'
<1>1. /\ DOMAIN rows' = DOMAIN rows
      /\ \A id \in DOMAIN rows : rows'[id] = rows[id] \/ rows'[id] = [rows[id] EXCEPT !.deleted = TRUE]
  BY DEF DeletionStep, ReadStep, DeletionTick, WaitForTick, DeletePgDbBidHistory,
         DeletePgDbOpportunityHistory, DeletePgDbAuctionHistory, GetBids, GetAuctionsByBids, GetAuction,
         GetOpportunities, GetBid
<1>2. \A i \in DOMAIN rows : rows'[i] \in Row
  BY <1>1 DEF OppInv, RowsOK, Row
<1>3. RowsOK' /\ Known' = Known
  BY <1>1, <1>2, SameRows
<1>4. MemoryOK' /\ CallsOK'
  BY <1>3, MemorySame, CallsSame DEF OppInv
<1> QED
  BY <1>3, <1>4 DEF OppInv, EventsOK

LEMMA TickTyped == ASSUME OppInv, UNCHANGED placed, Tick PROVE OppInv'
<1>1. now' = now + 1 /\ UNCHANGED <<memory, rows, calls, events>>
  BY DEF Tick
<1>2. RowsOK' /\ now <= now'
  BY <1>1 DEF OppInv, RowsOK
<1>3. Known \subseteq Known'
  BY <1>1, <1>2, KnownGrows DEF OppInv, RowsOK
<1> QED
  BY <1>1, <1>2, <1>3, MemorySame, CallsSame DEF OppInv, EventsOK
---------------------------------------------------------------------------
(* Steps that change memory.                                                  *)
LEMMA MemoryStep ==
  ASSUME OppInv, UNCHANGED <<rows, now, events, placed>>, CallsOK', MemoryOK'
  PROVE  OppInv'
  BY DEF OppInv, RowsOK, EventsOK

LEMMA AdditionsTyped ==
  ASSUME OppInv, NEW c \in Tasks, UNCHANGED placed, AddMemory(c) \/ RefreshInMemoryOpportunity(c)
  PROVE  OppInv'
<1>0. CallOK(c, calls[c], Known) /\ {"pc", "opp", "left"} \subseteq DOMAIN calls[c] /\ now \in Nat
      /\ calls[c].left \subseteq Known
  BY DEF OppInv, CallsOK, CallOK, RowsOK
<1>1. CASE AddMemory(c)
  <2> DEFINE opp == calls[c].opp
             key == opp.create.key
             list == Append(At(key), opp)
             next == [calls[c] EXCEPT !.pc = "tell"]
  <2>1. /\ memory' = Put(memory, key, list) /\ Proceed(c, next) /\ UNCHANGED <<rows, now, events>>
        /\ calls[c].pc = "memory"
    BY <1>1 DEF AddMemory, Goto
  <2>2. opp \in Known
    BY <1>0, <2>1 DEF CallOK, NoCall
  <2>3. Known' = Known
    BY <2>1 DEF Known
  <2>4. CallOK(c, next, Known)
    BY <1>0, <2>2 DEF CallOK
  <2>5. key \in Keys /\ opp \in OfKey(Known, key)
    BY <2>2 DEF Known, OfKey, Keys
  <2>6. At(key) \in Seq(OfKey(Known, key))
    BY AtIs DEF OppInv
  <2>7. list \in Seq(OfKey(Known, key)) /\ list # <<>>
    <3> DEFINE T == OfKey(Known, key)
               s == At(key)
    <3>1. opp \in T /\ s \in Seq(T)
      BY <2>5, <2>6
    <3> HIDE DEF T, s, opp
    <3>2. Append(s, opp) \in Seq(T) /\ Len(Append(s, opp)) = Len(s) + 1 /\ Len(s) \in Nat
      BY <3>1
    <3>3. Append(s, opp) # <<>>
      BY <3>2
    <3> QED
      BY <3>2, <3>3 DEF T, s, opp
  <2> HIDE DEF next, list, key, opp
  <2>8. CallsOK'
    BY <2>1, <2>3, <2>4, CallsProceed DEF OppInv
  <2>9. MemoryOK'
    BY <2>1, <2>3, <2>5, <2>7 DEF MemoryOK, OppInv, Put
  <2> QED
    BY <2>1, <2>8, <2>9, MemoryStep
<1>2. CASE RefreshInMemoryOpportunity(c)
  <2> DEFINE old == calls[c].opp
             new == [old EXCEPT !.refreshed = now]
             key == old.create.key
             list == ReplaceAll(memory[key], old, new)
             next == [calls[c] EXCEPT !.pc = "tell", !.opp = new]
  <2>1. /\ memory' = IF key \in DOMAIN memory THEN [memory EXCEPT ![key] = list] ELSE memory
        /\ Proceed(c, next) /\ UNCHANGED <<rows, now, events>> /\ calls[c].pc = "refresh"
    BY <1>2 DEF RefreshInMemoryOpportunity
  <2>2. old \in Known
    BY <1>0, <2>1 DEF CallOK, NoCall
  <2>3. Known' = Known
    BY <2>1 DEF Known
  <2>4. new \in Known /\ new.create.key = key
    <3> HIDE DEF old
    <3> QED
      BY <1>0, <2>2 DEF Known
  <2> HIDE DEF new
  <2>5. CallOK(c, next, Known)
    BY <1>0, <2>4 DEF CallOK
  <2>6. ASSUME key \in DOMAIN memory
        PROVE  list \in Seq(OfKey(Known, key)) /\ list # <<>>
    <3> DEFINE T == OfKey(Known, key)
               s == memory[key]
    <3>1. new \in T /\ s \in Seq(T) /\ s # <<>>
      BY <2>4, <2>6 DEF OppInv, MemoryOK, OfKey
    <3> HIDE DEF T, s, old
    <3>2. Len(s) \in Nat /\ Len(s) # 0 /\ \A i \in 1..Len(s) : s[i] \in T
      BY <3>1
    <3>3. ReplaceAll(s, old, new) \in [1..Len(s) -> T]
      BY <3>1, <3>2 DEF ReplaceAll
    <3>4. ReplaceAll(s, old, new) \in Seq(T) /\ Len(ReplaceAll(s, old, new)) = Len(s)
      BY <3>2, <3>3
    <3>5. ReplaceAll(s, old, new) # <<>>
      BY <3>2, <3>4
    <3> QED
      BY <3>4, <3>5 DEF T, s
  <2> HIDE DEF next, list, key, old
  <2>7. CallsOK'
    BY <2>1, <2>3, <2>5, CallsProceed DEF OppInv
  <2>8. MemoryOK'
    BY <2>1, <2>3, <2>6 DEF MemoryOK, OppInv
  <2> QED
    BY <2>1, <2>7, <2>8, MemoryStep
<1> QED
  BY <1>1, <1>2

LEMMA RestrictedMemory ==
  ASSUME MemoryOK, Known' = Known, NEW S, memory' = Restrict(memory, DOMAIN memory \ S)
  PROVE  MemoryOK'
  BY DEF MemoryOK, Restrict

(* What is left of a key without one of its opportunities.                    *)
LEMMA RestIs ==
  ASSUME MemoryOK, NEW key, NEW S
  PROVE  Selected(At(key), S) \in Seq(OfKey(Known, key))
  BY AtIs, SelectedElements

LEMMA RemovalsTyped ==
  ASSUME OppInv, NEW c \in Tasks, UNCHANGED placed, DropMemory(c) \/ DeleteMemory(c)
  PROVE  OppInv'
<1>0. CallOK(c, calls[c], Known) /\ {"pc", "opp", "left"} \subseteq DOMAIN calls[c]
      /\ calls[c].left \subseteq Known
  BY DEF OppInv, CallsOK, CallOK
<1>1. CASE DropMemory(c)
  <2> DEFINE opp == calls[c].opp
             key == opp.create.key
             rest == Selected(At(key), InMemory \ {opp})
  <2>1. /\ memory' = IF rest = <<>> THEN Restrict(memory, DOMAIN memory \ {key})
                     ELSE [memory EXCEPT ![key] = rest]
        /\ UNCHANGED <<rows, now, events>> /\ calls[c].pc = "dropMemory"
    BY <1>1 DEF DropMemory
  <2>2. opp \in Known
    BY <1>0, <2>1 DEF CallOK, NoCall
  <2>3. Known' = Known
    BY <2>1 DEF Known
  <2>4. rest \in Seq(OfKey(Known, key))
    BY RestIs DEF OppInv
  <2>5. CallsOK'
    <3>1. Return(c) \/ (c = Loop /\ Proceed(c, [calls[c] EXCEPT !.pc = "check"]))
      BY <1>1 DEF DropMemory, Goto
    <3>2. c = Loop => CallOK(c, [calls[c] EXCEPT !.pc = "check"], Known)
      BY <1>0, <2>2 DEF CallOK
    <3> QED
      BY <2>3, <3>1, <3>2, ReturnOK, CallsProceed DEF OppInv
  <2> HIDE DEF rest, key, opp
  <2>6. MemoryOK'
    <3>1. CASE rest = <<>>
      BY <2>1, <2>3, <3>1, RestrictedMemory DEF OppInv
    <3>2. CASE rest # <<>>
      BY <2>1, <2>3, <2>4, <3>2 DEF OppInv, MemoryOK
    <3> QED
      BY <3>1, <3>2
  <2> QED
    BY <2>1, <2>5, <2>6, MemoryStep
<1>2. CASE DeleteMemory(c)
  <2> DEFINE key == calls[c].key
             opp == Head(At(key))
             next == [NoCall EXCEPT !.pc = "tellGone", !.opp = opp]
  <2>1. /\ memory' = Restrict(memory, DOMAIN memory \ {key})
        /\ UNCHANGED <<rows, now, events>>
        /\ IF At(key) = <<>> THEN Return(c) ELSE Proceed(c, next)
    BY <1>2 DEF DeleteMemory
  <2>2. Known' = Known
    BY <2>1 DEF Known
  <2>3. At(key) # <<>> => opp \in Known
    <3>1. At(key) \in Seq(OfKey(Known, key))
      BY AtIs DEF OppInv
    <3>2. At(key) # <<>> => opp \in OfKey(Known, key)
      BY <3>1
    <3> QED
      BY <3>2 DEF OfKey
  <2> HIDE DEF opp
  <2>4. At(key) # <<>> => CallOK(c, next, Known)
    BY <2>3 DEF CallOK, NoCall
  <2> HIDE DEF next, key
  <2>5. CallsOK'
    BY <2>1, <2>2, <2>4, ReturnOK, CallsProceed DEF OppInv
  <2>6. MemoryOK'
    BY <2>1, <2>2, RestrictedMemory DEF OppInv
  <2> QED
    BY <2>1, <2>5, <2>6, MemoryStep
<1> QED
  BY <1>1, <1>2

---------------------------------------------------------------------------
(* Steps that broadcast.                                                      *)
LEMMA EventTyped ==
  ASSUME NEW kind \in {"new", "gone"}, NEW key \in Keys, NEW id \in Nat
  PROVE  Event(kind, key, id) \in Events
<1>1. PICK create \in Creates : create.key = key
  BY DEF Keys
<1>2. (CHOOSE x \in Creates : x.key = key) \in Creates
  BY <1>1
<1> QED
  BY <1>2 DEF Event, Events, ChainOf

LEMMA SentTyped ==
  ASSUME EventsOK, UNCHANGED placed, NEW event \in Events, Send(event)
  PROVE  EventsOK'
  BY DEF EventsOK, Send

LEMMA TellsTyped ==
  ASSUME OppInv, NEW c \in Tasks, UNCHANGED placed, TellNew(c) \/ TellGone(c)
  PROVE  OppInv'
<1>0. CallOK(c, calls[c], Known) /\ {"pc", "opp", "left"} \subseteq DOMAIN calls[c]
      /\ calls[c].left \subseteq Known
  BY DEF OppInv, CallsOK, CallOK
<1>1. UNCHANGED <<memory, rows, now>> /\ calls[c].pc \in {"tell", "tellGone"}
  BY DEF TellNew, TellGone
<1>2. calls[c].opp \in Known /\ calls[c].opp.create.key \in Keys /\ calls[c].opp.id \in Nat
  BY <1>0, <1>1 DEF CallOK, NoCall, Known, Keys
<1>3. EventsOK'
  <2>1. \E kind \in {"new", "gone"}, id \in Nat : Send(Event(kind, calls[c].opp.create.key, id))
    BY <1>2 DEF TellNew, TellGone
  <2> QED
    BY <1>2, <2>1, EventTyped, SentTyped DEF OppInv
<1>4. Known' = Known
  BY <1>1 DEF Known
<1>5. CallsOK'
  <2>1. CASE TellGone(c)
    BY <1>4, <2>1, ReturnOK DEF TellGone, OppInv
  <2>2. CASE TellNew(c)
    <3> DEFINE next == [calls[c] EXCEPT !.pc = "quoted"]
    <3>1. Proceed(c, NoCall) \/ (calls[c].opp.create.kind = "swap" /\ Proceed(c, next))
      BY <2>2 DEF TellNew
    <3>2. calls[c].opp.create.kind = "swap" => CallOK(c, next, Known)
      BY <1>0, <1>2 DEF CallOK
    <3> HIDE DEF next
    <3> QED
      BY <1>4, <3>1, <3>2, NoCallOK, CallsProceed DEF OppInv
  <2> QED
    BY <2>1, <2>2
<1> QED
  BY <1>1, <1>3, <1>4, <1>5, MemorySame DEF OppInv, RowsOK
---------------------------------------------------------------------------
LEMMA InitOpp == Init => OppInv
<1> SUFFICES ASSUME Init PROVE OppInv
  OBVIOUS
<1> USE DEF Init, OppInit
<1>1. RowsOK
  <2>1. DOMAIN rows = 1..0
    OBVIOUS
  <2> QED
    BY <2>1 DEF RowsOK
<1>2. MemoryOK
  BY DEF MemoryOK
<1>3. CallsOK
  BY NoCallOK DEF CallsOK
<1>4. EventsOK
  BY DEF EventsOK, ConnInit
<1> QED
  BY <1>1, <1>2, <1>3, <1>4 DEF OppInv

LEMMA OppSame == ASSUME OppInv, UNCHANGED <<oppVars, placed>> PROVE OppInv'
<1>1. UNCHANGED <<memory, rows, calls, now, events, placed>>
  BY DEF oppVars
<1>2. Known' = Known
  BY <1>1 DEF Known
<1> QED
  BY <1>1, <1>2, CallsSame, CallStep DEF OppInv

LEMMA OppStepTyped ==
  ASSUME OppInv, UNCHANGED placed, OppStep
  PROVE  OppInv'
<1>1. CASE \E c \in Free(Restrict(calls, Calls), NoCall) :
             \/ \E create \in Creates : PostQuote(c, create)
                                        \/ \E t \in DOMAIN tokens : PostOpportunity(c, t, create)
             \/ \E key \in Keys, t \in DOMAIN tokens : DeleteOpportunities(c, t, key)
  <2>1. PICK c \in Calls :
             \/ \E create \in Creates : PostQuote(c, create)
                                        \/ \E t \in DOMAIN tokens : PostOpportunity(c, t, create)
             \/ \E key \in Keys, t \in DOMAIN tokens : DeleteOpportunities(c, t, key)
    BY <1>1 DEF Free, Restrict
  <2>2. \/ \E create \in Creates : AssessAction(c, create)
        \/ \E key \in Keys, t \in DOMAIN tokens : DeleteOpportunities(c, t, key)
    BY <2>1 DEF PostQuote, PostOpportunity
  <2> QED
    BY <2>2, BeginsTyped
<1>2. ASSUME NEW c \in Calls,
             \/ AddRow(c) \/ AddMemory(c) \/ RefreshInMemoryOpportunity(c) \/ TellNew(c)
             \/ EndQuote(c) \/ DeleteRows(c) \/ DeleteMemory(c) \/ RequestDropped(c)
      PROVE  OppInv'
  <2>1. c \in Tasks
    BY DEF Tasks
  <2> QED
    BY <1>2, <2>1, AddRowTyped, AdditionsTyped, TellsTyped, CallsTyped, MarksTyped, RemovalsTyped
<1>3. ASSUME NEW c \in Tasks, DropRow(c) \/ DropMemory(c) \/ TellGone(c) \/ OppQueryFails(c)
      PROVE  OppInv'
  BY <1>3, MarksTyped, RemovalsTyped, TellsTyped, CallsTyped
<1>4. CASE CheckKey(Loop) \/ StartRound \/ Visit \/ Tick
  BY <1>4, CallsTyped, RoundTyped, TickTyped DEF Tasks
<1> QED
  BY <1>1, <1>2, <1>3, <1>4 DEF OppStep

LEMMA ConnStepTyped ==
  ASSUME OppInv, OwnInv, ConnStep, UNCHANGED oppVars
  PROVE  OppInv'
<1>1. placed' \subseteq Conns \X Nat
  <2>1. CASE \E task \in deferred : RunDeferred(task)
    <3>1. PICK task \in deferred : RunDeferred(task)
      BY <2>1
    <3>2. placed' \subseteq placed \cup {BidOf(task)}
      BY <3>1 DEF RunDeferred
    <3>3. task.conn \in Conns /\ task.request.n \in Nat
      BY DEF OwnInv, OwnDeferred, Posted
    <3>4. BidOf(task) \in Conns \X Nat
      BY <3>3 DEF BidOf
    <3> QED
      BY <3>2, <3>4 DEF OppInv, EventsOK
  <2>2. CASE ~(\E task \in deferred : RunDeferred(task))
    <3>1. UNCHANGED placed
      <4>1. ASSUME NEW c \in Conns,
                   \/ \E ip \in Ips, t \in Tokens \cup {NoToken} : GetNewSubscriberId(c, ip, t)
                   \/ UpgradeFails(c) \/ Open(c) \/ NetworkLost(c)
                   \/ HandleUpdate(c) \/ Lags(c) \/ HandleClientMessage(c) \/ SpawnDeferred(c)
            PROVE  UNCHANGED placed
        BY <4>1 DEF GetNewSubscriberId, UpgradeFails, Open, NetworkLost, HandleUpdate, Lags,
           HandleClientMessage, SpawnDeferred
      <4>2. ASSUME NEW c \in Conns,
                   \/ HandleResponse(c) \/ PingTick(c) \/ ExitTick(c)
                   \/ \E body \in Bodies : Request(c, body)
                   \/ \E n \in DOMAIN cli[c].callers : CallerTimesOut(c, n)
                   \/ ClientReceives(c) \/ ClientGivesUp(c)
            PROVE  UNCHANGED placed
        BY <4>2 DEF HandleResponse, PingTick, ExitTick, Request, CallerTimesOut, ClientReceives, ClientGivesUp
      <4>3. ASSUME NEW task \in deferred, RespondDeferred(task)
            PROVE  UNCHANGED placed
        BY <4>3 DEF RespondDeferred
      <4> QED
        BY <2>2, <4>1, <4>2, <4>3 DEF ConnStep
    <3> QED
      BY <3>1 DEF OppInv, EventsOK
  <2> QED
    BY <2>1, <2>2
<1>2. UNCHANGED <<memory, rows, calls, now, events>>
  BY DEF oppVars
<1>3. Known' = Known
  BY <1>2 DEF Known
<1> QED
  BY <1>1, <1>2, <1>3, MemorySame, CallsSame DEF OppInv, RowsOK, EventsOK

LEMMA NextOpp == OppInv /\ OwnInv /\ [Next]_vars => OppInv'
<1> SUFFICES ASSUME OppInv, OwnInv, [Next]_vars PROVE OppInv'
  OBVIOUS
<1>1. CASE VerificationPanics
  <2>1. /\ calls' = [calls EXCEPT ![Loop] = NoCall]
        /\ UNCHANGED <<memory, rows, now, events, placed>>
    BY <1>1 DEF VerificationPanics, connVars
  <2>2. CallsOK'
    <3>1. Known' = Known
      BY <2>1 DEF Known
    <3> QED
      BY <2>1, <3>1, NoCallOK DEF OppInv, CallsOK, Tasks
  <2> QED
    BY <2>1, <2>2, CallStep
<1>2. CASE Completes \/ Crash
  <2>1. OppStops /\ UNCHANGED placed
    BY <1>2 DEF Completes, Crash, Down, ConnStops
  <2>2. UNCHANGED <<rows, now>> /\ memory' = <<>> /\ events' = <<>>
    BY <2>1 DEF OppStops
  <2>3. CallsOK'
    BY <2>1, NoCallOK DEF OppStops, CallsOK, Tasks
  <2>4. MemoryOK'
    BY <2>2 DEF MemoryOK
  <2>5. EventsOK'
    BY <2>1, <2>2 DEF OppInv, EventsOK
  <2> QED
    BY <2>2, <2>3, <2>4, <2>5 DEF OppInv, RowsOK
<1>3. CASE OfOpp(OppStep)
  BY <1>3, OppStepTyped DEF OfOpp, connVars
<1>4. CASE OfConn(ConnStep)
  BY <1>4, ConnStepTyped DEF OfConn
<1>5. CASE OfTables(DeletionStep) \/ OfTables(ReadStep)
  BY <1>5, DeletionTyped DEF OfTables, connVars
<1>6. CASE BroadcastUpdate /\ UNCHANGED <<memory, rows, calls, now>>
  <2>1. \E event \in Events : Send(event)
    BY <1>6 DEF BroadcastUpdate, Events, OppInv, EventsOK
  <2>2. UNCHANGED <<placed, memory, rows, calls, now>>
    BY <1>6 DEF BroadcastUpdate, connVars
  <2>3. EventsOK'
    BY <2>1, <2>2, SentTyped DEF OppInv
  <2>4. Known' = Known
    BY <2>2 DEF Known
  <2> QED
    BY <2>2, <2>3, <2>4, MemorySame, CallsSame DEF OppInv, RowsOK
<1>7. CASE UNCHANGED <<oppVars, placed>>
  BY <1>7, OppSame
<1>8. \/ VerificationPanics \/ Completes \/ Crash \/ OfOpp(OppStep) \/ OfConn(ConnStep)
      \/ OfTables(DeletionStep) \/ OfTables(ReadStep)
      \/ BroadcastUpdate /\ UNCHANGED <<memory, rows, calls, now>>
      \/ UNCHANGED <<oppVars, placed>>
  BY DEF Next, vars, connVars, OfServer, StartsAgain, OfAccess, OfHistory, OfSimulator
<1> QED
  BY <1>1, <1>2, <1>3, <1>4, <1>5, <1>6, <1>7, <1>8

LEMMA SpecOpp == Spec => []OppInv
<1> QED
  BY InitOpp, NextOpp, SpecOwn, PTL DEF Spec
---------------------------------------------------------------------------
(* A Subscriber has read the channel up to its position, keeps from where on  *)
(* its client is owed the updates of each chain and each bid, and has sent    *)
(* them in order.                                                             *)
OwedTo(s, sent) ==
  {i \in 1..s.pos :
     IF sent[i].kind = "bid" THEN sent[i].id \in s.bids /\ i > s.told[sent[i].id]
     ELSE sent[i].chain \in s.chains /\ i > s.since[sent[i].chain]}

RelevantTo(s, event) == IF event.kind = "bid" THEN event.id \in s.bids ELSE event.chain \in s.chains

Marked(s) ==
  /\ s.pos \in Nat /\ s.got \in Seq(Nat)
  /\ DOMAIN s.since = s.chains
  /\ DOMAIN s.told = s.bids /\ \A bid \in s.bids : s.told[bid] \in 0..s.pos

InOrder(s) ==
  /\ \A i \in 1..Len(s.got) : s.got[i] \in 1..s.pos
  /\ \A i, j \in 1..Len(s.got) : i < j => s.got[i] < s.got[j]

Complete(s, sent) ==
  /\ OwedTo(s, sent) \subseteq ToSet(s.got)
  /\ \A i \in ToSet(s.got) : sent[i].kind = "bid" => i \in OwedTo(s, sent)

Follows(s, sent) == s.pos <= Len(sent) /\ Marked(s) /\ InOrder(s) /\ Complete(s, sent)

GapInv == \A c \in Conns : IsOpen(c) => Follows(sub[c], events)

(* What is read stays, whatever is sent after it.                             *)
LEMMA FollowsAppend ==
  ASSUME NEW T, NEW sent \in Seq(T), NEW event \in T, NEW s, Follows(s, sent)
  PROVE  Follows(s, Append(sent, event))
<1> DEFINE longer == Append(sent, event)
<1>1. /\ Len(sent) \in Nat /\ Len(longer) = Len(sent) + 1
      /\ \A i \in 1..Len(sent) : longer[i] = sent[i]
  OBVIOUS
<1>2. s.pos \in Nat /\ s.pos <= Len(sent) /\ s.pos <= Len(longer)
  BY <1>1 DEF Follows, Marked
<1> HIDE DEF longer
<1>3. OwedTo(s, longer) = OwedTo(s, sent)
  <2>1. \A i \in 1..s.pos : longer[i] = sent[i]
    BY <1>1, <1>2
  <2> QED
    BY <2>1 DEF OwedTo
<1>4. ToSet(s.got) \subseteq 1..s.pos
  BY DEF Follows, Marked, InOrder, ToSet
<1>5. Complete(s, longer)
  <2>1. \A i \in ToSet(s.got) : longer[i] = sent[i]
    BY <1>1, <1>2, <1>4
  <2> QED
    BY <1>3, <2>1 DEF Follows, Complete
<1> QED
  BY <1>2, <1>5 DEF Follows, longer

(* Changes that the client's updates do not depend on.                        *)
LEMMA FollowsSame ==
  ASSUME NEW s, NEW r, NEW sent, Follows(s, sent), r.pos = s.pos, r.chains = s.chains, r.bids = s.bids,
         r.since = s.since, r.told = s.told, r.got = s.got
  PROVE  Follows(r, sent)
<1>1. OwedTo(r, sent) = OwedTo(s, sent)
  BY DEF OwedTo
<1> QED
  BY <1>1 DEF Follows, Marked, InOrder, Complete

LEMMA FollowsNew ==
  ASSUME NEW T, NEW sent \in Seq(T), NEW s, s.pos = Len(sent), s.chains = {}, s.bids = {},
         s.since = <<>>, s.told = <<>>, s.got = <<>>
  PROVE  Follows(s, sent)
<1>1. OwedTo(s, sent) = {}
  BY DEF OwedTo
<1> QED
  BY <1>1 DEF Follows, Marked, InOrder, Complete, ToSet

(* One more update is read.                                                   *)
LEMMA FollowsUpdate ==
  ASSUME NEW T, NEW sent \in Seq(T), NEW s, NEW r, Follows(s, sent), s.pos + 1 <= Len(sent),
         r.pos = s.pos + 1, r.chains = s.chains, r.bids = s.bids, r.since = s.since, r.told = s.told,
         r.got = IF RelevantTo(s, sent[s.pos + 1]) THEN Append(s.got, s.pos + 1) ELSE s.got
  PROVE  Follows(r, sent)
<1> DEFINE next == s.pos + 1
           relevant == RelevantTo(s, sent[next])
<1>1. s.pos \in Nat /\ s.got \in Seq(Nat) /\ next \in Nat /\ Len(s.got) \in Nat
  BY DEF Follows, Marked
<1>2. 1..r.pos = (1..s.pos) \cup {next} /\ next \notin 1..s.pos
  BY <1>1
<1>3. Marked(r)
  <2>1. r.pos \in Nat /\ r.got \in Seq(Nat)
    BY <1>1
  <2>2. \A bid \in r.bids : r.told[bid] \in 0..r.pos
    BY <1>1 DEF Follows, Marked
  <2> QED
    BY <2>1, <2>2 DEF Follows, Marked
<1>4. InOrder(r)
  <2>1. CASE relevant
    <3>1. /\ Len(r.got) = Len(s.got) + 1 /\ r.got[Len(s.got) + 1] = next
          /\ \A i \in 1..Len(s.got) : r.got[i] = s.got[i]
      BY <1>1, <2>1
    <3>2. \A i \in 1..Len(r.got) : i \in 1..Len(s.got) \/ i = Len(s.got) + 1
      BY <1>1, <3>1
    <3>3. \A i \in 1..Len(r.got) : r.got[i] \in 1..r.pos
      BY <1>1, <1>2, <3>1, <3>2 DEF Follows, InOrder
    <3>4. ASSUME NEW i \in 1..Len(r.got), NEW j \in 1..Len(r.got), i < j PROVE r.got[i] < r.got[j]
      <4>1. i \in 1..Len(s.got) /\ s.got[i] \in 1..s.pos
        BY <1>1, <3>1, <3>4 DEF Follows, InOrder
      <4>2. CASE j \in 1..Len(s.got)
        BY <3>1, <3>4, <4>1, <4>2 DEF Follows, InOrder
      <4>3. CASE j = Len(s.got) + 1
        BY <1>1, <3>1, <4>1, <4>3
      <4> QED
        BY <3>2, <4>2, <4>3
    <3> QED
      BY <3>3, <3>4 DEF InOrder
  <2>2. CASE ~relevant
    BY <1>1, <1>2, <2>2 DEF Follows, InOrder
  <2> QED
    BY <2>1, <2>2
<1>5. OwedTo(r, sent) \subseteq OwedTo(s, sent) \cup (IF relevant THEN {next} ELSE {})
  <2>1. ASSUME NEW i \in OwedTo(r, sent), i # next PROVE i \in OwedTo(s, sent)
    BY <1>2, <2>1 DEF OwedTo
  <2>2. next \in OwedTo(r, sent) => relevant
    BY DEF OwedTo, RelevantTo
  <2> QED
    BY <2>1, <2>2
<1>6. OwedTo(s, sent) \subseteq OwedTo(r, sent)
  BY <1>2 DEF OwedTo
<1>7. ToSet(r.got) = ToSet(s.got) \cup (IF relevant THEN {next} ELSE {})
  <2>1. \A q \in Seq(Nat) : ToSet(Append(q, next)) = ToSet(q) \cup {next}
    <3> TAKE q \in Seq(Nat)
    <3>1. /\ DOMAIN q = 1..Len(q) /\ DOMAIN Append(q, next) = 1..(Len(q) + 1) /\ Len(q) \in Nat
          /\ Append(q, next)[Len(q) + 1] = next /\ \A i \in 1..Len(q) : Append(q, next)[i] = q[i]
      BY <1>1
    <3>2. 1..(Len(q) + 1) = (1..Len(q)) \cup {Len(q) + 1}
      BY <3>1
    <3> HIDE DEF next
    <3> QED
      BY <3>1, <3>2 DEF ToSet
  <2> QED
    BY <1>1, <2>1
<1>8. relevant /\ sent[next].kind = "bid" => next \in OwedTo(r, sent)
  BY <1>1, <1>2 DEF OwedTo, Follows, Marked, RelevantTo
<1>9. Complete(r, sent)
  <2> HIDE DEF next
  <2> QED
    BY <1>5, <1>6, <1>7, <1>8 DEF Follows, Complete
<1> QED
  BY <1>3, <1>4, <1>9 DEF Follows
(* The client asks for more chains: what it is owed of them begins now.       *)
LEMMA FollowsSubscribe ==
  ASSUME NEW s, NEW r, NEW sent, Follows(s, sent), NEW chains,
         r.pos = s.pos, r.chains = s.chains \cup chains, r.bids = s.bids,
         r.since = Merge(s.since, [ch \in chains |-> s.pos]), r.told = s.told, r.got = s.got
  PROVE  Follows(r, sent)
<1>1. DOMAIN s.since = s.chains /\ s.pos \in Nat
  BY DEF Follows, Marked
<1>2. DOMAIN r.since = r.chains
      /\ \A ch \in r.chains : r.since[ch] = IF ch \in s.chains THEN s.since[ch] ELSE s.pos
  BY <1>1 DEF Merge
<1>3. OwedTo(r, sent) = OwedTo(s, sent)
  BY <1>1, <1>2 DEF OwedTo
<1> QED
  BY <1>2, <1>3 DEF Follows, Marked, InOrder, Complete

LEMMA FollowsUnsubscribe ==
  ASSUME NEW s, NEW r, NEW sent, Follows(s, sent), NEW chains,
         r.pos = s.pos, r.chains = s.chains \ chains, r.bids = s.bids,
         r.since = Restrict(s.since, DOMAIN s.since \ chains), r.told = s.told, r.got = s.got
  PROVE  Follows(r, sent)
<1>1. DOMAIN r.since = r.chains /\ \A ch \in r.chains : r.since[ch] = s.since[ch]
  BY DEF Follows, Marked, Restrict
<1>2. /\ OwedTo(r, sent) \subseteq OwedTo(s, sent)
      /\ \A i \in OwedTo(s, sent) : sent[i].kind = "bid" => i \in OwedTo(r, sent)
  BY <1>1 DEF OwedTo
<1> QED
  BY <1>1, <1>2 DEF Follows, Marked, InOrder, Complete

(* The client is told of a bid.                                               *)
LEMMA FollowsTold ==
  ASSUME NEW s, NEW r, NEW sent, Follows(s, sent), NEW bids,
         r.pos = s.pos, r.chains = s.chains, r.bids = s.bids \cup bids, r.since = s.since,
         r.told = Merge(s.told, [bid \in bids |-> s.pos]), r.got = s.got
  PROVE  Follows(r, sent)
<1>1. DOMAIN s.told = s.bids /\ s.pos \in Nat /\ \A bid \in s.bids : s.told[bid] \in 0..s.pos
  BY DEF Follows, Marked
<1>2. DOMAIN r.told = r.bids
      /\ \A bid \in r.bids : r.told[bid] = IF bid \in s.bids THEN s.told[bid] ELSE s.pos
  BY <1>1 DEF Merge
<1>3. OwedTo(r, sent) = OwedTo(s, sent)
  BY <1>1, <1>2 DEF OwedTo
<1>4. \A bid \in r.bids : r.told[bid] \in 0..r.pos
  BY <1>1, <1>2
<1> QED
  BY <1>2, <1>3, <1>4 DEF Follows, Marked, InOrder, Complete

---------------------------------------------------------------------------
LEMMA InitGap == Init => GapInv
  BY DEF Init, ConnInit, NoSub, GapInv, IsOpen

(* Steps on one connection leave the others alone.                            *)
LEMMA OneFollows ==
  ASSUME OwnInv, GapInv, UNCHANGED events, NEW c \in Conns, NEW s, sub' = [sub EXCEPT ![c] = s],
         s.state \in {"open", "acquiring"} => Follows(s, events)
  PROVE  GapInv'
  BY DEF OwnInv, GapInv, IsOpen

LEMMA ClosesFollow ==
  ASSUME OwnInv, GapInv, UNCHANGED events, NEW c \in Conns, CloseSubscriber(c)
  PROVE  GapInv'
<1> DEFINE s == [state |-> "closed"]
<1>1. s.state \notin {"open", "acquiring"}
  OBVIOUS
<1> HIDE DEF s
<1> QED
  BY <1>1, OneFollows DEF CloseSubscriber, s

(* What an open Subscriber is made of.                                        *)
LEMMA OpenIs ==
  ASSUME OwnInv, GapInv, NEW c \in Conns, IsOpen(c)
  PROVE  /\ DOMAIN sub = Conns /\ DOMAIN sub[c] = SubscriberFields /\ Follows(sub[c], events)
  BY DEF OwnInv, OwnSubscriber, GapInv, IsOpen

LEMMA OpensFollow ==
  ASSUME OwnInv, OppInv, GapInv, UNCHANGED events, NEW c \in Conns,
         \/ \E ip \in Ips, t \in Tokens \cup {NoToken} : GetNewSubscriberId(c, ip, t)
         \/ UpgradeFails(c) \/ Open(c)
  PROVE  GapInv'
<1>1. ASSUME NEW ip, NEW t, GetNewSubscriberId(c, ip, t) PROVE GapInv'
  <2> DEFINE s == [state |-> "upgrading", ip |-> ip, token |-> t]
  <2>1. s.state \notin {"open", "acquiring"} /\ sub' = [sub EXCEPT ![c] = s]
    BY <1>1 DEF GetNewSubscriberId
  <2> HIDE DEF s
  <2> QED
    BY <2>1, OneFollows
<1>2. CASE UpgradeFails(c)
  <2> DEFINE s == [state |-> "closed"]
  <2>1. s.state \notin {"open", "acquiring"} /\ sub' = [sub EXCEPT ![c] = s]
    BY <1>2 DEF UpgradeFails
  <2> HIDE DEF s
  <2> QED
    BY <2>1, OneFollows
<1>3. CASE Open(c)
  <2> DEFINE s == [state |-> "open", ip |-> sub[c].ip, token |-> sub[c].token, pos |-> Len(events),
                   chains |-> {}, bids |-> {}, responded |-> TRUE, responses |-> <<>>,
                   acquiring |-> <<>>, since |-> <<>>, told |-> <<>>, got |-> <<>>]
  <2>1. /\ s.pos = Len(events) /\ s.chains = {} /\ s.bids = {} /\ s.since = <<>> /\ s.told = <<>>
        /\ s.got = <<>> /\ sub' = [sub EXCEPT ![c] = s]
    BY <1>3 DEF Open
  <2> HIDE DEF s
  <2>2. Follows(s, events)
    BY <2>1, FollowsNew DEF OppInv, EventsOK
  <2> QED
    BY <2>1, <2>2, OneFollows
<1> QED
  BY <1>1, <1>2, <1>3

LEMMA UpdatesFollow ==
  ASSUME OwnInv, OppInv, GapInv, UNCHANGED events, NEW c \in Conns,
         HandleUpdate(c) \/ Lags(c) \/ PingTick(c) \/ ExitTick(c)
  PROVE  GapInv'
<1>0. Selecting(c) /\ IsOpen(c)
  BY DEF HandleUpdate, Lags, PingTick, ExitTick, Selecting, IsOpen
<1>1. DOMAIN sub = Conns /\ DOMAIN sub[c] = SubscriberFields /\ Follows(sub[c], events)
  BY <1>0, OpenIs
<1>2. CASE HandleUpdate(c)
  <2> DEFINE next == sub[c].pos + 1
             relevant == Relevant(c, events[next])
             got == IF relevant THEN Append(sub[c].got, next) ELSE sub[c].got
             s == [sub[c] EXCEPT !.pos = next, !.got = got]
  <2>1. sub' = [sub EXCEPT ![c] = s] /\ next <= Len(events)
    BY <1>1, <1>2 DEF HandleUpdate
  <2>2. relevant = RelevantTo(sub[c], events[next])
    <3> HIDE DEF next
    <3> QED
      BY DEF Relevant, RelevantTo
  <2> HIDE DEF relevant
  <2>3. /\ s.pos = next /\ s.chains = sub[c].chains /\ s.bids = sub[c].bids /\ s.since = sub[c].since
        /\ s.told = sub[c].told /\ s.got = got
    BY <1>1 DEF SubscriberFields
  <2> HIDE DEF s
  <2>4. Follows(s, events)
    BY <1>1, <2>1, <2>2, <2>3, FollowsUpdate DEF OppInv, EventsOK
  <2> HIDE DEF next, got
  <2> QED
    BY <2>1, <2>4, OneFollows
<1>3. CASE CloseSubscriber(c)
  BY <1>3, ClosesFollow
<1>4. CASE PingTick(c) /\ ~CloseSubscriber(c)
  <2> DEFINE s == [sub[c] EXCEPT !.responded = FALSE]
  <2>1. sub' = [sub EXCEPT ![c] = s]
    BY <1>1, <1>4 DEF PingTick
  <2>2. /\ s.pos = sub[c].pos /\ s.chains = sub[c].chains /\ s.bids = sub[c].bids
        /\ s.since = sub[c].since /\ s.told = sub[c].told /\ s.got = sub[c].got
    BY <1>1 DEF SubscriberFields
  <2> HIDE DEF s
  <2>3. Follows(s, events)
    BY <1>1, <2>2, FollowsSame
  <2> QED
    BY <2>1, <2>3, OneFollows
<1> QED
  BY <1>2, <1>3, <1>4 DEF Lags, ExitTick
LEMMA MessagesFollow ==
  ASSUME OwnInv, OppInv, GapInv, UNCHANGED events, NEW c \in Conns, HandleClientMessage(c)
  PROVE  GapInv'
<1> DEFINE message == Head(net[c].toServer)
<1>0. Selecting(c) /\ IsOpen(c)
  BY DEF HandleClientMessage, Selecting, IsOpen
<1>1. DOMAIN sub = Conns /\ DOMAIN sub[c] = SubscriberFields /\ Follows(sub[c], events)
  BY <1>0, OpenIs
<1>2. \/ Subscribe(c, message)
      \/ Unsubscribe(c, message)
      \/ sub' = [sub EXCEPT ![c].state = "acquiring", ![c].acquiring = <<message>>]
      \/ sub' = [sub EXCEPT ![c].responded = TRUE]
      \/ CloseSubscriber(c)
  BY DEF HandleClientMessage
<1> HIDE DEF message
<1>3. CASE Subscribe(c, message)
  <2> DEFINE ok == message.chains \subseteq Chains
             chains == IF ok THEN sub[c].chains \cup message.chains ELSE sub[c].chains
             since == IF ok THEN Merge(sub[c].since, [ch \in message.chains |-> sub[c].pos])
                      ELSE sub[c].since
             responses == Pushed(sub[c].responses, Response(message, IF ok THEN "ok" ELSE "error"))
             s == [sub[c] EXCEPT !.chains = chains, !.since = since, !.responses = responses]
  <2>1. sub' = [sub EXCEPT ![c] = s]
    BY <1>1, <1>3 DEF Subscribe
  <2> HIDE DEF responses
  <2>2. /\ s.pos = sub[c].pos /\ s.chains = chains /\ s.bids = sub[c].bids
        /\ s.since = since /\ s.told = sub[c].told /\ s.got = sub[c].got
    <3> HIDE DEF chains, since
    <3> QED
      BY <1>1 DEF SubscriberFields
  <2> HIDE DEF s
  <2>3. CASE ok
    <3>1. chains = sub[c].chains \cup message.chains
          /\ since = Merge(sub[c].since, [ch \in message.chains |-> sub[c].pos])
      BY <2>3
    <3> HIDE DEF chains, since
    <3>2. Follows(s, events)
      BY <1>1, <2>2, <3>1, FollowsSubscribe
    <3> QED
      BY <2>1, <3>2, OneFollows
  <2>4. CASE ~ok
    <3>1. chains = sub[c].chains /\ since = sub[c].since
      BY <2>4
    <3> HIDE DEF chains, since
    <3>2. Follows(s, events)
      BY <1>1, <2>2, <3>1, FollowsSame
    <3> QED
      BY <2>1, <3>2, OneFollows
  <2> QED
    BY <2>3, <2>4
<1>4. CASE Unsubscribe(c, message)
  <2> DEFINE chains == sub[c].chains \ message.chains
             since == Restrict(sub[c].since, DOMAIN sub[c].since \ message.chains)
             responses == Pushed(sub[c].responses, Response(message, "ok"))
             s == [sub[c] EXCEPT !.chains = chains, !.since = since, !.responses = responses]
  <2>1. sub' = [sub EXCEPT ![c] = s]
    BY <1>1, <1>4 DEF Unsubscribe
  <2> HIDE DEF responses
  <2>2. /\ s.pos = sub[c].pos /\ s.chains = chains /\ s.bids = sub[c].bids
        /\ s.since = since /\ s.told = sub[c].told /\ s.got = sub[c].got
    <3> HIDE DEF chains, since
    <3> QED
      BY <1>1 DEF SubscriberFields
  <2> HIDE DEF s
  <2>3. Follows(s, events)
    BY <1>1, <2>2, FollowsUnsubscribe
  <2> QED
    BY <2>1, <2>3, OneFollows
<1>5. ASSUME NEW s, sub' = [sub EXCEPT ![c] = s], s.pos = sub[c].pos, s.chains = sub[c].chains,
             s.bids = sub[c].bids, s.since = sub[c].since, s.told = sub[c].told, s.got = sub[c].got
      PROVE  GapInv'
  BY <1>1, <1>5, FollowsSame, OneFollows
<1>6. CASE sub' = [sub EXCEPT ![c].state = "acquiring", ![c].acquiring = <<message>>]
  <2> DEFINE s == [sub[c] EXCEPT !.state = "acquiring", !.acquiring = <<message>>]
  <2>1. sub' = [sub EXCEPT ![c] = s]
    BY <1>1, <1>6
  <2>2. /\ s.pos = sub[c].pos /\ s.chains = sub[c].chains /\ s.bids = sub[c].bids
        /\ s.since = sub[c].since /\ s.told = sub[c].told /\ s.got = sub[c].got
    BY <1>1 DEF SubscriberFields
  <2> HIDE DEF s
  <2> QED
    BY <1>5, <2>1, <2>2
<1>7. CASE sub' = [sub EXCEPT ![c].responded = TRUE]
  <2> DEFINE s == [sub[c] EXCEPT !.responded = TRUE]
  <2>1. sub' = [sub EXCEPT ![c] = s]
    BY <1>1, <1>7
  <2>2. /\ s.pos = sub[c].pos /\ s.chains = sub[c].chains /\ s.bids = sub[c].bids
        /\ s.since = sub[c].since /\ s.told = sub[c].told /\ s.got = sub[c].got
    BY <1>1 DEF SubscriberFields
  <2> HIDE DEF s
  <2> QED
    BY <1>5, <2>1, <2>2
<1> QED
  BY <1>2, <1>3, <1>4, <1>6, <1>7, ClosesFollow

LEMMA DeferredFollow ==
  ASSUME OwnInv, OppInv, GapInv, UNCHANGED events,
         \/ \E c \in Conns : SpawnDeferred(c) \/ HandleResponse(c)
         \/ \E task \in deferred : RespondDeferred(task)
  PROVE  GapInv'
<1>1. ASSUME NEW c \in Conns, IsOpen(c), NEW s, sub' = [sub EXCEPT ![c] = s], s.pos = sub[c].pos,
             s.chains = sub[c].chains, s.bids = sub[c].bids, s.since = sub[c].since,
             s.told = sub[c].told, s.got = sub[c].got
      PROVE  GapInv'
  BY <1>1, OpenIs, FollowsSame, OneFollows
<1>2. ASSUME NEW c \in Conns, SpawnDeferred(c) PROVE GapInv'
  <2> DEFINE s == [sub[c] EXCEPT !.state = "open", !.acquiring = <<>>]
  <2>0. IsOpen(c)
    BY <1>2 DEF SpawnDeferred, IsOpen
  <2>1. DOMAIN sub = Conns /\ DOMAIN sub[c] = SubscriberFields
    BY <2>0, OpenIs
  <2>2. sub' = [sub EXCEPT ![c] = s]
    BY <1>2, <2>1 DEF SpawnDeferred
  <2>3. /\ s.pos = sub[c].pos /\ s.chains = sub[c].chains /\ s.bids = sub[c].bids
        /\ s.since = sub[c].since /\ s.told = sub[c].told /\ s.got = sub[c].got
    BY <2>1 DEF SubscriberFields
  <2> HIDE DEF s
  <2> QED
    BY <1>1, <2>0, <2>2, <2>3
<1>3. ASSUME NEW c \in Conns, HandleResponse(c) PROVE GapInv'
  <2> DEFINE bids == {<<c, Head(sub[c].responses).to>>} \cap placed
             owned == sub[c].bids \cup bids
             told == Merge(sub[c].told, [bid \in bids |-> sub[c].pos])
             s == [sub[c] EXCEPT !.responses = Tail(sub[c].responses), !.bids = owned, !.told = told]
  <2>0. IsOpen(c)
    BY <1>3 DEF HandleResponse, Selecting, IsOpen
  <2>1. DOMAIN sub = Conns /\ DOMAIN sub[c] = SubscriberFields /\ Follows(sub[c], events)
    BY <2>0, OpenIs
  <2>2. sub' = [sub EXCEPT ![c] = s]
    BY <1>3, <2>1 DEF HandleResponse
  <2> HIDE DEF bids
  <2>3. /\ s.pos = sub[c].pos /\ s.chains = sub[c].chains /\ s.bids = owned
        /\ s.since = sub[c].since /\ s.told = told /\ s.got = sub[c].got
    <3> HIDE DEF owned, told
    <3> QED
      BY <2>1 DEF SubscriberFields
  <2> HIDE DEF s
  <2>4. Follows(s, events)
    BY <2>1, <2>3, FollowsTold
  <2> QED
    BY <2>2, <2>4, OneFollows
<1>4. ASSUME NEW task \in deferred, RespondDeferred(task) PROVE GapInv'
  <2> DEFINE c == task.conn
             responses == Pushed(sub[c].responses, Response(task.request, task.result))
             s == [sub[c] EXCEPT !.responses = responses]
  <2>0. c \in Conns
    BY DEF OwnInv, OwnDeferred
  <2>1. CASE IsOpen(c)
    <3>1. DOMAIN sub = Conns /\ DOMAIN sub[c] = SubscriberFields
      BY <2>0, <2>1, OpenIs
    <3>2. sub' = [sub EXCEPT ![c] = s]
      BY <1>4, <2>1, <3>1 DEF RespondDeferred
    <3> HIDE DEF responses
    <3>3. /\ s.pos = sub[c].pos /\ s.chains = sub[c].chains /\ s.bids = sub[c].bids
          /\ s.since = sub[c].since /\ s.told = sub[c].told /\ s.got = sub[c].got
      BY <3>1 DEF SubscriberFields
    <3> HIDE DEF s
    <3> QED
      BY <1>1, <2>0, <2>1, <3>2, <3>3
  <2>2. CASE ~IsOpen(c)
    BY <1>4, <2>2 DEF RespondDeferred, GapInv, IsOpen
  <2> QED
    BY <2>1, <2>2
<1> QED
  BY <1>2, <1>3, <1>4

---------------------------------------------------------------------------
(* Everything else leaves the Subscribers alone, or ends them.                *)
LEMMA SentFollows ==
  ASSUME OppInv, GapInv, UNCHANGED sub, NEW event \in Events, Send(event)
  PROVE  GapInv'
  BY FollowsAppend DEF OppInv, EventsOK, GapInv, IsOpen, Send

LEMMA StepSends ==
  ASSUME OppInv, [Next]_vars
  PROVE  UNCHANGED events \/ (\E event \in Events : Send(event)) \/ ConnStops
<1>1. CASE OfOpp(OppStep)
  <2>1. CASE \E c \in Tasks : TellNew(c) \/ TellGone(c)
    <3>1. PICK c \in Tasks : TellNew(c) \/ TellGone(c)
      BY <2>1
    <3>2. CallOK(c, calls[c], Known) /\ calls[c].pc \in {"tell", "tellGone"}
      BY <3>1 DEF OppInv, CallsOK, TellNew, TellGone
    <3>3. calls[c].opp.create.key \in Keys /\ calls[c].opp.id \in Nat
      BY <3>2, SMTT(20) DEF CallOK, NoCall, Known, Keys
    <3>4. \E kind \in {"new", "gone"}, id \in Nat : Send(Event(kind, calls[c].opp.create.key, id))
      BY <3>1, <3>3 DEF TellNew, TellGone
    <3> QED
      BY <3>3, <3>4, EventTyped
  <2>2. CASE ~(\E c \in Tasks : TellNew(c) \/ TellGone(c))
    <3>1. Calls \subseteq Tasks
      BY DEF Tasks
    <3>2. UNCHANGED events
      BY <1>1, <2>2, <3>1 DEF OfOpp, OppStep, PostQuote, PostOpportunity, AssessAction, DeleteOpportunities,
         AddRow, AddMemory, RefreshInMemoryOpportunity, EndQuote, DeleteRows, DeleteMemory, RequestDropped,
         DropRow, DropMemory, OppQueryFails, CheckKey, StartRound, Visit, Tick, Proceed, Goto, Return
    <3> QED
      BY <3>2
  <2> QED
    BY <2>1, <2>2
<1>2. CASE BroadcastUpdate
  BY <1>2 DEF BroadcastUpdate, Events, OppInv, EventsOK
<1>3. OfOpp(OppStep) \/ BroadcastUpdate \/ ConnStops \/ UNCHANGED events
  BY DEF Next, vars, oppVars, OfServer, VerificationPanics, Completes, Crash, Down, StartsAgain, OfAccess,
         OfConn, OfHistory, OfTables, OfSimulator
<1> QED
  BY <1>1, <1>2, <1>3

LEMMA NextGap == OwnInv /\ OppInv /\ GapInv /\ [Next]_vars => GapInv'
<1> SUFFICES ASSUME OwnInv, OppInv, GapInv, [Next]_vars PROVE GapInv'
  OBVIOUS
<1>1. CASE ConnStep /\ UNCHANGED events
  <2>1. ASSUME NEW c \in Conns,
               \/ \E ip \in Ips, t \in Tokens \cup {NoToken} : GetNewSubscriberId(c, ip, t)
               \/ UpgradeFails(c) \/ Open(c)
        PROVE  GapInv'
    BY <1>1, <2>1, OpensFollow
  <2>2. ASSUME NEW c \in Conns, HandleUpdate(c) \/ Lags(c) \/ PingTick(c) \/ ExitTick(c)
        PROVE  GapInv'
    BY <1>1, <2>2, UpdatesFollow
  <2>3. ASSUME NEW c \in Conns, HandleClientMessage(c) PROVE GapInv'
    BY <1>1, <2>3, MessagesFollow
  <2>4. ASSUME NEW c \in Conns, SpawnDeferred(c) \/ HandleResponse(c) PROVE GapInv'
    BY <1>1, <2>4, DeferredFollow
  <2>5. ASSUME NEW task \in deferred, RespondDeferred(task) PROVE GapInv'
    BY <1>1, <2>5, DeferredFollow
  <2>6. CASE UNCHANGED sub
    BY <1>1, <2>6 DEF GapInv, IsOpen
  <2>7. \/ UNCHANGED sub
        \/ \E task \in deferred : RespondDeferred(task)
        \/ \E c \in Conns :
             \/ \E ip \in Ips, t \in Tokens \cup {NoToken} : GetNewSubscriberId(c, ip, t)
             \/ UpgradeFails(c) \/ Open(c)
             \/ HandleUpdate(c) \/ Lags(c) \/ PingTick(c) \/ ExitTick(c)
             \/ HandleClientMessage(c) \/ SpawnDeferred(c) \/ HandleResponse(c)
    BY <1>1 DEF ConnStep, NetworkLost, Request, CallerTimesOut, ClientReceives, ClientGivesUp, RunDeferred
  <2> QED
    BY <2>1, <2>2, <2>3, <2>4, <2>5, <2>6, <2>7
<1>2. CASE ConnStops
  BY <1>2 DEF ConnStops, GapInv, IsOpen, NoSub
<1>3. CASE UNCHANGED sub /\ ~ConnStops
  <2>1. UNCHANGED events \/ \E event \in Events : Send(event)
    BY <1>3, StepSends
  <2> QED
    BY <1>3, <2>1, SentFollows DEF GapInv, IsOpen
<1>4. (ConnStep /\ UNCHANGED events) \/ ConnStops \/ UNCHANGED sub
  BY DEF Next, vars, connVars, oppVars, OfServer, VerificationPanics, Completes, Crash, Down, StartsAgain,
         OfAccess, OfOpp, OfConn, OfHistory, OfTables, OfSimulator, BroadcastUpdate
<1> QED
  BY <1>1, <1>2, <1>3, <1>4

LEMMA SpecGap == Spec => []GapInv
<1> QED
  BY InitGap, NextGap, SpecOwn, SpecOpp, PTL DEF Spec

(* As long as a connection is open its client was sent every update it is     *)
(* owed, in the order of the broadcasts, and none of a bid whose id it does   *)
(* not know yet (handle_update and handle_response of the Subscriber).        *)
THEOREM OpenHasNoGap == Spec => []NoGap
<1>1. GapInv => NoGap
  <2> SUFFICES ASSUME GapInv, NEW c \in Conns, IsOpen(c)
               PROVE  LET got == sub[c].got IN
                      /\ Owed(c) \subseteq ToSet(got)
                      /\ \A i, j \in 1..Len(got) : i < j => got[i] < got[j]
                      /\ \A i \in ToSet(got) : events[i].kind = "bid" => i \in Owed(c)
    BY DEF NoGap
  <2>1. Follows(sub[c], events)
    BY DEF GapInv
  <2>2. Owed(c) = OwedTo(sub[c], events)
    BY DEF Owed, OwedTo
  <2> QED
    BY <2>1, <2>2 DEF Follows, InOrder, Complete
<1> QED
  BY <1>1, SpecGap, PTL
---------------------------------------------------------------------------
(* A key's opportunities are live, or its clients have heard of it last that   *)
(* it is; and calls are at these steps of an addition or a removal of it.     *)
Live(key) == key \in DOMAIN memory
Told(key) == EventsOf(key) # <<>> /\ Last(EventsOf(key)).kind = "new"
CallAt(key, steps) == \E c \in Tasks : calls[c].pc \in steps /\ KeyOf(calls[c]) = key

(* Where no addition and removal overlapped, what memory has and what clients *)
(* heard differ only while a call is about to tell them.                      *)
ToldOf(key) ==
  /\ key \notin Adding(calls) \cap Removing(calls)
  /\ Live(key) /\ ~Told(key) => CallAt(key, {"tell"})
  /\ Told(key) /\ ~Live(key) => CallAt(key, {"check", "tellGone"})
  /\ CallAt(key, {"refresh", "tell"}) => Live(key)
  /\ CallAt(key, {"tellGone"}) => ~Live(key)

ToldInv == \A key \in Keys : KindOf(key) = "limo" /\ key \notin raced => ToldOf(key)

AddSteps == {"row", "memory", "refresh", "tell"}
RemoveSteps == {"deleteRows", "deleteMemory", "dropRow", "dropMemory", "check", "tellGone"}

LEMMA BusyIs ==
  ASSUME NEW key
  PROVE  /\ key \in Adding(calls) <=> CallAt(key, AddSteps)
         /\ key \in Removing(calls) <=> CallAt(key, RemoveSteps)
<1>1. ASSUME NEW c \in Tasks, calls[c].pc \in AddSteps
      PROVE  KeyOf(calls[c]) = calls[c].opp.create.key
  BY <1>1 DEF AddSteps, KeyOf
<1>2. key \in Adding(calls) <=> CallAt(key, AddSteps)
  BY <1>1 DEF Adding, CallAt, AddSteps
<1>3. key \in Removing(calls) <=> CallAt(key, RemoveSteps)
  BY DEF Removing, CallAt, RemoveSteps
<1> QED
  BY <1>2, <1>3

(* The events of a key.                                                       *)
About(key) == {e \in Events : e.kind \in {"new", "gone"} /\ e.key = key}

LEMMA EventsOfIs ==
  ASSUME NEW sent \in Seq(Events), NEW key
  PROVE  Selected(sent, {e \in ToSet(sent) : e.kind \in {"new", "gone"} /\ e.key = key})
           = Selected(sent, About(key))
<1> DEFINE S == {e \in ToSet(sent) : e.kind \in {"new", "gone"} /\ e.key = key}
<1>1. \A i \in 1..Len(sent) : sent[i] \in S <=> sent[i] \in About(key)
  <2>1. \A i \in 1..Len(sent) : sent[i] \in Events /\ sent[i] \in ToSet(sent)
    BY ToSetTyped
  <2> QED
    BY <2>1 DEF About
<1> HIDE DEF S
<1>2. Selected(sent, S) = Selected(sent, About(key))
  BY <1>1, SelectedSame
<1> QED
  BY <1>2 DEF S

LEMMA EventsOfSent ==
  ASSUME EventsOK, EventsOK', NEW event \in Events, Send(event), NEW key
  PROVE  /\ EventsOf(key) \in Seq(Events)
         /\ EventsOf(key)' = IF event \in About(key) THEN Append(EventsOf(key), event) ELSE EventsOf(key)
<1>1. events \in Seq(Events) /\ events' = Append(events, event)
  BY DEF EventsOK, Send
<1>2. EventsOf(key) = Selected(events, About(key)) /\ EventsOf(key)' = Selected(events', About(key))
  BY EventsOfIs DEF EventsOK, EventsOf
<1>3. Selected(Append(events, event), About(key))
        = IF event \in About(key) THEN Append(Selected(events, About(key)), event)
          ELSE Selected(events, About(key))
  BY <1>1, SelectedAppend
<1>4. Selected(events, About(key)) \in Seq(Events)
  BY <1>1, SelectedElements
<1> QED
  BY <1>1, <1>2, <1>3, <1>4

(* What clients heard of a key changes with the events of that key only.      *)
LEMMA ToldSent ==
  ASSUME EventsOK, EventsOK', NEW kind \in {"new", "gone"}, NEW k \in Keys, NEW id \in Nat,
         Send(Event(kind, k, id)), NEW key
  PROVE  Told(key)' <=> IF key = k THEN kind = "new" ELSE Told(key)
<1> DEFINE event == Event(kind, k, id)
           heard == EventsOf(key)
<1>1. event \in Events
  BY EventTyped
<1>2. event.kind = kind /\ (event \in About(key) <=> key = k)
  BY <1>1 DEF About, Event
<1> HIDE DEF event
<1>3. heard \in Seq(Events) /\ heard' = IF event \in About(key) THEN Append(heard, event) ELSE heard
  BY <1>1, EventsOfSent DEF event
<1> HIDE DEF heard
<1>4. /\ Append(heard, event) \in Seq(Events) /\ Len(Append(heard, event)) = Len(heard) + 1
      /\ Append(heard, event)[Len(heard) + 1] = event /\ Len(heard) \in Nat
  BY <1>1, <1>3
<1>5. Append(heard, event) # <<>> /\ Last(Append(heard, event)) = event
  BY <1>4 DEF Last
<1> QED
  BY <1>2, <1>3, <1>5 DEF Told, heard

LEMMA ToldOther ==
  ASSUME EventsOK, EventsOK', NEW event \in Events, event.kind \notin {"new", "gone"}, Send(event), NEW key
  PROVE  Told(key)' <=> Told(key)
<1>1. event \notin About(key)
  BY DEF About
<1>2. EventsOf(key)' = EventsOf(key)
  BY <1>1, EventsOfSent
<1> QED
  BY <1>2 DEF Told

LEMMA ToldSame == ASSUME UNCHANGED events, NEW key PROVE Told(key)' <=> Told(key)
  BY DEF Told, EventsOf, ToSet
---------------------------------------------------------------------------
(* A step of one call: what the others do stays.                              *)
Others(c, key, steps) == \E d \in Tasks \ {c} : calls[d].pc \in steps /\ KeyOf(calls[d]) = key

LEMMA CallsAt ==
  ASSUME CallsOK, NEW c \in Tasks, NEW next, Proceed(c, next), NEW key, NEW steps
  PROVE  /\ CallAt(key, steps) <=>
              Others(c, key, steps) \/ (calls[c].pc \in steps /\ KeyOf(calls[c]) = key)
         /\ CallAt(key, steps)' <=> Others(c, key, steps) \/ (next.pc \in steps /\ KeyOf(next) = key)
<1>1. /\ \A d \in Tasks \ {c} : calls'[d] = calls[d]
      /\ calls'[c] = next
  BY DEF Proceed, CallsOK
<1>2. KeyOf(calls[c])' = KeyOf(next) /\ \A d \in Tasks \ {c} : KeyOf(calls[d])' = KeyOf(calls[d])
  BY <1>1 DEF KeyOf
<1> QED
  BY <1>1, <1>2 DEF CallAt, Others, Tasks

LEMMA Unraced ==
  ASSUME NEW c \in Tasks, NEW next, Proceed(c, next), NEW key, key \notin raced'
  PROVE  /\ key \notin raced
         /\ ~(CallAt(key, AddSteps)' /\ CallAt(key, RemoveSteps)')
<1>1. key \notin raced /\ key \notin Adding(calls)' \cap Removing(calls)'
  BY DEF Proceed
<1>2. key \in Adding(calls)' <=> CallAt(key, AddSteps)'
  <2>1. ASSUME NEW d \in Tasks, calls'[d].pc \in AddSteps
        PROVE  KeyOf(calls[d])' = calls'[d].opp.create.key
    BY <2>1 DEF AddSteps, KeyOf
  <2> QED
    BY <2>1 DEF Adding, CallAt, AddSteps, Tasks
<1>3. key \in Removing(calls)' <=> CallAt(key, RemoveSteps)'
  BY DEF Removing, CallAt, RemoveSteps, Tasks, KeyOf
<1> QED
  BY <1>1, <1>2, <1>3

(* The parts of the invariant, as facts about the others and the call itself. *)
LEMMA ToldParts ==
  ASSUME NEW key, ToldOf(key)
  PROVE  /\ ~(CallAt(key, AddSteps) /\ CallAt(key, RemoveSteps))
         /\ Live(key) /\ ~Told(key) => CallAt(key, {"tell"})
         /\ Told(key) /\ ~Live(key) => CallAt(key, {"check", "tellGone"})
         /\ CallAt(key, {"refresh", "tell"}) => Live(key)
         /\ CallAt(key, {"tellGone"}) => ~Live(key)
  BY BusyIs DEF ToldOf

LEMMA ToldMade ==
  ASSUME NEW c \in Tasks, NEW next, Proceed(c, next), NEW key, key \notin raced',
         Live(key)' /\ ~Told(key)' => CallAt(key, {"tell"})',
         Told(key)' /\ ~Live(key)' => CallAt(key, {"check", "tellGone"})',
         CallAt(key, {"refresh", "tell"})' => Live(key)',
         CallAt(key, {"tellGone"})' => ~Live(key)'
  PROVE  ToldOf(key)'
<1>1. key \notin Adding(calls)' \cap Removing(calls)'
  BY DEF Proceed
<1> QED
  BY <1>1 DEF ToldOf

(* Steps that neither tell clients nor change memory.                         *)
LEMMA QuietStep ==
  ASSUME OppInv, ToldInv, NEW c \in Tasks, NEW next, Proceed(c, next), UNCHANGED <<memory, events>>,
         calls[c].pc \notin {"tell", "check", "tellGone"},
         next.pc \notin {"tell", "tellGone"},
         next.pc = "refresh" => Live(KeyOf(next))
  PROVE  ToldInv'
<1> SUFFICES ASSUME NEW key \in Keys, KindOf(key) = "limo", key \notin raced' PROVE ToldOf(key)'
  BY DEF ToldInv, KindOf, Keys
<1>1. key \notin raced
  BY Unraced
<1>2. ToldOf(key)
  BY <1>1 DEF ToldInv
<1>3. (Live(key)' <=> Live(key)) /\ (Told(key)' <=> Told(key))
  BY ToldSame DEF Live
<1>4. /\ CallAt(key, {"tell"}) => CallAt(key, {"tell"})'
      /\ CallAt(key, {"check", "tellGone"}) => CallAt(key, {"check", "tellGone"})'
      /\ CallAt(key, {"tellGone"})' => CallAt(key, {"tellGone"})
      /\ CallAt(key, {"refresh", "tell"})' => CallAt(key, {"refresh", "tell"}) \/ Live(key)
  BY CallsAt DEF OppInv
<1> QED
  BY <1>2, <1>3, <1>4, ToldParts, ToldMade
LEMMA ReturnIs ==
  ASSUME NEW c \in Tasks, Return(c)
  PROVE  \E next : Proceed(c, next) /\ next.pc \in {"idle", "visit"}
<1> DEFINE next == IF c = Loop THEN [NoCall EXCEPT !.pc = "visit", !.left = calls[c].left] ELSE NoCall
<1>1. next.pc \in {"idle", "visit"}
  BY DEF NoCall
<1>2. Proceed(c, next)
  BY DEF Return
<1> QED
  BY <1>1, <1>2

LEMMA QuietReturn ==
  ASSUME OppInv, ToldInv, NEW c \in Tasks, Return(c), UNCHANGED <<memory, events>>,
         calls[c].pc \notin {"tell", "check", "tellGone"}
  PROVE  ToldInv'
  BY ReturnIs, QuietStep

LEMMA BeginsTold ==
  ASSUME OppInv, ToldInv, NEW c \in Calls,
         \/ \E create \in Creates : AssessAction(c, create)
         \/ \E key \in Keys, t \in DOMAIN tokens : DeleteOpportunities(c, t, key)
  PROVE  ToldInv'
<1>0. c \in Tasks /\ calls[c].pc = "idle"
  <2>1. calls[c] = NoCall
    BY DEF AssessAction, DeleteOpportunities
  <2> QED
    BY <2>1 DEF Tasks, NoCall
<1>1. ASSUME NEW create \in Creates, AssessAction(c, create) PROVE ToldInv'
  <2> DEFINE same == Matching(create)
  <2>1. UNCHANGED <<memory, events>>
    BY <1>1 DEF AssessAction
  <2>2. same \in Seq(OfKey(Known, create.key)) /\ (same # <<>> => Live(create.key))
    BY MatchingIs DEF OppInv, Live
  <2> HIDE DEF same
  <2>3. CASE Proceed(c, [NoCall EXCEPT !.pc = "row", !.opp = [id |-> 0, create |-> create]])
    <3> DEFINE next == [NoCall EXCEPT !.pc = "row", !.opp = [id |-> 0, create |-> create]]
    <3>1. next.pc = "row" /\ Proceed(c, next)
      BY <2>3 DEF NoCall
    <3> HIDE DEF next
    <3> QED
      BY <1>0, <2>1, <3>1, QuietStep
  <2>4. CASE same # <<>> /\ Proceed(c, [NoCall EXCEPT !.pc = "refresh", !.opp = Head(same)])
    <3> DEFINE opp == Head(same)
               next == [NoCall EXCEPT !.pc = "refresh", !.opp = opp]
    <3>1. opp \in OfKey(Known, create.key)
      BY <2>2, <2>4
    <3>2. opp.create.key = create.key
      BY <3>1 DEF OfKey
    <3>3. Proceed(c, next)
      BY <2>4
    <3> HIDE DEF opp
    <3>4. next.pc = "refresh" /\ KeyOf(next) = create.key
      BY <3>2 DEF NoCall, KeyOf
    <3> HIDE DEF next
    <3> QED
      BY <1>0, <2>1, <2>2, <2>4, <3>3, <3>4, QuietStep
  <2> QED
    BY <1>1, <2>3, <2>4 DEF AssessAction, same
<1>2. ASSUME NEW key \in Keys, NEW t \in DOMAIN tokens, DeleteOpportunities(c, t, key) PROVE ToldInv'
  <2> DEFINE next == [pc |-> "deleteRows", key |-> key, opp |-> None, left |-> {}]
  <2>1. next.pc = "deleteRows" /\ Proceed(c, next) /\ UNCHANGED <<memory, events>>
    BY <1>2 DEF DeleteOpportunities
  <2> HIDE DEF next
  <2> QED
    BY <1>0, <2>1, QuietStep
<1> QED
  BY <1>1, <1>2

LEMMA QuietTold ==
  ASSUME OppInv, ToldInv, NEW c \in Tasks,
         AddRow(c) \/ EndQuote(c) \/ DropRow(c) \/ DeleteRows(c) \/ OppQueryFails(c) \/ RequestDropped(c)
  PROVE  ToldInv'
<1>0. NoCall.pc = "idle" /\ {"pc", "opp"} \subseteq DOMAIN calls[c]
  BY DEF NoCall, OppInv, CallsOK, CallOK
<1>1. CASE AddRow(c)
  <2> DEFINE opp == [id |-> Cardinality(DOMAIN rows) + 1, create |-> calls[c].opp.create, refreshed |-> now]
             next == [calls[c] EXCEPT !.pc = "memory", !.opp = opp]
  <2>1. Proceed(c, next) /\ UNCHANGED <<memory, events>> /\ calls[c].pc = "row"
    BY <1>1 DEF AddRow
  <2> HIDE DEF opp
  <2>2. next.pc = "memory"
    BY <1>0
  <2> HIDE DEF next
  <2> QED
    BY <2>1, <2>2, QuietStep
<1>2. CASE EndQuote(c)
  <2> DEFINE next == [calls[c] EXCEPT !.pc = "dropRow"]
  <2>1. /\ UNCHANGED <<memory, events>> /\ calls[c].pc = "quoted"
        /\ Proceed(c, next) \/ Proceed(c, NoCall)
    BY <1>2 DEF EndQuote, Goto
  <2>2. next.pc = "dropRow"
    BY <1>0
  <2> HIDE DEF next
  <2> QED
    BY <1>0, <2>1, <2>2, QuietStep
<1>3. CASE DropRow(c)
  <2> DEFINE next == [pc |-> "dropMemory", first |-> ~rows[calls[c].opp.id].removed, opp |-> calls[c].opp,
                      left |-> calls[c].left]
  <2>1. Proceed(c, next) /\ UNCHANGED <<memory, events>> /\ calls[c].pc = "dropRow" /\ next.pc = "dropMemory"
    BY <1>3 DEF DropRow
  <2> HIDE DEF next
  <2> QED
    BY <2>1, QuietStep
<1>4. CASE DeleteRows(c)
  <2> DEFINE next == [calls[c] EXCEPT !.pc = "deleteMemory"]
  <2>1. UNCHANGED <<memory, events>> /\ calls[c].pc = "deleteRows" /\ Proceed(c, next)
    BY <1>4 DEF DeleteRows, Goto
  <2>2. next.pc = "deleteMemory"
    BY <1>0
  <2> HIDE DEF next
  <2> QED
    BY <2>1, <2>2, QuietStep
<1>5. CASE OppQueryFails(c)
  BY <1>5, QuietReturn DEF OppQueryFails
<1>6. CASE RequestDropped(c)
  BY <1>0, <1>6, QuietStep DEF RequestDropped
<1> QED
  BY <1>1, <1>2, <1>3, <1>4, <1>5, <1>6

LEMMA RoundTold ==
  ASSUME OppInv, ToldInv, StartRound \/ Visit
  PROVE  ToldInv'
<1>0. Loop \in Tasks /\ NoCall.pc = "idle" /\ {"pc", "opp", "left"} \subseteq DOMAIN NoCall
  BY DEF Tasks, NoCall
<1>1. CASE StartRound
  <2> DEFINE next == [NoCall EXCEPT !.pc = "visit", !.left = InMemory]
  <2>1. next.pc = "visit"
    BY <1>0
  <2>2. Proceed(Loop, next) /\ UNCHANGED <<memory, events>> /\ calls[Loop].pc = "idle"
    BY <1>0, <1>1 DEF StartRound
  <2> HIDE DEF next
  <2> QED
    BY <1>0, <2>1, <2>2, QuietStep
<1>2. CASE Visit
  <2>1. UNCHANGED <<memory, events>> /\ calls[Loop].pc = "visit"
    BY <1>2 DEF Visit
  <2>2. \E next : Proceed(Loop, next) /\ next.pc \in {"idle", "visit", "dropRow"}
    <3>1. CASE Proceed(Loop, NoCall)
      BY <1>0, <3>1
    <3>2. ASSUME NEW o \in calls[Loop].left,
                 LET left == calls[Loop].left \ {o} IN
                   \/ Proceed(Loop, [pc |-> "dropRow", opp |-> o, left |-> left])
                   \/ Proceed(Loop, [calls[Loop] EXCEPT !.left = left])
          PROVE  \E next : Proceed(Loop, next) /\ next.pc \in {"idle", "visit", "dropRow"}
      <4> DEFINE left == calls[Loop].left \ {o}
                 remove == [pc |-> "dropRow", opp |-> o, left |-> left]
                 skip == [calls[Loop] EXCEPT !.left = left]
      <4>1. Proceed(Loop, remove) \/ Proceed(Loop, skip)
        BY <3>2
      <4>2. remove.pc = "dropRow" /\ skip.pc = "visit"
        BY <2>1
      <4> HIDE DEF remove, skip
      <4> QED
        BY <4>1, <4>2
    <3> QED
      BY <1>2, <3>1, <3>2 DEF Visit
  <2> QED
    BY <1>0, <2>1, <2>2, QuietStep
<1> QED
  BY <1>1, <1>2
---------------------------------------------------------------------------
(* Steps that tell clients or change memory: for the keys that the call is    *)
(* not about nothing changes.                                                 *)
LEMMA OtherKey ==
  ASSUME OppInv, ToldInv, NEW c \in Tasks, NEW next, Proceed(c, next),
         NEW key \in Keys, KindOf(key) = "limo", key \notin raced',
         Live(key)' <=> Live(key), Told(key)' <=> Told(key),
         KeyOf(calls[c]) # key \/ calls[c].pc \notin {"tell", "check", "tellGone"},
         KeyOf(next) # key \/ next.pc \notin {"refresh", "tell", "tellGone"}
  PROVE  ToldOf(key)'
<1>1. ToldOf(key)
  BY Unraced DEF ToldInv
<1>2. /\ CallAt(key, {"tell"}) => CallAt(key, {"tell"})'
      /\ CallAt(key, {"check", "tellGone"}) => CallAt(key, {"check", "tellGone"})'
      /\ CallAt(key, {"tellGone"})' => CallAt(key, {"tellGone"})
      /\ CallAt(key, {"refresh", "tell"})' => CallAt(key, {"refresh", "tell"})
  BY CallsAt DEF OppInv
<1> QED
  BY <1>1, <1>2, ToldParts, ToldMade

(* Of its own key no call adds while another removes.                         *)
LEMMA NotBoth ==
  ASSUME OppInv, NEW c \in Tasks, NEW next, Proceed(c, next), NEW key, key \notin raced'
  PROVE  /\ next.pc \in AddSteps /\ KeyOf(next) = key => ~Others(c, key, RemoveSteps)
         /\ next.pc \in RemoveSteps /\ KeyOf(next) = key => ~Others(c, key, AddSteps)
<1>1. ~(CallAt(key, AddSteps)' /\ CallAt(key, RemoveSteps)')
  BY Unraced
<1> QED
  BY <1>1, CallsAt DEF OppInv

LEMMA OthersMore ==
  ASSUME NEW c, NEW key, NEW some, NEW steps, some \subseteq steps, Others(c, key, some)
  PROVE  Others(c, key, steps)
  BY DEF Others

LEMMA OwnKey ==
  ASSUME NEW call, {"pc", "opp"} \subseteq DOMAIN call, NEW pc
  PROVE  /\ [call EXCEPT !.pc = pc].pc = pc
         /\ pc \notin {"deleteRows", "deleteMemory"} => KeyOf([call EXCEPT !.pc = pc]) = call.opp.create.key
  BY DEF KeyOf

LEMMA AddMemoryTold ==
  ASSUME OppInv, ToldInv, NEW c \in Tasks, AddMemory(c)
  PROVE  ToldInv'
<1> DEFINE k == calls[c].opp.create.key
           next == [calls[c] EXCEPT !.pc = "tell"]
<1>1. /\ Proceed(c, next) /\ UNCHANGED events /\ calls[c].pc = "memory" /\ KeyOf(calls[c]) = k
      /\ \A key : Live(key)' <=> key = k \/ Live(key)
  BY DEF AddMemory, Goto, Put, Live, KeyOf
<1>2. next.pc = "tell" /\ KeyOf(next) = k
  BY OwnKey DEF OppInv, CallsOK, CallOK
<1> HIDE DEF next, k
<1> SUFFICES ASSUME NEW key \in Keys, KindOf(key) = "limo", key \notin raced' PROVE ToldOf(key)'
  BY DEF ToldInv, KindOf, Keys
<1>3. Told(key)' <=> Told(key)
  BY <1>1, ToldSame
<1>4. CASE key # k
  BY <1>1, <1>2, <1>3, <1>4, OtherKey
<1>5. CASE key = k
  <2>1. Live(key)'
    BY <1>1, <1>5
  <2>2. CallAt(key, {"tell"})'
    BY <1>1, <1>2, <1>5, CallsAt DEF OppInv
  <2>3. ~Others(c, key, RemoveSteps)
    BY <1>1, <1>2, <1>5, NotBoth DEF AddSteps
  <2>4. ~Others(c, key, {"tellGone"})
    BY <2>3, OthersMore DEF RemoveSteps
  <2>5. ~CallAt(key, {"tellGone"})'
    BY <1>1, <1>2, <2>4, CallsAt DEF OppInv
  <2> QED
    BY <1>1, <2>1, <2>2, <2>5, ToldMade
<1> QED
  BY <1>4, <1>5

LEMMA RefreshTold ==
  ASSUME OppInv, ToldInv, NEW c \in Tasks, RefreshInMemoryOpportunity(c)
  PROVE  ToldInv'
<1> DEFINE old == calls[c].opp
           new == [old EXCEPT !.refreshed = now]
           k == old.create.key
           next == [calls[c] EXCEPT !.pc = "tell", !.opp = new]
<1>1. /\ Proceed(c, next) /\ UNCHANGED events /\ calls[c].pc = "refresh" /\ KeyOf(calls[c]) = k
      /\ \A key : Live(key)' <=> Live(key)
  BY DEF RefreshInMemoryOpportunity, Live, KeyOf
<1>2. {"pc", "opp"} \subseteq DOMAIN calls[c] /\ old \in Known
  BY <1>1 DEF OppInv, CallsOK, CallOK, NoCall
<1>3. next.pc = "tell" /\ next.opp = new
  BY <1>2
<1>4. new.create.key = k
  <2> HIDE DEF old
  <2> QED
    BY <1>2 DEF Known
<1>5. KeyOf(next) = k
  <2> HIDE DEF next, new, k
  <2> QED
    BY <1>3, <1>4 DEF KeyOf
<1> HIDE DEF next, k, new, old
<1> SUFFICES ASSUME NEW key \in Keys, KindOf(key) = "limo", key \notin raced' PROVE ToldOf(key)'
  BY DEF ToldInv, KindOf, Keys
<1>6. (Told(key)' <=> Told(key)) /\ (Live(key)' <=> Live(key))
  BY <1>1, ToldSame
<1>7. CASE key # k
  BY <1>1, <1>3, <1>5, <1>6, <1>7, OtherKey
<1>8. CASE key = k
  <2>1. Live(key)'
    <3>1. CallAt(key, {"refresh", "tell"})
      BY <1>1, <1>8, CallsAt DEF OppInv
    <3>2. ToldOf(key)
      BY <1>1, Unraced DEF ToldInv
    <3> QED
      BY <1>6, <3>1, <3>2 DEF ToldOf
  <2>2. CallAt(key, {"tell"})'
    BY <1>1, <1>3, <1>5, <1>8, CallsAt DEF OppInv
  <2>3. ~Others(c, key, RemoveSteps)
    BY <1>1, <1>3, <1>5, <1>8, NotBoth DEF AddSteps
  <2>4. ~CallAt(key, {"tellGone"})'
    <3>1. ~Others(c, key, {"tellGone"})
      BY <2>3, OthersMore DEF RemoveSteps
    <3> QED
      BY <1>1, <1>3, <3>1, CallsAt DEF OppInv
  <2> QED
    BY <1>1, <2>1, <2>2, <2>4, ToldMade
<1> QED
  BY <1>7, <1>8

LEMMA TellNewTold ==
  ASSUME OppInv, EventsOK', ToldInv, NEW c \in Tasks, TellNew(c)
  PROVE  ToldInv'
<1> DEFINE k == calls[c].opp.create.key
           id == calls[c].opp.id
           next == IF calls[c].opp.create.kind = "swap" THEN [calls[c] EXCEPT !.pc = "quoted"] ELSE NoCall
<1>1. /\ Proceed(c, next) /\ Send(Event("new", k, id)) /\ calls[c].pc = "tell" /\ KeyOf(calls[c]) = k
      /\ UNCHANGED memory
  BY DEF TellNew, KeyOf
<1>2. k \in Keys /\ id \in Nat
  BY <1>1 DEF OppInv, CallsOK, CallOK, NoCall, Known, Keys
<1>3. next.pc \in {"quoted", "idle"}
  BY OwnKey DEF NoCall, OppInv, CallsOK, CallOK
<1> HIDE DEF next, k, id
<1> SUFFICES ASSUME NEW key \in Keys, KindOf(key) = "limo", key \notin raced' PROVE ToldOf(key)'
  BY DEF ToldInv, KindOf, Keys
<1>4. (Told(key)' <=> key = k \/ Told(key)) /\ (Live(key)' <=> Live(key))
  BY <1>1, <1>2, ToldSent DEF OppInv, Live
<1>5. CASE key # k
  BY <1>1, <1>3, <1>4, <1>5, OtherKey
<1>6. CASE key = k
  <2>1. ToldOf(key)
    BY <1>1, Unraced DEF ToldInv
  <2>2. Live(key)
    <3>1. CallAt(key, {"refresh", "tell"})
      BY <1>1, <1>6, CallsAt DEF OppInv
    <3> QED
      BY <2>1, <3>1 DEF ToldOf
  <2>3. ~CallAt(key, {"tellGone"})
    BY <2>1, <2>2 DEF ToldOf
  <2>4. ~CallAt(key, {"tellGone"})'
    BY <1>1, <1>3, <2>3, CallsAt DEF OppInv
  <2> QED
    BY <1>1, <1>4, <1>6, <2>2, <2>4, ToldMade
<1> QED
  BY <1>5, <1>6
---------------------------------------------------------------------------
LEMMA DropMemoryTold ==
  ASSUME OppInv, ToldInv, NEW c \in Tasks, DropMemory(c)
  PROVE  ToldInv'
<1> DEFINE k == calls[c].opp.create.key
           rest == Selected(At(k), InMemory \ {calls[c].opp})
           next == [calls[c] EXCEPT !.pc = "check"]
<1>1. /\ UNCHANGED events /\ calls[c].pc = "dropMemory" /\ KeyOf(calls[c]) = k
      /\ memory' = IF rest = <<>> THEN Restrict(memory, DOMAIN memory \ {k})
                   ELSE [memory EXCEPT ![k] = rest]
      /\ IF c = Loop THEN Proceed(c, next) ELSE Return(c)
  BY DEF DropMemory, Goto, KeyOf
<1>2. \A key : (Live(key)' => Live(key)) /\ (key # k => (Live(key)' <=> Live(key)))
  <2> HIDE DEF rest, k
  <2> QED
    BY <1>1 DEF Live, Restrict
<1>3. next.pc = "check" /\ KeyOf(next) = k
  BY OwnKey DEF OppInv, CallsOK, CallOK
<1>4. calls[c].opp.create \in Creates /\ (c = Loop \/ calls[c].opp.create.kind = "swap")
  BY <1>1 DEF OppInv, CallsOK, CallOK, NoCall, Known
<1>5. c # Loop => KindOf(k) = "swap"
  <2>1. \A x, y \in Creates : x.key = y.key => x.kind = y.kind
    BY OpportunitiesAssumption
  <2>2. (CHOOSE create \in Creates : create.key = k) \in Creates
        /\ (CHOOSE create \in Creates : create.key = k).key = k
    BY <1>4
  <2> QED
    BY <1>4, <2>1, <2>2 DEF KindOf
<1> HIDE DEF next, k, rest
<1>6. PICK after : Proceed(c, after) /\ (c = Loop => after = next) /\ (c # Loop => after.pc \in {"idle", "visit"})
  BY <1>1, ReturnIs
<1> SUFFICES ASSUME NEW key \in Keys, KindOf(key) = "limo", key \notin raced' PROVE ToldOf(key)'
  BY DEF ToldInv, KindOf, Keys
<1>7. Told(key)' <=> Told(key)
  BY <1>1, ToldSame
<1>8. CASE key # k
  BY <1>1, <1>2, <1>3, <1>6, <1>7, <1>8, OtherKey
<1>9. CASE key = k
  <2>0. c = Loop /\ Proceed(c, next)
    BY <1>5, <1>6, <1>9
  <2>1. ToldOf(key)
    BY <2>0, Unraced DEF ToldInv
  <2>2. ~Others(c, key, AddSteps)
    BY <1>3, <1>9, <2>0, NotBoth DEF RemoveSteps
  <2>3. ~Others(c, key, {"refresh", "tell"}) /\ ~Others(c, key, {"tell"})
    BY <2>2, OthersMore DEF AddSteps
  <2>4. ~CallAt(key, {"refresh", "tell"})' /\ ~CallAt(key, {"tell"})
    BY <1>1, <1>3, <2>0, <2>3, CallsAt DEF OppInv
  <2>5. CallAt(key, {"check", "tellGone"})'
    BY <1>3, <1>9, <2>0, CallsAt DEF OppInv
  <2>6. CallAt(key, {"tellGone"})' => CallAt(key, {"tellGone"})
    BY <1>1, <1>3, <2>0, CallsAt DEF OppInv
  <2> QED
    BY <1>2, <1>7, <2>0, <2>1, <2>4, <2>5, <2>6, ToldMade DEF ToldOf
<1> QED
  BY <1>8, <1>9

LEMMA CheckKeyTold ==
  ASSUME OppInv, ToldInv, CheckKey(Loop)
  PROVE  ToldInv'
<1> DEFINE k == calls[Loop].opp.create.key
           next == [calls[Loop] EXCEPT !.pc = "tellGone"]
<1>1. /\ UNCHANGED <<memory, events>> /\ calls[Loop].pc = "check" /\ KeyOf(calls[Loop]) = k
      /\ IF At(k) = <<>> THEN Proceed(Loop, next) ELSE Return(Loop)
  BY DEF CheckKey, Goto, KeyOf
<1>2. Loop \in Tasks /\ next.pc = "tellGone" /\ KeyOf(next) = k
  BY OwnKey DEF OppInv, CallsOK, CallOK, Tasks
<1>3. At(k) = <<>> <=> ~Live(k)
  BY AtIs DEF OppInv, Live
<1> HIDE DEF next, k
<1>4. PICK after : /\ Proceed(Loop, after)
                   /\ Live(k) => after.pc \in {"idle", "visit"}
                   /\ ~Live(k) => after = next
  BY <1>1, <1>2, <1>3, ReturnIs
<1> SUFFICES ASSUME NEW key \in Keys, KindOf(key) = "limo", key \notin raced' PROVE ToldOf(key)'
  BY DEF ToldInv, KindOf, Keys
<1>5. (Told(key)' <=> Told(key)) /\ (Live(key)' <=> Live(key))
  BY <1>1, ToldSame DEF Live
<1>6. ToldOf(key)
  BY <1>2, <1>4, Unraced DEF ToldInv
<1>7. CASE key # k
  BY <1>1, <1>2, <1>4, <1>5, <1>7, OtherKey
<1>8. CASE key = k /\ Live(key)
  <2>1. /\ CallAt(key, {"tell"}) => CallAt(key, {"tell"})'
        /\ CallAt(key, {"tellGone"})' => CallAt(key, {"tellGone"})
        /\ CallAt(key, {"refresh", "tell"})' => CallAt(key, {"refresh", "tell"})
    BY <1>1, <1>2, <1>4, <1>8, CallsAt DEF OppInv
  <2> QED
    BY <1>2, <1>4, <1>5, <1>6, <1>8, <2>1, ToldMade DEF ToldOf
<1>9. CASE key = k /\ ~Live(key)
  <2>1. /\ CallAt(key, {"tellGone"})' /\ CallAt(key, {"check", "tellGone"})'
        /\ CallAt(key, {"refresh", "tell"})' => CallAt(key, {"refresh", "tell"})
    BY <1>1, <1>2, <1>4, <1>9, CallsAt DEF OppInv
  <2> QED
    BY <1>2, <1>4, <1>5, <1>6, <1>9, <2>1, ToldMade DEF ToldOf
<1> QED
  BY <1>7, <1>8, <1>9

LEMMA TellGoneTold ==
  ASSUME OppInv, EventsOK', ToldInv, NEW c \in Tasks, TellGone(c)
  PROVE  ToldInv'
<1> DEFINE k == calls[c].opp.create.key
<1>1. /\ Return(c) /\ Send(Event("gone", k, 0)) /\ calls[c].pc = "tellGone" /\ KeyOf(calls[c]) = k
      /\ UNCHANGED memory
  BY DEF TellGone, KeyOf
<1>2. k \in Keys
  BY <1>1 DEF OppInv, CallsOK, CallOK, NoCall, Known, Keys
<1> HIDE DEF k
<1>3. PICK next : Proceed(c, next) /\ next.pc \in {"idle", "visit"}
  BY <1>1, ReturnIs
<1> SUFFICES ASSUME NEW key \in Keys, KindOf(key) = "limo", key \notin raced' PROVE ToldOf(key)'
  BY DEF ToldInv, KindOf, Keys
<1>4. (Told(key)' <=> key # k /\ Told(key)) /\ (Live(key)' <=> Live(key))
  BY <1>1, <1>2, ToldSent DEF OppInv, Live
<1>5. CASE key # k
  BY <1>1, <1>3, <1>4, <1>5, OtherKey
<1>6. CASE key = k
  <2>1. ToldOf(key)
    BY <1>3, Unraced DEF ToldInv
  <2>2. ~Live(key)
    <3>1. CallAt(key, {"tellGone"})
      BY <1>1, <1>6, CallsAt, <1>3 DEF OppInv
    <3> QED
      BY <2>1, <3>1 DEF ToldOf
  <2>3. ~CallAt(key, {"refresh", "tell"})'
    <3>1. ~CallAt(key, {"refresh", "tell"})
      BY <2>1, <2>2 DEF ToldOf
    <3> QED
      BY <1>1, <1>3, <3>1, CallsAt DEF OppInv
  <2> QED
    BY <1>3, <1>4, <1>6, <2>2, <2>3, ToldMade
<1> QED
  BY <1>5, <1>6

LEMMA DeleteMemoryTold ==
  ASSUME OppInv, ToldInv, NEW c \in Tasks, DeleteMemory(c)
  PROVE  ToldInv'
<1> DEFINE k == calls[c].key
           opp == Head(At(k))
           next == [NoCall EXCEPT !.pc = "tellGone", !.opp = opp]
<1>1. /\ UNCHANGED events /\ calls[c].pc = "deleteMemory" /\ KeyOf(calls[c]) = k
      /\ IF At(k) = <<>> THEN Return(c) ELSE Proceed(c, next)
      /\ \A key : Live(key)' <=> key # k /\ Live(key)
  BY DEF DeleteMemory, KeyOf, Restrict, Live
<1>2. At(k) = <<>> <=> ~Live(k)
  BY AtIs DEF OppInv, Live
<1>3. Live(k) => next.pc = "tellGone" /\ KeyOf(next) = k
  <2> SUFFICES ASSUME Live(k) PROVE next.pc = "tellGone" /\ KeyOf(next) = k
    OBVIOUS
  <2>1. At(k) \in Seq(OfKey(Known, k)) /\ At(k) # <<>>
    BY <1>2, AtIs DEF OppInv
  <2> DEFINE s == At(k)
             T == OfKey(Known, k)
  <2> HIDE DEF s, T
  <2>2. Head(s) \in T
    BY <2>1 DEF s, T
  <2>3. opp.create.key = k
    BY <2>2 DEF s, T, OfKey
  <2> HIDE DEF opp
  <2>4. next.pc = "tellGone" /\ next.opp = opp
    BY DEF NoCall
  <2> QED
    BY <2>3, <2>4 DEF KeyOf
<1> HIDE DEF next, opp, k
<1>4. PICK after : /\ Proceed(c, after)
                   /\ ~Live(k) => after.pc \in {"idle", "visit"}
                   /\ Live(k) => after = next
  BY <1>1, <1>2, ReturnIs
<1> SUFFICES ASSUME NEW key \in Keys, KindOf(key) = "limo", key \notin raced' PROVE ToldOf(key)'
  BY DEF ToldInv, KindOf, Keys
<1>5. Told(key)' <=> Told(key)
  BY <1>1, ToldSame
<1>6. ToldOf(key)
  BY <1>4, Unraced DEF ToldInv
<1>7. CASE key # k
  BY <1>1, <1>3, <1>4, <1>5, <1>7, OtherKey
<1>8. CASE key = k /\ ~Live(key)
  <2>1. /\ CallAt(key, {"check", "tellGone"}) => CallAt(key, {"check", "tellGone"})'
        /\ CallAt(key, {"refresh", "tell"})' => CallAt(key, {"refresh", "tell"})
    BY <1>1, <1>4, <1>8, CallsAt DEF OppInv
  <2> QED
    BY <1>1, <1>4, <1>5, <1>6, <1>8, <2>1, ToldMade DEF ToldOf
<1>9. CASE key = k /\ Live(key)
  <2>1. CallAt(key, {"check", "tellGone"})'
    BY <1>3, <1>4, <1>9, CallsAt DEF OppInv
  <2>2. ~Others(c, key, AddSteps)
    BY <1>3, <1>4, <1>9, NotBoth DEF RemoveSteps
  <2>3. ~Others(c, key, {"refresh", "tell"})
    BY <2>2, OthersMore DEF AddSteps
  <2>4. ~CallAt(key, {"refresh", "tell"})'
    BY <1>3, <1>4, <1>9, <2>3, CallsAt DEF OppInv
  <2> QED
    BY <1>1, <1>4, <1>9, <2>1, <2>4, ToldMade
<1> QED
  BY <1>7, <1>8, <1>9
---------------------------------------------------------------------------
(* The loop does not add.                                                     *)
LoopRemoves == calls[Loop].pc \notin AddSteps

LEMMA OthersLeaveLoop ==
  ASSUME CallsOK, LoopRemoves, NEW c \in Calls, NEW next, Proceed(c, next)
  PROVE  LoopRemoves'
  BY OpportunitiesAssumption DEF LoopRemoves, Proceed, CallsOK, Tasks

LEMMA LoopGoesOn ==
  ASSUME CallsOK, NEW next, Proceed(Loop, next), next.pc \notin AddSteps
  PROVE  LoopRemoves'
  BY DEF LoopRemoves, Proceed, CallsOK, Tasks

LEMMA OppStepLoop ==
  ASSUME CallsOK, LoopRemoves, OppStep
  PROVE  LoopRemoves'
<1>0. {"pc", "opp", "left"} \subseteq DOMAIN calls[Loop] /\ NoCall.pc = "idle" /\ Loop \in Tasks
  BY DEF CallsOK, CallOK, Tasks, NoCall
<1>1. ASSUME NEW c \in Calls, \E next : Proceed(c, next) PROVE LoopRemoves'
  BY <1>1, OthersLeaveLoop
<1>2. ASSUME NEW c \in Calls,
             \/ \E create \in Creates : AssessAction(c, create)
             \/ \E key \in Keys, t \in DOMAIN tokens : DeleteOpportunities(c, t, key)
      PROVE  \E next : Proceed(c, next)
  BY <1>2 DEF AssessAction, DeleteOpportunities
<1>3. ASSUME NEW c \in Calls,
             \/ AddRow(c) \/ AddMemory(c) \/ RefreshInMemoryOpportunity(c) \/ TellNew(c)
             \/ EndQuote(c) \/ DeleteRows(c) \/ DeleteMemory(c) \/ RequestDropped(c)
             \/ DropRow(c) \/ DropMemory(c) \/ TellGone(c) \/ OppQueryFails(c)
      PROVE  \E next : Proceed(c, next)
  <2>1. ASSUME Return(c) PROVE \E next : Proceed(c, next)
    BY <2>1 DEF Return
  <2>2. CASE AddRow(c) \/ AddMemory(c) \/ RefreshInMemoryOpportunity(c) \/ TellNew(c)
    BY <2>2 DEF AddRow, AddMemory, RefreshInMemoryOpportunity, TellNew, Goto
  <2>3. CASE EndQuote(c) \/ DeleteRows(c) \/ DeleteMemory(c) \/ RequestDropped(c)
    BY <2>1, <2>3 DEF EndQuote, DeleteRows, DeleteMemory, RequestDropped, Goto
  <2>4. CASE DropRow(c) \/ DropMemory(c) \/ TellGone(c) \/ OppQueryFails(c)
    BY <2>1, <2>4 DEF DropRow, DropMemory, TellGone, OppQueryFails, Goto
  <2> QED
    BY <1>3, <2>2, <2>3, <2>4
<1>4. CASE \E c \in Free(Restrict(calls, Calls), NoCall) :
             \/ \E create \in Creates : PostQuote(c, create)
                                        \/ \E t \in DOMAIN tokens : PostOpportunity(c, t, create)
             \/ \E key \in Keys, t \in DOMAIN tokens : DeleteOpportunities(c, t, key)
  <2>1. PICK c \in Calls :
             \/ \E create \in Creates : PostQuote(c, create)
                                        \/ \E t \in DOMAIN tokens : PostOpportunity(c, t, create)
             \/ \E key \in Keys, t \in DOMAIN tokens : DeleteOpportunities(c, t, key)
    BY <1>4 DEF Free, Restrict
  <2>2. \/ \E create \in Creates : AssessAction(c, create)
        \/ \E key \in Keys, t \in DOMAIN tokens : DeleteOpportunities(c, t, key)
    BY <2>1 DEF PostQuote, PostOpportunity
  <2> QED
    BY <2>2, <1>1, <1>2
<1>5. ASSUME Return(Loop) PROVE LoopRemoves'
  BY <1>5, <1>0, ReturnIs, LoopGoesOn DEF AddSteps
<1>6. ASSUME DropRow(Loop) \/ DropMemory(Loop) \/ TellGone(Loop) \/ OppQueryFails(Loop) PROVE LoopRemoves'
  <2>1. CASE DropRow(Loop)
    <3> DEFINE next == [pc |-> "dropMemory", first |-> ~rows[calls[Loop].opp.id].removed,
                        opp |-> calls[Loop].opp, left |-> calls[Loop].left]
    <3>1. Proceed(Loop, next) /\ next.pc = "dropMemory"
      BY <2>1 DEF DropRow
    <3> HIDE DEF next
    <3> QED
      BY <3>1, LoopGoesOn DEF AddSteps
  <2>2. CASE DropMemory(Loop)
    <3> DEFINE next == [calls[Loop] EXCEPT !.pc = "check"]
    <3>1. Proceed(Loop, next) /\ next.pc = "check"
      BY <1>0, <2>2 DEF DropMemory, Goto
    <3> HIDE DEF next
    <3> QED
      BY <3>1, LoopGoesOn DEF AddSteps
  <2>3. CASE TellGone(Loop) \/ OppQueryFails(Loop)
    BY <1>5, <2>3 DEF TellGone, OppQueryFails
  <2> QED
    BY <1>6, <2>1, <2>2, <2>3
<1>7. CASE CheckKey(Loop)
  <2> DEFINE next == [calls[Loop] EXCEPT !.pc = "tellGone"]
  <2>1. (Proceed(Loop, next) \/ Return(Loop)) /\ next.pc = "tellGone"
    BY <1>0, <1>7 DEF CheckKey, Goto
  <2> HIDE DEF next
  <2> QED
    BY <1>5, <2>1, LoopGoesOn DEF AddSteps
<1>8. CASE StartRound
  <2> DEFINE next == [NoCall EXCEPT !.pc = "visit", !.left = InMemory]
  <2>1. Proceed(Loop, next) /\ next.pc = "visit"
    BY <1>8 DEF StartRound, NoCall
  <2> HIDE DEF next
  <2> QED
    BY <2>1, LoopGoesOn DEF AddSteps
<1>9. CASE Visit
  <2>1. calls[Loop].pc = "visit"
    BY <1>9 DEF Visit
  <2>2. CASE Proceed(Loop, NoCall)
    BY <1>0, <2>2, LoopGoesOn DEF AddSteps
  <2>3. ASSUME NEW o \in calls[Loop].left,
               LET left == calls[Loop].left \ {o} IN
                 \/ Proceed(Loop, [pc |-> "dropRow", opp |-> o, left |-> left])
                 \/ Proceed(Loop, [calls[Loop] EXCEPT !.left = left])
        PROVE  LoopRemoves'
    <3> DEFINE left == calls[Loop].left \ {o}
               remove == [pc |-> "dropRow", opp |-> o, left |-> left]
               skip == [calls[Loop] EXCEPT !.left = left]
    <3>1. Proceed(Loop, remove) \/ Proceed(Loop, skip)
      BY <2>3
    <3>2. remove.pc = "dropRow" /\ skip.pc = "visit"
      BY <1>0, <2>1
    <3> HIDE DEF remove, skip
    <3> QED
      BY <3>1, <3>2, LoopGoesOn DEF AddSteps
  <2> QED
    BY <1>9, <2>2, <2>3 DEF Visit
<1>10. CASE Tick
  BY <1>10 DEF Tick, LoopRemoves
<1> QED
  BY <1>1, <1>3, <1>4, <1>6, <1>7, <1>8, <1>9, <1>10 DEF OppStep, Tasks
---------------------------------------------------------------------------
LEMMA OppStepTold ==
  ASSUME OppInv, EventsOK', ToldInv, OppStep
  PROVE  ToldInv'
<1>1. CASE \E c \in Free(Restrict(calls, Calls), NoCall) :
             \/ \E create \in Creates : PostQuote(c, create)
                                        \/ \E t \in DOMAIN tokens : PostOpportunity(c, t, create)
             \/ \E key \in Keys, t \in DOMAIN tokens : DeleteOpportunities(c, t, key)
  <2>1. PICK c \in Calls :
             \/ \E create \in Creates : PostQuote(c, create)
                                        \/ \E t \in DOMAIN tokens : PostOpportunity(c, t, create)
             \/ \E key \in Keys, t \in DOMAIN tokens : DeleteOpportunities(c, t, key)
    BY <1>1 DEF Free, Restrict
  <2>2. \/ \E create \in Creates : AssessAction(c, create)
        \/ \E key \in Keys, t \in DOMAIN tokens : DeleteOpportunities(c, t, key)
    BY <2>1 DEF PostQuote, PostOpportunity
  <2> QED
    BY <2>2, BeginsTold
<1>2. ASSUME NEW c \in Calls,
             \/ AddRow(c) \/ AddMemory(c) \/ RefreshInMemoryOpportunity(c) \/ TellNew(c)
             \/ EndQuote(c) \/ DeleteRows(c) \/ DeleteMemory(c) \/ RequestDropped(c)
      PROVE  ToldInv'
  <2>1. c \in Tasks
    BY DEF Tasks
  <2> QED
    BY <1>2, <2>1, AddMemoryTold, RefreshTold, TellNewTold, DeleteMemoryTold, QuietTold
<1>3. ASSUME NEW c \in Tasks, DropRow(c) \/ DropMemory(c) \/ TellGone(c) \/ OppQueryFails(c)
      PROVE  ToldInv'
  BY <1>3, DropMemoryTold, TellGoneTold, QuietTold
<1>4. CASE Tick
  <2>1. UNCHANGED <<memory, calls, events, raced>>
    BY <1>4 DEF Tick
  <2>2. \A key : Told(key)' <=> Told(key)
    BY <2>1, ToldSame
  <2> QED
    BY <2>1, <2>2 DEF ToldInv, ToldOf, Live, CallAt, Adding, Removing, KeyOf, Keys, KindOf, Tasks
<1>5. CASE CheckKey(Loop) \/ StartRound \/ Visit
  BY <1>5, CheckKeyTold, RoundTold
<1> QED
  BY <1>1, <1>2, <1>3, <1>4, <1>5 DEF OppStep

LEMMA PanicTold ==
  ASSUME OppInv, LoopRemoves, ToldInv, VerificationPanics
  PROVE  ToldInv' /\ LoopRemoves'
<1>1. /\ calls' = [calls EXCEPT ![Loop] = NoCall] /\ UNCHANGED <<memory, events>>
      /\ raced' = raced \cup Removing(calls)
  BY DEF VerificationPanics
<1>2. LoopRemoves'
  BY <1>1 DEF LoopRemoves, OppInv, CallsOK, NoCall, AddSteps, Tasks
<1> SUFFICES ASSUME NEW key \in Keys, KindOf(key) = "limo", key \notin raced' PROVE ToldOf(key)'
  BY <1>2 DEF ToldInv, KindOf, Keys
<1>3. ToldOf(key) /\ key \notin Removing(calls)
  BY <1>1 DEF ToldInv
<1>4. (Told(key)' <=> Told(key)) /\ (Live(key)' <=> Live(key))
  BY <1>1, ToldSame DEF Live
<1>5. ~CallAt(key, RemoveSteps)
  BY <1>3, BusyIs
<1>6. \A d \in Tasks : d # Loop => calls'[d] = calls[d] /\ KeyOf(calls[d])' = KeyOf(calls[d])
  BY <1>1 DEF OppInv, CallsOK, KeyOf
<1>7. calls'[Loop].pc = "idle"
  BY <1>1 DEF OppInv, CallsOK, Tasks, NoCall
<1>8. ASSUME NEW steps \in SUBSET AddSteps PROVE CallAt(key, steps)' <=> CallAt(key, steps)
  BY <1>6, <1>7 DEF LoopRemoves, CallAt, Tasks, AddSteps
<1>9. ASSUME NEW steps \in SUBSET RemoveSteps PROVE ~CallAt(key, steps)' /\ ~CallAt(key, steps)
  BY <1>5, <1>6, <1>7 DEF CallAt, Tasks, RemoveSteps
<1>10. key \notin Removing(calls)'
  BY <1>9 DEF Removing, CallAt, RemoveSteps, Tasks, KeyOf
<1>11. /\ CallAt(key, {"tell"})' <=> CallAt(key, {"tell"})
       /\ CallAt(key, {"refresh", "tell"})' <=> CallAt(key, {"refresh", "tell"})
       /\ ~CallAt(key, {"check", "tellGone"}) /\ ~CallAt(key, {"tellGone"})'
  BY <1>8, <1>9 DEF AddSteps, RemoveSteps
<1> QED
  BY <1>3, <1>4, <1>10, <1>11 DEF ToldOf

(* Nothing is live, nothing was told and nobody is at work.                   *)
LEMMA FreshTold ==
  ASSUME memory' = <<>>, events' = <<>>, calls' = [c \in Tasks |-> NoCall]
  PROVE  ToldInv' /\ LoopRemoves'
<1>1. LoopRemoves'
  BY DEF LoopRemoves, NoCall, AddSteps, Tasks
<1> SUFFICES ASSUME NEW key PROVE ToldOf(key)'
  BY <1>1 DEF ToldInv
<1>2. ~Live(key)'
  BY DEF Live
<1>3. ~Told(key)'
  <2>1. EventsOf(key)' = <<>>
    BY SelectedNone DEF EventsOf
  <2> QED
    BY <2>1 DEF Told
<1>4. \A c \in Tasks : calls'[c].pc = "idle"
  BY DEF NoCall
<1>5. ~CallAt(key, {"refresh", "tell"})' /\ key \notin Removing(calls)'
  BY <1>4 DEF CallAt, Removing, Tasks
<1> QED
  BY <1>2, <1>3, <1>5 DEF ToldOf

LEMMA InitTold == Init => ToldInv /\ LoopRemoves
<1> SUFFICES ASSUME Init PROVE ToldInv /\ LoopRemoves
  OBVIOUS
<1>0. memory = <<>> /\ events = <<>> /\ calls = [c \in Tasks |-> NoCall]
  BY DEF Init, OppInit
<1>1. LoopRemoves
  BY <1>0 DEF LoopRemoves, NoCall, AddSteps, Tasks
<1> SUFFICES ASSUME NEW key PROVE ToldOf(key)
  BY <1>1 DEF ToldInv
<1>2. ~Live(key)
  BY <1>0 DEF Live
<1>3. ~Told(key)
  <2>1. EventsOf(key) = <<>>
    BY <1>0, SelectedNone DEF EventsOf
  <2> QED
    BY <2>1 DEF Told
<1>4. \A c \in Tasks : calls[c].pc = "idle"
  BY <1>0 DEF NoCall
<1>5. ~CallAt(key, {"refresh", "tell"}) /\ key \notin Removing(calls)
  BY <1>4 DEF CallAt, Removing, Tasks
<1> QED
  BY <1>2, <1>3, <1>5 DEF ToldOf

LEMMA NextTold ==
  OppInv /\ OppInv' /\ LoopRemoves /\ ToldInv /\ [Next]_vars => ToldInv' /\ LoopRemoves'
<1> SUFFICES ASSUME OppInv, OppInv', LoopRemoves, ToldInv, [Next]_vars PROVE ToldInv' /\ LoopRemoves'
  OBVIOUS
<1>0. CallsOK /\ EventsOK /\ EventsOK'
  BY DEF OppInv
<1>1. CASE VerificationPanics
  BY <1>1, PanicTold
<1>2. CASE Completes \/ Crash
  BY <1>2, FreshTold DEF Completes, Crash, Down, OppStops
<1>3. CASE OfOpp(OppStep)
  BY <1>0, <1>3, OppStepTold, OppStepLoop DEF OfOpp
<1>4. CASE BroadcastUpdate /\ UNCHANGED <<memory, calls, raced>>
  <2>1. \E event \in Events : event.kind \notin {"new", "gone"} /\ Send(event)
    BY <1>4 DEF BroadcastUpdate, Events, OppInv, EventsOK
  <2>2. \A key : Told(key)' <=> Told(key)
    BY <1>0, <2>1, ToldOther
  <2> QED
    BY <1>4, <2>2 DEF ToldInv, ToldOf, Live, CallAt, Adding, Removing, KeyOf, Keys, KindOf, Tasks, LoopRemoves
<1>5. CASE UNCHANGED <<memory, calls, events, raced>>
  <2>1. \A key : Told(key)' <=> Told(key)
    BY <1>5, ToldSame
  <2> QED
    BY <1>5, <2>1 DEF ToldInv, ToldOf, Live, CallAt, Adding, Removing, KeyOf, Keys, KindOf, Tasks, LoopRemoves
<1>6. \/ VerificationPanics \/ Completes \/ Crash \/ OfOpp(OppStep)
      \/ BroadcastUpdate /\ UNCHANGED <<memory, calls, raced>>
      \/ UNCHANGED <<memory, calls, events, raced>>
  BY DEF Next, vars, oppVars, OfServer, StartsAgain, OfAccess, OfConn, OfHistory, OfTables, OfSimulator
<1> QED
  BY <1>1, <1>2, <1>3, <1>4, <1>5, <1>6

LEMMA SpecTold == Spec => []ToldInv
<1> QED
  BY InitTold, NextTold, SpecOpp, PTL DEF Spec

LEMMA ToldIsLive ==
  ASSUME OppInv, ToldInv
  PROVE  FeedTold
<1> SUFFICES ASSUME NEW key \in Keys, ~Busy(key), key \notin raced, KindOf(key) = "limo"
             PROVE  (\E o \in LiveOpportunities : o.create.key = key) <=> Told(key)
  BY DEF FeedTold, Told
<1>1. ToldOf(key)
  BY DEF ToldInv
<1>2. ~CallAt(key, AddSteps) /\ ~CallAt(key, RemoveSteps)
  BY BusyIs DEF Busy
<1>3. ~CallAt(key, {"tell"}) /\ ~CallAt(key, {"check", "tellGone"})
  BY <1>2 DEF CallAt, AddSteps, RemoveSteps
<1>4. Live(key) <=> Told(key)
  BY <1>1, <1>3 DEF ToldOf
<1>5. ASSUME NEW k \in DOMAIN memory PROVE Last(memory[k]).create.key = k
  <2> DEFINE s == memory[k]
             T == OfKey(Known, k)
  <2>1. s \in Seq(T) /\ s # <<>>
    BY DEF OppInv, MemoryOK
  <2> HIDE DEF s, T
  <2>2. Last(s) \in T
    BY <2>1 DEF Last
  <2> QED
    BY <2>2 DEF s, T, OfKey
<1>6. (\E o \in LiveOpportunities : o.create.key = key) <=> Live(key)
  BY <1>5 DEF LiveOpportunities, Live
<1> QED
  BY <1>4, <1>6

(* What clients were told last of a key agrees with what the server shows, for *)
(* any number of calls and opportunities, wherever no addition and removal of *)
(* it overlapped.                                                             *)
THEOREM TellsWhatIsLive == Spec => []FeedTold
<1> QED
  BY SpecTold, SpecOpp, ToldIsLive, PTL
---------------------------------------------------------------------------
(* Whether a scenario has analytics does not change.                          *)
BudgetOK == "analytics" \in DOMAIN budget
Settled == "analytics" \in DOMAIN budget' /\ budget'["analytics"] = budget["analytics"]

LEMMA SpendSettled ==
  ASSUME BudgetOK, NEW kind, kind # "analytics", Spend(kind)
  PROVE  Settled
  BY DEF BudgetOK, Spend, Settled

LEMMA SameSettled == ASSUME BudgetOK, UNCHANGED budget PROVE Settled
  BY DEF BudgetOK, Settled

LEMMA ServerSettled ==
  ASSUME BudgetOK, ServerStep \/ VerificationPanics \/ Completes \/ Crash \/ StartsAgain
  PROVE  Settled
<1>1. ASSUME NEW l \in Loops, SetUp(l) \/ Fails(l) \/ RunAgain(l) \/ Exits(l) \/ Panics(l) PROVE Settled
  BY <1>1, SpendSettled, SameSettled DEF SetUp, Fails, RunAgain, Exits, SeesExit, Panics
<1>2. CASE Interrupt \/ StreamSilent \/ StreamInactive \/ PriceClosed
  BY <1>2, SpendSettled, SameSettled DEF Interrupt, StreamSilent, StreamInactive, PriceClosed
<1>3. CASE VerificationPanics \/ Completes \/ Crash \/ StartsAgain
  BY <1>3, SpendSettled, SameSettled DEF VerificationPanics, Panics, Completes, ProcessEnds, Crash, Crashes,
     StartsAgain, Starts
<1> QED
  BY <1>1, <1>2, <1>3 DEF ServerStep

LEMMA AccessSettled == ASSUME BudgetOK, AccessStep PROVE Settled
<1>1. ASSUME NEW p \in Profiles, CreateProfile(p) PROVE Settled
  BY <1>1, SpendSettled DEF CreateProfile
<1>2. ASSUME NEW a \in Free(access, NoAccess),
             \/ \E p \in Profiles : Grant(a, p) \/ \E s \in States : CreatePrivilege(a, p, s)
             \/ \E t \in DOMAIN tokens : Revoke(a, t)
      PROVE  Settled
  BY <1>2, SpendSettled DEF Grant, CreatePrivilege, Revoke
<1>3. ASSUME NEW a \in Admins,
             \/ InsertToken(a) \/ ReadToken(a) \/ CacheToken(a)
             \/ RevokeRow(a) \/ DropToken(a)
             \/ UpdateInMemoryPrivilege(a) \/ AccessRequestDropped(a)
      PROVE  Settled
  BY <1>3, SpendSettled, SameSettled DEF InsertToken, ReadToken, CacheToken, RevokeRow, DropToken,
     UpdateInMemoryPrivilege, AccessRequestDropped
<1> QED
  BY <1>1, <1>2, <1>3 DEF AccessStep

LEMMA OppSettled == ASSUME BudgetOK, OppStep PROVE Settled
<1>1. ASSUME NEW c \in Free(Restrict(calls, Calls), NoCall),
             \/ \E create \in Creates : PostQuote(c, create)
                                        \/ \E t \in DOMAIN tokens : PostOpportunity(c, t, create)
             \/ \E key \in Keys, t \in DOMAIN tokens : DeleteOpportunities(c, t, key)
      PROVE  Settled
  BY <1>1, SpendSettled DEF PostQuote, PostOpportunity, DeleteOpportunities
<1>2. ASSUME NEW c \in Calls,
             \/ AddRow(c) \/ AddMemory(c) \/ RefreshInMemoryOpportunity(c) \/ TellNew(c)
             \/ EndQuote(c) \/ DeleteRows(c) \/ DeleteMemory(c) \/ RequestDropped(c)
      PROVE  Settled
  BY <1>2, SpendSettled, SameSettled DEF AddRow, AddMemory, RefreshInMemoryOpportunity, TellNew, EndQuote,
     DeleteRows, DeleteMemory, RequestDropped
<1>3. ASSUME NEW c \in Tasks, DropRow(c) \/ DropMemory(c) \/ TellGone(c) \/ OppQueryFails(c) PROVE Settled
  BY <1>3, SpendSettled, SameSettled DEF DropRow, DropMemory, TellGone, OppQueryFails
<1>4. CASE CheckKey(Loop) \/ StartRound \/ Visit \/ Tick
  BY <1>4, SameSettled DEF CheckKey, StartRound, Visit, Tick
<1> QED
  BY <1>1, <1>2, <1>3, <1>4 DEF OppStep

LEMMA ConnSettled == ASSUME BudgetOK, ConnStep \/ BroadcastUpdate PROVE Settled
<1>1. ASSUME NEW c \in Conns,
             \/ \E ip \in Ips, t \in Tokens \cup {NoToken} : c \in Free(sub, NoSub) /\ GetNewSubscriberId(c, ip, t)
             \/ UpgradeFails(c) \/ Open(c) \/ NetworkLost(c)
      PROVE  Settled
  BY <1>1, SpendSettled, SameSettled DEF GetNewSubscriberId, UpgradeFails, Open, NetworkLost
<1>2. ASSUME NEW c \in Conns,
             \/ HandleUpdate(c) \/ Lags(c) \/ HandleClientMessage(c) \/ SpawnDeferred(c)
             \/ HandleResponse(c) \/ PingTick(c) \/ ExitTick(c)
      PROVE  Settled
  BY <1>2, SpendSettled, SameSettled DEF HandleUpdate, Lags, HandleClientMessage, SpawnDeferred,
     HandleResponse, PingTick, ExitTick
<1>3. ASSUME NEW c \in Conns,
             \/ \E body \in Bodies : Request(c, body)
             \/ \E n \in DOMAIN cli[c].callers : CallerTimesOut(c, n)
             \/ ClientReceives(c) \/ ClientGivesUp(c)
      PROVE  Settled
  BY <1>3, SpendSettled, SameSettled DEF Request, CallerTimesOut, ClientReceives, ClientGivesUp
<1>4. ASSUME NEW task \in deferred, RunDeferred(task) \/ RespondDeferred(task) PROVE Settled
  BY <1>4, SameSettled DEF RunDeferred, RespondDeferred
<1>5. CASE BroadcastUpdate
  BY <1>5, SpendSettled DEF BroadcastUpdate
<1> QED
  BY <1>1, <1>2, <1>3, <1>4, <1>5 DEF ConnStep

LEMMA HistorySettled == ASSUME BudgetOK, HistoryStep \/ DeletionStep \/ ReadStep PROVE Settled
<1>1. ASSUME NEW initiated, WriteBid(initiated) PROVE Settled
  BY <1>1, SpendSettled DEF WriteBid
<1>2. CASE WriteAuction \/ Insert \/ GrowOld
  BY <1>2, SpendSettled, SameSettled DEF WriteAuction, Insert, GrowOld
<1>3. ASSUME NEW b, NEW status, ChangeStatus(b, status) PROVE Settled
  BY <1>3, SpendSettled, SameSettled DEF ChangeStatus
<1>4. ASSUME NEW task, SendAnalytics(task) \/ AnalyticsFail(task) PROVE Settled
  BY <1>4, SpendSettled, SameSettled DEF SendAnalytics, AnalyticsFail
<1>5. CASE DeletionStep
  BY <1>5, SpendSettled, SameSettled DEF DeletionStep, DeletionTick, WaitForTick, DeletePgDbBidHistory,
     DeletePgDbOpportunityHistory, DeletePgDbAuctionHistory
<1>6. CASE ReadStep
  BY <1>6, SpendSettled, SameSettled DEF ReadStep, GetBids, GetAuctionsByBids, GetAuction, GetOpportunities,
     GetBid
<1> QED
  BY <1>1, <1>2, <1>3, <1>4, <1>5, <1>6 DEF HistoryStep

LEMMA SimulatorSettled == ASSUME BudgetOK, SimulatorStep PROVE Settled
<1>1. ASSUME NEW tx, SimulateTransaction(tx) \/ RemovePendingTransaction(tx) \/ Lands(tx) PROVE Settled
  BY <1>1, SpendSettled, SameSettled DEF SimulateTransaction, RemovePendingTransaction, Lands
<1>2. ASSUME NEW s, OptimizeBids(s) \/ SimulationRuns(s) \/ RpcFails(s) PROVE Settled
  BY <1>2, SpendSettled, SameSettled DEF OptimizeBids, SimulationRuns, ResolveLookupAddresses, FetchAccount,
     Verified, GetWinnerBids, SendTransactionToNetwork, AddPendingTransaction, RpcFails
<1>3. (\E i \in 1..Len(pending) : Outlives(i)) \/ CacheExpires \/ ExtendTable => Settled
  BY SpendSettled, SameSettled DEF Outlives, CacheExpires, ExtendTable
<1> QED
  BY <1>1, <1>2, <1>3 DEF SimulatorStep

LEMMA NextSettled == ASSUME BudgetOK, [Next]_vars PROVE Settled
<1>1. CASE UNCHANGED vars
  BY <1>1, SameSettled DEF vars
<1>2. CASE Next
  BY <1>2, ServerSettled, AccessSettled, OppSettled, ConnSettled, HistorySettled, SimulatorSettled
     DEF Next, OfServer, OfAccess, OfOpp, OfConn, OfHistory, OfTables, OfSimulator
<1> QED
  BY <1>1, <1>2

LEMMA SpecBudget == Spec => []BudgetOK
<1>1. Init => BudgetOK
  BY HistoryAssumption DEF Init, BudgetOK
<1>2. BudgetOK /\ [Next]_vars => BudgetOK'
  BY NextSettled DEF Settled, BudgetOK
<1> QED
  BY <1>1, <1>2, PTL DEF Spec
---------------------------------------------------------------------------
(* The rows and the copies of them that are on their way to the analytics     *)
(* database: a bid that was submitted names an auction, one made after the    *)
(* bid, and an auction that a bid names and that is not there any more is old. *)
BidRow == [initiated : Nat, status : {"pending", "submitted", "lost", "won"}, auction : Nat]
Copies(n) ==
  [kind : {"bid"}, id : 1..n, status : {"submitted", "lost", "won"}]
    \cup [kind : {"opportunity"}, id : Nat, status : {"live", "removed"}]

RowOK(row) ==
  /\ row \in BidRow
  /\ row.auction # NoAuction =>
       row.auction \in 1..written /\ (row.auction \in auctionRows \/ row.auction <= horizon)
  /\ row.status \in {"submitted", "won"} => row.auction # NoAuction
  /\ row.status = "pending" => row.auction = NoAuction

TablesOK ==
  /\ written \in Nat /\ horizon \in 0..written
  /\ auctionRows \subseteq 1..written /\ DOMAIN bidRows \subseteq (1..written) \ auctionRows
  /\ \A b \in DOMAIN bidRows :
       RowOK(bidRows[b]) /\ (bidRows[b].auction # NoAuction => b < bidRows[b].auction)

CopiesOK ==
  /\ analytics \subseteq Copies(written)
  /\ channel \in Seq(Copies(written)) /\ Len(channel) <= ChannelSize

RecordsInv == TablesOK /\ CopiesOK /\ deleting \in {"check", "waiting", "bids", "opportunities", "auctions"}

(* Of a bid that no two tasks were about at once there is one copy at most on *)
(* its way to the channel, the last one in the channel is of its status, and  *)
(* when there is none the analytics database has it.                          *)
Sending(b) == {t \in analytics : Subject(t) = <<"bid", b>>}
Queued(b) == {i \in 1..Len(channel) : Subject(channel[i]) = <<"bid", b>>}

CopyOf(b) ==
  /\ \A t \in Sending(b) : t.status = bidRows[b].status
  /\ Sending(b) = {} =>
       \A i \in Queued(b) : (\A j \in Queued(b) : j <= i) => channel[i].status = bidRows[b].status
  /\ Sending(b) = {} /\ Queued(b) = {} /\ bidRows[b].status # "pending" =>
       <<"bid", b>> \in DOMAIN stored /\ stored[<<"bid", b>>] = bidRows[b].status

CopyInv == Watched => \A b \in DOMAIN bidRows : <<"bid", b>> \notin disordered => CopyOf(b)
---------------------------------------------------------------------------
LEMMA CopiesGrow == ASSUME NEW m \in Nat, NEW n \in Nat, m <= n PROVE Copies(m) \subseteq Copies(n)
  BY DEF Copies

LEMMA InitRecords == Init => RecordsInv
<1> SUFFICES ASSUME Init PROVE RecordsInv
  OBVIOUS
<1> USE DEF Init, HistoryInit
<1>1. TablesOK
  BY DEF TablesOK
<1>2. CopiesOK
  BY HistoryAssumption DEF CopiesOK
<1> QED
  BY <1>1, <1>2 DEF RecordsInv

(* Steps that write rows.                                                     *)
LEMMA WritesRecorded ==
  ASSUME RecordsInv, (\E initiated \in {written, written + 1} \ {0} : WriteBid(initiated)) \/ WriteAuction
  PROVE  RecordsInv'
<1>0. written \in Nat /\ written' = written + 1 /\ UNCHANGED <<horizon, deleting, analytics, channel>>
  BY DEF RecordsInv, TablesOK, WriteBid, WriteAuction, analyticsVars
<1>1. 1..written \subseteq 1..written'
  BY <1>0
<1>2. TablesOK'
  <2>1. ASSUME NEW initiated \in {written, written + 1} \ {0}, WriteBid(initiated) PROVE TablesOK'
    <3> DEFINE row == [initiated |-> initiated, status |-> "pending", auction |-> NoAuction]
    <3>1. bidRows' = Put(bidRows, written + 1, row) /\ UNCHANGED auctionRows
      BY <2>1 DEF WriteBid, InsertBid, NewBid
    <3>2. row \in BidRow /\ row.auction = NoAuction /\ row.status = "pending"
      BY <1>0 DEF BidRow, NoAuction
    <3> HIDE DEF row
    <3>3. DOMAIN bidRows' \subseteq (1..written') \ auctionRows'
      BY <1>0, <3>1 DEF Put, RecordsInv, TablesOK
    <3>4. \A b \in DOMAIN bidRows' : bidRows'[b] = row \/ (b \in DOMAIN bidRows /\ bidRows'[b] = bidRows[b])
      BY <3>1 DEF Put
    <3>5. ASSUME NEW b \in DOMAIN bidRows'
          PROVE  RowOK(bidRows[b])' /\ (bidRows'[b].auction # NoAuction => b < bidRows'[b].auction)
      <4>1. CASE bidRows'[b] = row
        BY <3>2, <4>1 DEF RowOK
      <4>2. CASE b \in DOMAIN bidRows /\ bidRows'[b] = bidRows[b]
        BY <1>0, <1>1, <3>1, <4>2 DEF RecordsInv, TablesOK, RowOK
      <4> QED
        BY <3>4, <4>1, <4>2
    <3> QED
      BY <1>0, <3>1, <3>3, <3>5 DEF RecordsInv, TablesOK
  <2>2. CASE WriteAuction
    <3>1. auctionRows' = auctionRows \cup {written + 1} /\ UNCHANGED bidRows
      BY <2>2 DEF WriteAuction
    <3>2. \A b \in DOMAIN bidRows' :
            RowOK(bidRows[b])' /\ (bidRows'[b].auction # NoAuction => b < bidRows'[b].auction)
      BY <1>0, <1>1, <3>1 DEF RecordsInv, TablesOK, RowOK
    <3> QED
      BY <1>0, <3>1, <3>2 DEF RecordsInv, TablesOK
  <2> QED
    BY <2>1, <2>2
<1>3. CopiesOK'
  <2>1. Copies(written) \subseteq Copies(written')
    BY <1>0, CopiesGrow
  <2>2. channel \in Seq(Copies(written'))
    BY <2>1, SeqGrows DEF RecordsInv, CopiesOK
  <2> QED
    BY <1>0, <2>1, <2>2 DEF RecordsInv, CopiesOK
<1> QED
  BY <1>0, <1>2, <1>3 DEF RecordsInv

(* The row of a bid after its status changed.                                 *)
LEMMA ChangedRow ==
  ASSUME RecordsInv, NEW b \in DOMAIN bidRows, NEW status \in NextStatuses(bidRows[b]), ChangeStatus(b, status)
  PROVE  \E row :
           /\ bidRows' = [bidRows EXCEPT ![b] = row] /\ RowOK(row)
           /\ row.status = status /\ status \in {"submitted", "lost", "won"}
           /\ row.initiated = bidRows[b].initiated
           /\ bidRows[b].auction # NoAuction => row.auction = bidRows[b].auction
           /\ row.auction # NoAuction => b < row.auction
<1>0. /\ RowOK(bidRows[b]) /\ (bidRows[b].auction # NoAuction => b < bidRows[b].auction)
      /\ b \in Nat /\ auctionRows \subseteq 1..written /\ written \in Nat
      /\ bidRows[b].auction \in Nat /\ DOMAIN bidRows[b] = {"initiated", "status", "auction"}
  BY DEF RecordsInv, TablesOK, RowOK, BidRow
<1>1. \/ bidRows[b].status = "pending" /\ status \in {"submitted", "lost"}
      \/ bidRows[b].status = "submitted" /\ status = "won"
  BY DEF NextStatuses
<1>2. PICK a \in IF status = "won" THEN {bidRows[b].auction}
                 ELSE {x \in auctionRows : x > b} \cup (IF status = "lost" THEN {NoAuction} ELSE {}) :
        bidRows' = [bidRows EXCEPT ![b].status = status, ![b].auction = a]
  BY DEF ChangeStatus
<1>3. /\ a \in Nat
      /\ a # NoAuction => b < a /\ a \in 1..written /\ (a \in auctionRows \/ a <= horizon)
      /\ status \in {"submitted", "won"} => a # NoAuction
      /\ bidRows[b].auction # NoAuction => a = bidRows[b].auction
  <2>1. CASE status = "won"
    BY <1>0, <1>1, <1>2, <2>1 DEF RowOK, NoAuction
  <2>2. CASE status = "submitted"
    <3>1. a \in auctionRows /\ b < a
      BY <1>2, <2>2
    <3>2. a \in 1..written
      BY <1>0, <3>1
    <3>3. a \in Nat /\ a # NoAuction
      BY <1>0, <3>2 DEF NoAuction
    <3>4. bidRows[b].auction = NoAuction
      BY <1>0, <1>1, <2>2 DEF RowOK
    <3> QED
      BY <3>1, <3>2, <3>3, <3>4
  <2>3. CASE status = "lost"
    <3>1. (a \in auctionRows /\ b < a) \/ a = NoAuction
      BY <1>2, <2>3
    <3>2. bidRows[b].auction = NoAuction
      BY <1>0, <1>1, <2>3 DEF RowOK
    <3>3. a \in Nat
      <4>1. auctionRows \subseteq Nat /\ NoAuction \in Nat
        BY <1>0 DEF NoAuction
      <4> QED
        BY <3>1, <4>1
    <3>4. status \notin {"submitted", "won"}
      BY <2>3
    <3> QED
      BY <1>0, <3>1, <3>2, <3>3, <3>4
  <2> QED
    BY <1>1, <2>1, <2>2, <2>3
<1> DEFINE row == [bidRows[b] EXCEPT !.status = status, !.auction = a]
<1>4. row.status = status /\ row.auction = a /\ row.initiated = bidRows[b].initiated /\ row \in BidRow
  BY <1>0, <1>1, <1>3 DEF RowOK, BidRow
<1>5. bidRows' = [bidRows EXCEPT ![b] = row]
  BY <1>2
<1> HIDE DEF row
<1>6. RowOK(row)
  BY <1>1, <1>3, <1>4 DEF RowOK
<1> QED
  BY <1>1, <1>3, <1>4, <1>5, <1>6

LEMMA ChangesRecorded ==
  ASSUME RecordsInv, NEW b \in DOMAIN bidRows, NEW status \in NextStatuses(bidRows[b]), ChangeStatus(b, status)
  PROVE  RecordsInv'
<1>0. UNCHANGED <<auctionRows, written, horizon, deleting, channel>>
  BY DEF ChangeStatus
<1>1. PICK row : /\ bidRows' = [bidRows EXCEPT ![b] = row] /\ RowOK(row)
                 /\ row.status = status /\ status \in {"submitted", "lost", "won"}
                 /\ row.auction # NoAuction => b < row.auction
  BY ChangedRow
<1>2. TablesOK'
  <2>1. \A x \in DOMAIN bidRows' :
          RowOK(bidRows[x])' /\ (bidRows'[x].auction # NoAuction => x < bidRows'[x].auction)
    BY <1>0, <1>1 DEF RecordsInv, TablesOK, RowOK
  <2> QED
    BY <1>0, <1>1, <2>1 DEF RecordsInv, TablesOK
<1>3. CopiesOK'
  <2>1. TaskOf(b, status) \in Copies(written)
    BY <1>1 DEF TaskOf, Copies, RecordsInv, TablesOK
  <2>2. analytics' \subseteq analytics \cup {TaskOf(b, status)}
    BY DEF ChangeStatus, Spawn
  <2> QED
    BY <1>0, <2>1, <2>2 DEF RecordsInv, CopiesOK
<1> QED
  BY <1>0, <1>2, <1>3 DEF RecordsInv

(* Steps of the copies.                                                       *)
LEMMA TablesSame == ASSUME TablesOK, UNCHANGED <<tableVars, horizon>> PROVE TablesOK'
  BY DEF TablesOK, RowOK, tableVars

LEMMA CopiesRecorded ==
  ASSUME RecordsInv, (\E task \in analytics : SendAnalytics(task) \/ AnalyticsFail(task)) \/ Insert
  PROVE  RecordsInv'
<1>0. UNCHANGED <<tableVars, horizon, deleting>> /\ UNCHANGED written
  BY DEF SendAnalytics, AnalyticsFail, Insert, tableVars
<1>1. analytics \subseteq Copies(written) /\ channel \in Seq(Copies(written)) /\ Len(channel) <= ChannelSize
      /\ ChannelSize \in Nat /\ Len(channel) \in Nat
  BY HistoryAssumption DEF RecordsInv, CopiesOK
<1>2. ASSUME NEW task \in analytics, SendAnalytics(task) PROVE CopiesOK'
  <2>1. channel' = Append(channel, task) /\ Len(channel) < ChannelSize /\ analytics' \subseteq analytics
    BY <1>2 DEF SendAnalytics, AddBid, AddOpportunity
  <2>2. channel' \in Seq(Copies(written)) /\ Len(channel') = Len(channel) + 1
    BY <1>1, <2>1
  <2> QED
    BY <1>0, <1>1, <2>1, <2>2 DEF CopiesOK
<1>3. ASSUME NEW task \in analytics, AnalyticsFail(task) PROVE CopiesOK'
  BY <1>0, <1>1, <1>3 DEF AnalyticsFail, CopiesOK
<1>4. ASSUME Insert PROVE CopiesOK'
  <2>1. channel # <<>> /\ channel' = Tail(channel) /\ UNCHANGED analytics
    BY <1>4 DEF Insert
  <2>2. channel' \in Seq(Copies(written)) /\ Len(channel') = Len(channel) - 1
    BY <1>1, <2>1
  <2> QED
    BY <1>0, <1>1, <2>1, <2>2 DEF CopiesOK
<1>5. CopiesOK'
  BY <1>2, <1>3, <1>4
<1> QED
  BY <1>0, <1>5, TablesSame DEF RecordsInv

LEMMA GrowOldRecorded == ASSUME RecordsInv, GrowOld PROVE RecordsInv'
<1>1. horizon' = horizon + 1 /\ horizon < written /\ UNCHANGED <<tableVars, deleting, analyticsVars>>
  BY DEF GrowOld
<1>2. horizon \in Nat /\ written \in Nat
  BY DEF RecordsInv, TablesOK
<1>3. \A a \in 1..written : a <= horizon => a <= horizon'
  BY <1>1, <1>2
<1>4. TablesOK'
  BY <1>1, <1>2, <1>3 DEF RecordsInv, TablesOK, RowOK, tableVars
<1> QED
  BY <1>1, <1>4 DEF RecordsInv, CopiesOK, tableVars, analyticsVars

(* The deletion.                                                              *)
LEMMA DeletionRecorded == ASSUME RecordsInv, DeletionStep PROVE RecordsInv'
<1>0. UNCHANGED <<written, horizon, analytics, channel>>
  BY DEF DeletionStep, DeletionTick, WaitForTick, DeletePgDbBidHistory, DeletePgDbOpportunityHistory,
         DeletePgDbAuctionHistory, tableVars, analyticsVars
<1>1. deleting' \in {"check", "waiting", "bids", "opportunities", "auctions"}
  BY DEF DeletionStep, DeletionTick, WaitForTick, DeletePgDbBidHistory, DeletePgDbOpportunityHistory,
         DeletePgDbAuctionHistory, NextDeletion
<1>2. CopiesOK'
  BY <1>0 DEF RecordsInv, CopiesOK
<1>3. TablesOK'
  <2>1. CASE DeletePgDbBidHistory
    <3>1. PICK gone : bidRows' = Restrict(bidRows, DOMAIN bidRows \ gone)
      BY <2>1 DEF DeletePgDbBidHistory
    <3>2. UNCHANGED auctionRows
      BY <2>1 DEF DeletePgDbBidHistory
    <3> QED
      BY <1>0, <3>1, <3>2 DEF RecordsInv, TablesOK, RowOK, Restrict
  <2>2. CASE DeletePgDbAuctionHistory
    <3>1. PICK gone \in Batches(Old(auctionRows)) : auctionRows' = auctionRows \ gone
      BY <2>2 DEF DeletePgDbAuctionHistory
    <3>2. UNCHANGED bidRows
      BY <2>2 DEF DeletePgDbAuctionHistory
    <3>3. \A a \in gone : a <= horizon
      BY <3>1 DEF Batches, kSubset, Old
    <3> QED
      BY <1>0, <3>1, <3>2, <3>3 DEF RecordsInv, TablesOK, RowOK
  <2>3. CASE DeletionTick \/ WaitForTick \/ DeletePgDbOpportunityHistory
    <3>1. UNCHANGED tableVars
      BY <2>3 DEF DeletionTick, WaitForTick, DeletePgDbOpportunityHistory
    <3> QED
      BY <1>0, <3>1, TablesSame DEF RecordsInv
  <2> QED
    BY <2>1, <2>2, <2>3 DEF DeletionStep
<1> QED
  BY <1>1, <1>2, <1>3 DEF RecordsInv

(* What a call of the opportunities has the analytics told is about its own.  *)
LEMMA TasksTyped ==
  ASSUME OppInv
  PROVE  OpportunityTasks \subseteq [kind : {"opportunity"}, id : Nat, status : {"live", "removed"}]
<1> DEFINE T == [kind : {"opportunity"}, id : Nat, status : {"live", "removed"}]
<1>1. ASSUME NEW o \in Known, NEW status \in {"live", "removed"} PROVE OpportunityTask(o, status) \in T
  BY DEF OpportunityTask, Known
<1>2. ASSUME NEW c \in Tasks, calls[c].pc \in {"memory", "dropMemory"} PROVE calls[c].opp \in Known
  BY <1>2 DEF OppInv, CallsOK, CallOK, NoCall
<1>3. ASSUME NEW key PROVE ToSet(At(key)) \subseteq Known
  <2>1. ToSet(At(key)) \subseteq OfKey(Known, key)
    BY AtIs, ToSetTyped DEF OppInv
  <2> QED
    BY <2>1 DEF OfKey
<1> HIDE DEF T
<1>4. ASSUME NEW c \in Tasks
      PROVE  (IF calls[c].pc = "memory" /\ calls'[c].pc = "tell" THEN {OpportunityTask(calls[c].opp, "live")}
              ELSE IF calls[c].pc = "dropMemory" /\ memory' # memory /\ calls[c].first
                THEN {OpportunityTask(calls[c].opp, "removed")}
              ELSE IF calls[c].pc = "deleteMemory" /\ memory' # memory
                THEN {OpportunityTask(o, "removed") : o \in ToSet(At(calls[c].key))}
              ELSE {}) \subseteq T
  BY <1>1, <1>2, <1>3
<1>5. OpportunityTasks \subseteq T
  BY <1>4 DEF OpportunityTasks
<1> QED
  BY <1>5 DEF T

LEMMA OppRecorded == ASSUME RecordsInv, OppInv, OpportunityAnalytics PROVE RecordsInv'
<1>1. UNCHANGED <<tableVars, horizon, deleting, channel>> /\ UNCHANGED written
  BY DEF OpportunityAnalytics, tableVars
<1>2. analytics' \subseteq analytics \cup OpportunityTasks
  BY DEF OpportunityAnalytics, Spawn
<1>3. OpportunityTasks \subseteq Copies(written)
  BY TasksTyped DEF Copies
<1> QED
  BY <1>1, <1>2, <1>3, TablesSame DEF RecordsInv, CopiesOK

LEMMA StopsRecorded == ASSUME RecordsInv, HistoryStops PROVE RecordsInv'
<1>1. /\ UNCHANGED <<tableVars, horizon>> /\ deleting' = "check" /\ analytics' = {} /\ channel' = <<>>
  BY DEF HistoryStops
<1> QED
  BY <1>1, TablesSame, HistoryAssumption DEF RecordsInv, CopiesOK

LEMMA RecordsSame ==
  ASSUME RecordsInv, UNCHANGED <<tableVars, horizon, analyticsVars>>,
         deleting' = deleting \/ deleting' = "check"
  PROVE  RecordsInv'
<1>1. UNCHANGED <<analytics, channel, written>>
  BY DEF analyticsVars, tableVars
<1> QED
  BY <1>1, TablesSame DEF RecordsInv, CopiesOK

LEMMA HistoryStepRecorded == ASSUME RecordsInv, HistoryStep PROVE RecordsInv'
  BY WritesRecorded, ChangesRecorded, CopiesRecorded, GrowOldRecorded DEF HistoryStep

(* Every step of the server is one of the history, or of the opportunities    *)
(* with what the analytics are told of it, or leaves the tables alone.        *)
LEMMA HistorySteps ==
  ASSUME [Next]_vars
  PROVE  \/ HistoryStep \/ DeletionStep \/ HistoryStops
         \/ OppStep /\ OpportunityAnalytics
         \/ /\ UNCHANGED <<tableVars, horizon, analyticsVars>>
            /\ deleting' = deleting \/ deleting' = "check"
<1>1. ASSUME ReadStep PROVE UNCHANGED <<tableVars, horizon, analyticsVars, deleting>>
  BY <1>1 DEF ReadStep, GetBids, GetAuctionsByBids, GetAuction, GetOpportunities, GetBid
<1>2. CASE UNCHANGED vars
  BY <1>2 DEF vars, historyVars, tableVars, analyticsVars
<1>3. CASE Next
  BY <1>1, <1>3 DEF Next, OfServer, VerificationPanics, Completes, Crash, Down, StartsAgain, OfAccess,
     OfOpp, OfConn, OfHistory, OfTables, OfSimulator, historyVars, tableVars, analyticsVars
<1> QED
  BY <1>2, <1>3

LEMMA SpecRecords == Spec => []RecordsInv
<1>1. RecordsInv /\ OppInv /\ [Next]_vars => RecordsInv'
  BY HistorySteps, HistoryStepRecorded, DeletionRecorded, StopsRecorded, OppRecorded, RecordsSame
<1> QED
  BY InitRecords, <1>1, SpecOpp, PTL DEF Spec
---------------------------------------------------------------------------
LEMMA InitCopies == Init => CopyInv
  BY DEF Init, HistoryInit, CopyInv

(* A bid about which nothing changes.                                         *)
LEMMA CopySame ==
  ASSUME NEW b, CopyOf(b), bidRows'[b] = bidRows[b], Sending(b)' = Sending(b),
         UNCHANGED <<channel, stored>>
  PROVE  CopyOf(b)'
<1>1. Queued(b)' = Queued(b)
  BY DEF Queued
<1> QED
  BY <1>1 DEF CopyOf

LEMMA WritesCopied ==
  ASSUME RecordsInv, CopyInv, Watched' <=> Watched,
         (\E initiated \in {written, written + 1} \ {0} : WriteBid(initiated)) \/ WriteAuction
  PROVE  CopyInv'
<1>0. UNCHANGED <<analytics, channel, stored, disordered>> /\ written \in Nat
  BY DEF WriteBid, WriteAuction, analyticsVars, RecordsInv, TablesOK
<1> SUFFICES ASSUME Watched, NEW b \in DOMAIN bidRows', <<"bid", b>> \notin disordered' PROVE CopyOf(b)'
  BY DEF CopyInv
<1>1. Sending(b)' = Sending(b)
  BY <1>0 DEF Sending, Subject
<1>2. CASE b \in DOMAIN bidRows
  <2>1. bidRows'[b] = bidRows[b]
    BY <1>2 DEF WriteBid, InsertBid, Put, WriteAuction, RecordsInv, TablesOK
  <2> QED
    BY <1>0, <1>1, <1>2, <2>1, CopySame DEF CopyInv
<1>3. CASE b \notin DOMAIN bidRows
  <2>1. b = written + 1 /\ bidRows'[b].status = "pending"
    BY <1>3 DEF WriteBid, InsertBid, NewBid, Put, WriteAuction
  <2>2. \A t \in Copies(written) : Subject(t) # <<"bid", b>>
    BY <1>0, <2>1 DEF Copies, Subject
  <2>3. Sending(b) = {} /\ Queued(b) = {}
    <3>1. analytics \subseteq Copies(written) /\ \A i \in 1..Len(channel) : channel[i] \in Copies(written)
      BY DEF RecordsInv, CopiesOK
    <3> QED
      BY <2>2, <3>1 DEF Sending, Queued
  <2>4. Sending(b)' = {} /\ Queued(b)' = {}
    BY <1>0, <1>1, <2>3 DEF Queued
  <2> QED
    BY <2>1, <2>4 DEF CopyOf
<1> QED
  BY <1>2, <1>3

(* A change of status sends a copy, unless one is on its way.                 *)
LEMMA ChangesCopied ==
  ASSUME RecordsInv, CopyInv, Watched' <=> Watched, NEW b \in DOMAIN bidRows,
         NEW status \in NextStatuses(bidRows[b]), ChangeStatus(b, status)
  PROVE  CopyInv'
<1>0. UNCHANGED <<channel, stored>>
  BY DEF ChangeStatus
<1>1. PICK row : bidRows' = [bidRows EXCEPT ![b] = row] /\ row.status = status
  BY ChangedRow
<1> SUFFICES ASSUME Watched, NEW x \in DOMAIN bidRows', <<"bid", x>> \notin disordered' PROVE CopyOf(x)'
  BY DEF CopyInv
<1>2. x \in DOMAIN bidRows
  BY <1>1
<1> DEFINE task == TaskOf(b, status)
<1>3. Subject(task) = <<"bid", b>> /\ task.status = status
  BY DEF TaskOf, Subject
<1>4. /\ disordered \subseteq disordered'
      /\ \/ /\ analytics' = analytics \cup {task}
            /\ <<"bid", b>> \notin disordered' => \A u \in analytics : Subject(u) # Subject(task)
         \/ analytics' = analytics /\ <<"bid", b>> \in disordered'
  <2>1. CASE Spawn({task})
    <3>1. analytics' = analytics \cup {task}
      BY <2>1 DEF Spawn
    <3>2. disordered' = disordered \cup {Subject(t) : t \in {u \in analytics : Subject(u) = Subject(task)}}
      BY <2>1 DEF Spawn
    <3>3. \A u \in analytics : Subject(u) = Subject(task) => Subject(u) \in disordered'
      BY <3>2
    <3> QED
      BY <1>3, <3>1, <3>2, <3>3
  <2>2. CASE disordered' = disordered \cup {<<"bid", b>>} /\ UNCHANGED analytics
    BY <2>2
  <2>3. Spawn({task}) \/ (disordered' = disordered \cup {<<"bid", b>>} /\ UNCHANGED analytics)
    BY DEF ChangeStatus
  <2> QED
    BY <2>1, <2>2, <2>3
<1> HIDE DEF task
<1>5. CASE x # b
  <2>1. <<"bid", x>> # <<"bid", b>>
    BY <1>5
  <2>2. Sending(x)' = Sending(x)
    BY <1>3, <1>4, <2>1 DEF Sending, Subject
  <2>3. CopyOf(x)
    BY <1>2, <1>4 DEF CopyInv
  <2> QED
    BY <1>0, <1>1, <1>2, <1>5, <2>2, <2>3, CopySame
<1>6. CASE x = b
  <2>1. \A t \in analytics' : Subject(t) = <<"bid", b>> => t = task
    BY <1>3, <1>4, <1>6
  <2>2. task \in Sending(b)' /\ Sending(b)' \subseteq {task}
    BY <1>3, <1>4, <1>6, <2>1 DEF Sending, Subject
  <2>3. bidRows'[b].status = status
    BY <1>1
  <2> QED
    BY <1>3, <1>6, <2>2, <2>3 DEF CopyOf
<1> QED
  BY <1>5, <1>6

(* A copy goes to the channel, or is lost.                                    *)
LEMMA SendsCopied ==
  ASSUME RecordsInv, CopyInv, Watched' <=> Watched, NEW task \in analytics,
         SendAnalytics(task) \/ AnalyticsFail(task)
  PROVE  CopyInv'
<1>0. UNCHANGED <<bidRows, stored>> /\ disordered \subseteq disordered' /\ analytics' = analytics \ {task}
  BY DEF SendAnalytics, AnalyticsFail, tableVars
<1> SUFFICES ASSUME Watched, NEW b \in DOMAIN bidRows, <<"bid", b>> \notin disordered' PROVE CopyOf(b)'
  BY <1>0 DEF CopyInv
<1>1. CopyOf(b)
  BY <1>0 DEF CopyInv
<1>2. CASE Subject(task) # <<"bid", b>> /\ UNCHANGED channel
  <2>1. Sending(b)' = Sending(b)
    BY <1>0, <1>2 DEF Sending, Subject
  <2> QED
    BY <1>0, <1>1, <1>2, <2>1, CopySame
<1>3. CASE AnalyticsFail(task)
  <2>1. Subject(task) # <<"bid", b>> /\ UNCHANGED channel
    BY <1>3 DEF AnalyticsFail
  <2> QED
    BY <1>2, <2>1
<1>4. CASE SendAnalytics(task)
  <2>1. channel' = Append(channel, task)
    BY <1>4 DEF SendAnalytics, AddBid, AddOpportunity
  <2>2. channel \in Seq(Copies(written)) /\ task \in Copies(written)
    BY DEF RecordsInv, CopiesOK
  <2>3. /\ Len(channel) \in Nat /\ Len(channel') = Len(channel) + 1 /\ channel'[Len(channel) + 1] = task
        /\ \A i \in 1..Len(channel) : channel'[i] = channel[i]
    BY <2>1, <2>2
  <2>4. 1..Len(channel') = (1..Len(channel)) \cup {Len(channel) + 1}
    BY <2>3
  <2>5. CASE Subject(task) = <<"bid", b>>
    <3>1. task \in Sending(b)
      BY <2>5 DEF Sending
    <3>2. \A i \in 1..Len(channel') : i <= Len(channel) + 1
      BY <2>3
    <3>3. Len(channel) + 1 \in Queued(b)'
      BY <2>3, <2>4, <2>5 DEF Queued, Subject
    <3>4. \A i \in Queued(b)' : (\A j \in Queued(b)' : j <= i) => i = Len(channel) + 1
      <4>1. \A i \in Queued(b)' : i \in 1..Len(channel')
        BY DEF Queued
      <4> QED
        BY <2>3, <3>2, <3>3, <4>1
    <3>5. \A t \in Sending(b)' : t.status = bidRows'[b].status
      BY <1>0, <1>1 DEF CopyOf, Sending, Subject
    <3>6. channel'[Len(channel) + 1].status = bidRows'[b].status
      BY <1>0, <1>1, <2>3, <3>1 DEF CopyOf
    <3> QED
      BY <3>3, <3>4, <3>5, <3>6 DEF CopyOf
  <2>6. CASE Subject(task) # <<"bid", b>>
    <3>1. Sending(b)' = Sending(b)
      BY <1>0, <2>6 DEF Sending, Subject
    <3>2. Queued(b)' = Queued(b)
      BY <2>3, <2>4, <2>6 DEF Queued, Subject
    <3>3. \A i \in Queued(b) : channel'[i] = channel[i]
      BY <2>3 DEF Queued
    <3> QED
      BY <1>0, <1>1, <3>1, <3>2, <3>3 DEF CopyOf
  <2> QED
    BY <2>5, <2>6
<1> QED
  BY <1>3, <1>4

(* The first copy of the channel is written, or lost.                         *)
LEMMA InsertsCopied ==
  ASSUME RecordsInv, CopyInv, Watched' <=> Watched, Insert
  PROVE  CopyInv'
<1>0. UNCHANGED <<bidRows, analytics>> /\ disordered \subseteq disordered' /\ channel # <<>> /\ channel' = Tail(channel)
  BY DEF Insert, tableVars
<1> SUFFICES ASSUME Watched, NEW b \in DOMAIN bidRows, <<"bid", b>> \notin disordered' PROVE CopyOf(b)'
  BY <1>0 DEF CopyInv
<1>1. CopyOf(b)
  BY <1>0 DEF CopyInv
<1>2. channel \in Seq(Copies(written))
  BY DEF RecordsInv, CopiesOK
<1>3. /\ Len(channel) \in Nat \ {0} /\ Len(channel') = Len(channel) - 1 /\ Head(channel) = channel[1]
      /\ \A i \in 1..(Len(channel) - 1) : channel'[i] = channel[i + 1]
  BY <1>0, <1>2
<1>4. Sending(b)' = Sending(b)
  BY <1>0 DEF Sending, Subject
<1>5. Queued(b)' = {i \in 1..(Len(channel) - 1) : i + 1 \in Queued(b)}
  BY <1>3 DEF Queued, Subject
<1>6. \A t \in Sending(b)' : t.status = bidRows'[b].status
  BY <1>0, <1>1, <1>4 DEF CopyOf
<1>7. ASSUME Sending(b)' = {}, NEW i \in Queued(b)', \A j \in Queued(b)' : j <= i
      PROVE  channel'[i].status = bidRows'[b].status
  <2>1. i + 1 \in Queued(b) /\ i \in 1..(Len(channel) - 1) /\ channel'[i] = channel[i + 1]
    BY <1>3, <1>5
  <2>2. ASSUME NEW j \in Queued(b) PROVE j <= i + 1
    <3>1. j \in 1..Len(channel)
      BY DEF Queued
    <3>2. CASE j = 1
      BY <2>1, <3>2, <1>3
    <3>3. CASE j # 1
      <4>1. j - 1 \in 1..(Len(channel) - 1) /\ (j - 1) + 1 = j
        BY <1>3, <3>1, <3>3
      <4>2. j - 1 \in Queued(b)'
        BY <1>5, <4>1
      <4>3. j - 1 <= i
        BY <1>7, <4>2
      <4> QED
        BY <1>3, <2>1, <3>1, <4>3
    <3> QED
      BY <3>2, <3>3
  <2> QED
    BY <1>0, <1>1, <1>4, <1>7, <2>1, <2>2 DEF CopyOf
<1>8. ASSUME Sending(b)' = {}, Queued(b)' = {}, bidRows'[b].status # "pending"
      PROVE  <<"bid", b>> \in DOMAIN stored' /\ stored'[<<"bid", b>>] = bidRows'[b].status
  <2>1. CASE Queued(b) = {}
    <3>1. Subject(Head(channel)) # <<"bid", b>>
      BY <1>3, <2>1 DEF Queued
    <3>2. <<"bid", b>> \in DOMAIN stored /\ stored[<<"bid", b>>] = bidRows[b].status
      BY <1>0, <1>1, <1>4, <1>8, <2>1 DEF CopyOf
    <3> QED
      BY <1>0, <3>1, <3>2 DEF Insert, Put
  <2>2. CASE Queued(b) # {}
    <3>1. \A j \in Queued(b) : j = 1
      <4> SUFFICES ASSUME NEW j \in Queued(b), j # 1 PROVE FALSE
        OBVIOUS
      <4>1. j \in 1..Len(channel)
        BY DEF Queued
      <4>2. j - 1 \in 1..(Len(channel) - 1) /\ (j - 1) + 1 = j
        BY <1>3, <4>1
      <4>3. j - 1 \in Queued(b)'
        BY <1>5, <4>2
      <4> QED
        BY <1>8, <4>3
    <3>2. 1 \in Queued(b)
      BY <2>2, <3>1
    <3>3. Subject(Head(channel)) = <<"bid", b>> /\ Head(channel).status = bidRows[b].status
      <4>1. Subject(channel[1]) = <<"bid", b>>
        BY <3>2 DEF Queued
      <4>2. \A j \in Queued(b) : j <= 1
        BY <3>1
      <4>3. Sending(b) = {}
        BY <1>4, <1>8
      <4>4. channel[1].status = bidRows[b].status
        BY <1>1, <3>2, <4>2, <4>3 DEF CopyOf
      <4> QED
        BY <1>3, <4>1, <4>4
    <3>4. stored' = Put(stored, Subject(Head(channel)), Head(channel).status)
      BY <3>3 DEF Insert
    <3> QED
      BY <1>0, <3>3, <3>4 DEF Put
  <2> QED
    BY <2>1, <2>2
<1> QED
  BY <1>6, <1>7, <1>8 DEF CopyOf

LEMMA StepCopied ==
  ASSUME RecordsInv, OppInv, CopyInv, BudgetOK, [Next]_vars
  PROVE  CopyInv'
<1>0. Watched' <=> Watched
  BY NextSettled DEF Watched, Settled
<1>1. CASE HistoryStep
  <2>1. ASSUME GrowOld PROVE CopyInv'
    <3>1. UNCHANGED <<bidRows, analytics, channel, stored, disordered>>
      BY <2>1 DEF GrowOld, tableVars, analyticsVars
    <3> QED
      BY <1>0, <3>1 DEF CopyInv, CopyOf, Sending, Queued, Subject
  <2> QED
    BY <1>0, <1>1, <2>1, WritesCopied, ChangesCopied, SendsCopied, InsertsCopied DEF HistoryStep
<1>2. CASE DeletionStep
  <2>1. UNCHANGED <<analytics, channel, stored, disordered>>
    BY <1>2 DEF DeletionStep, DeletionTick, WaitForTick, DeletePgDbBidHistory,
       DeletePgDbOpportunityHistory, DeletePgDbAuctionHistory, analyticsVars
  <2>2. \A b \in DOMAIN bidRows' : b \in DOMAIN bidRows /\ bidRows'[b] = bidRows[b]
    BY <1>2 DEF DeletionStep, DeletionTick, WaitForTick, DeletePgDbBidHistory,
       DeletePgDbOpportunityHistory, DeletePgDbAuctionHistory, tableVars, Restrict
  <2>3. \A b : Sending(b)' = Sending(b)
    BY <2>1 DEF Sending, Subject
  <2> QED
    BY <1>0, <2>1, <2>2, <2>3, CopySame DEF CopyInv
<1>3. CASE HistoryStops
  <2>1. /\ analytics' = {} /\ channel' = <<>> /\ UNCHANGED <<bidRows, stored>>
        /\ disordered' = disordered \cup {Subject(t) : t \in analytics \cup ToSet(channel)}
    BY <1>3 DEF HistoryStops, tableVars
  <2> SUFFICES ASSUME Watched, NEW b \in DOMAIN bidRows, <<"bid", b>> \notin disordered' PROVE CopyOf(b)'
    BY <1>0, <2>1 DEF CopyInv
  <2>2. CopyOf(b)
    BY <2>1 DEF CopyInv
  <2>3. Sending(b) = {} /\ Queued(b) = {}
    <3>1. \A i \in 1..Len(channel) : channel[i] \in ToSet(channel)
      BY DEF ToSet, RecordsInv, CopiesOK
    <3> QED
      BY <2>1, <3>1 DEF Sending, Queued
  <2>4. Sending(b)' = {} /\ Queued(b)' = {}
    BY <2>1 DEF Sending, Queued
  <2> QED
    BY <2>1, <2>2, <2>3, <2>4 DEF CopyOf
<1>4. CASE OpportunityAnalytics
  <2>1. /\ UNCHANGED <<bidRows, channel, stored>> /\ analytics \subseteq analytics'
        /\ analytics' \subseteq analytics \cup OpportunityTasks /\ disordered \subseteq disordered'
    BY <1>4 DEF OpportunityAnalytics, tableVars, Spawn
  <2>2. \A t \in OpportunityTasks : t.kind = "opportunity"
    BY TasksTyped
  <2>3. \A b : Sending(b)' = Sending(b)
    BY <2>1, <2>2 DEF Sending, Subject
  <2> QED
    BY <1>0, <2>1, <2>3, CopySame DEF CopyInv
<1>5. CASE UNCHANGED <<tableVars, analyticsVars>>
  <2>1. UNCHANGED <<bidRows, analytics, channel, stored, disordered>>
    BY <1>5 DEF tableVars, analyticsVars
  <2> QED
    BY <1>0, <2>1 DEF CopyInv, CopyOf, Sending, Queued, Subject
<1> QED
  BY <1>1, <1>2, <1>3, <1>4, <1>5, HistorySteps

LEMMA SpecCopies == Spec => []CopyInv
<1>1. RecordsInv /\ OppInv /\ CopyInv /\ BudgetOK /\ [Next]_vars => CopyInv'
  BY StepCopied
<1> QED
  BY InitCopies, <1>1, SpecRecords, SpecOpp, SpecBudget, PTL DEF Spec

(* When its tasks are done the analytics database shows a bid as the table    *)
(* does (add_bid_analytics and ClickhouseInserter::run), whatever else is on  *)
(* its way and however the channel fills up.                                  *)
THEOREM AnalyticsCatchUp == Spec => []AnalyticsCurrent
<1>1. RecordsInv /\ CopyInv => AnalyticsCurrent
  <2> SUFFICES ASSUME RecordsInv, CopyInv, NEW b \in DOMAIN bidRows, Watched, bidRows[b].status # "pending",
                      <<"bid", b>> \notin disordered,
                      <<"bid", b>> \notin {Subject(t) : t \in analytics \cup ToSet(channel)}
               PROVE  <<"bid", b>> \in DOMAIN stored /\ stored[<<"bid", b>>] = bidRows[b].status
    BY DEF AnalyticsCurrent
  <2>1. Sending(b) = {} /\ Queued(b) = {}
    <3>1. \A i \in 1..Len(channel) : channel[i] \in ToSet(channel)
      BY DEF ToSet, RecordsInv, CopiesOK
    <3> QED
      BY <3>1 DEF Sending, Queued
  <2> QED
    BY <2>1 DEF CopyInv, CopyOf
<1> QED
  BY <1>1, SpecRecords, SpecCopies, PTL
---------------------------------------------------------------------------
(* What a reader noted at its first request is in the table as it was, or     *)
(* deleted; what it noted from before its cursor it got, unless it is old.    *)
ReadBids(read) ==
  /\ read.cursor \in Nat
  /\ \A id \in DOMAIN read.present :
       /\ id \in 1..written
       /\ id \in DOMAIN bidRows => read.present[id] = bidRows[id].initiated
       /\ id \in Due("bid") /\ read.present[id] < read.cursor => id \in read.got
  /\ \A b \in read.failed : b \in 1..written /\ b \notin Due("bid")

(* A bid of a page is as it was, or got its auction since.                    *)
PageOf(read) ==
  \A b \in DOMAIN read.page :
    /\ b \in 1..written /\ read.page[b] \in BidRow
    /\ read.page[b].status \in {"submitted", "won"} => read.page[b].auction # NoAuction
    /\ b \in DOMAIN bidRows =>
         /\ read.page[b].initiated = bidRows[b].initiated
         /\ read.page[b].auction # NoAuction => read.page[b].auction = bidRows[b].auction

(* A page has what is first in time from the cursor on.                       *)
FirstInTime(read) ==
  \A id \in DOMAIN read.present :
    id \in DOMAIN bidRows /\ read.present[id] >= read.cursor /\ id \notin DOMAIN read.page =>
      \A b \in DOMAIN read.page : read.page[b].initiated <= read.present[id]

ReadOpps(read) ==
  /\ read.cursor \in Nat /\ read.failed = {}
  /\ \A id \in DOMAIN read.present : id \in DOMAIN rows /\ read.present[id] = id
  /\ \A id \in DOMAIN read.present : ~rows[id].deleted /\ id < read.cursor => id \in read.got

ReadOK(read) ==
  /\ DOMAIN read = DOMAIN NoRead
  /\ \/ read = NoRead
     \/ read.kind = "bid" /\ read.pc = "idle" /\ ReadBids(read)
     \/ read.kind = "bid" /\ read.pc = "auctions" /\ ReadBids(read) /\ PageOf(read) /\ FirstInTime(read)
     \/ /\ read.kind = "bid" /\ read.pc = "auction" /\ ReadBids(read) /\ PageOf(read)
        /\ \E b \in 1..written : DOMAIN read.page = {b}
     \/ read.kind = "opportunity" /\ read.pc = "idle" /\ ReadOpps(read)

ReadInv == DOMAIN reads = Readers /\ \A r \in Readers : ReadOK(reads[r])

(* What a step may do to the tables while a request is between two queries:   *)
(* rows are added and deleted and grow old, a bid keeps its time and, once it *)
(* names one, its auction.                                                    *)
TablesGrow ==
  /\ written \in Nat /\ written' \in Nat /\ written <= written'
  /\ horizon \in Nat /\ horizon' \in Nat /\ horizon <= horizon'
  /\ \A b \in DOMAIN bidRows' : b \in 1..written => b \in DOMAIN bidRows
  /\ \A b \in DOMAIN bidRows : b \in DOMAIN bidRows' =>
       /\ bidRows'[b].initiated = bidRows[b].initiated
       /\ bidRows[b].auction # NoAuction => bidRows'[b].auction = bidRows[b].auction
  /\ DOMAIN rows \subseteq DOMAIN rows'
  /\ \A id \in DOMAIN rows : rows[id].deleted => rows'[id].deleted

LEMMA TablesSameGrow ==
  ASSUME RecordsInv, UNCHANGED tableVars, horizon' \in {horizon, horizon + 1}, UNCHANGED rows
  PROVE  TablesGrow
  BY DEF RecordsInv, TablesOK, tableVars, TablesGrow

LEMMA OppStepGrows ==
  ASSUME OppInv, OppStep
  PROVE  DOMAIN rows \subseteq DOMAIN rows' /\ \A id \in DOMAIN rows : rows[id].deleted => rows'[id].deleted
<1>1. PICK n \in Nat : DOMAIN rows = 1..n
  BY DEF OppInv, RowsOK
<1>2. ASSUME NEW c, AddRow(c)
      PROVE  DOMAIN rows \subseteq DOMAIN rows' /\ \A id \in DOMAIN rows : rows'[id] = rows[id]
  <2>1. Cardinality(DOMAIN rows) = n
    BY <1>1, FS_Interval
  <2>2. \A id \in DOMAIN rows : id # n + 1
    BY <1>1
  <2>3. \E row : rows' = Put(rows, n + 1, row)
    BY <1>2, <2>1 DEF AddRow
  <2> QED
    BY <2>2, <2>3 DEF Put
<1>3. ASSUME NEW c, DropRow(c) \/ DeleteRows(c)
      PROVE  DOMAIN rows \subseteq DOMAIN rows' /\ \A id \in DOMAIN rows : rows[id].deleted => rows'[id].deleted
  <2>1. \A id \in DOMAIN rows : rows[id] \in Row
    BY DEF OppInv, RowsOK
  <2>2. /\ DOMAIN rows' = DOMAIN rows
        /\ \A id \in DOMAIN rows : rows'[id] = rows[id] \/ rows'[id] = [rows[id] EXCEPT !.removed = TRUE]
    BY <1>3 DEF DropRow, DeleteRows
  <2>3. \A id \in DOMAIN rows : rows'[id].deleted = rows[id].deleted
    BY <2>1, <2>2 DEF Row
  <2> QED
    BY <2>2, <2>3
<1>4. \/ \E c : AddRow(c) \/ DropRow(c) \/ DeleteRows(c)
      \/ UNCHANGED rows
  BY DEF OppStep, PostQuote, PostOpportunity, AssessAction, DeleteOpportunities, AddMemory,
     RefreshInMemoryOpportunity, TellNew, EndQuote, DeleteMemory, RequestDropped, DropMemory, TellGone,
     OppQueryFails, CheckKey, StartRound, Visit, Tick
<1> QED
  BY <1>2, <1>3, <1>4

LEMMA WritesGrow ==
  ASSUME RecordsInv, HistoryStep, UNCHANGED rows
  PROVE  TablesGrow
<1>1. ASSUME NEW initiated, WriteBid(initiated) PROVE TablesGrow
  <2>1. /\ written \in Nat /\ written + 1 \notin 1..written /\ DOMAIN bidRows \subseteq 1..written
        /\ horizon \in Nat
    BY DEF RecordsInv, TablesOK
  <2>2. /\ written' = written + 1 /\ \E row : bidRows' = Put(bidRows, written + 1, row)
        /\ UNCHANGED horizon
    BY <1>1 DEF WriteBid, InsertBid
  <2>3. PICK row : bidRows' = [z \in DOMAIN bidRows \cup {written + 1} |-> IF z = written + 1 THEN row ELSE bidRows[z]]
    BY <2>2 DEF Put
  <2>4. \A b \in DOMAIN bidRows : bidRows'[b] = bidRows[b]
    BY <2>1, <2>3
  <2>5. DOMAIN bidRows' = DOMAIN bidRows \cup {written + 1}
    BY <2>3
  <2> QED
    BY <2>1, <2>2, <2>4, <2>5 DEF TablesGrow
<1>2. CASE WriteAuction
  BY <1>2 DEF WriteAuction, TablesGrow, RecordsInv, TablesOK
<1>3. ASSUME NEW b \in DOMAIN bidRows, NEW status \in NextStatuses(bidRows[b]), ChangeStatus(b, status)
      PROVE  TablesGrow
  <2>1. PICK row :
           /\ bidRows' = [bidRows EXCEPT ![b] = row]
           /\ row.initiated = bidRows[b].initiated
           /\ bidRows[b].auction # NoAuction => row.auction = bidRows[b].auction
    BY <1>3, ChangedRow
  <2>2. UNCHANGED <<written, horizon>> /\ written \in Nat /\ horizon \in Nat
    BY <1>3 DEF ChangeStatus, RecordsInv, TablesOK
  <2> QED
    BY <2>1, <2>2 DEF TablesGrow
<1>4. CASE (\E task \in analytics : SendAnalytics(task) \/ AnalyticsFail(task)) \/ Insert \/ GrowOld
  <2>1. UNCHANGED tableVars /\ horizon' \in {horizon, horizon + 1}
    BY <1>4 DEF SendAnalytics, AnalyticsFail, Insert, GrowOld
  <2> QED
    BY <2>1, TablesSameGrow
<1> QED
  BY <1>1, <1>2, <1>3, <1>4 DEF HistoryStep

LEMMA DeletionGrows ==
  ASSUME RecordsInv, OppInv, DeletionStep
  PROVE  TablesGrow
<1>1. UNCHANGED <<written, horizon>> /\ written \in Nat /\ horizon \in Nat
  BY DEF DeletionStep, DeletionTick, WaitForTick, DeletePgDbBidHistory, DeletePgDbOpportunityHistory,
     DeletePgDbAuctionHistory, tableVars, RecordsInv, TablesOK
<1>2. \A b \in DOMAIN bidRows' : b \in DOMAIN bidRows /\ bidRows'[b] = bidRows[b]
  BY DEF DeletionStep, DeletionTick, WaitForTick, DeletePgDbBidHistory,
     DeletePgDbOpportunityHistory, DeletePgDbAuctionHistory, tableVars, Restrict
<1>3. /\ DOMAIN rows' = DOMAIN rows
      /\ \A id \in DOMAIN rows : rows'[id] = rows[id] \/ rows'[id] = [rows[id] EXCEPT !.deleted = TRUE]
  BY DEF DeletionStep, DeletionTick, WaitForTick, DeletePgDbBidHistory,
         DeletePgDbOpportunityHistory, DeletePgDbAuctionHistory
<1>4. \A id \in DOMAIN rows : rows[id].deleted => rows'[id].deleted
  BY <1>3 DEF OppInv, RowsOK, Row
<1> QED
  BY <1>1, <1>2, <1>3, <1>4 DEF TablesGrow

LEMMA NextGrows ==
  ASSUME RecordsInv, OppInv, [Next]_vars
  PROVE  TablesGrow
<1>1. CASE OfHistory(HistoryStep)
  BY <1>1, WritesGrow DEF OfHistory, oppVars
<1>2. CASE OfTables(DeletionStep)
  BY <1>2, DeletionGrows DEF OfTables
<1>3. CASE OfOpp(OppStep)
  <2>1. UNCHANGED <<tableVars, horizon>>
    BY <1>3 DEF OfOpp, OpportunityAnalytics
  <2> QED
    BY <1>3, <2>1, OppStepGrows, TablesSameGrow DEF OfOpp, TablesGrow, tableVars, RecordsInv, TablesOK
<1>4. CASE UNCHANGED <<tableVars, horizon, rows>>
  BY <1>4, TablesSameGrow
<1>5. ASSUME ReadStep PROVE UNCHANGED <<tableVars, horizon, rows>>
  BY <1>5 DEF ReadStep, GetBids, GetAuctionsByBids, GetAuction, GetOpportunities, GetBid
<1>6. \/ OfHistory(HistoryStep) \/ OfTables(DeletionStep) \/ OfOpp(OppStep)
      \/ UNCHANGED <<tableVars, horizon, rows>>
  <2>1. CASE UNCHANGED vars
    BY <2>1 DEF vars, historyVars, oppVars, tableVars
  <2>2. CASE Next
    BY <1>5, <2>2 DEF Next, OfServer, VerificationPanics, Completes, Crash, Down, OppStops, HistoryStops,
       StartsAgain, OfAccess, OfConn, OfTables, OfSimulator, historyVars, oppVars, tableVars
  <2> QED
    BY <2>1, <2>2
<1> QED
  BY <1>1, <1>2, <1>3, <1>4, <1>6

(* A request that makes no step.                                              *)
LEMMA ReadKept ==
  ASSUME TablesGrow, NEW r, ReadOK(reads[r]), reads'[r] = reads[r]
  PROVE  ReadOK(reads[r])'
<1>1. ReadBids(reads[r]) => ReadBids(reads[r])'
  <2> SUFFICES ASSUME ReadBids(reads[r]) PROVE ReadBids(reads[r])'
    OBVIOUS
  <2>1. 1..written \subseteq 1..written'
    BY DEF TablesGrow
  <2>2. \A b \in 1..written : b \in Due("bid")' => b \in Due("bid")
    BY DEF TablesGrow, Due
  <2>3. \A b \in 1..written : b \in DOMAIN bidRows' => b \in DOMAIN bidRows /\ bidRows'[b].initiated = bidRows[b].initiated
    BY DEF TablesGrow
  <2> QED
    BY <2>1, <2>2, <2>3 DEF ReadBids
<1>2. PageOf(reads[r]) => PageOf(reads[r])'
  <2> SUFFICES ASSUME PageOf(reads[r]) PROVE PageOf(reads[r])'
    OBVIOUS
  <2>1. 1..written \subseteq 1..written'
    BY DEF TablesGrow
  <2> QED
    BY <2>1 DEF PageOf, TablesGrow
<1>3. ReadBids(reads[r]) /\ FirstInTime(reads[r]) => FirstInTime(reads[r])'
  BY DEF ReadBids, FirstInTime, TablesGrow
<1>4. ReadOpps(reads[r]) => ReadOpps(reads[r])'
  BY DEF ReadOpps, TablesGrow
<1>5. (\E b \in 1..written : DOMAIN reads[r].page = {b}) => (\E b \in 1..written : DOMAIN reads[r].page = {b})'
  <2>1. 1..written \subseteq 1..written'
    BY DEF TablesGrow
  <2> QED
    BY <2>1
<1> QED
  BY <1>1, <1>2, <1>3, <1>4, <1>5 DEF ReadOK

(* The time of the next request: the greatest of those that were read.        *)
LEMMA LatestIs ==
  ASSUME NEW times, NEW cursor \in Nat, NEW m \in Nat, \A t \in times : t \in Nat /\ t <= m
  PROVE  /\ Latest(times, cursor) \in times \cup {cursor} /\ Latest(times, cursor) \in Nat
         /\ \A t \in times \cup {cursor} : t <= Latest(times, cursor)
<1> DEFINE S == times \cup {cursor}
           l == IF cursor <= m THEN m ELSE cursor
<1>1. l \in Nat /\ cursor <= l /\ m <= l
  OBVIOUS
<1> HIDE DEF l
<1>2. S \subseteq Nat /\ S # {} /\ \A x \in S : x <= l
  BY <1>1
<1>3. Latest(times, cursor) = CHOOSE x \in S : \A y \in S : x >= y
  <2>1. {cursor} \cup {time : time \in times} = S
    OBVIOUS
  <2> HIDE DEF S
  <2> QED
    BY <2>1 DEF Latest, Max
<1> HIDE DEF S
<1>4. Latest(times, cursor) \in S /\ \A y \in S : Latest(times, cursor) >= y
  BY <1>1, <1>2, <1>3, GreatestOf
<1>5. \A y \in S : y \in Nat
  BY <1>2
<1>6. Latest(times, cursor) \in S /\ \A y \in S : y <= Latest(times, cursor)
  BY <1>4, <1>5
<1> QED
  BY <1>5, <1>6 DEF S

LEMMA NoReadOK == ReadOK(NoRead)
  BY DEF ReadOK

(* A request makes a step.                                                    *)
LEMMA ReadStepKeeps ==
  ASSUME ReadInv, NEW r \in Readers, NEW e, reads' = [reads EXCEPT ![r] = e],
         RecordsInv, OppInv, TablesGrow, UNCHANGED <<tableVars, horizon, rows>>, ReadOK(e)
  PROVE  ReadInv'
<1>1. UNCHANGED <<bidRows, auctionRows, written, horizon, rows>>
  BY DEF tableVars
<1>2. DOMAIN reads' = Readers /\ reads'[r] = e
  BY DEF ReadInv
<1>3. ASSUME NEW q \in Readers PROVE ReadOK(reads[q])'
  <2>1. CASE q = r
    <3>1. reads'[q] = e
      BY <1>2, <2>1
    <3>2. ReadBids(e) => ReadBids(reads[q])'
      BY <1>1, <3>1 DEF ReadBids, Due
    <3>3. PageOf(e) => PageOf(reads[q])'
      BY <1>1, <3>1 DEF PageOf
    <3>4. FirstInTime(e) => FirstInTime(reads[q])'
      BY <1>1, <3>1 DEF FirstInTime
    <3>5. ReadOpps(e) => ReadOpps(reads[q])'
      BY <1>1, <3>1 DEF ReadOpps
    <3> QED
      BY <1>1, <3>1, <3>2, <3>3, <3>4, <3>5 DEF ReadOK
  <2>2. CASE q # r
    BY <2>2, ReadKept DEF ReadInv
  <2> QED
    BY <2>1, <2>2
<1> QED
  BY <1>2, <1>3 DEF ReadInv

(* A page of bids: what is first in time from the cursor on.                  *)
LEMMA GetBidsReads ==
  ASSUME ReadInv, RecordsInv, OppInv, NEW r \in Readers, GetBids(r)
  PROVE  ReadInv'
<1>0. /\ reads[r].pc = "idle" /\ reads[r].kind = "bid" /\ UNCHANGED <<tableVars, horizon, rows>>
      /\ ReadOK(reads[r])
  BY DEF GetBids, ReadInv
<1>1. ReadBids(reads[r]) /\ DOMAIN reads[r] = DOMAIN NoRead
  <2>1. ReadBids(NoRead)
    BY DEF ReadBids, NoRead
  <2> QED
    BY <1>0, <2>1 DEF ReadOK
<1>2. PICK page \in Pages("bid", reads[r].cursor) :
        reads' = [reads EXCEPT ![r] = [reads[r] EXCEPT !.pc = "auctions", !.page = Restrict(bidRows, page),
                                                       !.present = Present(r, "bid")]]
  BY DEF GetBids
<1> DEFINE e == [reads[r] EXCEPT !.pc = "auctions", !.page = Restrict(bidRows, page),
                                 !.present = Present(r, "bid")]
<1>3. /\ DOMAIN e = DOMAIN NoRead /\ e.kind = "bid" /\ e.pc = "auctions" /\ e.cursor = reads[r].cursor
      /\ e.page = Restrict(bidRows, page) /\ e.present = Present(r, "bid") /\ e.got = reads[r].got
      /\ e.failed = reads[r].failed
  BY <1>0, <1>1 DEF NoRead
<1> HIDE DEF e
<1>4. /\ page \subseteq DOMAIN bidRows
      /\ \A x \in page : bidRows[x].initiated >= reads[r].cursor
      /\ \A y \in DOMAIN bidRows : bidRows[y].initiated >= reads[r].cursor /\ y \notin page =>
           \A x \in page : bidRows[x].initiated <= bidRows[y].initiated
  BY DEF Pages, kSubset, FromTime, Kept, Time
<1>5. \A b \in DOMAIN bidRows : b \in 1..written /\ RowOK(bidRows[b])
  BY DEF RecordsInv, TablesOK
<1>6. ReadBids(e)
  <2>1. CASE reads[r].cursor # 0
    BY <1>1, <1>3, <2>1 DEF ReadBids, Present
  <2>2. CASE reads[r].cursor = 0
    <3>1. e.present = [id \in DOMAIN bidRows |-> bidRows[id].initiated]
      BY <1>3, <2>2 DEF Present, Kept, Time
    <3>2. \A id \in DOMAIN bidRows : e.present[id] \in Nat /\ ~(e.present[id] < 0)
      BY <1>5, <3>1 DEF RowOK, BidRow
    <3> QED
      BY <1>1, <1>3, <1>5, <2>2, <3>1, <3>2 DEF ReadBids
  <2> QED
    BY <2>1, <2>2
<1>7. DOMAIN e.page = page /\ \A b \in page : e.page[b] = bidRows[b]
  BY <1>3, <1>4 DEF Restrict
<1>8. PageOf(e)
  BY <1>4, <1>5, <1>7 DEF PageOf, RowOK
<1>9. FirstInTime(e)
  <2> SUFFICES ASSUME NEW id \in DOMAIN e.present, id \in DOMAIN bidRows, e.present[id] >= e.cursor,
                      id \notin DOMAIN e.page, NEW b \in DOMAIN e.page
               PROVE  e.page[b].initiated <= e.present[id]
    BY DEF FirstInTime
  <2>1. e.present[id] = bidRows[id].initiated
    BY <1>6 DEF ReadBids
  <2> QED
    BY <1>3, <1>4, <1>7, <2>1
<1>10. ReadOK(e)
  BY <1>3, <1>6, <1>8, <1>9 DEF ReadOK
<1> QED
  BY <1>0, <1>2, <1>10, TablesSameGrow, ReadStepKeeps DEF e

LEMMA YoungHasAuction ==
  ASSUME RecordsInv, NEW b \in DOMAIN bidRows, b > horizon, bidRows[b].auction # NoAuction
  PROVE  bidRows[b].auction \in auctionRows
<1>1. /\ horizon \in Nat /\ b \in Nat /\ bidRows[b].auction \in Nat /\ b < bidRows[b].auction
      /\ bidRows[b].auction \in auctionRows \/ bidRows[b].auction <= horizon
  BY DEF RecordsInv, TablesOK, RowOK, BidRow
<1> QED
  BY <1>1

(* The bids of the page that have their auction: all that are still there and *)
(* not old, since their auctions are not old either.                          *)
LEMMA GetAuctionsReads ==
  ASSUME ReadInv, RecordsInv, OppInv, NEW r \in Readers, GetAuctionsByBids(r)
  PROVE  ReadInv'
<1> DEFINE page == reads[r].page
           items == {b \in DOMAIN page : Converts(page[b], AuctionsOf(page))}
           times == {page[b].initiated : b \in items}
           cursor == reads[r].cursor
           e == [reads[r] EXCEPT !.pc = "idle", !.page = <<>>, !.got = @ \cup items,
                                 !.cursor = Latest(times, @)]
<1>0. /\ reads[r].pc = "auctions" /\ UNCHANGED <<tableVars, horizon, rows>> /\ ReadOK(reads[r])
      /\ reads' = [reads EXCEPT ![r] = e]
  BY DEF GetAuctionsByBids, ReadInv
<1>1. /\ ReadBids(reads[r]) /\ PageOf(reads[r]) /\ FirstInTime(reads[r]) /\ reads[r].kind = "bid"
      /\ DOMAIN reads[r] = DOMAIN NoRead
  BY <1>0 DEF ReadOK, NoRead
<1>2. /\ DOMAIN e = DOMAIN NoRead /\ e.kind = "bid" /\ e.pc = "idle" /\ e.cursor = Latest(times, cursor)
      /\ e.present = reads[r].present /\ e.got = reads[r].got \cup items /\ e.failed = reads[r].failed
  BY <1>1 DEF NoRead
<1> HIDE DEF e
<1>3. \A b \in DOMAIN page : b \in 1..written /\ page[b].initiated \in Nat
  BY <1>1 DEF PageOf, BidRow
<1>4. ASSUME NEW b \in DOMAIN page, b \in Due("bid") PROVE b \in items
  <2>0. b \in DOMAIN bidRows /\ b > horizon
    BY <1>4 DEF Due
  <2>1. page[b] \in BidRow /\ RowOK(bidRows[b])
    BY <1>1, <2>0 DEF PageOf, RecordsInv, TablesOK
  <2>2. CASE page[b].status \in {"pending", "lost"}
    BY <2>2 DEF Converts
  <2>3. CASE page[b].status \in {"submitted", "won"}
    <3>1. page[b].auction # NoAuction /\ page[b].auction = bidRows[b].auction
      BY <1>1, <2>0, <2>3 DEF PageOf
    <3>2. page[b].auction \in auctionRows
      BY <2>0, <3>1, YoungHasAuction
    <3>3. page[b].auction \in AuctionsOf(page)
      BY <3>2 DEF AuctionsOf
    <3> QED
      BY <3>3 DEF Converts
  <2> QED
    BY <2>1, <2>2, <2>3 DEF BidRow
<1>5. PICK m \in Nat : \A b \in DOMAIN page : page[b].initiated <= m
  <2> DEFINE D == DOMAIN page
             f == [b \in D |-> page[b].initiated]
             n == written
  <2>1. n \in Nat /\ D \subseteq 1..n /\ (\A i \in D : f[i] \in Nat)
    BY <1>3 DEF RecordsInv, TablesOK
  <2>2. \A i \in D : f[i] = page[i].initiated
    OBVIOUS
  <2> HIDE DEF D, f, n
  <2>3. \E m \in Nat : \A i \in D : f[i] <= m
    BY <2>1, BoundedUpTo
  <2> QED
    BY <2>2, <2>3 DEF D
<1>6. cursor \in Nat
  BY <1>1 DEF ReadBids
<1>7. /\ e.cursor \in times \cup {cursor} /\ e.cursor \in Nat
      /\ \A t \in times \cup {cursor} : t <= e.cursor
  <2>1. \A t \in times : t \in Nat /\ t <= m
    BY <1>3, <1>5
  <2> HIDE DEF times, cursor
  <2> QED
    BY <1>2, <1>6, <2>1, LatestIs
<1>8. ASSUME NEW id \in DOMAIN e.present, id \in Due("bid"), e.present[id] < e.cursor
      PROVE  id \in e.got
  <2>0. id \in DOMAIN bidRows
    BY <1>8 DEF Due
  <2>1. reads[r].present[id] = bidRows[id].initiated /\ bidRows[id].initiated \in Nat
    BY <1>1, <1>2, <1>8, <2>0 DEF ReadBids, RecordsInv, TablesOK, RowOK, BidRow
  <2>2. CASE reads[r].present[id] < cursor
    BY <1>1, <1>2, <1>8, <2>2 DEF ReadBids
  <2>3. CASE ~(reads[r].present[id] < cursor) /\ id \in DOMAIN page
    BY <1>2, <1>4, <1>8, <2>3
  <2>4. CASE ~(reads[r].present[id] < cursor) /\ id \notin DOMAIN page
    <3>1. reads[r].present[id] >= cursor
      BY <1>6, <2>1, <2>4
    <3>2. \A b \in DOMAIN page : page[b].initiated <= reads[r].present[id]
      BY <1>1, <1>2, <1>8, <2>0, <2>4, <3>1 DEF FirstInTime
    <3>3. e.cursor <= reads[r].present[id]
      BY <1>7, <3>1, <3>2
    <3> QED
      <4>1. reads[r].present[id] \in Nat /\ e.cursor \in Nat
        BY <1>7, <2>1
      <4>2. e.present[id] = reads[r].present[id]
        BY <1>2, <1>8
      <4> QED
        BY <1>8, <3>3, <4>1, <4>2
  <2> QED
    BY <2>2, <2>3, <2>4
<1>9. ReadBids(e)
  BY <1>1, <1>2, <1>7, <1>8 DEF ReadBids
<1>10. ReadOK(e)
  BY <1>2, <1>9 DEF ReadOK
<1> QED
  BY <1>0, <1>10, TablesSameGrow, ReadStepKeeps

(* One bid, and its auction; failed is one that is gone, or old.              *)
LEMMA GetBidReads ==
  ASSUME ReadInv, RecordsInv, OppInv, NEW r \in Readers, NEW b \in DOMAIN bidRows, GetBid(r, b)
  PROVE  ReadInv'
<1> DEFINE e == [reads[r] EXCEPT !.pc = "auction", !.page = SelectBid(b)]
<1>0. /\ reads[r].pc = "idle" /\ reads[r].kind = "bid" /\ UNCHANGED <<tableVars, horizon, rows>>
      /\ ReadOK(reads[r]) /\ reads' = [reads EXCEPT ![r] = e]
  BY DEF GetBid, ReadInv
<1>1. ReadBids(reads[r]) /\ DOMAIN reads[r] = DOMAIN NoRead
  <2>1. ReadBids(NoRead)
    BY DEF ReadBids, NoRead
  <2> QED
    BY <1>0, <2>1 DEF ReadOK
<1>2. /\ DOMAIN e = DOMAIN NoRead /\ e.kind = "bid" /\ e.pc = "auction" /\ e.cursor = reads[r].cursor
      /\ e.page = SelectBid(b) /\ e.present = reads[r].present /\ e.got = reads[r].got
      /\ e.failed = reads[r].failed
  BY <1>0, <1>1 DEF NoRead
<1> HIDE DEF e
<1>3. DOMAIN e.page = {b} /\ e.page[b] = bidRows[b] /\ b \in 1..written /\ RowOK(bidRows[b])
  BY <1>2 DEF SelectBid, Restrict, RecordsInv, TablesOK
<1>4. PageOf(e)
  BY <1>3 DEF PageOf, RowOK
<1>5. ReadOK(e)
  BY <1>1, <1>2, <1>3, <1>4 DEF ReadOK, ReadBids
<1> QED
  BY <1>0, <1>5, TablesSameGrow, ReadStepKeeps

LEMMA GetAuctionReads ==
  ASSUME ReadInv, RecordsInv, OppInv, NEW r \in Readers, GetAuction(r)
  PROVE  ReadInv'
<1> DEFINE page == reads[r].page
           b == CHOOSE x \in DOMAIN page : TRUE
           failed == IF page[b].auction = NoAuction \/ HasAuction(page[b]) THEN reads[r].failed
                     ELSE reads[r].failed \cup {b}
           e == [reads[r] EXCEPT !.pc = "idle", !.page = <<>>, !.failed = failed]
<1>0. /\ reads[r].pc = "auction" /\ UNCHANGED <<tableVars, horizon, rows>> /\ ReadOK(reads[r])
      /\ reads' = [reads EXCEPT ![r] = e]
  BY DEF GetAuction, ReadInv
<1>1. /\ ReadBids(reads[r]) /\ PageOf(reads[r]) /\ reads[r].kind = "bid"
      /\ DOMAIN reads[r] = DOMAIN NoRead /\ \E x \in 1..written : DOMAIN page = {x}
  BY <1>0 DEF ReadOK, NoRead
<1>2. /\ DOMAIN e = DOMAIN NoRead /\ e.kind = "bid" /\ e.pc = "idle" /\ e.cursor = reads[r].cursor
      /\ e.present = reads[r].present /\ e.got = reads[r].got /\ e.failed = failed
  BY <1>1 DEF NoRead
<1> HIDE DEF e
<1>3. b \in DOMAIN page /\ b \in 1..written
  BY <1>1
<1>4. b \in Due("bid") => page[b].auction = NoAuction \/ HasAuction(page[b])
  BY <1>1, <1>3, YoungHasAuction DEF PageOf, HasAuction, Due
<1> HIDE DEF b
<1>5. \A x \in failed : x \in 1..written /\ x \notin Due("bid")
  BY <1>1, <1>3, <1>4 DEF ReadBids
<1> HIDE DEF failed
<1>6. ReadBids(e)
  BY <1>1, <1>2, <1>5 DEF ReadBids
<1>7. ReadOK(e)
  BY <1>2, <1>6 DEF ReadOK
<1> QED
  BY <1>0, <1>7, TablesSameGrow, ReadStepKeeps

(* A page of opportunities.                                                   *)
LEMMA GetOpportunitiesReads ==
  ASSUME ReadInv, RecordsInv, OppInv, NEW r \in Readers, GetOpportunities(r)
  PROVE  ReadInv'
<1> DEFINE cursor == reads[r].cursor
<1>0. /\ (reads[r].pc = "idle" /\ reads[r].kind = "opportunity") \/ reads[r] = NoRead
      /\ UNCHANGED <<tableVars, horizon, rows>> /\ ReadOK(reads[r])
  BY DEF GetOpportunities, ReadInv
<1>1. ReadOpps(reads[r]) /\ DOMAIN reads[r] = DOMAIN NoRead /\ reads[r].pc = "idle"
  <2>1. ReadOpps(NoRead)
    BY DEF ReadOpps, NoRead
  <2>2. DOMAIN reads[r] = DOMAIN NoRead
    BY <1>0 DEF ReadOK
  <2>3. reads[r].pc = "idle"
    BY DEF GetOpportunities
  <2>4. reads[r] = NoRead \/ ReadOpps(reads[r])
    BY <1>0 DEF ReadOK
  <2> QED
    BY <2>1, <2>2, <2>3, <2>4
<1>2. PICK page \in Pages("opportunity", cursor) :
        reads' = [reads EXCEPT ![r] = [reads[r] EXCEPT !.kind = "opportunity", !.got = @ \cup page,
                                         !.cursor = Latest(page, @), !.present = Present(r, "opportunity")]]
  BY DEF GetOpportunities
<1> DEFINE e == [reads[r] EXCEPT !.kind = "opportunity", !.got = @ \cup page,
                                 !.cursor = Latest(page, @), !.present = Present(r, "opportunity")]
<1>3. /\ DOMAIN e = DOMAIN NoRead /\ e.kind = "opportunity" /\ e.pc = "idle" /\ e.cursor = Latest(page, cursor)
      /\ e.present = Present(r, "opportunity") /\ e.got = reads[r].got \cup page
      /\ e.failed = reads[r].failed
  BY <1>1 DEF NoRead
<1> HIDE DEF e
<1>4. PICK n \in Nat : DOMAIN rows = 1..n
  BY DEF OppInv, RowsOK
<1>5. cursor \in Nat
  BY <1>1 DEF ReadOpps
<1>6. /\ page \subseteq DOMAIN rows
      /\ \A y \in DOMAIN rows : ~rows[y].deleted /\ y >= cursor /\ y \notin page => \A x \in page : x <= y
  BY DEF Pages, kSubset, FromTime, Kept, Time
<1>7. /\ e.cursor \in page \cup {cursor} /\ e.cursor \in Nat
  <2>1. \A t \in page : t \in Nat /\ t <= n
    BY <1>4, <1>6
  <2> HIDE DEF cursor
  <2> QED
    BY <1>3, <1>4, <1>5, <2>1, LatestIs
<1>8. /\ \A id \in DOMAIN e.present : id \in DOMAIN rows /\ e.present[id] = id
      /\ \A id \in DOMAIN e.present : ~rows[id].deleted /\ id < cursor => id \in reads[r].got
  <2>1. CASE cursor # 0
    BY <1>1, <1>3, <2>1 DEF ReadOpps, Present
  <2>2. CASE cursor = 0
    <3>1. e.present = [id \in Kept("opportunity") |-> id]
      BY <1>3, <2>2 DEF Present, Time
    <3>2. Kept("opportunity") \subseteq DOMAIN rows
      BY DEF Kept
    <3>3. \A id \in DOMAIN rows : ~(id < cursor)
      BY <1>4, <2>2
    <3> QED
      BY <3>1, <3>2, <3>3
  <2> QED
    BY <2>1, <2>2
<1>9. ASSUME NEW id \in DOMAIN e.present, ~rows[id].deleted, id < e.cursor PROVE id \in e.got
  <2>1. id \in DOMAIN rows /\ id \in Nat
    BY <1>4, <1>8
  <2>2. CASE id < cursor
    BY <1>3, <1>8, <1>9, <2>2
  <2>3. CASE ~(id < cursor)
    <3>1. e.cursor \in page
      BY <1>5, <1>7, <1>9, <2>1, <2>3
    <3>2. id \in page
      BY <1>5, <1>6, <1>7, <1>9, <2>1, <2>3, <3>1
    <3> QED
      BY <1>3, <3>2
  <2> QED
    BY <2>2, <2>3
<1>10. ReadOpps(e)
  BY <1>1, <1>3, <1>7, <1>8, <1>9 DEF ReadOpps
<1>11. ReadOK(e)
  BY <1>3, <1>10 DEF ReadOK
<1> QED
  BY <1>0, <1>2, <1>11, TablesSameGrow, ReadStepKeeps DEF e

LEMMA NextReads ==
  ASSUME ReadInv, RecordsInv, OppInv, [Next]_vars
  PROVE  ReadInv'
<1>1. TablesGrow
  BY NextGrows
<1>2. CASE ReadStep
  BY <1>2, GetBidsReads, GetAuctionsReads, GetBidReads, GetAuctionReads, GetOpportunitiesReads DEF ReadStep
<1>3. CASE HistoryStops
  BY <1>3, NoReadOK DEF HistoryStops, ReadInv, ReadOK
<1>4. CASE UNCHANGED reads
  BY <1>1, <1>4, ReadKept DEF ReadInv
<1>5. ReadStep \/ HistoryStops \/ UNCHANGED reads
  <2>1. CASE UNCHANGED vars
    BY <2>1 DEF vars, historyVars
  <2>2. ASSUME HistoryStep \/ DeletionStep PROVE UNCHANGED reads
    BY <2>2 DEF HistoryStep, WriteBid, WriteAuction, ChangeStatus, SendAnalytics, AnalyticsFail, Insert, GrowOld,
       DeletionStep, DeletionTick, WaitForTick, DeletePgDbBidHistory, DeletePgDbOpportunityHistory,
       DeletePgDbAuctionHistory
  <2>3. CASE Next
    BY <2>2, <2>3 DEF Next, OfServer, VerificationPanics, Completes, Crash, Down,
       StartsAgain, OfAccess, OfOpp, OpportunityAnalytics, OfConn, OfHistory, OfTables, OfSimulator, historyVars
  <2> QED
    BY <2>1, <2>3
<1> QED
  BY <1>2, <1>3, <1>4, <1>5

LEMMA SpecReads == Spec => []ReadInv
<1>1. Init => ReadInv
  BY DEF Init, HistoryInit, ReadInv, ReadOK
<1>2. ReadInv /\ RecordsInv /\ OppInv /\ [Next]_vars => ReadInv'
  BY NextReads
<1> QED
  BY <1>1, <1>2, SpecRecords, SpecOpp, PTL DEF Spec

(* A reader that goes on from the time of the last item it got misses nothing *)
(* that is there and, for a bid, not older than the threshold of the deletion *)
(* (get_bids_by_time, get_opportunities), whatever is written, changed and    *)
(* deleted between its queries and however many items have the same time; and *)
(* such a bid is read with its auction (get_bid), although the loop deletes   *)
(* auctions without a look at the bids that name them.                        *)
THEOREM ReadersMissNothing == Spec => []ReadsComplete
<1>1. ReadInv => ReadsComplete
  <2> SUFFICES ASSUME ReadInv, NEW r \in Readers, NEW id,
                      \/ id \in DOMAIN reads[r].present /\ reads[r].present[id] < reads[r].cursor
                      \/ id \in reads[r].failed,
                      id \in Due(reads[r].kind)
               PROVE  id \in reads[r].got
    BY DEF ReadsComplete
  <2>1. ReadOK(reads[r])
    BY DEF ReadInv
  <2>2. CASE ReadBids(reads[r]) /\ reads[r].kind = "bid"
    BY <2>2 DEF ReadBids
  <2>3. CASE ReadOpps(reads[r]) /\ reads[r].kind = "opportunity"
    BY <2>3 DEF ReadOpps, Due, Kept
  <2>4. ReadBids(NoRead) /\ NoRead.kind = "bid"
    BY DEF ReadBids, NoRead
  <2> QED
    BY <2>1, <2>2, <2>3, <2>4 DEF ReadOK
<1> QED
  BY <1>1, SpecReads, PTL
---------------------------------------------------------------------------
(* The types of the tables of access, and the limits of the connections: the  *)
(* subscribers of an address, the responses of a Subscriber, the requests it  *)
(* has deferred.                                                              *)
TokensOK ==
  /\ profileRows \subseteq Profiles
  /\ \A t \in DOMAIN tokenRows : tokenRows[t] \in [owner : profileRows, revoked : BOOLEAN]
  /\ \A t \in DOMAIN tokens : tokens[t] \in Profiles
  /\ \A a \in Admins : access[a].pc \in {"insert", "read", "cache"} => access[a].profile \in profileRows

SlotsOK ==
  /\ DOMAIN slots = Ips
  /\ \A ip \in Ips :
       slots[ip] \subseteq Conns /\ IsFiniteSet(slots[ip]) /\ Cardinality(slots[ip]) <= MaxPerIp

Subscribed(s) ==
  s.state \in {"open", "acquiring"} => s.chains \subseteq Chains /\ Len(s.responses) <= ResponseCapacity

ActiveOf(c) == {task \in deferred : task.conn = c}

DeferredOK ==
  \A c \in Conns : IsFiniteSet(ActiveOf(c)) /\ Cardinality(ActiveOf(c)) <= MaxActive

SubscribedAll == \A c \in Conns : Subscribed(sub[c])
LimitsOK == SlotsOK /\ SubscribedAll /\ DeferredOK

LimitInv == ServerTypeOK /\ TokensOK /\ LimitsOK

LEMMA InitLimits == Init => LimitInv
<1> SUFFICES ASSUME Init PROVE LimitInv
  OBVIOUS
<1>1. ServerTypeOK
  BY DEF Init, ServerInit, ServerTypeOK
<1>2. TokensOK
  BY InitialTokensAssumption DEF Init, AccessInit, LoadTokens, NoAccess, TokensOK
<1>3. SlotsOK
  BY FS_EmptySet, ConnectionsAssumption DEF Init, ConnInit, SlotsOK
<1>4. SubscribedAll
  BY DEF Init, ConnInit, NoSub, Subscribed, SubscribedAll
<1>5. DeferredOK
  <2>1. \A c : ActiveOf(c) = {}
    BY DEF Init, ConnInit, ActiveOf
  <2> QED
    BY <2>1, FS_EmptySet, ConnectionsAssumption DEF DeferredOK
<1> QED
  BY <1>1, <1>2, <1>3, <1>4, <1>5 DEF LimitInv, LimitsOK

(* The process and its loops.                                                 *)
LEMMA LoopsTyped ==
  ASSUME ServerTypeOK,
         ServerStep \/ VerificationPanics \/ Completes \/ Crash \/ StartsAgain
  PROVE  ServerTypeOK'
<1>1. ASSUME NEW l \in Loops, SetUp(l) \/ Fails(l) \/ RunAgain(l) \/ Exits(l) \/ Panics(l) PROVE ServerTypeOK'
  BY <1>1 DEF SetUp, Fails, RunAgain, Exits, SeesExit, Panics, ServerTypeOK
<1>2. CASE Interrupt \/ StreamSilent \/ StreamInactive \/ PriceClosed
  BY <1>2 DEF Interrupt, StreamSilent, StreamInactive, PriceClosed, ServerTypeOK
<1>3. CASE VerificationPanics
  <2>1. Loop \in Loops
    BY LoopAssumption DEF Loop
  <2> QED
    BY <1>1, <1>3, <2>1 DEF VerificationPanics
<1>4. CASE Completes \/ Crash \/ StartsAgain
  BY <1>4 DEF Completes, ProcessEnds, Crash, Crashes, StartsAgain, Starts, ServerTypeOK
<1> QED
  BY <1>1, <1>2, <1>3, <1>4 DEF ServerStep

LEMMA NextServer == ASSUME ServerTypeOK, [Next]_vars PROVE ServerTypeOK'
<1>1. CASE ServerStep \/ VerificationPanics \/ Completes \/ Crash \/ StartsAgain
  BY <1>1, LoopsTyped
<1>2. CASE OfTables(DeletionStep)
  BY <1>2 DEF OfTables, DeletionStep, DeletionTick, WaitForTick, DeletePgDbBidHistory,
     DeletePgDbOpportunityHistory, DeletePgDbAuctionHistory, ServerTypeOK
<1>3. CASE OfTables(ReadStep)
  BY <1>3 DEF OfTables, ReadStep, GetBids, GetAuctionsByBids, GetAuction, GetOpportunities, GetBid, ServerTypeOK
<1>4. CASE UNCHANGED serverVars
  BY <1>4 DEF serverVars, ServerTypeOK
<1> QED
  BY <1>1, <1>2, <1>3, <1>4 DEF Next, vars, OfServer, OfAccess, OfOpp, OfConn, OfHistory, OfSimulator

(* The tables of access.                                                      *)
LEMMA AccessStepTyped ==
  ASSUME AccessInv, TokensOK, AccessStep
  PROVE  TokensOK'
<1>1. ASSUME NEW p \in Profiles, CreateProfile(p) PROVE TokensOK'
  BY <1>1 DEF CreateProfile, TokensOK
<1>2. ASSUME NEW a \in Admins, NEW p, Grant(a, p) PROVE TokensOK'
  <2>1. /\ p \in profileRows /\ UNCHANGED <<profileRows, tokenRows, tokens>>
        /\ \E pc : access' = [access EXCEPT ![a] = [pc |-> pc, profile |-> p]]
    BY <1>2 DEF Grant, Continue
  <2> QED
    BY <2>1 DEF TokensOK
<1>3. ASSUME NEW a \in Admins, NEW p, NEW s, CreatePrivilege(a, p, s) PROVE TokensOK'
  <2>1. /\ UNCHANGED <<profileRows, tokenRows, tokens>>
        /\ \E x : access' = [access EXCEPT ![a] = [pc |-> "cachePrivilege", profile |-> p, privilege |-> x]]
    BY <1>3 DEF CreatePrivilege, Continue
  <2> QED
    BY <2>1 DEF TokensOK
<1>4. ASSUME NEW a \in Admins, NEW t, Revoke(a, t) PROVE TokensOK'
  <2>1. /\ UNCHANGED <<profileRows, tokenRows, tokens>>
        /\ access' = [access EXCEPT ![a] = [pc |-> "revokeRow", token |-> t]]
    BY <1>4 DEF Revoke, Continue
  <2> QED
    BY <2>1 DEF TokensOK
<1>5. ASSUME NEW a \in Admins, InsertToken(a) PROVE TokensOK'
  <2> DEFINE row == [owner |-> access[a].profile, revoked |-> FALSE]
  <2>1. access[a].profile \in profileRows /\ UNCHANGED <<profileRows, tokens>>
    BY <1>5 DEF InsertToken, TokensOK
  <2>2. row \in [owner : profileRows, revoked : BOOLEAN]
    BY <2>1
  <2>3. \E t : tokenRows' = Put(tokenRows, t, row)
    BY <1>5 DEF InsertToken
  <2>4. /\ access' = [access EXCEPT ![a] = [access[a] EXCEPT !.pc = "read"]]
        /\ access \in [Admins -> Requests] /\ access[a].pc = "insert"
    BY <1>5 DEF InsertToken, Continue, AccessInv, RequestTypes
  <2>5. access'[a].profile = access[a].profile /\ \A b \in Admins : b # a => access'[b] = access[b]
    <3>1. access[a] \in [pc : {"insert", "read"}, profile : Profiles]
      BY <2>4 DEF Requests, NoAccess
    <3> QED
      BY <2>4, <3>1
  <2> HIDE DEF row
  <2>6. \A t \in DOMAIN tokenRows' : tokenRows'[t] \in [owner : profileRows', revoked : BOOLEAN]
    BY <2>1, <2>2, <2>3 DEF Put, TokensOK
  <2>7. \A b \in Admins : access'[b].pc \in {"insert", "read", "cache"} => access'[b].profile \in profileRows'
    BY <2>1, <2>5 DEF TokensOK
  <2> QED
    BY <2>1, <2>6, <2>7 DEF TokensOK
<1>6. ASSUME NEW a \in Admins, ReadToken(a) PROVE TokensOK'
  <2>1. access[a].profile \in profileRows /\ UNCHANGED <<profileRows, tokenRows, tokens>>
    BY <1>6 DEF ReadToken, TokensOK
  <2>2. PICK next : /\ access' = [access EXCEPT ![a] = next]
                    /\ (next.pc = "cache" /\ next.profile = access[a].profile) \/ next = NoAccess
    BY <1>6 DEF ReadToken, Continue
  <2>3. \A b \in Admins : access'[b].pc \in {"insert", "read", "cache"} => access'[b].profile \in profileRows
    BY <2>1, <2>2 DEF TokensOK, NoAccess, AccessInv, RequestTypes
  <2> QED
    BY <2>1, <2>3 DEF TokensOK
<1>7. ASSUME NEW a \in Admins, CacheToken(a) PROVE TokensOK'
  <2>1. /\ access[a].profile \in profileRows /\ UNCHANGED <<profileRows, tokenRows>>
        /\ tokens' = Put(tokens, access[a].token, access[a].profile)
        /\ access' = [access EXCEPT ![a] = NoAccess]
    BY <1>7 DEF CacheToken, Continue, TokensOK
  <2>2. \A t \in DOMAIN tokens' : tokens'[t] \in Profiles
    BY <2>1 DEF Put, TokensOK
  <2>3. \A b \in Admins : access'[b].pc \in {"insert", "read", "cache"} => access'[b].profile \in profileRows
    BY <2>1 DEF TokensOK, NoAccess
  <2> QED
    BY <2>1, <2>2, <2>3 DEF TokensOK
<1>8. ASSUME NEW a \in Admins, RevokeRow(a) PROVE TokensOK'
  <2>1. /\ UNCHANGED <<profileRows, tokens>>
        /\ tokenRows' = [tokenRows EXCEPT ![access[a].token].revoked = TRUE]
        /\ access' = [access EXCEPT ![a] = [access[a] EXCEPT !.pc = "drop"]]
        /\ access \in [Admins -> Requests] /\ access[a].pc = "revokeRow"
    BY <1>8 DEF RevokeRow, Continue, AccessInv, RequestTypes
  <2>2. access'[a].pc = "drop" /\ \A b \in Admins : b # a => access'[b] = access[b]
    <3>1. access[a] \in [pc : {"revokeRow", "drop"}, token : Tokens]
      BY <2>1 DEF Requests, NoAccess
    <3> QED
      BY <2>1, <3>1
  <2>3. \A t \in DOMAIN tokenRows' : tokenRows'[t] \in [owner : profileRows, revoked : BOOLEAN]
    BY <2>1 DEF TokensOK
  <2>4. \A b \in Admins : access'[b].pc \in {"insert", "read", "cache"} => access'[b].profile \in profileRows
    BY <2>2 DEF TokensOK
  <2> QED
    BY <2>1, <2>3, <2>4 DEF TokensOK
<1>9. ASSUME NEW a \in Admins, DropToken(a) PROVE TokensOK'
  <2>1. /\ UNCHANGED <<profileRows, tokenRows>>
        /\ tokens' = Restrict(tokens, DOMAIN tokens \ {access[a].token})
        /\ access' = [access EXCEPT ![a] = NoAccess]
    BY <1>9 DEF DropToken, Continue
  <2>2. \A t \in DOMAIN tokens' : tokens'[t] \in Profiles
    BY <2>1 DEF Restrict, TokensOK
  <2>3. \A b \in Admins : access'[b].pc \in {"insert", "read", "cache"} => access'[b].profile \in profileRows
    BY <2>1 DEF TokensOK, NoAccess
  <2> QED
    BY <2>1, <2>2, <2>3 DEF TokensOK
<1>10. ASSUME NEW a \in Admins, UpdateInMemoryPrivilege(a) \/ AccessRequestDropped(a) PROVE TokensOK'
  <2>1. UNCHANGED <<profileRows, tokenRows, tokens>> /\ access' = [access EXCEPT ![a] = NoAccess]
    BY <1>10 DEF UpdateInMemoryPrivilege, AccessRequestDropped, Continue
  <2> QED
    BY <2>1 DEF TokensOK, NoAccess
<1>11. Free(access, NoAccess) \subseteq Admins
  BY DEF Free, AccessInv, RequestTypes
<1> QED
  BY <1>1, <1>2, <1>3, <1>4, <1>5, <1>6, <1>7, <1>8, <1>9, <1>10, <1>11 DEF AccessStep

LEMMA NextTokens == ASSUME AccessInv, TokensOK, [Next]_vars PROVE TokensOK'
<1>1. CASE AccessStarts
  <2>1. /\ UNCHANGED <<profileRows, tokenRows>> /\ access' = [a \in Admins |-> NoAccess]
        /\ tokens' = LoadTokens(tokenRows)
    BY <1>1 DEF AccessStarts
  <2> QED
    BY <2>1 DEF TokensOK, LoadTokens, NoAccess
<1>2. CASE AccessStep
  BY <1>2, AccessStepTyped
<1>3. CASE UNCHANGED accessVars
  BY <1>3 DEF accessVars, TokensOK
<1>4. StartsAgain => AccessStarts
  BY DEF StartsAgain
<1>5. \/ StartsAgain \/ AccessStep \/ UNCHANGED accessVars
  BY DEF Next, vars, OfServer, VerificationPanics, Completes, Crash, Down, OfAccess, OfOpp, OfConn, OfHistory,
         OfTables, OfSimulator
<1> QED
  BY <1>1, <1>2, <1>3, <1>4, <1>5

LEMMA AccessTyped == ASSUME AccessInv, TokensOK PROVE AccessTypeOK
<1>1. \A p \in DOMAIN privileges : p \in Profiles /\ privileges[p].state \in States
  BY DEF AccessInv, PrivilegesOfTable, OfTable
<1> QED
  BY <1>1 DEF AccessInv, RequestTypes, PrivilegesOfTable, TokensOK, AccessTypeOK

(* The limits of the connections.                                             *)
LEMMA SmallerSet ==
  ASSUME NEW S, NEW T, S \subseteq T, IsFiniteSet(T), NEW n \in Nat, Cardinality(T) <= n
  PROVE  IsFiniteSet(S) /\ Cardinality(S) <= n
<1>1. IsFiniteSet(S) /\ Cardinality(S) <= Cardinality(T)
  BY FS_Subset
<1>2. Cardinality(S) \in Nat /\ Cardinality(T) \in Nat
  BY <1>1, FS_CardinalityType
<1> QED
  BY <1>1, <1>2

LEMMA PushedShort ==
  ASSUME NEW responses \in Seq(Responses), NEW response \in Responses, Len(responses) <= ResponseCapacity
  PROVE  Len(Pushed(responses, response)) <= ResponseCapacity
<1>0. Len(responses) \in Nat /\ ResponseCapacity \in Nat \ {0}
  BY ConnectionsAssumption
<1>1. CASE Len(responses) = ResponseCapacity
  <2>1. responses # <<>>
    BY <1>0, <1>1
  <2>2. Tail(responses) \in Seq(Responses) /\ Len(Tail(responses)) = Len(responses) - 1
    BY <2>1
  <2>3. Len(Append(Tail(responses), response)) = Len(responses)
    BY <1>0, <2>2
  <2> QED
    BY <1>1, <2>3 DEF Pushed
<1>2. CASE Len(responses) # ResponseCapacity
  <2>1. Len(Append(responses, response)) = Len(responses) + 1
    OBVIOUS
  <2>2. Pushed(responses, response) = Append(responses, response)
    BY <1>2 DEF Pushed
  <2> QED
    BY <1>0, <1>2, <2>1, <2>2
<1> QED
  BY <1>1, <1>2

(* Steps of one Subscriber.                                                   *)
LEMMA OneSubscribed ==
  ASSUME OwnInv, LimitsOK, NEW c \in Conns, NEW s, sub' = [sub EXCEPT ![c] = s], Subscribed(s),
         UNCHANGED <<slots, deferred>>
  PROVE  LimitsOK'
<1>1. SubscribedAll'
  BY DEF OwnInv, LimitsOK, SubscribedAll
<1>2. SlotsOK' /\ DeferredOK'
  BY DEF LimitsOK, SlotsOK, DeferredOK, ActiveOf
<1> QED
  BY <1>1, <1>2 DEF LimitsOK

LEMMA ClosesLimited ==
  ASSUME OwnInv, LimitsOK, NEW c \in Conns, CloseSubscriber(c), UNCHANGED deferred
  PROVE  LimitsOK'
<1>1. /\ sub' = [sub EXCEPT ![c] = [state |-> "closed"]]
      /\ slots' = [slots EXCEPT ![sub[c].ip] = @ \ {c}]
  BY DEF CloseSubscriber
<1>2. SubscribedAll'
  BY <1>1 DEF OwnInv, LimitsOK, SubscribedAll, Subscribed
<1>3. SlotsOK'
  <2>1. MaxPerIp \in Nat
    BY ConnectionsAssumption
  <2>2. ASSUME NEW ip \in Ips
        PROVE  slots'[ip] \subseteq Conns /\ IsFiniteSet(slots'[ip]) /\ Cardinality(slots'[ip]) <= MaxPerIp
    <3>1. slots'[ip] \subseteq slots[ip]
      BY <1>1 DEF LimitsOK, SlotsOK
    <3>2. slots[ip] \subseteq Conns /\ IsFiniteSet(slots[ip]) /\ Cardinality(slots[ip]) <= MaxPerIp
      BY DEF LimitsOK, SlotsOK
    <3> QED
      BY <2>1, <3>1, <3>2, SmallerSet
  <2>3. DOMAIN slots' = Ips
    BY <1>1 DEF LimitsOK, SlotsOK
  <2> QED
    BY <2>2, <2>3 DEF SlotsOK
<1>4. DeferredOK'
  BY DEF LimitsOK, DeferredOK, ActiveOf
<1> QED
  BY <1>2, <1>3, <1>4 DEF LimitsOK

LEMMA ConnectsLimited ==
  ASSUME OwnInv, LimitsOK, NEW c \in Conns, NEW ip \in Ips, NEW t, GetNewSubscriberId(c, ip, t)
  PROVE  LimitsOK'
<1>1. /\ slots' = [slots EXCEPT ![ip] = @ \cup {c}] /\ Cardinality(slots[ip]) < MaxPerIp
      /\ sub' = [sub EXCEPT ![c] = [state |-> "upgrading", ip |-> ip, token |-> t]] /\ UNCHANGED deferred
  BY DEF GetNewSubscriberId
<1>2. SubscribedAll'
  BY <1>1 DEF OwnInv, LimitsOK, SubscribedAll, Subscribed
<1>3. SlotsOK'
  <2>1. MaxPerIp \in Nat
    BY ConnectionsAssumption
  <2>2. IsFiniteSet(slots[ip]) /\ slots[ip] \subseteq Conns
    BY DEF LimitsOK, SlotsOK
  <2>3. Cardinality(slots[ip]) \in Nat
    BY <2>2, FS_CardinalityType
  <2>4. IsFiniteSet(slots[ip] \cup {c}) /\ Cardinality(slots[ip] \cup {c}) <= Cardinality(slots[ip]) + 1
    <3>1. /\ IsFiniteSet(slots[ip] \cup {c})
          /\ Cardinality(slots[ip] \cup {c}) = IF c \in slots[ip] THEN Cardinality(slots[ip])
                                                ELSE Cardinality(slots[ip]) + 1
      BY <2>2, FS_AddElement, Zenon
    <3> QED
      BY <2>3, <3>1
  <2>5. slots'[ip] = slots[ip] \cup {c} /\ \A other \in Ips : other # ip => slots'[other] = slots[other]
    BY <1>1 DEF LimitsOK, SlotsOK
  <2>6. Cardinality(slots[ip] \cup {c}) \in Nat
    BY <2>4, FS_CardinalityType
  <2>7. Cardinality(slots'[ip]) <= MaxPerIp
    <3> DEFINE n == Cardinality(slots[ip])
               m == Cardinality(slots[ip] \cup {c})
    <3>1. n \in Nat /\ m \in Nat /\ m <= n + 1 /\ n < MaxPerIp /\ Cardinality(slots'[ip]) = m
      BY <1>1, <2>3, <2>4, <2>5, <2>6
    <3> HIDE DEF n, m
    <3> QED
      BY <2>1, <3>1
  <2> QED
    BY <1>1, <2>2, <2>4, <2>5, <2>7 DEF LimitsOK, SlotsOK
<1>4. DeferredOK'
  BY <1>1 DEF LimitsOK, DeferredOK, ActiveOf
<1> QED
  BY <1>2, <1>3, <1>4 DEF LimitsOK

LEMMA UpdatesLimited ==
  ASSUME OwnInv, OppInv, LimitsOK, NEW c \in Conns,
         UpgradeFails(c) \/ Open(c) \/ HandleUpdate(c) \/ Lags(c) \/ PingTick(c) \/ ExitTick(c) \/ HandleResponse(c)
  PROVE  LimitsOK'
<1>1. CASE UpgradeFails(c)
  <2>1. Subscribed([state |-> "closed"])
    BY DEF Subscribed
  <2> QED
    BY <1>1, <2>1, OneSubscribed DEF UpgradeFails
<1>2. CASE Open(c)
  <2> DEFINE s == [state |-> "open", ip |-> sub[c].ip, token |-> sub[c].token, pos |-> Len(events),
        chains |-> {}, bids |-> {}, responded |-> TRUE, responses |-> <<>>,
        acquiring |-> <<>>, since |-> <<>>, told |-> <<>>, got |-> <<>>]
  <2>1. Subscribed(s)
    BY ConnectionsAssumption DEF Subscribed
  <2>2. sub' = [sub EXCEPT ![c] = s] /\ UNCHANGED <<slots, deferred>>
    BY <1>2 DEF Open
  <2> HIDE DEF s
  <2> QED
    BY <2>1, <2>2, OneSubscribed
<1>3. ASSUME sub[c].state \in {"open", "acquiring"}, NEW s, s.chains = sub[c].chains, s.responses = sub[c].responses,
             sub' = [sub EXCEPT ![c] = s], UNCHANGED <<slots, deferred>>
      PROVE  LimitsOK'
  <2>1. Subscribed(s)
    BY <1>3 DEF LimitsOK, SubscribedAll, Subscribed
  <2> QED
    BY <1>3, <2>1, OneSubscribed
<1>4. CASE HandleUpdate(c)
  <2> DEFINE s == [sub[c] EXCEPT !.pos = sub[c].pos + 1,
       !.got = IF Relevant(c, events[sub[c].pos + 1]) THEN Append(@, sub[c].pos + 1) ELSE @]
  <2>1. s.chains = sub[c].chains /\ s.responses = sub[c].responses
    OBVIOUS
  <2>2. sub' = [sub EXCEPT ![c] = s] /\ UNCHANGED <<slots, deferred>> /\ sub[c].state = "open"
    BY <1>4 DEF HandleUpdate, Selecting
  <2> HIDE DEF s
  <2> QED
    BY <1>3, <2>1, <2>2
<1>5. CASE PingTick(c)
  <2>1. CASE CloseSubscriber(c)
    BY <1>5, <2>1, ClosesLimited DEF PingTick
  <2>2. CASE ~CloseSubscriber(c)
    <3> DEFINE s == [sub[c] EXCEPT !.responded = FALSE]
    <3>1. s.chains = sub[c].chains /\ s.responses = sub[c].responses
      OBVIOUS
    <3>2. sub' = [sub EXCEPT ![c] = s] /\ UNCHANGED <<slots, deferred>> /\ sub[c].state = "open"
      BY <1>5, <2>2 DEF PingTick, Selecting
    <3> HIDE DEF s
    <3> QED
      BY <1>3, <3>1, <3>2
  <2> QED
    BY <2>1, <2>2
<1>6. CASE HandleResponse(c)
  <2> DEFINE bids == {<<c, Head(sub[c].responses).to>>} \cap placed
             s == [sub[c] EXCEPT !.responses = Tail(@), !.bids = @ \cup bids,
                                 !.told = Merge(@, [bid \in bids |-> sub[c].pos])]
  <2>1. sub[c].state = "open" /\ sub[c].responses # <<>> /\ OwnSubscriber(sub[c]) /\ Subscribed(sub[c])
    BY <1>6 DEF HandleResponse, Selecting, OwnInv, LimitsOK, SubscribedAll
  <2>2. /\ sub[c].responses \in Seq(Responses) /\ DOMAIN sub[c] = SubscriberFields
        /\ sub[c].chains \subseteq Chains /\ Len(sub[c].responses) <= ResponseCapacity
    BY <2>1 DEF OwnSubscriber, Subscribed
  <2>3. s.chains = sub[c].chains /\ s.responses = Tail(sub[c].responses)
    BY <2>2 DEF SubscriberFields
  <2>4. sub' = [sub EXCEPT ![c] = s] /\ UNCHANGED <<slots, deferred>>
    BY <1>6 DEF HandleResponse
  <2> HIDE DEF s
  <2>5. Len(Tail(sub[c].responses)) <= ResponseCapacity
    BY <2>1, <2>2, ConnectionsAssumption
  <2>6. Subscribed(s)
    BY <2>2, <2>3, <2>5 DEF Subscribed
  <2> QED
    BY <2>4, <2>6, OneSubscribed
<1>7. CASE Lags(c) \/ ExitTick(c)
  BY <1>7, ClosesLimited DEF Lags, ExitTick
<1> QED
  BY <1>1, <1>2, <1>4, <1>5, <1>6, <1>7

LEMMA MessagesLimited ==
  ASSUME OwnInv, LimitsOK, NEW c \in Conns, HandleClientMessage(c)
  PROVE  LimitsOK'
<1> DEFINE message == Head(net[c].toServer)
<1>0. /\ OwnSubscriber(sub[c]) /\ sub[c].state = "open" /\ DOMAIN sub[c] = SubscriberFields /\ UNCHANGED deferred
      /\ Subscribed(sub[c]) /\ sub[c].responses \in Seq(Responses)
  BY DEF OwnInv, HandleClientMessage, Selecting, OwnSubscriber, LimitsOK, SubscribedAll
<1>1. message \in FromClient
  <2>1. net[c].toServer \in Seq(FromClient) /\ net[c].toServer # <<>>
    BY DEF OwnInv, Networks, HandleClientMessage
  <2> QED
    BY <2>1
<1>2. \/ CloseSubscriber(c)
      \/ /\ UNCHANGED slots
         /\ \/ message.type = "subscribe" /\ Subscribe(c, message)
            \/ message.type = "unsubscribe" /\ Unsubscribe(c, message)
            \/ sub' = [sub EXCEPT ![c].state = "acquiring", ![c].acquiring = <<message>>]
            \/ sub' = [sub EXCEPT ![c].responded = TRUE]
  BY DEF HandleClientMessage
<1> HIDE DEF message
<1>3. CASE UNCHANGED slots /\ message.type = "subscribe" /\ Subscribe(c, message)
  <2> DEFINE ok == message.chains \subseteq Chains
             chains == IF ok THEN sub[c].chains \cup message.chains ELSE sub[c].chains
             since == IF ok THEN Merge(sub[c].since, [ch \in message.chains |-> sub[c].pos])
                      ELSE sub[c].since
             result == IF ok THEN "ok" ELSE "error"
             responses == Pushed(sub[c].responses, Response(message, result))
             s == [sub[c] EXCEPT !.chains = chains, !.since = since, !.responses = responses]
  <2>1. sub' = [sub EXCEPT ![c] = s]
    BY <1>0, <1>3 DEF Subscribe, OwnInv
  <2>2. chains \subseteq Chains
    BY <1>0 DEF Subscribed
  <2>3. Len(responses) <= ResponseCapacity
    <3>1. message \in Posted \cup Subscriptions
      BY <1>1, <1>3 DEF FromClient
    <3>2. result \in {"ok", "error"}
      OBVIOUS
    <3> HIDE DEF result
    <3>3. Response(message, result) \in Responses
      BY <3>1, <3>2, ResponseTagged
    <3> QED
      BY <1>0, <3>3, PushedShort DEF Subscribed
  <2> HIDE DEF chains, since, responses
  <2>4. s.chains = chains /\ s.responses = responses
    BY <1>0 DEF SubscriberFields
  <2> HIDE DEF s
  <2>5. Subscribed(s)
    BY <2>2, <2>3, <2>4 DEF Subscribed
  <2> QED
    BY <1>0, <1>3, <2>1, <2>5, OneSubscribed
<1>4. CASE UNCHANGED slots /\ message.type = "unsubscribe" /\ Unsubscribe(c, message)
  <2> DEFINE chains == sub[c].chains \ message.chains
             since == Restrict(sub[c].since, DOMAIN sub[c].since \ message.chains)
             responses == Pushed(sub[c].responses, Response(message, "ok"))
             s == [sub[c] EXCEPT !.chains = chains, !.since = since, !.responses = responses]
  <2>1. sub' = [sub EXCEPT ![c] = s]
    BY <1>0, <1>4 DEF Unsubscribe, OwnInv
  <2>2. chains \subseteq Chains
    BY <1>0 DEF Subscribed
  <2>3. Len(responses) <= ResponseCapacity
    <3>1. message \in Posted \cup Subscriptions
      BY <1>1, <1>4 DEF FromClient
    <3>2. Response(message, "ok") \in Responses
      BY <3>1, ResponseTagged
    <3> QED
      BY <1>0, <3>2, PushedShort DEF Subscribed
  <2> HIDE DEF chains, since, responses
  <2>4. s.chains = chains /\ s.responses = responses
    BY <1>0 DEF SubscriberFields
  <2> HIDE DEF s
  <2>5. Subscribed(s)
    BY <2>2, <2>3, <2>4 DEF Subscribed
  <2> QED
    BY <1>0, <1>4, <2>1, <2>5, OneSubscribed
<1>5. ASSUME NEW s, s.chains = sub[c].chains, s.responses = sub[c].responses,
             sub' = [sub EXCEPT ![c] = s], UNCHANGED slots
      PROVE  LimitsOK'
  <2>1. Subscribed(s)
    BY <1>0, <1>5 DEF Subscribed
  <2> QED
    BY <1>0, <1>5, <2>1, OneSubscribed
<1>6. CASE UNCHANGED slots /\ sub' = [sub EXCEPT ![c].state = "acquiring", ![c].acquiring = <<message>>]
  <2> DEFINE s == [sub[c] EXCEPT !.state = "acquiring", !.acquiring = <<message>>]
  <2>1. s.chains = sub[c].chains /\ s.responses = sub[c].responses
    OBVIOUS
  <2>2. sub' = [sub EXCEPT ![c] = s]
    BY <1>6 DEF OwnInv
  <2> HIDE DEF s
  <2> QED
    BY <1>5, <1>6, <2>1, <2>2
<1>7. CASE UNCHANGED slots /\ sub' = [sub EXCEPT ![c].responded = TRUE]
  <2> DEFINE s == [sub[c] EXCEPT !.responded = TRUE]
  <2>1. s.chains = sub[c].chains /\ s.responses = sub[c].responses
    OBVIOUS
  <2>2. sub' = [sub EXCEPT ![c] = s]
    BY <1>7 DEF OwnInv
  <2> HIDE DEF s
  <2> QED
    BY <1>5, <1>7, <2>1, <2>2
<1> QED
  BY <1>0, <1>2, <1>3, <1>4, <1>6, <1>7, ClosesLimited

(* A deferred request takes one of the permits, and its answer returns it.    *)
LEMMA DeferredLimited ==
  ASSUME OwnInv, LimitsOK,
         \/ \E c \in Conns : SpawnDeferred(c)
         \/ \E task \in deferred : RunDeferred(task) \/ RespondDeferred(task)
  PROVE  LimitsOK'
<1>0. MaxActive \in Nat
  BY ConnectionsAssumption
<1>1. ASSUME NEW c \in Conns, SpawnDeferred(c) PROVE LimitsOK'
  <2> DEFINE task == [conn |-> c, token |-> sub[c].token, request |-> Head(sub[c].acquiring), result |-> "none"]
             s == [sub[c] EXCEPT !.state = "open", !.acquiring = <<>>]
  <2>1. /\ sub' = [sub EXCEPT ![c] = s] /\ deferred' = deferred \cup {task} /\ UNCHANGED slots
        /\ Cardinality(ActiveOf(c)) < MaxActive /\ sub[c].state = "acquiring"
    BY <1>1 DEF SpawnDeferred, ActiveOf
  <2>2. s.chains = sub[c].chains /\ s.responses = sub[c].responses /\ task.conn = c
    OBVIOUS
  <2> HIDE DEF s, task
  <2>3. Subscribed(s)
    BY <2>1, <2>2 DEF LimitsOK, SubscribedAll, Subscribed
  <2>4. SubscribedAll' /\ SlotsOK'
    BY <2>1, <2>3 DEF OwnInv, LimitsOK, SubscribedAll, SlotsOK
  <2>5. ASSUME NEW d \in Conns
        PROVE  IsFiniteSet(ActiveOf(d)') /\ Cardinality(ActiveOf(d)') <= MaxActive
    <3>1. IsFiniteSet(ActiveOf(d)) /\ Cardinality(ActiveOf(d)) <= MaxActive
      BY DEF LimitsOK, DeferredOK
    <3>2. CASE d # c
      <4>1. ActiveOf(d)' = ActiveOf(d)
        BY <2>1, <2>2, <3>2 DEF ActiveOf
      <4> QED
        BY <3>1, <4>1
    <3>3. CASE d = c
      <4>1. ActiveOf(d)' = ActiveOf(c) \cup {task}
        BY <2>1, <2>2, <3>3 DEF ActiveOf
      <4>2. Cardinality(ActiveOf(c)) \in Nat
        BY <3>1, <3>3, FS_CardinalityType
      <4>3. /\ IsFiniteSet(ActiveOf(c) \cup {task})
            /\ Cardinality(ActiveOf(c) \cup {task}) = IF task \in ActiveOf(c) THEN Cardinality(ActiveOf(c))
                                                      ELSE Cardinality(ActiveOf(c)) + 1
        BY <3>1, <3>3, FS_AddElement, Zenon
      <4> DEFINE n == Cardinality(ActiveOf(c))
                 m == Cardinality(ActiveOf(c) \cup {task})
      <4>4. n \in Nat /\ (m = n \/ m = n + 1) /\ n < MaxActive
        BY <2>1, <4>2, <4>3
      <4>5. m <= MaxActive
        <5> HIDE DEF n, m
        <5> QED
          BY <1>0, <4>4
      <4> QED
        BY <4>1, <4>3, <4>5
    <3> QED
      BY <3>2, <3>3
  <2> QED
    BY <2>4, <2>5 DEF LimitsOK, DeferredOK
<1>2. ASSUME NEW task \in deferred, RunDeferred(task) PROVE LimitsOK'
  <2>1. PICK result :
          deferred' = (deferred \ {task}) \cup {[task EXCEPT !.result = result]}
    BY <1>2 DEF RunDeferred
  <2> DEFINE next == [task EXCEPT !.result = result]
  <2>2. next.conn = task.conn /\ deferred' = (deferred \ {task}) \cup {next}
    BY <2>1 DEF OwnInv, OwnDeferred
  <2> HIDE DEF next
  <2>3. SubscribedAll' /\ SlotsOK'
    BY <1>2 DEF RunDeferred, LimitsOK, SubscribedAll, SlotsOK
  <2>4. ASSUME NEW d \in Conns
        PROVE  IsFiniteSet(ActiveOf(d)') /\ Cardinality(ActiveOf(d)') <= MaxActive
    <3>1. IsFiniteSet(ActiveOf(d)) /\ Cardinality(ActiveOf(d)) <= MaxActive
      BY DEF LimitsOK, DeferredOK
    <3>2. CASE task.conn # d
      <4>1. ActiveOf(d)' = ActiveOf(d)
        BY <2>2, <3>2 DEF ActiveOf
      <4> QED
        BY <3>1, <4>1
    <3>3. CASE task.conn = d
      <4> DEFINE S == ActiveOf(d)
                 R == S \ {task}
      <4>1. ActiveOf(d)' = R \cup {next} /\ task \in S
        BY <2>2, <3>3 DEF ActiveOf
      <4> HIDE DEF S
      <4>2. IsFiniteSet(S) /\ Cardinality(S) \in Nat /\ Cardinality(S) <= MaxActive
        BY <3>1, FS_CardinalityType DEF S
      <4>3. IsFiniteSet(R) /\ Cardinality(R) = Cardinality(S) - 1
        BY <4>1, <4>2, FS_RemoveElement
      <4> HIDE DEF R
      <4>4. /\ IsFiniteSet(R \cup {next})
            /\ Cardinality(R \cup {next}) = IF next \in R THEN Cardinality(R) ELSE Cardinality(R) + 1
        BY <4>3, FS_AddElement, Zenon
      <4>5. Cardinality(R) \in Nat
        BY <4>3, FS_CardinalityType
      <4>6. Cardinality(R \cup {next}) <= MaxActive
        BY <1>0, <4>2, <4>3, <4>4, <4>5
      <4> QED
        BY <4>1, <4>4, <4>6
    <3> QED
      BY <3>2, <3>3
  <2> QED
    BY <2>3, <2>4 DEF LimitsOK, DeferredOK
<1>3. ASSUME NEW task \in deferred, RespondDeferred(task) PROVE LimitsOK'
  <2> DEFINE c == task.conn
             responses == Pushed(sub[c].responses, Response(task.request, task.result))
             s == [sub[c] EXCEPT !.responses = responses]
  <2>1. OwnDeferred(task) /\ task.result \in {"ok", "error"} /\ c \in Conns /\ UNCHANGED slots
        /\ deferred' = deferred \ {task}
    BY <1>3 DEF OwnInv, RespondDeferred, OwnDeferred
  <2>2. SubscribedAll'
    <3>1. CASE IsOpen(c)
      <4>1. /\ sub[c].responses \in Seq(Responses) /\ DOMAIN sub[c] = SubscriberFields /\ Subscribed(sub[c])
            /\ sub[c].state \in {"open", "acquiring"}
        BY <2>1, <3>1 DEF OwnInv, IsOpen, OwnSubscriber, LimitsOK, SubscribedAll
      <4>2. Response(task.request, task.result) \in Responses
        BY <2>1, ResponseTagged DEF OwnDeferred
      <4>3. Len(responses) <= ResponseCapacity
        BY <4>1, <4>2, PushedShort DEF Subscribed
      <4>4. sub' = [sub EXCEPT ![c] = s]
        BY <1>3, <3>1 DEF RespondDeferred, OwnInv
      <4> HIDE DEF responses
      <4>5. s.chains = sub[c].chains /\ s.responses = responses
        BY <4>1 DEF SubscriberFields
      <4> HIDE DEF s
      <4>6. Subscribed(s)
        BY <4>1, <4>3, <4>5 DEF Subscribed
      <4> QED
        BY <2>1, <4>4, <4>6 DEF OwnInv, LimitsOK, SubscribedAll
    <3>2. CASE ~IsOpen(c)
      BY <1>3, <3>2 DEF RespondDeferred, LimitsOK, SubscribedAll
    <3> QED
      BY <3>1, <3>2
  <2>3. SlotsOK'
    BY <2>1 DEF LimitsOK, SlotsOK
  <2>4. ASSUME NEW d \in Conns
        PROVE  IsFiniteSet(ActiveOf(d)') /\ Cardinality(ActiveOf(d)') <= MaxActive
    <3>1. ActiveOf(d)' \subseteq ActiveOf(d)
      BY <2>1 DEF ActiveOf
    <3> QED
      BY <1>0, <3>1, SmallerSet DEF LimitsOK, DeferredOK
  <2> QED
    BY <2>2, <2>3, <2>4 DEF LimitsOK, DeferredOK
<1> QED
  BY <1>1, <1>2, <1>3

LEMMA LimitsSame == ASSUME LimitsOK, UNCHANGED <<slots, sub, deferred>> PROVE LimitsOK'
  BY DEF LimitsOK, SlotsOK, SubscribedAll, DeferredOK, ActiveOf

LEMMA NextLimits == ASSUME OwnInv, OppInv, LimitsOK, [Next]_vars PROVE LimitsOK'
<1>1. ASSUME ConnStep PROVE LimitsOK'
  <2>1. CASE \E c \in Conns :
               \/ \E ip \in Ips, t \in Tokens \cup {NoToken} : GetNewSubscriberId(c, ip, t)
               \/ UpgradeFails(c) \/ Open(c) \/ HandleUpdate(c) \/ Lags(c) \/ PingTick(c) \/ ExitTick(c)
               \/ HandleResponse(c) \/ HandleClientMessage(c)
    BY <2>1, ConnectsLimited, UpdatesLimited, MessagesLimited
  <2>2. CASE \/ \E c \in Conns : SpawnDeferred(c)
             \/ \E task \in deferred : RunDeferred(task) \/ RespondDeferred(task)
    BY <2>2, DeferredLimited
  <2>3. CASE UNCHANGED <<slots, sub, deferred>>
    BY <2>3, LimitsSame
  <2>4. ASSUME NEW c, \/ NetworkLost(c) \/ ClientReceives(c) \/ ClientGivesUp(c)
                      \/ \E body \in Bodies : Request(c, body)
                      \/ \E n \in DOMAIN cli[c].callers : CallerTimesOut(c, n)
        PROVE  UNCHANGED <<slots, sub, deferred>>
    BY <2>4 DEF NetworkLost, ClientReceives, ClientGivesUp, Request, CallerTimesOut
  <2> QED
    BY <1>1, <2>1, <2>2, <2>3, <2>4 DEF ConnStep
<1>2. CASE ConnStops
  <2>1. slots' = [ip \in Ips |-> {}] /\ deferred' = {} /\ \A c : ActiveOf(c)' = {}
    BY <1>2 DEF ConnStops, ActiveOf
  <2>2. SlotsOK'
    BY <2>1, FS_EmptySet, ConnectionsAssumption DEF SlotsOK
  <2>3. DeferredOK'
    BY <2>1, FS_EmptySet, ConnectionsAssumption DEF DeferredOK
  <2>4. SubscribedAll'
    BY <1>2 DEF ConnStops, SubscribedAll, Subscribed, NoSub
  <2> QED
    BY <2>2, <2>3, <2>4 DEF LimitsOK
<1>3. CASE UNCHANGED connVars
  BY <1>3, LimitsSame DEF connVars
<1>4. ConnStep \/ ConnStops \/ UNCHANGED connVars
  BY DEF Next, vars, OfServer, VerificationPanics, Completes, Crash, Down, StartsAgain, OfAccess, OfOpp, OfConn,
     OfHistory, OfTables, OfSimulator, BroadcastUpdate
<1> QED
  BY <1>1, <1>2, <1>3, <1>4

LEMMA SpecLimits == Spec => []LimitInv
<1>1. LimitInv /\ AccessInv /\ OwnInv /\ OppInv /\ [Next]_vars => LimitInv'
  BY NextServer, NextTokens, NextLimits DEF LimitInv
<1> QED
  BY InitLimits, <1>1, SpecAccess, SpecOwn, SpecOpp, PTL DEF Spec

(* The types of all tables and of what runs; a bid names an auction made      *)
(* after it, which is there unless it is old; an address has no more          *)
(* subscribers than it may, a Subscriber no more deferred requests than       *)
(* permits and no more responses than its channel holds, and it is never      *)
(* ahead of the broadcasts; a key in memory has an opportunity                *)
(* (get_opportunities would panic otherwise).                                 *)
THEOREM FeedIsTyped == Spec => []FeedTypeOK
<1>1. ASSUME OppInv PROVE OppTypeOK /\ \A key \in DOMAIN memory : memory[key] # <<>>
  <2>1. ASSUME NEW key \in DOMAIN memory, NEW o \in ToSet(memory[key])
        PROVE  o.create.key = key /\ o.refreshed <= now /\ o.id \in DOMAIN rows
    <3>1. memory[key] \in Seq(OfKey(Known, key))
      BY <1>1 DEF OppInv, MemoryOK
    <3>2. o \in OfKey(Known, key)
      BY <2>1, <3>1 DEF ToSet
    <3> QED
      BY <3>2 DEF OfKey, Known
  <2>2. /\ DOMAIN memory \subseteq Keys /\ DOMAIN calls = Tasks
        /\ \A key \in DOMAIN memory : memory[key] # <<>>
        /\ \A id \in DOMAIN rows : rows[id] \in [key : Keys, removed : BOOLEAN, deleted : BOOLEAN]
    BY <1>1 DEF OppInv, MemoryOK, CallsOK, RowsOK, Row
  <2> QED
    BY <2>1, <2>2 DEF OppTypeOK
<1>2. ASSUME OwnInv, GapInv, LimitInv PROVE ConnTypeOK
  <2>1. \A ip \in Ips : slots[ip] \subseteq Conns /\ Cardinality(slots[ip]) <= MaxPerIp
    BY <1>2 DEF LimitInv, LimitsOK, SlotsOK
  <2>2. \A c \in Conns : sub[c].state \in {"none", "upgrading", "open", "acquiring", "closed"}
    BY <1>2 DEF OwnInv, OwnSubscriber
  <2>3. ASSUME NEW c \in Conns, IsOpen(c)
        PROVE  /\ sub[c].chains \subseteq Chains /\ sub[c].pos <= Len(events)
               /\ Len(sub[c].responses) <= ResponseCapacity
               /\ Cardinality({task \in deferred : task.conn = c}) <= MaxActive
    BY <1>2, <2>3 DEF GapInv, Follows, LimitInv, LimitsOK, SubscribedAll, Subscribed, DeferredOK, ActiveOf, IsOpen
  <2> QED
    BY <2>1, <2>2, <2>3 DEF ConnTypeOK
<1>3. ASSUME RecordsInv PROVE HistoryTypeOK
  BY <1>3 DEF RecordsInv, TablesOK, CopiesOK, RowOK, HistoryTypeOK
<1>4. OppInv /\ OwnInv /\ GapInv /\ LimitInv /\ RecordsInv /\ AccessInv => FeedTypeOK
  BY <1>1, <1>2, <1>3, AccessTyped DEF FeedTypeOK, LimitInv
<1> QED
  BY <1>4, SpecOpp, SpecOwn, SpecGap, SpecLimits, SpecRecords, SpecAccess, PTL
---------------------------------------------------------------------------
(* What transactions take from an account together.                           *)
Load(txs, a) ==
  Iterated(Len(txs), 0, [p \in (1..Len(txs)) \X Nat |-> p[2] + txs[p[1]].takes[a]])[Len(txs)]

Loads(txs, a, l) == l[0] = 0 /\ \A i \in 1..Len(txs) : l[i] = l[i - 1] + txs[i].takes[a]

LEMMA LoadIs ==
  ASSUME NEW txs \in Seq(Txs), NEW a \in Accounts
  PROVE  \E l \in [0..Len(txs) -> Nat] : Loads(txs, a, l) /\ Load(txs, a) = l[Len(txs)]
<1> DEFINE step == [p \in (1..Len(txs)) \X Nat |-> p[2] + txs[p[1]].takes[a]]
<1>1. Len(txs) \in Nat /\ \A i \in 1..Len(txs) : txs[i].takes[a] \in Nat
  <2>1. \A i \in 1..Len(txs) : txs[i] \in Txs
    OBVIOUS
  <2> QED
    BY <2>1, SimulatorAssumption
<1>2. /\ step \in [(1..Len(txs)) \X Nat -> Nat]
      /\ \A i \in 1..Len(txs) : \A m \in Nat : step[<<i, m>>] = m + txs[i].takes[a]
  BY <1>1
<1> DEFINE l == Iterated(Len(txs), 0, step)
<1>3. l \in [0..Len(txs) -> Nat] /\ StepsBy(l, Len(txs), 0, step)
  <2> HIDE DEF step
  <2> QED
    BY <1>1, <1>2, IteratedIs
<1>4. Load(txs, a) = l[Len(txs)]
  BY DEF Load
<1> HIDE DEF l, step
<1>5. Loads(txs, a, l)
  <2>1. ASSUME NEW i \in 1..Len(txs) PROVE l[i] = l[i - 1] + txs[i].takes[a]
    <3>1. i - 1 \in 0..Len(txs)
      BY <1>1
    <3> QED
      BY <1>2, <1>3, <3>1 DEF StepsBy
  <2> QED
    BY <1>3, <2>1 DEF StepsBy, Loads
<1> QED
  BY <1>3, <1>4, <1>5

LEMMA LoadNat == ASSUME NEW txs \in Seq(Txs), NEW a \in Accounts PROVE Load(txs, a) \in Nat
  BY LoadIs

LEMMA LoadNone == ASSUME NEW a \in Accounts PROVE Load(<<>>, a) = 0
<1> DEFINE none == <<>>
<1>1. none \in Seq(Txs) /\ Len(none) = 0
  OBVIOUS
<1> HIDE DEF none
<1>2. PICK l \in [0..Len(none) -> Nat] : Loads(none, a, l) /\ Load(none, a) = l[Len(none)]
  BY <1>1, LoadIs
<1>3. Load(none, a) = 0
  BY <1>1, <1>2 DEF Loads
<1> QED
  BY <1>3 DEF none

LEMMA LoadAppend ==
  ASSUME NEW txs \in Seq(Txs), NEW tx \in Txs, NEW a \in Accounts
  PROVE  Load(Append(txs, tx), a) = Load(txs, a) + tx.takes[a]
<1> DEFINE more == Append(txs, tx)
<1>1. /\ more \in Seq(Txs) /\ Len(txs) \in Nat /\ Len(more) = Len(txs) + 1
      /\ more[Len(txs) + 1] = tx /\ \A i \in 1..Len(txs) : more[i] = txs[i]
  OBVIOUS
<1> HIDE DEF more
<1>2. PICK l \in [0..Len(txs) -> Nat] : Loads(txs, a, l) /\ Load(txs, a) = l[Len(txs)]
  BY LoadIs
<1>3. PICK m \in [0..Len(more) -> Nat] : Loads(more, a, m) /\ Load(more, a) = m[Len(more)]
  BY <1>1, LoadIs
<1> DEFINE Good == {k \in 0..Len(txs) : l[k] = m[k]}
<1>4. 0 \in Good
  BY <1>1, <1>2, <1>3 DEF Loads
<1>5. ASSUME NEW k \in 0..(Len(txs) - 1), k \in Good PROVE k + 1 \in Good
  <2>1. k + 1 \in 1..Len(txs) /\ k + 1 \in 1..Len(more) /\ (k + 1) - 1 = k /\ more[k + 1] = txs[k + 1]
    BY <1>1
  <2>2. l[k + 1] = l[k] + txs[k + 1].takes[a]
    BY <1>2, <2>1 DEF Loads
  <2>3. m[k + 1] = m[k] + more[k + 1].takes[a]
    BY <1>3, <2>1 DEF Loads
  <2> QED
    BY <1>5, <2>1, <2>2, <2>3
<1>6. 0..Len(txs) \subseteq Good
  <2> HIDE DEF Good
  <2> QED
    BY <1>1, <1>4, <1>5, InductionUpTo
<1>7. l[Len(txs)] = m[Len(txs)]
  BY <1>1, <1>6
<1>8. m[Len(more)] = m[Len(txs)] + tx.takes[a]
  <2>1. Len(more) \in 1..Len(more) /\ Len(more) - 1 = Len(txs) /\ more[Len(more)] = tx
    BY <1>1
  <2>2. m[Len(more)] = m[Len(more) - 1] + more[Len(more)].takes[a]
    BY <1>3, <2>1 DEF Loads
  <2> QED
    BY <2>1, <2>2
<1> QED
  BY <1>2, <1>3, <1>7, <1>8 DEF more

LEMMA SetOfAppend ==
  ASSUME NEW S, NEW p \in Seq(S), NEW x \in S
  PROVE  Append(p, x) \in Seq(S) /\ ToSet(Append(p, x)) = ToSet(p) \cup {x}
<1> DEFINE s == Append(p, x)
<1>1. /\ s \in Seq(S) /\ DOMAIN s = 1..(Len(p) + 1) /\ s[Len(p) + 1] = x
      /\ DOMAIN p = 1..Len(p) /\ Len(p) \in Nat /\ \A i \in 1..Len(p) : s[i] = p[i]
  OBVIOUS
<1> HIDE DEF s
<1>2. ToSet(s) = {s[i] : i \in 1..(Len(p) + 1)} /\ ToSet(p) = {p[i] : i \in 1..Len(p)}
  BY <1>1 DEF ToSet
<1>3. 1..(Len(p) + 1) = 1..Len(p) \cup {Len(p) + 1}
  BY <1>1
<1>4. ASSUME NEW z PROVE z \in ToSet(s) <=> z \in ToSet(p) \cup {x}
  BY <1>1, <1>2, <1>3
<1> QED
  BY <1>1, <1>4 DEF s

(* Of two sequences together.                                                 *)
LEMMA LoadJoin ==
  ASSUME NEW q \in Seq(Txs), NEW r \in Seq(Txs), NEW a \in Accounts
  PROVE  \E p \in Seq(Txs) : ToSet(q) \cup ToSet(r) \subseteq ToSet(p) /\ Load(p, a) = Load(q, a) + Load(r, a)
<1>1. PICK l \in [0..Len(r) -> Nat] : Loads(r, a, l) /\ Load(r, a) = l[Len(r)]
  BY LoadIs
<1>2. Len(r) \in Nat /\ (\A i \in 1..Len(r) : r[i] \in Txs) /\ Load(q, a) \in Nat
  BY LoadNat
<1> DEFINE Joins(p, k) ==
      /\ p \in Seq(Txs) /\ Load(p, a) = Load(q, a) + l[k]
      /\ ToSet(q) \subseteq ToSet(p) /\ \A i \in 1..k : r[i] \in ToSet(p)
           Good == {k \in 0..Len(r) : \E p : Joins(p, k)}
<1>3. 0 \in Good
  <2>1. Joins(q, 0)
    BY <1>1, <1>2 DEF Loads
  <2> HIDE DEF Joins
  <2> QED
    BY <1>2, <2>1
<1>4. ASSUME NEW k \in 0..(Len(r) - 1), k \in Good PROVE k + 1 \in Good
  <2>1. PICK p : Joins(p, k)
    BY <1>4
  <2>2. k + 1 \in 1..Len(r) /\ (k + 1) - 1 = k /\ r[k + 1] \in Txs /\ l[k] \in Nat
    BY <1>2
  <2> DEFINE x == r[k + 1]
             s == Append(p, x)
  <2>3. s \in Seq(Txs) /\ ToSet(s) = ToSet(p) \cup {x}
    BY <2>1, <2>2, SetOfAppend
  <2>4. Load(s, a) = Load(p, a) + r[k + 1].takes[a]
    BY <2>1, <2>2, LoadAppend
  <2>5. l[k + 1] = l[k] + r[k + 1].takes[a] /\ r[k + 1].takes[a] \in Nat
    BY <1>1, <2>2, SimulatorAssumption DEF Loads
  <2>6. Joins(s, k + 1)
    <3>1. \A i \in 1..(k + 1) : i \in 1..k \/ i = k + 1
      BY <2>2
    <3> HIDE DEF s
    <3>2. Load(s, a) = Load(q, a) + l[k + 1]
      <4> DEFINE u == r[k + 1].takes[a]
      <4>1. /\ Load(s, a) = Load(p, a) + u /\ Load(p, a) = Load(q, a) + l[k] /\ l[k + 1] = l[k] + u
            /\ u \in Nat /\ Load(q, a) \in Nat /\ l[k] \in Nat
        BY <1>2, <2>1, <2>2, <2>4, <2>5
      <4> HIDE DEF u
      <4> QED
        BY <4>1
    <3> QED
      BY <2>1, <2>3, <3>1, <3>2
  <2> HIDE DEF Joins
  <2> QED
    BY <2>2, <2>6
<1>5. Len(r) \in Good
  <2>1. 0..Len(r) \subseteq Good
    <3> HIDE DEF Good
    <3> QED
      BY <1>2, <1>3, <1>4, InductionUpTo
  <2>2. Len(r) \in 0..Len(r)
    BY <1>2
  <2> HIDE DEF Good
  <2> QED
    BY <2>1, <2>2
<1>6. PICK p : Joins(p, Len(r))
  BY <1>5
<1>7. ToSet(r) \subseteq ToSet(p)
  BY <1>6 DEF ToSet
<1> QED
  BY <1>1, <1>6, <1>7

(* Without one of them.                                                       *)
LEMMA LoadWithout ==
  ASSUME NEW q \in Seq(Txs), NEW a \in Accounts, NEW tx \in ToSet(q)
  PROVE  \E p \in Seq(Txs) : ToSet(q) \ {tx} \subseteq ToSet(p) /\ Load(p, a) + tx.takes[a] <= Load(q, a)
<1>1. PICK l \in [0..Len(q) -> Nat] : Loads(q, a, l) /\ Load(q, a) = l[Len(q)]
  BY LoadIs
<1>2. /\ Len(q) \in Nat /\ DOMAIN q = 1..Len(q) /\ \A i \in 1..Len(q) : q[i] \in Txs
      /\ tx \in Txs /\ tx.takes[a] \in Nat
  BY SimulatorAssumption DEF ToSet
<1> DEFINE Seen(k) == \E i \in 1..k : q[i] = tx
           Without(p, k) ==
      /\ p \in Seq(Txs)
      /\ \A i \in 1..k : q[i] # tx => q[i] \in ToSet(p)
      /\ Load(p, a) <= l[k]
      /\ Seen(k) => Load(p, a) + tx.takes[a] <= l[k]
           Good == {k \in 0..Len(q) : \E p : Without(p, k)}
<1>3. 0 \in Good
  <2>1. Without(<<>>, 0)
    BY <1>1, <1>2, LoadNone DEF Loads
  <2> HIDE DEF Without
  <2> QED
    BY <1>2, <2>1
<1>4. ASSUME NEW k \in 0..(Len(q) - 1), k \in Good PROVE k + 1 \in Good
  <2>1. PICK p : Without(p, k)
    BY <1>4
  <2> DEFINE x == q[k + 1]
  <2>2. k + 1 \in 1..Len(q) /\ (k + 1) - 1 = k /\ x \in Txs /\ x.takes[a] \in Nat /\ l[k] \in Nat /\ l[k + 1] \in Nat
        /\ \A i \in 1..(k + 1) : i \in 1..k \/ i = k + 1
    BY <1>2, SimulatorAssumption
  <2>3. l[k + 1] = l[k] + x.takes[a]
    BY <1>1, <2>2 DEF Loads
  <2>4. Load(p, a) \in Nat
    BY <2>1, LoadNat
  <2>5. CASE x = tx
    <3>1. \A i \in 1..(k + 1) : q[i] # tx => q[i] \in ToSet(p)
      BY <2>1, <2>2, <2>5
    <3>2. Load(p, a) + tx.takes[a] <= l[k + 1]
      BY <2>1, <2>2, <2>3, <2>4, <2>5
    <3>3. Load(p, a) <= l[k + 1]
      BY <1>2, <2>2, <2>4, <3>2
    <3> QED
      BY <2>1, <2>2, <3>1, <3>2, <3>3
  <2>6. CASE x # tx
    <3> DEFINE s == Append(p, x)
    <3>1. s \in Seq(Txs) /\ ToSet(s) = ToSet(p) \cup {x}
      BY <2>1, <2>2, SetOfAppend
    <3>2. Load(s, a) = Load(p, a) + x.takes[a]
      BY <2>1, <2>2, LoadAppend
    <3> HIDE DEF s
    <3>3. Seen(k + 1) => Seen(k)
      BY <2>2, <2>6
    <3>4. \A i \in 1..(k + 1) : q[i] # tx => q[i] \in ToSet(s)
      BY <2>1, <2>2, <3>1
    <3> HIDE DEF x, Seen
    <3>5. Load(s, a) <= l[k + 1] /\ (Seen(k + 1) => Load(s, a) + tx.takes[a] <= l[k + 1])
      <4>1. /\ Load(p, a) <= l[k] /\ (Seen(k) => Load(p, a) + tx.takes[a] <= l[k])
            /\ l[k] \in Nat /\ x.takes[a] \in Nat /\ tx.takes[a] \in Nat
        BY <1>2, <2>1, <2>2
      <4> DEFINE u == x.takes[a]
                 w == tx.takes[a]
      <4>2. l[k + 1] = l[k] + u /\ Load(s, a) = Load(p, a) + u /\ u \in Nat /\ w \in Nat
        BY <2>3, <3>2, <4>1
      <4>3. Load(p, a) <= l[k] /\ (Seen(k) => Load(p, a) + w <= l[k])
        BY <4>1
      <4> HIDE DEF u, w
      <4>4. Load(s, a) <= l[k + 1] /\ (Seen(k + 1) => Load(s, a) + w <= l[k + 1])
        BY <2>4, <3>3, <4>1, <4>2, <4>3
      <4> QED
        BY <4>4 DEF w
    <3> QED
      BY <2>2, <3>1, <3>4, <3>5
  <2> QED
    BY <2>5, <2>6
<1>5. Len(q) \in Good
  <2>1. 0..Len(q) \subseteq Good
    <3> HIDE DEF Good
    <3> QED
      BY <1>2, <1>3, <1>4, InductionUpTo
  <2>2. Len(q) \in 0..Len(q)
    BY <1>2
  <2> HIDE DEF Good
  <2> QED
    BY <2>1, <2>2
<1>6. PICK p : Without(p, Len(q))
  BY <1>5
<1>7. Seen(Len(q)) /\ ToSet(q) \ {tx} \subseteq ToSet(p)
  BY <1>2, <1>6 DEF ToSet
<1> QED
  BY <1>1, <1>6, <1>7
---------------------------------------------------------------------------
(* What a run of transactions leaves in the accounts and the load of those     *)
(* that succeed are what was there.                                           *)
Balances == [Accounts -> Nat]

LEMMA RunIs ==
  ASSUME NEW funds \in Balances, NEW txs \in Seq(Txs)
  PROVE  /\ Run(funds, txs).funds \in Balances
         /\ Run(funds, txs).ok \in Seq(Txs)
         /\ ToSet(Run(funds, txs).ok) \subseteq ToSet(txs)
         /\ \A a \in Accounts : Run(funds, txs).funds[a] + Load(Run(funds, txs).ok, a) = funds[a]
<1> DEFINE T == [funds : Balances, ok : Seq(Txs)]
           base == [funds |-> funds, ok |-> <<>>]
           next(acc, tx) ==
             IF Succeeds(acc.funds, tx)
             THEN [funds |-> Taken(acc.funds, tx), ok |-> Append(acc.ok, tx)] ELSE acc
           step == [p \in (1..Len(txs)) \X T |-> next(p[2], txs[p[1]])]
           Is(f) == f = [i \in 0..Len(txs) |-> IF i = 0 THEN base ELSE next(f[i - 1], txs[i])]
<1>1. Len(txs) \in Nat /\ DOMAIN txs = 1..Len(txs) /\ \A i \in 1..Len(txs) : txs[i] \in Txs
  OBVIOUS
<1>2. base \in T
  OBVIOUS
<1>3. ASSUME NEW acc \in T, NEW tx \in Txs PROVE next(acc, tx) \in T
  <2>1. ASSUME Succeeds(acc.funds, tx) PROVE Taken(acc.funds, tx) \in Balances
    BY <2>1, SimulatorAssumption DEF Succeeds, Affords, Taken, Balances
  <2> QED
    BY <2>1
<1>4. /\ step \in [(1..Len(txs)) \X T -> T]
      /\ \A i \in 1..Len(txs) : \A acc \in T : step[<<i, acc>>] = next(acc, txs[i])
  <2> HIDE DEF T, next
  <2> QED
    BY <1>1, <1>3
<1>5. PICK g \in [0..Len(txs) -> T] : StepsBy(g, Len(txs), base, step)
  <2> HIDE DEF T, base, step
  <2> QED
    BY <1>1, <1>2, <1>4, RecursionUpTo
<1>6. Is(g)
  <2>1. ASSUME NEW i \in 0..Len(txs)
        PROVE  g[i] = IF i = 0 THEN base ELSE next(g[i - 1], txs[i])
    <3> HIDE DEF T, base, step, next
    <3>1. i # 0 => i \in 1..Len(txs) /\ i - 1 \in 0..Len(txs)
      BY <1>1
    <3> QED
      BY <1>4, <1>5, <3>1 DEF StepsBy
  <2> HIDE DEF base, next
  <2> QED
    BY <2>1
<1>7. PICK f : Is(f) /\ Run(funds, txs) = f[Len(txs)]
  BY <1>6 DEF Run
<1> HIDE DEF step
<1> DEFINE Right(acc, k) ==
      /\ acc \in T
      /\ \A i \in 1..Len(acc.ok) : \E j \in 1..k : acc.ok[i] = txs[j]
      /\ \A a \in Accounts : acc.funds[a] + Load(acc.ok, a) = funds[a]
           Good == {k \in 0..Len(txs) : Right(f[k], k)}
<1>8. 0 \in Good
  <2>1. f[0] = base
    BY <1>1, <1>7
  <2>2. Right(base, 0)
    BY <1>2, LoadNone DEF Balances
  <2>3. 0 \in 0..Len(txs)
    BY <1>1
  <2> HIDE DEF Right, base
  <2> QED
    BY <2>1, <2>2, <2>3
<1>9. ASSUME NEW k \in 0..(Len(txs) - 1), k \in Good PROVE k + 1 \in Good
  <2> DEFINE acc == f[k]
             tx == txs[k + 1]
             new == next(acc, tx)
  <2>1. /\ k + 1 \in 1..Len(txs) /\ k + 1 \in 0..Len(txs) /\ k + 1 # 0 /\ (k + 1) - 1 = k
        /\ tx \in Txs /\ \A j \in 1..k : j \in 1..(k + 1)
    BY <1>1
  <2>2. f[k + 1] = new
    <3> HIDE DEF next, base
    <3> QED
      BY <1>7, <2>1
  <2>3. Right(acc, k)
    BY <1>9
  <2>4. new \in T
    BY <1>3, <2>1, <2>3
  <2>5. k + 1 \in 1..(k + 1) /\ tx = txs[k + 1]
    BY <2>1
  <2> HIDE DEF acc, tx
  <2>6. CASE ~Succeeds(acc.funds, tx)
    BY <2>1, <2>2, <2>3, <2>6
  <2>7. CASE Succeeds(acc.funds, tx)
    <3>1. new.funds = Taken(acc.funds, tx) /\ new.ok = Append(acc.ok, tx)
      BY <2>7
    <3>2. ASSUME NEW i \in 1..Len(new.ok)
          PROVE  \E j \in 1..(k + 1) : new.ok[i] = txs[j]
      <4>1. acc.ok \in Seq(Txs)
        BY <2>3
      <4>2. \/ i \in 1..Len(acc.ok) /\ Append(acc.ok, tx)[i] = acc.ok[i]
            \/ Append(acc.ok, tx)[i] = tx
        BY <2>1, <3>1, <4>1
      <4> QED
        BY <2>1, <2>3, <2>5, <3>1, <4>2
    <3>3. ASSUME NEW a \in Accounts
          PROVE  new.funds[a] + Load(new.ok, a) = funds[a]
      <4>1. Load(new.ok, a) = Load(acc.ok, a) + tx.takes[a] /\ Load(acc.ok, a) \in Nat
        BY <2>1, <2>3, <3>1, LoadAppend, LoadNat
      <4>2. new.funds[a] = acc.funds[a] - tx.takes[a] /\ acc.funds[a] \in Nat /\ tx.takes[a] \in Nat
        BY <2>1, <2>3, <3>1, SimulatorAssumption DEF Taken, Balances
      <4>3. acc.funds[a] + Load(acc.ok, a) = funds[a]
        BY <2>3
      <4> HIDE DEF new
      <4> QED
        BY <4>1, <4>2, <4>3
    <3> HIDE DEF new
    <3> QED
      BY <2>1, <2>2, <2>4, <3>2, <3>3
  <2> QED
    BY <2>6, <2>7
<1>10. Right(f[Len(txs)], Len(txs))
  <2>1. 0..Len(txs) \subseteq Good
    <3> HIDE DEF Good
    <3> QED
      BY <1>1, <1>8, <1>9, InductionUpTo
  <2>2. Len(txs) \in 0..Len(txs)
    BY <1>1
  <2> HIDE DEF Right
  <2> QED
    BY <2>1, <2>2
<1> DEFINE run == f[Len(txs)]
<1>11. run \in T /\ ToSet(run.ok) \subseteq ToSet(txs)
  <2>1. run.ok \in Seq(Txs) /\ run \in T
    BY <1>10
  <2>2. DOMAIN run.ok = 1..Len(run.ok)
    BY <2>1
  <2> QED
    BY <1>1, <1>10, <2>1, <2>2 DEF ToSet
<1> QED
  BY <1>7, <1>10, <1>11
---------------------------------------------------------------------------
(* What was sent was picked, bids that wait or are being verified were not.   *)
TablesOfSim ==
  /\ DOMAIN chain = {"funds", "sent", "landed", "failed", "table"}
  /\ chain.funds \in Balances
  /\ chain.landed \cup chain.failed \subseteq chain.sent /\ chain.sent \subseteq DOMAIN basis
  /\ DOMAIN basis \subseteq Txs
  /\ pending \in Seq([tx : Txs, old : BOOLEAN])
  /\ due \subseteq {entry.tx : entry \in {e \in ToSet(pending) : ~e.old}}
  /\ pendingBids \subseteq Txs \ DOMAIN basis /\ IsFiniteSet(pendingBids)

(* A transaction that takes from the account has landed, and is not known.    *)
Missed(known, a) == \E other \in chain.landed \ known : other.takes[a] > 0

(* The known transactions that may still land are among those of a sequence.  *)
Covers(txs, known) == txs \in Seq(Txs) /\ known \ chain.landed \subseteq ToSet(txs)

(* What was seen in an account, less what is to land, is there at least.      *)
Seen(sim, a) ==
  \/ Missed(sim.known, a)
  \/ \E txs : Covers(txs, sim.known) /\ sim.view[a] + Load(txs, a) <= chain.funds[a] + Load(sim.before, a)

SimFields == {"pc", "txs", "before", "known", "left", "view"}

RunningOK(s, sim) ==
  /\ DOMAIN sim = SimFields
  /\ sim.txs \in Seq(Txs) /\ sim.txs # <<>> /\ sim.known \subseteq Txs
  /\ Covers(sim.before, sim.known)
  /\ sim.left \subseteq Accounts /\ sim.view \in [Accounts \ sim.left -> Nat]
  /\ \A a \in Accounts \ sim.left : Seen(sim, a)
  /\ IF s = Verification THEN ToSet(sim.txs) \cap (pendingBids \cup DOMAIN basis) = {}
     ELSE \A tx \in ToSet(sim.txs) : tx \in pendingBids /\ tx.key = s

SimOK(s, sim) ==
  \/ sim = NoSim
  \/ sim.pc \in {"table", "fetch"} /\ RunningOK(s, sim)
  \/ sim.pc = "send" /\ s # Verification /\ DOMAIN sim = {"pc", "toSend", "toNote"}
     /\ sim.toSend \cup sim.toNote \subseteq DOMAIN basis

SimsOK == DOMAIN sims = Slots /\ \A s \in Slots : SimOK(s, sims[s])

(* A winner's accounts have what it takes and what those that its simulation  *)
(* knew of take that have not landed.                                         *)
BackedBy(known, a) ==
  Missed(known, a) \/ \E txs : Covers(txs, known) /\ Load(txs, a) <= chain.funds[a]

Backed ==
  \A tx \in DOMAIN basis : basis[tx].sound =>
    tx \in basis[tx].known /\ \A a \in Accounts : BackedBy(basis[tx].known, a)

SimInv == TablesOfSim /\ SimsOK /\ Backed /\ WinnersExecute
---------------------------------------------------------------------------
LEMMA InitSim == Init => SimInv
<1> SUFFICES ASSUME Init PROVE SimInv
  OBVIOUS
<1>1. SimulatorInit
  BY DEF Init
<1>2. TablesOfSim
  BY <1>1, FS_EmptySet, SimulatorAssumption DEF SimulatorInit, TablesOfSim, Balances, ToSet
<1>3. SimsOK
  BY <1>1 DEF SimulatorInit, SimsOK, SimOK
<1>4. Backed /\ WinnersExecute
  BY <1>1 DEF SimulatorInit, Backed, WinnersExecute
<1> QED
  BY <1>2, <1>3, <1>4 DEF SimInv

(* What simulations, bids that wait and winners rest on is the chain only.    *)
LEMMA SeenSame ==
  ASSUME UNCHANGED chain, NEW sim, NEW a
  PROVE  Seen(sim, a)' <=> Seen(sim, a)
  BY DEF Seen, Missed, Covers

LEMMA RunningSame ==
  ASSUME UNCHANGED <<chain, pendingBids, basis>>, NEW s, NEW sim
  PROVE  RunningOK(s, sim)' <=> RunningOK(s, sim)
  BY SeenSame DEF RunningOK, Covers

LEMMA SimSame ==
  ASSUME UNCHANGED <<chain, pendingBids, basis>>, NEW s, NEW sim
  PROVE  SimOK(s, sim)' <=> SimOK(s, sim)
  BY RunningSame DEF SimOK

LEMMA WinnersSame ==
  ASSUME UNCHANGED <<chain, basis>>, SimInv
  PROVE  Backed' /\ WinnersExecute'
  BY DEF SimInv, Backed, BackedBy, Missed, Covers, WinnersExecute

(* One simulation goes on.                                                    *)
LEMMA SimGoesOn ==
  ASSUME SimInv, UNCHANGED <<chain, pendingBids, basis>>, NEW s \in Slots, NEW new,
         SimOK(s, new), sims' = [sims EXCEPT ![s] = new]
  PROVE  SimsOK'
<1>1. \A t \in Slots : SimOK(t, sims'[t])
  BY DEF SimInv, SimsOK
<1> QED
  BY <1>1, SimSame DEF SimInv, SimsOK, Slots, TxKeys

LEMMA SimsUntouched ==
  ASSUME SimInv, UNCHANGED <<chain, pendingBids, basis, sims>>
  PROVE  SimsOK'
  BY SimSame DEF SimInv, SimsOK, Slots, TxKeys
---------------------------------------------------------------------------
(* The pending transactions without some of them.                             *)
Entry == [tx : Txs, old : BOOLEAN]

LEMMA PendingSelected ==
  ASSUME SimInv, NEW S
  PROVE  /\ Selected(pending, S) \in Seq(Entry)
         /\ ToSet(Selected(pending, S)) = ToSet(pending) \cap S
<1> DEFINE rest == Selected(pending, S)
<1>1. pending \in Seq(Entry)
  BY DEF SimInv, TablesOfSim, Entry
<1>2. /\ rest \in Seq(Entry)
      /\ \A x : (\E i \in 1..Len(rest) : rest[i] = x) <=> x \in S /\ \E i \in 1..Len(pending) : pending[i] = x
  <2>1. \A x : (\E i \in 1..Len(Selected(pending, S)) : Selected(pending, S)[i] = x)
                 <=> x \in S /\ \E i \in 1..Len(pending) : pending[i] = x
    BY <1>1, SelectedElements
  <2>2. Selected(pending, S) \in Seq(Entry)
    BY <1>1, SelectedElements
  <2> QED
    BY <2>1, <2>2
<1> HIDE DEF rest
<1>3. \A x : x \in ToSet(rest) <=> x \in S /\ x \in ToSet(pending)
  BY <1>1, <1>2, ToSetTyped
<1> QED
  BY <1>2, <1>3 DEF rest

LEMMA StartKeeps ==
  ASSUME SimInv, NEW s \in Slots, NEW txs \in Seq(Txs), StartSimulation(s, txs),
         IF s = Verification THEN ToSet(txs) \cap (pendingBids \cup DOMAIN basis) = {}
         ELSE \A tx \in ToSet(txs) : tx \in pendingBids /\ tx.key = s
  PROVE  SimInv'
<1> DEFINE S == {entry \in ToSet(pending) : ~entry.old}
           recent == Selected(pending, S)
           before == TxsOf(recent)
           known == due \cup chain.landed
           new == [pc |-> "table", txs |-> txs, before |-> before, known |-> known,
                   left |-> Accounts, view |-> <<>>]
<1>1. /\ pending' = recent /\ sims' = [sims EXCEPT ![s] = new] /\ txs # <<>>
      /\ UNCHANGED <<chain, pendingBids, basis, due>>
  BY DEF StartSimulation
<1>2. recent \in Seq(Entry) /\ ToSet(recent) = S
  <2> HIDE DEF S
  <2> QED
    BY PendingSelected DEF S
<1>3. before \in Seq(Txs) /\ ToSet(before) = {entry.tx : entry \in ToSet(recent)}
  <2> HIDE DEF recent
  <2>1. DOMAIN recent = 1..Len(recent) /\ Len(recent) \in Nat /\ \A i \in 1..Len(recent) : recent[i].tx \in Txs
    <3>1. \A entry \in Entry : entry.tx \in Txs
      BY DEF Entry
    <3> QED
      BY <1>2, <3>1
  <2>2. before \in [1..Len(recent) -> Txs] /\ \A i \in 1..Len(recent) : before[i] = recent[i].tx
    BY <2>1 DEF TxsOf
  <2> HIDE DEF before
  <2>3. before \in Seq(Txs) /\ DOMAIN before = 1..Len(recent)
    BY <2>1, <2>2
  <2> QED
    BY <2>1, <2>2, <2>3 DEF ToSet
<1>4. due \subseteq {entry.tx : entry \in S}
  BY DEF SimInv, TablesOfSim
<1> HIDE DEF recent, before
<1>5. known \subseteq Txs /\ Covers(before, known)
  <2>1. due \subseteq ToSet(before)
    BY <1>2, <1>3, <1>4
  <2>2. due \cup chain.landed \subseteq Txs
    BY <1>3, <2>1, ToSetTyped DEF SimInv, TablesOfSim
  <2> QED
    BY <1>3, <2>1, <2>2 DEF Covers
<1>6. TablesOfSim'
  <2>1. {e \in ToSet(recent) : ~e.old} = S
    BY <1>2
  <2> HIDE DEF S
  <2> QED
    BY <1>1, <1>2, <1>4, <2>1 DEF SimInv, TablesOfSim, Entry
<1>7. SimOK(s, new)
  <2>1. <<>> \in [Accounts \ Accounts -> Nat]
    OBVIOUS
  <2> HIDE DEF known
  <2>2. RunningOK(s, new)
    BY <1>1, <1>5, <2>1 DEF RunningOK, SimFields, Covers
  <2> QED
    BY <2>2 DEF SimOK
<1> HIDE DEF new
<1> QED
  BY <1>1, <1>6, <1>7, SimGoesOn, WinnersSame DEF SimInv

LEMMA StartsKeep ==
  ASSUME SimInv, (\E tx \in Txs : SimulateTransaction(tx)) \/ (\E key \in TxKeys : OptimizeBids(key))
  PROVE  SimInv'
<1>1. ASSUME NEW tx \in Txs, SimulateTransaction(tx) PROVE SimInv'
  <2>1. <<tx>> \in Seq(Txs) /\ ToSet(<<tx>>) = {tx}
    BY DEF ToSet
  <2>2. tx \notin pendingBids \cup DOMAIN basis /\ StartSimulation(Verification, <<tx>>)
    BY <1>1 DEF SimulateTransaction
  <2> QED
    BY <2>1, <2>2, StartKeeps DEF Slots
<1>2. ASSUME NEW key \in TxKeys, OptimizeBids(key) PROVE SimInv'
  <2> DEFINE bids == {tx \in pendingBids : tx.key = key}
  <2>1. PICK txs \in SetToSeqs(bids) : StartSimulation(key, txs)
    BY <1>2 DEF OptimizeBids, SortedByAmount
  <2>2. bids \subseteq Txs /\ IsFiniteSet(bids)
    BY FS_Subset DEF SimInv, TablesOfSim
  <2>3. Cardinality(bids) \in Nat /\ txs \in [1..Cardinality(bids) -> bids]
    <3> HIDE DEF bids
    <3> QED
      BY <2>1, <2>2, FS_CardinalityType DEF SetToSeqs
  <2>4. txs \in Seq(Txs) /\ ToSet(txs) \subseteq bids
    <3> HIDE DEF bids
    <3> QED
      BY <2>2, <2>3 DEF ToSet
  <2>5. key \in Slots /\ key # Verification
    BY SimulatorAssumption DEF Slots, TxKeys, Verification
  <2> QED
    BY <2>1, <2>4, <2>5, StartKeeps
<1> QED
  BY <1>1, <1>2

LEMMA FetchKeeps ==
  ASSUME SimInv, NEW s \in Slots, ResolveLookupAddresses(s) \/ \E a \in Accounts : FetchAccount(s, a)
  PROVE  SimInv'
<1>1. SimOK(s, sims[s])
  BY DEF SimInv, SimsOK
<1>2. UNCHANGED <<pending, pendingBids, chain, due, basis>>
  BY DEF ResolveLookupAddresses, FetchAccount
<1>3. TablesOfSim' /\ Backed' /\ WinnersExecute'
  BY <1>2, WinnersSame DEF SimInv, TablesOfSim
<1>4. CASE ResolveLookupAddresses(s)
  <2> DEFINE new == [sims[s] EXCEPT !.pc = "fetch"]
  <2>1. sims[s].pc = "table" /\ sims' = [sims EXCEPT ![s] = new]
    BY <1>4 DEF ResolveLookupAddresses
  <2>2. RunningOK(s, sims[s])
    BY <1>1, <2>1 DEF SimOK, NoSim
  <2>3. SimOK(s, new)
    BY <2>1, <2>2 DEF RunningOK, SimFields, Seen, SimOK
  <2> HIDE DEF new
  <2> QED
    BY <1>2, <1>3, <2>1, <2>3, SimGoesOn DEF SimInv
<1>5. ASSUME NEW a \in Accounts, FetchAccount(s, a) PROVE SimInv'
  <2> DEFINE sim == sims[s]
             view == Put(sim.view, a, chain.funds[a])
             new == [sim EXCEPT !.left = @ \ {a}, !.view = view]
  <2>1. sim.pc = "fetch" /\ a \in sim.left /\ sims' = [sims EXCEPT ![s] = new]
    BY <1>5 DEF FetchAccount
  <2>2. RunningOK(s, sim)
    BY <1>1, <2>1 DEF SimOK, NoSim
  <2>3. /\ DOMAIN new = SimFields /\ new.pc = "fetch" /\ new.txs = sim.txs
        /\ new.before = sim.before /\ new.known = sim.known
        /\ new.left = sim.left \ {a} /\ new.view = view
    <3> HIDE DEF view, sim
    <3>1. DOMAIN sim = {"pc", "txs", "before", "known", "left", "view"} /\ sim.pc = "fetch"
      BY <2>1, <2>2 DEF RunningOK, SimFields
    <3> QED
      BY <3>1 DEF SimFields
  <2>4. /\ view \in [Accounts \ (sim.left \ {a}) -> Nat] /\ view[a] = chain.funds[a]
        /\ \A b \in Accounts \ sim.left : view[b] = sim.view[b]
    <3>1. chain.funds[a] \in Nat
      BY DEF SimInv, TablesOfSim, Balances
    <3>2. sim.view \in [Accounts \ sim.left -> Nat] /\ sim.left \subseteq Accounts
      BY <2>2 DEF RunningOK
    <3> HIDE DEF sim
    <3> QED
      BY <2>1, <3>1, <3>2 DEF Put
  <2> HIDE DEF view, new
  <2>5. ASSUME NEW b \in Accounts \ new.left PROVE Seen(new, b)
    <3>1. CASE b = a
      <4>1. chain.funds[a] \in Nat /\ Load(sim.before, a) \in Nat
        <5>1. sim.before \in Seq(Txs)
          BY <2>2 DEF RunningOK, Covers
        <5> QED
          BY <5>1, LoadNat DEF SimInv, TablesOfSim, Balances
      <4>2. view[a] + Load(sim.before, a) <= chain.funds[a] + Load(sim.before, a)
        BY <2>4, <4>1
      <4>3. Covers(sim.before, sim.known)
        BY <2>2 DEF RunningOK
      <4> QED
        BY <2>3, <3>1, <4>2, <4>3 DEF Seen
    <3>2. CASE b # a
      <4>1. b \in Accounts \ sim.left
        BY <2>3, <3>2
      <4>2. Seen(sim, b)
        BY <2>2, <4>1 DEF RunningOK
      <4>3. view[b] = sim.view[b]
        BY <2>4, <4>1
      <4> QED
        BY <2>3, <4>2, <4>3 DEF Seen
    <3> QED
      BY <3>1, <3>2
  <2>6. RunningOK(s, new)
    <3> HIDE DEF sim
    <3> QED
      BY <2>2, <2>3, <2>4, <2>5 DEF RunningOK, SimFields
  <2>7. SimOK(s, new)
    BY <2>3, <2>6 DEF SimOK
  <2> QED
    BY <1>2, <1>3, <2>1, <2>7, SimGoesOn DEF SimInv
<1> QED
  BY <1>4, <1>5
---------------------------------------------------------------------------
(* A bid that is verified is one more that waits.                             *)
LEMMA VerifiedKeeps == ASSUME SimInv, Verified PROVE SimInv'
<1> DEFINE tx == Head(sims[Verification].txs)
<1>1. Verification \in Slots /\ SimOK(Verification, sims[Verification]) /\ sims[Verification].pc = "fetch"
  BY DEF Verified, Fetched, SimInv, SimsOK, Slots
<1>2. RunningOK(Verification, sims[Verification])
  BY <1>1 DEF SimOK, NoSim
<1>3. tx \in Txs /\ tx \notin DOMAIN basis
  <2>1. sims[Verification].txs \in Seq(Txs) /\ sims[Verification].txs # <<>>
        /\ ToSet(sims[Verification].txs) \cap (pendingBids \cup DOMAIN basis) = {}
    BY <1>2 DEF RunningOK
  <2>2. tx \in Txs /\ tx \in ToSet(sims[Verification].txs)
    BY <2>1 DEF ToSet
  <2> QED
    BY <2>1, <2>2
<1> HIDE DEF tx
<1>4. /\ pendingBids \subseteq pendingBids' /\ pendingBids' \subseteq pendingBids \cup {tx}
      /\ sims' = [sims EXCEPT ![Verification] = NoSim]
      /\ UNCHANGED <<pending, chain, due, basis>>
  BY DEF Verified, tx
<1>5. TablesOfSim'
  <2>1. IsFiniteSet(pendingBids')
    BY <1>4, FS_AddElement, FS_Subset DEF SimInv, TablesOfSim
  <2> QED
    BY <1>3, <1>4, <2>1 DEF SimInv, TablesOfSim
<1>6. SimsOK'
  <2>1. ASSUME NEW s \in Slots PROVE SimOK(s, sims[s])'
    <3>1. CASE s = Verification
      BY <1>4, <3>1 DEF SimInv, SimsOK, SimOK
    <3>2. CASE s # Verification
      <4>1. sims'[s] = sims[s] /\ SimOK(s, sims[s])
        BY <1>4, <3>2 DEF SimInv, SimsOK
      <4>2. RunningOK(s, sims[s]) => RunningOK(s, sims[s])'
        BY <1>4, <3>2, SeenSame DEF RunningOK, Covers
      <4> QED
        BY <1>4, <4>1, <4>2 DEF SimOK
    <3> QED
      BY <3>1, <3>2
  <2> QED
    BY <1>4, <2>1 DEF SimInv, SimsOK, Slots, TxKeys
<1> QED
  BY <1>4, <1>5, <1>6, WinnersSame DEF SimInv

(* Winners are picked among the bids that wait, and the others have lost.     *)
LEMMA PickKeeps ==
  ASSUME SimInv, NEW key \in Slots, key # Verification, sims[key].pc \in {"table", "fetch"},
         NEW winners \in Seq(Txs), NEW sound, ToSet(winners) \subseteq ToSet(sims[key].txs),
         sound => \A a \in Accounts : BackedBy(sims[key].known \cup ToSet(winners), a),
         Pick(key, winners, sound)
  PROVE  SimInv'
<1> DEFINE W == ToSet(winners)
           sim == sims[key]
           new == [tx \in W |-> [known |-> sim.known \cup W, sound |-> sound]]
           next == IF winners = <<>> THEN NoSim ELSE [pc |-> "send", toSend |-> W, toNote |-> W]
<1>1. /\ pendingBids' = pendingBids \ ToSet(sim.txs) /\ basis' = Merge(new, basis)
      /\ sims' = [sims EXCEPT ![key] = next] /\ UNCHANGED <<pending, chain, due>>
  BY DEF Pick
<1>2. RunningOK(key, sim)
  BY DEF SimInv, SimsOK, SimOK, NoSim
<1>3. ToSet(sim.txs) \subseteq pendingBids /\ \A tx \in ToSet(sim.txs) : tx.key = key
  BY <1>2 DEF RunningOK
<1>4. W \subseteq Txs /\ W \cap DOMAIN basis = {}
  BY <1>3 DEF SimInv, TablesOfSim
<1>5. /\ DOMAIN basis' = DOMAIN basis \cup W
      /\ \A tx \in DOMAIN basis : basis'[tx] = basis[tx]
      /\ \A tx \in W : basis'[tx] = [known |-> sim.known \cup W, sound |-> sound]
  <2> HIDE DEF W, sim
  <2> QED
    BY <1>1, <1>4 DEF Merge
<1> HIDE DEF new, W
<1>6. TablesOfSim'
  <2>1. IsFiniteSet(pendingBids')
    BY <1>1, FS_Subset DEF SimInv, TablesOfSim
  <2> QED
    BY <1>1, <1>3, <1>4, <1>5, <2>1 DEF SimInv, TablesOfSim, W
<1>7. SimsOK'
  <2>1. ASSUME NEW s \in Slots PROVE SimOK(s, sims[s])'
    <3>1. CASE s = key
      <4>1. sims'[s] = next
        BY <1>1, <3>1 DEF SimInv, SimsOK
      <4> QED
        BY <1>5, <3>1, <4>1 DEF SimOK
    <3>2. CASE s # key
      <4>1. sims'[s] = sims[s] /\ SimOK(s, sims[s])
        BY <1>1, <3>2 DEF SimInv, SimsOK
      <4>2. ASSUME RunningOK(s, sims[s]) PROVE RunningOK(s, sims[s])'
        <5>1. IF s = Verification THEN ToSet(sims[s].txs) \cap (pendingBids' \cup DOMAIN basis') = {}
              ELSE \A tx \in ToSet(sims[s].txs) : tx \in pendingBids' /\ tx.key = s
          <6>1. W \subseteq pendingBids
            BY <1>3 DEF W
          <6> QED
            BY <1>1, <1>3, <1>5, <3>2, <4>2, <6>1 DEF RunningOK
        <5> QED
          BY <1>1, <4>1, <4>2, <5>1, SeenSame DEF RunningOK, Covers
      <4> QED
        BY <1>5, <4>1, <4>2 DEF SimOK
    <3> QED
      BY <3>1, <3>2
  <2> HIDE DEF next, sim
  <2> QED
    BY <1>1, <2>1 DEF SimInv, SimsOK, Slots, TxKeys
<1>8. Backed'
  <2>1. ASSUME NEW known, NEW a, BackedBy(known, a) PROVE BackedBy(known, a)'
    BY <1>1, <2>1 DEF BackedBy, Missed, Covers
  <2>2. ASSUME NEW tx \in DOMAIN basis', basis'[tx].sound
        PROVE  tx \in basis'[tx].known /\ \A a \in Accounts : BackedBy(basis'[tx].known, a)
    <3>1. CASE tx \in DOMAIN basis
      BY <1>5, <2>2, <3>1 DEF SimInv, Backed
    <3>2. CASE tx \in W
      <4>1. basis'[tx].known = sim.known \cup W /\ basis'[tx].sound = sound
        BY <1>5, <3>2
      <4>2. \A a \in Accounts : BackedBy(sim.known \cup W, a)
        BY <2>2, <4>1 DEF W
      <4> QED
        BY <3>2, <4>1, <4>2
    <3> QED
      BY <1>5, <2>2, <3>1, <3>2
  <2> QED
    BY <2>1, <2>2 DEF Backed
<1>9. WinnersExecute'
  BY <1>1, <1>5 DEF SimInv, TablesOfSim, WinnersExecute
<1> QED
  BY <1>6, <1>7, <1>8, <1>9 DEF SimInv

(* What the winners take, and what was to land before, is in the accounts.    *)
LEMMA WinnersKeep == ASSUME SimInv, NEW key \in Slots, key # Verification, GetWinnerBids(key) PROVE SimInv'
<1> DEFINE sim == sims[key]
           first == Run(sim.view, sim.before)
           second == Run(first.funds, sim.txs)
           W == ToSet(second.ok)
<1>1. sim.pc = "fetch" /\ sim.left = {} /\ Pick(key, second.ok, first.ok = sim.before)
  BY DEF GetWinnerBids, Fetched, AfterPending
<1>2. RunningOK(key, sim)
  BY <1>1 DEF SimInv, SimsOK, SimOK, NoSim
<1>3. /\ sim.view \in Balances /\ sim.before \in Seq(Txs) /\ sim.txs \in Seq(Txs)
      /\ Covers(sim.before, sim.known) /\ \A a \in Accounts : Seen(sim, a)
      /\ ToSet(sim.txs) \cap DOMAIN basis = {}
  <2>1. Accounts \ sim.left = Accounts
    BY <1>1
  <2> HIDE DEF sim
  <2>2. ToSet(sim.txs) \subseteq pendingBids
    BY <1>2 DEF RunningOK
  <2> QED
    BY <1>2, <2>1, <2>2 DEF RunningOK, Covers, Balances, SimInv, TablesOfSim
<1> HIDE DEF sim
<1>4. first.funds \in Balances /\ \A a \in Accounts : first.funds[a] + Load(first.ok, a) = sim.view[a]
  BY <1>3, RunIs
<1> HIDE DEF first
<1>5. /\ second.funds \in Balances /\ second.ok \in Seq(Txs) /\ W \subseteq ToSet(sim.txs)
      /\ \A a \in Accounts : second.funds[a] + Load(second.ok, a) = first.funds[a]
  BY <1>3, <1>4, RunIs
<1> HIDE DEF second, W
<1>6. ASSUME first.ok = sim.before, NEW a \in Accounts PROVE BackedBy(sim.known \cup W, a)
  <2>1. CASE Missed(sim.known, a)
    <3>1. PICK other \in chain.landed \ sim.known : other.takes[a] > 0
      BY <2>1 DEF Missed
    <3>2. other \notin W
      BY <1>3, <1>5, <3>1 DEF SimInv, TablesOfSim
    <3> QED
      BY <3>1, <3>2 DEF BackedBy, Missed
  <2>2. CASE ~Missed(sim.known, a)
    <3>1. PICK q : Covers(q, sim.known) /\ sim.view[a] + Load(q, a) <= chain.funds[a] + Load(sim.before, a)
      BY <1>3, <2>2 DEF Seen
    <3>2. q \in Seq(Txs) /\ sim.known \ chain.landed \subseteq ToSet(q)
      BY <3>1 DEF Covers
    <3>3. PICK p \in Seq(Txs) : ToSet(q) \cup W \subseteq ToSet(p) /\ Load(p, a) = Load(q, a) + Load(second.ok, a)
      BY <1>5, <3>2, LoadJoin DEF W
    <3>4. Covers(p, sim.known \cup W)
      BY <3>2, <3>3 DEF Covers
    <3>5. /\ Load(q, a) \in Nat /\ Load(second.ok, a) \in Nat /\ Load(sim.before, a) \in Nat
          /\ first.funds[a] \in Nat /\ second.funds[a] \in Nat /\ sim.view[a] \in Nat /\ chain.funds[a] \in Nat
      BY <1>3, <1>4, <1>5, <3>2, LoadNat DEF Balances, SimInv, TablesOfSim
    <3>6. /\ first.funds[a] + Load(sim.before, a) = sim.view[a]
          /\ second.funds[a] + Load(second.ok, a) = first.funds[a]
      BY <1>4, <1>5, <1>6
    <3>7. Load(p, a) <= chain.funds[a]
      <4>1. sim.view[a] + Load(q, a) <= chain.funds[a] + Load(sim.before, a)
        BY <3>1
      <4>2. Load(p, a) = Load(q, a) + Load(second.ok, a)
        BY <3>3
      <4> DEFINE lq == Load(q, a)
                 lo == Load(second.ok, a)
                 lb == Load(sim.before, a)
                 lp == Load(p, a)
                 ff == first.funds[a]
                 sf == second.funds[a]
                 v == sim.view[a]
                 c == chain.funds[a]
      <4>3. /\ lq \in Nat /\ lo \in Nat /\ lb \in Nat /\ ff \in Nat /\ sf \in Nat /\ v \in Nat /\ c \in Nat
            /\ ff + lb = v /\ sf + lo = ff /\ v + lq <= c + lb /\ lp = lq + lo
        BY <3>5, <3>6, <4>1, <4>2
      <4> HIDE DEF lq, lo, lb, lp, ff, sf, v, c
      <4>4. lp <= c
        BY <4>3
      <4> QED
        BY <4>4 DEF lp, c
    <3> QED
      BY <3>4, <3>7 DEF BackedBy
  <2> QED
    BY <2>1, <2>2
<1> QED
  BY <1>1, <1>5, <1>6, PickKeeps DEF sim, W

LEMMA RpcKeeps == ASSUME SimInv, NEW s \in Slots, RpcFails(s) PROVE SimInv'
<1>1. sims[s].pc \in {"table", "fetch"}
  BY DEF RpcFails
<1>2. RunningOK(s, sims[s])
  BY <1>1 DEF SimInv, SimsOK, SimOK, NoSim
<1>3. CASE s = Verification
  <2>1. sims' = [sims EXCEPT ![s] = NoSim] /\ UNCHANGED <<pending, tableCached, pendingBids, chain, due, basis>>
    BY <1>3 DEF RpcFails
  <2>2. SimOK(s, NoSim)
    BY DEF SimOK
  <2> QED
    BY <2>1, <2>2, SimGoesOn, WinnersSame DEF SimInv, TablesOfSim
<1>4. CASE s # Verification
  <2> DEFINE tx == Head(sims[s].txs)
  <2>1. Pick(s, <<tx>>, FALSE)
    BY <1>4 DEF RpcFails
  <2>2. tx \in Txs /\ tx \in ToSet(sims[s].txs)
    <3>1. sims[s].txs \in Seq(Txs) /\ sims[s].txs # <<>>
      BY <1>2 DEF RunningOK
    <3> QED
      BY <3>1 DEF ToSet
  <2> HIDE DEF tx
  <2>3. <<tx>> \in Seq(Txs) /\ ToSet(<<tx>>) = {tx}
    BY <2>2 DEF ToSet
  <2> QED
    BY <1>1, <1>4, <2>1, <2>2, <2>3, PickKeeps
<1> QED
  BY <1>3, <1>4
---------------------------------------------------------------------------
(* A transaction lands: what it takes is no longer to land.                   *)
Funded(tx) ==
  /\ tx \in chain.sent \ (chain.landed \cup chain.failed)
  /\ Affords(chain.funds, tx)
  /\ chain' = [chain EXCEPT !.landed = @ \cup {tx}, !.funds = Taken(@, tx)]

LEMMA FundedIs ==
  ASSUME SimInv, NEW tx, Funded(tx)
  PROVE  /\ tx \in Txs /\ tx \notin chain.landed
         /\ DOMAIN chain' = {"funds", "sent", "landed", "failed", "table"}
         /\ chain'.landed = chain.landed \cup {tx} /\ chain'.sent = chain.sent /\ chain'.failed = chain.failed
         /\ chain'.funds \in Balances
         /\ \A a \in Accounts : /\ chain'.funds[a] = chain.funds[a] - tx.takes[a]
                                /\ chain.funds[a] \in Nat /\ tx.takes[a] \in Nat
<1>1. DOMAIN chain = {"funds", "sent", "landed", "failed", "table"}
      /\ tx \in Txs /\ tx \notin chain.landed /\ chain.funds \in Balances
  BY DEF SimInv, TablesOfSim, Funded
<1>2. Taken(chain.funds, tx) \in Balances
      /\ \A a \in Accounts : /\ Taken(chain.funds, tx)[a] = chain.funds[a] - tx.takes[a]
                             /\ chain.funds[a] \in Nat /\ tx.takes[a] \in Nat
  BY <1>1, SimulatorAssumption DEF Funded, Affords, Taken, Balances
<1>3. /\ DOMAIN chain' = DOMAIN chain
      /\ chain'.landed = chain.landed \cup {tx} /\ chain'.funds = Taken(chain.funds, tx)
      /\ chain'.sent = chain.sent /\ chain'.failed = chain.failed
  <2> HIDE DEF Taken
  <2> QED
    BY <1>1 DEF Funded
<1> QED
  BY <1>1, <1>2, <1>3

LEMMA LandCovers ==
  ASSUME SimInv, NEW tx, Funded(tx), NEW known, NEW a \in Accounts, NEW q, Covers(q, known), ~Missed(known, a)'
  PROVE  \E p : Covers(p, known)' /\ Load(p, a) + tx.takes[a] <= Load(q, a)
<1>1. /\ chain'.landed = chain.landed \cup {tx} /\ tx \notin chain.landed /\ tx.takes[a] \in Nat
      /\ q \in Seq(Txs) /\ known \ chain.landed \subseteq ToSet(q)
  BY FundedIs DEF Covers
<1>2. CASE tx \in known
  <2>1. PICK p \in Seq(Txs) : ToSet(q) \ {tx} \subseteq ToSet(p) /\ Load(p, a) + tx.takes[a] <= Load(q, a)
    BY <1>1, <1>2, LoadWithout
  <2> QED
    BY <1>1, <2>1 DEF Covers
<1>3. CASE tx \notin known
  <2>1. tx.takes[a] = 0
    BY <1>1, <1>3 DEF Missed
  <2>2. Load(q, a) \in Nat
    BY <1>1, LoadNat
  <2> QED
    BY <1>1, <2>1, <2>2 DEF Covers
<1> QED
  BY <1>2, <1>3

LEMMA LandsWell ==
  ASSUME SimInv, NEW tx, Funded(tx), UNCHANGED <<pending, sims, pendingBids, due, basis>>
  PROVE  SimInv'
<1>1. TablesOfSim'
  <2> HIDE DEF Funded
  <2> QED
    BY FundedIs DEF SimInv, TablesOfSim, Funded
<1>2. chain.landed \subseteq chain'.landed /\ chain'.failed = chain.failed
  BY FundedIs
<1>3. ASSUME NEW sim, NEW a \in Accounts, Seen(sim, a), Covers(sim.before, sim.known), sim.view[a] \in Nat
      PROVE  Seen(sim, a)'
  <2>1. CASE Missed(sim.known, a)'
    BY <2>1 DEF Seen
  <2>2. CASE ~Missed(sim.known, a)'
    <3>1. PICK q : Covers(q, sim.known) /\ sim.view[a] + Load(q, a) <= chain.funds[a] + Load(sim.before, a)
      BY <1>2, <1>3, <2>2 DEF Seen, Missed
    <3>2. PICK p : Covers(p, sim.known)' /\ Load(p, a) + tx.takes[a] <= Load(q, a)
      BY <2>2, <3>1, LandCovers
    <3>3. Load(p, a) \in Nat /\ Load(q, a) \in Nat /\ Load(sim.before, a) \in Nat
      BY <1>3, <3>1, <3>2, LoadNat DEF Covers
    <3>4. sim.view[a] + Load(p, a) <= chain'.funds[a] + Load(sim.before, a)
      BY <1>3, <3>1, <3>2, <3>3, FundedIs
    <3> QED
      BY <3>2, <3>4 DEF Seen
  <2> QED
    BY <2>1, <2>2
<1>4. SimsOK'
  <2>1. ASSUME NEW s, NEW sim, RunningOK(s, sim) PROVE RunningOK(s, sim)'
    <3>1. ASSUME NEW a \in Accounts \ sim.left PROVE Seen(sim, a)'
      BY <1>3, <2>1, <3>1 DEF RunningOK
    <3>2. Covers(sim.before, sim.known)'
      BY <1>2, <2>1 DEF RunningOK, Covers
    <3> QED
      BY <2>1, <3>1, <3>2 DEF RunningOK
  <2>2. ASSUME NEW s, NEW sim, SimOK(s, sim) PROVE SimOK(s, sim)'
    BY <2>1, <2>2 DEF SimOK
  <2> QED
    BY <2>2 DEF SimInv, SimsOK, Slots, TxKeys
<1>5. Backed'
  <2>1. ASSUME NEW known, NEW a \in Accounts, BackedBy(known, a) PROVE BackedBy(known, a)'
    <3>1. CASE Missed(known, a)'
      BY <3>1 DEF BackedBy
    <3>2. CASE ~Missed(known, a)'
      <4>1. PICK q : Covers(q, known) /\ Load(q, a) <= chain.funds[a]
        BY <1>2, <2>1, <3>2 DEF BackedBy, Missed
      <4>2. PICK p : Covers(p, known)' /\ Load(p, a) + tx.takes[a] <= Load(q, a)
        BY <3>2, <4>1, LandCovers
      <4>3. Load(p, a) \in Nat /\ Load(q, a) \in Nat
        BY <4>1, <4>2, LoadNat DEF Covers
      <4>4. Load(p, a) <= chain'.funds[a]
        BY <4>1, <4>2, <4>3, FundedIs
      <4> QED
        BY <4>2, <4>4 DEF BackedBy
    <3> QED
      BY <3>1, <3>2
  <2> QED
    BY <2>1 DEF SimInv, Backed
<1>6. WinnersExecute'
  BY <1>2 DEF SimInv, WinnersExecute
<1> QED
  BY <1>1, <1>4, <1>5, <1>6 DEF SimInv

(* One that fails was not backed: another took from its account.              *)
LEMMA FailureExcused ==
  ASSUME SimInv, NEW tx \in chain.sent \ chain.landed, ~Affords(chain.funds, tx), basis[tx].sound
  PROVE  \E other \in chain.landed \ basis[tx].known :
           \E a \in Accounts : other.takes[a] > 0 /\ tx.takes[a] > 0
<1>1. tx \in DOMAIN basis /\ tx \in Txs
  BY DEF SimInv, TablesOfSim
<1>2. PICK a \in Accounts : ~(tx.takes[a] <= chain.funds[a])
  BY DEF Affords
<1>3. tx.takes[a] \in Nat /\ chain.funds[a] \in Nat
  BY <1>1, SimulatorAssumption DEF SimInv, TablesOfSim, Balances
<1>4. tx \in basis[tx].known /\ BackedBy(basis[tx].known, a)
  BY <1>1 DEF SimInv, Backed
<1>5. ASSUME NEW q, Covers(q, basis[tx].known), Load(q, a) <= chain.funds[a] PROVE FALSE
  <2>1. q \in Seq(Txs) /\ tx \in ToSet(q)
    BY <1>4, <1>5 DEF Covers
  <2>2. PICK p \in Seq(Txs) : Load(p, a) + tx.takes[a] <= Load(q, a)
    BY <2>1, LoadWithout
  <2>3. Load(p, a) \in Nat /\ Load(q, a) \in Nat
    BY <2>1, <2>2, LoadNat
  <2> QED
    BY <1>2, <1>3, <1>5, <2>2, <2>3
<1>6. Missed(basis[tx].known, a)
  BY <1>4, <1>5 DEF BackedBy
<1> QED
  BY <1>2, <1>3, <1>6 DEF Missed

(* What stands on the accounts stands while they and what has landed are      *)
(* unchanged.                                                                 *)
LEMMA ViewsSame ==
  ASSUME SimInv, UNCHANGED <<sims, pendingBids, basis>>,
         chain'.funds = chain.funds, chain'.landed = chain.landed
  PROVE  SimsOK' /\ Backed'
<1>1. \A known, a : Missed(known, a)' <=> Missed(known, a)
  BY DEF Missed
<1>2. \A txs, known : Covers(txs, known)' <=> Covers(txs, known)
  BY DEF Covers
<1>3. \A sim, a : Seen(sim, a)' <=> Seen(sim, a)
  BY <1>1, <1>2 DEF Seen
<1>4. \A known, a : BackedBy(known, a)' <=> BackedBy(known, a)
  BY <1>1, <1>2 DEF BackedBy
<1>5. \A s, sim : RunningOK(s, sim)' <=> RunningOK(s, sim)
  BY <1>2, <1>3 DEF RunningOK
<1>6. \A s, sim : SimOK(s, sim)' <=> SimOK(s, sim)
  BY <1>5 DEF SimOK
<1>7. SimsOK'
  BY <1>6 DEF SimInv, SimsOK
<1>8. Backed'
  BY <1>4 DEF SimInv, Backed
<1> QED
  BY <1>7, <1>8

LEMMA LandsKeep == ASSUME SimInv, NEW tx \in Txs, Lands(tx) PROVE SimInv'
<1>1. CASE Affords(chain.funds, tx)
  BY <1>1, LandsWell DEF Lands, Funded
<1>2. CASE ~Affords(chain.funds, tx)
  <2>1. /\ chain' = [chain EXCEPT !.failed = @ \cup {tx}] /\ tx \in chain.sent \ chain.landed
        /\ UNCHANGED <<pending, sims, pendingBids, due, basis>>
    BY <1>2 DEF Lands
  <2>2. /\ DOMAIN chain' = {"funds", "sent", "landed", "failed", "table"}
        /\ chain'.funds = chain.funds /\ chain'.sent = chain.sent /\ chain'.landed = chain.landed
        /\ chain'.failed = chain.failed \cup {tx}
    BY <2>1 DEF SimInv, TablesOfSim
  <2>3. TablesOfSim'
    BY <2>1, <2>2 DEF SimInv, TablesOfSim
  <2>4. SimsOK' /\ Backed'
    BY <2>1, <2>2, ViewsSame
  <2>5. WinnersExecute'
    BY <2>1, <2>2, <1>2, FailureExcused DEF SimInv, WinnersExecute
  <2> QED
    BY <2>3, <2>4, <2>5 DEF SimInv
<1> QED
  BY <1>1, <1>2
---------------------------------------------------------------------------
(* The winners are sent, and noted as pending until the chain tells of them or *)
(* they are too old.                                                          *)
LEMMA SendsKeep ==
  ASSUME SimInv, NEW key \in Slots, NEW tx \in Txs, SendTransactionToNetwork(key, tx)
  PROVE  SimInv'
<1> DEFINE sim == sims[key]
           new == [sim EXCEPT !.toSend = @ \ {tx}]
<1>1. /\ sim.pc = "send" /\ tx \in sim.toSend /\ chain' = [chain EXCEPT !.sent = @ \cup {tx}]
      /\ sims' = [sims EXCEPT ![key] = new] /\ UNCHANGED <<pending, pendingBids, due, basis>>
  BY DEF SendTransactionToNetwork
<1>2. /\ key # Verification /\ DOMAIN sim = {"pc", "toSend", "toNote"}
      /\ sim.toSend \cup sim.toNote \subseteq DOMAIN basis
  BY <1>1 DEF SimInv, SimsOK, SimOK, NoSim
<1>3. /\ DOMAIN chain' = {"funds", "sent", "landed", "failed", "table"}
      /\ chain'.funds = chain.funds /\ chain'.sent = chain.sent \cup {tx}
      /\ chain'.landed = chain.landed /\ chain'.failed = chain.failed
  BY <1>1 DEF SimInv, TablesOfSim
<1>4. TablesOfSim'
  BY <1>1, <1>2, <1>3 DEF SimInv, TablesOfSim
<1>5. DOMAIN new = {"pc", "toSend", "toNote"} /\ new.pc = "send" /\ new.toSend \cup new.toNote \subseteq DOMAIN basis
  <2> HIDE DEF sim
  <2> QED
    BY <1>1, <1>2
<1> HIDE DEF new
<1>6. SimOK(key, new)
  BY <1>2, <1>5 DEF SimOK
<1>7. ASSUME NEW s, NEW other, SimOK(s, other) PROVE SimOK(s, other)'
  BY <1>1, <1>3, <1>7 DEF SimOK, RunningOK, Seen, Missed, Covers
<1>8. SimsOK'
  <2>1. \A s \in Slots : SimOK(s, sims'[s])
    BY <1>1, <1>6 DEF SimInv, SimsOK
  <2> QED
    BY <1>1, <1>7, <2>1 DEF SimInv, SimsOK, Slots, TxKeys
<1>9. Backed' /\ WinnersExecute'
  BY <1>1, <1>3 DEF SimInv, Backed, BackedBy, Missed, Covers, WinnersExecute
<1> QED
  BY <1>4, <1>8, <1>9 DEF SimInv

LEMMA NotesKeep ==
  ASSUME SimInv, NEW key \in Slots, NEW tx \in Txs, AddPendingTransaction(key, tx)
  PROVE  SimInv'
<1> DEFINE sim == sims[key]
           entry == [tx |-> tx, old |-> FALSE]
           rest == [sim EXCEPT !.toNote = sim.toNote \ {tx}]
           new == IF sim.toNote \ {tx} = {} THEN NoSim ELSE rest
<1>1. /\ sim.pc = "send" /\ pending' = Append(pending, entry) /\ due' = due \cup {tx}
      /\ sims' = [sims EXCEPT ![key] = new] /\ UNCHANGED <<chain, pendingBids, basis>>
  BY DEF AddPendingTransaction, Noted
<1>2. /\ key # Verification /\ DOMAIN sim = {"pc", "toSend", "toNote"}
      /\ sim.toSend \cup sim.toNote \subseteq DOMAIN basis
  BY <1>1 DEF SimInv, SimsOK, SimOK, NoSim
<1>3. TablesOfSim'
  <2>1. pending \in Seq(Entry) /\ entry \in Entry
    BY DEF SimInv, TablesOfSim, Entry
  <2>2. entry.tx = tx /\ ~entry.old
    OBVIOUS
  <2> HIDE DEF entry
  <2>3. pending' \in Seq(Entry) /\ ToSet(pending') = ToSet(pending) \cup {entry}
    <3>1. /\ pending' \in Seq(Entry) /\ DOMAIN pending' = 1..(Len(pending) + 1)
          /\ pending'[Len(pending) + 1] = entry /\ Len(pending) \in Nat
          /\ DOMAIN pending = 1..Len(pending) /\ \A i \in 1..Len(pending) : pending'[i] = pending[i]
      BY <1>1, <2>1
    <3> QED
      BY <3>1 DEF ToSet
  <2> QED
    BY <1>1, <2>2, <2>3 DEF SimInv, TablesOfSim, Entry
<1>4. SimOK(key, new)
  <2>1. DOMAIN rest = {"pc", "toSend", "toNote"} /\ rest.pc = "send" /\ rest.toSend \cup rest.toNote \subseteq DOMAIN basis
    <3> HIDE DEF sim
    <3> QED
      BY <1>1, <1>2
  <2> HIDE DEF rest
  <2> QED
    BY <1>2, <2>1 DEF SimOK
<1> HIDE DEF new
<1> QED
  BY <1>1, <1>3, <1>4, SimGoesOn, WinnersSame DEF SimInv

LEMMA PendingKeeps ==
  ASSUME SimInv, (\E tx \in Txs : RemovePendingTransaction(tx)) \/ (\E i \in 1..Len(pending) : Outlives(i))
  PROVE  SimInv'
<1>1. UNCHANGED <<sims, pendingBids, chain, basis>>
  BY DEF RemovePendingTransaction, Outlives
<1>2. ASSUME NEW tx \in Txs, RemovePendingTransaction(tx)
      PROVE  pending' \in Seq(Entry) /\ due' \subseteq {entry.tx : entry \in {e \in ToSet(pending') : ~e.old}}
  <2> DEFINE S == {entry \in ToSet(pending) : entry.tx # tx}
  <2>1. pending' = Selected(pending, S) /\ due' = due \ {tx}
    BY <1>2 DEF RemovePendingTransaction
  <2>2. pending' \in Seq(Entry) /\ ToSet(pending') = S
    <3> HIDE DEF S
    <3> QED
      BY <2>1, PendingSelected DEF S
  <2> QED
    BY <2>1, <2>2 DEF SimInv, TablesOfSim
<1>3. ASSUME NEW i \in 1..Len(pending), Outlives(i)
      PROVE  pending' \in Seq(Entry) /\ due' \subseteq {entry.tx : entry \in {e \in ToSet(pending') : ~e.old}}
  <2>1. pending' = [pending EXCEPT ![i].old = TRUE] /\ due' = due \ {pending[i].tx}
    BY <1>3 DEF Outlives
  <2>2. pending \in Seq(Entry) /\ DOMAIN pending = 1..Len(pending) /\ Len(pending) \in Nat
        /\ \A j \in 1..Len(pending) : pending[j] \in Entry
    <3>1. pending \in Seq(Entry)
      BY DEF SimInv, TablesOfSim, Entry
    <3> QED
      BY <3>1
  <2>3. [pending[i] EXCEPT !.old = TRUE] \in Entry
    BY <2>2 DEF Entry
  <2>4. /\ DOMAIN pending' = 1..Len(pending) /\ Len(pending') = Len(pending) /\ pending' \in Seq(Entry)
        /\ \A j \in 1..Len(pending) : j # i => pending'[j] = pending[j]
    BY <2>1, <2>2, <2>3
  <2>5. ASSUME NEW x \in due'
        PROVE  \E e \in ToSet(pending') : ~e.old /\ e.tx = x
    <3>1. x \in due /\ x # pending[i].tx
      BY <2>1
    <3>2. PICK e \in ToSet(pending) : ~e.old /\ e.tx = x
      BY <3>1 DEF SimInv, TablesOfSim
    <3>3. PICK j \in 1..Len(pending) : pending[j] = e
      BY <2>2 DEF ToSet
    <3>4. j # i /\ pending'[j] = e
      BY <2>4, <3>1, <3>2, <3>3
    <3> QED
      BY <2>4, <3>2, <3>4 DEF ToSet
  <2> QED
    BY <2>4, <2>5
<1>4. TablesOfSim'
  <2>1. pending' \in Seq(Entry) /\ due' \subseteq {entry.tx : entry \in {e \in ToSet(pending') : ~e.old}}
    BY <1>2, <1>3
  <2> QED
    BY <1>1, <2>1 DEF SimInv, TablesOfSim, Entry
<1> QED
  BY <1>1, <1>4, SimsUntouched, WinnersSame DEF SimInv

LEMMA TableKeeps == ASSUME SimInv, CacheExpires \/ ExtendTable PROVE SimInv'
<1>1. UNCHANGED <<pending, sims, pendingBids, due, basis>>
  BY DEF CacheExpires, ExtendTable
<1>2. /\ DOMAIN chain' = {"funds", "sent", "landed", "failed", "table"}
      /\ chain'.funds = chain.funds /\ chain'.sent = chain.sent
      /\ chain'.landed = chain.landed /\ chain'.failed = chain.failed
  BY DEF CacheExpires, ExtendTable, SimInv, TablesOfSim
<1>3. TablesOfSim'
  BY <1>1, <1>2 DEF SimInv, TablesOfSim
<1>4. SimsOK' /\ Backed' /\ WinnersExecute'
  <2>1. SimsOK' /\ Backed'
    BY <1>1, <1>2, ViewsSame
  <2>2. WinnersExecute'
    BY <1>1, <1>2 DEF SimInv, WinnersExecute
  <2> QED
    BY <2>1, <2>2
<1> QED
  BY <1>3, <1>4 DEF SimInv

LEMMA StopKeeps == ASSUME SimInv, SimulatorStops PROVE SimInv'
<1>1. /\ pending' = <<>> /\ pendingBids' = {} /\ due' = {} /\ sims' = [s \in Slots |-> NoSim]
      /\ UNCHANGED <<chain, basis>>
  BY DEF SimulatorStops
<1>2. TablesOfSim'
  BY <1>1, FS_EmptySet DEF SimInv, TablesOfSim
<1>3. SimsOK'
  BY <1>1 DEF SimsOK, SimOK, Slots, TxKeys
<1> QED
  BY <1>1, <1>2, <1>3, WinnersSame DEF SimInv

LEMMA StepSim == ASSUME SimInv, SimulatorStep PROVE SimInv'
<1>1. CASE \E tx \in Txs : SimulateTransaction(tx) \/ RemovePendingTransaction(tx) \/ Lands(tx)
  BY <1>1, StartsKeep, PendingKeeps, LandsKeep
<1>2. CASE \E key \in TxKeys : OptimizeBids(key)
  BY <1>2, StartsKeep
<1>3. ASSUME NEW s \in Slots, SimulationRuns(s) PROVE SimInv'
  BY <1>3, FetchKeeps, VerifiedKeeps, WinnersKeep, SendsKeep, NotesKeep DEF SimulationRuns
<1>4. CASE \E s \in Slots : RpcFails(s)
  BY <1>4, RpcKeeps
<1>5. CASE \E i \in 1..Len(pending) : Outlives(i)
  BY <1>5, PendingKeeps
<1>6. CASE CacheExpires \/ ExtendTable
  BY <1>6, TableKeeps
<1> QED
  BY <1>1, <1>2, <1>3, <1>4, <1>5, <1>6 DEF SimulatorStep

LEMMA NextSim == SimInv /\ [Next]_vars => SimInv'
<1> SUFFICES ASSUME SimInv, [Next]_vars PROVE SimInv'
  OBVIOUS
<1>1. CASE UNCHANGED simVars
  <2>1. UNCHANGED <<pending, pendingBids, chain, due, basis, sims>>
    BY <1>1 DEF simVars
  <2> QED
    BY <2>1, SimsUntouched, WinnersSame DEF SimInv, TablesOfSim
<1>2. CASE SimulatorStep
  BY <1>2, StepSim
<1>3. CASE SimulatorStops
  BY <1>3, StopKeeps
<1>4. SimulatorStep \/ SimulatorStops \/ UNCHANGED simVars
  BY DEF Next, vars, OfServer, VerificationPanics, Completes, Crash, Down, StartsAgain, OfAccess, OfOpp, OfConn,
     OfHistory, OfTables, OfSimulator
<1> QED
  BY <1>1, <1>2, <1>3, <1>4

(* The winners of auctions that share a simulator: each is in its basis, and  *)
(* what it takes is in the accounts.                                          *)
LEMMA SpecSim == Spec => []SimInv
  BY InitSim, NextSim, PTL DEF Spec

(* A winner fails on the chain, for what it takes, only when its simulation    *)
(* had no way to know: accounts are fetched one by one while the auctions of   *)
(* other keys send and the chain goes on, and a pending transaction that has   *)
(* landed already is subtracted twice, never not at all.                       *)
THEOREM SimulatedWinnersExecute == Spec => []WinnersExecute
<1>1. SimInv => WinnersExecute
  BY DEF SimInv
<1> QED
  BY <1>1, SpecSim, PTL
=============================================================================
