------------------------------- MODULE Access -------------------------------
(* Profiles' access tokens and privileges: rows in the database and the copies *)
(* in memory that every request is authenticated with.                         *)
EXTENDS Server, Functions

CONSTANTS
  Profiles, Tokens,
  Admins,        \* requests of the profile API in flight
  InitialTokens, \* rows of earlier runs: token |-> [owner, revoked]
  NoToken        \* a request without an Authorization header

ASSUME InitialTokensAssumption ==
  /\ DOMAIN InitialTokens \subseteq Tokens
  /\ \A t \in DOMAIN InitialTokens : InitialTokens[t] \in [owner : Profiles, revoked : BOOLEAN]

VARIABLES
  profileRows,   \* profile: the profiles, by their unique email
  tokenRows,     \* access_token: token |-> [owner, revoked]
  tokens,        \* Store.access_tokens: token |-> profile
  privilegeRows, \* privilege: the states of a profile's feature by created_at
  privileges,    \* Store.privileges: profile |-> [state, created]
  access,        \* the requests in flight
  unsettled      \* history: tokens and profiles whose copy was left behind

accessVars == <<profileRows, tokenRows, tokens, privilegeRows, privileges, access, unsettled>>

States == {"enabled", "disabled"}
NoAccess == [pc |-> "idle"]

Active(p) == {t \in DOMAIN tokenRows : tokenRows[t] = [owner |-> p, revoked |-> FALSE]}

(* Mutant: the revoked tokens as well.                                        *)
LoadAllTokens(rows) == [t \in DOMAIN rows |-> rows[t].owner]

(* What a start reads back: the tokens not revoked, the newest privileges.    *)
LoadTokens(rows) == [t \in {u \in DOMAIN rows : ~rows[u].revoked} |-> rows[t].owner]
LoadPrivileges(rows) ==
  [p \in {q \in Profiles : rows[q] # <<>>} |->
     [state |-> rows[p][Len(rows[p])], created |-> Len(rows[p])]]

AccessTypeOK ==
  /\ profileRows \subseteq Profiles /\ DOMAIN tokenRows \subseteq Tokens
  /\ \A t \in DOMAIN tokenRows : tokenRows[t] \in [owner : profileRows, revoked : BOOLEAN]
  /\ \A t \in DOMAIN tokens : t \in Tokens /\ tokens[t] \in Profiles
  /\ privilegeRows \in [Profiles -> Seq(States)]
  /\ \A p \in DOMAIN privileges : p \in Profiles /\ privileges[p].state \in States

AccessInit ==
  /\ profileRows = {InitialTokens[t].owner : t \in DOMAIN InitialTokens}
  /\ tokenRows = InitialTokens
  /\ tokens = LoadTokens(InitialTokens)
  /\ privilegeRows = [p \in Profiles |-> <<>>]
  /\ privileges = <<>>
  /\ access = [a \in Admins |-> NoAccess]
  /\ unsettled = {}

(* Auth of a request: the admin secret is left out, it has no profile.        *)
GetProfileByToken(t) == IF t \in DOMAIN tokens THEN {tokens[t]} ELSE {}
Accepted(t) == t = NoToken \/ GetProfileByToken(t) # {}
HasPrivilege(p) == p \in DOMAIN privileges => privileges[p].state = "enabled"

(* Tokens that are revoked while another request is about to cache them.      *)
Overtaken(acc) ==
  {t \in Tokens : \E a, b \in Admins :
     /\ acc[a].pc = "cache" /\ acc[a].token = t
     /\ acc[b].pc \in {"revokeRow", "drop"} /\ acc[b].token = t}

Continue(a, next) ==
  /\ access' = [access EXCEPT ![a] = next]
  /\ unsettled' = unsettled \cup Overtaken(access')

(* create_profile: one profile for an email.                                  *)
CreateProfile(p) ==
  /\ Serving /\ Spend("profiles") /\ p \notin profileRows
  /\ profileRows' = profileRows \cup {p}
  /\ UNCHANGED <<tokenRows, tokens, privilegeRows, privileges, access, unsettled>>

(* get_or_create_access_token.  The INSERT inserts when its snapshot shows no *)
(* active token of the profile: two of them can both insert.                  *)
Grant(a, p) ==
  /\ Serving /\ access[a] = NoAccess /\ Spend("grants")
  /\ p \in profileRows
  /\ Continue(a, [pc |-> IF Active(p) = {} THEN "insert" ELSE "read", profile |-> p])
  /\ UNCHANGED <<profileRows, tokenRows, tokens, privilegeRows, privileges>>

InsertToken(a) ==
  /\ access[a].pc = "insert"
  /\ Tokens \ DOMAIN tokenRows # {}
  /\ LET t == CHOOSE new \in Tokens : new \notin DOMAIN tokenRows IN
       tokenRows' = Put(tokenRows, t, [owner |-> access[a].profile, revoked |-> FALSE])
  /\ Continue(a, [access[a] EXCEPT !.pc = "read"])
  /\ UNCHANGED <<profileRows, tokens, privilegeRows, privileges, budget>>

(* The SELECT takes any active token, and fails when there is none any more.  *)
ReadToken(a) ==
  /\ access[a].pc = "read"
  /\ \/ \E t \in Active(access[a].profile) :
          Continue(a, [pc |-> "cache", profile |-> access[a].profile, token |-> t])
     \/ Active(access[a].profile) = {} /\ Continue(a, NoAccess)
  /\ UNCHANGED <<profileRows, tokenRows, tokens, privilegeRows, privileges, budget>>

CacheToken(a) ==
  /\ access[a].pc = "cache"
  /\ tokens' = Put(tokens, access[a].token, access[a].profile)
  /\ Continue(a, NoAccess)
  /\ UNCHANGED <<profileRows, tokenRows, privilegeRows, privileges, budget>>

(* require_login_middleware: requests with a profile's token only.            *)
LoggedIn(t) == GetProfileByToken(t) # {}

(* revoke_access_token, by a request that is authorized with the token.       *)
Revoke(a, t) ==
  /\ Serving /\ access[a] = NoAccess /\ Spend("revokes")
  /\ LoggedIn(t)
  /\ Continue(a, [pc |-> "revokeRow", token |-> t])
  /\ UNCHANGED <<profileRows, tokenRows, tokens, privilegeRows, privileges>>

RevokeRow(a) ==
  /\ access[a].pc = "revokeRow"
  /\ tokenRows' = [tokenRows EXCEPT ![access[a].token].revoked = TRUE]
  /\ Continue(a, [access[a] EXCEPT !.pc = "drop"])
  /\ UNCHANGED <<profileRows, tokens, privilegeRows, privileges, budget>>

DropToken(a) ==
  /\ access[a].pc = "drop"
  /\ tokens' = Restrict(tokens, DOMAIN tokens \ {access[a].token})
  /\ Continue(a, NoAccess)
  /\ UNCHANGED <<profileRows, tokenRows, privilegeRows, privileges, budget>>

(* create_privilege: a new row, then memory.                                  *)
CreatePrivilege(a, p, state) ==
  /\ Serving /\ access[a] = NoAccess /\ Spend("privileges")
  /\ p \in profileRows
  /\ privilegeRows' = [privilegeRows EXCEPT ![p] = Append(@, state)]
  /\ Continue(a, [pc |-> "cachePrivilege", profile |-> p,
                  privilege |-> [state |-> state, created |-> Len(privilegeRows[p]) + 1]])
  /\ UNCHANGED <<profileRows, tokenRows, tokens, privileges>>

(* Mutant: the last request to reach memory wins.                             *)
AlwaysNewer(p, privilege) == TRUE

(* Two requests can reach memory in the other order than the table.           *)
Newer(p, privilege) == p \in DOMAIN privileges => privileges[p].created < privilege.created

UpdateInMemoryPrivilege(a) ==
  /\ access[a].pc = "cachePrivilege"
  /\ LET p == access[a].profile IN
       privileges' = IF Newer(p, access[a].privilege)
                     THEN Put(privileges, p, access[a].privilege) ELSE privileges
  /\ Continue(a, NoAccess)
  /\ UNCHANGED <<profileRows, tokenRows, tokens, privilegeRows, budget>>

(* A query fails, or the client goes away and the request is dropped where it *)
(* waits for the database or a lock: the table can be changed and memory not. *)
AccessRequestDropped(a) ==
  /\ access[a].pc \in {"insert", "read", "cache", "revokeRow", "drop", "cachePrivilege"}
  /\ Spend("faults")
  /\ access' = [access EXCEPT ![a] = NoAccess]
  /\ unsettled' = unsettled \cup
       (IF access[a].pc = "drop" THEN {access[a].token} ELSE {}) \cup
       (IF access[a].pc = "cachePrivilege" THEN {access[a].profile} ELSE {})
  /\ UNCHANGED <<profileRows, tokenRows, tokens, privilegeRows, privileges>>

(* Which of the free places a request takes makes no difference.              *)
Free(function, idle) ==
  LET free == {x \in DOMAIN function : function[x] = idle} IN
  IF free = {} THEN {} ELSE {CHOOSE x \in free : TRUE}

AccessStep ==
  \/ \E p \in Profiles : CreateProfile(p)
  \/ \E a \in Free(access, NoAccess) :
       \/ \E p \in Profiles : Grant(a, p) \/ \E s \in States : CreatePrivilege(a, p, s)
       \/ \E t \in DOMAIN tokens : Revoke(a, t)
  \/ \E a \in Admins :
    \/ InsertToken(a) \/ ReadToken(a) \/ CacheToken(a)
    \/ RevokeRow(a) \/ DropToken(a)
    \/ UpdateInMemoryPrivilege(a) \/ AccessRequestDropped(a)

(* A start reads the tables; what was in flight is gone.                      *)
AccessStarts ==
  /\ tokens' = LoadTokens(tokenRows)
  /\ privileges' = LoadPrivileges(privilegeRows)
  /\ access' = [a \in Admins |-> NoAccess]
  /\ unsettled' = {}
  /\ UNCHANGED <<profileRows, tokenRows, privilegeRows>>
=============================================================================
