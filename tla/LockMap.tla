------------------------------- MODULE LockMap -------------------------------
(***************************************************************************)
(* The maps of mutexes the auction server keeps in memory: one mutex per   *)
(* permission key (auction_lock) and one per bid (bid_lock).  A mutex is   *)
(* created when somebody first asks for the key and dropped from the map   *)
(* when the map holds the last reference to it, so that the same key is    *)
(* guarded by different mutex objects over time.  What must not happen is  *)
(* that two of them guard the same key at once.                            *)
(***************************************************************************)
EXTENDS Integers, FiniteSets

CONSTANTS
  Keys,       \* what is locked: permission keys or bids
  Users,      \* the tasks and requests that take locks
  Locks,      \* the mutex objects (Arc<Mutex<()>>) that can be allocated
  Droppable,  \* the users whose future is dropped when their caller goes away
  NoLock, NoUser, NoKey

ASSUME LockMapAssumption ==
  /\ NoLock \notin Locks
  /\ NoUser \notin Users
  /\ NoKey \notin Keys
  /\ Droppable \subseteq Users

VARIABLES
  lockMap,    \* the HashMap: the mutex stored for each key, or NoLock
  lockRef,    \* the Arc a user holds, or NoLock
  lockOwner,  \* the user that holds the guard of each mutex, or NoUser
  lockKey,    \* the key a user is working on
  lockStep    \* where a user stands: idle, wait, critical or leaving

lockVars == <<lockMap, lockRef, lockOwner, lockKey, lockStep>>

-----------------------------------------------------------------------------
\* Nothing refers to mutex l: it does not exist yet, or not any more.
Unallocated(l) ==
  /\ \A k \in Keys : lockMap[k] # l
  /\ \A u \in Users : lockRef[u] # l
  /\ lockOwner[l] = NoUser

\* Faults for OnlyMapRefers: the count is not looked at; the caller still holds
\* its own Arc when it looks, so that the count is never 1.
CountIgnored(k) == TRUE
CountOffByOne(k) == FALSE

\* Arc::strong_count of the mutex stored for k is 1: only the map refers to it.
OnlyMapRefers(k) == \A u \in Users : lockRef[u] # lockMap[k]

LockInit ==
  /\ lockMap = [k \in Keys |-> NoLock]
  /\ lockRef = [u \in Users |-> NoLock]
  /\ lockOwner = [l \in Locks |-> NoUser]
  /\ lockKey = [u \in Users |-> NoKey]
  /\ lockStep = [u \in Users |-> "idle"]

\* get_or_create_in_memory_{auction,bid}_lock: the entry of k, created when it
\* is vacant, and a reference to it.
GetOrCreate(u, k) ==
  /\ lockStep[u] = "idle"
  /\ \E l \in Locks :
       /\ IF lockMap[k] = NoLock THEN Unallocated(l) ELSE l = lockMap[k]
       /\ lockMap' = [lockMap EXCEPT ![k] = l]
       /\ lockRef' = [lockRef EXCEPT ![u] = l]
  /\ lockKey' = [lockKey EXCEPT ![u] = k]
  /\ lockStep' = [lockStep EXCEPT ![u] = "wait"]
  /\ UNCHANGED lockOwner

\* lock.lock().await
Acquire(u) ==
  /\ lockStep[u] = "wait"
  /\ lockOwner[lockRef[u]] = NoUser
  /\ lockOwner' = [lockOwner EXCEPT ![lockRef[u]] = u]
  /\ lockStep' = [lockStep EXCEPT ![u] = "critical"]
  /\ UNCHANGED <<lockMap, lockRef, lockKey>>

\* Fault for Leave: the guard outlives the function.
LeaveLocked(u) ==
  /\ lockStep[u] = "critical"
  /\ lockRef' = [lockRef EXCEPT ![u] = NoLock]
  /\ lockStep' = [lockStep EXCEPT ![u] = "leaving"]
  /\ UNCHANGED <<lockMap, lockOwner, lockKey>>

\* The end of the *_for_lock function: its guard and its Arc are dropped.
Leave(u) ==
  /\ lockStep[u] = "critical"
  /\ lockOwner' = [lockOwner EXCEPT ![lockRef[u]] = NoUser]
  /\ lockRef' = [lockRef EXCEPT ![u] = NoLock]
  /\ lockStep' = [lockStep EXCEPT ![u] = "leaving"]
  /\ UNCHANGED <<lockMap, lockKey>>

\* remove_in_memory_{auction,bid}_lock: the entry goes away unless another user
\* borrows it.
Remove(u) ==
  /\ lockStep[u] = "leaving"
  /\ lockMap' = IF lockMap[lockKey[u]] # NoLock /\ OnlyMapRefers(lockKey[u])
                  THEN [lockMap EXCEPT ![lockKey[u]] = NoLock]
                  ELSE lockMap
  /\ lockKey' = [lockKey EXCEPT ![u] = NoKey]
  /\ lockStep' = [lockStep EXCEPT ![u] = "idle"]
  /\ UNCHANGED <<lockRef, lockOwner>>

\* The caller of a request disconnects and its future is dropped at an await:
\* the guard and the Arc are released and remove_in_memory_bid_lock never runs.
Abandon(u) ==
  /\ u \in Droppable
  /\ lockStep[u] # "idle"
  /\ lockOwner' = [l \in Locks |-> IF lockOwner[l] = u THEN NoUser ELSE lockOwner[l]]
  /\ lockRef' = [lockRef EXCEPT ![u] = NoLock]
  /\ lockKey' = [lockKey EXCEPT ![u] = NoKey]
  /\ lockStep' = [lockStep EXCEPT ![u] = "idle"]
  /\ UNCHANGED lockMap

LockNext ==
  \E u \in Users :
    \/ \E k \in Keys : GetOrCreate(u, k)
    \/ Acquire(u)
    \/ Leave(u)
    \/ Remove(u)
    \/ Abandon(u)

LockSafeSpec == LockInit /\ [][LockNext]_lockVars

\* A tokio mutex is fair (its waiters queue), and a user that holds the guard
\* runs to the end of its critical section.
LockFairness ==
  \A u \in Users :
    /\ SF_lockVars(Acquire(u))
    /\ WF_lockVars(Leave(u))
    /\ WF_lockVars(Remove(u))

LockSpec == LockSafeSpec /\ LockFairness

-----------------------------------------------------------------------------
LockTypeOK ==
  /\ lockMap \in [Keys -> Locks \cup {NoLock}]
  /\ lockRef \in [Users -> Locks \cup {NoLock}]
  /\ lockOwner \in [Locks -> Users \cup {NoUser}]
  /\ lockKey \in [Users -> Keys \cup {NoKey}]
  /\ lockStep \in [Users -> {"idle", "wait", "critical", "leaving"}]

\* Two tasks never run the critical section of the same key at the same time,
\* although the mutex of the key is recycled.  It is what keeps a bid out of
\* two auctions of handle_auction, and a cancellation out of a submission.
MutualExclusion ==
  \A u, v \in Users :
    (lockStep[u] = "critical" /\ lockStep[v] = "critical" /\ lockKey[u] = lockKey[v])
      => u = v

\* Whoever waits for a key or works on it refers to the mutex in the map: a
\* newcomer to the key cannot be given another one.
SameMutex ==
  \A u \in Users :
    lockStep[u] \in {"wait", "critical"} =>
      /\ lockRef[u] # NoLock
      /\ lockMap[lockKey[u]] = lockRef[u]

\* A reference is held while waiting and working, and at no other time; who
\* works owns the guard.
RefsFollowSteps ==
  \A u \in Users :
    /\ (lockRef[u] # NoLock) = (lockStep[u] \in {"wait", "critical"})
    /\ (lockStep[u] # "idle") => lockKey[u] \in Keys
    /\ lockStep[u] = "critical" => lockOwner[lockRef[u]] = u

\* The map does not grow: every entry is in use by somebody who is still going
\* to try to remove it.  It holds where no future is dropped half way.
NoLeakedEntry ==
  \A k \in Keys : lockMap[k] # NoLock =>
    \E u \in Users : lockStep[u] # "idle" /\ lockKey[u] = k

\* A task that waits for a lock gets it (or its caller leaves).
WaiterServed ==
  \A u \in Users : (lockStep[u] = "wait") ~> (lockStep[u] # "wait")
=============================================================================
