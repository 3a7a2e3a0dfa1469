---------------------------- MODULE LockMapProofs ----------------------------
(***************************************************************************)
(* Mutual exclusion of the recycled locks, for every number of keys, users *)
(* and mutexes and with any set of users whose futures may be dropped.     *)
(***************************************************************************)
EXTENDS LockMap, TLAPS

\* MutualExclusion alone is not inductive: a newcomer must find the mutex that
\* those who wait or work refer to.
LockInv ==
  /\ LockTypeOK
  /\ RefsFollowSteps
  /\ SameMutex

LEMMA LockInitInv == LockInit => LockInv
  BY LockMapAssumption DEF LockInit, LockInv, LockTypeOK, RefsFollowSteps, SameMutex

\* Every step of a user, and every step that changes nothing, keeps the
\* invariant.
LEMMA LockNextInv == LockInv /\ [LockNext]_lockVars => LockInv'
<1> SUFFICES ASSUME LockInv, [LockNext]_lockVars
             PROVE  LockInv'
  OBVIOUS
<1> USE LockMapAssumption
<1>1. ASSUME NEW u \in Users, NEW k \in Keys, GetOrCreate(u, k)
      PROVE  LockInv'
  <2>1. PICK l \in Locks :
          /\ IF lockMap[k] = NoLock THEN Unallocated(l) ELSE l = lockMap[k]
          /\ lockMap' = [lockMap EXCEPT ![k] = l]
          /\ lockRef' = [lockRef EXCEPT ![u] = l]
    BY <1>1 DEF GetOrCreate
  <2>2. LockTypeOK'
    BY <1>1, <2>1 DEF GetOrCreate, LockInv, LockTypeOK
  <2>3. RefsFollowSteps'
    BY <1>1, <2>1 DEF GetOrCreate, LockInv, LockTypeOK, RefsFollowSteps
  <2>4. SameMutex'
    BY <1>1, <2>1 DEF GetOrCreate, LockInv, LockTypeOK, RefsFollowSteps, SameMutex
  <2>. QED
    BY <2>2, <2>3, <2>4 DEF LockInv
<1>2. ASSUME NEW u \in Users, Acquire(u)
      PROVE  LockInv'
  BY <1>2 DEF Acquire, LockInv, LockTypeOK, RefsFollowSteps, SameMutex
<1>3. ASSUME NEW u \in Users, Leave(u)
      PROVE  LockInv'
  BY <1>3 DEF Leave, LockInv, LockTypeOK, RefsFollowSteps, SameMutex
<1>4. ASSUME NEW u \in Users, Remove(u)
      PROVE  LockInv'
  BY <1>4 DEF Remove, OnlyMapRefers, LockInv, LockTypeOK, RefsFollowSteps, SameMutex
<1>5. ASSUME NEW u \in Users, Abandon(u)
      PROVE  LockInv'
  BY <1>5 DEF Abandon, LockInv, LockTypeOK, RefsFollowSteps, SameMutex
<1>6. CASE UNCHANGED lockVars
  BY <1>6 DEF lockVars, LockInv, LockTypeOK, RefsFollowSteps, SameMutex
<1>. QED
  BY <1>1, <1>2, <1>3, <1>4, <1>5, <1>6 DEF LockNext

\* Who waits for a key or works on it holds the mutex that the map gives for
\* the key, and who works owns it.
THEOREM LockInvariant == LockSafeSpec => []LockInv
  BY LockInitInv, LockNextInv, PTL DEF LockSafeSpec

\* The map, the references and the owners of the mutexes stay of their types,
\* whichever futures are dropped.
THEOREM LockTypes == LockSafeSpec => []LockTypeOK
<1>1. LockInv => LockTypeOK
  BY DEF LockInv
<1>. QED
  BY <1>1, LockInvariant, PTL

\* The mutex of a key may be dropped and made anew, but never while a handler
\* waits for it or works: all of them refer to one and the same.
THEOREM LockSameMutex == LockSafeSpec => []SameMutex
<1>1. LockInv => SameMutex
  BY DEF LockInv
<1>. QED
  BY <1>1, LockInvariant, PTL

\* Two critical sections of one key would own one mutex, the one in the map.
LEMMA InvExcludes == LockInv => MutualExclusion
  BY DEF LockInv, LockTypeOK, RefsFollowSteps, SameMutex, MutualExclusion

\* Mutual exclusion per key although mutexes come and go: no two handle_auction
\* tasks work on one permission key at once, and no cancellation runs between
\* the status check of a submission and its sending.
THEOREM LockMutualExclusion == LockSafeSpec => []MutualExclusion
  BY LockInvariant, InvExcludes, PTL

-----------------------------------------------------------------------------
\* No entry is left behind when no future is dropped half way.  Whoever finds
\* that the mutex of its key is still referred to must know that it is somebody
\* of the same key who refers to it: no two keys share a mutex.
OwnMutex ==
  \A j, k \in Keys : lockMap[j] # NoLock /\ lockMap[j] = lockMap[k] => j = k

LeakFree == OwnMutex /\ NoLeakedEntry

LEMMA LeakFreeInit == LockInit => LeakFree
  BY DEF LockInit, LeakFree, OwnMutex, NoLeakedEntry

LEMMA LeakFreeNext ==
  ASSUME Droppable = {}, LockInv, LeakFree, [LockNext]_lockVars
  PROVE  LeakFree'
<1> USE LockMapAssumption DEF LockInv, LockTypeOK, RefsFollowSteps, LeakFree
<1>1. ASSUME NEW u \in Users, NEW k \in Keys, GetOrCreate(u, k)
      PROVE  LeakFree'
  <2>1. PICK l \in Locks :
          /\ IF lockMap[k] = NoLock THEN Unallocated(l) ELSE l = lockMap[k]
          /\ lockMap' = [lockMap EXCEPT ![k] = l]
    BY <1>1 DEF GetOrCreate
  <2>2. OwnMutex'
    BY <2>1 DEF Unallocated, OwnMutex
  <2>3. NoLeakedEntry'
    BY <1>1, <2>1 DEF GetOrCreate, NoLeakedEntry
  <2>. QED
    BY <2>2, <2>3
<1>2. ASSUME NEW u \in Users, Acquire(u) \/ Leave(u)
      PROVE  LeakFree'
  <2>1. OwnMutex'
    BY <1>2 DEF Acquire, Leave, OwnMutex
  <2>2. NoLeakedEntry'
    BY <1>2 DEF Acquire, Leave, NoLeakedEntry
  <2>. QED
    BY <2>1, <2>2
<1>3. ASSUME NEW u \in Users, Remove(u)
      PROVE  LeakFree'
  <2>1. OwnMutex'
    BY <1>3 DEF Remove, OwnMutex
  <2>2. ASSUME NEW k \in Keys, lockMap'[k] # NoLock
        PROVE  \E v \in Users : lockStep'[v] # "idle" /\ lockKey'[v] = k
    <3>1. lockMap[k] # NoLock /\ lockMap'[k] = lockMap[k]
      BY <1>3, <2>2 DEF Remove
    <3>2. PICK v \in Users : lockStep[v] # "idle" /\ lockKey[v] = k
      BY <3>1 DEF NoLeakedEntry
    <3>3. CASE v # u
      BY <1>3, <3>2, <3>3 DEF Remove
    <3>4. CASE v = u
      <4>1. lockStep[u] = "leaving" /\ lockKey[u] = k /\ ~OnlyMapRefers(k)
        BY <1>3, <2>2, <3>1, <3>2, <3>4 DEF Remove
      <4>2. PICK w \in Users : lockRef[w] = lockMap[k]
        BY <4>1 DEF OnlyMapRefers
      <4>3. lockStep[w] \in {"wait", "critical"} /\ lockMap[lockKey[w]] = lockMap[k]
        BY <3>1, <4>2 DEF SameMutex
      <4>4. lockKey[w] = k /\ w # u
        BY <3>1, <4>1, <4>3 DEF OwnMutex
      <4>. QED
        BY <1>3, <4>3, <4>4 DEF Remove
    <3>. QED
      BY <3>3, <3>4
  <2>. QED
    BY <2>1, <2>2 DEF NoLeakedEntry
<1>4. ASSUME NEW u \in Users, Abandon(u)
      PROVE  FALSE
  BY <1>4 DEF Abandon
<1>5. CASE UNCHANGED lockVars
  BY <1>5 DEF lockVars, OwnMutex, NoLeakedEntry
<1>. QED
  BY <1>1, <1>2, <1>3, <1>4, <1>5 DEF LockNext

\* Where no caller may be dropped, as in the spawned handlers, every entry of
\* the map is in use by somebody who is still going to try to remove it,
\* however many handlers come and go at a time.
THEOREM LockNoLeakedEntry ==
  ASSUME Droppable = {}
  PROVE  LockSafeSpec => []NoLeakedEntry
<1>1. LockInv /\ LeakFree /\ [LockNext]_lockVars => LeakFree'
  BY LeakFreeNext
<1>2. LeakFree => NoLeakedEntry
  BY DEF LeakFree
<1>. QED
  BY <1>1, <1>2, LeakFreeInit, LockInvariant, PTL DEF LockSafeSpec

=============================================================================
