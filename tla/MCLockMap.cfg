SPECIFICATION LockSpec
CONSTANTS
  Keys = {k1, k2}
  Users = {u1, u2, u3}
  Locks = {l1, l2, l3}
  Droppable = {u1, u2}
  NoLock = NoLock
  NoUser = NoUser
  NoKey = NoKey
INVARIANT MutualExclusion
PROPERTY WaiterServed
