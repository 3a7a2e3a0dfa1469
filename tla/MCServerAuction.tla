--------------------------- MODULE MCServerAuction ---------------------------
EXTENDS ServerAuction, TLC

\* All bids are for one permission key.
OneKey == [b \in Bids |-> CHOOSE k \in PermissionKeys : TRUE]

ServerClients == Tasks \cup {Loop(a) : a \in Auctions} \cup {LogTask(b) : b \in Bids}

\* With one key, everything but the two kinds of clients' tags is symmetric.
ServerSymmetry ==
  Permutations(Bids) \cup Permutations(Auctions) \cup Permutations(Tasks) \cup Permutations(Locks)
=============================================================================
