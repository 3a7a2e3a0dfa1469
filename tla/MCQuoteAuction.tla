---------------------------- MODULE MCQuoteAuction ----------------------------
EXTENDS QuoteAuction, TLC

\* All bids and quotes are for one permission key.
OneKey == [b \in Bids |-> CHOOSE k \in PermissionKeys : TRUE]
OneWanted == [q \in Quoters |-> CHOOSE k \in PermissionKeys : TRUE]

QuoteHandlers == Quoters \cup Submitters \cup {Background}
QuoteClients ==
  QuoteHandlers \cup {Loop(a) : a \in Auctions} \cup {LogTask(b) : b \in Bids}

\* With one key, everything but the two kinds of clients' tags is symmetric.
QuoteSymmetry ==
  Permutations(Bids) \cup Permutations(Auctions) \cup Permutations(Submitters)
    \cup Permutations(Quoters) \cup Permutations(Locks)
=============================================================================
