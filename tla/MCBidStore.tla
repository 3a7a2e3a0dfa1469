------------------------------ MODULE MCBidStore ------------------------------
EXTENDS BidStore, TLC

\* Auction ids and clients are interchangeable in every safety property.
StoreSymmetry == Permutations(Auctions) \cup Permutations(Clients) \cup Permutations(Bids)
=============================================================================
