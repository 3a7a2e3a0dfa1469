------------------------------ MODULE BidStatus ------------------------------
(***************************************************************************)
(* The life of a bid, as the auction server records it: the statuses of    *)
(* BidStatusSvm and the guarded SQL updates that move a row of the bid     *)
(* table between them.  A SubmissionFailed status counts as two, one per   *)
(* reason, because its reasons are guarded differently.                    *)
(***************************************************************************)
EXTENDS Integers

\* What a bid can be.
Statuses ==
  { "Pending", "AwaitingSignature", "SentToUser", "Submitted",
    "Lost", "Won", "Failed", "Expired", "Cancelled",
    "SubmissionFailedCancelled", "SubmissionFailedDeadline" }

\* What the row of a bid can show: "Absent" until the bid is inserted.
RowStatuses == Statuses \cup {"Absent"}

\* Fault for CanUpdate: an update without its WHERE clause on the status.
CanUpdateAlways(from, to) == from # "Absent"

\* The WHERE clause of the update to status `to`: the statuses a row may have
\* for the update to change it.  No update leads to Pending.
CanUpdate(from, to) ==
  \/ /\ to \in {"AwaitingSignature", "SentToUser", "Lost"}
     /\ from = "Pending"
  \/ /\ to = "Submitted"
     /\ from \in {"Pending", "AwaitingSignature", "SentToUser"}
  \/ /\ to \in {"Won", "Failed"}
     /\ from \in {"Submitted", "SentToUser"}
  \/ /\ to = "Expired"
     /\ from \in {"Pending", "Submitted", "AwaitingSignature", "SentToUser"}
  \/ /\ to = "Cancelled"
     /\ from = "AwaitingSignature"
  \/ /\ to = "SubmissionFailedCancelled"
     /\ from = "Cancelled"
  \/ /\ to = "SubmissionFailedDeadline"
     /\ from \in {"AwaitingSignature", "SentToUser", "Cancelled"}

\* Fault for SetsAuction: the update to Submitted does not write it either.
SetsAuctionEarly(to, auction, none) ==
  auction # none /\ to \notin {"Won", "Failed", "Submitted"}

\* The updates that write the auction_id column of the row.
SetsAuction(to, auction, none) ==
  /\ auction # none
  /\ to \notin {"Won", "Failed"}

\* A concluded bid is no longer polled for, and an auction is over when all of
\* its bids are concluded.
IsConcluded(s) ==
  s \in { "Lost", "Won", "Failed", "Expired", "Cancelled",
          "SubmissionFailedCancelled", "SubmissionFailedDeadline" }

-----------------------------------------------------------------------------
\* How far a bid has come: not yet inserted, open, offered to a user, sent or
\* withdrawn, closed.
Rank(s) ==
  CASE s = "Absent"                              -> 0
    [] s = "Pending"                             -> 1
    [] s \in {"AwaitingSignature", "SentToUser"} -> 2
    [] s \in {"Submitted", "Cancelled"}          -> 3
    [] OTHER                                     -> 4

\* s is what a copy of the row shows when the row itself shows t: the same
\* status, or one of an earlier phase.
Behind(s, t) == s = t \/ Rank(s) < Rank(t)
=============================================================================
