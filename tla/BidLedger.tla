------------------------------ MODULE BidLedger ------------------------------
(***************************************************************************)
(* What the auction server promises about a bid, whatever goes on inside:  *)
(* its recorded status only moves forward through the phases of its life,  *)
(* a bid wins or fails only after it was handed out or sent, a closed bid  *)
(* stays closed, and every status is announced to the subscribers at most  *)
(* once and only after it was recorded.                                    *)
(***************************************************************************)
EXTENDS BidStatus

CONSTANT Bids

VARIABLES
  status,   \* the recorded status of each bid
  owed,     \* the statuses recorded and not announced yet
  told      \* the statuses announced

ledgerVars == <<status, owed, told>>

LedgerInit ==
  /\ status = [b \in Bids |-> "Absent"]
  /\ owed = {}
  /\ told = {}

\* A new bid is recorded as Pending; nobody is told.
Place(b) ==
  /\ status[b] = "Absent"
  /\ status' = [status EXCEPT ![b] = "Pending"]
  /\ UNCHANGED <<owed, told>>

\* The bid enters a later phase of its life.
Forward(b, s) ==
  /\ status[b] # "Absent"
  /\ Rank(status[b]) < Rank(s)
  /\ s \in {"Won", "Failed"} => status[b] \in {"SentToUser", "Submitted"}
  /\ status' = [status EXCEPT ![b] = s]

\* A status is recorded, to be announced.
Record(b, s) ==
  /\ Forward(b, s)
  /\ owed' = owed \cup {<<b, s>>}
  /\ UNCHANGED told

\* A status is recorded and whoever recorded it does not live to announce it.
RecordSilently(b, s) ==
  /\ Forward(b, s)
  /\ UNCHANGED <<owed, told>>

\* A recorded status is announced, once.
Tell(b, s) ==
  /\ <<b, s>> \in owed
  /\ <<b, s>> \notin told
  /\ owed' = owed \ {<<b, s>>}
  /\ told' = told \cup {<<b, s>>}
  /\ UNCHANGED status

\* Whoever owed the announcements S is gone.
Forget(S) ==
  /\ S \subseteq owed
  /\ owed' = owed \ S
  /\ UNCHANGED <<status, told>>

LedgerNext ==
  \/ \E b \in Bids :
       \/ Place(b)
       \/ \E s \in Statuses \ {"Pending"} :
            \/ Record(b, s)
            \/ RecordSilently(b, s)
            \/ Tell(b, s)
  \/ \E S \in SUBSET owed : Forget(S)

LedgerSpec == LedgerInit /\ [][LedgerNext]_ledgerVars
=============================================================================
