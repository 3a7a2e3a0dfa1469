------------------------------- MODULE MCFeed -------------------------------
(* Small instances of the server and its clients.  A scenario names what may   *)
(* happen in it, and how often; everything it does not name does not happen.   *)
EXTENDS Feed

CONSTANTS limo, searcher, T0, T1, T2

MCCreates == {[key |-> "k1", chain |-> "solana", kind |-> "limo", order |-> o] : o \in {1, 2}}
               \cup {[key |-> "k2", chain |-> "solana", kind |-> "swap", order |-> 1]}

MCInitialTokens == T0 :> [owner |-> limo, revoked |-> FALSE]

(* Bids of two keys that share an account; one needs the table extended.      *)
MCTxs == {[key |-> "k1", amount |-> 2, takes |-> [w1 |-> 2, w2 |-> 0], table |-> 0],
          [key |-> "k1", amount |-> 1, takes |-> [w1 |-> 1, w2 |-> 0], table |-> 1],
          [key |-> "k2", amount |-> 1, takes |-> [w1 |-> 1, w2 |-> 1], table |-> 2]}
MCFunds == [w1 |-> 2, w2 |-> 1]

Kinds == {"posts", "quotes", "deletes", "profiles", "grants", "revokes", "privileges", "connects", "requests",
          "pings", "updates", "losses", "timeouts", "faults", "drops", "failures", "panics", "interrupts", "crashes",
          "bids", "ages", "reads", "sweeps", "analytics", "verified", "slow", "extensions"}
Scenario(bounds) == bounds @@ [kind \in Kinds |-> 0]

MCScenarios == {
  \* opportunities and the verification loop
  Scenario([posts |-> 2, deletes |-> 1]),
  Scenario([posts |-> 2, faults |-> 1]),
  Scenario([posts |-> 1, deletes |-> 1, faults |-> 1, drops |-> 1, crashes |-> 1]),
  Scenario([quotes |-> 2]),
  Scenario([quotes |-> 1, faults |-> 1, drops |-> 1]),
  \* tokens and privileges
  Scenario([grants |-> 2, revokes |-> 1, faults |-> 1, crashes |-> 1]),
  Scenario([privileges |-> 3, faults |-> 1, crashes |-> 1]),
  Scenario([connects |-> 1, requests |-> 1, privileges |-> 1, revokes |-> 1, pings |-> 1]),
  \* connections
  Scenario([connects |-> 1, requests |-> 2, updates |-> 2]),
  Scenario([connects |-> 1, requests |-> 3, timeouts |-> 1]),
  Scenario([connects |-> 1, requests |-> 1, losses |-> 1, pings |-> 1, drops |-> 1]),
  Scenario([connects |-> 2, losses |-> 1, pings |-> 1, drops |-> 1]),
  Scenario([connects |-> 1, requests |-> 1, posts |-> 1]),
  \* the end of the server
  Scenario([interrupts |-> 1, failures |-> 2, panics |-> 1]),
  Scenario([posts |-> 1, interrupts |-> 1, failures |-> 1]),
  Scenario([posts |-> 1, panics |-> 1]),
  Scenario([quotes |-> 1, interrupts |-> 1]),
  Scenario([profiles |-> 1, grants |-> 1, interrupts |-> 1]),
  Scenario([connects |-> 1, requests |-> 1, interrupts |-> 1]),
  \* the tables
  Scenario([bids |-> 2, reads |-> 2]),
  Scenario([bids |-> 3, reads |-> 2]),
  Scenario([bids |-> 1, ages |-> 2, reads |-> 2]),
  Scenario([bids |-> 2, ages |-> 1, reads |-> 1]),
  Scenario([bids |-> 2, ages |-> 3, reads |-> 1]),
  Scenario([bids |-> 1, ages |-> 2, failures |-> 1, interrupts |-> 1]),
  Scenario([bids |-> 1, analytics |-> 1, faults |-> 1, crashes |-> 1]),
  Scenario([bids |-> 2, analytics |-> 1]),
  Scenario([bids |-> 1, analytics |-> 1, interrupts |-> 1]),
  Scenario([posts |-> 1, deletes |-> 1, analytics |-> 1]),
  Scenario([posts |-> 1, reads |-> 2, sweeps |-> 1]),
  \* the simulator
  Scenario([verified |-> 3, extensions |-> 1]),
  Scenario([verified |-> 2, slow |-> 1, faults |-> 1]),
  Scenario([verified |-> 2, slow |-> 1, crashes |-> 1]),
  Scenario([verified |-> 1, interrupts |-> 1])
}
=============================================================================
