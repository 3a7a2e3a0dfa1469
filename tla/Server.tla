------------------------------- MODULE Server -------------------------------
(* The life of the server's process: start_server joins its loops, each run by *)
(* fault_tolerant_handler, which starts a loop again when it returns an error  *)
(* and asks every loop to end when one panics.  A loop ends when it sees       *)
(* SHOULD_EXIT; the process ends when all have and the tracked tasks are done. *)
(* The price loop depends on a stream that its client closes when it is silent.*)
EXTENDS Tables, FiniteSets, TLC

CONSTANTS
  Loops,      \* the loops start_server joins
  CannotFail, \* those of them that return no error (run_verification_loop)
  Scenarios   \* bounds: how often each kind of call, fault or event may happen

ASSUME LoopAssumption == "price" \in Loops /\ "verification" \in Loops /\ "api" \in Loops

VARIABLES
  proc,    \* whether the process runs
  exit,    \* SHOULD_EXIT
  loops,   \* the state of each loop
  stream,  \* the stream of the price feed
  budget   \* what is left of the scenario's bounds

serverVars == <<proc, exit, loops, stream>>

Spend(kind) == budget[kind] > 0 /\ budget' = [budget EXCEPT ![kind] = @ - 1]

ServerTypeOK ==
  /\ proc \in {"up", "down"}
  /\ exit \in BOOLEAN
  /\ loops \in [Loops -> {"starting", "running", "failed", "ended"}]
  /\ stream \in {"none", "live", "silent", "closed"}

(* The server has been set up.                                                *)
ServerInit ==
  /\ proc = "up"
  /\ exit = FALSE
  /\ loops = [l \in Loops |-> "running"]
  /\ stream = "live"

Serving == proc = "up" /\ loops["api"] = "running"

(* What a loop does before its first exit check: the price loop subscribes,   *)
(* the log listener connects, the API binds its port.                         *)
SetUp(l) ==
  /\ proc = "up" /\ loops[l] = "starting"
  /\ loops' = [loops EXCEPT ![l] = "running"]
  /\ stream' = IF l = "price" THEN "live" ELSE stream
  /\ UNCHANGED <<proc, exit, budget>>

(* A loop returns an error: its set-up fails, its source ends or a call fails. *)
Fails(l) ==
  /\ proc = "up" /\ l \notin CannotFail
  /\ loops[l] \in {"starting", "running"}
  /\ Spend("failures")
  /\ loops' = [loops EXCEPT ![l] = "failed"]
  /\ UNCHANGED <<proc, exit, stream>>

(* After half a second the handler runs the loop again, whatever SHOULD_EXIT. *)
RunAgain(l) ==
  /\ proc = "up" /\ loops[l] = "failed"
  /\ loops' = [loops EXCEPT ![l] = "starting"]
  /\ UNCHANGED <<proc, exit, stream, budget>>

(* A loop panics: the handler gives up on it and the server shuts down.       *)
Panics(l) ==
  /\ proc = "up" /\ loops[l] \in {"starting", "running"}
  /\ Spend("panics")
  /\ loops' = [loops EXCEPT ![l] = "ended"]
  /\ exit' = TRUE
  /\ UNCHANGED <<proc, stream>>

Interrupt ==
  /\ proc = "up" /\ ~exit
  /\ Spend("interrupts")
  /\ exit' = TRUE
  /\ UNCHANGED <<proc, loops, stream>>

(* The loop sees SHOULD_EXIT between two rounds and returns Ok.               *)
SeesExit(l) ==
  /\ proc = "up" /\ exit /\ loops[l] = "running"
  /\ loops' = [loops EXCEPT ![l] = "ended"]
  /\ UNCHANGED <<proc, exit, stream, budget>>

(* The connection to the price feed stops delivering without being closed.    *)
StreamSilent ==
  /\ proc = "up" /\ stream = "live"
  /\ Spend("failures")
  /\ stream' = "silent"
  /\ UNCHANGED <<proc, exit, loops>>

(* Five seconds without a message: the client closes the stream.              *)
StreamInactive ==
  /\ proc = "up" /\ stream = "silent"
  /\ stream' = "closed"
  /\ UNCHANGED <<proc, exit, loops, budget>>

(* The price loop finds its channel closed and returns an error.              *)
PriceClosed ==
  /\ proc = "up" /\ stream = "closed" /\ loops["price"] = "running"
  /\ loops' = [loops EXCEPT !["price"] = "failed"]
  /\ UNCHANGED <<proc, exit, stream, budget>>

(* start_server returns: join! saw every loop end, no tracked task is left.   *)
ProcessEnds ==
  /\ proc = "up" /\ \A l \in Loops : loops[l] = "ended"
  /\ proc' = "down"
  /\ UNCHANGED <<exit, loops, stream, budget>>

Crashes ==
  /\ proc = "up" /\ Spend("crashes")
  /\ proc' = "down"
  /\ UNCHANGED <<exit, loops, stream>>

(* The operator starts the server again.                                      *)
Starts ==
  /\ proc = "down"
  /\ proc' = "up"
  /\ exit' = FALSE
  /\ loops' = [l \in Loops |-> "starting"]
  /\ stream' = "none"
  /\ UNCHANGED budget
=============================================================================
