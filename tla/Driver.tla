-------------------------------- MODULE Driver --------------------------------
(***************************************************************************)
(* Driver.Run (pkg/data/driver.go) and the process around it: taking over  *)
(* the socket, then three goroutines in an errgroup - the pruner, the HTTP *)
(* server for the metrics and the gRPC server - until Run returns, the     *)
(* process exits, and the kubelet starts the container again.              *)
(***************************************************************************)
EXTENDS Integers

CONSTANTS
  Schemes,       \* schemes --endpoint may have
  PrunePeriods,  \* values --pruneperiod may have
  Faults,        \* the faults of FaultPoints that may happen ...
  MaxFaults      \* ... and a bound on how many do

FaultPoints == {"kill", "unlink", "noDir", "busy", "prune", "http", "grpc"}

ASSUME SchemesAssumption == Schemes \subseteq {"unix", "tcp", "other"}

ASSUME PrunePeriodsAssumption == PrunePeriods \subseteq Int

ASSUME FaultsAssumption == Faults \subseteq FaultPoints /\ MaxFaults \in Nat

VARIABLES
  config,    \* the flags that matter: fixed when the container is set up
  run,       \* the next step of Run, "down" while there is no process
  socket,    \* the socket's path: "none", "stale", or "live" (we listen on it)
  goroutine, \* the goroutines of the errgroup
  tick,      \* whether the channel of the ticker holds a tick
  canceled,  \* the context of the group is done
  faults

vars == <<config, run, socket, goroutine, tick, canceled, faults>>

Goroutines == {"pruner", "http", "grpc"}

Fault(f) == f \in Faults /\ faults < MaxFaults /\ faults' = faults + 1

-----------------------------------------------------------------------------
(***************************************************************************)
(* The process.  The socket file outlives it, unless the listener was      *)
(* closed first.                                                           *)
(***************************************************************************)
Exit ==
  /\ run' = "down"
  /\ socket' = IF socket = "live" THEN "stale" ELSE socket
  /\ goroutine' = [g \in Goroutines |-> "none"]
  /\ tick' = FALSE
  /\ canceled' = FALSE
  /\ UNCHANGED config

\* url.Parse and the switch on the scheme.
Start ==
  /\ run = "down"
  /\ run' = CASE config.scheme = "unix"  -> "unlink"
              [] config.scheme = "tcp"   -> "listen"
              [] config.scheme = "other" -> "fail"
  /\ UNCHANGED <<config, socket, goroutine, tick, canceled, faults>>

\* Run returns an error before it listens: the process exits with it.
Fail == run = "fail" /\ Exit /\ UNCHANGED faults

Kill == run # "down" /\ Fault("kill") /\ Exit

-----------------------------------------------------------------------------
(* From the endpoint to the listener. *)

Goto(step) == run' = step /\ UNCHANGED <<config, goroutine, tick, canceled>>

\* A bug: what the last process left is not removed.
UnlinkNothing ==
  /\ run = "unlink"
  /\ Goto("stat")
  /\ UNCHANGED <<socket, faults>>

\* os.Remove of the socket's path; that it does not exist is no error.
Unlink ==
  /\ run = "unlink"
  /\ \/ Goto("stat") /\ socket' = "none" /\ UNCHANGED faults
     \/ Goto("fail") /\ Fault("unlink") /\ UNCHANGED socket

\* The kubelet is to have made the parent directory.
StatDir ==
  /\ run = "stat"
  /\ \/ Goto("listen") /\ UNCHANGED faults
     \/ Goto("fail") /\ Fault("noDir")
  /\ UNCHANGED socket

\* A bug: the error of net.Listen is not returned.
ListenUnchecked ==
  /\ run = "listen"
  /\ Goto("group")
  /\ \/ socket' = (IF config.scheme = "unix" THEN "live" ELSE socket) /\ UNCHANGED faults
     \/ Fault("busy") /\ UNCHANGED socket

\* bind(2) fails on a path that exists, and on a port in use.
Listen ==
  LET unix == config.scheme = "unix" IN
  /\ run = "listen"
  /\ \/ /\ unix => socket = "none"
        /\ socket' = IF unix THEN "live" ELSE socket
        /\ Goto("group") /\ UNCHANGED faults
     \/ unix /\ socket # "none" /\ Goto("fail") /\ UNCHANGED <<socket, faults>>
     \/ Goto("fail") /\ Fault("busy") /\ UNCHANGED socket

AllStarted ==
  goroutine' = [pruner |-> "select", http |-> "serving", grpc |-> "serving"]

\* A bug: Run does not wait for the group.
StartGroupOnly ==
  /\ run = "group"
  /\ run' = "fail"
  /\ AllStarted
  /\ UNCHANGED <<config, socket, tick, canceled, faults>>

\* time.NewTicker panics unless the period is positive.
StartGroup ==
  /\ run = "group"
  /\ IF config.period > 0
     THEN /\ run' = "wait" /\ AllStarted
          /\ UNCHANGED <<config, socket, tick, canceled>>
     ELSE Exit
  /\ UNCHANGED faults

-----------------------------------------------------------------------------
(* The goroutines. *)

Becomes(g, state) == goroutine' = [goroutine EXCEPT ![g] = state]

\* The channel holds one tick: while it is full the ticker drops the others.
Tick ==
  /\ run = "wait"
  /\ tick' = TRUE
  /\ UNCHANGED <<config, run, socket, goroutine, canceled, faults>>

TakeTick ==
  /\ goroutine["pruner"] = "select" /\ tick
  /\ tick' = FALSE
  /\ Becomes("pruner", "pruning")
  /\ UNCHANGED <<config, run, socket, canceled, faults>>

\* A bug: a failure of the prune is returned to the group.
EndPruneFatal ==
  /\ goroutine["pruner"] = "pruning"
  /\ \/ Becomes("pruner", "select") /\ UNCHANGED <<canceled, faults>>
     \/ Fault("prune") /\ Becomes("pruner", "exited") /\ canceled' = TRUE
  /\ UNCHANGED <<config, run, socket, tick>>

\* A failure is logged and the loop goes on.
EndPrune ==
  /\ goroutine["pruner"] = "pruning"
  /\ Becomes("pruner", "select")
  /\ UNCHANGED faults \/ Fault("prune")
  /\ UNCHANGED <<config, run, socket, tick, canceled>>

StopPruner ==
  /\ goroutine["pruner"] = "select" /\ canceled
  /\ Becomes("pruner", "exited")
  /\ UNCHANGED <<config, run, socket, tick, canceled, faults>>

\* A server that ends with an error ends the group's context; nothing stops
\* the other one.  Serve closes its listener, which unlinks the socket.
ServerFails(g) ==
  /\ g \in {"http", "grpc"}
  /\ goroutine[g] = "serving" /\ Fault(g)
  /\ Becomes(g, "exited")
  /\ canceled' = TRUE
  /\ socket' = IF g = "grpc" /\ socket = "live" THEN "none" ELSE socket
  /\ UNCHANGED <<config, run, tick>>

\* Run returns when all three have.
Return ==
  /\ run = "wait" /\ \A g \in Goroutines : goroutine[g] = "exited"
  /\ Exit
  /\ UNCHANGED faults

\* The liveness probe calls Probe over gRPC.
ProbeFails ==
  /\ run = "wait" /\ goroutine["grpc"] = "exited"
  /\ Exit
  /\ UNCHANGED faults

-----------------------------------------------------------------------------
Init ==
  /\ config \in [scheme : Schemes, period : PrunePeriods]
  /\ run = "down"
  /\ socket \in {"none", "stale"}
  /\ goroutine = [g \in Goroutines |-> "none"]
  /\ tick = FALSE
  /\ canceled = FALSE
  /\ faults = 0

Main == Start \/ Fail \/ Unlink \/ StatDir \/ Listen \/ StartGroup \/ Return

Next ==
  \/ Main
  \/ Tick \/ TakeTick \/ EndPrune \/ StopPruner
  \/ \E g \in Goroutines : ServerFails(g)
  \/ ProbeFails \/ Kill

Spec == Init /\ [][Next]_vars

(***************************************************************************)
(* The kubelet starts the container again and probes it, every goroutine   *)
(* gets to run, and time passes.                                           *)
(***************************************************************************)
Fairness ==
  /\ WF_vars(Main) /\ WF_vars(ProbeFails)
  /\ WF_vars(Tick) /\ WF_vars(TakeTick) /\ WF_vars(EndPrune) /\ WF_vars(StopPruner)

FairSpec == Spec /\ Fairness

-----------------------------------------------------------------------------
\* Types; the goroutines live only while Run waits for them.
TypeOK ==
  /\ config \in [scheme : Schemes, period : PrunePeriods]
  /\ run \in {"down", "unlink", "stat", "listen", "group", "wait", "fail"}
  /\ socket \in {"none", "stale", "live"}
  /\ goroutine \in [Goroutines -> {"none", "select", "pruning", "serving", "exited"}]
  /\ tick \in BOOLEAN /\ canceled \in BOOLEAN
  /\ faults \in 0..MaxFaults
  /\ \A g \in Goroutines : goroutine[g] = "none" <=> run # "wait"

(***************************************************************************)
(* While the gRPC server serves on a unix endpoint, the socket at its path *)
(* is the one it listens on: no earlier process's file, no file removed    *)
(* after the listener was made (driver.go:92-116).                         *)
(***************************************************************************)
ServesOnItsSocket ==
  goroutine["grpc"] = "serving" /\ config.scheme = "unix" => socket = "live"

(***************************************************************************)
(* A failing prune "is not fatal" (driver.go:154): the pruner stops, and   *)
(* the context of the group ends, only after one of the servers failed.    *)
(***************************************************************************)
PruneIsNotFatal ==
  goroutine["pruner"] = "exited" \/ canceled =>
    \E g \in {"http", "grpc"} : goroutine[g] = "exited"

(***************************************************************************)
(* With an endpoint and a period that the driver accepts, Run fails before *)
(* it serves only when something fails in that very step: nothing an       *)
(* earlier process left behind, however that one ended, is in the way of a *)
(* start (driver.go:92-116).                                               *)
(***************************************************************************)
StartsUnlessAFault ==
  [][config.scheme # "other" /\ config.period > 0 /\ run # "wait"
       /\ run' \in {"fail", "down"} /\ run' # run /\ run # "fail"
       => faults' > faults]_vars

(***************************************************************************)
(* However a process ends, a later one takes over the socket and serves,   *)
(* given an endpoint and a period that the driver accepts.                 *)
(***************************************************************************)
ServesAgain ==
  config.scheme # "other" /\ config.period > 0 => []<>(goroutine["grpc"] = "serving")

(***************************************************************************)
(* Pruning goes on, through failed prunes, kills and restarts, unless the  *)
(* metrics server fails (driver.go:146-160).                               *)
(***************************************************************************)
PruningGoesOn ==
  config.scheme # "other" /\ config.period > 0 =>
    []<>(goroutine["pruner"] = "pruning" \/ goroutine["http"] = "exited")

\* "Time between pruning runs" (serve.go:82): while the driver serves it prunes,
\* again and again.  Refuted by a run: the metrics server takes the pruner down.
PrunesWhileServing ==
  config.scheme # "other" /\ config.period > 0 => []<>(goroutine["pruner"] = "pruning")
=============================================================================
