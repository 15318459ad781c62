------------------------------ MODULE DriverProofs ------------------------------
(***************************************************************************)
(* The socket and the errgroup of Driver.Run, for any flags, faults and    *)
(* number of restarts.  The gRPC server serves on the socket it was handed *)
(* because Run has it from the moment the listener is made, and nothing    *)
(* but the server's own end takes it away while the process lives; and     *)
(* binding does not fail for what an earlier process left there.           *)
(***************************************************************************)
EXTENDS Driver, TLAPS

HasTheSocket ==
  config.scheme = "unix" /\ (run = "group" \/ goroutine["grpc"] = "serving")
    => socket = "live"

\* What was at the path is gone before Run binds to it.
PathIsFree ==
  config.scheme = "unix" /\ run \in {"stat", "listen"} => socket = "none"

IInv == TypeOK /\ HasTheSocket /\ PathIsFree /\ PruneIsNotFatal

-----------------------------------------------------------------------------
LEMMA FaultType ==
  ASSUME TypeOK, NEW f, Fault(f)
  PROVE  faults' \in 0..MaxFaults
  BY FaultsAssumption DEF TypeOK, Fault

LEMMA InitInv == Init => IInv
<1> SUFFICES ASSUME Init PROVE IInv
  OBVIOUS
<1>1. /\ goroutine \in [Goroutines -> {"none", "select", "pruning", "serving", "exited"}]
      /\ \A g \in Goroutines : goroutine[g] = "none"
  BY DEF Init
<1>2. faults \in 0..MaxFaults
  BY FaultsAssumption DEF Init
<1>3. TypeOK
  BY <1>1, <1>2 DEF Init, TypeOK
<1>4. HasTheSocket /\ PathIsFree /\ PruneIsNotFatal
  BY <1>1 DEF Init, HasTheSocket, PathIsFree, PruneIsNotFatal, Goroutines
<1> QED
  BY <1>3, <1>4 DEF IInv

\* After an exit, however it came about, no goroutine is left.
LEMMA ExitStep ==
  ASSUME IInv, Exit, faults' \in 0..MaxFaults
  PROVE  IInv'
  BY DEF IInv, Exit, TypeOK, HasTheSocket, PathIsFree, PruneIsNotFatal, Goroutines

\* Run on its way to the listener, while there is no goroutine.
LEMMA GotoStep ==
  ASSUME IInv, run # "wait", faults' \in 0..MaxFaults, socket' \in {"none", "stale", "live"},
         NEW step \in {"stat", "listen", "group", "fail"}, Goto(step),
         step = "group" /\ config.scheme = "unix" => socket' = "live",
         step \in {"stat", "listen"} /\ config.scheme = "unix" => socket' = "none"
  PROVE  IInv'
  BY DEF IInv, Goto, TypeOK, HasTheSocket, PathIsFree, PruneIsNotFatal, Goroutines

LEMMA MainStep == ASSUME IInv, Main PROVE IInv'
<1>1. TypeOK /\ faults \in 0..MaxFaults
  BY DEF IInv, TypeOK
<1>2. CASE Start
  <2>1. run' \in {"unlink", "listen", "fail"} /\ run = "down"
        /\ (run' = "listen" => config.scheme = "tcp")
        /\ UNCHANGED <<config, socket, goroutine, tick, canceled, faults>>
    BY <1>2, SchemesAssumption DEF Start, IInv, TypeOK
  <2> QED
    BY <2>1 DEF IInv, TypeOK, HasTheSocket, PathIsFree, PruneIsNotFatal
<1>3. CASE Fail
  BY <1>1, <1>3, ExitStep DEF Fail
<1>4. CASE Unlink
  BY <1>1, <1>4, GotoStep, FaultType DEF Unlink, TypeOK
<1>5. CASE StatDir
  BY <1>1, <1>5, GotoStep, FaultType DEF StatDir, IInv, TypeOK, PathIsFree
<1>6. CASE Listen
  BY <1>1, <1>6, GotoStep, FaultType DEF Listen, TypeOK
<1>7. CASE StartGroup
  <2>1. CASE config.period > 0
    BY <1>7, <2>1 DEF StartGroup, AllStarted, IInv, TypeOK, HasTheSocket, PathIsFree, PruneIsNotFatal,
                      Goroutines
  <2>2. CASE ~(config.period > 0)
    BY <1>1, <1>7, <2>2, ExitStep DEF StartGroup
  <2> QED
    BY <2>1, <2>2
<1>8. CASE Return
  BY <1>1, <1>8, ExitStep DEF Return
<1> QED
  BY <1>2, <1>3, <1>4, <1>5, <1>6, <1>7, <1>8 DEF Main

\* The context ends with the first server that fails, never with a prune.
LEMMA GoroutineStep ==
  ASSUME IInv, NEW g \in Goroutines,
         TakeTick \/ EndPrune \/ StopPruner \/ ServerFails(g)
  PROVE  IInv'
<1>1. CASE TakeTick
  BY <1>1 DEF TakeTick, Becomes, IInv, TypeOK, HasTheSocket, PathIsFree, PruneIsNotFatal, Goroutines
<1>2. CASE EndPrune
  <2>1. faults' \in 0..MaxFaults
    BY <1>2, FaultType DEF EndPrune, IInv, TypeOK
  <2> QED
    BY <1>2, <2>1 DEF EndPrune, Becomes, IInv, TypeOK, HasTheSocket, PathIsFree, PruneIsNotFatal, Goroutines
<1>3. CASE StopPruner
  BY <1>3 DEF StopPruner, Becomes, IInv, TypeOK, HasTheSocket, PathIsFree, PruneIsNotFatal, Goroutines
<1>4. CASE ServerFails(g)
  <2>1. faults' \in 0..MaxFaults
    BY <1>4, FaultType DEF ServerFails, IInv
  <2> QED
    BY <1>4, <2>1 DEF ServerFails, Becomes, IInv, TypeOK, HasTheSocket, PathIsFree, PruneIsNotFatal, Goroutines
<1> QED
  BY <1>1, <1>2, <1>3, <1>4

LEMMA NextInv == IInv /\ [Next]_vars => IInv'
<1> SUFFICES ASSUME IInv, [Next]_vars PROVE IInv'
  OBVIOUS
<1>1. TypeOK /\ faults \in 0..MaxFaults
  BY DEF IInv, TypeOK
<1>2. CASE Main
  BY <1>2, MainStep
<1>3. CASE Tick
  BY <1>3 DEF Tick, IInv, TypeOK, HasTheSocket, PathIsFree, PruneIsNotFatal
<1>4. CASE TakeTick \/ EndPrune \/ StopPruner \/ \E g \in Goroutines : ServerFails(g)
  BY <1>4, GoroutineStep DEF Goroutines
<1>5. CASE ProbeFails
  BY <1>1, <1>5, ExitStep DEF ProbeFails
<1>6. CASE Kill
  BY <1>1, <1>6, ExitStep, FaultType DEF Kill
<1>7. CASE UNCHANGED vars
  BY <1>7 DEF vars, IInv, TypeOK, HasTheSocket, PathIsFree, PruneIsNotFatal
<1> QED
  BY <1>2, <1>3, <1>4, <1>5, <1>6, <1>7 DEF Next

-----------------------------------------------------------------------------
(* The theorems. *)

LEMMA Invariance == Spec => []IInv
  BY InitInv, NextInv, PTL DEF Spec

\* The flags, the steps of Run and the states of its goroutines stay well
\* formed, and the goroutines live only while Run waits (driver.go:75-182).
THEOREM TypeCorrect == Spec => []TypeOK
<1>1. IInv => TypeOK
  BY DEF IInv
<1> QED
  BY <1>1, Invariance, PTL

\* While the gRPC server serves on a unix endpoint, the socket at its path is
\* its own, whatever an earlier process left there (driver.go:92-116).
THEOREM SocketIsItsOwn == Spec => []ServesOnItsSocket
<1>1. IInv => ServesOnItsSocket
  BY DEF IInv, HasTheSocket, ServesOnItsSocket
<1> QED
  BY <1>1, Invariance, PTL

\* No failing prune, however often, stops the pruner or ends the group's
\* context (driver.go:154).
THEOREM PruneFailuresAreNotFatal == Spec => []PruneIsNotFatal
<1>1. IInv => PruneIsNotFatal
  BY DEF IInv
<1> QED
  BY <1>1, Invariance, PTL

\* Before it serves, Run fails only where something fails, given flags that the
\* driver accepts: what an earlier process left is never in the way
\* (driver.go:92-116).
THEOREM StartsAreClean == Spec => StartsUnlessAFault
<1> DEFINE Clean ==
      config.scheme # "other" /\ config.period > 0 /\ run # "wait"
        /\ run' \in {"fail", "down"} /\ run' # run /\ run # "fail"
        => faults' > faults
<1>1. ASSUME NEW f, TypeOK, Fault(f) PROVE faults' > faults
  BY <1>1, FaultsAssumption DEF Fault, TypeOK
<1>2. IInv /\ [Next]_vars => [Clean]_vars
  <2> SUFFICES ASSUME IInv, [Next]_vars,
                      config.scheme # "other", config.period > 0, run \notin {"wait", "fail"},
                      run' \in {"fail", "down"}, run' # run
               PROVE  faults' > faults
    OBVIOUS
  <2>1. TypeOK
    BY DEF IInv
  <2>2. CASE Start
    BY <2>1, <2>2, SchemesAssumption DEF Start, TypeOK
  <2>3. CASE Unlink
    BY <1>1, <2>1, <2>3 DEF Unlink, Goto
  <2>4. CASE StatDir
    BY <1>1, <2>1, <2>4 DEF StatDir, Goto
  <2>5. CASE Listen
    BY <1>1, <2>1, <2>5 DEF Listen, Goto, IInv, PathIsFree
  <2>6. CASE StartGroup
    BY <2>6 DEF StartGroup
  <2>7. CASE Kill
    BY <1>1, <2>1, <2>7 DEF Kill
  <2>8. CASE Fail \/ Return \/ ProbeFails
    BY <2>8 DEF Fail, Return, ProbeFails
  <2>9. CASE Tick \/ TakeTick \/ EndPrune \/ StopPruner \/ UNCHANGED vars
    BY <2>9 DEF Tick, TakeTick, EndPrune, StopPruner, vars
  <2>10. CASE \E g \in Goroutines : ServerFails(g)
    BY <2>10 DEF ServerFails
  <2> QED
    BY <2>2, <2>3, <2>4, <2>5, <2>6, <2>7, <2>8, <2>9, <2>10 DEF Next, Main
<1> QED
  BY <1>2, Invariance, PTL DEF Spec, StartsUnlessAFault
=============================================================================
