--------------------------- MODULE NodeServerProofs ---------------------------
(***************************************************************************)
(* Proofs about NodeServer: what holds of the node whatever the            *)
(* orchestrator calls, however the calls interleave and whatever fails.    *)
(***************************************************************************)
EXTENDS NodeServer, FiniteSetTheorems, TLAPS

-----------------------------------------------------------------------------
(* Sequences of mounts. *)

LEMMA PushFacts ==
  ASSUME NEW S, NEW s \in Seq(S), NEW m \in S
  PROVE  /\ <<m>> \o s \in Seq(S)
         /\ Len(<<m>> \o s) = Len(s) + 1
         /\ (<<m>> \o s)[1] = m
         /\ \A i \in 1..Len(s) : (<<m>> \o s)[i + 1] = s[i]
  OBVIOUS

LEMMA PopFacts ==
  ASSUME NEW S, NEW s \in Seq(S), s # <<>>
  PROVE  /\ Head(s) \in S /\ Head(s) = s[1]
         /\ Tail(s) \in Seq(S)
         /\ Len(s) \in Nat /\ Len(s) > 0
         /\ Len(Tail(s)) = Len(s) - 1
         /\ \A i \in 1..Len(Tail(s)) : Tail(s)[i] = s[i + 1]
  OBVIOUS

LEMMA EmptyFacts ==
  ASSUME NEW S, NEW s \in Seq(S)
  PROVE  Len(s) = 0 <=> s = <<>>
  OBVIOUS

LEMMA PinnedFacts ==
  ASSUME NEW s \in Seq(Mounts)
  PROVE  LET pinned == [i \in 1..Len(s) |-> Pinned(s[i])] IN
         /\ pinned \in Seq(Mounts)
         /\ Len(pinned) = Len(s)
         /\ \A i \in 1..Len(s) : ~pinned[i].live
<1>1. ASSUME NEW i \in 1..Len(s) PROVE Pinned(s[i]) \in Mounts /\ ~Pinned(s[i]).live
  <2>1. s[i] \in Mounts
    OBVIOUS
  <2> QED
    BY <2>1 DEF Mounts, Pinned
<1>2. Len(s) \in Nat
  OBVIOUS
<1> QED
  BY <1>1, <1>2

\* What the second half of a Mount makes of the visible mount.
LEMMA RemountedFacts ==
  ASSUME NEW s \in Seq(Mounts), s # <<>>, NEW t
  PROVE  LET top == [live |-> Head(s).live, options |-> MountOptions(t)] IN
         top \in Mounts /\ top.live = s[1].live /\ <<top>> \o Tail(s) \in Seq(Mounts)
<1> DEFINE top == [live |-> Head(s).live, options |-> MountOptions(t)]
<1>1. Head(s) \in Mounts /\ Head(s) = s[1] /\ Tail(s) \in Seq(Mounts)
  BY PopFacts
<1>2. top \in Mounts /\ top.live = s[1].live
  BY <1>1 DEF Mounts, MountOptions
<1> QED
  BY <1>1, <1>2, PushFacts

-----------------------------------------------------------------------------
(* What no step does. *)

\* The steps that only look leave the node as it is.
LEMMA QuietSteps ==
  ASSUME NEW r, \/ LoadCredentials(r) \/ Resolve(r) \/ Notify(r)
                \/ CheckMount(r) \/ CheckUnmount(r) \/ StatStaging(r)
  PROVE  UNCHANGED nodeState
BY DEF LoadCredentials, Resolve, Notify, CheckMount, CheckUnmount, StatStaging

\* Only pulling, and removing under a pull, concern the other pulls.
LEMMA StepKeepsCall ==
  ASSUME NEW r, Step(r), ~BeginPull(r), ~EndPull(r), ~RemoveStaging(r)
  PROVE  KeepCall
<1>1. CASE LoadCredentials(r) \/ Resolve(r) \/ Notify(r) \/ StatStaging(r)
  BY <1>1 DEF LoadCredentials, Resolve, Notify, StatStaging
<1>2. CASE CheckMount(r) \/ MakeTarget(r) \/ Bind(r) \/ Remount(r)
  BY <1>2 DEF CheckMount, MakeTarget, Bind, Remount
<1>3. CASE CheckUnmount(r) \/ Unmount(r) \/ RemoveTarget(r)
  BY <1>3 DEF CheckUnmount, Unmount, RemoveTarget
<1> QED
  BY <1>1, <1>2, <1>3 DEF Step

\* A step moves the control of its own handler, and of no other.
LEMMA StepMoves ==
  ASSUME NEW r, Step(r)
  PROVE  /\ call' = call /\ cancelled' = cancelled
         /\ \E next : Goto(r, next)
         /\ faults' = faults \/ \E f : Spend(f)
<1>1. CASE BeginPull(r) \/ EndPull(r) \/ RemoveStaging(r)
  BY <1>1 DEF BeginPull, EndPull, RemoveStaging, Succeeds, Fails
<1>2. CASE LoadCredentials(r) \/ Resolve(r) \/ Notify(r) \/ StatStaging(r)
  BY <1>2 DEF LoadCredentials, Resolve, Notify, StatStaging, KeepCall, Succeeds, Fails
<1>3. CASE CheckMount(r) \/ MakeTarget(r)
  BY <1>3 DEF CheckMount, MakeTarget, KeepCall, Succeeds, Fails
<1>4. CASE Bind(r) \/ Remount(r)
  BY <1>4 DEF Bind, Remount, KeepCall, Succeeds, Fails
<1>5. CASE CheckUnmount(r) \/ Unmount(r) \/ RemoveTarget(r)
  BY <1>5 DEF CheckUnmount, Unmount, RemoveTarget, KeepCall, Succeeds, Fails
<1> QED
  BY <1>1, <1>2, <1>3, <1>4, <1>5 DEF Step

\* The pulls a step disturbs are those into the directory it writes to.
LEMMA StepDisturbs ==
  ASSUME NEW r, Step(r)
  PROVE  \A q \in disturbed' : q \in disturbed \/ q = r \/ q \in Pullers(VolOf(call[r]))
<1>1. CASE BeginPull(r) \/ EndPull(r) \/ RemoveStaging(r)
  BY <1>1 DEF BeginPull, EndPull, RemoveStaging
<1>2. CASE ~BeginPull(r) /\ ~EndPull(r) /\ ~RemoveStaging(r)
  BY <1>2, StepKeepsCall DEF KeepCall
<1> QED
  BY <1>1, <1>2

-----------------------------------------------------------------------------
(* Types. *)

\* The volume and the paths of a call exist.
LEMMA CallFields ==
  ASSUME NEW c \in Calls
  PROVE  /\ c.op \in {"stage", "unstage", "publish", "unpublish"}
         /\ c.op \in {"stage", "unstage"} =>
              c.vol \in Volumes \ Ephemeral /\ VolOf(c) = c.vol
         /\ c.op \in {"publish", "unpublish"} =>
              c.tgt \in Targets /\ VolOf(c) = VolumeOf[c.tgt]
         /\ VolOf(c) \in Volumes
  BY VolumeOfAssumption DEF Calls, VolOf

\* The step a handler is at tells which call it serves.
LEMMA StepsOfCalls ==
  ASSUME TypeOK, NEW r \in Handlers, pc[r] # "idle"
  PROVE  /\ call[r] \in Calls
         /\ InItsHandler(pc[r], call[r])
         /\ pc[r] \in MountPcs \union UnmountPcs =>
              call[r].tgt \in Targets /\ VolOf(call[r]) = VolumeOf[call[r].tgt]
  BY CallFields DEF TypeOK, HandlersOK, Busy, InItsHandler

\* A handler that goes on to a step of its own stays in its handler.
LEMMA Advance ==
  ASSUME TypeOK, NEW r \in Handlers, pc[r] # "idle", NEW next \in Pcs,
         InItsHandler(next, call[r]), Goto(r, next), call' = call
  PROVE  HandlersOK'
  BY DEF TypeOK, HandlersOK, Goto, Busy, Pcs, StagePcs, MountPcs, UnmountPcs, DonePcs

\* Returning is a step of every handler.
LEMMA InItsHandlerDone ==
  ASSUME NEW c, NEW done \in DonePcs
  PROVE  InItsHandler(done, c)
  BY DEF InItsHandler, DonePcs, StagePcs, MountPcs, UnmountPcs

LEMMA SpendType ==
  ASSUME TypeOK, NEW f, Spend(f)
  PROVE  faults' \in 0..MaxFaults
  BY FaultsAssumption DEF TypeOK, Spend

LEMMA FailsType ==
  ASSUME TypeOK, NEW r \in Handlers, pc[r] # "idle", NEW f, Fails(r, f), call' = call
  PROVE  HandlersOK' /\ faults' \in 0..MaxFaults
<1>1. HandlersOK'
  BY Advance, InItsHandlerDone DEF Fails, Pcs, DonePcs
<1>2. faults' \in 0..MaxFaults
  BY SpendType DEF Fails, TypeOK
<1> QED
  BY <1>1, <1>2

\* Unlinking keeps the stacks, and leaves nothing live on the volumes it is for.
LEMMA UnlinkedFacts ==
  ASSUME NodeOK, NEW vs \in SUBSET Volumes
  PROVE  /\ Unlinked(vs) \in [Targets -> Seq(Mounts)]
         /\ \A s \in Targets :
              /\ Len(Unlinked(vs)[s]) = Len(mnt[s])
              /\ VolumeOf[s] \notin vs => Unlinked(vs)[s] = mnt[s]
              /\ VolumeOf[s] \in vs =>
                   \A i \in DOMAIN mnt[s] : ~Unlinked(vs)[s][i].live
<1> DEFINE pinned(s) == [i \in 1..Len(mnt[s]) |-> Pinned(mnt[s][i])]
<1>1. ASSUME NEW s \in Targets
      PROVE  /\ pinned(s) \in Seq(Mounts)
             /\ Len(pinned(s)) = Len(mnt[s])
             /\ \A i \in DOMAIN mnt[s] : ~pinned(s)[i].live
  BY PinnedFacts DEF NodeOK
<1> QED
  BY <1>1 DEF Unlinked, NodeOK

LEMMA InitType == Init => TypeOK
  BY VolumeOfAssumption, FaultsAssumption, NoCallAssumption
  DEF Init, TypeOK, NodeOK, HandlersOK, DirStates, Mounts, Busy

\* One step of a handler.
LEMMA StepType ==
  ASSUME TypeOK, NEW r \in Handlers, Step(r)
  PROVE  TypeOK'
<1> DEFINE c == call[r]  v == VolOf(c)  t == c.tgt
<1>0. pc[r] # "idle"
  BY DEF Step, LoadCredentials, Resolve, BeginPull, EndPull, Notify, CheckMount,
         MakeTarget, Bind, Remount, CheckUnmount, Unmount, RemoveTarget,
         StatStaging, RemoveStaging
<1>a. c \in Calls /\ v \in Volumes /\ InItsHandler(pc[r], c)
  BY <1>0, StepsOfCalls, CallFields
<1>b. pc[r] \in MountPcs \union UnmountPcs => t \in Targets
  BY <1>0, StepsOfCalls
<1>c. ASSUME NEW next \in Pcs, InItsHandler(next, c), Succeeds(r, next), call' = call
      PROVE  HandlersOK' /\ faults' \in 0..MaxFaults
  BY <1>0, <1>c, Advance DEF Succeeds, TypeOK
<1>d. ASSUME NEW f, Fails(r, f), call' = call
      PROVE  HandlersOK' /\ faults' \in 0..MaxFaults
  BY <1>0, <1>d, FailsType
<1>e. ASSUME NEW done \in DonePcs, Goto(r, done), call' = call
      PROVE  HandlersOK'
  BY <1>0, <1>e, Advance, InItsHandlerDone DEF Pcs
<1> USE DEF TypeOK, KeepCall
<1>1. CASE LoadCredentials(r)
  <2>1. HandlersOK' /\ faults' \in 0..MaxFaults
    BY <1>1, <1>a, <1>c, <1>d
    DEF LoadCredentials, InItsHandler, Pcs, StagePcs, MountPcs, UnmountPcs
  <2> QED
    BY <1>1, <2>1 DEF LoadCredentials, nodeState, NodeOK
<1>2. CASE Resolve(r)
  <2>1. HandlersOK' /\ faults' \in 0..MaxFaults
    BY <1>2, <1>a, <1>c, <1>d
    DEF Resolve, InItsHandler, Pcs, StagePcs, MountPcs, UnmountPcs
  <2> QED
    BY <1>2, <2>1 DEF Resolve, nodeState, NodeOK
<1>3. CASE BeginPull(r)
  <2>1. HandlersOK' /\ faults' \in 0..MaxFaults
    BY <1>3, <1>a, <1>c, <1>d
    DEF BeginPull, InItsHandler, Pcs, StagePcs, MountPcs, UnmountPcs
  <2>2. NodeOK'
    BY <1>3, <1>a DEF BeginPull, NodeOK, DirStates
  <2>3. disturbed' \subseteq Handlers /\ cancelled' \subseteq Handlers
    BY <1>3 DEF BeginPull, Pullers
  <2> QED
    BY <2>1, <2>2, <2>3
<1>4. CASE EndPull(r)
  <2>1. HandlersOK' /\ faults' \in 0..MaxFaults
    BY <1>4, <1>a, <1>c, <1>d, <1>e
    DEF EndPull, InItsHandler, Pcs, StagePcs, MountPcs, UnmountPcs, DonePcs
  <2>2. NodeOK'
    BY <1>4, <1>a DEF EndPull, NodeOK, DirStates
  <2> QED
    BY <1>4, <2>1, <2>2 DEF EndPull
<1>5. CASE Notify(r)
  <2>1. HandlersOK' /\ faults' \in 0..MaxFaults
    <3>1. CASE c.op = "stage" /\ Succeeds(r, "ok")
      BY <1>5, <3>1, <1>c, InItsHandlerDone DEF Notify, Pcs, DonePcs
    <3>2. CASE c.op # "stage" /\ Succeeds(r, "checkMount")
      BY <1>5, <3>2, <1>a, <1>c
      DEF Notify, InItsHandler, Pcs, StagePcs, MountPcs, UnmountPcs
    <3> QED
      BY <1>5, <3>1, <3>2, <1>d DEF Notify
  <2> QED
    BY <1>5, <2>1 DEF Notify, nodeState, NodeOK
<1>6. CASE CheckMount(r)
  <2>1. HandlersOK' /\ faults' \in 0..MaxFaults
    BY <1>6, <1>a, <1>c, <1>d
    DEF CheckMount, InItsHandler, Pcs, StagePcs, MountPcs, UnmountPcs, DonePcs
  <2> QED
    BY <1>6, <2>1 DEF CheckMount, nodeState, NodeOK
<1>7. CASE MakeTarget(r)
  <2>1. HandlersOK' /\ faults' \in 0..MaxFaults
    BY <1>7, <1>a, <1>c, <1>d
    DEF MakeTarget, InItsHandler, Pcs, StagePcs, MountPcs, UnmountPcs
  <2> QED
    BY <1>7, <1>b, <2>1 DEF MakeTarget, NodeOK, MountPcs
<1>8. CASE Bind(r)
  <2>1. HandlersOK' /\ faults' \in 0..MaxFaults
    BY <1>8, <1>a, <1>c, <1>d, <1>e
    DEF Bind, InItsHandler, Pcs, StagePcs, MountPcs, UnmountPcs, DonePcs
  <2>2. NodeOK'
    <3>1. <<[live |-> TRUE, options |-> {}]>> \o mnt[t] \in Seq(Mounts)
      BY <1>8, <1>b DEF Bind, MountPcs, NodeOK, Mounts
    <3> QED
      BY <1>8, <3>1 DEF Bind, NodeOK
  <2> QED
    BY <1>8, <2>1, <2>2 DEF Bind
<1>9. CASE Remount(r)
  <2>1. HandlersOK' /\ faults' \in 0..MaxFaults
    BY <1>9, <1>a, <1>c, <1>d, <1>e
    DEF Remount, InItsHandler, Pcs, StagePcs, MountPcs, UnmountPcs, DonePcs
  <2>2. NodeOK'
    <3>1. mnt[t] # <<>> => <<[live |-> Head(mnt[t]).live, options |-> MountOptions(t)]>>
                             \o Tail(mnt[t]) \in Seq(Mounts)
      BY <1>9, <1>b, RemountedFacts DEF Remount, MountPcs, NodeOK
    <3> QED
      BY <1>9, <3>1 DEF Remount, NodeOK
  <2> QED
    BY <1>9, <2>1, <2>2 DEF Remount
<1>10. CASE CheckUnmount(r)
  <2>1. HandlersOK' /\ faults' \in 0..MaxFaults
    BY <1>10, <1>a, <1>c, <1>d
    DEF CheckUnmount, InItsHandler, Pcs, StagePcs, MountPcs, UnmountPcs
  <2> QED
    BY <1>10, <2>1 DEF CheckUnmount, nodeState, NodeOK
<1>11. CASE Unmount(r)
  <2>1. HandlersOK' /\ faults' \in 0..MaxFaults
    BY <1>11, <1>a, <1>c, <1>d, <1>e
    DEF Unmount, InItsHandler, Pcs, StagePcs, MountPcs, UnmountPcs, DonePcs
  <2>2. NodeOK'
    <3>1. mnt[t] # <<>> => Tail(mnt[t]) \in Seq(Mounts)
      BY <1>11, <1>b DEF Unmount, UnmountPcs, NodeOK
    <3> QED
      BY <1>11, <3>1 DEF Unmount, NodeOK
  <2> QED
    BY <1>11, <2>1, <2>2 DEF Unmount
<1>12. CASE RemoveTarget(r)
  <2>1. HandlersOK' /\ faults' \in 0..MaxFaults
    BY <1>12, <1>a, <1>c, <1>d, <1>e
    DEF RemoveTarget, InItsHandler, Pcs, StagePcs, MountPcs, UnmountPcs, DonePcs
  <2>2. NodeOK'
    BY <1>12 DEF RemoveTarget, NodeOK, DirStates
  <2> QED
    BY <1>12, <2>1, <2>2 DEF RemoveTarget
<1>13. CASE StatStaging(r)
  <2>1. HandlersOK' /\ faults' \in 0..MaxFaults
    BY <1>13, <1>a, <1>c, <1>e, SpendType
    DEF StatStaging, InItsHandler, Pcs, StagePcs, MountPcs, UnmountPcs, DonePcs
  <2> QED
    BY <1>13, <2>1 DEF StatStaging, nodeState, NodeOK
<1>14. CASE RemoveStaging(r)
  <2>1. HandlersOK' /\ faults' \in 0..MaxFaults
    BY <1>14, <1>a, <1>c, <1>d, <1>e
    DEF RemoveStaging, InItsHandler, Pcs, StagePcs, MountPcs, UnmountPcs, DonePcs
  <2>2. Unlinked({v}) \in [Targets -> Seq(Mounts)]
    BY <1>14, <1>a, UnlinkedFacts DEF TypeOK
  <2>3. NodeOK'
    BY <1>14, <2>2 DEF RemoveStaging, NodeOK, DirStates
  <2>4. disturbed' \subseteq Handlers /\ cancelled' \subseteq Handlers
    BY <1>14 DEF RemoveStaging, Pullers
  <2> QED
    BY <2>1, <2>3, <2>4
<1> QED
  BY <1>1, <1>2, <1>3, <1>4, <1>5, <1>6, <1>7, <1>8, <1>9, <1>10, <1>11, <1>12,
     <1>13, <1>14 DEF Step

LEMMA NextType == TypeOK /\ [Next]_vars => TypeOK'
<1> SUFFICES ASSUME TypeOK, [Next]_vars PROVE TypeOK'
  OBVIOUS
<1>1. ASSUME NEW r \in Handlers, NEW c \in Calls, Arrive(r, c) \/ Refuse(r, c)
      PROVE  TypeOK'
  <2> DEFINE first == IF Arrive(r, c) THEN FirstPc(c) ELSE "invalid"
  <2>1. first \in Pcs /\ InItsHandler(first, c)
    BY CallFields DEF FirstPc, InItsHandler, Pcs, StagePcs, MountPcs, UnmountPcs, DonePcs
  <2>2. call' = [call EXCEPT ![r] = c] /\ pc' = [pc EXCEPT ![r] = first]
    BY <1>1 DEF Arrive, Refuse
  <2>3. first # "idle"
    BY <2>1 DEF Pcs, StagePcs, MountPcs, UnmountPcs, DonePcs
  <2>4. HandlersOK'
    BY <2>1, <2>2, <2>3, NoCallAssumption DEF TypeOK, HandlersOK, Busy
  <2> QED
    BY <1>1, <2>4 DEF Arrive, Refuse, TypeOK, NodeOK, nodeState
<1>2. ASSUME NEW r \in Handlers, Reply(r) PROVE TypeOK'
  BY <1>2 DEF Reply, TypeOK, NodeOK, HandlersOK, nodeState, Busy
<1>3. ASSUME NEW r \in Handlers, Cancel(r) PROVE TypeOK'
  BY <1>3 DEF Cancel, TypeOK, NodeOK, HandlersOK, nodeState, Busy
<1>4. CASE Crash
  <2>1. Unlinked(Inside) \in [Targets -> Seq(Mounts)]
    BY UnlinkedFacts, InsideAssumption DEF TypeOK
  <2>2. NodeOK'
    BY <1>4, <2>1 DEF Crash, TypeOK, NodeOK, DirStates
  <2> QED
    BY <1>4, <2>2, SpendType DEF Crash, DropCalls, TypeOK, HandlersOK, Busy
<1>5. CASE Reboot
  <2>1. NodeOK'
    BY <1>5 DEF Reboot, TypeOK, NodeOK, DirStates
  <2> QED
    BY <1>5, <2>1, SpendType DEF Reboot, DropCalls, TypeOK, HandlersOK, Busy
<1>6. CASE UNCHANGED vars
  BY <1>6 DEF vars, TypeOK, NodeOK, HandlersOK, Busy
<1> QED
  BY <1>1, <1>2, <1>3, <1>4, <1>5, <1>6, StepType DEF Next

(***************************************************************************)
(* Types are kept, and every handler stays in the call it serves.          *)
(***************************************************************************)
THEOREM TypeCorrect == Spec => []TypeOK
  BY InitType, NextType, PTL DEF Spec

-----------------------------------------------------------------------------
(* One volume's calls and another's. *)

\* A handler that takes a step serves a call.
LEMMA StepIsBusy ==
  ASSUME TypeOK, NEW r \in Handlers, Step(r)
  PROVE  Busy(r) /\ pc[r] # "idle"
  BY DEF TypeOK, HandlersOK, Step, LoadCredentials, Resolve, BeginPull, EndPull, Notify,
         CheckMount, MakeTarget, Bind, Remount, CheckUnmount, Unmount, RemoveTarget,
         StatStaging, RemoveStaging

\* A step of a handler touches nothing of another volume.
LEMMA StepTouches ==
  ASSUME TypeOK, NEW r \in Handlers, Step(r)
  PROVE  LET v == VolOf(call[r]) IN
         /\ \A w \in Volumes : w # v => dir'[w] = dir[w]
         /\ \A s \in Targets : VolumeOf[s] # v =>
              mnt'[s] = mnt[s] /\ (s \in target' <=> s \in target)
         /\ \A q \in Handlers : q # r => pc'[q] = pc[q]
         /\ call' = call /\ cancelled' = cancelled
         /\ \A q \in disturbed' : q \in disturbed \/ Serves(q, v)
<1> DEFINE v == VolOf(call[r])
<1>1. Busy(r) /\ pc[r] # "idle" /\ Serves(r, v) /\ v \in Volumes
  BY StepIsBusy, StepsOfCalls, CallFields DEF Serves
<1>2. pc[r] \in MountPcs \union UnmountPcs => call[r].tgt \in Targets /\ VolumeOf[call[r].tgt] = v
  BY <1>1, StepsOfCalls
<1>q. ASSUME ~BeginPull(r), ~EndPull(r), ~MakeTarget(r), ~Bind(r), ~Remount(r), ~Unmount(r),
             ~RemoveTarget(r), ~RemoveStaging(r)
      PROVE  UNCHANGED nodeState
  BY <1>q, QuietSteps DEF Step
<1>3. /\ call' = call /\ cancelled' = cancelled
      /\ \A q \in Handlers : q # r => pc'[q] = pc[q]
      /\ \A q \in disturbed' : q \in disturbed \/ q = r \/ q \in Pullers(v)
  <2>1. /\ call' = call /\ cancelled' = cancelled
        /\ \E next : Goto(r, next)
    BY StepMoves
  <2>2. \A q \in disturbed' : q \in disturbed \/ q = r \/ q \in Pullers(v)
    BY StepDisturbs
  <2> QED
    BY <2>1, <2>2 DEF Goto, TypeOK, HandlersOK
<1>4. \A w \in Volumes : w # v => dir'[w] = dir[w]
  <2>1. CASE BeginPull(r)
    BY <2>1 DEF BeginPull, TypeOK, NodeOK
  <2>2. CASE EndPull(r)
    BY <2>2 DEF EndPull, TypeOK, NodeOK
  <2>3. CASE RemoveTarget(r)
    BY <1>2, <2>3 DEF RemoveTarget, UnmountPcs, TypeOK, NodeOK
  <2>4. CASE RemoveStaging(r)
    BY <2>4 DEF RemoveStaging, TypeOK, NodeOK
  <2>5. CASE MakeTarget(r) \/ Bind(r) \/ Remount(r) \/ Unmount(r)
    BY <2>5 DEF MakeTarget, Bind, Remount, Unmount
  <2> QED
    BY <1>q, <2>1, <2>2, <2>3, <2>4, <2>5 DEF nodeState
<1>5. \A s \in Targets : VolumeOf[s] # v => (s \in target' <=> s \in target)
  <2>1. CASE MakeTarget(r)
    BY <1>2, <2>1 DEF MakeTarget, MountPcs
  <2>2. CASE RemoveTarget(r)
    BY <1>2, <2>2 DEF RemoveTarget, UnmountPcs
  <2>3. CASE BeginPull(r) \/ EndPull(r) \/ Bind(r) \/ Remount(r) \/ Unmount(r)
             \/ RemoveStaging(r)
    BY <2>3 DEF BeginPull, EndPull, Bind, Remount, Unmount, RemoveStaging
  <2> QED
    BY <1>q, <2>1, <2>2, <2>3 DEF nodeState
<1>6. \A s \in Targets : VolumeOf[s] # v => mnt'[s] = mnt[s]
  <2>1. CASE RemoveStaging(r)
    <3>1. mnt' = Unlinked({v}) \/ mnt' = mnt
      BY <2>1 DEF RemoveStaging
    <3>2. \A s \in Targets : VolumeOf[s] # v => Unlinked({v})[s] = mnt[s]
      BY <1>1, UnlinkedFacts DEF TypeOK
    <3> QED
      BY <3>1, <3>2
  <2>2. CASE Bind(r)
    BY <1>2, <2>2 DEF Bind, TypeOK, NodeOK, MountPcs
  <2>3. CASE Remount(r)
    BY <1>2, <2>3 DEF Remount, TypeOK, NodeOK, MountPcs
  <2>4. CASE Unmount(r)
    BY <1>2, <2>4 DEF Unmount, TypeOK, NodeOK, UnmountPcs
  <2>5. CASE BeginPull(r) \/ EndPull(r) \/ MakeTarget(r) \/ RemoveTarget(r)
    BY <2>5 DEF BeginPull, EndPull, MakeTarget, RemoveTarget
  <2> QED
    BY <1>q, <2>1, <2>2, <2>3, <2>4, <2>5 DEF nodeState
<1> QED
  BY <1>1, <1>3, <1>4, <1>5, <1>6 DEF Pullers

-----------------------------------------------------------------------------
(* Stacked mounts. *)

\* What counting the mounts takes for granted: nothing is mounted on a target
\* that is missing.
MountPointsExist == \A t \in Targets : mnt[t] # <<>> => t \in target

LEMMA StepMountPoints ==
  ASSUME TypeOK, MountPointsExist, NEW r \in Handlers, Step(r)
  PROVE  MountPointsExist'
<1> DEFINE t == call[r].tgt
<1>1. \A s \in Targets : mnt[s] \in Seq(Mounts)
  BY DEF TypeOK, NodeOK
<1>2. CASE mnt' = mnt /\ target \subseteq target'
  BY <1>2 DEF MountPointsExist
<1>3. CASE RemoveTarget(r)
  BY <1>3 DEF RemoveTarget, MountPointsExist
<1>4. CASE Bind(r) \/ Remount(r) \/ Unmount(r)
  <2>1. /\ target' = target
        /\ \A s \in Targets : s # t => mnt'[s] = mnt[s]
        /\ mnt' = mnt \/ t \in target \/ mnt[t] # <<>>
    BY <1>4 DEF Bind, Remount, Unmount, TypeOK, NodeOK
  <2> QED
    BY <2>1 DEF MountPointsExist
<1>5. CASE RemoveStaging(r) /\ mnt' # mnt
  <2>1. VolOf(call[r]) \in Volumes
    BY StepIsBusy, StepsOfCalls, CallFields
  <2>2. target' = target /\ mnt' = Unlinked({VolOf(call[r])})
    BY <1>5 DEF RemoveStaging
  <2>3. \A s \in Targets : mnt'[s] \in Seq(Mounts) /\ Len(mnt'[s]) = Len(mnt[s])
    BY <2>1, <2>2, UnlinkedFacts DEF TypeOK
  <2>4. \A s \in Targets : mnt[s] = <<>> => mnt'[s] = <<>>
    BY <1>1, <2>3, EmptyFacts
  <2> QED
    BY <2>2, <2>4 DEF MountPointsExist
<1> QED
  BY <1>2, <1>3, <1>4, <1>5
  DEF Step, LoadCredentials, Resolve, BeginPull, EndPull, Notify, CheckMount, MakeTarget,
      CheckUnmount, StatStaging, RemoveStaging, nodeState

LEMMA NextMountPoints == TypeOK /\ MountPointsExist /\ [Next]_vars => MountPointsExist'
<1> SUFFICES ASSUME TypeOK, MountPointsExist, [Next]_vars PROVE MountPointsExist'
  OBVIOUS
<1>1. CASE UNCHANGED <<target, mnt>>
  BY <1>1 DEF MountPointsExist
<1>2. CASE Reboot
  BY <1>2 DEF Reboot, MountPointsExist
<1>3. CASE Crash
  <2>1. \A s \in Targets : /\ mnt[s] \in Seq(Mounts) /\ mnt'[s] \in Seq(Mounts)
                          /\ Len(mnt'[s]) = Len(mnt[s])
    BY <1>3, InsideAssumption, UnlinkedFacts DEF Crash, TypeOK, NodeOK
  <2> QED
    BY <1>3, <2>1, EmptyFacts DEF Crash, MountPointsExist
<1> QED
  BY <1>1, <1>2, <1>3, StepMountPoints DEF Next, Arrive, Refuse, Reply, Cancel, nodeState, vars

LEMMA MountingFacts ==
  ASSUME NEW S, S \subseteq Handlers
  PROVE  IsFiniteSet(S) /\ Cardinality(S) \in Nat /\ Cardinality(S) <= Cardinality(Handlers)
  BY HandlersAssumption, FS_Subset, FS_CardinalityType

\* A target keeps within the bound if nothing is mounted on it and no call
\* comes to the point of mounting.
LEMMA StackKept ==
  ASSUME TypeOK, TypeOK', StackBound, NEW s \in Targets,
         Len(mnt'[s]) <= Len(mnt[s]), Mounting(s)' \subseteq Mounting(s)
  PROVE  Len(mnt'[s]) + Cardinality(Mounting(s)') <= Cardinality(Handlers)
<1>1. Mounting(s) \subseteq Handlers
  BY DEF Mounting
<1>2. IsFiniteSet(Mounting(s)) /\ Cardinality(Mounting(s)) \in Nat
  BY <1>1, MountingFacts
<1>3. Cardinality(Mounting(s)') \in Nat /\ Cardinality(Mounting(s)') <= Cardinality(Mounting(s))
  BY <1>2, FS_Subset, FS_CardinalityType
<1>4. Len(mnt[s]) \in Nat /\ Len(mnt'[s]) \in Nat /\ Cardinality(Handlers) \in Nat
  BY HandlersAssumption, FS_CardinalityType DEF TypeOK, NodeOK
<1>5. Len(mnt[s]) + Cardinality(Mounting(s)) <= Cardinality(Handlers)
  BY DEF StackBound
<1> QED
  BY <1>2, <1>3, <1>4, <1>5

\* Only CheckMount brings a call to the point of mounting.
LEMMA OnlyCheckMountMounts ==
  ASSUME TypeOK, NEW r \in Handlers, Step(r), ~CheckMount(r), NEW s
  PROVE  Mounting(s)' \subseteq Mounting(s)
<1>1. call' = call
  BY StepMoves
<1>2. /\ LoadCredentials(r) => Goto(r, "resolve") \/ Goto(r, "internal")
      /\ Resolve(r) => Goto(r, "pull") \/ Goto(r, "internal")
      /\ Notify(r) => Goto(r, "ok") \/ Goto(r, "checkMount") \/ Goto(r, "internal")
  BY DEF LoadCredentials, Resolve, Notify, Succeeds, Fails
<1>3. BeginPull(r) => Goto(r, "pulling") \/ Goto(r, "internal")
  BY DEF BeginPull, Succeeds, Fails
<1>4. EndPull(r) => Goto(r, "notify") \/ Goto(r, "internal")
  BY DEF EndPull, Succeeds, Fails
<1>5. /\ MakeTarget(r) => pc[r] = "mkdir" /\ (Goto(r, "bind") \/ Goto(r, "internal"))
      /\ Bind(r) => Goto(r, "remount") \/ Goto(r, "internal")
      /\ Remount(r) => Goto(r, "ok") \/ Goto(r, "internal")
  BY DEF MakeTarget, Bind, Remount, Succeeds, Fails
<1>6. /\ CheckUnmount(r) =>
           Goto(r, "removeTarget") \/ Goto(r, "unmount") \/ Goto(r, "internal")
      /\ Unmount(r) => Goto(r, "removeTarget") \/ Goto(r, "internal")
  BY DEF CheckUnmount, Unmount, Succeeds, Fails
<1>7. /\ RemoveTarget(r) => Goto(r, "statStaging") \/ Goto(r, "internal")
      /\ StatStaging(r) => Goto(r, "removeStaging") \/ Goto(r, "ok")
      /\ RemoveStaging(r) => Goto(r, "ok") \/ Goto(r, "internal")
  BY DEF RemoveTarget, StatStaging, RemoveStaging, Succeeds, Fails
<1>8. \E next : /\ Goto(r, next)
                /\ next \in {"mkdir", "bind"} => pc[r] = "mkdir"
  BY <1>2, <1>3, <1>4, <1>5, <1>6, <1>7 DEF Step
<1> QED
  BY <1>1, <1>8 DEF Mounting, Goto, TypeOK, HandlersOK

LEMMA StepStack ==
  ASSUME TypeOK, TypeOK', MountPointsExist, StackBound, NEW r \in Handlers, Step(r)
  PROVE  StackBound'
<1> DEFINE c == call[r]  v == VolOf(c)  t == c.tgt
<1>0. pc[r] # "idle"
  BY DEF Step, LoadCredentials, Resolve, BeginPull, EndPull, Notify, CheckMount,
         MakeTarget, Bind, Remount, CheckUnmount, Unmount, RemoveTarget,
         StatStaging, RemoveStaging
<1>b. pc[r] \in MountPcs \union UnmountPcs => t \in Targets
  BY <1>0, StepsOfCalls
<1>p. pc[r] \in MountPcs => c = [op |-> "publish", tgt |-> t]
  BY <1>0, StepsOfCalls DEF InItsHandler, Calls
<1>s. /\ mnt \in [Targets -> Seq(Mounts)] /\ \A s \in Targets : Len(mnt[s]) \in Nat
      /\ Cardinality(Handlers) \in Nat
  BY HandlersAssumption, FS_CardinalityType DEF TypeOK, NodeOK
<1>1. CASE CheckMount(r)
  <2>1. mnt' = mnt /\ call' = call
    BY <1>1 DEF CheckMount, nodeState, KeepCall
  <2> SUFFICES ASSUME NEW s \in Targets
               PROVE  Len(mnt'[s]) + Cardinality(Mounting(s)') <= Cardinality(Handlers)
    BY DEF StackBound
  <2>2. CASE mnt[s] = <<>>
    <3>1. Len(mnt'[s]) = 0
      BY <2>1, <2>2
    <3>2. Mounting(s)' \subseteq Handlers
      BY DEF Mounting
    <3> QED
      BY <1>s, <3>1, <3>2, MountingFacts
  <2>3. CASE mnt[s] # <<>>
    <3>1. s \in target
      BY <2>3 DEF MountPointsExist
    <3>2. s = t => pc' = [pc EXCEPT ![r] = "ok"] \/ pc' = [pc EXCEPT ![r] = "internal"]
      BY <1>1, <2>3, <3>1 DEF CheckMount, Succeeds, Fails, Goto
    <3>3. s # t => r \notin Mounting(s)'
      BY <2>1 DEF Mounting
    <3>4. \A q \in Handlers : q # r => pc'[q] = pc[q]
      BY <1>1 DEF CheckMount, Succeeds, Fails, Goto, TypeOK, HandlersOK
    <3>5. Mounting(s)' \subseteq Mounting(s)
      BY <2>1, <3>2, <3>3, <3>4 DEF Mounting, TypeOK, HandlersOK
    <3> QED
      BY <1>s, <2>1, <3>5, StackKept
  <2> QED
    BY <2>2, <2>3
<1>2. CASE Bind(r) /\ mnt' # mnt
  <2> DEFINE new == [live |-> TRUE, options |-> {}]
  <2>1. /\ mnt' = [mnt EXCEPT ![t] = <<new>> \o @] /\ pc[r] = "bind"
        /\ pc' = [pc EXCEPT ![r] = "remount"] /\ call' = call
    BY <1>2 DEF Bind, Succeeds, Goto, KeepCall
  <2>2. t \in Targets /\ new \in Mounts
    BY <1>b, <2>1 DEF MountPcs, Mounts
  <2>3. Len(mnt'[t]) = Len(mnt[t]) + 1
    BY <1>s, <2>1, <2>2, PushFacts
  <2>4. ASSUME NEW s \in Targets, s = t
        PROVE  Len(mnt'[s]) + Cardinality(Mounting(s)') <= Cardinality(Handlers)
    <3>1. r \in Mounting(s) /\ Mounting(s) \subseteq Handlers
      BY <1>p, <2>1, <2>4 DEF Mounting, MountPcs
    <3>2. Mounting(s)' = Mounting(s) \ {r}
      BY <2>1 DEF Mounting, TypeOK, HandlersOK
    <3>3. /\ Cardinality(Mounting(s)) \in Nat
          /\ Cardinality(Mounting(s)') = Cardinality(Mounting(s)) - 1
      BY <3>1, <3>2, MountingFacts, FS_RemoveElement
    <3>4. Len(mnt[s]) + Cardinality(Mounting(s)) <= Cardinality(Handlers)
      BY DEF StackBound
    <3> QED
      BY <1>s, <2>3, <2>4, <3>3, <3>4
  <2>5. ASSUME NEW s \in Targets, s # t
        PROVE  Len(mnt'[s]) + Cardinality(Mounting(s)') <= Cardinality(Handlers)
    <3>1. mnt'[s] = mnt[s]
      BY <1>s, <2>1, <2>5
    <3>2. Mounting(s)' \subseteq Mounting(s)
      BY <1>2, OnlyCheckMountMounts DEF Bind, CheckMount
    <3> QED
      BY <1>s, <3>1, <3>2, StackKept
  <2> SUFFICES ASSUME NEW s \in Targets
               PROVE  Len(mnt'[s]) + Cardinality(Mounting(s)') <= Cardinality(Handlers)
    BY DEF StackBound
  <2> QED
    BY <2>4, <2>5
<1>3. CASE ~CheckMount(r) /\ ~(Bind(r) /\ mnt' # mnt)
  <2> SUFFICES ASSUME NEW s \in Targets
               PROVE  Len(mnt'[s]) + Cardinality(Mounting(s)') <= Cardinality(Handlers)
    BY DEF StackBound
  <2> SUFFICES Len(mnt'[s]) <= Len(mnt[s])
    BY <1>3, OnlyCheckMountMounts, StackKept
  <2>1. CASE mnt' = mnt
    BY <1>s, <2>1
  <2>2. CASE Remount(r) /\ mnt' # mnt
    <3> DEFINE top == [live |-> Head(mnt[t]).live, options |-> MountOptions(t)]
    <3>1. mnt[t] # <<>> /\ mnt' = [mnt EXCEPT ![t] = <<top>> \o Tail(@)]
      BY <2>2 DEF Remount
    <3>2. t \in Targets
      BY <2>2, <1>b DEF Remount, MountPcs
    <3>3. top \in Mounts /\ Tail(mnt[t]) \in Seq(Mounts)
      BY <1>s, <3>1, <3>2, RemountedFacts, PopFacts
    <3>4. Len(<<top>> \o Tail(mnt[t])) = Len(mnt[t])
      BY <1>s, <3>1, <3>2, <3>3, PushFacts, PopFacts
    <3> QED
      BY <1>s, <3>1, <3>2, <3>4
  <2>3. CASE Unmount(r) /\ mnt' # mnt
    <3>1. mnt[t] # <<>> /\ mnt' = [mnt EXCEPT ![t] = Tail(@)]
      BY <2>3 DEF Unmount
    <3>2. t \in Targets
      BY <2>3, <1>b DEF Unmount, UnmountPcs
    <3>3. Len(Tail(mnt[t])) <= Len(mnt[t])
      BY <1>s, <3>1, <3>2, PopFacts
    <3> QED
      BY <1>s, <3>1, <3>2, <3>3
  <2>4. CASE mnt' = Unlinked({v})
    <3>1. v \in Volumes
      BY <1>0, StepsOfCalls, CallFields
    <3> QED
      BY <1>s, <2>4, <3>1, UnlinkedFacts DEF TypeOK
  <2> QED
    BY <1>3, <2>1, <2>2, <2>3, <2>4
    DEF Step, LoadCredentials, Resolve, BeginPull, EndPull, Notify, MakeTarget, Bind,
        Remount, CheckUnmount, Unmount, RemoveTarget, StatStaging, RemoveStaging, nodeState
<1> QED
  BY <1>1, <1>2, <1>3

LEMMA NextStack ==
  TypeOK /\ TypeOK' /\ MountPointsExist /\ StackBound /\ [Next]_vars => StackBound'
<1> SUFFICES ASSUME TypeOK, TypeOK', MountPointsExist, StackBound, [Next]_vars
             PROVE  StackBound'
  OBVIOUS
<1>0. \A s \in Targets : Len(mnt[s]) \in Nat
  BY DEF TypeOK, NodeOK
<1>1. CASE \E r \in Handlers : Step(r)
  BY <1>1, StepStack
<1>2. CASE (\E r \in Handlers : (\E c \in Calls : Arrive(r, c) \/ Refuse(r, c))
                               \/ Reply(r) \/ Cancel(r))
           \/ Crash \/ Reboot \/ UNCHANGED vars
  <2> SUFFICES ASSUME NEW s \in Targets
               PROVE  Len(mnt'[s]) + Cardinality(Mounting(s)') <= Cardinality(Handlers)
    BY DEF StackBound
  <2> SUFFICES Len(mnt'[s]) <= Len(mnt[s]) /\ Mounting(s)' \subseteq Mounting(s)
    BY StackKept
  <2>1. Len(mnt'[s]) <= Len(mnt[s])
    <3>1. CASE Crash
      BY <1>0, <3>1, UnlinkedFacts, InsideAssumption DEF Crash, TypeOK
    <3> QED
      BY <1>0, <1>2, <3>1 DEF Arrive, Refuse, Reply, Cancel, Reboot, nodeState, vars
  <2>2. CASE Crash \/ Reboot \/ UNCHANGED vars
    BY <2>1, <2>2 DEF Crash, Reboot, DropCalls, vars, Mounting
  <2>3. CASE \E r \in Handlers : (\E c \in Calls : Arrive(r, c) \/ Refuse(r, c))
                                \/ Reply(r) \/ Cancel(r)
    <3>1. PICK r \in Handlers : (\E c \in Calls : Arrive(r, c) \/ Refuse(r, c))
                                \/ Reply(r) \/ Cancel(r)
      BY <2>3
    <3>2. /\ \A q \in Handlers : q # r => pc'[q] = pc[q] /\ call'[q] = call[q]
          /\ pc'[r] \notin {"mkdir", "bind"} \/ (pc' = pc /\ call' = call)
      BY <3>1 DEF Arrive, Refuse, Reply, Cancel, FirstPc, TypeOK, HandlersOK
    <3> QED
      BY <2>1, <3>2 DEF Mounting
  <2> QED
    BY <1>2, <2>1, <2>2, <2>3
<1> QED
  BY <1>1, <1>2 DEF Next

(***************************************************************************)
(* Publish calls that all saw the target not mounted stack at most as many *)
(* mounts on it as there are calls in progress at one time.  The invariant *)
(* counts the calls past the check with the mounts, and needs              *)
(* MountPointsExist: a target that is missing has nothing mounted on it.   *)
(***************************************************************************)
THEOREM StacksAreBounded == Spec => []StackBound
<1>1. Init => StackBound
  <2> SUFFICES ASSUME Init, NEW s \in Targets
               PROVE  Len(mnt[s]) + Cardinality(Mounting(s)) <= Cardinality(Handlers)
    BY DEF StackBound
  <2>1. Len(mnt[s]) = 0
    BY DEF Init
  <2>2. Mounting(s) \subseteq Handlers
    BY DEF Mounting
  <2> QED
    BY <2>1, <2>2, MountingFacts, HandlersAssumption, FS_CardinalityType
<1>2. Init => MountPointsExist
  BY DEF Init, MountPointsExist
<1> QED
  BY <1>1, <1>2, InitType, NextType, NextMountPoints, NextStack, PTL DEF Spec
=============================================================================
