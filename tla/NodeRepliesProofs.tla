--------------------------- MODULE NodeRepliesProofs ---------------------------
(***************************************************************************)
(* The OK of a call that had its volume to itself is true: for any         *)
(* volumes, targets, handlers and faults, and whatever is called.          *)
(*                                                                         *)
(* The invariant follows such a call through its steps: what it has seen   *)
(* or done is still so when it replies, because every step of another      *)
(* handler works for another volume and touches nothing of this one.  What *)
(* the call found when it arrived is left open.                            *)
(***************************************************************************)
EXTENDS NodeReplies, NodeServerProofs

Alone(r) == Busy(r) /\ r \notin overlapped

\* What a call has achieved at each of its steps.
Achieved(r) ==
  LET c == call[r]
      v == VolOf(c)
  IN
  /\ pc[r] = "notify" => dir[v] = "complete"
  /\ pc[r] \in MountPcs /\ v \in Ephemeral => dir[v] = "complete"
  /\ pc[r] \in {"statStaging", "removeStaging"} /\ c.op = "unpublish" =>
       mnt[c.tgt] = <<>> /\ c.tgt \notin target
  /\ pc[r] = "ok" => Promised(c)

\* Calls that share their volume are noted, and only those disturb a pull.
OverlapsNoted ==
  /\ \A r \in Handlers : Busy(r) /\ Beside(r) => r \in overlapped
  /\ \A r \in overlapped : r \in Handlers /\ Busy(r)
  /\ disturbed \subseteq overlapped

RInv == TypeOK /\ OverlapsNoted /\ \A r \in Handlers : Alone(r) => Achieved(r)

-----------------------------------------------------------------------------
\* What is noted after a step, of the calls that were in progress before it.
LEMMA Noted ==
  ASSUME NoteOverlaps
  PROVE  /\ \A r \in Handlers : Busy(r)' /\ Beside(r)' => r \in overlapped'
         /\ \A r \in overlapped' : r \in Handlers /\ Busy(r)'
         /\ \A r \in Handlers : r \in overlapped /\ Busy(r)' => r \in overlapped'
         /\ \A r \in Handlers : Alone(r)' => r \notin overlapped
  BY DEF NoteOverlaps, Alone

\* A fault of Stat stays a fault.
LEMMA FaultsGrow ==
  ASSUME TypeOK, faults' = faults \/ \E f : Spend(f)
  PROVE  StatMayHaveFailed => StatMayHaveFailed'
  BY DEF TypeOK, Spend, StatMayHaveFailed

\* What has been achieved stays so while the volume is left alone.
LEMMA AchievedStays ==
  ASSUME TypeOK, NEW r \in Handlers, Busy(r), Achieved(r),
         call'[r] = call[r], pc'[r] = pc[r],
         dir'[VolOf(call[r])] = dir[VolOf(call[r])],
         \A t \in Targets : VolumeOf[t] = VolOf(call[r]) =>
           mnt'[t] = mnt[t] /\ (t \in target' <=> t \in target),
         StatMayHaveFailed => StatMayHaveFailed'
  PROVE  Achieved(r)'
<1>1. PICK c : c = call[r]
  OBVIOUS
<1>2. PICK v : v = VolOf(c)
  OBVIOUS
<1>3. c.op \in {"publish", "unpublish"} => c.tgt \in Targets /\ VolumeOf[c.tgt] = v
  BY <1>1, <1>2, CallFields DEF TypeOK, HandlersOK, Busy
<1>4. VolOf(call'[r]) = v /\ call'[r] = c
  BY <1>1, <1>2 DEF VolOf
<1>5. c.op \in {"publish", "unpublish"} =>
        mnt'[c.tgt] = mnt[c.tgt] /\ (c.tgt \in target' <=> c.tgt \in target)
  BY <1>1, <1>2, <1>3
<1>6. dir'[v] = dir[v]
  BY <1>1, <1>2
<1>7. Promised(c) => Promised(c)'
  BY <1>2, <1>5, <1>6 DEF Promised, VolOf
<1> QED
  BY <1>1, <1>2, <1>4, <1>5, <1>6, <1>7 DEF Achieved

-----------------------------------------------------------------------------
\* The step of a call that is alone.
LEMMA OwnStep ==
  ASSUME RInv, TypeOK', NEW r \in Handlers, Step(r), Alone(r), NEW c, call[r] = c,
         NEW v, v = VolOf(c), StatMayHaveFailed => StatMayHaveFailed'
  PROVE  Achieved(r)'
<1> DEFINE t == c.tgt
<1>1. /\ TypeOK /\ Busy(r) /\ pc[r] # "idle" /\ c \in Calls /\ InItsHandler(pc[r], c)
      /\ v \in Volumes /\ c.op \in {"stage", "unstage", "publish", "unpublish"}
      /\ c.op \in {"publish", "unpublish"} => t \in Targets /\ v = VolumeOf[t]
  BY StepIsBusy, StepsOfCalls, CallFields DEF RInv
<1>2. Achieved(r) /\ r \notin disturbed
  BY DEF RInv, OverlapsNoted, Alone
<1>3. /\ dir \in [Volumes -> DirStates] /\ target \subseteq Targets
      /\ mnt \in [Targets -> Seq(Mounts)] /\ pc \in [Handlers -> {"idle"} \union Pcs]
      /\ mnt' \in [Targets -> Seq(Mounts)]
  BY <1>1 DEF TypeOK, NodeOK, HandlersOK
<1>4. call'[r] = c /\ VolOf(c)' = v
  BY StepMoves DEF VolOf
<1>5. \A f : Fails(r, f) => pc'[r] = "internal"
  BY <1>3 DEF Fails, Goto
<1>6. \A next : Succeeds(r, next) \/ Goto(r, next) => pc'[r] = next
  BY <1>3 DEF Succeeds, Goto
\* Before a step that takes nothing for granted.
<1>7. pc'[r] \in {"resolve", "pull", "pulling", "internal", "unmount", "removeTarget"}
        => Achieved(r)'
  BY DEF Achieved, MountPcs
<1>8. CASE LoadCredentials(r) \/ Resolve(r) \/ BeginPull(r) \/ CheckUnmount(r) \/ Unmount(r)
  <2>1. pc'[r] \in {"resolve", "pull", "pulling", "internal", "unmount", "removeTarget"}
    BY <1>5, <1>6, <1>8 DEF LoadCredentials, Resolve, BeginPull, CheckUnmount, Unmount
  <2> QED
    BY <1>7, <2>1
<1>9. CASE EndPull(r)
  <2>1. \/ pc'[r] = "notify" /\ dir' = [dir EXCEPT ![v] = "complete"]
        \/ pc'[r] = "internal"
    BY <1>2, <1>5, <1>6, <1>9 DEF EndPull
  <2>2. ASSUME pc'[r] = "notify", dir' = [dir EXCEPT ![v] = "complete"]
        PROVE  Achieved(r)'
    BY <1>1, <1>3, <1>4, <2>2 DEF Achieved, MountPcs
  <2> QED
    BY <1>7, <2>1, <2>2
<1>10. CASE Notify(r)
  <2>1. /\ pc[r] = "notify" /\ UNCHANGED nodeState
        /\ pc'[r] \in {IF c.op = "stage" THEN "ok" ELSE "checkMount", "internal"}
    BY <1>5, <1>6, <1>10 DEF Notify
  <2>2. c.op \in {"stage", "publish"} /\ dir'[v] = "complete"
    BY <1>1, <1>2, <2>1 DEF InItsHandler, StagePcs, Achieved, nodeState
  <2>3. ASSUME pc'[r] = IF c.op = "stage" THEN "ok" ELSE "checkMount"
        PROVE  Achieved(r)'
    BY <1>4, <2>2, <2>3 DEF Achieved, Promised, MountPcs
  <2> QED
    BY <1>7, <2>1, <2>3
<1>11. CASE CheckMount(r) \/ MakeTarget(r)
  <2>1. /\ pc[r] \in MountPcs /\ dir' = dir /\ mnt' = mnt
        /\ \/ mnt[t] # <<>> /\ pc'[r] = "ok"
           \/ pc'[r] \in {"mkdir", "bind", "internal"}
    BY <1>5, <1>6, <1>11 DEF CheckMount, MakeTarget, MountPcs, nodeState
  <2>2. c.op = "publish" /\ (v \in Ephemeral => dir'[v] = "complete")
    BY <1>1, <1>2, <2>1 DEF InItsHandler, Achieved
  <2>3. ASSUME pc'[r] \in {"mkdir", "bind"} PROVE Achieved(r)'
    BY <1>4, <2>2, <2>3 DEF Achieved, MountPcs
  <2>4. ASSUME mnt'[t] # <<>>, pc'[r] = "ok" PROVE Achieved(r)'
    BY <1>4, <2>2, <2>4 DEF Achieved, Promised, MountPcs
  <2> QED
    BY <1>7, <2>1, <2>3, <2>4
<1>12. CASE Bind(r)
  <2>1. /\ pc[r] \in MountPcs /\ dir' = dir /\ pc'[r] \in {"remount", "internal"}
    BY <1>5, <1>6, <1>12 DEF Bind, MountPcs
  <2>2. v \in Ephemeral => dir'[v] = "complete"
    BY <1>2, <2>1 DEF Achieved
  <2>3. ASSUME pc'[r] = "remount" PROVE Achieved(r)'
    BY <1>4, <2>2, <2>3 DEF Achieved, MountPcs
  <2> QED
    BY <1>7, <2>1, <2>3
<1>13. CASE Remount(r)
  <2> DEFINE top == [live |-> Head(mnt[t]).live, options |-> MountOptions(t)]
  <2>1. /\ pc[r] \in MountPcs /\ dir' = dir
        /\ \/ /\ pc'[r] = "ok" /\ mnt[t] # <<>>
              /\ mnt' = [mnt EXCEPT ![t] = <<top>> \o Tail(@)]
           \/ pc'[r] = "internal"
    BY <1>5, <1>6, <1>13 DEF Remount, MountPcs
  <2>2. c.op = "publish" /\ t \in Targets /\ (v \in Ephemeral => dir'[v] = "complete")
    BY <1>1, <1>2, <2>1 DEF InItsHandler, Achieved
  <2>3. ASSUME pc'[r] = "ok", mnt[t] # <<>>, mnt' = [mnt EXCEPT ![t] = <<top>> \o Tail(@)]
        PROVE  Achieved(r)'
    <3>1. mnt[t] \in Seq(Mounts) /\ top \in Mounts /\ Tail(mnt[t]) \in Seq(Mounts)
      BY <1>3, <2>2, <2>3, RemountedFacts, PopFacts
    <3>2. mnt'[t] = <<top>> \o Tail(mnt[t])
      BY <1>3, <2>2, <2>3
    <3> HIDE DEF top
    <3>3. mnt'[t] \in Seq(Mounts) /\ Len(mnt'[t]) = Len(Tail(mnt[t])) + 1
          /\ Len(Tail(mnt[t])) \in Nat
      BY <3>1, <3>2, PushFacts
    <3>4. mnt'[t] # <<>>
      BY <3>3, EmptyFacts
    <3> QED
      BY <1>4, <2>2, <2>3, <3>4 DEF Achieved, Promised, MountPcs
  <2> QED
    BY <1>7, <2>1, <2>3
<1>14. CASE RemoveTarget(r)
  <2>1. /\ pc[r] = "removeTarget"
        /\ \/ pc'[r] = "statStaging" /\ mnt' = mnt /\ mnt[t] = <<>> /\ target' = target \ {t}
           \/ pc'[r] = "internal"
    BY <1>5, <1>6, <1>14 DEF RemoveTarget
  <2>2. ASSUME pc'[r] = "statStaging", mnt'[t] = <<>>, t \notin target'
        PROVE  Achieved(r)'
    BY <1>4, <2>2 DEF Achieved, MountPcs
  <2> QED
    BY <1>7, <2>1, <2>2
<1>15. CASE StatStaging(r)
  <2>1. /\ pc[r] = "statStaging" /\ UNCHANGED nodeState
        /\ \/ pc'[r] = "removeStaging"
           \/ pc'[r] = "ok" /\ (v \notin Ephemeral \/ dir[v] = "absent")
           \/ pc'[r] = "ok" /\ Spend("stat")
    BY <1>6, <1>15 DEF StatStaging
  <2>2. c.op = "unpublish" /\ mnt'[t] = <<>> /\ t \notin target'
    BY <1>1, <1>2, <2>1 DEF InItsHandler, UnmountPcs, Achieved, nodeState
  <2>3. Spend("stat") => StatMayHaveFailed'
    BY <1>1 DEF Spend, StatMayHaveFailed, TypeOK
  <2>4. pc'[r] = "removeStaging" => Achieved(r)'
    BY <1>4, <2>2 DEF Achieved, MountPcs
  <2>5. ASSUME pc'[r] = "ok", v \notin Ephemeral \/ dir'[v] = "absent" \/ StatMayHaveFailed'
        PROVE  Achieved(r)'
    BY <1>4, <2>2, <2>5 DEF Achieved, Promised, MountPcs
  <2> QED
    BY <2>1, <2>3, <2>4, <2>5 DEF nodeState
<1>16. CASE RemoveStaging(r)
  <2>1. /\ pc[r] = "removeStaging" /\ target' = target
        /\ \/ /\ pc'[r] = "ok" /\ dir' = [dir EXCEPT ![v] = "absent"]
              /\ mnt' = Unlinked({v})
           \/ pc'[r] = "internal"
    BY <1>5, <1>6, <1>16 DEF RemoveStaging
  <2>2. c.op = "unstage" \/ (c.op = "unpublish" /\ mnt[t] = <<>> /\ t \notin target)
    BY <1>1, <1>2, <2>1 DEF InItsHandler, Achieved
  <2>3. ASSUME pc'[r] = "ok", dir' = [dir EXCEPT ![v] = "absent"], mnt' = Unlinked({v})
        PROVE  Achieved(r)'
    <3>1. dir'[v] = "absent"
      BY <1>1, <1>3, <2>3
    <3>2. c.op = "unpublish" => mnt'[t] = <<>> /\ t \notin target'
      <4>1. c.op = "unpublish" => Len(mnt'[t]) = Len(mnt[t]) /\ t \in Targets /\ mnt[t] = <<>>
        BY <1>1, <2>2, <2>3, UnlinkedFacts DEF TypeOK
      <4> QED
        BY <1>3, <2>1, <2>2, <4>1, EmptyFacts
    <3> QED
      BY <1>4, <2>2, <2>3, <3>1, <3>2 DEF Achieved, Promised, MountPcs
  <2> QED
    BY <1>7, <2>1, <2>3
<1> QED
  BY <1>8, <1>9, <1>10, <1>11, <1>12, <1>13, <1>14, <1>15, <1>16 DEF Step

\* A pull is disturbed by a call that works for its volume too.
LEMMA StepNotesOverlaps ==
  ASSUME RInv, NEW r \in Handlers, Step(r), NoteOverlaps
  PROVE  OverlapsNoted'
<1> DEFINE v == VolOf(call[r])
<1>1. TypeOK /\ Busy(r) /\ call' = call
  BY StepIsBusy, StepMoves DEF RInv
<1>2. \A q \in disturbed' :
        q \in disturbed \/ \E other \in Pullers(v) : other # r /\ q \in {other, r}
  <2>1. CASE BeginPull(r)
    BY <2>1 DEF BeginPull, Pullers
  <2>2. CASE EndPull(r)
    BY <2>2 DEF EndPull
  <2>3. CASE RemoveStaging(r)
    BY <2>3 DEF RemoveStaging, Pullers
  <2> QED
    BY <2>1, <2>2, <2>3, StepKeepsCall DEF KeepCall
<1>3. \A other \in Pullers(v) : other # r =>
        /\ other \in Handlers /\ Busy(other)
        /\ Beside(other) /\ Beside(r)
  BY <1>1 DEF Pullers, Beside, Serves
<1>4. \A q \in Handlers : Busy(q)' <=> Busy(q)
  BY <1>1 DEF Busy
<1>5. disturbed' \subseteq overlapped'
  BY <1>1, <1>2, <1>3, <1>4, Noted DEF RInv, OverlapsNoted
<1> QED
  BY <1>5, Noted DEF OverlapsNoted

\* Whatever a handler does, the others that are alone stay where they are.
LEMMA StepInv ==
  ASSUME RInv, TypeOK', NEW r \in Handlers, Step(r), NoteOverlaps
  PROVE  RInv'
<1> DEFINE v == VolOf(call[r])
<1>1. TypeOK /\ Busy(r) /\ call' = call
  BY StepIsBusy, StepMoves DEF RInv
<1>2. StatMayHaveFailed => StatMayHaveFailed'
  BY <1>1, StepMoves, FaultsGrow
<1>3. ASSUME NEW q \in Handlers, Alone(q)' PROVE Achieved(q)'
  <2>1. Alone(q) /\ ~Beside(q)
    BY <1>1, <1>3, Noted DEF RInv, OverlapsNoted, Alone, Busy
  <2>2. CASE q = r
    BY <1>2, <2>1, <2>2, OwnStep
  <2>3. CASE q # r
    <3>1. VolOf(call[q]) # v /\ VolOf(call[q]) \in Volumes
      BY <1>1, <2>1, <2>3, CallFields DEF Beside, Serves, Alone, Busy, TypeOK, HandlersOK
    <3>2. /\ dir'[VolOf(call[q])] = dir[VolOf(call[q])]
          /\ \A t \in Targets : VolumeOf[t] = VolOf(call[q]) =>
               mnt'[t] = mnt[t] /\ (t \in target' <=> t \in target)
          /\ pc'[q] = pc[q]
      BY <1>1, <2>3, <3>1, StepTouches
    <3> QED
      BY <1>1, <1>2, <2>1, <3>2, AchievedStays DEF RInv, Alone
  <2> QED
    BY <2>2, <2>3
<1> QED
  BY <1>3, StepNotesOverlaps DEF RInv

\* Requests and replies touch nothing of the node, and no other call.
LEMMA CallInv ==
  ASSUME RInv, TypeOK', NEW r \in Handlers, NoteOverlaps,
         \/ \E c \in Calls : Arrive(r, c) \/ Refuse(r, c)
         \/ Reply(r) \/ Cancel(r)
  PROVE  RInv'
<1>1. /\ TypeOK /\ UNCHANGED <<nodeState, faults>>
      /\ \A q \in Handlers : q # r => call'[q] = call[q] /\ pc'[q] = pc[q]
      /\ disturbed' \subseteq disturbed
  BY DEF Arrive, Refuse, Reply, Cancel, RInv, TypeOK, HandlersOK
<1>2. r \in disturbed' => Busy(r) /\ Busy(r)'
  BY DEF Arrive, Refuse, Reply, Cancel, RInv, OverlapsNoted, Busy
<1>3. ASSUME NEW q \in Handlers, Alone(q)', call'[q] = call[q], pc'[q] = pc[q]
      PROVE  Achieved(q)'
  <2>1. Alone(q)
    BY <1>3, Noted DEF Alone, Busy
  <2> QED
    BY <1>1, <1>3, <2>1, AchievedStays DEF RInv, Alone, nodeState, StatMayHaveFailed
<1>4. Alone(r)' => Achieved(r)'
  <2>1. CASE \E c \in Calls : Arrive(r, c) \/ Refuse(r, c)
    <3>1. PICK c \in Calls : Arrive(r, c) \/ Refuse(r, c)
      BY <2>1
    <3>2. /\ call'[r] = c /\ VolOf(c)' = VolOf(c)
          /\ pc'[r] \in {FirstPc(c), "invalid"}
      BY <1>1, <3>1 DEF Arrive, Refuse, TypeOK, HandlersOK, VolOf
    <3>3. /\ FirstPc(c) \in {"credentials", "removeStaging", "checkUnmount", "checkMount"}
          /\ FirstPc(c) = "removeStaging" => c.op # "unpublish"
          /\ FirstPc(c) = "checkMount" => VolOf(c) \notin Ephemeral
      BY CallFields DEF FirstPc
    <3> QED
      BY <3>2, <3>3 DEF Achieved, MountPcs
  <2>2. CASE Reply(r)
    BY <1>1, <2>2 DEF Reply, Alone, Busy, TypeOK, HandlersOK
  <2>3. CASE Cancel(r)
    BY <1>3, <2>3 DEF Cancel
  <2> QED
    BY <2>1, <2>2, <2>3
<1>5. disturbed' \subseteq overlapped'
  BY <1>1, <1>2, Noted DEF RInv, OverlapsNoted, Busy
<1> QED
  BY <1>1, <1>3, <1>4, <1>5, Noted DEF RInv, OverlapsNoted

LEMMA NextInv == RInv /\ TypeOK' /\ [RepliesNext]_repliesVars => RInv'
<1> SUFFICES ASSUME RInv, TypeOK', [RepliesNext]_repliesVars PROVE RInv'
  OBVIOUS
<1>1. CASE UNCHANGED repliesVars
  <2>1. UNCHANGED <<nodeState, call, pc, disturbed, faults, overlapped>>
    BY <1>1 DEF repliesVars, vars, nodeState
  <2>2. OverlapsNoted'
    BY <2>1 DEF RInv, OverlapsNoted, Busy, Beside, Serves
  <2>3. ASSUME NEW q \in Handlers, Alone(q)' PROVE Achieved(q)'
    BY <2>1, <2>3, AchievedStays DEF RInv, Alone, Busy, nodeState, StatMayHaveFailed
  <2> QED
    BY <2>2, <2>3 DEF RInv
<1>2. CASE (Crash \/ Reboot) /\ NoteOverlaps
  <2>1. /\ disturbed' = {}
        /\ \A q \in Handlers : ~Busy(q)'
    BY <1>2 DEF Crash, Reboot, DropCalls, Busy
  <2> QED
    BY <1>2, <2>1, Noted DEF RInv, OverlapsNoted, Alone
<1> QED
  BY <1>1, <1>2, StepInv, CallInv DEF RepliesNext, Next

(***************************************************************************)
(* Whatever raced, failed or was cut short before, the OK of a call that   *)
(* has its volume to itself says how the node is (node.go:298, 333,        *)
(* 397-434, 453).                                                          *)
(***************************************************************************)
THEOREM RepliesAlone == RepliesSpec => []RepliesAloneAreTrue
<1>1. RepliesInit => TypeOK /\ RInv
  <2> SUFFICES ASSUME RepliesInit PROVE TypeOK /\ RInv
    OBVIOUS
  <2>1. TypeOK /\ disturbed = {} /\ overlapped = {} /\ \A r \in Handlers : ~Busy(r)
    BY InitType DEF RepliesInit, Init, Busy
  <2> QED
    BY <2>1 DEF RInv, OverlapsNoted, Alone
<1>2. TypeOK /\ [RepliesNext]_repliesVars => TypeOK'
  BY NextType DEF RepliesNext, repliesVars
<1>3. RInv => RepliesAloneAreTrue
  <2> SUFFICES ASSUME RInv, NEW r \in Handlers, pc[r] = "ok", r \notin overlapped
               PROVE  Promised(call[r])
    BY DEF RepliesAloneAreTrue
  <2>1. Busy(r)
    BY DEF RInv, TypeOK, HandlersOK
  <2> QED
    BY <2>1 DEF RInv, Alone, Achieved
<1> QED
  BY <1>1, <1>2, <1>3, NextInv, PTL DEF RepliesSpec
=============================================================================
