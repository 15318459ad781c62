----------------------------- MODULE KubeletProofs -----------------------------
(***************************************************************************)
(* What pods and the kubelet can rely on, for any number of volumes,       *)
(* targets, handlers and faults, and that the node side implements         *)
(* BottleVolumes.                                                          *)
(*                                                                         *)
(* A steady volume has one call at a time, so its invariant says how far   *)
(* that call has come: what each step of it may take for granted, and what *)
(* its reply will tell the kubelet.  The steps for other volumes leave     *)
(* everything it mentions alone.                                           *)
(***************************************************************************)
EXTENDS Kubelet, NodeServerProofs

\* What a handler finds done, or undone, at the step it is at.
Staging(r, v) ==
  /\ device[v] = "uncertain"
  /\ pc[r] \in {"notify", "ok"} => dir[v] = "complete"

Unstaging(r, v) ==
  /\ device[v] = "uncertain"
  /\ \A t \in TargetsOf(v) : known[t] = "unmounted"
  /\ pc[r] = "ok" => dir[v] = "absent"

Publishing(r, t) ==
  LET v == VolumeOf[t] IN
  /\ known[t] = "uncertain"
  /\ v \in Persistent => device[v] = "staged"
  /\ pc[r] \in {"notify"} \union MountPcs => dir[v] = "complete"
  /\ pc[r] \in {"mkdir", "bind"} => mnt[t] = <<>>
  /\ pc[r] = "bind" => t \in target
  /\ pc[r] \in {"remount", "ok"} => mnt[t] # <<>>

Unpublishing(r, t) ==
  LET v == VolumeOf[t] IN
  /\ known[t] = "uncertain" /\ pod[t] = "gone"
  /\ pc[r] = "unmount" => mnt[t] # <<>>
  /\ pc[r] \in {"removeTarget", "statStaging", "removeStaging", "ok"} => mnt[t] = <<>>
  /\ pc[r] \in {"statStaging", "removeStaging", "ok"} => t \notin target
  /\ pc[r] = "removeStaging" => v \in Ephemeral
  /\ pc[r] = "ok" /\ v \in Ephemeral => dir[v] = "absent"

AtItsStep(r) ==
  LET c == call[r] IN
  /\ c.op = "stage" => Staging(r, c.vol)
  /\ c.op = "unstage" => Unstaging(r, c.vol)
  /\ c.op = "publish" => Publishing(r, c.tgt)
  /\ c.op = "unpublish" => Unpublishing(r, c.tgt)

\* One call at a time, which somebody waits for.
InOrder(v) ==
  \A r \in Handlers : Serves(r, v) =>
    /\ r \notin cancelled /\ r \notin disturbed
    /\ \A q \in Handlers : Serves(q, v) => q = r
    /\ AtItsStep(r)

\* Whole bottles at the targets, under every pod that runs, and as replied.
Shown(v) ==
  \A t \in TargetsOf(v) :
    /\ mnt[t] # <<>> =>
         Len(mnt[t]) = 1 /\ mnt[t][1].live /\ t \in target /\ dir[v] = "complete"
    /\ pod[t] = "running" => mnt[t] # <<>>
    /\ known[t] = "mounted" => mnt[t] # <<>>
    /\ known[t] = "unmounted" =>
         mnt[t] = <<>> /\ t \notin target /\ (v \in Ephemeral => dir[v] = "absent")

Held(v) ==
  v \in Persistent =>
    /\ device[v] = "staged" => dir[v] = "complete"
    /\ device[v] = "unstaged" => dir[v] = "absent"

VolumeInv(v) == InOrder(v) /\ Shown(v) /\ Held(v)

FreeHandlersAreClean == \A r \in cancelled \union disturbed : Busy(r)

KInv == KubeletTypeOK /\ FreeHandlersAreClean /\ \A v \in Steady : VolumeInv(v)

-----------------------------------------------------------------------------
(* Lemmas. *)

LEMMA StackFacts ==
  ASSUME NEW S
  PROVE  /\ \A m \in S : <<m>> \o <<>> = <<m>> /\ Len(<<m>>) = 1 /\ <<m>>[1] = m /\ <<m>> # <<>>
         /\ \A s \in Seq(S) : Len(s) = 0 <=> s = <<>>
  OBVIOUS

\* What a handler that is at work serves, and what is known of its call.
LEMMA AtWork ==
  ASSUME TypeOK, NEW r \in Handlers, Busy(r)
  PROVE  /\ call[r] \in Calls /\ pc[r] # "idle" /\ InItsHandler(pc[r], call[r])
         /\ VolOf(call[r]) \in Volumes /\ Serves(r, VolOf(call[r]))
         /\ call[r].op \in {"stage", "unstage", "publish", "unpublish"}
         /\ call[r].op \in {"stage", "unstage"} =>
              call[r].vol \in Persistent /\ VolOf(call[r]) = call[r].vol
         /\ call[r].op \in {"publish", "unpublish"} =>
              /\ call[r].tgt \in TargetsOf(VolOf(call[r]))
              /\ VolOf(call[r]) = VolumeOf[call[r].tgt]
  BY CallFields DEF TypeOK, HandlersOK, Busy, Serves, Persistent, TargetsOf

\* What does not touch a volume keeps its invariant.
LEMMA Untouched ==
  ASSUME TypeOK, TypeOK', NEW w \in Volumes, VolumeInv(w),
         dir'[w] = dir[w],
         \A t \in TargetsOf(w) :
           /\ mnt'[t] = mnt[t] /\ known'[t] = known[t] /\ pod'[t] = pod[t]
           /\ t \in target' <=> t \in target,
         w \in Persistent => device'[w] = device[w],
         \A r \in Handlers : Serves(r, w)' =>
           /\ call'[r] = call[r] /\ pc'[r] = pc[r]
           /\ r \in cancelled' => r \in cancelled
           /\ r \in disturbed' => r \in disturbed
  PROVE  VolumeInv(w)'
<1>1. Shown(w)' /\ Held(w)'
  BY DEF VolumeInv, Shown, Held, TargetsOf
<1>2. ASSUME NEW r \in Handlers, Serves(r, w)'
      PROVE  Serves(r, w) /\ AtItsStep(r)'
  <2>1. Serves(r, w) /\ call'[r] = call[r] /\ pc'[r] = pc[r] /\ Busy(r) /\ VolOf(call[r]) = w
    BY <1>2 DEF Serves, Busy
  <2>2. AtItsStep(r)
    BY <2>1 DEF VolumeInv, InOrder
  <2>3. /\ call[r].op \in {"stage", "unstage"} => call[r].vol = w /\ w \in Persistent
        /\ call[r].op \in {"publish", "unpublish"} =>
             call[r].tgt \in TargetsOf(w) /\ VolumeOf[call[r].tgt] = w
    BY <2>1, AtWork
  <2>4. call[r].op = "stage" => Staging(r, call[r].vol)'
    BY <2>1, <2>2, <2>3 DEF AtItsStep, Staging
  <2>5. call[r].op = "unstage" => Unstaging(r, call[r].vol)'
    BY <2>1, <2>2, <2>3 DEF AtItsStep, Unstaging, TargetsOf
  <2>6. call[r].op = "publish" => Publishing(r, call[r].tgt)'
    BY <2>1, <2>2, <2>3 DEF AtItsStep, Publishing
  <2>7. call[r].op = "unpublish" => Unpublishing(r, call[r].tgt)'
    BY <2>1, <2>2, <2>3 DEF AtItsStep, Unpublishing
  <2> QED
    BY <2>1, <2>4, <2>5, <2>6, <2>7 DEF AtItsStep
<1>3. InOrder(w)'
  BY <1>2 DEF VolumeInv, InOrder
<1> QED
  BY <1>1, <1>3 DEF VolumeInv

\* The step of a steady volume's own call.
LEMMA OwnStep ==
  ASSUME KInv, TypeOK', NEW r \in Handlers, Step(r), UNCHANGED kubeletState,
         NEW c, call[r] = c, NEW v, v = VolOf(c), v \in Steady
  PROVE  VolumeInv(v)'
<1> DEFINE t == c.tgt
<1>1. TypeOK /\ KubeletTypeOK
  BY DEF KInv, KubeletTypeOK
<1>2. VolumeInv(v) /\ InOrder(v) /\ Shown(v) /\ Held(v)
  BY DEF KInv, VolumeInv
<1>3. /\ Busy(r) /\ pc[r] # "idle" /\ c \in Calls /\ InItsHandler(pc[r], c) /\ Serves(r, v)
      /\ v \in Volumes /\ c.op \in {"stage", "unstage", "publish", "unpublish"}
      /\ c.op \in {"stage", "unstage"} => v = c.vol /\ v \in Persistent
      /\ c.op \in {"publish", "unpublish"} => t \in TargetsOf(v) /\ v = VolumeOf[t] /\ t \in Targets
  BY <1>1, StepIsBusy, AtWork DEF TargetsOf
<1>4. r \notin cancelled /\ r \notin disturbed /\ AtItsStep(r) /\ \A q \in Handlers : Serves(q, v) => q = r
  BY <1>2, <1>3 DEF InOrder
<1>5. pc[r] # "pulling" => Pullers(v) = {}
  BY <1>4 DEF Pullers
<1>6. call' = call /\ cancelled' = cancelled /\ r \notin disturbed'
  <2>1. CASE BeginPull(r) \/ RemoveStaging(r)
    BY <1>4, <1>5, <2>1 DEF BeginPull, RemoveStaging
  <2>2. CASE EndPull(r)
    BY <2>2 DEF EndPull
  <2>3. CASE ~BeginPull(r) /\ ~EndPull(r) /\ ~RemoveStaging(r)
    BY <1>4, <2>3, StepKeepsCall DEF KeepCall
  <2> QED
    BY <2>1, <2>2, <2>3, StepMoves
<1>k. pod' = pod /\ known' = known /\ device' = device
  BY DEF kubeletState
<1>7. SUFFICES AtItsStep(r)' /\ Shown(v)' /\ Held(v)'
  <2>1. \A q \in Handlers : Serves(q, v)' => Serves(q, v)
    BY <1>6 DEF Serves, Busy
  <2> QED
    BY <1>4, <1>6, <1>7, <2>1 DEF VolumeInv, InOrder
\* Before a step that takes nothing for granted.
<1>8. pc'[r] \in {"resolve", "pull", "pulling", "internal"} => AtItsStep(r)'
  BY <1>4, <1>6, <1>k DEF AtItsStep, Staging, Unstaging, Publishing, Unpublishing, MountPcs,
     TargetsOf
<1>9. /\ dir \in [Volumes -> DirStates] /\ target \subseteq Targets
      /\ mnt \in [Targets -> Seq(Mounts)] /\ pc \in [Handlers -> {"idle"} \union Pcs]
  BY <1>1 DEF TypeOK, NodeOK, HandlersOK
<1>10. \A f : Fails(r, f) => pc'[r] = "internal"
  BY <1>9 DEF Fails, Goto
<1>11. \A next : Succeeds(r, next) \/ Goto(r, next) => pc'[r] = next
  BY <1>9 DEF Succeeds, Goto
<1>n. UNCHANGED nodeState => Shown(v)' /\ Held(v)'
  BY <1>2, <1>k DEF nodeState, Shown, Held
<1>e. v \in Ephemeral /\ c.op \in {"publish", "unpublish"} => TargetsOf(v) = {t}
  BY <1>3, EphemeralAssumption DEF TargetsOf
\* What is at stake while a staging directory is filled.
<1>f. ASSUME pc[r] \in {"pull", "pulling"}, mnt' = mnt, target' = target,
             dir'[v] = dir[v] \/ dir[v] # "complete" \/ dir'[v] = "complete"
      PROVE  Shown(v)' /\ Held(v)'
  <2>1. c.op = "stage" \/ (c.op = "publish" /\ v \in Ephemeral)
    BY <1>3, <1>f DEF InItsHandler, StagePcs
  <2>2. CASE c.op = "stage"
    <3>1. v \in Persistent /\ v \notin Ephemeral /\ device[v] = "uncertain"
      BY <1>3, <1>4, <2>2 DEF AtItsStep, Staging, Persistent
    <3> QED
      BY <1>2, <1>f, <1>k, <3>1 DEF Shown, Held
  <2>3. CASE c.op = "publish" /\ v \in Ephemeral
    <3>1. TargetsOf(v) = {t} /\ known[t] = "uncertain" /\ v \notin Persistent
      BY <1>e, <1>4, <2>3 DEF AtItsStep, Publishing, Persistent
    <3> QED
      BY <1>2, <1>f, <1>k, <3>1 DEF Shown, Held
  <2> QED
    BY <2>1, <2>2, <2>3
<1>12. CASE LoadCredentials(r) \/ Resolve(r)
  <2>1. UNCHANGED nodeState /\ pc'[r] \in {"resolve", "pull", "internal"}
    BY <1>10, <1>11, <1>12 DEF LoadCredentials, Resolve
  <2> QED
    BY <2>1, <1>8, <1>n
<1>13. CASE BeginPull(r)
  <2>1. /\ pc[r] = "pull" /\ mnt' = mnt /\ target' = target
        /\ pc'[r] \in {"pulling", "internal"}
    BY <1>10, <1>11, <1>13 DEF BeginPull
  <2>2. dir'[v] = dir[v] \/ dir[v] # "complete" \/ dir'[v] = "complete"
    BY <1>3, <1>9, <1>13, NodeAssumption DEF BeginPull
  <2> QED
    BY <2>1, <2>2, <1>8, <1>f
<1>14. CASE EndPull(r)
  <2>1. /\ pc[r] = "pulling" /\ mnt' = mnt /\ target' = target
        /\ \/ pc'[r] = "notify" /\ dir' = [dir EXCEPT ![v] = "complete"]
           \/ pc'[r] = "internal" /\ dir' = dir
    BY <1>4, <1>10, <1>11, <1>14 DEF EndPull
  <2>2. Shown(v)' /\ Held(v)'
    BY <1>3, <1>9, <1>f, <2>1
  <2>3. ASSUME pc'[r] = "notify", dir'[v] = "complete"
        PROVE  AtItsStep(r)'
    BY <1>3, <1>4, <1>6, <1>k, <2>1, <2>3
    DEF AtItsStep, Staging, Unstaging, Publishing, Unpublishing, InItsHandler, StagePcs
  <2> QED
    BY <1>3, <1>8, <1>9, <2>1, <2>2, <2>3
<1>15. CASE Notify(r)
  <2>1. /\ pc[r] = "notify" /\ UNCHANGED nodeState
        /\ pc'[r] \in {IF c.op = "stage" THEN "ok" ELSE "checkMount", "internal"}
    BY <1>10, <1>11, <1>15 DEF Notify
  <2>2. c.op \in {"stage", "publish"}
    BY <1>3, <2>1 DEF InItsHandler, StagePcs
  <2>3. ASSUME pc'[r] = IF c.op = "stage" THEN "ok" ELSE "checkMount"
        PROVE  AtItsStep(r)'
    BY <1>3, <1>4, <1>6, <1>k, <2>1, <2>2, <2>3
    DEF AtItsStep, Staging, Publishing, MountPcs, nodeState
  <2> QED
    BY <2>1, <2>3, <1>8, <1>n
<1>16. CASE CheckMount(r)
  <2>1. /\ pc[r] = "checkMount" /\ UNCHANGED nodeState
        /\ \/ t \notin target /\ pc'[r] = "mkdir"
           \/ mnt[t] # <<>> /\ pc'[r] = "ok"
           \/ t \in target /\ mnt[t] = <<>> /\ pc'[r] = "bind"
           \/ pc'[r] = "internal"
    BY <1>10, <1>11, <1>16 DEF CheckMount
  <2>2. c.op = "publish" /\ Publishing(r, t)
    BY <1>3, <1>4, <2>1 DEF InItsHandler, MountPcs, AtItsStep
  <2>3. t \notin target => mnt[t] = <<>>
    BY <1>2, <1>3, <2>2 DEF Shown
  <2>4. pc'[r] # "internal" => Publishing(r, t)'
    BY <1>k, <2>1, <2>2, <2>3 DEF Publishing, MountPcs, nodeState
  <2> QED
    BY <1>6, <1>8, <1>n, <2>1, <2>2, <2>4 DEF AtItsStep
<1>17. CASE MakeTarget(r)
  <2>1. /\ pc[r] = "mkdir" /\ dir' = dir /\ mnt' = mnt
        /\ \/ target' = target \union {t} /\ pc'[r] = "bind"
           \/ target' = target /\ pc'[r] = "internal"
    BY <1>10, <1>11, <1>17 DEF MakeTarget
  <2>2. c.op = "publish" /\ Publishing(r, t)
    BY <1>3, <1>4, <2>1 DEF InItsHandler, MountPcs, AtItsStep
  <2>3. Shown(v)' /\ Held(v)'
    BY <1>2, <1>k, <2>1, <2>2 DEF Shown, Held, Publishing
  <2>4. pc'[r] # "internal" => Publishing(r, t)'
    BY <1>k, <2>1, <2>2 DEF Publishing, MountPcs
  <2> QED
    BY <1>6, <1>8, <2>1, <2>2, <2>3, <2>4 DEF AtItsStep
<1>18. CASE Bind(r)
  <2>1. /\ pc[r] = "bind" /\ dir' = dir /\ target' = target
        /\ \/ /\ t \in target /\ pc'[r] = "remount"
              /\ mnt' = [mnt EXCEPT ![t] = <<[live |-> TRUE, options |-> {}]>> \o @]
           \/ mnt' = mnt /\ pc'[r] = "internal"
    BY <1>3, <1>10, <1>11, <1>18 DEF Bind
  <2>2. c.op = "publish" /\ Publishing(r, t) /\ mnt[t] = <<>> /\ dir[v] = "complete"
    BY <1>3, <1>4, <2>1 DEF InItsHandler, MountPcs, AtItsStep, Publishing
  <2>3. CASE mnt' = mnt /\ pc'[r] = "internal"
    BY <1>8, <1>n, <2>1, <2>3 DEF nodeState
  <2>4. CASE pc'[r] = "remount" /\ t \in target
             /\ mnt' = [mnt EXCEPT ![t] = <<[live |-> TRUE, options |-> {}]>> \o @]
    <3> DEFINE top == [live |-> TRUE, options |-> {}]
    <3>1. top \in Mounts /\ top.live
      BY DEF Mounts
    <3>2. mnt'[t] = <<top>> \o mnt[t] /\ \A s \in Targets : s # t => mnt'[s] = mnt[s]
      BY <1>3, <1>9, <2>2, <2>4
    <3> HIDE DEF top
    <3>3. mnt'[t] = <<top>> /\ mnt'[t] # <<>> /\ Len(mnt'[t]) = 1 /\ mnt'[t][1].live
      BY <2>2, <3>1, <3>2, StackFacts
    <3>4. Shown(v)' /\ Held(v)'
      BY <1>2, <1>3, <1>k, <2>1, <2>2, <2>4, <3>2, <3>3 DEF Shown, Held, Publishing, TargetsOf
    <3>5. Publishing(r, t)'
      BY <1>3, <1>k, <2>1, <2>2, <2>4, <3>3 DEF Publishing
    <3> QED
      BY <1>6, <2>2, <3>4, <3>5 DEF AtItsStep
  <2> QED
    BY <2>1, <2>3, <2>4
<1>19. CASE Remount(r)
  <2>1. /\ pc[r] = "remount" /\ dir' = dir /\ target' = target
        /\ \/ /\ mnt[t] # <<>> /\ pc'[r] = "ok"
              /\ mnt' = [mnt EXCEPT ![t] =
                   <<[live |-> Head(@).live, options |-> MountOptions(t)]>> \o Tail(@)]
           \/ mnt' = mnt /\ pc'[r] = "internal"
    BY <1>3, <1>10, <1>11, <1>19 DEF Remount
  <2>2. c.op = "publish" /\ Publishing(r, t)
    BY <1>3, <1>4, <2>1 DEF InItsHandler, MountPcs, AtItsStep
  <2>3. CASE mnt' = mnt /\ pc'[r] = "internal"
    BY <1>8, <1>n, <2>1, <2>3 DEF nodeState
  <2>4. CASE mnt[t] # <<>> /\ pc'[r] = "ok"
             /\ mnt' = [mnt EXCEPT ![t] =
                  <<[live |-> Head(@).live, options |-> MountOptions(t)]>> \o Tail(@)]
    <3> DEFINE top == [live |-> Head(mnt[t]).live, options |-> MountOptions(t)]
    <3>1. mnt[t] \in Seq(Mounts) /\ Len(mnt[t]) = 1 /\ mnt[t][1].live /\ t \in target
          /\ dir[v] = "complete"
      BY <1>2, <1>3, <1>9, <2>2, <2>4 DEF Shown
    <3>2. /\ mnt'[t] = <<top>> \o Tail(mnt[t])
          /\ \A s \in Targets : s # t => mnt'[s] = mnt[s]
      BY <1>3, <1>9, <2>2, <2>4
    <3>3. Tail(mnt[t]) \in Seq(Mounts) /\ Len(Tail(mnt[t])) = 0
      BY <2>4, <3>1, PopFacts
    <3>4. top \in Mounts /\ top.live
      BY <2>4, <3>1, RemountedFacts
    <3>5. Len(mnt'[t]) = 1 /\ mnt'[t][1] = top
      <4> HIDE DEF top
      <4> QED
        BY <3>2, <3>3, <3>4, PushFacts
    <3>6. Len(mnt'[t]) = 1 /\ mnt'[t][1].live /\ mnt'[t] # <<>>
      <4> HIDE DEF top
      <4> QED
        BY <3>4, <3>5
    <3> HIDE DEF top
    <3>7. Shown(v)' /\ Held(v)'
      <4>1. Shown(v)'
        BY <1>2, <1>3, <1>k, <2>1, <2>2, <3>1, <3>2, <3>6 DEF Shown, Publishing, TargetsOf
      <4>2. Held(v)'
        BY <1>2, <1>3, <1>k, <2>1, <2>2, <3>2, <3>6 DEF Held, Publishing, TargetsOf
      <4> QED
        BY <4>1, <4>2
    <3>8. Publishing(r, t)'
      BY <1>3, <1>k, <2>1, <2>2, <2>4, <3>6 DEF Publishing, MountPcs
    <3> QED
      BY <1>6, <2>2, <3>7, <3>8 DEF AtItsStep
  <2> QED
    BY <2>1, <2>3, <2>4
<1>20. CASE CheckUnmount(r)
  <2>1. /\ pc[r] = "checkUnmount" /\ UNCHANGED nodeState
        /\ \/ mnt[t] = <<>> /\ pc'[r] = "removeTarget"
           \/ mnt[t] # <<>> /\ pc'[r] = "unmount"
           \/ pc'[r] = "internal"
    BY <1>10, <1>11, <1>20 DEF CheckUnmount
  <2>2. c.op = "unpublish" /\ Unpublishing(r, t)
    BY <1>3, <1>4, <2>1 DEF InItsHandler, UnmountPcs, AtItsStep
  <2>3. pc'[r] # "internal" => AtItsStep(r)'
    BY <1>6, <1>k, <2>1, <2>2 DEF AtItsStep, Unpublishing, nodeState
  <2> QED
    BY <1>8, <1>n, <2>1, <2>3
<1>21. CASE Unmount(r)
  <2>1. /\ pc[r] = "unmount" /\ dir' = dir /\ target' = target
        /\ \/ /\ mnt[t] # <<>> /\ pc'[r] = "removeTarget"
              /\ mnt' = [mnt EXCEPT ![t] = Tail(@)]
           \/ mnt' = mnt /\ pc'[r] = "internal"
    BY <1>10, <1>11, <1>21 DEF Unmount
  <2>2. c.op = "unpublish" /\ Unpublishing(r, t)
    BY <1>3, <1>4, <2>1 DEF InItsHandler, UnmountPcs, AtItsStep
  <2>3. CASE mnt' = mnt /\ pc'[r] = "internal"
    BY <1>8, <1>n, <2>1, <2>3 DEF nodeState
  <2>4. CASE mnt[t] # <<>> /\ pc'[r] = "removeTarget" /\ mnt' = [mnt EXCEPT ![t] = Tail(@)]
    <3>1. mnt[t] \in Seq(Mounts) /\ Len(mnt[t]) = 1
      BY <1>2, <1>3, <1>9, <2>2, <2>4 DEF Shown
    <3>2. Tail(mnt[t]) = <<>>
      <4>1. Tail(mnt[t]) \in Seq(Mounts) /\ Len(Tail(mnt[t])) = 0
        BY <2>4, <3>1, PopFacts
      <4> QED
        BY <4>1, StackFacts
    <3>3. mnt'[t] = <<>> /\ \A s \in Targets : s # t => mnt'[s] = mnt[s]
      BY <1>3, <1>9, <2>2, <2>4, <3>2
    <3>4. Shown(v)' /\ Held(v)'
      BY <1>2, <1>3, <1>k, <2>1, <2>2, <3>3 DEF Shown, Held, Unpublishing, TargetsOf
    <3>5. Unpublishing(r, t)'
      BY <1>3, <1>k, <2>1, <2>2, <2>4, <3>3 DEF Unpublishing
    <3> QED
      BY <1>6, <2>2, <3>4, <3>5 DEF AtItsStep
  <2> QED
    BY <2>1, <2>3, <2>4
<1>22. CASE RemoveTarget(r)
  <2>1. /\ pc[r] = "removeTarget" /\ mnt' = mnt
        /\ \/ dir' = dir /\ target' = target \ {t} /\ pc'[r] = "statStaging"
           \/ dir' = dir /\ target' = target /\ pc'[r] = "internal"
           \/ mnt[t] # <<>>
    BY <1>10, <1>11, <1>22 DEF RemoveTarget
  <2>2. c.op = "unpublish" /\ Unpublishing(r, t) /\ mnt[t] = <<>>
    BY <1>3, <1>4, <2>1 DEF InItsHandler, UnmountPcs, AtItsStep, Unpublishing
  <2>3. Shown(v)' /\ Held(v)'
    BY <1>2, <1>k, <2>1, <2>2 DEF Shown, Held
  <2>4. pc'[r] # "internal" => Unpublishing(r, t)'
    BY <1>k, <2>1, <2>2 DEF Unpublishing
  <2> QED
    BY <1>6, <1>8, <2>1, <2>2, <2>3, <2>4 DEF AtItsStep
<1>23. CASE StatStaging(r)
  <2>1. /\ pc[r] = "statStaging" /\ UNCHANGED nodeState
        /\ \/ v \in Ephemeral /\ pc'[r] = "removeStaging"
           \/ (v \notin Ephemeral \/ dir[v] = "absent") /\ pc'[r] = "ok"
    BY <1>10, <1>11, <1>23, NodeAssumption DEF StatStaging, Spend
  <2>2. c.op = "unpublish" /\ Unpublishing(r, t)
    BY <1>3, <1>4, <2>1 DEF InItsHandler, UnmountPcs, AtItsStep
  <2>3. Unpublishing(r, t)'
    BY <1>3, <1>k, <2>1, <2>2 DEF Unpublishing, nodeState
  <2> QED
    BY <1>6, <1>n, <2>1, <2>2, <2>3 DEF AtItsStep
<1>24. CASE RemoveStaging(r)
  <2>1. /\ pc[r] = "removeStaging" /\ target' = target
        /\ \/ /\ dir' = [dir EXCEPT ![v] = "absent"] /\ mnt' = Unlinked({v})
              /\ pc'[r] = "ok"
           \/ /\ dir' = [dir EXCEPT ![v] = IF @ = "absent" THEN "absent" ELSE "partial"]
              /\ mnt' = mnt /\ pc'[r] = "internal"
    BY <1>10, <1>11, <1>24 DEF RemoveStaging
  <2>2. \/ c.op = "unstage" /\ Unstaging(r, v)
        \/ c.op = "unpublish" /\ Unpublishing(r, t)
    BY <1>3, <1>4, <2>1 DEF InItsHandler, AtItsStep
  \* Nothing is mounted of what is removed.
  <2>3. \A s \in TargetsOf(v) : mnt[s] = <<>>
    BY <1>2, <1>3, <1>e, <2>1, <2>2 DEF Unstaging, Unpublishing, Shown
  <2>4. \A s \in TargetsOf(v) : mnt'[s] = <<>>
    <3>1. CASE mnt' = mnt
      BY <2>3, <3>1
    <3>2. CASE mnt' = Unlinked({v})
      <4>1. \A s \in Targets : Len(Unlinked({v})[s]) = Len(mnt[s])
        BY <1>1, <1>3, UnlinkedFacts DEF TypeOK
      <4>2. Unlinked({v}) \in [Targets -> Seq(Mounts)]
        BY <1>1, <1>3, UnlinkedFacts DEF TypeOK
      <4> QED
        BY <2>3, <3>2, <4>1, <4>2, <1>9, StackFacts DEF TargetsOf
    <3> QED
      BY <2>1, <3>1, <3>2
  <2>5. dir'[v] \in {"absent", "partial"} /\ (pc'[r] = "ok" => dir'[v] = "absent")
        /\ (dir[v] = "absent" => dir'[v] = "absent")
    BY <1>3, <1>9, <2>1
  <2>6. Shown(v)'
    BY <1>2, <1>k, <2>1, <2>3, <2>4, <2>5 DEF Shown
  <2>7. Held(v)'
    BY <1>2, <1>3, <1>k, <2>1, <2>2, <2>5 DEF Held, Unstaging, Unpublishing, Persistent
  <2>8. ASSUME pc'[r] = "ok" PROVE AtItsStep(r)'
    <3>1. CASE c.op = "unstage" /\ Unstaging(r, v)
      BY <1>3, <1>6, <1>k, <2>5, <2>8, <3>1 DEF AtItsStep, Unstaging, TargetsOf
    <3>2. CASE c.op = "unpublish" /\ Unpublishing(r, t)
      BY <1>3, <1>6, <1>k, <2>1, <2>4, <2>5, <2>8, <3>2 DEF AtItsStep, Unpublishing
    <3> QED
      BY <2>2, <3>1, <3>2
  <2> QED
    BY <1>8, <2>1, <2>6, <2>7, <2>8
<1> QED
  BY <1>12, <1>13, <1>14, <1>15, <1>16, <1>17, <1>18, <1>19, <1>20, <1>21, <1>22,
     <1>23, <1>24 DEF Step

-----------------------------------------------------------------------------
(* Types. *)

\* The handler a call is given to.
LEMMA SendFacts ==
  ASSUME NEW c, Send(c)
  PROVE  \E r \in Handlers : ~Busy(r) /\ Arrive(r, c)
<1> DEFINE r == CHOOSE q \in Handlers : ~Busy(q)
<1>1. r \in Handlers /\ ~Busy(r)
  BY DEF Send
<1>2. Arrive(r, c)
  BY DEF Send
<1> QED
  BY <1>1, <1>2

\* The calls the kubelet makes.
LEMMA CallsAreCalls ==
  /\ \A v \in Persistent : \A op \in {"stage", "unstage"} :
       LET c == [op |-> op, vol |-> v] IN
       c \in Calls /\ VolOf(c) = v /\ c.op = op /\ c.vol = v
  /\ \A t \in Targets : \A op \in {"publish", "unpublish"} :
       LET c == [op |-> op, tgt |-> t] IN
       c \in Calls /\ VolOf(c) = VolumeOf[t] /\ c.op = op /\ c.tgt = t
  BY DEF Calls, VolOf, Persistent

\* The steps of the kubelet that are not the node server's.
LEMMA KubeletKeepsTypes ==
  ASSUME TypeOK, NEW f, Spend(f), UNCHANGED <<nodeState, call, pc, disturbed>>,
         cancelled' \subseteq Handlers
  PROVE  TypeOK'
  BY SpendType DEF TypeOK, NodeOK, HandlersOK, Busy, nodeState

LEMMA KubeletNextType ==
  KubeletTypeOK /\ [KubeletNext]_kubeletVars => KubeletTypeOK'
<1> SUFFICES ASSUME KubeletTypeOK, [KubeletNext]_kubeletVars PROVE KubeletTypeOK'
  OBVIOUS
<1>1. TypeOK
  BY DEF KubeletTypeOK
<1>2. ASSUME NEW t \in Targets, CreatePod(t) \/ StartPod(t) \/ DeletePod(t) PROVE KubeletTypeOK'
  <2>1. TypeOK'
    BY <1>1, <1>2, NextType DEF CreatePod, StartPod, DeletePod
  <2> QED
    BY <1>2, <2>1 DEF KubeletTypeOK, CreatePod, StartPod, DeletePod
<1>3. ASSUME NEW c \in Calls, Send(c) PROVE TypeOK'
  BY <1>1, <1>3, SendFacts, NextType DEF Next
<1>4. ASSUME NEW v \in Persistent, CallStage(v) \/ CallUnstage(v) PROVE KubeletTypeOK'
  <2>1. TypeOK'
    BY <1>3, <1>4, CallsAreCalls DEF CallStage, CallUnstage
  <2> QED
    BY <1>4, <2>1 DEF KubeletTypeOK, CallStage, CallUnstage
<1>5. ASSUME NEW t \in Targets, CallPublish(t) \/ CallUnpublish(t) PROVE KubeletTypeOK'
  <2>1. TypeOK'
    BY <1>3, <1>5, CallsAreCalls DEF CallPublish, CallUnpublish
  <2> QED
    BY <1>5, <2>1 DEF KubeletTypeOK, CallPublish, CallUnpublish
<1>6. ASSUME NEW r \in Handlers, Step(r), UNCHANGED kubeletState PROVE KubeletTypeOK'
  BY <1>1, <1>6, StepType DEF KubeletTypeOK, kubeletState
<1>7. ASSUME NEW r \in Handlers, Receive(r) PROVE KubeletTypeOK'
  <2>1. TypeOK'
    BY <1>1, <1>7, NextType DEF Receive, Next
  <2> QED
    BY <1>7, <2>1 DEF KubeletTypeOK, Receive
<1>8. ASSUME NEW r \in Handlers, Abandon(r) PROVE KubeletTypeOK'
  <2>1. TypeOK' /\ VolOf(call[r]) \in Volumes
    BY <1>1, <1>8, KubeletKeepsTypes, AtWork DEF Abandon, Waiting, TypeOK
  <2> QED
    BY <1>8, <2>1 DEF KubeletTypeOK, Abandon
<1>u. /\ known \in [Targets -> {"unmounted", "uncertain", "mounted"}] =>
           Unsure(known, "unmounted") \in [Targets -> {"unmounted", "uncertain", "mounted"}]
      /\ device \in [Persistent -> {"unstaged", "uncertain", "staged"}] =>
           Unsure(device, "unstaged") \in [Persistent -> {"unstaged", "uncertain", "staged"}]
  BY DEF Unsure
<1>9. CASE KubeletRestart
  <2>1. TypeOK'
    BY <1>1, <1>9, KubeletKeepsTypes DEF KubeletRestart
  <2> QED
    BY <1>9, <1>u, <2>1 DEF KubeletTypeOK, KubeletRestart
<1>10. CASE DriverRestart
  BY <1>1, <1>10, NextType DEF KubeletTypeOK, DriverRestart, kubeletState, Next
<1>11. CASE NodeReboot
  <2>1. TypeOK'
    BY <1>1, <1>11, NextType DEF NodeReboot, Next
  <2> QED
    BY <1>11, <1>u, <2>1 DEF KubeletTypeOK, NodeReboot
<1>12. CASE UNCHANGED kubeletVars
  BY <1>1, <1>12, NextType DEF KubeletTypeOK, kubeletVars, kubeletState
<1> QED
  BY <1>2, <1>4, <1>5, <1>6, <1>7, <1>8, <1>9, <1>10, <1>11, <1>12 DEF KubeletNext

LEMMA KubeletInitType == KubeletInit => KubeletTypeOK
  BY InitType, WorkloadsAssumption DEF KubeletInit, KubeletTypeOK

(***************************************************************************)
(* What the kubelet calls keeps to the flows the handlers are written for, *)
(* whatever it abandons and whoever restarts (node.go:148-162).            *)
(***************************************************************************)
THEOREM KubeletTypeCorrect == KubeletSpec => []KubeletTypeOK
  BY KubeletInitType, KubeletNextType, PTL DEF KubeletSpec

-----------------------------------------------------------------------------
(* The invariant. *)

\* A steady volume no call is in flight for is not served at all.
LEMMA NotServed ==
  ASSUME KInv, NEW v \in Steady, ~InFlight(v), NEW r \in Handlers
  PROVE  ~Serves(r, v)
  BY DEF KInv, VolumeInv, InOrder, InFlight, Waiting, Serves

\* What a call finds: nobody else serves the volume, and the handler has no past.
LEMMA Sent ==
  ASSUME KInv, NEW c \in Calls, Send(c), NEW v, v = VolOf(c), ~InFlight(v)
  PROVE  \E r \in Handlers :
           /\ Arrive(r, c) /\ pc'[r] = FirstPc(c) /\ call'[r] = c
           /\ r \notin cancelled' /\ r \notin disturbed'
           /\ v \in Steady => \A q \in Handlers : Serves(q, v)' => q = r
           /\ \A q \in Handlers : \A w : w # v /\ Serves(q, w)' =>
                /\ call'[q] = call[q] /\ pc'[q] = pc[q]
                /\ q \in cancelled' => q \in cancelled
                /\ q \in disturbed' => q \in disturbed
<1>1. PICK r \in Handlers : ~Busy(r) /\ Arrive(r, c)
  BY SendFacts
<1>2. /\ call' = [call EXCEPT ![r] = c] /\ pc' = [pc EXCEPT ![r] = FirstPc(c)]
      /\ cancelled' = cancelled /\ disturbed' = disturbed
  BY <1>1 DEF Arrive
<1>3. DOMAIN call = Handlers /\ DOMAIN pc = Handlers
  BY DEF KInv, KubeletTypeOK, TypeOK, HandlersOK
<1>4. r \notin cancelled /\ r \notin disturbed
  BY <1>1 DEF KInv, FreeHandlersAreClean
<1>5. ASSUME NEW q \in Handlers, q # r
      PROVE  call'[q] = call[q] /\ pc'[q] = pc[q] /\ \A w : Serves(q, w)' => Serves(q, w)
  BY <1>2, <1>3, <1>5 DEF Serves, Busy
<1>6. \A w : w # v => ~Serves(r, w)'
  BY <1>2, <1>3 DEF Serves
<1>7. call'[r] = c /\ pc'[r] = FirstPc(c)
  BY <1>2, <1>3
<1> QED
  BY <1>1, <1>2, <1>4, <1>5, <1>6, <1>7, NotServed

LEMMA StepInv ==
  ASSUME KInv, KubeletTypeOK', NEW r \in Handlers, Step(r), UNCHANGED kubeletState
  PROVE  KInv'
<1> DEFINE v == VolOf(call[r])
<1>1. TypeOK /\ TypeOK'
  BY DEF KInv, KubeletTypeOK
<1>2. Serves(r, v) /\ v \in Volumes
  BY <1>1, StepIsBusy, AtWork
<1>3. /\ \A w \in Volumes : w # v => dir'[w] = dir[w]
      /\ \A s \in Targets : VolumeOf[s] # v => mnt'[s] = mnt[s] /\ (s \in target' <=> s \in target)
      /\ \A q \in Handlers : q # r => pc'[q] = pc[q]
      /\ call' = call /\ cancelled' = cancelled
      /\ \A q \in disturbed' : q \in disturbed \/ Serves(q, v)
  BY <1>1, StepTouches
<1>4. FreeHandlersAreClean'
  BY <1>3 DEF KInv, FreeHandlersAreClean, Busy, Serves
<1>5. Steady' = Steady
  BY DEF Steady, kubeletState
<1>6. ASSUME NEW w \in Steady PROVE VolumeInv(w)'
  <2>1. CASE w = v
    BY <1>1, <2>1, <1>6, OwnStep
  <2>2. CASE w # v
    <3>1. w \in Volumes /\ VolumeInv(w)
      BY <1>6 DEF KInv, Steady
    <3>2. /\ dir'[w] = dir[w] /\ (w \in Persistent => device'[w] = device[w])
          /\ \A t \in TargetsOf(w) : /\ mnt'[t] = mnt[t] /\ known'[t] = known[t] /\ pod'[t] = pod[t]
                                     /\ t \in target' <=> t \in target
      BY <1>3, <2>2, <3>1 DEF TargetsOf, kubeletState
    <3>3. ASSUME NEW q \in Handlers, Serves(q, w)'
          PROVE  /\ call'[q] = call[q] /\ pc'[q] = pc[q]
                 /\ q \in cancelled' => q \in cancelled
                 /\ q \in disturbed' => q \in disturbed
      <4>1. Serves(q, w) /\ ~Serves(q, v)
        BY <1>3, <2>2, <3>3 DEF Serves, Busy
      <4> QED
        BY <1>2, <1>3, <4>1
    <3> QED
      BY <1>1, <3>1, <3>2, <3>3, Untouched
  <2> QED
    BY <2>1, <2>2
<1> QED
  BY <1>4, <1>5, <1>6 DEF KInv

\* Pods come and go.
LEMMA PodInv ==
  ASSUME KInv, KubeletTypeOK', NEW t \in Targets, CreatePod(t) \/ StartPod(t) \/ DeletePod(t)
  PROVE  KInv'
<1>1. UNCHANGED <<vars, known, device, abandoned>>
  BY DEF CreatePod, StartPod, DeletePod
<1>2. /\ UNCHANGED <<dir, target, mnt, call, pc, disturbed, cancelled>>
      /\ known' = known /\ device' = device /\ Steady' = Steady
  BY <1>1 DEF vars, Steady
<1>3. \A s \in Targets : /\ pod[s] = "gone" => pod'[s] = "gone"
                         /\ pod'[s] = "running" => pod[s] = "running" \/ known[s] = "mounted"
  BY DEF CreatePod, StartPod, DeletePod, KInv, KubeletTypeOK, Needs
<1>4. ASSUME NEW v \in Steady PROVE VolumeInv(v)'
  <2>1. InOrder(v) /\ Shown(v) /\ Held(v)
    BY <1>4 DEF KInv, VolumeInv
  <2>2. Shown(v)'
    BY <1>2, <1>3, <2>1 DEF Shown, TargetsOf
  <2>3. Held(v)'
    BY <1>2, <2>1 DEF Held
  <2>4. ASSUME NEW r \in Handlers, Serves(r, v), AtItsStep(r)
        PROVE  AtItsStep(r)'
    <3>1. call[r].op \in {"publish", "unpublish"} => call[r].tgt \in Targets
      BY <2>4, AtWork DEF Serves, KInv, KubeletTypeOK, TargetsOf
    <3>2. /\ call[r].op = "stage" => Staging(r, call[r].vol)'
          /\ call[r].op = "unstage" => Unstaging(r, call[r].vol)'
          /\ call[r].op = "publish" => Publishing(r, call[r].tgt)'
      BY <1>2, <2>4 DEF AtItsStep, Staging, Unstaging, Publishing, TargetsOf
    <3>3. call[r].op = "unpublish" => Unpublishing(r, call[r].tgt)'
      BY <1>2, <1>3, <2>4, <3>1 DEF AtItsStep, Unpublishing
    <3> QED
      BY <1>2, <3>2, <3>3 DEF AtItsStep
  <2>5. InOrder(v)'
    BY <1>2, <2>1, <2>4 DEF InOrder, Serves, Busy
  <2> QED
    BY <2>2, <2>3, <2>5 DEF VolumeInv
<1> QED
  BY <1>2, <1>4 DEF KInv, FreeHandlersAreClean, Busy

\* A call changes what the kubelet knows of its own volume.
LEMMA CallInv ==
  ASSUME KInv, KubeletTypeOK', NEW c \in Calls, Send(c), NEW v, v = VolOf(c), ~InFlight(v),
         UNCHANGED <<pod, abandoned>>,
         \A t \in Targets : VolumeOf[t] # v => known'[t] = known[t],
         \A w \in Persistent : w # v => device'[w] = device[w],
         v \in Steady =>
           /\ Shown(v)' /\ Held(v)'
           /\ \A r \in Handlers : call'[r] = c /\ pc'[r] = FirstPc(c) => AtItsStep(r)'
  PROVE  KInv'
<1>1. TypeOK /\ TypeOK' /\ Steady' = Steady
  BY DEF KInv, KubeletTypeOK, Steady
<1>2. PICK r \in Handlers :
        /\ Arrive(r, c) /\ pc'[r] = FirstPc(c) /\ call'[r] = c
        /\ r \notin cancelled' /\ r \notin disturbed'
        /\ v \in Steady => \A q \in Handlers : Serves(q, v)' => q = r
        /\ \A q \in Handlers : \A w : w # v /\ Serves(q, w)' =>
             /\ call'[q] = call[q] /\ pc'[q] = pc[q]
             /\ q \in cancelled' => q \in cancelled
             /\ q \in disturbed' => q \in disturbed
  BY Sent
<1>3. UNCHANGED <<dir, target, mnt, disturbed, cancelled>>
  BY <1>2 DEF Arrive, nodeState
<1>4. FreeHandlersAreClean'
  BY <1>1, <1>2, <1>3, NoCallAssumption
  DEF KInv, FreeHandlersAreClean, Arrive, Busy, TypeOK, HandlersOK
<1>5. ASSUME NEW w \in Steady PROVE VolumeInv(w)'
  <2>1. CASE w = v
    <3>1. InOrder(v)'
      BY <1>2, <1>5, <2>1 DEF InOrder
    <3> QED
      BY <1>5, <2>1, <3>1 DEF VolumeInv
  <2>2. CASE w # v
    <3>1. w \in Volumes /\ VolumeInv(w)
      BY <1>5 DEF KInv, Steady
    <3>2. /\ dir'[w] = dir[w] /\ (w \in Persistent => device'[w] = device[w])
          /\ \A t \in TargetsOf(w) : /\ mnt'[t] = mnt[t] /\ known'[t] = known[t] /\ pod'[t] = pod[t]
                                     /\ t \in target' <=> t \in target
      BY <1>3, <2>2 DEF TargetsOf
    <3> QED
      BY <1>1, <1>2, <2>2, <3>1, <3>2, Untouched
  <2> QED
    BY <2>1, <2>2
<1> QED
  BY <1>1, <1>4, <1>5 DEF KInv

LEMMA CallStageInv ==
  ASSUME KInv, KubeletTypeOK', NEW v \in Persistent, CallStage(v)
  PROVE  KInv'
<1> DEFINE c == [op |-> "stage", vol |-> v]
<1>1. c \in Calls /\ VolOf(c) = v /\ c.op = "stage" /\ c.vol = v /\ FirstPc(c) = "credentials"
  BY CallsAreCalls DEF FirstPc
<1> HIDE DEF c
<1>2. Send(c) /\ ~InFlight(v) /\ UNCHANGED <<pod, known, abandoned>>
  BY DEF CallStage, c
<1>3. device'[v] = "uncertain" /\ \A w \in Persistent : w # v => device'[w] = device[w]
  BY DEF CallStage, KInv, KubeletTypeOK
<1>4. UNCHANGED nodeState
  BY <1>2, SendFacts DEF Arrive
<1>5. ASSUME v \in Steady PROVE Shown(v)' /\ Held(v)'
  BY <1>2, <1>3, <1>4, <1>5 DEF KInv, VolumeInv, Shown, Held, nodeState
<1>6. ASSUME NEW r \in Handlers, call'[r] = c, pc'[r] = FirstPc(c)
      PROVE  AtItsStep(r)'
  BY <1>1, <1>3, <1>6 DEF AtItsStep, Staging
<1> QED
  BY <1>1, <1>2, <1>3, <1>5, <1>6, CallInv

LEMMA CallUnstageInv ==
  ASSUME KInv, KubeletTypeOK', NEW v \in Persistent, CallUnstage(v)
  PROVE  KInv'
<1> DEFINE c == [op |-> "unstage", vol |-> v]
<1>1. c \in Calls /\ VolOf(c) = v /\ c.op = "unstage" /\ c.vol = v /\ FirstPc(c) = "removeStaging"
  BY CallsAreCalls DEF FirstPc
<1> HIDE DEF c
<1>2. Send(c) /\ ~InFlight(v) /\ UNCHANGED <<pod, known, abandoned>>
  BY DEF CallUnstage, c
<1>3. /\ device'[v] = "uncertain" /\ \A w \in Persistent : w # v => device'[w] = device[w]
      /\ \A t \in TargetsOf(v) : known[t] = "unmounted"
  BY DEF CallUnstage, KInv, KubeletTypeOK
<1>4. UNCHANGED nodeState
  BY <1>2, SendFacts DEF Arrive
<1>5. ASSUME v \in Steady PROVE Shown(v)' /\ Held(v)'
  BY <1>2, <1>3, <1>4, <1>5 DEF KInv, VolumeInv, Shown, Held, nodeState
<1>6. ASSUME NEW r \in Handlers, call'[r] = c, pc'[r] = FirstPc(c)
      PROVE  AtItsStep(r)'
  BY <1>1, <1>2, <1>3, <1>6 DEF AtItsStep, Unstaging, TargetsOf
<1> QED
  BY <1>1, <1>2, <1>3, <1>5, <1>6, CallInv

LEMMA CallPublishInv ==
  ASSUME KInv, KubeletTypeOK', NEW t \in Targets, CallPublish(t)
  PROVE  KInv'
<1> DEFINE c == [op |-> "publish", tgt |-> t]  v == VolumeOf[t]
<1>1. /\ c \in Calls /\ VolOf(c) = v /\ c.op = "publish" /\ c.tgt = t
      /\ FirstPc(c) = IF v \in Ephemeral THEN "credentials" ELSE "checkMount"
  <2>1. c \in Calls /\ VolOf(c) = v /\ c.op = "publish" /\ c.tgt = t
    BY CallsAreCalls
  <2> HIDE DEF c
  <2> QED
    BY <2>1 DEF FirstPc
<1> HIDE DEF c
<1>2. Send(c) /\ ~InFlight(v) /\ UNCHANGED <<pod, device, abandoned>>
  BY DEF CallPublish, c
<1>3. /\ known'[t] = "uncertain" /\ \A s \in Targets : s # t => known'[s] = known[s]
      /\ v \in Persistent => device[v] = "staged"
  BY DEF CallPublish, KInv, KubeletTypeOK
<1>4. UNCHANGED nodeState
  BY <1>2, SendFacts DEF Arrive
<1>5. ASSUME v \in Steady PROVE Shown(v)' /\ Held(v)'
  <2>1. Shown(v) /\ Held(v)
    BY <1>5 DEF KInv, VolumeInv
  <2> QED
    BY <1>2, <1>3, <1>4, <2>1 DEF Shown, Held, nodeState, TargetsOf
<1>6. ASSUME v \in Steady, NEW r \in Handlers, call'[r] = c, pc'[r] = FirstPc(c)
      PROVE  AtItsStep(r)'
  <2>1. Held(v) /\ v \in Volumes
    BY <1>6 DEF KInv, VolumeInv, Steady
  <2>2. v \notin Ephemeral => dir'[v] = "complete"
    BY <1>3, <1>4, <2>1 DEF Held, Persistent, nodeState
  <2> QED
    BY <1>1, <1>2, <1>3, <1>6, <2>2 DEF AtItsStep, Publishing, MountPcs
<1> QED
  BY <1>1, <1>2, <1>3, <1>5, <1>6, CallInv

LEMMA CallUnpublishInv ==
  ASSUME KInv, KubeletTypeOK', NEW t \in Targets, CallUnpublish(t)
  PROVE  KInv'
<1> DEFINE c == [op |-> "unpublish", tgt |-> t]  v == VolumeOf[t]
<1>1. /\ c \in Calls /\ VolOf(c) = v /\ c.op = "unpublish" /\ c.tgt = t
      /\ FirstPc(c) = "checkUnmount"
  BY CallsAreCalls DEF FirstPc
<1> HIDE DEF c
<1>2. Send(c) /\ ~InFlight(v) /\ pod[t] = "gone" /\ UNCHANGED <<pod, device, abandoned>>
  BY DEF CallUnpublish, c
<1>3. known'[t] = "uncertain" /\ \A s \in Targets : s # t => known'[s] = known[s]
  BY DEF CallUnpublish, KInv, KubeletTypeOK
<1>4. UNCHANGED nodeState
  BY <1>2, SendFacts DEF Arrive
<1>5. ASSUME v \in Steady PROVE Shown(v)' /\ Held(v)'
  <2>1. Shown(v) /\ Held(v)
    BY <1>5 DEF KInv, VolumeInv
  <2> QED
    BY <1>2, <1>3, <1>4, <2>1 DEF Shown, Held, nodeState, TargetsOf
<1>6. ASSUME NEW r \in Handlers, call'[r] = c, pc'[r] = FirstPc(c)
      PROVE  AtItsStep(r)'
  BY <1>1, <1>2, <1>3, <1>6 DEF AtItsStep, Unpublishing
<1> QED
  BY <1>1, <1>2, <1>3, <1>5, <1>6, CallInv

\* What a reply says is so.
LEMMA ReceiveInv ==
  ASSUME KInv, KubeletTypeOK', NEW r \in Handlers, Receive(r)
  PROVE  KInv'
<1> DEFINE done(op) == pc[r] = "ok" /\ r \notin cancelled /\ call[r].op = op
<1>1. TypeOK /\ TypeOK' /\ Steady' = Steady
  BY DEF KInv, KubeletTypeOK, Steady, Receive
<1>2. /\ call' = [call EXCEPT ![r] = NoCall] /\ pc' = [pc EXCEPT ![r] = "idle"]
      /\ disturbed' = disturbed \ {r} /\ cancelled' = cancelled \ {r}
      /\ UNCHANGED <<dir, target, mnt, pod, abandoned>>
      /\ pc[r] \in DonePcs
  BY DEF Receive, Reply, nodeState
<1>3. DOMAIN call = Handlers /\ DOMAIN pc = Handlers /\ Busy(r)
  BY <1>1, <1>2 DEF TypeOK, HandlersOK, DonePcs
<1>4. PICK v : v = VolOf(call[r])
  OBVIOUS
<1>5. /\ Serves(r, v) /\ v \in Volumes
      /\ call[r].op \in {"stage", "unstage", "publish", "unpublish"}
      /\ call[r].op \in {"stage", "unstage"} => call[r].vol \in Persistent /\ v = call[r].vol
      /\ call[r].op \in {"publish", "unpublish"} =>
           call[r].tgt \in TargetsOf(v) /\ v = VolumeOf[call[r].tgt]
  BY <1>1, <1>3, <1>4, AtWork
<1>6. /\ known' = IF done("publish") THEN [known EXCEPT ![call[r].tgt] = "mounted"]
                  ELSE IF done("unpublish") THEN [known EXCEPT ![call[r].tgt] = "unmounted"]
                  ELSE known
      /\ device' = IF done("stage") THEN [device EXCEPT ![call[r].vol] = "staged"]
                   ELSE IF done("unstage") THEN [device EXCEPT ![call[r].vol] = "unstaged"]
                   ELSE device
  BY DEF Receive
<1>7. DOMAIN known = Targets /\ DOMAIN device = Persistent
  BY DEF KInv, KubeletTypeOK
<1>8. /\ \A s \in Targets : VolumeOf[s] # v => known'[s] = known[s]
      /\ \A w \in Persistent : w # v => device'[w] = device[w]
  BY <1>5, <1>6, <1>7 DEF TargetsOf
<1>9. ~Serves(r, v)' /\ \A q \in Handlers : Serves(q, v)' => Serves(q, v)
  BY <1>2, <1>3 DEF Serves, Busy
<1>10. FreeHandlersAreClean'
  BY <1>2, <1>3 DEF KInv, FreeHandlersAreClean, Busy, KubeletTypeOK, TypeOK
<1>11. ASSUME v \in Steady PROVE VolumeInv(v)'
  <2>1. InOrder(v) /\ Shown(v) /\ Held(v) /\ AtItsStep(r)
    BY <1>5, <1>11 DEF KInv, VolumeInv, InOrder
  <2>2. InOrder(v)'
    BY <1>5, <1>9, <2>1 DEF InOrder
  <2>3. ASSUME NEW s \in TargetsOf(v), known'[s] # known[s]
        PROVE  /\ known'[s] = "mounted" => mnt[s] # <<>>
               /\ known'[s] = "unmounted" =>
                    mnt[s] = <<>> /\ s \notin target /\ (v \in Ephemeral => dir[v] = "absent")
    <3>1. \/ done("publish") /\ s = call[r].tgt /\ known'[s] = "mounted"
          \/ done("unpublish") /\ s = call[r].tgt /\ known'[s] = "unmounted"
      BY <1>5, <1>6, <1>7, <2>3 DEF TargetsOf
    <3> QED
      BY <1>5, <2>1, <3>1 DEF AtItsStep, Publishing, Unpublishing
  <2>4. Shown(v)'
    BY <1>2, <2>1, <2>3 DEF Shown
  <2>5. ASSUME v \in Persistent, device'[v] # device[v]
        PROVE  /\ device'[v] = "staged" => dir[v] = "complete"
               /\ device'[v] = "unstaged" => dir[v] = "absent"
    <3>1. \/ done("stage") /\ v = call[r].vol /\ device'[v] = "staged"
          \/ done("unstage") /\ v = call[r].vol /\ device'[v] = "unstaged"
      BY <1>5, <1>6, <1>7, <2>5
    <3> QED
      BY <1>5, <2>1, <3>1 DEF AtItsStep, Staging, Unstaging
  <2>6. Held(v)'
    BY <1>2, <2>1, <2>5 DEF Held
  <2> QED
    BY <2>2, <2>4, <2>6 DEF VolumeInv
<1>12. ASSUME NEW w \in Steady, w # v PROVE VolumeInv(w)'
  <2>1. w \in Volumes /\ VolumeInv(w)
    BY <1>12 DEF KInv, Steady
  <2>2. /\ dir'[w] = dir[w] /\ (w \in Persistent => device'[w] = device[w])
        /\ \A t \in TargetsOf(w) : /\ mnt'[t] = mnt[t] /\ known'[t] = known[t] /\ pod'[t] = pod[t]
                                   /\ t \in target' <=> t \in target
    BY <1>2, <1>8, <1>12 DEF TargetsOf
  <2>3. \A q \in Handlers : Serves(q, w)' =>
          /\ call'[q] = call[q] /\ pc'[q] = pc[q]
          /\ q \in cancelled' => q \in cancelled
          /\ q \in disturbed' => q \in disturbed
    BY <1>2, <1>3 DEF Serves, Busy
  <2> QED
    BY <1>1, <2>1, <2>2, <2>3, Untouched
<1> QED
  BY <1>1, <1>10, <1>11, <1>12 DEF KInv

\* Nothing is said of a volume one of whose calls is abandoned.
LEMMA AbandonInv ==
  ASSUME KInv, KubeletTypeOK', NEW r \in Handlers, Abandon(r)
  PROVE  KInv'
<1> DEFINE v == VolOf(call[r])
<1>1. /\ UNCHANGED <<dir, target, mnt, call, pc, disturbed, pod, known, device>>
      /\ cancelled' = cancelled \union {r} /\ abandoned' = abandoned \union {v}
      /\ Busy(r) /\ TypeOK /\ TypeOK'
  BY DEF Abandon, nodeState, Waiting, KInv, KubeletTypeOK
<1>2. FreeHandlersAreClean'
  BY <1>1 DEF KInv, FreeHandlersAreClean, Busy
<1>3. ASSUME NEW w \in Steady' PROVE VolumeInv(w)'
  <2>1. w \in Steady /\ w \in Volumes /\ w # v
    BY <1>1, <1>3 DEF Steady
  <2>2. VolumeInv(w)
    BY <2>1 DEF KInv
  <2>3. \A q \in Handlers : Serves(q, w)' =>
          /\ call'[q] = call[q] /\ pc'[q] = pc[q]
          /\ q \in cancelled' => q \in cancelled
          /\ q \in disturbed' => q \in disturbed
    BY <1>1, <2>1 DEF Serves, Busy
  <2> QED
    BY <1>1, <2>1, <2>2, <2>3, Untouched
<1> QED
  BY <1>2, <1>3 DEF KInv

\* A restart of the kubelet keeps what it knows to be undone, of volumes no
\* call is in flight for.
LEMMA KubeletRestartInv ==
  ASSUME KInv, KubeletTypeOK', KubeletRestart
  PROVE  KInv'
<1>1. /\ UNCHANGED <<dir, target, mnt, call, pc, disturbed, pod>>
      /\ cancelled' = {r \in Handlers : Busy(r)}
      /\ abandoned' = abandoned \union {v \in Volumes : InFlight(v)}
  BY DEF KubeletRestart, nodeState
<1>2. /\ \A t \in Targets : known'[t] = IF known[t] = "unmounted" THEN "unmounted" ELSE "uncertain"
      /\ \A v \in Persistent : device'[v] = IF device[v] = "unstaged" THEN "unstaged" ELSE "uncertain"
  <2>1. /\ known' = Unsure(known, "unmounted") /\ DOMAIN known = Targets
        /\ device' = Unsure(device, "unstaged") /\ DOMAIN device = Persistent
    BY DEF KubeletRestart, KInv, KubeletTypeOK
  <2> QED
    BY <2>1 DEF Unsure
<1>3. FreeHandlersAreClean'
  BY <1>1 DEF KInv, FreeHandlersAreClean, Busy
<1>4. ASSUME NEW v \in Steady' PROVE VolumeInv(v)'
  <2>1. v \in Steady /\ ~InFlight(v) /\ Shown(v) /\ Held(v)
    BY <1>1, <1>4 DEF Steady, KInv, VolumeInv
  <2>2. InOrder(v)'
    BY <1>1, <2>1, NotServed DEF InOrder, Serves, Busy
  <2>3. Shown(v)' /\ Held(v)'
    BY <1>1, <1>2, <2>1 DEF Shown, Held, TargetsOf
  <2> QED
    BY <2>2, <2>3 DEF VolumeInv
<1> QED
  BY <1>3, <1>4 DEF KInv

\* With every staging path on the host, no restart takes a directory.
LEMMA RestartsKeepDirectories ==
  ASSUME TypeOK, DriverRestart \/ NodeReboot
  PROVE  dir' = dir
  BY NodeAssumption DEF DriverRestart, NodeReboot, Crash, Reboot, TypeOK, NodeOK

\* A restart of the driver drops the calls and takes nothing from the node.
LEMMA DriverRestartInv ==
  ASSUME KInv, KubeletTypeOK', DriverRestart
  PROVE  KInv'
<1>1. /\ call' = [r \in Handlers |-> NoCall] /\ disturbed' = {} /\ cancelled' = {}
      /\ UNCHANGED <<target, pod, known, device>> /\ Steady' = Steady
  BY DEF DriverRestart, Crash, DropCalls, kubeletState, Steady
<1>2. dir' = dir
  BY RestartsKeepDirectories DEF KInv, KubeletTypeOK
<1>3. mnt' = mnt
  <2>1. mnt' = Unlinked({}) /\ mnt \in [Targets -> Seq(Mounts)]
    BY NodeAssumption DEF DriverRestart, Crash, KInv, KubeletTypeOK, TypeOK, NodeOK
  <2> QED
    BY <2>1 DEF Unlinked
<1>4. ASSUME NEW v \in Steady PROVE VolumeInv(v)'
  BY <1>1, <1>2, <1>3, <1>4 DEF KInv, VolumeInv, InOrder, Shown, Held, Serves, Busy
<1> QED
  BY <1>1, <1>4 DEF KInv, FreeHandlersAreClean

\* A reboot takes the pods and the mounts and leaves the directories.
LEMMA NodeRebootInv ==
  ASSUME KInv, KubeletTypeOK', NodeReboot
  PROVE  KInv'
<1>1. /\ call' = [r \in Handlers |-> NoCall] /\ disturbed' = {} /\ cancelled' = {}
      /\ UNCHANGED <<dir, target>> /\ Steady' = Steady
      /\ mnt' = [t \in Targets |-> <<>>]
      /\ \A t \in Targets : pod'[t] # "running"
  BY RestartsKeepDirectories DEF NodeReboot, Reboot, DropCalls, Steady, KInv, KubeletTypeOK
<1>2. /\ \A t \in Targets : known'[t] = IF known[t] = "unmounted" THEN "unmounted" ELSE "uncertain"
      /\ \A v \in Persistent : device'[v] = IF device[v] = "unstaged" THEN "unstaged" ELSE "uncertain"
  <2>1. /\ known' = Unsure(known, "unmounted") /\ DOMAIN known = Targets
        /\ device' = Unsure(device, "unstaged") /\ DOMAIN device = Persistent
    BY DEF NodeReboot, KInv, KubeletTypeOK
  <2> QED
    BY <2>1 DEF Unsure
<1>3. ASSUME NEW v \in Steady PROVE VolumeInv(v)'
  <2>1. Shown(v) /\ Held(v)
    BY <1>3 DEF KInv, VolumeInv
  <2>2. InOrder(v)'
    BY <1>1 DEF InOrder, Serves, Busy
  <2>3. Shown(v)' /\ Held(v)'
    BY <1>1, <1>2, <2>1 DEF Shown, Held, TargetsOf
  <2> QED
    BY <2>2, <2>3 DEF VolumeInv
<1> QED
  BY <1>1, <1>3 DEF KInv, FreeHandlersAreClean

LEMMA InitInv == KubeletInit => KInv
<1> SUFFICES ASSUME KubeletInit PROVE KInv
  OBVIOUS
<1>1. KubeletTypeOK
  BY KubeletInitType
<1>2. ASSUME NEW v \in Steady PROVE VolumeInv(v)
  <2>1. v \in Volumes
    BY <1>2 DEF Steady
  <2>2. \A r \in Handlers : ~Serves(r, v)
    BY DEF KubeletInit, Init, Serves, Busy
  <2>3. /\ \A t \in Targets : mnt[t] = <<>> /\ t \notin target /\ known[t] = "unmounted"
                              /\ pod[t] # "running"
        /\ dir[v] = "absent" /\ \A w \in Persistent : device[w] = "unstaged"
    BY <2>1 DEF KubeletInit, Init
  <2> QED
    BY <2>2, <2>3 DEF VolumeInv, InOrder, Shown, Held, TargetsOf
<1> QED
  BY <1>1, <1>2 DEF KInv, FreeHandlersAreClean, KubeletInit, Init

LEMMA NextInv == KInv /\ KubeletTypeOK' /\ [KubeletNext]_kubeletVars => KInv'
<1> SUFFICES ASSUME KInv, KubeletTypeOK', [KubeletNext]_kubeletVars PROVE KInv'
  OBVIOUS
<1>1. CASE UNCHANGED kubeletVars
  <2>1. UNCHANGED vars /\ UNCHANGED kubeletState
    BY <1>1 DEF kubeletVars
  <2>2. FreeHandlersAreClean'
    BY <2>1 DEF KInv, FreeHandlersAreClean, Busy, vars
  <2>3. \A r \in Handlers : AtItsStep(r)' <=> AtItsStep(r)
    BY <2>1 DEF AtItsStep, Staging, Unstaging, Publishing, Unpublishing, vars, kubeletState
  <2>4. \A v \in Steady : InOrder(v)' /\ Shown(v)' /\ Held(v)'
    BY <2>1, <2>3 DEF KInv, VolumeInv, InOrder, Shown, Held, Serves, Busy, vars, kubeletState
  <2> QED
    BY <2>1, <2>2, <2>4 DEF KInv, VolumeInv, Steady, kubeletState
<1> QED
  BY <1>1, StepInv, PodInv, CallStageInv, CallUnstageInv, CallPublishInv, CallUnpublishInv,
     ReceiveInv, AbandonInv, KubeletRestartInv, DriverRestartInv, NodeRebootInv
  DEF KubeletNext

LEMMA Invariant == KubeletSpec => []KInv
<1>1. KInv => KubeletTypeOK
  BY DEF KInv
<1> QED
  BY <1>1, InitInv, NextInv, KubeletNextType, PTL DEF KubeletSpec

-----------------------------------------------------------------------------
(* What pods and the kubelet can rely on. *)

(***************************************************************************)
(* Mounts show whole bottles: no order of calls, failures and restarts     *)
(* leaves a steady volume's target with a stacked mount, a removed         *)
(* directory or half a bottle (node.go:333, 342-372, 397-434, 453).        *)
(***************************************************************************)
THEOREM MountsShowWholeBottles == KubeletSpec => []MountedIsWhole
<1>1. KInv => MountedIsWhole
  BY DEF KInv, VolumeInv, Shown, MountedIsWhole, SteadyTargets, TargetsOf
<1> QED
  BY <1>1, Invariant, PTL

(***************************************************************************)
(* A running pod keeps its bottle through failed calls, restarts of the    *)
(* driver, and kubelets that publish it again (node.go:342-361).           *)
(***************************************************************************)
THEOREM RunningPodsKeepTheirBottle == KubeletSpec => []RunningPodSeesBottle
<1>1. KInv => RunningPodSeesBottle
  BY DEF KInv, VolumeInv, Shown, RunningPodSeesBottle, SteadyTargets, TargetsOf
<1> QED
  BY <1>1, Invariant, PTL

(***************************************************************************)
(* An OK reply stays true until the kubelet asks for a change (node.go:    *)
(* 299, 376, 437, 458).                                                    *)
(***************************************************************************)
THEOREM RepliesStayTrue == KubeletSpec => []KubeletViewIsRight
<1>1. KInv => KubeletViewIsRight
  BY DEF KInv, VolumeInv, Shown, Held, KubeletViewIsRight, SteadyTargets, TargetsOf, Steady,
     Persistent
<1> QED
  BY <1>1, Invariant, PTL

-----------------------------------------------------------------------------
(* The node side implements BottleVolumes. *)

Fetched == {v \in Steady : dir[v] = "complete"}
ShownAt == {t \in SteadyTargets : mnt[t] # <<>>}
RunningAt == {t \in SteadyTargets : pod[t] = "running"}

\* What a step of a call does to the bottle of a steady volume, and what it
\* shows.
LEMMA StepChanges ==
  ASSUME KInv, KInv', NEW r \in Handlers, Step(r), UNCHANGED kubeletState,
         NEW c, call[r] = c, NEW v, v = VolOf(c), v \in Steady
  PROVE  \/ /\ dir'[v] = "complete" <=> dir[v] = "complete"
            /\ \A s \in TargetsOf(v) : mnt'[s] = <<>> <=> mnt[s] = <<>>
         \/ dir'[v] = "complete" /\ mnt' = mnt
         \/ /\ dir[v] = "complete" /\ dir' = dir
            /\ \E t \in TargetsOf(v) : /\ mnt'[t] # <<>>
                                       /\ \A s \in Targets : s # t => mnt'[s] = mnt[s]
         \/ /\ dir' = dir
            /\ \E t \in TargetsOf(v) : /\ mnt'[t] = <<>> /\ pod[t] = "gone"
                                       /\ \A s \in Targets : s # t => mnt'[s] = mnt[s]
         \/ /\ dir'[v] # "complete"
            /\ \A s \in TargetsOf(v) : mnt'[s] = <<>> /\ mnt[s] = <<>>
<1> DEFINE t == c.tgt
<1>1. TypeOK /\ TypeOK'
  BY DEF KInv, KubeletTypeOK
<1>2. v \in Steady' /\ v \in Volumes
  BY DEF Steady, kubeletState
<1>3. VolumeInv(v) /\ InOrder(v) /\ Shown(v) /\ VolumeInv(v)' /\ InOrder(v)' /\ Shown(v)'
  BY <1>2 DEF KInv, VolumeInv
<1>4. /\ pc[r] # "idle" /\ InItsHandler(pc[r], c) /\ Serves(r, v)
      /\ c.op \in {"stage", "unstage"} => v = c.vol /\ v \in Persistent
      /\ c.op \in {"publish", "unpublish"} => t \in TargetsOf(v) /\ v = VolumeOf[t] /\ t \in Targets
  BY <1>1, StepIsBusy, AtWork DEF TargetsOf
<1>5. call' = call
  BY <1>1, StepTouches
<1>6. AtItsStep(r) /\ AtItsStep(r)' /\ r \notin disturbed
  BY <1>3, <1>4, <1>5 DEF InOrder, Serves, Busy
<1>7. /\ dir \in [Volumes -> DirStates] /\ mnt \in [Targets -> Seq(Mounts)]
      /\ pc \in [Handlers -> {"idle"} \union Pcs] /\ mnt' \in [Targets -> Seq(Mounts)]
  BY <1>1 DEF TypeOK, NodeOK, HandlersOK
<1>8. CASE BeginPull(r)
  BY <1>2, <1>7, <1>8, NodeAssumption DEF BeginPull
<1>9. CASE EndPull(r)
  BY <1>2, <1>6, <1>7, <1>9 DEF EndPull
<1>10. CASE UNCHANGED <<dir, mnt>>
  BY <1>10
<1>11. CASE Bind(r) /\ mnt' # mnt
  <2>1. /\ pc[r] = "bind" /\ dir' = dir
        /\ mnt' = [mnt EXCEPT ![t] = <<[live |-> TRUE, options |-> {}]>> \o @]
    BY <1>11 DEF Bind
  <2>2. c.op = "publish" /\ dir[v] = "complete"
    BY <1>4, <1>6, <2>1 DEF InItsHandler, MountPcs, AtItsStep, Publishing
  <2> DEFINE top == [live |-> TRUE, options |-> {}]
  <2>3. top \in Mounts
    BY DEF Mounts
  <2>4. mnt'[t] = <<top>> \o mnt[t] /\ \A s \in Targets : s # t => mnt'[s] = mnt[s]
    BY <1>4, <1>7, <2>1, <2>2
  <2> HIDE DEF top
  <2>5. mnt[t] \in Seq(Mounts) /\ Len(mnt[t]) \in Nat /\ mnt'[t] \in Seq(Mounts)
    BY <1>4, <1>7, <2>2
  <2>6. Len(mnt'[t]) = Len(mnt[t]) + 1
    BY <2>3, <2>4, <2>5, PushFacts
  <2>7. mnt'[t] # <<>>
    BY <2>5, <2>6, StackFacts
  <2> QED
    BY <1>4, <2>1, <2>2, <2>4, <2>7
<1>12. CASE Remount(r) /\ mnt' # mnt
  <2>1. /\ pc[r] = "remount" /\ dir' = dir /\ mnt[t] # <<>>
        /\ mnt' = [mnt EXCEPT ![t] =
             <<[live |-> Head(@).live, options |-> MountOptions(t)]>> \o Tail(@)]
        /\ Succeeds(r, "ok")
    BY <1>12 DEF Remount
  <2>2. c.op = "publish" /\ pc'[r] = "ok"
    BY <1>4, <1>7, <2>1 DEF InItsHandler, MountPcs, Succeeds, Goto
  <2>3. mnt'[t] # <<>> /\ t \in TargetsOf(v)
    BY <1>4, <1>5, <1>6, <2>2 DEF AtItsStep, Publishing
  <2>4. \A s \in Targets : s # t => mnt'[s] = mnt[s]
    BY <1>7, <2>1
  <2> QED
    BY <2>1, <2>3, <2>4 DEF TargetsOf
<1>13. CASE Unmount(r) /\ mnt' # mnt
  <2>1. /\ pc[r] = "unmount" /\ dir' = dir /\ mnt' = [mnt EXCEPT ![t] = Tail(@)]
        /\ Succeeds(r, "removeTarget")
    BY <1>13 DEF Unmount
  <2>2. c.op = "unpublish" /\ pc'[r] = "removeTarget"
    BY <1>4, <1>7, <2>1 DEF InItsHandler, UnmountPcs, Succeeds, Goto
  <2>3. mnt'[t] = <<>> /\ pod[t] = "gone" /\ t \in TargetsOf(v)
    BY <1>4, <1>5, <1>6, <2>2 DEF AtItsStep, Unpublishing
  <2>4. \A s \in Targets : s # t => mnt'[s] = mnt[s]
    BY <1>7, <2>1
  <2> QED
    BY <2>1, <2>3, <2>4
<1>14. CASE RemoveTarget(r)
  <2>1. c.op = "unpublish" /\ mnt[t] = <<>>
    BY <1>4, <1>6, <1>14 DEF RemoveTarget, InItsHandler, UnmountPcs, AtItsStep, Unpublishing
  <2> QED
    BY <1>10, <1>14, <2>1 DEF RemoveTarget
<1>15. CASE RemoveStaging(r)
  <2>1. \/ c.op = "unstage" /\ Unstaging(r, v)
        \/ c.op = "unpublish" /\ Unpublishing(r, t) /\ pc[r] = "removeStaging"
    BY <1>4, <1>6, <1>15 DEF RemoveStaging, InItsHandler, AtItsStep
  <2>2. v \in Ephemeral /\ c.op = "unpublish" => TargetsOf(v) = {t}
    BY <1>4, EphemeralAssumption DEF TargetsOf
  <2>3. \A s \in TargetsOf(v) : mnt[s] = <<>>
    BY <1>3, <1>4, <2>1, <2>2 DEF Unstaging, Unpublishing, Shown
  <2>4. dir'[v] # "complete"
    BY <1>2, <1>7, <1>15 DEF RemoveStaging
  <2>5. \A s \in TargetsOf(v) : mnt'[s] = <<>>
    BY <1>3, <2>4 DEF Shown
  <2> QED
    BY <2>3, <2>4, <2>5
<1> QED
  BY <1>8, <1>9, <1>10, <1>11, <1>12, <1>13, <1>14, <1>15
  DEF Step, LoadCredentials, Resolve, Notify, CheckMount, MakeTarget, Bind, Remount,
      CheckUnmount, Unmount, StatStaging, nodeState

\* The actions of BottleVolumes, over the state they stand for here.
LEMMA AbstractSteps ==
  /\ UNCHANGED <<Fetched, ShownAt, RunningAt, abandoned>> => UNCHANGED Abstract!vars
  /\ \A v \in Volumes : v \notin abandoned /\ Fetched' = Fetched \union {v}
       /\ UNCHANGED <<ShownAt, RunningAt, abandoned>> => Abstract!Next
  /\ \A v \in Volumes : (\A t \in ShownAt : VolumeOf[t] # v) /\ Fetched' = Fetched \ {v}
       /\ UNCHANGED <<ShownAt, RunningAt, abandoned>> => Abstract!Next
  /\ \A t \in Targets : VolumeOf[t] \in Fetched /\ ShownAt' = ShownAt \union {t}
       /\ UNCHANGED <<Fetched, RunningAt, abandoned>> => Abstract!Next
  /\ \A t \in Targets : t \notin RunningAt /\ ShownAt' = ShownAt \ {t}
       /\ UNCHANGED <<Fetched, RunningAt, abandoned>> => Abstract!Next
  /\ \A t \in Targets : t \in ShownAt /\ RunningAt' = RunningAt \union {t}
       /\ UNCHANGED <<Fetched, ShownAt, abandoned>> => Abstract!Next
  /\ \A t \in Targets : RunningAt' = RunningAt \ {t}
       /\ UNCHANGED <<Fetched, ShownAt, abandoned>> => Abstract!Next
  /\ ShownAt' = {} /\ RunningAt' = {} /\ UNCHANGED <<Fetched, abandoned>> => Abstract!Next
  /\ \A vs \in SUBSET Volumes :
       /\ abandoned' = abandoned \union vs
       /\ Fetched' = Fetched \ vs
       /\ ShownAt' = {t \in ShownAt : VolumeOf[t] \notin vs}
       /\ RunningAt' = {t \in RunningAt : VolumeOf[t] \notin vs}
       => Abstract!Next
  BY DEF Abstract!Next, Abstract!Fetch, Abstract!Discard, Abstract!Show, Abstract!Hide,
     Abstract!Start, Abstract!Stop, Abstract!Reboot, Abstract!Lose, Abstract!vars,
     Fetched, ShownAt, RunningAt

\* What is neither fetched, nor mounted, nor started or stopped is a stutter.
LEMMA Stutters ==
  ASSUME UNCHANGED <<dir, mnt, pod, abandoned>>
  PROVE  UNCHANGED Abstract!vars
<1>1. UNCHANGED <<Fetched, ShownAt, RunningAt>>
  BY DEF Fetched, ShownAt, RunningAt, Steady, SteadyTargets
<1> QED
  BY <1>1, AbstractSteps

LEMMA StepSimulates ==
  ASSUME KInv, KInv', NEW r \in Handlers, Step(r), UNCHANGED kubeletState
  PROVE  Abstract!Next \/ UNCHANGED Abstract!vars
<1>1. TypeOK /\ Steady' = Steady /\ SteadyTargets' = SteadyTargets
  BY DEF KInv, KubeletTypeOK, Steady, SteadyTargets, kubeletState
<1>2. PICK c : c = call[r]
  OBVIOUS
<1>3. PICK v : v = VolOf(c)
  OBVIOUS
<1>4. /\ \A w \in Volumes : w # v => dir'[w] = dir[w]
      /\ \A s \in Targets : VolumeOf[s] # v => mnt'[s] = mnt[s]
      /\ v \in Volumes
  BY <1>1, <1>2, <1>3, StepTouches, StepIsBusy, AtWork
<1>5. UNCHANGED <<RunningAt, abandoned>>
  BY <1>1 DEF RunningAt, kubeletState
<1>6. CASE v \notin Steady
  <2>1. UNCHANGED <<Fetched, ShownAt>>
    BY <1>1, <1>4, <1>6 DEF Fetched, ShownAt, Steady, SteadyTargets
  <2> QED
    BY <1>5, <2>1, AbstractSteps
<1>7. CASE v \in Steady
  <2>0. v \notin abandoned
    BY <1>7 DEF Steady
  <2>1. CASE /\ dir'[v] = "complete" <=> dir[v] = "complete"
             /\ \A s \in TargetsOf(v) : mnt'[s] = <<>> <=> mnt[s] = <<>>
    <3>1. UNCHANGED <<Fetched, ShownAt>>
      BY <1>1, <1>4, <2>1 DEF Fetched, ShownAt, Steady, SteadyTargets, TargetsOf
    <3> QED
      BY <1>5, <3>1, AbstractSteps
  <2>2. CASE dir'[v] = "complete" /\ mnt' = mnt
    <3>1. Fetched' = Fetched \union {v} /\ ShownAt' = ShownAt
      BY <1>1, <1>4, <1>7, <2>2 DEF Fetched, ShownAt, Steady, SteadyTargets
    <3> QED
      BY <1>4, <1>5, <2>0, <3>1, AbstractSteps
  <2>3. CASE /\ dir[v] = "complete" /\ dir' = dir
             /\ \E t \in TargetsOf(v) : /\ mnt'[t] # <<>>
                                        /\ \A s \in Targets : s # t => mnt'[s] = mnt[s]
    <3>1. PICK t \in TargetsOf(v) : mnt'[t] # <<>> /\ \A s \in Targets : s # t => mnt'[s] = mnt[s]
      BY <2>3
    <3>2. t \in Targets /\ t \in SteadyTargets /\ VolumeOf[t] = v
      BY <1>7, <3>1 DEF TargetsOf, SteadyTargets
    <3>3. Fetched' = Fetched /\ VolumeOf[t] \in Fetched
      BY <1>1, <1>7, <2>3, <3>2 DEF Fetched
    <3>4. ShownAt' = ShownAt \union {t}
      BY <1>1, <3>1, <3>2 DEF ShownAt, SteadyTargets
    <3> QED
      BY <1>5, <3>2, <3>3, <3>4, AbstractSteps
  <2>4. CASE /\ dir' = dir
             /\ \E t \in TargetsOf(v) : /\ mnt'[t] = <<>> /\ pod[t] = "gone"
                                        /\ \A s \in Targets : s # t => mnt'[s] = mnt[s]
    <3>1. PICK t \in TargetsOf(v) : /\ mnt'[t] = <<>> /\ pod[t] = "gone"
                                    /\ \A s \in Targets : s # t => mnt'[s] = mnt[s]
      BY <2>4
    <3>2. t \in Targets /\ t \notin RunningAt
      BY <3>1 DEF TargetsOf, RunningAt
    <3>3. Fetched' = Fetched
      BY <1>1, <2>4 DEF Fetched
    <3>4. ShownAt' = ShownAt \ {t}
      BY <1>1, <3>1 DEF ShownAt, SteadyTargets
    <3> QED
      BY <1>5, <3>2, <3>3, <3>4, AbstractSteps
  <2>5. CASE /\ dir'[v] # "complete"
             /\ \A s \in TargetsOf(v) : mnt'[s] = <<>> /\ mnt[s] = <<>>
    <3>1. Fetched' = Fetched \ {v}
      BY <1>1, <1>4, <2>5 DEF Fetched, Steady
    <3>2. ShownAt' = ShownAt /\ \A t \in ShownAt : VolumeOf[t] # v
      BY <1>1, <1>4, <2>5 DEF ShownAt, SteadyTargets, TargetsOf
    <3> QED
      BY <1>4, <1>5, <3>1, <3>2, AbstractSteps
  <2> QED
    BY <1>2, <1>3, <1>7, <2>1, <2>2, <2>3, <2>4, <2>5, StepChanges
<1> QED
  BY <1>6, <1>7

LEMMA NextSimulates ==
  KInv /\ KInv' /\ [KubeletNext]_kubeletVars => [Abstract!Next]_Abstract!vars
<1> SUFFICES ASSUME KInv, KInv', [KubeletNext]_kubeletVars
             PROVE  Abstract!Next \/ UNCHANGED Abstract!vars
  OBVIOUS
<1>1. CASE UNCHANGED kubeletVars
  BY <1>1, Stutters DEF kubeletVars, kubeletState, vars
<1>2. ASSUME NEW t \in Targets, CreatePod(t) \/ StartPod(t) \/ DeletePod(t)
      PROVE  Abstract!Next \/ UNCHANGED Abstract!vars
  <2>1. /\ UNCHANGED <<dir, mnt, abandoned>>
        /\ UNCHANGED <<Fetched, ShownAt, Steady, SteadyTargets>>
    BY <1>2 DEF CreatePod, StartPod, DeletePod, vars, Fetched, ShownAt, Steady, SteadyTargets
  <2>2. pod \in [Targets -> {"none", "wanted", "running", "gone"}]
    BY DEF KInv, KubeletTypeOK
  <2>3. CASE CreatePod(t)
    <3>1. RunningAt' = RunningAt
      BY <2>1, <2>2, <2>3 DEF CreatePod, RunningAt
    <3> QED
      BY <2>1, <3>1, AbstractSteps
  <2>4. CASE StartPod(t)
    <3>1. CASE VolumeOf[t] \in Steady
      <4>1. t \in ShownAt
        BY <2>4, <3>1 DEF StartPod, KInv, VolumeInv, Shown, ShownAt, SteadyTargets, TargetsOf
      <4>2. RunningAt' = RunningAt \union {t}
        BY <2>1, <2>2, <2>4, <3>1 DEF StartPod, RunningAt, SteadyTargets
      <4> QED
        BY <2>1, <4>1, <4>2, AbstractSteps
    <3>2. CASE VolumeOf[t] \notin Steady
      <4>1. RunningAt' = RunningAt
        BY <2>1, <2>2, <2>4, <3>2 DEF StartPod, RunningAt, SteadyTargets
      <4> QED
        BY <2>1, <4>1, AbstractSteps
    <3> QED
      BY <3>1, <3>2
  <2>5. CASE DeletePod(t)
    <3>1. RunningAt' = RunningAt \ {t}
      BY <2>1, <2>2, <2>5 DEF DeletePod, RunningAt
    <3> QED
      BY <2>1, <3>1, AbstractSteps
  <2> QED
    BY <1>2, <2>3, <2>4, <2>5
\* Calls and replies.
<1>3. ASSUME NEW c, Send(c), UNCHANGED <<pod, abandoned>> PROVE UNCHANGED Abstract!vars
  <2>1. UNCHANGED <<dir, mnt>>
    BY <1>3, SendFacts DEF Arrive, nodeState
  <2> QED
    BY <1>3, <2>1, Stutters
<1>4. ASSUME NEW v \in Persistent, CallStage(v) \/ CallUnstage(v) PROVE UNCHANGED Abstract!vars
  BY <1>3, <1>4 DEF CallStage, CallUnstage
<1>5. ASSUME NEW t \in Targets, CallPublish(t) \/ CallUnpublish(t) PROVE UNCHANGED Abstract!vars
  BY <1>3, <1>5 DEF CallPublish, CallUnpublish
<1>6. ASSUME NEW r \in Handlers, Receive(r) PROVE UNCHANGED Abstract!vars
  BY <1>6, Stutters DEF Receive, Reply, nodeState
\* The volumes whose calls are abandoned are lost.
<1>7. ASSUME NEW vs \in SUBSET Volumes, abandoned' = abandoned \union vs, UNCHANGED <<dir, mnt, pod>>
      PROVE  Abstract!Next
  <2>1. /\ Fetched' = Fetched \ vs
        /\ ShownAt' = {t \in ShownAt : VolumeOf[t] \notin vs}
        /\ RunningAt' = {t \in RunningAt : VolumeOf[t] \notin vs}
    BY <1>7 DEF Fetched, ShownAt, RunningAt, Steady, SteadyTargets
  <2> QED
    BY <1>7, <2>1, AbstractSteps
<1>8. ASSUME NEW r \in Handlers, Abandon(r) PROVE Abstract!Next
  <2>1. VolOf(call[r]) \in Volumes
    BY <1>8, AtWork DEF Abandon, Waiting, KInv, KubeletTypeOK
  <2>2. PICK v : v = VolOf(call[r])
    OBVIOUS
  <2>3. {v} \in SUBSET Volumes /\ abandoned' = abandoned \union {v} /\ UNCHANGED <<dir, mnt, pod>>
    BY <1>8, <2>1, <2>2 DEF Abandon, nodeState
  <2> QED
    BY <1>7, <2>3
<1>9. CASE KubeletRestart
  <2>1. PICK vs : vs = {v \in Volumes : InFlight(v)}
    OBVIOUS
  <2>2. vs \in SUBSET Volumes /\ abandoned' = abandoned \union vs /\ UNCHANGED <<dir, mnt, pod>>
    BY <1>9, <2>1 DEF KubeletRestart, nodeState
  <2> QED
    BY <1>7, <2>2
<1>10. CASE DriverRestart
  <2>1. dir' = dir
    BY <1>10, RestartsKeepDirectories DEF KInv, KubeletTypeOK
  <2>2. mnt' = Unlinked({}) /\ mnt \in [Targets -> Seq(Mounts)]
    BY <1>10, NodeAssumption DEF DriverRestart, Crash, KInv, KubeletTypeOK, TypeOK, NodeOK
  <2>3. mnt' = mnt
    BY <2>2 DEF Unlinked
  <2> QED
    BY <1>10, <2>1, <2>3, Stutters DEF DriverRestart, kubeletState
<1>11. CASE NodeReboot
  <2>1. UNCHANGED <<Fetched, abandoned>> /\ ShownAt' = {} /\ RunningAt' = {}
    BY <1>11, RestartsKeepDirectories
    DEF NodeReboot, Reboot, Fetched, ShownAt, RunningAt, Steady, SteadyTargets,
        KInv, KubeletTypeOK
  <2> QED
    BY <2>1, AbstractSteps
<1> QED
  BY <1>1, <1>2, <1>4, <1>5, <1>6, <1>8, <1>9, <1>10, <1>11, StepSimulates DEF KubeletNext

(***************************************************************************)
(* The node side implements BottleVolumes: steps of calls, failures,       *)
(* abandoned calls and restarts show the pods only what it promises        *)
(* (node.go:233-459).                                                      *)
(***************************************************************************)
THEOREM NodeImplementsBottleVolumes == KubeletSpec => ImplementsBottleVolumes
<1>1. KubeletInit => Abstract!Init
  <2> SUFFICES ASSUME KubeletInit PROVE Abstract!Init
    OBVIOUS
  <2>1. Fetched = {} /\ ShownAt = {} /\ RunningAt = {} /\ abandoned = {}
    BY DEF KubeletInit, Init, Fetched, ShownAt, RunningAt, Steady, SteadyTargets
  <2> QED
    BY <2>1 DEF Abstract!Init, Fetched, ShownAt, RunningAt
<1> QED
  BY <1>1, Invariant, NextSimulates, PTL DEF KubeletSpec, ImplementsBottleVolumes, Abstract!Spec

(***************************************************************************)
(* What BottleVolumes promises its pods the node side keeps, because it    *)
(* implements BottleVolumes and for no other reason (node.go:233-459).     *)
(***************************************************************************)
THEOREM NodeKeepsThePromise == KubeletSpec => []Abstract!Promise
<1>1. Abstract!Init => Abstract!Promise
  BY DEF Abstract!Init, Abstract!Promise
<1>2. Abstract!Promise /\ [Abstract!Next]_Abstract!vars => Abstract!Promise'
  BY Abstract!NextPromise
<1> QED
  BY <1>1, <1>2, NodeImplementsBottleVolumes, PTL DEF ImplementsBottleVolumes, Abstract!Spec
-----------------------------------------------------------------------------
(***************************************************************************)
(* What only a fault can do to a steady volume, for any number of          *)
(* volumes, targets, handlers and faults: make one of its calls fail, or   *)
(* leave the mount a pod runs on without its options.                      *)
(***************************************************************************)

(* Calls fail by faults only. *)

LEMMA SpendGrows ==
  ASSUME TypeOK, NEW f, Spend(f)
  PROVE  faults' > faults /\ faults' # 0
  BY FaultsAssumption DEF TypeOK, Spend

\* A call somebody waits for fails at a step because of a fault there.
LEMMA FailsBySpending ==
  ASSUME TypeOK, NEW r \in Handlers, r \notin cancelled, NEW f, Fails(r, f)
  PROVE  faults' > faults /\ faults' # 0
  BY SpendGrows DEF Fails

\* Where the handler of a steady volume is, and what it finds there.
LEMMA SteadyHandler ==
  ASSUME KInv, NEW r \in Handlers, Busy(r), VolOf(call[r]) \in Steady
  PROVE  /\ pc[r] # "idle" /\ InItsHandler(pc[r], call[r])
         /\ r \notin cancelled /\ r \notin disturbed /\ AtItsStep(r)
         /\ \A q \in Handlers : Serves(q, VolOf(call[r])) => q = r
         /\ pc[r] # "pulling" => Pullers(VolOf(call[r])) = {}
         /\ pc[r] \in MountPcs => Publishing(r, call[r].tgt)
         /\ pc[r] \in {"unmount", "removeTarget"} => Unpublishing(r, call[r].tgt)
         /\ pc[r] \in MountPcs \union UnmountPcs =>
              call[r].tgt \in Targets /\ VolOf(call[r]) = VolumeOf[call[r].tgt]
<1> DEFINE v == VolOf(call[r])
<1>1. TypeOK /\ InOrder(v)
  BY DEF KInv, KubeletTypeOK, VolumeInv
<1>2. pc[r] # "idle" /\ InItsHandler(pc[r], call[r]) /\ Serves(r, v)
  BY <1>1, AtWork
<1>3. /\ r \notin cancelled /\ r \notin disturbed /\ AtItsStep(r)
      /\ \A q \in Handlers : Serves(q, v) => q = r
  BY <1>1, <1>2 DEF InOrder
<1>4. pc[r] # "pulling" => Pullers(v) = {}
  BY <1>3 DEF Pullers
<1>5. /\ pc[r] \in MountPcs => call[r].op = "publish"
      /\ pc[r] \in {"unmount", "removeTarget"} => call[r].op = "unpublish"
  BY <1>2 DEF InItsHandler, UnmountPcs
<1>6. /\ pc[r] \in MountPcs => Publishing(r, call[r].tgt)
      /\ pc[r] \in {"unmount", "removeTarget"} => Unpublishing(r, call[r].tgt)
  BY <1>3, <1>5 DEF AtItsStep
<1>7. pc[r] \in MountPcs \union UnmountPcs =>
        call[r].tgt \in Targets /\ VolOf(call[r]) = VolumeOf[call[r].tgt]
  BY <1>1, <1>2, StepsOfCalls
<1> QED
  BY <1>2, <1>3, <1>4, <1>6, <1>7

\* Nothing that earlier calls left makes a step fail: what it needs is there.
LEMMA StepFailsBySpending ==
  ASSUME KInv, NEW r \in Handlers, Step(r), VolOf(call[r]) \in Steady,
         pc'[r] = "internal"
  PROVE  faults' > faults
<1> DEFINE t == call[r].tgt  v == VolOf(call[r])
<1>1. TypeOK /\ DOMAIN pc = Handlers
  BY DEF KInv, KubeletTypeOK, TypeOK, HandlersOK
<1>2. /\ r \notin cancelled /\ r \notin disturbed
      /\ pc[r] # "pulling" => Pullers(v) = {}
      /\ pc[r] \in MountPcs => Publishing(r, t)
      /\ pc[r] \in {"unmount", "removeTarget"} => Unpublishing(r, t)
      /\ pc[r] \in MountPcs \union UnmountPcs => v = VolumeOf[t]
  BY <1>1, StepIsBusy, SteadyHandler
<1>3. \A f : Fails(r, f) => faults' > faults
  BY <1>1, <1>2, FailsBySpending
<1>4. \A next : Succeeds(r, next) => next = "internal"
  BY <1>1 DEF Succeeds, Goto
<1>5. CASE LoadCredentials(r) \/ Resolve(r) \/ BeginPull(r)
  BY <1>3, <1>4, <1>5 DEF LoadCredentials, Resolve, BeginPull
<1>6. CASE EndPull(r)
  BY <1>2, <1>3, <1>4, <1>6 DEF EndPull
<1>7. CASE Notify(r)
  <2>1. ~Succeeds(r, IF call[r].op = "stage" THEN "ok" ELSE "checkMount")
    BY <1>4
  <2> QED
    BY <1>3, <1>7, <2>1 DEF Notify
<1>8. CASE CheckMount(r) \/ MakeTarget(r)
  BY <1>3, <1>4, <1>8 DEF CheckMount, MakeTarget
<1>9. CASE Bind(r)
  <2>1. pc[r] = "bind" /\ t \in target /\ dir[VolumeOf[t]] = "complete"
    BY <1>2, <1>9 DEF Bind, MountPcs, Publishing
  <2> QED
    BY <1>3, <1>4, <1>9, <2>1 DEF Bind
<1>10. CASE Remount(r)
  <2>1. mnt[t] # <<>>
    BY <1>2, <1>10 DEF Remount, MountPcs, Publishing
  <2> QED
    BY <1>3, <1>4, <1>10, <2>1 DEF Remount
<1>11. CASE CheckUnmount(r)
  BY <1>3, <1>4, <1>11 DEF CheckUnmount
<1>12. CASE Unmount(r)
  <2>1. mnt[t] # <<>>
    BY <1>2, <1>12 DEF Unmount, Unpublishing
  <2> QED
    BY <1>3, <1>4, <1>12, <2>1 DEF Unmount
<1>13. CASE RemoveTarget(r)
  <2>1. mnt[t] = <<>>
    BY <1>2, <1>13 DEF RemoveTarget, Unpublishing
  <2> QED
    BY <1>3, <1>4, <1>13, <2>1 DEF RemoveTarget
<1>14. CASE StatStaging(r)
  <2>1. ~Goto(r, "ok")
    BY <1>1 DEF Goto
  <2> QED
    BY <1>4, <1>14, <2>1 DEF StatStaging
<1>15. CASE RemoveStaging(r)
  <2>1. Pullers(v) = {}
    BY <1>2, <1>15 DEF RemoveStaging
  <2> QED
    BY <1>3, <1>4, <1>15, <2>1 DEF RemoveStaging
<1> QED
  BY <1>5, <1>6, <1>7, <1>8, <1>9, <1>10, <1>11, <1>12, <1>13, <1>14, <1>15 DEF Step

\* What else happens makes no call fail.
LEMMA OnlyStepsFail ==
  ASSUME KInv, [KubeletNext]_kubeletVars, NEW r \in Handlers, Busy(r),
         pc[r] # "internal", pc'[r] = "internal"
  PROVE  Step(r) /\ UNCHANGED kubeletState
<1>1. TypeOK /\ DOMAIN pc = Handlers
  BY DEF KInv, KubeletTypeOK, TypeOK, HandlersOK
<1>2. ASSUME NEW c, Send(c) PROVE FALSE
  <2>1. PICK q \in Handlers : ~Busy(q) /\ Arrive(q, c)
    BY <1>2, SendFacts
  <2>2. q # r /\ pc'[r] = pc[r]
    BY <1>1, <2>1 DEF Arrive
  <2> QED
    BY <2>2
<1>3. ~DropCalls /\ pc' # pc
  BY DEF DropCalls
<1>4. ASSUME NEW q \in Handlers, Receive(q) PROVE FALSE
  <2>1. pc' = [pc EXCEPT ![q] = "idle"]
    BY <1>4 DEF Receive, Reply
  <2> QED
    BY <1>1, <2>1
<1>5. ASSUME NEW q \in Handlers, Step(q), UNCHANGED kubeletState
      PROVE  q = r
  <2>1. \E next : Goto(q, next)
    BY <1>5, StepMoves
  <2> QED
    BY <1>1, <2>1 DEF Goto
<1>6. ASSUME NEW t \in Targets PROVE ~CreatePod(t) /\ ~StartPod(t) /\ ~DeletePod(t)
                                     /\ ~CallPublish(t) /\ ~CallUnpublish(t)
  BY <1>2, <1>3 DEF CreatePod, StartPod, DeletePod, CallPublish, CallUnpublish, vars
<1>7. ASSUME NEW v \in Persistent PROVE ~CallStage(v) /\ ~CallUnstage(v)
  BY <1>2 DEF CallStage, CallUnstage
<1>8. ~KubeletRestart /\ \A q \in Handlers : ~Abandon(q)
  BY <1>3 DEF KubeletRestart, Abandon
<1>9. ~DriverRestart /\ ~NodeReboot
  BY <1>3 DEF DriverRestart, NodeReboot, Crash, Reboot
<1>10. ~UNCHANGED kubeletVars
  BY <1>3 DEF kubeletVars, vars
<1> QED
  BY <1>4, <1>5, <1>6, <1>7, <1>8, <1>9, <1>10 DEF KubeletNext

(***************************************************************************)
(* The calls of a steady volume can be repeated until they succeed: one    *)
(* fails only when something it does fails, whatever earlier ones left     *)
(* (node.go:342-368, 397-434).                                             *)
(***************************************************************************)
THEOREM CallsCanBeRepeated == KubeletSpec => CallsFailByFaultOnly
<1>1. KInv /\ [KubeletNext]_kubeletVars =>
        [\A r \in Handlers :
           Busy(r) /\ VolOf(call[r]) \in Steady /\ pc[r] # "internal" /\ pc'[r] = "internal"
             => faults' > faults]_kubeletVars
  BY OnlyStepsFail, StepFailsBySpending
<1> QED
  BY <1>1, Invariant, PTL DEF KubeletSpec, CallsFailByFaultOnly

-----------------------------------------------------------------------------
(* Mount options. *)

Remounting(t) ==
  {r \in Handlers : pc[r] = "remount" /\ call[r] = [op |-> "publish", tgt |-> t]}

Optioned(t) == mnt[t] # <<>> /\ Remounting(t) = {} => mnt[t][1].options = MountOptions(t)

\* Until the first fault no call is abandoned, only mounts that are about to be
\* remounted lack their options, and no pod runs on what is not known mounted.
AsAsked ==
  faults = 0 =>
    /\ abandoned = {}
    /\ \A t \in Targets : Optioned(t) /\ (pod[t] = "running" => known[t] = "mounted")

\* The options of a target stay while its mounts do and nobody sets out or ends
\* to remount them.
LEMMA OptionsStay ==
  ASSUME NEW t, Optioned(t), Remounting(t) \subseteq Remounting(t)',
         mnt'[t] # <<>> => mnt[t] # <<>> /\ mnt'[t][1].options = mnt[t][1].options
  PROVE  Optioned(t)'
  BY DEF Optioned

\* A handler that is not at "remount" and is the only one to move.
LEMMA RemountingStays ==
  ASSUME NEW r \in Handlers, pc[r] # "remount", NEW t,
         \A q \in Handlers : q # r => pc'[q] = pc[q] /\ call'[q] = call[q]
  PROVE  Remounting(t) \subseteq Remounting(t)'
  BY DEF Remounting

LEMMA StepAsAsked ==
  ASSUME KInv, AsAsked, NEW r \in Handlers, Step(r), UNCHANGED kubeletState, faults' = 0
  PROVE  AsAsked'
<1> DEFINE t == call[r].tgt  v == VolOf(call[r])
<1>1. TypeOK /\ NodeOK /\ DOMAIN pc = Handlers /\ faults = 0
  <2>1. TypeOK /\ NodeOK /\ DOMAIN pc = Handlers
    BY DEF KInv, KubeletTypeOK, TypeOK, HandlersOK
  <2>2. \A f : ~Spend(f)
    BY <2>1, SpendGrows
  <2> QED
    BY <2>1, <2>2, StepMoves
<1>2. /\ abandoned = {} /\ abandoned' = {} /\ pod' = pod /\ known' = known
      /\ \A s \in Targets : Optioned(s) /\ (pod[s] = "running" => known[s] = "mounted")
  BY <1>1 DEF AsAsked, kubeletState
<1>3. SUFFICES \A s \in Targets : Optioned(s)'
  BY <1>2 DEF AsAsked
<1>4. Busy(r) /\ v \in Volumes /\ v \in Steady
  BY <1>1, <1>2, StepIsBusy, AtWork DEF Steady
<1>5. /\ r \notin cancelled
      /\ pc[r] \in {"unmount", "removeTarget"} => Unpublishing(r, t)
      /\ pc[r] \in MountPcs \union UnmountPcs => t \in Targets /\ v = VolumeOf[t]
  BY <1>4, SteadyHandler
<1>6. \A q \in Handlers : q # r => pc'[q] = pc[q] /\ call'[q] = call[q]
  BY <1>1, StepTouches
<1>7. \A s : pc[r] # "remount" => Remounting(s) \subseteq Remounting(s)'
  BY <1>6, RemountingStays
<1>8. ASSUME pc[r] # "remount", mnt' = mnt PROVE \A s \in Targets : Optioned(s)'
  BY <1>2, <1>7, <1>8, OptionsStay
<1>9. CASE Bind(r)
  <2>1. CASE mnt' = mnt
    BY <1>8, <1>9, <2>1 DEF Bind
  <2>2. CASE mnt' # mnt
    <3>1. pc[r] = "bind" /\ pc'[r] = "remount" /\ call'[r] = call[r]
      BY <1>1, <1>9, <2>2 DEF Bind, Succeeds, Goto, KeepCall
    <3>2. call[r] \in Calls /\ call[r].op = "publish" /\ t \in Targets
      BY <1>1, <3>1, StepsOfCalls DEF InItsHandler, MountPcs
    <3>3. call[r] = [op |-> "publish", tgt |-> t]
      BY <3>2 DEF Calls
    <3>4. ASSUME NEW s \in Targets, s = t PROVE r \in Remounting(s)'
      BY <3>1, <3>3, <3>4 DEF Remounting
    <3>5. ASSUME NEW s \in Targets, s = t PROVE Optioned(s)'
      BY <3>4, <3>5 DEF Optioned
    <3>6. \A s \in Targets : s # t => mnt'[s] = mnt[s]
      BY <1>1, <1>9, <2>2 DEF Bind, NodeOK
    <3>7. ASSUME NEW s \in Targets, s # t PROVE Optioned(s)'
      BY <1>2, <1>7, <3>1, <3>6, <3>7, OptionsStay
    <3> QED
      BY <3>5, <3>7
  <2> QED
    BY <2>1, <2>2
<1>10. CASE Remount(r)
  <2>1. /\ pc[r] = "remount" /\ t \in Targets
        /\ \A s \in Targets : s # t => mnt'[s] = mnt[s]
    BY <1>1, <1>5, <1>10 DEF Remount, MountPcs, NodeOK
  <2>2. ASSUME NEW s \in Targets, s # t PROVE Optioned(s)'
    <3>1. Remounting(s) \subseteq Remounting(s)'
      BY <1>6, <2>2 DEF Remounting
    <3> QED
      BY <1>2, <2>1, <2>2, <3>1, OptionsStay
  <2>3. mnt'[t] # <<>> => mnt'[t][1].options = MountOptions(t)
    <3>1. ~Fails(r, "remount")
      BY <1>1, <1>5, FailsBySpending
    <3>2. CASE mnt[t] = <<>> /\ mnt' = mnt
      BY <3>2
    <3>3. CASE mnt[t] # <<>> /\ mnt' = [mnt EXCEPT ![t] =
                 <<[live |-> Head(@).live, options |-> MountOptions(t)]>> \o Tail(@)]
      <4> DEFINE top == [live |-> Head(mnt[t]).live, options |-> MountOptions(t)]
      <4>1. mnt[t] \in Seq(Mounts) /\ mnt'[t] = <<top>> \o Tail(mnt[t])
        BY <1>1, <2>1, <3>3 DEF NodeOK
      <4>2. top \in Mounts /\ Tail(mnt[t]) \in Seq(Mounts) /\ top.options = MountOptions(t)
        BY <3>3, <4>1, PopFacts, RemountedFacts
      <4> HIDE DEF top
      <4>3. mnt'[t][1] = top
        BY <4>1, <4>2, PushFacts
      <4> QED
        BY <4>2, <4>3
    <3> QED
      BY <1>10, <3>1, <3>2, <3>3 DEF Remount
  <2> QED
    BY <2>2, <2>3 DEF Optioned
<1>11. CASE Unmount(r)
  <2>1. CASE mnt' = mnt
    BY <1>8, <1>11, <2>1 DEF Unmount
  <2>2. CASE mnt' # mnt
    <3>1. /\ pc[r] = "unmount" /\ mnt[t] # <<>> /\ mnt' = [mnt EXCEPT ![t] = Tail(@)]
          /\ t \in Targets /\ v = VolumeOf[t]
      BY <1>5, <1>11, <2>2 DEF Unmount, UnmountPcs
    <3>2. mnt[t] \in Seq(Mounts) /\ Len(mnt[t]) = 1
      BY <1>1, <1>4, <3>1 DEF NodeOK, KInv, VolumeInv, Shown, TargetsOf
    <3>3. Tail(mnt[t]) \in Seq(Mounts) /\ Len(Tail(mnt[t])) = 0
      BY <3>1, <3>2, PopFacts
    <3>4. mnt'[t] = <<>> /\ \A s \in Targets : s # t => mnt'[s] = mnt[s]
      BY <1>1, <3>1, <3>3, StackFacts DEF NodeOK
    <3>5. ASSUME NEW s \in Targets, s = t PROVE Optioned(s)'
      BY <3>4, <3>5 DEF Optioned
    <3>6. ASSUME NEW s \in Targets, s # t PROVE Optioned(s)'
      BY <1>2, <1>7, <3>1, <3>4, <3>6, OptionsStay
    <3> QED
      BY <3>5, <3>6
  <2> QED
    BY <2>1, <2>2
<1>12. CASE RemoveStaging(r)
  <2>1. CASE mnt' = mnt
    BY <1>8, <1>12, <2>1 DEF RemoveStaging
  <2>2. CASE mnt' = Unlinked({v})
    <3>1. pc[r] = "removeStaging"
      BY <1>12 DEF RemoveStaging
    <3>2. ASSUME NEW s \in Targets
          PROVE  mnt'[s] # <<>> => mnt[s] # <<>> /\ mnt'[s][1].options = mnt[s][1].options
      <4>1. mnt[s] \in Seq(Mounts)
        BY <1>1 DEF NodeOK
      <4>2. mnt'[s] = IF VolumeOf[s] \in {v} THEN [i \in 1..Len(mnt[s]) |-> Pinned(mnt[s][i])]
                                             ELSE mnt[s]
        BY <2>2 DEF Unlinked
      <4>3. CASE VolumeOf[s] = v /\ mnt[s] = <<>>
        BY <4>2, <4>3
      <4>4. CASE VolumeOf[s] = v /\ mnt[s] # <<>>
        <5>1. 1 \in 1..Len(mnt[s])
          BY <4>1, <4>4
        <5> QED
          BY <4>2, <4>4, <5>1 DEF Pinned
      <4> QED
        BY <4>2, <4>3, <4>4
    <3> QED
      BY <1>2, <1>7, <3>1, <3>2, OptionsStay
  <2> QED
    BY <1>12, <2>1, <2>2 DEF RemoveStaging
<1>13. CASE LoadCredentials(r) \/ Resolve(r) \/ Notify(r) \/ CheckMount(r) \/ CheckUnmount(r)
            \/ StatStaging(r)
  <2>1. pc[r] # "remount"
    BY <1>13 DEF LoadCredentials, Resolve, Notify, CheckMount, CheckUnmount, StatStaging
  <2> QED
    BY <1>8, <1>13, <2>1, QuietSteps DEF nodeState
<1>14. CASE BeginPull(r) \/ EndPull(r) \/ MakeTarget(r) \/ RemoveTarget(r)
  BY <1>8, <1>14 DEF BeginPull, EndPull, MakeTarget, RemoveTarget
<1> QED
  BY <1>9, <1>10, <1>11, <1>12, <1>13, <1>14 DEF Step

\* Calls and replies, and what pods and their users do.
LEMMA CallAsAsked ==
  ASSUME KInv, AsAsked, NEW c, Send(c), UNCHANGED <<pod, abandoned>>,
         \A t \in Targets : known'[t] = known[t] \/ pod[t] # "running"
  PROVE  AsAsked'
<1>1. PICK r \in Handlers : ~Busy(r) /\ Arrive(r, c)
  BY SendFacts
<1>2. DOMAIN pc = Handlers /\ DOMAIN call = Handlers /\ pc[r] = "idle"
  BY <1>1 DEF KInv, KubeletTypeOK, TypeOK, HandlersOK
<1>3. /\ mnt' = mnt /\ faults' = faults
      /\ \A q \in Handlers : q # r => pc'[q] = pc[q] /\ call'[q] = call[q]
  BY <1>1, <1>2 DEF Arrive, nodeState
<1>4. \A t : Remounting(t) \subseteq Remounting(t)'
  BY <1>2, <1>3, RemountingStays
<1>5. ASSUME NEW t, Optioned(t) PROVE Optioned(t)'
  BY <1>3, <1>4, <1>5, OptionsStay
<1> QED
  BY <1>3, <1>5 DEF AsAsked

LEMMA ReceiveAsAsked ==
  ASSUME KInv, AsAsked, NEW r \in Handlers, Receive(r)
  PROVE  AsAsked'
<1>1. /\ TypeOK /\ DOMAIN pc = Handlers /\ DOMAIN call = Handlers /\ DOMAIN known = Targets
      /\ pc[r] \in DonePcs
  BY DEF KInv, KubeletTypeOK, TypeOK, HandlersOK, Receive, Reply
<1>2. /\ mnt' = mnt /\ faults' = faults /\ pc[r] # "remount"
      /\ \A q \in Handlers : q # r => pc'[q] = pc[q] /\ call'[q] = call[q]
      /\ UNCHANGED <<pod, abandoned>>
  BY <1>1 DEF Receive, Reply, nodeState, DonePcs
<1>3. ASSUME NEW t, Optioned(t) PROVE Optioned(t)'
  BY <1>2, <1>3, RemountingStays, OptionsStay
<1>4. ASSUME faults = 0, NEW t \in Targets, pod[t] = "running" PROVE known'[t] = "mounted"
  <2>1. known[t] = "mounted" /\ abandoned = {}
    BY <1>4 DEF AsAsked
  <2>2. CASE call[r].op = "unpublish" /\ call[r].tgt = t
    <3>1. Busy(r) /\ VolOf(call[r]) \in Steady
      BY <1>1, <2>1, AtWork DEF TypeOK, HandlersOK, DonePcs, Steady
    <3>2. AtItsStep(r)
      BY <3>1, SteadyHandler
    <3> QED
      BY <1>4, <2>2, <3>2 DEF AtItsStep, Unpublishing
  <2>3. CASE ~(call[r].op = "unpublish" /\ call[r].tgt = t)
    BY <1>1, <2>1, <2>3 DEF Receive
  <2> QED
    BY <2>2, <2>3
<1> QED
  BY <1>2, <1>3, <1>4 DEF AsAsked

LEMMA NextAsAsked == KInv /\ AsAsked /\ [KubeletNext]_kubeletVars => AsAsked'
<1> SUFFICES ASSUME KInv, AsAsked, [KubeletNext]_kubeletVars PROVE AsAsked'
  OBVIOUS
<1>1. TypeOK /\ KubeletTypeOK
  BY DEF KInv, KubeletTypeOK
<1>2. ASSUME NEW f, Spend(f) PROVE AsAsked'
  <2>1. faults' # 0
    BY <1>1, <1>2, SpendGrows
  <2> QED
    BY <2>1 DEF AsAsked
<1>3. ASSUME NEW r \in Handlers, Step(r), UNCHANGED kubeletState PROVE AsAsked'
  BY <1>3, StepAsAsked DEF AsAsked
<1>4. ASSUME NEW t \in Targets, CreatePod(t) \/ StartPod(t) \/ DeletePod(t) PROVE AsAsked'
  <2>1. UNCHANGED <<vars, known, abandoned>>
    BY <1>4 DEF CreatePod, StartPod, DeletePod
  <2>2. \A s \in Targets : pod'[s] = "running" => pod[s] = "running" \/ known[s] = "mounted"
    BY <1>1, <1>4 DEF CreatePod, StartPod, DeletePod, KubeletTypeOK
  <2>3. \A s \in Targets : Optioned(s)' <=> Optioned(s)
    BY <2>1 DEF Optioned, Remounting, vars
  <2> QED
    BY <2>1, <2>2, <2>3 DEF AsAsked, vars
<1>5. ASSUME NEW v \in Persistent, CallStage(v) \/ CallUnstage(v) PROVE AsAsked'
  BY <1>5, CallAsAsked DEF CallStage, CallUnstage
<1>6. ASSUME NEW t \in Targets, CallPublish(t) \/ CallUnpublish(t) PROVE AsAsked'
  <2>1. /\ \A s \in Targets : s # t => known'[s] = known[s]
        /\ UNCHANGED <<pod, abandoned>>
    BY <1>1, <1>6 DEF CallPublish, CallUnpublish, KubeletTypeOK
  <2>2. faults = 0 => pod[t] # "running"
    BY <1>6 DEF AsAsked, CallPublish, CallUnpublish
  <2>3. CASE faults = 0
    <3>1. \A s \in Targets : known'[s] = known[s] \/ pod[s] # "running"
      BY <2>1, <2>2, <2>3
    <3>2. PICK c : Send(c)
      BY <1>6 DEF CallPublish, CallUnpublish
    <3> QED
      BY <2>1, <3>1, <3>2, CallAsAsked
  <2>4. CASE faults # 0
    <3>1. faults' = faults
      BY <1>6, SendFacts DEF CallPublish, CallUnpublish, Arrive
    <3> QED
      BY <2>4, <3>1 DEF AsAsked
  <2> QED
    BY <2>3, <2>4
<1>7. ASSUME NEW r \in Handlers, Abandon(r) PROVE AsAsked'
  BY <1>2, <1>7 DEF Abandon
<1>8. CASE KubeletRestart \/ DriverRestart \/ NodeReboot
  BY <1>2, <1>8 DEF KubeletRestart, DriverRestart, NodeReboot, Crash, Reboot
<1>9. CASE UNCHANGED kubeletVars
  BY <1>9 DEF AsAsked, Optioned, Remounting, kubeletVars, vars, kubeletState
<1> QED
  BY <1>3, <1>4, <1>5, <1>6, <1>7, <1>8, <1>9, ReceiveAsAsked DEF KubeletNext

(***************************************************************************)
(* Without a fault a running pod's mount has the options it was published  *)
(* with, noexec among them: the reply comes after the remount, and the pod *)
(* after the reply (node.go:363-376).                                      *)
(***************************************************************************)
THEOREM MountsAreAsAsked == KubeletSpec => []OptionsAsAsked
<1>1. KubeletInit => AsAsked
  BY DEF KubeletInit, Init, AsAsked, Optioned
<1>2. KInv /\ AsAsked => OptionsAsAsked
  <2> SUFFICES ASSUME KInv, AsAsked, faults = 0, NEW t \in Targets, pod[t] = "running"
               PROVE  mnt[t] # <<>> /\ mnt[t][1].options = MountOptions(t)
    BY DEF OptionsAsAsked
  <2>1. known[t] = "mounted" /\ Optioned(t) /\ VolumeOf[t] \in Steady
    BY VolumeOfAssumption DEF AsAsked, Steady
  <2>2. mnt[t] # <<>>
    BY <2>1 DEF KInv, VolumeInv, Shown, TargetsOf
  <2>3. ASSUME NEW r \in Remounting(t) PROVE FALSE
    <3>1. r \in Handlers /\ pc[r] = "remount" /\ call[r] = [op |-> "publish", tgt |-> t]
      BY DEF Remounting
    <3>2. Busy(r) /\ VolOf(call[r]) = VolumeOf[t]
      BY <3>1, NoCallAssumption DEF Busy, Calls, VolOf
    <3>3. Publishing(r, t)
      BY <2>1, <3>1, <3>2, SteadyHandler DEF MountPcs
    <3> QED
      BY <2>1, <3>3 DEF Publishing
  <2> QED
    BY <2>1, <2>2, <2>3 DEF Optioned
<1> QED
  BY <1>1, <1>2, NextAsAsked, Invariant, PTL DEF KubeletSpec
=============================================================================
