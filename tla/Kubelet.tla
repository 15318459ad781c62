-------------------------------- MODULE Kubelet --------------------------------
(***************************************************************************)
(* The node service driven by the kubelet, the orchestrator csi-bottle is  *)
(* written for.  The kubelet is not under src/: it is modelled from the    *)
(* flows NodeServer's code is written to (the comment at node.go:148-162)  *)
(* and from what its handlers allow for: calls that fail and come again.   *)
(*                                                                         *)
(* The kubelet makes one call at a time for a volume and keeps, for each   *)
(* target and each staged volume, whether the last call left it done,      *)
(* undone or uncertain; it repeats a call until one succeeds.  It waits    *)
(* for a bounded time only, and a restart forgets the calls it waits for:  *)
(* a call is then abandoned, its handler goes on in the driver, and the    *)
(* next one is made.  The volumes this never happened to are the steady    *)
(* ones.                                                                   *)
(***************************************************************************)
EXTENDS NodeServer

CONSTANT Workloads   \* bound: sets of targets, one of which gets its pods

ASSUME WorkloadsAssumption == Workloads \subseteq SUBSET Targets

\* What the node server is run with: staging paths on the host, a pull that leaves
\* the files of a complete bottle alone, and a Stat that fails only for a directory
\* that is not there.
ASSUME NodeAssumption == Inside = {} /\ ~RepullRewrites /\ "stat" \notin Faults

VARIABLES
  pod,     \* the pod of each target
  known,   \* what the kubelet knows of each target
  device,  \* what the kubelet knows of the staging of each persistent volume
  abandoned \* the volumes one of whose calls was abandoned

kubeletState == <<pod, known, device, abandoned>>
kubeletVars == <<vars, kubeletState>>

\* Pods that need their volume.
Needs(t) == pod[t] \in {"wanted", "running"}

Persistent == Volumes \ Ephemeral

Steady == Volumes \ abandoned

SteadyTargets == {t \in Targets : VolumeOf[t] \in Steady}

TargetsOf(v) == {t \in Targets : VolumeOf[t] = v}

\* The call the kubelet waits for.
Waiting(r) == Busy(r) /\ r \notin cancelled

InFlight(v) == \E r \in Handlers : Waiting(r) /\ Serves(r, v)

-----------------------------------------------------------------------------
(* Pods. *)

CreatePod(t) ==
  /\ pod[t] = "none"
  /\ pod' = [pod EXCEPT ![t] = "wanted"]
  /\ UNCHANGED <<vars, known, device, abandoned>>

\* The containers start once every volume of the pod is mounted.
StartPod(t) ==
  /\ pod[t] = "wanted"
  /\ known[t] = "mounted"
  /\ pod' = [pod EXCEPT ![t] = "running"]
  /\ UNCHANGED <<vars, known, device, abandoned>>

\* The containers stop before the volumes are unmounted.  A pod's target path
\* is never used again.
DeletePod(t) ==
  /\ Needs(t)
  /\ pod' = [pod EXCEPT ![t] = "gone"]
  /\ UNCHANGED <<vars, known, device, abandoned>>

-----------------------------------------------------------------------------
(* Calls.  From the moment of the call the outcome is uncertain. *)

\* A call gets a goroutine of its own: any free handler stands for it.
Send(c) ==
  /\ \E r \in Handlers : ~Busy(r)
  /\ Arrive(CHOOSE r \in Handlers : ~Busy(r), c)

CallStage(v) ==
  /\ device[v] # "staged" /\ ~InFlight(v)
  /\ \E t \in TargetsOf(v) : Needs(t) /\ known[t] # "mounted"
  /\ Send([op |-> "stage", vol |-> v])
  /\ device' = [device EXCEPT ![v] = "uncertain"]
  /\ UNCHANGED <<pod, known, abandoned>>

CallPublish(t) ==
  /\ Needs(t) /\ known[t] # "mounted" /\ ~InFlight(VolumeOf[t])
  /\ VolumeOf[t] \in Persistent => device[VolumeOf[t]] = "staged"
  /\ Send([op |-> "publish", tgt |-> t])
  /\ known' = [known EXCEPT ![t] = "uncertain"]
  /\ UNCHANGED <<pod, device, abandoned>>

CallUnpublish(t) ==
  /\ pod[t] = "gone" /\ known[t] # "unmounted" /\ ~InFlight(VolumeOf[t])
  /\ Send([op |-> "unpublish", tgt |-> t])
  /\ known' = [known EXCEPT ![t] = "uncertain"]
  /\ UNCHANGED <<pod, device, abandoned>>

CallUnstage(v) ==
  /\ device[v] # "unstaged" /\ ~InFlight(v)
  /\ \A t \in TargetsOf(v) : ~Needs(t) /\ known[t] = "unmounted"
  /\ Send([op |-> "unstage", vol |-> v])
  /\ device' = [device EXCEPT ![v] = "uncertain"]
  /\ UNCHANGED <<pod, known, abandoned>>

\* A reply.  After an error the outcome stays uncertain and the call, or the
\* one that undoes it, is made again.  Nobody reads the reply of an abandoned
\* call.
Receive(r) ==
  LET c == call[r]
      done(op) == pc[r] = "ok" /\ r \notin cancelled /\ c.op = op
  IN
  /\ Reply(r)
  /\ known' = IF done("publish") THEN [known EXCEPT ![c.tgt] = "mounted"]
              ELSE IF done("unpublish") THEN [known EXCEPT ![c.tgt] = "unmounted"]
              ELSE known
  /\ device' = IF done("stage") THEN [device EXCEPT ![c.vol] = "staged"]
               ELSE IF done("unstage") THEN [device EXCEPT ![c.vol] = "unstaged"]
               ELSE device
  /\ UNCHANGED <<pod, abandoned>>

\* The kubelet has waited long enough: the context is done.
Abandon(r) ==
  /\ Waiting(r)
  /\ Spend("timeout")
  /\ cancelled' = cancelled \union {r}
  /\ abandoned' = abandoned \union {VolOf(call[r])}
  /\ UNCHANGED <<nodeState, call, pc, disturbed, pod, known, device>>

-----------------------------------------------------------------------------
(* Restarts. *)

\* Whatever was done, or may have been, has to be verified again.
Unsure(m, undone) ==
  [x \in DOMAIN m |-> IF m[x] = undone THEN undone ELSE "uncertain"]

\* The kubelet finds the volumes of its pods on disk again and abandons the
\* calls it was waiting for.
KubeletRestart ==
  /\ Spend("kubelet")
  /\ known' = Unsure(known, "unmounted")
  /\ device' = Unsure(device, "unstaged")
  /\ cancelled' = {r \in Handlers : Busy(r)}
  /\ abandoned' = abandoned \union {v \in Volumes : InFlight(v)}
  /\ UNCHANGED <<nodeState, call, pc, disturbed, pod>>

\* The calls in flight fail and stay uncertain.
DriverRestart == Crash /\ UNCHANGED kubeletState

\* Pods that ran are to run again.
NodeReboot ==
  /\ Reboot
  /\ pod' = [t \in Targets |-> IF pod[t] = "running" THEN "wanted" ELSE pod[t]]
  /\ known' = Unsure(known, "unmounted")
  /\ device' = Unsure(device, "unstaged")
  /\ UNCHANGED abandoned

-----------------------------------------------------------------------------
KubeletInit ==
  /\ Init
  /\ \E w \in Workloads : pod = [t \in Targets |-> IF t \in w THEN "none" ELSE "gone"]
  /\ known = [t \in Targets |-> "unmounted"]
  /\ device = [v \in Persistent |-> "unstaged"]
  /\ abandoned = {}

KubeletNext ==
  \/ \E t \in Targets : CreatePod(t) \/ StartPod(t) \/ DeletePod(t)
  \/ \E v \in Persistent : CallStage(v) \/ CallUnstage(v)
  \/ \E t \in Targets : CallPublish(t) \/ CallUnpublish(t)
  \/ \E r \in Handlers :
       \/ Step(r) /\ UNCHANGED kubeletState
       \/ Receive(r)
       \/ Abandon(r)
  \/ KubeletRestart
  \/ DriverRestart
  \/ NodeReboot

KubeletSpec == KubeletInit /\ [][KubeletNext]_kubeletVars

(***************************************************************************)
(* Fairness.  The Go scheduler runs every goroutine, a reply is delivered, *)
(* and the kubelet's reconciler repeats what is not done; a pod whose      *)
(* volumes are mounted is started.  Users owe nobody to create or delete a *)
(* pod, and a fault need not happen.                                       *)
(***************************************************************************)
Fairness ==
  /\ \A r \in Handlers : /\ WF_kubeletVars(Step(r) /\ UNCHANGED kubeletState)
                         /\ WF_kubeletVars(Receive(r))
  /\ \A v \in Persistent :
       /\ WF_kubeletVars(CallStage(v))
       /\ WF_kubeletVars(CallUnstage(v))
  /\ \A t \in Targets :
       /\ WF_kubeletVars(StartPod(t))
       /\ WF_kubeletVars(CallPublish(t))
       /\ WF_kubeletVars(CallUnpublish(t))

FairSpec == KubeletSpec /\ Fairness

-----------------------------------------------------------------------------
\* Types, the node server's among them: what the kubelet calls keeps to the
\* flows the handlers are written for.
KubeletTypeOK ==
  /\ TypeOK
  /\ pod \in [Targets -> {"none", "wanted", "running", "gone"}]
  /\ known \in [Targets -> {"unmounted", "uncertain", "mounted"}]
  /\ device \in [Persistent -> {"unstaged", "uncertain", "staged"}]
  /\ abandoned \subseteq Volumes

(***************************************************************************)
(* The volumes whose calls overlap never harm the steady ones.             *)
(*                                                                         *)
(* A target that is mounted shows one whole bottle, never a directory that *)
(* was removed, is being filled, or lies under another mount.  It takes    *)
(* the order of both flows: stage before mount (node.go:333, 372), unmount *)
(* before removal (404, 411, 427), and retries that start over.            *)
(***************************************************************************)
MountedIsWhole ==
  \A t \in SteadyTargets : mnt[t] # <<>> =>
    Len(mnt[t]) = 1 /\ mnt[t][1].live /\ dir[VolumeOf[t]] = "complete"

(***************************************************************************)
(* A running pod has its bottle for as long as it runs, through failed     *)
(* calls, driver restarts, and kubelets that publish it again.             *)
(***************************************************************************)
RunningPodSeesBottle ==
  \A t \in SteadyTargets : pod[t] = "running" =>
    /\ mnt[t] # <<>> /\ mnt[t][1].live
    /\ dir[VolumeOf[t]] = "complete"

(***************************************************************************)
(* What an OK reply told the kubelet stays true until the kubelet itself   *)
(* asks for a change: published is mounted, unpublished is unmounted and   *)
(* deleted, with the ephemeral staging (node.go:379-437), staged is whole, *)
(* unstaged is gone (node.go:439).                                         *)
(***************************************************************************)
KubeletViewIsRight ==
  /\ \A t \in SteadyTargets :
       /\ known[t] = "mounted" => mnt[t] # <<>>
       /\ known[t] = "unmounted" =>
            /\ mnt[t] = <<>> /\ t \notin target
            /\ VolumeOf[t] \in Ephemeral => dir[VolumeOf[t]] = "absent"
  /\ \A v \in Persistent \ abandoned :
       /\ device[v] = "staged" => dir[v] = "complete"
       /\ device[v] = "unstaged" => dir[v] = "absent"

(***************************************************************************)
(* A call fails only when something it does fails: a retry finds nothing   *)
(* an earlier call, half done or not, left in its way, and no other        *)
(* volume's calls disturb it (node.go:342-368, 397-434).                   *)
(***************************************************************************)
CallsFailByFaultOnly ==
  [][\A r \in Handlers :
       Busy(r) /\ VolOf(call[r]) \in Steady /\ pc[r] # "internal" /\ pc'[r] = "internal"
         => faults' > faults]_kubeletVars

(***************************************************************************)
(* Without a fault a running pod's mount has the options of its publish    *)
(* call, noexec and, where asked for, ro (node.go:363-372): no pod starts  *)
(* between the bind mount and the remount that sets them.                  *)
(***************************************************************************)
OptionsAsAsked ==
  faults = 0 => \A t \in Targets : pod[t] = "running" =>
    mnt[t] # <<>> /\ mnt[t][1].options = MountOptions(t)

\* Every bottle the node holds in full, every target that shows one, every
\* pod that runs, of the steady volumes: the abstract state.
Abstract == INSTANCE BottleVolumes WITH
  lost    <- abandoned,
  fetched <- {v \in Steady : dir[v] = "complete"},
  shown   <- {t \in SteadyTargets : mnt[t] # <<>>},
  running <- {t \in SteadyTargets : pod[t] = "running"}

(***************************************************************************)
(* The node side implements BottleVolumes.                                 *)
(***************************************************************************)
ImplementsBottleVolumes == Abstract!Spec

\* An abandoned unstage may come after the stage that followed it.
MayMissStaging(t) == VolumeOf[t] \in Persistent \intersect abandoned

(***************************************************************************)
(* A pod that wants its bottle gets it, unless it is deleted first.  An    *)
(* abandoned call keeps no pod of an ephemeral volume waiting for ever:    *)
(* each publish stages it anew (node.go:333).  A late unstage can take a   *)
(* persistent volume's data away from a kubelet that holds it staged.      *)
(***************************************************************************)
WantedPodRuns ==
  \A t \in Targets :
    pod[t] = "wanted" ~> pod[t] \in {"running", "gone"} \/ MayMissStaging(t)

(***************************************************************************)
(* When pods are gone for good everything made for them goes too: the      *)
(* mount, the target, and the staged data once no pod needs it (node.go:   *)
(* 397-434, 453), unless an abandoned call left it.                        *)
(***************************************************************************)
GoneLeavesNothing ==
  \A v \in Volumes :
    (\A t \in TargetsOf(v) : pod[t] = "gone")
      ~> [](\/ v \in abandoned
            \/ /\ dir[v] = "absent"
               /\ \A t \in TargetsOf(v) : mnt[t] = <<>> /\ t \notin target)

(***************************************************************************)
(* What the repository says of the node service, refuted by a run each.    *)
(***************************************************************************)

\* "always mount with noexec": what a running pod sees is mounted noexec.
AlwaysNoexec ==
  \A t \in Targets : pod[t] = "running" /\ mnt[t] # <<>> =>
    "noexec" \in mnt[t][1].options

\* "Delete the mount point": unpublishing removes a mount point, and leaves the
\* data a persistent volume has staged for its other pods.
UnpublishKeepsStagedData ==
  [][\A r \in Handlers :
       pc[r] = "removeTarget" /\ pc'[r] # "removeTarget"
         /\ VolOf(call[r]) \in Persistent
       => dir' = dir]_kubeletVars
=============================================================================
