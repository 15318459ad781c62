------------------------------ MODULE NodeServer ------------------------------
(***************************************************************************)
(* The CSI node service of csi-bottle (pkg/data/node.go): the four calls   *)
(* that stage, publish, unpublish and unstage a bottle on one node.        *)
(*                                                                         *)
(* Each gRPC call runs in a goroutine of its own and the code takes no     *)
(* lock, so a handler is a small state machine (pc) and every step of it   *)
(* that reads or changes the file system or the mount table is an action:  *)
(* steps of different handlers interleave freely.  The orchestrator is     *)
(* arbitrary here; module Kubelet constrains what it calls and when.       *)
(*                                                                         *)
(* The state that outlives a call is the node's: staging directories,      *)
(* target directories and the mount table.  The driver itself remembers    *)
(* nothing about volumes.                                                  *)
(***************************************************************************)
EXTENDS Naturals, Sequences, FiniteSets

CONSTANTS
  Volumes,        \* volume IDs
  Targets,        \* target paths; the CO makes one for each pod and volume
  VolumeOf,       \* the volume published at each target
  Ephemeral,      \* volumes with csi.storage.k8s.io/ephemeral = "true"
  ReadOnly,       \* targets published with the request's readonly set
  Inside,         \* volumes staged inside the driver's container: the chart mounts
                  \* /data and the pods' directory from the host, no staging path
  Handlers,       \* bound: calls in progress at the same time
  Faults,         \* the faults of FaultPoints the environment may inject ...
  MaxFaults,      \* ... and a bound on how many of them happen
  RepullRewrites, \* whether pulling into a complete bottle rewrites its files
  NoCall          \* a handler that serves no call

(***************************************************************************)
(* Where a call can fail, by the names of the steps below; a restart of    *)
(* the driver's container, of the orchestrator (module Kubelet) or of the  *)
(* node.                                                                   *)
(***************************************************************************)
FaultPoints ==
  {"credentials", "resolve", "pull", "notify", "check", "mkdir", "bind",
   "remount", "unmount", "removeTarget", "stat", "removeStaging",
   "crash", "kubelet", "timeout", "reboot"}

ASSUME VolumeOfAssumption == VolumeOf \in [Targets -> Volumes]

\* "Ephemeral volumes flow": an inline volume belongs to one pod.
ASSUME EphemeralAssumption ==
  /\ Ephemeral \subseteq Volumes
  /\ \A s, t \in Targets :
       VolumeOf[s] = VolumeOf[t] /\ VolumeOf[s] \in Ephemeral => s = t

\* StackBound counts handlers.
ASSUME HandlersAssumption == IsFiniteSet(Handlers)

ASSUME ReadOnlyAssumption == ReadOnly \subseteq Targets

ASSUME InsideAssumption == Inside \subseteq Volumes \ Ephemeral

ASSUME FaultsAssumption == Faults \subseteq FaultPoints /\ MaxFaults \in Nat

ASSUME RepullAssumption == RepullRewrites \in BOOLEAN

\* The staging calls are made for persistent volumes only ("There is no stage
\* and unstage" for ephemeral ones).
Calls == [op : {"stage", "unstage"}, vol : Volumes \ Ephemeral]
         \union [op : {"publish", "unpublish"}, tgt : Targets]

ASSUME NoCallAssumption == NoCall \notin Calls

VARIABLES
  dir,       \* the staging directory of each volume
  target,    \* the target paths that exist as directories
  mnt,       \* the mounts stacked on each target path, the visible one first
  call,      \* the request each handler serves
  pc,        \* the step each handler takes next
  disturbed, \* handlers whose pull shared its directory with another writer
  cancelled, \* handlers whose context is done: the client no longer waits
  faults     \* faults injected so far

nodeState == <<dir, target, mnt>>
vars == <<dir, target, mnt, call, pc, disturbed, cancelled, faults>>

-----------------------------------------------------------------------------
(***************************************************************************)
(* The volume a call is about.  An ephemeral volume is staged below the    *)
(* driver's own storage directory and a persistent one in the staging path *)
(* of the request, so a volume has one staging directory either way.       *)
(***************************************************************************)
VolOf(c) ==
  IF c.op \in {"publish", "unpublish"} THEN VolumeOf[c.tgt] ELSE c.vol

Busy(r) == call[r] # NoCall

Serves(r, v) == Busy(r) /\ VolOf(call[r]) = v

\* The directory is missing, holds some of the bottle, or all of it.
DirStates == {"absent", "partial", "complete"}

\* A bind mount pins its source: once that directory is removed the mount
\* shows an empty, unlinked directory (live = FALSE).
Mounts == [live : BOOLEAN, options : SUBSET {"noexec", "ro"}]

\* The options NodePublishVolume passes to Mount besides "bind".
MountOptions(t) == {"noexec"} \union (IF t \in ReadOnly THEN {"ro"} ELSE {})

StagePcs   == {"credentials", "resolve", "pull", "pulling", "notify"}
MountPcs   == {"checkMount", "mkdir", "bind", "remount"}
UnmountPcs == {"checkUnmount", "unmount", "removeTarget", "statStaging"}
DonePcs    == {"ok", "internal", "invalid"}
Pcs == StagePcs \union MountPcs \union UnmountPcs \union {"removeStaging"} \union DonePcs

\* The handlers each step is part of: stageVolume returns into its caller, and
\* only a publish of an ephemeral volume calls it.
InItsHandler(step, c) ==
  /\ step \in StagePcs =>
       c.op = "stage" \/ (c.op = "publish" /\ VolOf(c) \in Ephemeral)
  /\ step \in MountPcs => c.op = "publish"
  /\ step \in UnmountPcs => c.op = "unpublish"
  /\ step = "removeStaging" => c.op \in {"unpublish", "unstage"}

\* The first step: NodePublishVolume stages ephemeral volumes itself, always.
FirstPc(c) ==
  CASE c.op = "stage"     -> "credentials"
    [] c.op = "unstage"   -> "removeStaging"
    [] c.op = "unpublish" -> "checkUnmount"
    [] OTHER -> IF VolOf(c) \in Ephemeral THEN "credentials" ELSE "checkMount"

\* What the handler of each call insists on in the request.  The staging path
\* of an ephemeral publish is the driver's own.
Required(c) ==
  {"volume"}
  \union (IF c.op \in {"stage", "publish"} THEN {"capability"} ELSE {})
  \union (IF c.op \in {"publish", "unpublish"} THEN {"target"} ELSE {})
  \union (IF c.op = "unpublish" \/ (c.op = "publish" /\ VolOf(c) \in Ephemeral)
          THEN {} ELSE {"staging"})

-----------------------------------------------------------------------------
Goto(r, next) == pc' = [pc EXCEPT ![r] = next]

Spend(f) == f \in Faults /\ faults < MaxFaults /\ faults' = faults + 1

\* The steps that watch the request's context fail when it is done.
ContextBound == {"resolve", "pull", "notify"}

Fails(r, f) ==
  /\ Goto(r, "internal")
  /\ \/ Spend(f)
     \/ r \in cancelled /\ f \in ContextBound /\ UNCHANGED faults

Succeeds(r, next) == Goto(r, next) /\ UNCHANGED faults

\* What most steps leave alone.
KeepCall == UNCHANGED <<call, disturbed, cancelled>>

\* The pulls in progress into the staging directory of v.
Pullers(v) == {q \in Handlers : pc[q] = "pulling" /\ Serves(q, v)}

Pinned(m) == [live |-> FALSE, options |-> m.options]

\* Mounts of the removed directories stay and show nothing.
Unlinked(vs) ==
  [t \in Targets |-> IF VolumeOf[t] \in vs
                     THEN [i \in 1..Len(mnt[t]) |-> Pinned(mnt[t][i])]
                     ELSE mnt[t]]

-----------------------------------------------------------------------------
(***************************************************************************)
(* Steps with a bug somebody could make in them.  They are no part of the  *)
(* specification: PROJECT.json names, for each property, the one that the  *)
(* property is there to catch.                                             *)
(***************************************************************************)

\* stageVolume does not return to NodeStageVolume.
NotifyThenMount(r) ==
  /\ pc[r] = "notify"
  /\ Succeeds(r, "checkMount") \/ Fails(r, "notify")
  /\ UNCHANGED nodeState /\ KeepCall

\* Every pull starts by clearing the directory.
BeginPullAfresh(r) ==
  LET v == VolOf(call[r]) IN
  /\ pc[r] = "pull"
  /\ Succeeds(r, "pulling")
  /\ dir' = [dir EXCEPT ![v] = "partial"]
  /\ UNCHANGED <<target, mnt>> /\ KeepCall

\* The error of Pull is reported as an event and then dropped.
EndPullUnchecked(r) ==
  LET v == VolOf(call[r]) IN
  /\ pc[r] = "pulling"
  /\ \/ Succeeds(r, "notify") /\ dir' = [dir EXCEPT ![v] = "complete"]
     \/ Spend("pull") /\ Goto(r, "notify") /\ UNCHANGED dir
  /\ disturbed' = disturbed \ {r}
  /\ UNCHANGED <<target, mnt, call, cancelled>>

\* The early return for targets that are mounted already is lost.
CheckMountIgnored(r) ==
  /\ pc[r] = "checkMount"
  /\ Succeeds(r, IF call[r].tgt \in target THEN "bind" ELSE "mkdir")
  /\ UNCHANGED nodeState /\ KeepCall

\* A target directory that exists and is not mounted is an error.
CheckMountExclusive(r) ==
  LET t == call[r].tgt IN
  /\ pc[r] = "checkMount"
  /\ Succeeds(r, CASE t \notin target   -> "mkdir"
                   [] mnt[t] # <<>>    -> "ok"
                   [] OTHER            -> "internal")
  /\ UNCHANGED nodeState /\ KeepCall

\* The options are left to the bind mount, which ignores them.
BindAlone(r) ==
  LET t == call[r].tgt  possible == t \in target /\ dir[VolumeOf[t]] # "absent" IN
  /\ pc[r] = "bind"
  /\ \/ /\ possible
        /\ mnt' = [mnt EXCEPT ![t] = <<[live |-> TRUE, options |-> {}]>> \o @]
        /\ Succeeds(r, "ok")
     \/ ~possible /\ Goto(r, "internal") /\ UNCHANGED <<mnt, faults>>
  /\ UNCHANGED <<dir, target>> /\ KeepCall

\* A target that is gone means that unpublishing is done.
CheckUnmountEarlyReturn(r) ==
  LET t == call[r].tgt IN
  /\ pc[r] = "checkUnmount"
  /\ Succeeds(r, CASE t \notin target -> "ok"
                   [] mnt[t] = <<>>  -> "removeTarget"
                   [] OTHER          -> "unmount")
  /\ UNCHANGED nodeState /\ KeepCall

\* A target that is gone is an error.
CheckUnmountStrict(r) ==
  LET t == call[r].tgt IN
  /\ pc[r] = "checkUnmount"
  /\ Succeeds(r, CASE t \notin target -> "internal"
                   [] mnt[t] = <<>>  -> "removeTarget"
                   [] OTHER          -> "unmount")
  /\ UNCHANGED nodeState /\ KeepCall

\* The error of os.RemoveAll is dropped: a target that is still mounted stays.
RemoveTargetUnchecked(r) ==
  LET t == call[r].tgt IN
  /\ pc[r] = "removeTarget"
  /\ target' = IF mnt[t] = <<>> THEN target \ {t} ELSE target
  /\ Succeeds(r, "statStaging")
  /\ UNCHANGED <<dir, mnt>> /\ KeepCall

\* The volume ID is left out of the path that is removed.
RemoveStagingRoot(r) ==
  /\ pc[r] = "removeStaging"
  /\ dir' = [v \in Volumes |-> "absent"]
  /\ mnt' = Unlinked(Volumes)
  /\ Succeeds(r, "ok")
  /\ UNCHANGED target /\ KeepCall

-----------------------------------------------------------------------------
(* Requests and replies. *)

\* A request with every required argument reaches a handler.
Arrive(r, c) ==
  /\ ~Busy(r)
  /\ call' = [call EXCEPT ![r] = c]
  /\ pc' = [pc EXCEPT ![r] = FirstPc(c)]
  /\ UNCHANGED <<nodeState, disturbed, cancelled, faults>>

\* A request that lacks one is refused before anything is done.
Refuse(r, c) ==
  /\ ~Busy(r)
  /\ \E missing \in SUBSET Required(c) : missing # {}
  /\ call' = [call EXCEPT ![r] = c]
  /\ pc' = [pc EXCEPT ![r] = "invalid"]
  /\ UNCHANGED <<nodeState, disturbed, cancelled, faults>>

\* The handler returns.
Reply(r) ==
  /\ pc[r] \in DonePcs
  /\ call' = [call EXCEPT ![r] = NoCall]
  /\ pc' = [pc EXCEPT ![r] = "idle"]
  /\ disturbed' = disturbed \ {r}
  /\ cancelled' = cancelled \ {r}
  /\ UNCHANGED <<nodeState, faults>>

\* The client gives up: the context is done, the goroutine goes on.
Cancel(r) ==
  /\ Busy(r)
  /\ r \notin cancelled
  /\ cancelled' = cancelled \union {r}
  /\ UNCHANGED <<nodeState, call, pc, disturbed, faults>>

-----------------------------------------------------------------------------
(* stageVolume: credentials, resolve, pull, notify. *)

\* The registry credentials of the request's secrets go to a memory store.
LoadCredentials(r) ==
  /\ pc[r] = "credentials"
  /\ Succeeds(r, "resolve") \/ Fails(r, "credentials")
  /\ UNCHANGED nodeState /\ KeepCall

Resolve(r) ==
  /\ pc[r] = "resolve"
  /\ Succeeds(r, "pull") \/ Fails(r, "resolve")
  /\ UNCHANGED nodeState /\ KeepCall

\* The pull creates the directory, or works on what an earlier one left in it.
\* Two pulls into one directory disturb each other.
BeginPull(r) ==
  LET v == VolOf(call[r]) IN
  /\ pc[r] = "pull"
  /\ \/ /\ Succeeds(r, "pulling")
        /\ dir' = [dir EXCEPT ![v] =
             IF dir[v] = "complete" /\ ~RepullRewrites THEN "complete"
                                                       ELSE "partial"]
        /\ disturbed' = IF Pullers(v) = {} THEN disturbed
                        ELSE disturbed \union Pullers(v) \union {r}
     \/ Fails(r, "pull") /\ UNCHANGED <<dir, disturbed>>
  /\ UNCHANGED <<target, mnt, call, cancelled>>

\* A pull that had the directory to itself leaves the whole bottle; otherwise
\* the code knows nothing of the outcome.  What a failed pull wrote stays.
EndPull(r) ==
  LET v == VolOf(call[r]) IN
  /\ pc[r] = "pulling"
  /\ \/ /\ Succeeds(r, "notify")
        /\ \E d \in IF r \in disturbed THEN {dir[v], "partial", "complete"}
                                       ELSE {"complete"} :
             dir' = [dir EXCEPT ![v] = d]
     \/ Fails(r, "pull") /\ UNCHANGED dir
     \/ r \in disturbed /\ Goto(r, "internal") /\ UNCHANGED <<dir, faults>>
  /\ disturbed' = disturbed \ {r}
  /\ UNCHANGED <<target, mnt, call, cancelled>>

\* Failing to send is ignored; the other telemetry errors fail the call.
Notify(r) ==
  /\ pc[r] = "notify"
  /\ \/ Succeeds(r, IF call[r].op = "stage" THEN "ok" ELSE "checkMount")
     \/ Fails(r, "notify")
  /\ UNCHANGED nodeState /\ KeepCall

-----------------------------------------------------------------------------
(* NodePublishVolume, once the volume is staged. *)

CheckMount(r) ==
  LET t == call[r].tgt IN
  /\ pc[r] = "checkMount"
  /\ \/ t \notin target /\ Succeeds(r, "mkdir")
     \/ t \in target /\ mnt[t] # <<>> /\ Succeeds(r, "ok")
     \/ t \in target /\ mnt[t] = <<>> /\ Succeeds(r, "bind")
     \/ Fails(r, "check")
  /\ UNCHANGED nodeState /\ KeepCall

MakeTarget(r) ==
  /\ pc[r] = "mkdir"
  /\ \/ target' = target \union {call[r].tgt} /\ Succeeds(r, "bind")
     \/ Fails(r, "mkdir") /\ UNCHANGED target
  /\ UNCHANGED <<dir, mnt>> /\ KeepCall

\* Mount is two system calls.  The first makes the bind mount, which ignores
\* the options; both paths must exist.
Bind(r) ==
  LET t == call[r].tgt  possible == t \in target /\ dir[VolumeOf[t]] # "absent" IN
  /\ pc[r] = "bind"
  /\ \/ /\ possible
        /\ mnt' = [mnt EXCEPT ![t] = <<[live |-> TRUE, options |-> {}]>> \o @]
        /\ Succeeds(r, "remount")
     \/ ~possible /\ Goto(r, "internal") /\ UNCHANGED <<mnt, faults>>
     \/ Fails(r, "bind") /\ UNCHANGED mnt
  /\ UNCHANGED <<dir, target>> /\ KeepCall

\* The second remounts with the options.  Its failure leaves the bind mount.
Remount(r) ==
  LET t == call[r].tgt IN
  /\ pc[r] = "remount"
  /\ \/ /\ mnt[t] # <<>>
        /\ mnt' = [mnt EXCEPT ![t] =
             <<[live |-> Head(@).live, options |-> MountOptions(t)]>> \o Tail(@)]
        /\ Succeeds(r, "ok")
     \/ mnt[t] = <<>> /\ Goto(r, "internal") /\ UNCHANGED <<mnt, faults>>
     \/ Fails(r, "remount") /\ UNCHANGED mnt
  /\ UNCHANGED <<dir, target>> /\ KeepCall

-----------------------------------------------------------------------------
(* NodeUnpublishVolume and NodeUnstageVolume. *)

CheckUnmount(r) ==
  LET t == call[r].tgt IN
  /\ pc[r] = "checkUnmount"
  /\ \/ mnt[t] = <<>> /\ Succeeds(r, "removeTarget")
     \/ mnt[t] # <<>> /\ Succeeds(r, "unmount")
     \/ Fails(r, "check")
  /\ UNCHANGED nodeState /\ KeepCall

\* Unmounts the visible mount, and only that one.
Unmount(r) ==
  LET t == call[r].tgt IN
  /\ pc[r] = "unmount"
  /\ \/ /\ mnt[t] # <<>>
        /\ mnt' = [mnt EXCEPT ![t] = Tail(@)]
        /\ Succeeds(r, "removeTarget")
     \/ mnt[t] = <<>> /\ Goto(r, "internal") /\ UNCHANGED <<mnt, faults>>
     \/ Fails(r, "unmount") /\ UNCHANGED mnt
  /\ UNCHANGED <<dir, target>> /\ KeepCall

\* os.RemoveAll of a path something is still mounted on empties what it shows,
\* unless that is read-only, and then fails on the mount point itself.
RemoveTarget(r) ==
  LET t == call[r].tgt  v == VolumeOf[t] IN
  /\ pc[r] = "removeTarget"
  /\ \/ /\ mnt[t] = <<>>
        /\ target' = target \ {t}
        /\ Succeeds(r, "statStaging")
        /\ UNCHANGED dir
     \/ /\ mnt[t] # <<>>
        /\ dir' = IF mnt[t][1].live /\ "ro" \notin mnt[t][1].options
                  THEN [dir EXCEPT ![v] = "partial"] ELSE dir
        /\ Goto(r, "internal")
        /\ UNCHANGED <<target, faults>>
     \/ Fails(r, "removeTarget") /\ UNCHANGED <<dir, target>>
  /\ UNCHANGED mnt /\ KeepCall

\* Only ephemeral volumes have a directory below ephemeralStagingDir.  Any
\* error of Stat counts as the directory being absent.
StatStaging(r) ==
  LET v == VolOf(call[r])  found == v \in Ephemeral /\ dir[v] # "absent" IN
  /\ pc[r] = "statStaging"
  /\ \/ found /\ Succeeds(r, "removeStaging")
     \/ ~found /\ Succeeds(r, "ok")
     \/ Goto(r, "ok") /\ Spend("stat")
  /\ UNCHANGED nodeState /\ KeepCall

\* os.RemoveAll of the staging directory.  It fails half way on a fault, and
\* may when a pull is adding files.
RemoveStaging(r) ==
  LET v == VolOf(call[r]) IN
  /\ pc[r] = "removeStaging"
  /\ \/ /\ dir' = [dir EXCEPT ![v] = "absent"]
        /\ mnt' = Unlinked({v})
        /\ Succeeds(r, "ok")
     \/ /\ dir' = [dir EXCEPT ![v] = IF @ = "absent" THEN "absent" ELSE "partial"]
        /\ \/ Fails(r, "removeStaging")
           \/ Pullers(v) # {} /\ Goto(r, "internal") /\ UNCHANGED faults
        /\ UNCHANGED mnt
  /\ disturbed' = disturbed \union Pullers(v)
  /\ UNCHANGED <<target, call, cancelled>>

-----------------------------------------------------------------------------
(* The driver's container restarts, or the node does. *)

DropCalls ==
  /\ call' = [r \in Handlers |-> NoCall]
  /\ pc' = [r \in Handlers |-> "idle"]
  /\ disturbed' = {}
  /\ cancelled' = {}

\* Bidirectional mount propagation puts the mounts on the host: they and the
\* directories on the host outlive the driver's container, whose own go with it.
Crash ==
  /\ Spend("crash")
  /\ DropCalls
  /\ dir' = [v \in Volumes |-> IF v \in Inside THEN "absent" ELSE dir[v]]
  /\ mnt' = Unlinked(Inside)
  /\ UNCHANGED target

\* A reboot of the node takes every mount, and the container too.
Reboot ==
  /\ Spend("reboot")
  /\ DropCalls
  /\ dir' = [v \in Volumes |-> IF v \in Inside THEN "absent" ELSE dir[v]]
  /\ mnt' = [t \in Targets |-> <<>>]
  /\ UNCHANGED target

-----------------------------------------------------------------------------
Step(r) ==
  \/ LoadCredentials(r) \/ Resolve(r) \/ BeginPull(r) \/ EndPull(r) \/ Notify(r)
  \/ CheckMount(r) \/ MakeTarget(r) \/ Bind(r) \/ Remount(r)
  \/ CheckUnmount(r) \/ Unmount(r) \/ RemoveTarget(r)
  \/ StatStaging(r) \/ RemoveStaging(r)

Init ==
  /\ dir = [v \in Volumes |-> "absent"]
  /\ target = {}
  /\ mnt = [t \in Targets |-> <<>>]
  /\ call = [r \in Handlers |-> NoCall]
  /\ pc = [r \in Handlers |-> "idle"]
  /\ disturbed = {}
  /\ cancelled = {}
  /\ faults = 0

Next ==
  \/ \E r \in Handlers : \/ \E c \in Calls : Arrive(r, c) \/ Refuse(r, c)
                         \/ Step(r) \/ Reply(r) \/ Cancel(r)
  \/ Crash
  \/ Reboot

Spec == Init /\ [][Next]_vars

-----------------------------------------------------------------------------
NodeOK ==
  /\ dir \in [Volumes -> DirStates]
  /\ target \subseteq Targets
  /\ mnt \in [Targets -> Seq(Mounts)]

HandlersOK ==
  /\ call \in [Handlers -> Calls \union {NoCall}]
  /\ pc \in [Handlers -> {"idle"} \union Pcs]
  /\ \A r \in Handlers : IF Busy(r) THEN pc[r] # "idle" /\ InItsHandler(pc[r], call[r])
                                      ELSE pc[r] = "idle"

(***************************************************************************)
(* Types, and each handler at a step of the call it serves: stageVolume    *)
(* returns into the handler that called it (node.go:298, 333).             *)
(***************************************************************************)
TypeOK ==
  /\ NodeOK
  /\ HandlersOK
  /\ disturbed \subseteq Handlers
  /\ cancelled \subseteq Handlers
  /\ faults \in 0..MaxFaults

\* The publish calls for t that have seen t not mounted and have yet to mount.
Mounting(t) ==
  {r \in Handlers : /\ pc[r] \in {"mkdir", "bind"}
                    /\ call[r] = [op |-> "publish", tgt |-> t]}

(***************************************************************************)
(* The check and the mount are separate steps (node.go:342 and 372), so    *)
(* concurrent publish calls stack mounts, yet never more of them than      *)
(* there are calls in progress at one time.                                *)
(***************************************************************************)
StackBound ==
  \A t \in Targets :
    Len(mnt[t]) + Cardinality(Mounting(t)) <= Cardinality(Handlers)
=============================================================================
