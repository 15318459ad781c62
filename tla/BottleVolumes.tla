----------------------------- MODULE BottleVolumes -----------------------------
(***************************************************************************)
(* What the node side of csi-bottle promises the pods of a node, with      *)
(* nothing said of staging directories, mount tables or calls: a pod runs  *)
(* only while the bottle it asked for is shown at its target, a target     *)
(* shows only a bottle fetched in full, and a bottle is not discarded      *)
(* while a target shows it.  The promise ends for a volume when the node   *)
(* side loses count of its calls.                                          *)
(***************************************************************************)
EXTENDS TLAPS

CONSTANTS
  Volumes,
  Targets,
  VolumeOf   \* the volume each target asks for

VARIABLES
  fetched,   \* volumes whose whole bottle is on the node
  shown,     \* targets at which a bottle is visible
  running,   \* targets whose pod runs
  lost       \* volumes nothing is promised of any more

vars == <<fetched, shown, running, lost>>

Init == fetched = {} /\ shown = {} /\ running = {} /\ lost = {}

Fetch(v) ==
  /\ v \notin lost
  /\ fetched' = fetched \union {v}
  /\ UNCHANGED <<shown, running, lost>>

Show(t) ==
  /\ VolumeOf[t] \in fetched
  /\ shown' = shown \union {t}
  /\ UNCHANGED <<fetched, running, lost>>

Start(t) ==
  /\ t \in shown
  /\ running' = running \union {t}
  /\ UNCHANGED <<fetched, shown, lost>>

Stop(t) ==
  /\ running' = running \ {t}
  /\ UNCHANGED <<fetched, shown, lost>>

Hide(t) ==
  /\ t \notin running
  /\ shown' = shown \ {t}
  /\ UNCHANGED <<fetched, running, lost>>

Discard(v) ==
  /\ \A t \in shown : VolumeOf[t] # v
  /\ fetched' = fetched \ {v}
  /\ UNCHANGED <<shown, running, lost>>

\* A reboot of the node takes the pods and the mounts, not the disk.
Reboot ==
  /\ shown' = {}
  /\ running' = {}
  /\ UNCHANGED <<fetched, lost>>

Lose(vs) ==
  /\ lost' = lost \union vs
  /\ fetched' = fetched \ vs
  /\ shown' = {t \in shown : VolumeOf[t] \notin vs}
  /\ running' = {t \in running : VolumeOf[t] \notin vs}

Next ==
  \/ \E v \in Volumes : Fetch(v) \/ Discard(v)
  \/ \E t \in Targets : Show(t) \/ Start(t) \/ Stop(t) \/ Hide(t)
  \/ \E vs \in SUBSET Volumes : Lose(vs)
  \/ Reboot

Spec == Init /\ [][Next]_vars

-----------------------------------------------------------------------------
(***************************************************************************)
(* What pods may rely on: a pod runs where a bottle is shown, a bottle is  *)
(* shown while the node has it in full, and nothing is claimed of volumes  *)
(* that are lost (node.go:148-162, 233-459).                               *)
(***************************************************************************)
Promise ==
  /\ running \subseteq shown
  /\ \A t \in shown : VolumeOf[t] \in fetched
  /\ fetched \intersect lost = {}
-----------------------------------------------------------------------------
(* The promise is kept, for any volumes and targets. *)

LEMMA VolumeStep ==
  ASSUME Promise, NEW v \in Volumes, Fetch(v) \/ Discard(v)
  PROVE  Promise'
<1>1. CASE Fetch(v)
  BY <1>1 DEF Promise, Fetch
<1>2. CASE Discard(v)
  BY <1>2 DEF Promise, Discard
<1> QED
  BY <1>1, <1>2

LEMMA TargetStep ==
  ASSUME Promise, NEW t \in Targets, Show(t) \/ Start(t) \/ Stop(t) \/ Hide(t)
  PROVE  Promise'
<1>1. CASE Show(t)
  BY <1>1 DEF Promise, Show
<1>2. CASE Start(t)
  BY <1>2 DEF Promise, Start
<1>3. CASE Stop(t)
  BY <1>3 DEF Promise, Stop
<1>4. CASE Hide(t)
  BY <1>4 DEF Promise, Hide
<1> QED
  BY <1>1, <1>2, <1>3, <1>4

LEMMA NextPromise == Promise /\ [Next]_vars => Promise'
<1> SUFFICES ASSUME Promise, [Next]_vars PROVE Promise'
  OBVIOUS
<1>1. ASSUME NEW v \in Volumes, Fetch(v) \/ Discard(v) PROVE Promise'
  BY <1>1, VolumeStep
<1>2. ASSUME NEW t \in Targets, Show(t) \/ Start(t) \/ Stop(t) \/ Hide(t)
      PROVE  Promise'
  BY <1>2, TargetStep
<1>3. ASSUME NEW vs \in SUBSET Volumes, Lose(vs) PROVE Promise'
  BY <1>3 DEF Promise, Lose
<1>4. CASE Reboot
  BY <1>4 DEF Promise, Reboot
<1>5. CASE UNCHANGED vars
  BY <1>5 DEF Promise, vars
<1> QED
  BY <1>1, <1>2, <1>3, <1>4, <1>5 DEF Next

\* Whatever is fetched, shown, discarded or lost, a pod runs only where the node
\* shows it a bottle it has in full (node.go:148-162).
THEOREM PromiseIsKept == Spec => []Promise
<1>1. Init => Promise
  BY DEF Init, Promise
<1> QED
  BY <1>1, NextPromise, PTL DEF Spec
=============================================================================
