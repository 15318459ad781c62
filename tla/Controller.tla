------------------------------ MODULE Controller ------------------------------
(***************************************************************************)
(* The CSI controller service (pkg/data/controller.go): CreateVolume,      *)
(* DeleteVolume and ValidateVolumeCapabilities over a map kept in memory.  *)
(*                                                                         *)
(* Every instance of the driver has a map of its own.  The external        *)
(* provisioner (provisioner/deployment.yaml runs replicas of it, each      *)
(* beside a driver, that elect a leader) calls the instance of its leader  *)
(* and remembers the volumes it was given.  A call whose reply is lost     *)
(* stays in sent and may be handled again, by the instance it was made to; *)
(* leaders change and drivers restart.                                     *)
(*                                                                         *)
(* The handlers check their arguments first (a name, capabilities, no      *)
(* block volume, an ID) and refuse what is amiss before they do anything   *)
(* (controller.go:70-82, 145-148, 158-166).  A refusal changes nothing,    *)
(* and the provisioner's calls have all of it: it is left out.             *)
(***************************************************************************)
EXTENDS Naturals, FiniteSets

CONSTANTS
  Nodes,       \* instances of the driver, by the ID of their node
  Names,       \* names of volumes, one for each claim and never used again
  Ids,         \* bound: the IDs uuid.New draws from
  MaxMishaps,  \* bound: lost replies, leader changes and restarts
  NoVolume     \* a claim that holds no volume

Volumes == [id : Ids, node : Nodes]

ASSUME NoVolumeAssumption == NoVolume \notin Volumes /\ NoVolume \notin Names

ASSUME MaxMishapsAssumption == MaxMishaps \in Nat

VARIABLES
  volumes,   \* the map of each instance: names by ID, NoVolume for none
  issued,    \* IDs that were ever drawn
  restarted, \* instances that lost their map
  leader,    \* the instance the provisioner calls
  claim,     \* whether each name is to have a volume
  held,      \* the volume the provisioner recorded for each name
  sent,      \* calls that were made and not answered
  mishaps

vars == <<volumes, issued, restarted, leader, claim, held, sent, mishaps>>

Requests == [op : {"create"}, name : Names, node : Nodes]
            \union [op : {"delete"}, name : Names, node : Nodes, id : Ids]

Mishap == mishaps < MaxMishaps /\ mishaps' = mishaps + 1

Known(node) == {id \in Ids : volumes[node][id] # NoVolume}

-----------------------------------------------------------------------------
(* Steps with a bug somebody could make in them; see PROJECT.json.         *)

\* The ID is only unlike the others in this instance's map: a counter.
StoreCounted(node, n, id) ==
  /\ id \notin Known(node)
  /\ issued' = issued \union {id}
  /\ volumes' = [volumes EXCEPT ![node][id] = n]

\* The node's ID is stored in the place of the name.
StoreNode(node, n, id) ==
  /\ id \notin issued
  /\ issued' = issued \union {id}
  /\ volumes' = [volumes EXCEPT ![node][id] = node]

\* DeleteVolume checks its arguments and nothing else.
ForgetNothing(node, id) == UNCHANGED volumes

-----------------------------------------------------------------------------
(* The handlers. *)

\* CreateVolume draws a fresh ID.  It does not look for a volume that has the
\* name already.
Store(node, n, id) ==
  /\ id \notin issued
  /\ issued' = issued \union {id}
  /\ volumes' = [volumes EXCEPT ![node][id] = n]

\* DeleteVolume of a volume the map does not hold succeeds.
Forget(node, id) == volumes' = [volumes EXCEPT ![node][id] = NoVolume]

\* The reply arrives and h is what the provisioner holds then; or it is lost.
Answer(q, h) ==
  \/ sent' = sent \ {q} /\ held' = h /\ UNCHANGED mishaps
  \/ Mishap /\ UNCHANGED <<sent, held>>

CreateVolume(q) ==
  /\ q \in sent /\ q.op = "create"
  /\ \E id \in Ids :
       /\ Store(q.node, q.name, id)
       /\ Answer(q, IF held[q.name] = NoVolume /\ claim[q.name] = "wanted"
                    THEN [held EXCEPT ![q.name] = [id |-> id, node |-> q.node]]
                    ELSE held)
  /\ UNCHANGED <<restarted, leader, claim>>

\* A bug: deleting a volume the map does not hold is an error.
DeleteVolumeStrict(q) ==
  /\ q \in sent /\ q.op = "delete"
  /\ Forget(q.node, q.id)
  /\ Answer(q, IF q.id \in Known(q.node)
               THEN [held EXCEPT ![q.name] = NoVolume] ELSE held)
  /\ UNCHANGED <<issued, restarted, leader, claim>>

DeleteVolume(q) ==
  /\ q \in sent /\ q.op = "delete"
  /\ Forget(q.node, q.id)
  /\ Answer(q, [held EXCEPT ![q.name] = NoVolume])
  /\ UNCHANGED <<issued, restarted, leader, claim>>

\* What ValidateVolumeCapabilities says of a volume: NotFound unless it is in
\* the map.  The capabilities themselves are not looked at.
Validates(node, id) == id \in Known(node)

Restart(node) ==
  /\ Mishap
  /\ volumes' = [volumes EXCEPT ![node] = [id \in Ids |-> NoVolume]]
  /\ restarted' = restarted \union {node}
  /\ UNCHANGED <<issued, leader, claim, held, sent>>

-----------------------------------------------------------------------------
(* The provisioner. *)

AskCreate(n) ==
  /\ claim[n] = "wanted" /\ held[n] = NoVolume
  /\ sent' = sent \union {[op |-> "create", name |-> n, node |-> leader]}
  /\ sent' # sent
  /\ UNCHANGED <<volumes, issued, restarted, leader, claim, held, mishaps>>

AskDelete(n) ==
  /\ claim[n] = "released" /\ held[n] # NoVolume
  /\ sent' = sent \union
       {[op |-> "delete", name |-> n, node |-> leader, id |-> held[n].id]}
  /\ sent' # sent
  /\ UNCHANGED <<volumes, issued, restarted, leader, claim, held, mishaps>>

\* A claim is released once its volume is there, and only then.
Release(n) ==
  /\ claim[n] = "wanted" /\ held[n] # NoVolume
  /\ claim' = [claim EXCEPT ![n] = "released"]
  /\ UNCHANGED <<volumes, issued, restarted, leader, held, sent, mishaps>>

ChangeLeader(node) ==
  /\ node # leader
  /\ Mishap
  /\ leader' = node
  /\ UNCHANGED <<volumes, issued, restarted, claim, held, sent>>

-----------------------------------------------------------------------------
Init ==
  /\ volumes = [node \in Nodes |-> [id \in Ids |-> NoVolume]]
  /\ issued = {}
  /\ restarted = {}
  /\ leader \in Nodes
  /\ claim = [n \in Names |-> "wanted"]
  /\ held = [n \in Names |-> NoVolume]
  /\ sent = {}
  /\ mishaps = 0

Next ==
  \/ \E q \in sent : CreateVolume(q) \/ DeleteVolume(q)
  \/ \E n \in Names : AskCreate(n) \/ AskDelete(n) \/ Release(n)
  \/ \E node \in Nodes : Restart(node) \/ ChangeLeader(node)

Spec == Init /\ [][Next]_vars

(***************************************************************************)
(* The provisioner repeats its calls and the drivers answer them.  A lost  *)
(* reply is a mishap, so mishaps being bounded, a reply arrives in the end.*)
(***************************************************************************)
Fairness ==
  /\ WF_vars(\E q \in sent : CreateVolume(q))
  /\ WF_vars(\E q \in sent : DeleteVolume(q))
  /\ \A n \in Names : WF_vars(AskCreate(n)) /\ WF_vars(AskDelete(n))

FairSpec == Spec /\ Fairness

-----------------------------------------------------------------------------
\* Types, and every ID in use was drawn.
TypeOK ==
  /\ volumes \in [Nodes -> [Ids -> Names \union {NoVolume}]]
  /\ issued \subseteq Ids /\ restarted \subseteq Nodes
  /\ leader \in Nodes
  /\ claim \in [Names -> {"wanted", "released"}]
  /\ held \in [Names -> Volumes \union {NoVolume}]
  /\ sent \subseteq Requests
  /\ mishaps \in 0..MaxMishaps

(***************************************************************************)
(* A volume the provisioner holds is valid at the instance that made it,   *)
(* under its own name, until the claim is released or that instance        *)
(* restarts: no repeated, late or misdirected call for another volume      *)
(* takes it away (controller.go:122-123, 150, 169).                        *)
(***************************************************************************)
HeldIsKnown ==
  \A n \in Names :
    claim[n] = "wanted" /\ held[n] # NoVolume /\ held[n].node \notin restarted
      => /\ Validates(held[n].node, held[n].id)
         /\ volumes[held[n].node][held[n].id] = n

(***************************************************************************)
(* No two claims ever hold one volume, though every instance draws IDs of  *)
(* its own, repeated calls make more volumes, and restarts forget them all *)
(* (controller.go:122-123): deleting one claim's volume is no other's loss.*)
(***************************************************************************)
VolumesAreApart ==
  \A m, n \in Names :
    held[m] # NoVolume /\ held[n] # NoVolume /\ held[m].id = held[n].id => m = n

(***************************************************************************)
(* With no mishap the maps hold the provisioner's volumes and no others.   *)
(***************************************************************************)
NothingLeaks ==
  mishaps = 0 =>
    \A node \in Nodes : \A id \in Known(node) :
      held[volumes[node][id]] = [id |-> id, node |-> node]

(***************************************************************************)
(* Deleting succeeds in the end, at whatever instance and however often it *)
(* is asked for, so a released claim goes away.                            *)
(***************************************************************************)
ReleasedIsDeleted ==
  \A n \in Names : claim[n] = "released" ~> held[n] = NoVolume
=============================================================================
