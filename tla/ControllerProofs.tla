---------------------------- MODULE ControllerProofs ----------------------------
(***************************************************************************)
(* What the maps say of the volumes the provisioner holds, for any number  *)
(* of instances, names, IDs and mishaps.  An ID stands for one volume for  *)
(* good, and a call that may still be handled, however late, is about a    *)
(* volume nobody wants any more.                                           *)
(***************************************************************************)
EXTENDS Controller, TLAPS

\* Every ID in use was drawn, and is used once.
IdsAreDrawn ==
  /\ \A node \in Nodes : Known(node) \subseteq issued
  /\ \A n \in Names : held[n] # NoVolume => held[n].id \in issued
  /\ \A q \in sent : q.op = "delete" => q.id \in issued

LateDeletesAreHarmless ==
  \A q \in sent : q.op = "delete" =>
    /\ claim[q.name] = "released"
    /\ \A n \in Names : claim[n] = "wanted" /\ held[n] # NoVolume => held[n].id # q.id

\* Without a mishap there is one call at a time for a name, at the leader.
InStep ==
  mishaps = 0 =>
    /\ \A n \in Names : held[n] # NoVolume => held[n].node = leader
    /\ \A q \in sent :
         /\ q.node = leader
         /\ q.op = "create" => claim[q.name] = "wanted" /\ held[q.name] = NoVolume
         /\ q.op = "delete" => held[q.name] = [id |-> q.id, node |-> q.node]

IInv ==
  TypeOK /\ IdsAreDrawn /\ VolumesAreApart /\ LateDeletesAreHarmless /\ HeldIsKnown
  /\ InStep /\ NothingLeaks

-----------------------------------------------------------------------------
(* Lemmas. *)

LEMMA RequestFacts ==
  ASSUME NEW q \in Requests
  PROVE  /\ q.op \in {"create", "delete"} /\ q.name \in Names /\ q.node \in Nodes
         /\ q.op = "delete" => q.id \in Ids
  BY DEF Requests

\* A call is known by what is asked for.
LEMMA SameCall ==
  ASSUME NEW q \in Requests, NEW r \in Requests,
         q.op = r.op, q.name = r.name, q.node = r.node, q.op = "delete" => q.id = r.id
  PROVE  q = r
<1>1. CASE q.op = "create"
  <2>1. q \in [op : {"create"}, name : Names, node : Nodes]
        /\ r \in [op : {"create"}, name : Names, node : Nodes]
    BY <1>1 DEF Requests
  <2> QED
    BY <2>1
<1>2. CASE q.op = "delete"
  <2>1. q \in [op : {"delete"}, name : Names, node : Nodes, id : Ids]
        /\ r \in [op : {"delete"}, name : Names, node : Nodes, id : Ids]
    BY <1>2 DEF Requests
  <2> QED
    BY <1>2, <2>1
<1> QED
  BY <1>1, <1>2, RequestFacts

LEMMA MishapFacts ==
  ASSUME TypeOK, Mishap
  PROVE  mishaps' \in 0..MaxMishaps /\ mishaps' # 0
  BY MaxMishapsAssumption DEF TypeOK, Mishap

LEMMA InitInv == Init => IInv
<1> SUFFICES ASSUME Init PROVE IInv
  OBVIOUS
<1>1. TypeOK
  BY MaxMishapsAssumption DEF Init, TypeOK
<1>2. \A node \in Nodes : Known(node) = {}
  BY DEF Init, Known
<1> QED
  BY <1>1, <1>2 DEF Init, IInv, IdsAreDrawn, VolumesAreApart, LateDeletesAreHarmless,
                    HeldIsKnown, InStep, NothingLeaks

-----------------------------------------------------------------------------
(* The handlers. *)

LEMMA CreateStep ==
  ASSUME IInv, NEW q \in sent, CreateVolume(q)
  PROVE  IInv'
<1>1. /\ q \in Requests /\ q.op = "create" /\ q.name \in Names /\ q.node \in Nodes
      /\ UNCHANGED <<restarted, leader, claim>>
  BY RequestFacts DEF IInv, TypeOK, CreateVolume
<1>2. PICK id \in Ids :
        /\ Store(q.node, q.name, id)
        /\ Answer(q, IF held[q.name] = NoVolume /\ claim[q.name] = "wanted"
                     THEN [held EXCEPT ![q.name] = [id |-> id, node |-> q.node]]
                     ELSE held)
  BY DEF CreateVolume
<1> DEFINE new == [id |-> id, node |-> q.node]
<1>3. /\ id \notin issued /\ issued' = issued \union {id}
      /\ volumes' = [volumes EXCEPT ![q.node][id] = q.name]
  BY <1>2 DEF Store
<1>4. /\ new \in Volumes /\ new # NoVolume /\ new.id = id /\ new.node = q.node
      /\ q.name # NoVolume
  BY <1>1, NoVolumeAssumption DEF Volumes
<1>5. \A node \in Nodes, i \in Ids :
        volumes'[node][i] = IF node = q.node /\ i = id THEN q.name ELSE volumes[node][i]
  BY <1>1, <1>3 DEF IInv, TypeOK
<1>6. CASE /\ sent' = sent \ {q} /\ UNCHANGED mishaps
           /\ held[q.name] = NoVolume /\ claim[q.name] = "wanted"
           /\ held' = [held EXCEPT ![q.name] = new]
  <2> HIDE DEF new
  <2>1. \A n \in Names : held'[n] = IF n = q.name THEN new ELSE held[n]
    BY <1>6 DEF IInv, TypeOK
  <2>2. TypeOK'
    BY <1>1, <1>3, <1>4, <1>6 DEF IInv, TypeOK
  <2>3. IdsAreDrawn' /\ VolumesAreApart' /\ LateDeletesAreHarmless'
    BY <1>1, <1>3, <1>4, <1>5, <1>6, <2>1
       DEF IInv, IdsAreDrawn, VolumesAreApart, LateDeletesAreHarmless, Known
  <2>4. HeldIsKnown'
    BY <1>1, <1>3, <1>4, <1>5, <1>6, <2>1
       DEF IInv, TypeOK, IdsAreDrawn, HeldIsKnown, Validates, Known, Volumes
  <2>5. InStep'
    <3> SUFFICES ASSUME mishaps = 0
                 PROVE  InStep'
      BY <1>6 DEF InStep
    <3>1. q.node = leader
      BY DEF IInv, InStep
    <3>2. \A n \in Names : held'[n] # NoVolume => held'[n].node = leader'
      BY <1>1, <1>4, <2>1, <3>1 DEF IInv, InStep
    <3>3. ASSUME NEW r \in sent'
          PROVE  /\ r.node = leader'
                 /\ r.op = "create" => claim'[r.name] = "wanted" /\ held'[r.name] = NoVolume
                 /\ r.op = "delete" => held'[r.name] = [id |-> r.id, node |-> r.node]
      <4>1. r \in sent /\ r # q /\ r \in Requests /\ r.name \in Names
        BY <1>6, RequestFacts DEF IInv, TypeOK
      <4>2. r.node = leader /\ (r.op = "create" => r.name # q.name)
        <5>1. r.node = leader
          BY <4>1 DEF IInv, InStep
        <5>2. r.op = "create" /\ r.name = q.name => r = q
          BY <1>1, <3>1, <4>1, <5>1, SameCall
        <5> QED
          BY <4>1, <5>1, <5>2
      <4>3. r.op = "delete" => r.name # q.name
        <5>1. r.op = "delete" => [id |-> r.id, node |-> r.node] \in Volumes
          BY <4>1, RequestFacts DEF Volumes
        <5> QED
          BY <1>6, <4>1, <5>1, NoVolumeAssumption DEF IInv, InStep
      <4> QED
        BY <1>1, <2>1, <4>1, <4>2, <4>3, RequestFacts DEF IInv, InStep
    <3> QED
      BY <3>2, <3>3 DEF InStep
  <2>6. NothingLeaks'
    <3> SUFFICES ASSUME mishaps' = 0, NEW node \in Nodes, NEW i \in Known(node)'
                 PROVE  held'[volumes'[node][i]] = [id |-> i, node |-> node]
      BY DEF NothingLeaks
    <3>1. CASE node = q.node /\ i = id
      BY <1>1, <1>5, <2>1, <3>1 DEF new, Known
    <3>2. CASE ~(node = q.node /\ i = id)
      <4>1. i \in Known(node) /\ volumes'[node][i] = volumes[node][i]
        BY <1>5, <3>2 DEF Known
      <4>2. volumes[node][i] \in Names /\ [id |-> i, node |-> node] # NoVolume
        BY <4>1, NoVolumeAssumption DEF IInv, TypeOK, Known, Volumes
      <4>3. held[volumes[node][i]] = [id |-> i, node |-> node]
        BY <1>6, <4>1 DEF IInv, NothingLeaks
      <4> QED
        BY <1>6, <2>1, <4>1, <4>2, <4>3
    <3> QED
      BY <3>1, <3>2
  <2> QED
    BY <2>2, <2>3, <2>4, <2>5, <2>6 DEF IInv
<1>7. CASE /\ sent' \subseteq sent /\ held' = held /\ mishaps' # 0
           /\ mishaps' \in 0..MaxMishaps
  <2>1. TypeOK'
    BY <1>1, <1>3, <1>7 DEF IInv, TypeOK
  <2>2. IdsAreDrawn' /\ VolumesAreApart' /\ LateDeletesAreHarmless'
    BY <1>1, <1>3, <1>4, <1>5, <1>7
       DEF IInv, IdsAreDrawn, VolumesAreApart, LateDeletesAreHarmless, Known
  <2>3. HeldIsKnown'
    BY <1>1, <1>3, <1>4, <1>5, <1>7
       DEF IInv, TypeOK, IdsAreDrawn, HeldIsKnown, Validates, Known, Volumes
  <2> QED
    BY <1>7, <2>1, <2>2, <2>3 DEF IInv, InStep, NothingLeaks
<1>8. CASE Mishap /\ UNCHANGED <<sent, held>>
  BY <1>7, <1>8, MishapFacts DEF IInv
<1>9. CASE /\ sent' = sent \ {q} /\ UNCHANGED <<mishaps, held>>
           /\ ~(held[q.name] = NoVolume /\ claim[q.name] = "wanted")
  BY <1>1, <1>7, <1>9 DEF IInv, TypeOK, InStep
<1> QED
  BY <1>2, <1>6, <1>8, <1>9 DEF Answer

LEMMA DeleteStep ==
  ASSUME IInv, NEW q \in sent, DeleteVolume(q)
  PROVE  IInv'
<1>1. /\ q \in Requests /\ q.op = "delete"
      /\ q.name \in Names /\ q.node \in Nodes /\ q.id \in Ids
      /\ UNCHANGED <<issued, restarted, leader, claim>>
      /\ volumes' = [volumes EXCEPT ![q.node][q.id] = NoVolume]
  BY RequestFacts DEF IInv, TypeOK, DeleteVolume, Forget
<1>2. /\ claim[q.name] = "released"
      /\ \A n \in Names : claim[n] = "wanted" /\ held[n] # NoVolume => held[n].id # q.id
  BY <1>1 DEF IInv, LateDeletesAreHarmless
<1>3. \A node \in Nodes, i \in Ids :
        volumes'[node][i] = IF node = q.node /\ i = q.id THEN NoVolume ELSE volumes[node][i]
  BY <1>1 DEF IInv, TypeOK
<1>4. \/ /\ sent' = sent \ {q} /\ UNCHANGED mishaps
         /\ held' = [held EXCEPT ![q.name] = NoVolume]
      \/ Mishap /\ UNCHANGED <<sent, held>>
  BY DEF DeleteVolume, Answer
<1>5. /\ sent' \subseteq sent /\ mishaps' \in 0..MaxMishaps
      /\ \A n \in Names : n # q.name => held'[n] = held[n]
      /\ held'[q.name] \in {held[q.name], NoVolume}
      /\ held' \in [Names -> Volumes \union {NoVolume}]
      /\ mishaps' = 0 => mishaps = 0 /\ held'[q.name] = NoVolume /\ sent' = sent \ {q}
  BY <1>1, <1>4, MishapFacts DEF IInv, TypeOK
<1>6. TypeOK'
  BY <1>1, <1>5 DEF IInv, TypeOK
<1>7. IdsAreDrawn' /\ VolumesAreApart' /\ LateDeletesAreHarmless'
  BY <1>1, <1>2, <1>3, <1>5
     DEF IInv, IdsAreDrawn, VolumesAreApart, LateDeletesAreHarmless, Known
<1>8. HeldIsKnown'
  BY <1>1, <1>2, <1>3, <1>5 DEF IInv, TypeOK, HeldIsKnown, Validates, Known, Volumes
<1>9. InStep'
  <2> SUFFICES ASSUME mishaps' = 0
               PROVE  InStep'
    BY DEF InStep
  <2>1. mishaps = 0 /\ held'[q.name] = NoVolume /\ sent' = sent \ {q}
    BY <1>5
  <2>2. ASSUME NEW r \in sent'
        PROVE  /\ r.node = leader'
               /\ r.op = "create" => claim'[r.name] = "wanted" /\ held'[r.name] = NoVolume
               /\ r.op = "delete" => held'[r.name] = [id |-> r.id, node |-> r.node]
    <3>1. r \in sent /\ r # q /\ r \in Requests /\ r.name \in Names
      BY <2>1, RequestFacts DEF IInv, TypeOK
    <3>2. r.op = "delete" => r.name # q.name
      <4>1. ASSUME r.op = "delete", r.name = q.name PROVE FALSE
        <5>1. [id |-> r.id, node |-> r.node] = [id |-> q.id, node |-> q.node]
          BY <1>1, <2>1, <3>1, <4>1 DEF IInv, InStep
        <5>2. r.id = q.id /\ r.node = q.node
          BY <5>1
        <5> QED
          BY <1>1, <3>1, <4>1, <5>2, SameCall
      <4> QED
        BY <4>1
    <3>3. r.op = "create" => held[r.name] = NoVolume /\ claim[r.name] = "wanted"
      BY <2>1, <3>1 DEF IInv, InStep
    <3> QED
      BY <1>1, <1>2, <1>5, <2>1, <3>1, <3>2, <3>3, RequestFacts DEF IInv, InStep
  <2> QED
    BY <1>1, <1>5, <2>1, <2>2 DEF IInv, InStep
<1>10. NothingLeaks'
  <2> SUFFICES ASSUME mishaps' = 0, NEW node \in Nodes, NEW i \in Known(node)'
               PROVE  held'[volumes'[node][i]] = [id |-> i, node |-> node]
    BY DEF NothingLeaks
  <2>1. /\ i \in Known(node) /\ volumes'[node][i] = volumes[node][i]
        /\ ~(node = q.node /\ i = q.id)
    BY <1>3 DEF Known
  <2>2. held[volumes[node][i]] = [id |-> i, node |-> node] /\ volumes[node][i] \in Names
    BY <1>5, <2>1, NoVolumeAssumption DEF IInv, TypeOK, NothingLeaks, Known
  <2>3. volumes[node][i] # q.name
    <3>1. held[q.name] = [id |-> q.id, node |-> q.node]
      BY <1>1, <1>5 DEF IInv, InStep
    <3>2. [id |-> q.id, node |-> q.node] # [id |-> i, node |-> node]
      BY <2>1
    <3> QED
      BY <2>2, <3>1, <3>2
  <2> QED
    BY <1>5, <2>1, <2>2, <2>3
<1> QED
  BY <1>6, <1>7, <1>8, <1>9, <1>10 DEF IInv

-----------------------------------------------------------------------------
(* The provisioner, and the restarts. *)

LEMMA RestartStep == ASSUME IInv, NEW node \in Nodes, Restart(node) PROVE IInv'
<1>1. /\ mishaps' \in 0..MaxMishaps /\ mishaps' # 0
      /\ volumes' = [volumes EXCEPT ![node] = [id \in Ids |-> NoVolume]]
      /\ restarted' = restarted \union {node}
      /\ UNCHANGED <<issued, leader, claim, held, sent>>
  BY MishapFacts DEF IInv, Restart
<1>2. \A n \in Nodes, i \in Ids :
        volumes'[n][i] = IF n = node THEN NoVolume ELSE volumes[n][i]
  BY <1>1 DEF IInv, TypeOK
<1>3. TypeOK' /\ InStep' /\ NothingLeaks'
  BY <1>1 DEF IInv, TypeOK, InStep, NothingLeaks
<1>4. IdsAreDrawn' /\ VolumesAreApart' /\ LateDeletesAreHarmless'
  BY <1>1, <1>2 DEF IInv, IdsAreDrawn, VolumesAreApart, LateDeletesAreHarmless, Known
<1>5. HeldIsKnown'
  BY <1>1, <1>2 DEF IInv, TypeOK, HeldIsKnown, Validates, Known, Volumes
<1> QED
  BY <1>3, <1>4, <1>5 DEF IInv

LEMMA ChangeLeaderStep == ASSUME IInv, NEW node \in Nodes, ChangeLeader(node) PROVE IInv'
<1>1. /\ mishaps' \in 0..MaxMishaps /\ mishaps' # 0 /\ leader' = node
      /\ UNCHANGED <<volumes, issued, restarted, claim, held, sent>>
  BY MishapFacts DEF IInv, ChangeLeader
<1> QED
  BY <1>1 DEF IInv, TypeOK, InStep, NothingLeaks, IdsAreDrawn, VolumesAreApart,
              LateDeletesAreHarmless, HeldIsKnown, Validates, Known

\* A call more changes nothing but what is still to be handled.
LEMMA SendStep ==
  ASSUME IInv, NEW q \in Requests, sent' = sent \union {q},
         UNCHANGED <<volumes, issued, restarted, leader, claim, held, mishaps>>,
         q.node = leader,
         q.op = "create" => claim[q.name] = "wanted" /\ held[q.name] = NoVolume,
         q.op = "delete" => claim[q.name] = "released" /\ held[q.name] # NoVolume
                            /\ q.id = held[q.name].id
  PROVE  IInv'
<1>1. q.name \in Names
  BY RequestFacts
<1>2. TypeOK' /\ VolumesAreApart' /\ NothingLeaks' /\ HeldIsKnown' /\ IdsAreDrawn'
  BY <1>1 DEF IInv, TypeOK, VolumesAreApart, NothingLeaks, HeldIsKnown, IdsAreDrawn, Validates, Known
<1>3. LateDeletesAreHarmless'
  BY <1>1 DEF IInv, LateDeletesAreHarmless, VolumesAreApart
<1>4. InStep'
  <2>1. mishaps = 0 /\ q.op = "delete" => held[q.name] = [id |-> q.id, node |-> q.node]
    BY <1>1 DEF IInv, TypeOK, InStep, Volumes
  <2> QED
    BY <2>1 DEF IInv, InStep
<1> QED
  BY <1>2, <1>3, <1>4 DEF IInv

LEMMA AskStep == ASSUME IInv, NEW n \in Names, AskCreate(n) \/ AskDelete(n) PROVE IInv'
<1>1. leader \in Nodes /\ (held[n] # NoVolume => held[n].id \in Ids)
  BY DEF IInv, TypeOK, Volumes
<1>2. CASE AskCreate(n)
  <2> DEFINE q == [op |-> "create", name |-> n, node |-> leader]
  <2>1. q \in Requests /\ q.op = "create" /\ q.name = n /\ q.node = leader
    BY <1>1 DEF Requests
  <2>2. /\ claim[n] = "wanted" /\ held[n] = NoVolume /\ sent' = sent \union {q}
        /\ UNCHANGED <<volumes, issued, restarted, leader, claim, held, mishaps>>
    BY <1>2 DEF AskCreate
  <2> HIDE DEF q
  <2> QED
    BY <2>1, <2>2, SendStep
<1>3. CASE AskDelete(n)
  <2> DEFINE q == [op |-> "delete", name |-> n, node |-> leader, id |-> held[n].id]
  <2>1. /\ claim[n] = "released" /\ held[n] # NoVolume /\ sent' = sent \union {q}
        /\ UNCHANGED <<volumes, issued, restarted, leader, claim, held, mishaps>>
    BY <1>3 DEF AskDelete
  <2>2. /\ q \in Requests /\ q.op = "delete" /\ q.name = n /\ q.node = leader
        /\ q.id = held[n].id
    BY <1>1, <2>1 DEF Requests
  <2> HIDE DEF q
  <2> QED
    BY <2>1, <2>2, SendStep
<1> QED
  BY <1>2, <1>3

LEMMA ReleaseStep == ASSUME IInv, NEW n \in Names, Release(n) PROVE IInv'
<1>1. /\ claim[n] = "wanted" /\ held[n] # NoVolume
      /\ claim' = [claim EXCEPT ![n] = "released"]
      /\ UNCHANGED <<volumes, issued, restarted, leader, held, sent, mishaps>>
  BY DEF Release
<1>2. \A m \in Names : claim'[m] = IF m = n THEN "released" ELSE claim[m]
  BY <1>1 DEF IInv, TypeOK
<1>3. TypeOK' /\ VolumesAreApart' /\ NothingLeaks' /\ IdsAreDrawn'
  BY <1>1 DEF IInv, TypeOK, VolumesAreApart, NothingLeaks, IdsAreDrawn, Known
<1>4. HeldIsKnown'
  BY <1>1, <1>2 DEF IInv, HeldIsKnown, Validates, Known
<1>5. \A q \in sent : q.name \in Names
  BY RequestFacts DEF IInv, TypeOK
<1>6. LateDeletesAreHarmless' /\ InStep'
  BY <1>1, <1>2, <1>5 DEF IInv, LateDeletesAreHarmless, InStep
<1> QED
  BY <1>3, <1>4, <1>6 DEF IInv

LEMMA NextInv == IInv /\ [Next]_vars => IInv'
<1> SUFFICES ASSUME IInv, [Next]_vars PROVE IInv'
  OBVIOUS
<1>1. CASE UNCHANGED vars
  BY <1>1 DEF vars, IInv, TypeOK, InStep, NothingLeaks, IdsAreDrawn, VolumesAreApart,
              LateDeletesAreHarmless, HeldIsKnown, Validates, Known
<1>2. ASSUME NEW q \in sent, CreateVolume(q) \/ DeleteVolume(q) PROVE IInv'
  BY <1>2, CreateStep, DeleteStep
<1>3. ASSUME NEW n \in Names, AskCreate(n) \/ AskDelete(n) \/ Release(n) PROVE IInv'
  BY <1>3, AskStep, ReleaseStep
<1>4. ASSUME NEW node \in Nodes, Restart(node) \/ ChangeLeader(node) PROVE IInv'
  BY <1>4, RestartStep, ChangeLeaderStep
<1> QED
  BY <1>1, <1>2, <1>3, <1>4 DEF Next

-----------------------------------------------------------------------------
(* The theorems. *)

LEMMA Invariance == Spec => []IInv
  BY InitInv, NextInv, PTL DEF Spec

\* The maps, the calls and the claims stay well formed (controller.go:83-187).
THEOREM TypeCorrect == Spec => []TypeOK
<1>1. IInv => TypeOK
  BY DEF IInv
<1> QED
  BY <1>1, Invariance, PTL

\* A volume the provisioner holds is known to the instance that made it, by its
\* own name, whatever calls are repeated, late or sent elsewhere
\* (controller.go:122-123, 150, 169).
THEOREM HeldVolumesAreKnown == Spec => []HeldIsKnown
<1>1. IInv => HeldIsKnown
  BY DEF IInv
<1> QED
  BY <1>1, Invariance, PTL

\* No two claims ever hold one volume, whatever is repeated, lost or restarted
\* (controller.go:122-123).
THEOREM ClaimsShareNoVolume == Spec => []VolumesAreApart
<1>1. IInv => VolumesAreApart
  BY DEF IInv
<1> QED
  BY <1>1, Invariance, PTL

\* While every call is answered and no instance or leader changes, the maps hold
\* the provisioner's volumes and no others (controller.go:122-123, 150).
THEOREM WithoutMishapNothingLeaks == Spec => []NothingLeaks
<1>1. IInv => NothingLeaks
  BY DEF IInv
<1> QED
  BY <1>1, Invariance, PTL
=============================================================================
