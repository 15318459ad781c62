------------------------------ MODULE ReleaseTags ------------------------------
(***************************************************************************)
(* bin/release.sh publish: the image of a version is pushed under its full *)
(* tag, then the floating tags vX.Y, vX and latest move to it, if it is    *)
(* the newest of the releases each of them stands for.                     *)
(*                                                                         *)
(* Versions are published from branches, in any order; a publish may be    *)
(* interrupted and run again, and nothing keeps two of them apart: the     *)
(* registry is shared, and what is read of it may be stale when it is      *)
(* written.  A floating tag is a prefix of the versions it stands for:     *)
(* <<1, 2>> is v1.2, <<1>> is v1, <<>> is latest.                          *)
(***************************************************************************)
EXTENDS Naturals, Sequences

CONSTANTS
  Versions,     \* versions that get published: triples <<major, minor, patch>>
  MaxRestarts,  \* bound: publishes that are interrupted or done once more
  ListingFails, \* whether listing the tags of the registry may fail
  NoVersion     \* what a floating tag that does not exist points to

ASSUME VersionsAssumption == Versions \subseteq Nat \X Nat \X Nat

ASSUME NoVersionAssumption == NoVersion \notin Versions

ASSUME MaxRestartsAssumption == MaxRestarts \in Nat

ASSUME ListingFailsAssumption == ListingFails \in BOOLEAN

VARIABLES
  released,  \* versions whose full tag is in the registry
  floating,  \* the version each floating tag points to
  step,      \* how far the publish of each version is
  todo,      \* the floating tags it has yet to move
  met,       \* history: pairs of versions whose publishes ran side by side
  restarts

vars == <<released, floating, step, todo, met, restarts>>

FloatingOf(v) == {<<v[1], v[2]>>, <<v[1]>>, <<>>}

FloatingTags == UNION {FloatingOf(v) : v \in Versions}

-----------------------------------------------------------------------------
(* What the script works out from the tags it listed. *)

isLatestPatch(allTags, v) ==
  \A w \in allTags : w[1] = v[1] /\ w[2] = v[2] => w[3] <= v[3]

isLatestMinor(allTags, v) ==
  \A w \in allTags : w[1] = v[1] => w[2] <= v[2]

isLatestMajor(allTags, v) == \A w \in allTags : w[1] <= v[1]

\* A bug: the three questions are asked independently of each other.
resolveFlatly(allTags, v) ==
  {f \in FloatingOf(v) : CASE Len(f) = 2 -> isLatestPatch(allTags, v)
                           [] Len(f) = 1 -> isLatestMinor(allTags, v)
                           [] Len(f) = 0 -> isLatestMajor(allTags, v)}

\* vX.Y for the latest patch; vX too if its minor is the latest one; latest
\* too if the major is.
resolveExtraTags(allTags, v) ==
  {f \in FloatingOf(v) : /\ isLatestPatch(allTags, v)
                         /\ Len(f) < 2 => isLatestMinor(allTags, v)
                         /\ Len(f) < 1 => isLatestMajor(allTags, v)}

-----------------------------------------------------------------------------
Restart == restarts < MaxRestarts /\ restarts' = restarts + 1

\* Publishes between the push of their image and their end.
Active == {v \in Versions : step[v] \in {"resolve", "tag"}}

\* The release and the chart, then the image under the full tag.  Nothing in
\* the script keeps two publishes of one version apart; that the releasers do is
\* an assumption.
PushImage(v) ==
  /\ v \notin Active
  /\ IF step[v] = "done" THEN Restart ELSE UNCHANGED restarts
  /\ released' = released \union {v}
  /\ step' = [step EXCEPT ![v] = "resolve"]
  /\ met' = met \union {{v, w} : w \in Active}
  /\ UNCHANGED <<floating, todo>>

\* A listing that fails counts as an empty one: within a command substitution
\* set -e does not hold.  With no tag to move oras tag is short of an argument
\* and fails, and set -e ends the script.
Resolve(v) ==
  /\ step[v] = "resolve"
  /\ \E allTags \in {released} \union (IF ListingFails THEN {{}} ELSE {}) :
       LET extraTags == resolveExtraTags(allTags, v) IN
       /\ todo' = [todo EXCEPT ![v] = extraTags]
       /\ step' = [step EXCEPT ![v] = IF extraTags = {} THEN "idle" ELSE "tag"]
  /\ UNCHANGED <<released, floating, met, restarts>>

\* oras tag moves the tags one after the other, in no given order.
MoveTag(v, f) ==
  /\ step[v] = "tag" /\ f \in todo[v]
  /\ floating' = [floating EXCEPT ![f] = v]
  /\ todo' = [todo EXCEPT ![v] = @ \ {f}]
  /\ UNCHANGED <<released, step, met, restarts>>

\* A bug: a tag that could not be moved does not end the script.
FinishUnchecked(v) ==
  /\ step[v] = "tag"
  /\ step' = [step EXCEPT ![v] = "done"]
  /\ UNCHANGED <<released, floating, todo, met, restarts>>

Finish(v) ==
  /\ step[v] = "tag" /\ todo[v] = {}
  /\ step' = [step EXCEPT ![v] = "done"]
  /\ UNCHANGED <<released, floating, todo, met, restarts>>

\* set -e: any other command that fails ends the script.
Interrupt(v) ==
  /\ v \in Active
  /\ Restart
  /\ step' = [step EXCEPT ![v] = "idle"]
  /\ todo' = [todo EXCEPT ![v] = {}]
  /\ UNCHANGED <<released, floating, met>>

-----------------------------------------------------------------------------
Init ==
  /\ released = {}
  /\ floating = [f \in FloatingTags |-> NoVersion]
  /\ step = [v \in Versions |-> "idle"]
  /\ todo = [v \in Versions |-> {}]
  /\ met = {}
  /\ restarts = 0

Next ==
  \E v \in Versions :
    \/ PushImage(v) \/ Resolve(v) \/ Finish(v) \/ Interrupt(v)
    \/ \E f \in FloatingOf(v) : MoveTag(v, f)

Spec == Init /\ [][Next]_vars

-----------------------------------------------------------------------------
\* Types; a publish moves only floating tags of its own version, and only
\* while it is at it.
TypeOK ==
  /\ released \subseteq Versions
  /\ floating \in [FloatingTags -> Versions \union {NoVersion}]
  /\ step \in [Versions -> {"idle", "resolve", "tag", "done"}]
  /\ todo \in [Versions -> SUBSET FloatingTags]
  /\ \A v \in Versions :
       todo[v] \subseteq FloatingOf(v) /\ (todo[v] # {} => step[v] = "tag")
  /\ met \subseteq {{v, w} : v, w \in Versions}
  /\ restarts \in 0..MaxRestarts

Newer(v, w) ==
  \/ v[1] > w[1]
  \/ v[1] = w[1] /\ v[2] > w[2]
  \/ v[1] = w[1] /\ v[2] = w[2] /\ v[3] > w[3]

\* The newest release a floating tag stands for.
IsNewest(v, f) ==
  /\ v \in released /\ f \in FloatingOf(v)
  /\ \A w \in released : f \in FloatingOf(w) => ~Newer(w, v)

(***************************************************************************)
(* Once the newest release of a series has been published to the end, the  *)
(* floating tag points to it, whatever was published before or after,      *)
(* interrupted or repeated, unless the tag's last mover ran side by side   *)
(* with that publish (release.sh:120-145, 222).                            *)
(***************************************************************************)
FloatingTagsFollow ==
  \A f \in FloatingTags, v \in Versions :
    IsNewest(v, f) /\ step[v] = "done" =>
      floating[f] = v \/ {floating[f], v} \in met

(***************************************************************************)
(* A floating tag never goes back to an older release, except between      *)
(* publishes that ran side by side (release.sh:50-108, 222).               *)
(***************************************************************************)
NeverBackwards ==
  [][\A f \in FloatingTags :
       floating'[f] # floating[f] /\ floating[f] # NoVersion =>
         \/ Newer(floating'[f], floating[f])
         \/ {floating'[f], floating[f]} \in met]_vars

\* "Determines if the target version is the latest patch release of all
\* releases" (release.sh:48), and minor, and major: only tags that the version
\* is the newest release of are chosen.  Refuted by a run with ListingFails.
ChoosesNewest ==
  [][\A v \in Versions : \A f \in todo'[v] \ todo[v] : IsNewest(v, f)]_vars
=============================================================================
