--------------------------- MODULE ReleaseTagsProofs ---------------------------
(***************************************************************************)
(* Where floating tags end, and which way they move, for any set of        *)
(* versions, as long as the tags of the registry can be listed.            *)
(*                                                                         *)
(* The listing a publish works from may be stale when it moves a tag.      *)
(* What has been pushed since ran side by side with it: that, and nothing  *)
(* else, is what the invariant lets it overlook.                           *)
(***************************************************************************)
EXTENDS ReleaseTags, TLAPS

\* Between the push of its image and its end a version is released, and so is
\* what a floating tag points to.
OnlyReleased ==
  /\ \A v \in Versions : step[v] # "idle" => v \in released
  /\ \A f \in FloatingTags : floating[f] # NoVersion =>
       floating[f] \in released /\ f \in FloatingOf(floating[f])

\* The newer versions a publish overlooks when it moves a tag.
OverlooksOnlyMet ==
  \A v \in Versions : \A f \in todo[v] : \A w \in released :
    f \in FloatingOf(w) /\ Newer(w, v) => {v, w} \in met

Follows(f, v) == floating[f] = v \/ {floating[f], v} \in met

\* What the newest release has yet to do is all that is left to do.
StillToDo ==
  \A v \in Versions : \A f \in FloatingTags :
    IsNewest(v, f) /\ step[v] = "tag" => f \in todo[v] \/ Follows(f, v)

IInv == TypeOK /\ OnlyReleased /\ OverlooksOnlyMet /\ StillToDo /\ FloatingTagsFollow

-----------------------------------------------------------------------------
(* Lemmas. *)

LEMMA Versions3 ==
  ASSUME NEW v \in Versions
  PROVE  /\ v[1] \in Nat /\ v[2] \in Nat /\ v[3] \in Nat
         /\ v = <<v[1], v[2], v[3]>>
         /\ FloatingOf(v) \subseteq FloatingTags
  BY VersionsAssumption DEF FloatingTags

\* Newer is a total order.
LEMMA NewerIsTotal ==
  ASSUME NEW v \in Versions, NEW w \in Versions, v # w
  PROVE  Newer(v, w) \/ Newer(w, v)
  BY Versions3 DEF Newer

\* The three questions of the script, asked together, are one.
LEMMA ResolvedAreNewest ==
  ASSUME released \subseteq Versions, NEW v \in released, NEW f \in FloatingOf(v)
  PROVE  f \in resolveExtraTags(released, v) <=> IsNewest(v, f)
<1>1. /\ \A w \in released : w[1] \in Nat /\ w[2] \in Nat /\ w[3] \in Nat
      /\ v[1] \in Nat /\ v[2] \in Nat /\ v[3] \in Nat
  BY Versions3
<1>2. CASE f = <<v[1], v[2]>>
  <2>1. Len(f) = 2 /\ \A w \in released : f \in FloatingOf(w) <=> w[1] = v[1] /\ w[2] = v[2]
    BY <1>1, <1>2 DEF FloatingOf
  <2>2. f \in resolveExtraTags(released, v) <=> isLatestPatch(released, v)
    BY <2>1 DEF resolveExtraTags
  <2> QED
    BY <1>1, <2>1, <2>2 DEF IsNewest, Newer, isLatestPatch
<1>3. CASE f = <<v[1]>>
  <2>1. Len(f) = 1 /\ \A w \in released : f \in FloatingOf(w) <=> w[1] = v[1]
    BY <1>1, <1>3 DEF FloatingOf
  <2>2. f \in resolveExtraTags(released, v) <=>
          isLatestPatch(released, v) /\ isLatestMinor(released, v)
    <3>1. Len(f) < 2 /\ ~(Len(f) < 1)
      BY <2>1
    <3> QED
      BY <3>1, Zenon DEF resolveExtraTags
  <2> QED
    BY <1>1, <2>1, <2>2 DEF IsNewest, Newer, isLatestPatch, isLatestMinor
<1>4. CASE f = <<>>
  <2>1. Len(f) = 0 /\ \A w \in released : f \in FloatingOf(w)
    BY <1>4 DEF FloatingOf
  <2>2. f \in resolveExtraTags(released, v) <=>
          isLatestPatch(released, v) /\ isLatestMinor(released, v) /\ isLatestMajor(released, v)
    BY <2>1 DEF resolveExtraTags
  <2> QED
    BY <1>1, <2>1, <2>2 DEF IsNewest, Newer, isLatestPatch, isLatestMinor, isLatestMajor
<1> QED
  BY <1>2, <1>3, <1>4 DEF FloatingOf

-----------------------------------------------------------------------------
(* Types. *)

LEMMA InitType == Init => TypeOK
  BY MaxRestartsAssumption DEF Init, TypeOK

LEMMA RestartType == TypeOK /\ Restart => restarts' \in 0..MaxRestarts
  BY MaxRestartsAssumption DEF TypeOK, Restart

LEMMA NextType == TypeOK /\ [Next]_vars => TypeOK'
<1> SUFFICES ASSUME TypeOK, [Next]_vars PROVE TypeOK'
  OBVIOUS
<1>1. ASSUME NEW v \in Versions, PushImage(v) PROVE TypeOK'
  <2>1. restarts' \in 0..MaxRestarts
    BY <1>1, RestartType DEF PushImage, TypeOK
  <2>2. met' \subseteq {{x, y} : x, y \in Versions}
    <3>1. {{v, w} : w \in Active} \subseteq {{x, y} : x, y \in Versions}
      BY DEF Active
    <3> QED
      BY <1>1, <3>1 DEF PushImage, TypeOK
  <2>3. /\ todo' = todo /\ todo[v] = {} /\ floating' = floating
        /\ released' = released \union {v} /\ step' = [step EXCEPT ![v] = "resolve"]
    BY <1>1 DEF PushImage, TypeOK, Active
  <2>4. /\ step' \in [Versions -> {"idle", "resolve", "tag", "done"}]
        /\ \A w \in Versions : todo'[w] # {} => step'[w] = "tag"
    BY <2>3 DEF TypeOK
  <2> QED
    BY <2>1, <2>2, <2>3, <2>4 DEF TypeOK
<1>2. ASSUME NEW v \in Versions, Resolve(v) PROVE TypeOK'
  <2>1. PICK allTags : todo' = [todo EXCEPT ![v] = resolveExtraTags(allTags, v)]
    BY <1>2 DEF Resolve
  <2>2. resolveExtraTags(allTags, v) \subseteq FloatingOf(v)
    BY DEF resolveExtraTags
  <2> QED
    BY <1>2, <2>1, <2>2, Versions3 DEF Resolve, TypeOK
<1>3. ASSUME NEW v \in Versions, Finish(v) PROVE TypeOK'
  BY <1>3 DEF Finish, TypeOK
<1>4. ASSUME NEW v \in Versions, Interrupt(v) PROVE TypeOK'
  BY <1>4, RestartType DEF Interrupt, TypeOK
<1>5. ASSUME NEW v \in Versions, NEW f \in FloatingOf(v), MoveTag(v, f) PROVE TypeOK'
  BY <1>5, Versions3 DEF MoveTag, TypeOK
<1>6. CASE UNCHANGED vars
  BY <1>6 DEF vars, TypeOK
<1> QED
  BY <1>1, <1>2, <1>3, <1>4, <1>5, <1>6 DEF Next

(***************************************************************************)
(* A publish moves only floating tags of its own version, and only while   *)
(* it is at it (release.sh:199-227).                                       *)
(***************************************************************************)
THEOREM TypeCorrect == Spec => []TypeOK
  BY InitType, NextType, PTL DEF Spec

-----------------------------------------------------------------------------
(* The invariant. *)

LEMMA InitInv == Init => IInv
<1> SUFFICES ASSUME Init PROVE IInv
  OBVIOUS
<1>1. TypeOK
  BY InitType
<1> QED
  BY <1>1 DEF Init, IInv, OnlyReleased, OverlooksOnlyMet, StillToDo, FloatingTagsFollow, IsNewest

\* A version that is newest stays newest only among fewer.
LEMMA NewestBefore ==
  ASSUME NEW v, NEW f, IsNewest(v, f)', released \subseteq released', v \in released
  PROVE  IsNewest(v, f)
  BY DEF IsNewest

\* What a publish overlooks when it moves a tag it was side by side with.
LEMMA Moved ==
  ASSUME IInv, NEW u \in Versions, NEW f \in todo[u], u \in released, f \in FloatingOf(u),
         NEW v \in Versions, IsNewest(v, f), v # u
  PROVE  {u, v} \in met
<1>1. Newer(v, u)
  BY NewerIsTotal DEF IsNewest
<1> QED
  BY <1>1 DEF IInv, OverlooksOnlyMet, IsNewest

LEMMA NextInv ==
  ASSUME ~ListingFails, IInv, TypeOK', [Next]_vars
  PROVE  IInv'
<1>0. /\ TypeOK /\ OnlyReleased /\ OverlooksOnlyMet /\ StillToDo /\ FloatingTagsFollow
      /\ released \subseteq Versions /\ todo \in [Versions -> SUBSET FloatingTags]
      /\ step \in [Versions -> {"idle", "resolve", "tag", "done"}]
      /\ floating \in [FloatingTags -> Versions \union {NoVersion}]
      /\ \A v \in Versions : todo[v] # {} => step[v] = "tag"
      /\ \A v \in Versions : todo[v] \subseteq FloatingOf(v)
  BY DEF IInv, TypeOK
<1>1. ASSUME NEW u \in Versions, PushImage(u) PROVE IInv'
  <2>1. /\ released' = released \union {u} /\ met \subseteq met' /\ floating' = floating
        /\ todo' = todo /\ step' = [step EXCEPT ![u] = "resolve"]
        /\ \A w \in Active : {u, w} \in met'
        /\ u \notin Active
    BY <1>1 DEF PushImage
  <2>2. OnlyReleased'
    BY <1>0, <2>1 DEF OnlyReleased
  <2>3. OverlooksOnlyMet'
    <3> SUFFICES ASSUME NEW v \in Versions, NEW f \in todo[v], NEW w \in released',
                        f \in FloatingOf(w), Newer(w, v)
                 PROVE  {v, w} \in met'
      BY <2>1 DEF OverlooksOnlyMet
    <3>1. CASE w \in released
      BY <1>0, <2>1, <3>1 DEF OverlooksOnlyMet
    <3>2. CASE w = u
      <4>1. v \in Active
        BY <1>0 DEF Active
      <4> QED
        BY <2>1, <3>2, <4>1
    <3> QED
      BY <2>1, <3>1, <3>2
  <2>4. ASSUME NEW v \in Versions, NEW f, IsNewest(v, f)', step'[v] \in {"tag", "done"}
        PROVE  IsNewest(v, f) /\ step[v] = step'[v]
    <3>1. v # u /\ step[v] = step'[v]
      BY <1>0, <2>1, <2>4
    <3>2. v \in released
      BY <2>1, <2>4, <3>1 DEF IsNewest
    <3> QED
      BY <2>1, <2>4, <3>1, <3>2, NewestBefore
  <2>5. StillToDo'
    BY <1>0, <2>1, <2>4 DEF StillToDo, Follows
  <2>6. FloatingTagsFollow'
    BY <1>0, <2>1, <2>4 DEF FloatingTagsFollow
  <2> QED
    BY <2>2, <2>3, <2>5, <2>6 DEF IInv
<1>2. ASSUME NEW u \in Versions, Resolve(u) PROVE IInv'
  <2>1. /\ UNCHANGED <<released, floating, met>> /\ step[u] = "resolve"
        /\ step' = [step EXCEPT ![u] =
                         IF resolveExtraTags(released, u) = {} THEN "idle" ELSE "tag"]
        /\ todo' = [todo EXCEPT ![u] = resolveExtraTags(released, u)]
    BY <1>2 DEF Resolve
  <2>2. u \in released
    BY <1>0, <2>1 DEF OnlyReleased
  <2>3. \A f : f \in todo'[u] <=> f \in FloatingOf(u) /\ IsNewest(u, f)
    <3>1. todo'[u] = resolveExtraTags(released, u)
      BY <1>0, <2>1
    <3>2. resolveExtraTags(released, u) \subseteq FloatingOf(u)
      BY DEF resolveExtraTags
    <3> QED
      BY <1>0, <2>2, <3>1, <3>2, ResolvedAreNewest
  <2>4. /\ \A v \in Versions : v # u => todo'[v] = todo[v] /\ step'[v] = step[v]
        /\ step'[u] \in {"idle", "tag"}
    BY <1>0, <2>1
  <2>5. \A v, f : IsNewest(v, f)' <=> IsNewest(v, f)
    BY <2>1 DEF IsNewest
  <2>6. OnlyReleased'
    BY <1>0, <2>1, <2>2, <2>4 DEF OnlyReleased
  <2>7. OverlooksOnlyMet'
    <3> SUFFICES ASSUME NEW v \in Versions, NEW f \in todo'[v], NEW w \in released,
                        f \in FloatingOf(w), Newer(w, v)
                 PROVE  {v, w} \in met
      BY <2>1 DEF OverlooksOnlyMet
    <3>1. CASE v = u
      BY <2>3, <3>1 DEF IsNewest
    <3>2. CASE v # u
      BY <1>0, <2>4, <3>2 DEF OverlooksOnlyMet
    <3> QED
      BY <3>1, <3>2
  <2>8. StillToDo'
    BY <1>0, <2>1, <2>3, <2>4, <2>5 DEF StillToDo, Follows, IsNewest
  <2>9. FloatingTagsFollow'
    BY <1>0, <2>1, <2>4, <2>5 DEF FloatingTagsFollow
  <2> QED
    BY <2>6, <2>7, <2>8, <2>9 DEF IInv
<1>3. ASSUME NEW u \in Versions, NEW g \in FloatingOf(u), MoveTag(u, g) PROVE IInv'
  <2>1. /\ UNCHANGED <<released, step, met>> /\ step[u] = "tag" /\ g \in todo[u]
        /\ floating' = [floating EXCEPT ![g] = u]
        /\ todo' = [todo EXCEPT ![u] = @ \ {g}]
    BY <1>3 DEF MoveTag
  <2>2. u \in released /\ g \in FloatingTags
    BY <1>0, <1>3, <2>1, Versions3 DEF OnlyReleased
  <2>3. /\ floating'[g] = u /\ \A f \in FloatingTags : f # g => floating'[f] = floating[f]
        /\ \A v \in Versions : todo'[v] \subseteq todo[v] /\ \A f \in todo[v] : f # g => f \in todo'[v]
        /\ \A v \in Versions : v # u => todo'[v] = todo[v]
    BY <1>0, <2>1, <2>2
  <2>4. \A v, f : IsNewest(v, f)' <=> IsNewest(v, f)
    BY <2>1 DEF IsNewest
  <2>5. OnlyReleased'
    BY <1>0, <1>3, <2>1, <2>2, <2>3 DEF OnlyReleased
  <2>6. OverlooksOnlyMet'
    BY <1>0, <2>1, <2>3 DEF OverlooksOnlyMet
  <2>7. ASSUME NEW v \in Versions, IsNewest(v, g) PROVE Follows(g, v)'
    <3>1. v # u => {u, v} \in met
      BY <1>3, <2>1, <2>2, <2>7, Moved
    <3> QED
      BY <2>1, <2>3, <3>1 DEF Follows
  <2>8. StillToDo'
    BY <1>0, <2>1, <2>3, <2>4, <2>7 DEF StillToDo, Follows
  <2>9. FloatingTagsFollow'
    BY <1>0, <2>1, <2>3, <2>4, <2>7 DEF FloatingTagsFollow, Follows
  <2> QED
    BY <2>5, <2>6, <2>8, <2>9 DEF IInv
<1>4. ASSUME NEW u \in Versions, Finish(u) PROVE IInv'
  <2>1. /\ UNCHANGED <<released, floating, todo, met>> /\ step[u] = "tag" /\ todo[u] = {}
        /\ step' = [step EXCEPT ![u] = "done"]
    BY <1>4 DEF Finish
  <2>2. /\ step'[u] = "done" /\ \A v \in Versions : v # u => step'[v] = step[v]
        /\ \A v, f : IsNewest(v, f)' <=> IsNewest(v, f)
    BY <1>0, <2>1 DEF IsNewest
  <2>3. OnlyReleased' /\ OverlooksOnlyMet'
    BY <1>0, <2>1, <2>2 DEF OnlyReleased, OverlooksOnlyMet
  <2>4. StillToDo'
    BY <1>0, <2>1, <2>2 DEF StillToDo, Follows
  <2>5. FloatingTagsFollow'
    BY <1>0, <2>1, <2>2 DEF FloatingTagsFollow, StillToDo, Follows
  <2> QED
    BY <2>3, <2>4, <2>5 DEF IInv
<1>5. ASSUME NEW u \in Versions, Interrupt(u) PROVE IInv'
  <2>1. /\ UNCHANGED <<released, floating, met>>
        /\ step' = [step EXCEPT ![u] = "idle"] /\ todo' = [todo EXCEPT ![u] = {}]
    BY <1>5 DEF Interrupt
  <2>2. /\ step'[u] = "idle" /\ todo'[u] = {}
        /\ \A v \in Versions : v # u => step'[v] = step[v] /\ todo'[v] = todo[v]
        /\ \A v, f : IsNewest(v, f)' <=> IsNewest(v, f)
    BY <1>0, <2>1 DEF IsNewest
  <2>3. OnlyReleased' /\ OverlooksOnlyMet'
    BY <1>0, <2>1, <2>2 DEF OnlyReleased, OverlooksOnlyMet
  <2>4. StillToDo' /\ FloatingTagsFollow'
    BY <1>0, <2>1, <2>2 DEF StillToDo, Follows, FloatingTagsFollow
  <2> QED
    BY <2>3, <2>4 DEF IInv
<1>6. CASE UNCHANGED vars
  BY <1>0, <1>6 DEF vars, IInv, OnlyReleased, OverlooksOnlyMet, StillToDo, FloatingTagsFollow,
     Follows, IsNewest
<1> QED
  BY <1>1, <1>2, <1>3, <1>4, <1>5, <1>6 DEF Next

LEMMA Invariant ==
  ASSUME ~ListingFails
  PROVE  Spec => []IInv
<1>1. IInv => TypeOK
  BY DEF IInv
<1>2. IInv /\ [Next]_vars => IInv'
  BY <1>1, NextType, NextInv
<1> QED
  BY <1>2, InitInv, PTL DEF Spec

(***************************************************************************)
(* However publishes interleave, stop and are repeated, the floating tags  *)
(* end at the newest release, but for the ones that ran side by side with  *)
(* it (release.sh:120-145, 222).  It takes that listings do not fail.      *)
(***************************************************************************)
THEOREM TagsFollow == ~ListingFails => (Spec => []FloatingTagsFollow)
<1> SUFFICES ASSUME ~ListingFails PROVE Spec => []FloatingTagsFollow
  OBVIOUS
<1>1. IInv => FloatingTagsFollow
  BY DEF IInv
<1> QED
  BY <1>1, Invariant, PTL

(***************************************************************************)
(* Publishes that do not overlap never move a tag back (release.sh:50-108, *)
(* 222), as long as listings do not fail.                                  *)
(***************************************************************************)
THEOREM TagsNeverGoBack == ~ListingFails => (Spec => NeverBackwards)
<1> SUFFICES ASSUME ~ListingFails PROVE Spec => NeverBackwards
  OBVIOUS
<1> DEFINE Onwards ==
      \A f \in FloatingTags :
        floating'[f] # floating[f] /\ floating[f] # NoVersion =>
          \/ Newer(floating'[f], floating[f])
          \/ {floating'[f], floating[f]} \in met
<1>1. IInv /\ [Next]_vars => [Onwards]_vars
  <2> SUFFICES ASSUME IInv, [Next]_vars, NEW f \in FloatingTags,
                      floating'[f] # floating[f], floating[f] # NoVersion
               PROVE  Newer(floating'[f], floating[f]) \/ {floating'[f], floating[f]} \in met
    OBVIOUS
  <2>0. PICK u \in Versions : \E g \in FloatingOf(u) : MoveTag(u, g)
    BY DEF Next, PushImage, Resolve, Finish, Interrupt, vars
  <2>1. PICK g \in FloatingOf(u) : MoveTag(u, g)
    BY <2>0
  <2>2. f = g /\ floating'[f] = u /\ f \in todo[u]
    BY <2>1 DEF MoveTag, IInv, TypeOK
  <2>3. /\ floating[f] \in released /\ f \in FloatingOf(floating[f])
        /\ floating[f] \in Versions /\ floating[f] # u
    BY <2>2 DEF IInv, TypeOK, OnlyReleased
  <2>4. Newer(u, floating[f]) \/ Newer(floating[f], u)
    BY <2>3, NewerIsTotal
  <2> QED
    BY <2>2, <2>3, <2>4 DEF IInv, OverlooksOnlyMet
<1> QED
  BY <1>1, Invariant, PTL DEF Spec, NeverBackwards
==============================================================================
