------------------------------- MODULE Release -------------------------------
(***************************************************************************)
(* A release of csi-bottle: bin/release.sh prepare, approve and publish,   *)
(* with the functions of .dagger they call.  Several people may run the    *)
(* script, each in a clone of the repository, while others go on pushing   *)
(* work.  The script keeps no lock and no record of how far it came: its   *)
(* state is git's and the registry's, and any step of it may fail.         *)
(*                                                                         *)
(* Git, git-cliff, goreleaser and the registry are not under src/.  They   *)
(* are modelled by what the script's use of them does, files by the        *)
(* release they were written for.                                          *)
(***************************************************************************)
EXTENDS Naturals, Sequences

CONSTANTS
  Clones,       \* the clones releases are made from
  MaxVersion,   \* bound: releases after the first
  MaxCommits,   \* bound: commits
  MaxSections,  \* bound: sections of the changelog
  Faults,       \* what may fail, of FaultKinds ...
  MaxFaults     \* ... and how often

FaultKinds == {"sign", "push", "publish"}

ASSUME BoundsAssumption ==
  /\ MaxVersion \in Nat /\ MaxCommits \in Nat \ {0} /\ MaxSections \in Nat
  /\ MaxFaults \in Nat /\ Faults \subseteq FaultKinds

VARIABLES
  commits,   \* the commits made so far: an ID is an index
  branch,    \* the tip of the remote's branch
  tags,      \* the commit each release tag of the remote names, or None
  head,      \* HEAD of each clone
  local,     \* its tags
  index,     \* its staging area
  work,      \* its working tree
  step,      \* the next step of the script running in it, or "idle"
  approved,  \* clones whose last approve ended well
  registry,  \* the commit each artifact was published from, or None
  hasty,     \* history: commits published from a clone that had not approved
  faults     \* faults so far

remoteState == <<branch, tags>>
cloneState == <<head, local, index, work>>
vars == <<commits, remoteState, cloneState, step, approved, registry, hasty, faults>>

-----------------------------------------------------------------------------
Versions == 0..MaxVersion

None == 0

Steps == {"idle", "commit", "tag", "push", "chart", "image"}

Artifacts == {"release", "chart", "image"}

\* VERSION, the chart's version, release notes by version, and the sections
\* of the changelog, newest first.
Trees == [version : Versions, chart : Versions, notes : SUBSET Versions,
          log : Seq(Versions)]

\* A commit's history (itself included), its files, and whether it is work to
\* be released or a release commit, which cliff.toml skips.
Commits == [past : SUBSET Nat, tree : Trees, isWork : BOOLEAN]

Past(id) == commits[id].past
Tree(id) == commits[id].tree

NewId == Len(commits) + 1

Commit(parent, tree, isWork) ==
  Append(commits, [past |-> Past(parent) \union {NewId}, tree |-> tree,
                   isWork |-> isWork])

Clean(c) == work[c] = index[c] /\ index[c] = Tree(head[c])

Goto(c, next) == step' = [step EXCEPT ![c] = next]

\* set -e: the script ends with the first command that fails.
Stops(c) == Goto(c, "idle") /\ UNCHANGED faults

Spend(f) == f \in Faults /\ faults < MaxFaults /\ faults' = faults + 1

Fails(c, f) == Goto(c, "idle") /\ Spend(f)

PublishFrom(c, artifact, v) ==
  registry' = [registry EXCEPT ![artifact][v] = head[c]]

-----------------------------------------------------------------------------
(***************************************************************************)
(* Steps with a bug somebody could make in them, one for each property.    *)
(***************************************************************************)

\* The chart gets a version of its own.
SetChartNextVersion(tree, v) == [tree EXCEPT !.chart = v + 1]

\* The chart is left out of the release commit.
AddWithoutChart(c) ==
  /\ step[c] = "idle"
  /\ index' = [index EXCEPT ![c] = [work[c] EXCEPT !.chart = index[c].chart]]
  /\ approved' = approved \ {c}
  /\ Goto(c, "commit")
  /\ UNCHANGED <<commits, remoteState, head, local, work, registry, hasty, faults>>

\* Whether the push was accepted does not matter.
PushUnchecked(c) ==
  /\ step[c] = "push"
  /\ branch' = IF branch \in Past(head[c]) THEN head[c] ELSE branch
  /\ Stops(c) /\ approved' = approved \union {c}
  /\ UNCHANGED <<commits, tags, cloneState, registry, hasty>>

\* A chart that cannot be published does not end the script.
PublishChartUnchecked(c) ==
  /\ step[c] = "chart" /\ Goto(c, "image")
  /\ \/ PublishFrom(c, "chart", work[c].chart) /\ UNCHANGED faults
     \/ Spend("publish") /\ UNCHANGED registry
  /\ UNCHANGED <<commits, remoteState, cloneState, approved, hasty>>

-----------------------------------------------------------------------------
(* Around the script. *)

\* Somebody else's work reaches the branch.
Contribute ==
  /\ NewId <= MaxCommits
  /\ commits' = Commit(branch, Tree(branch), TRUE)
  /\ branch' = NewId
  /\ UNCHANGED <<tags, cloneState, step, approved, registry, hasty, faults>>

\* The releaser takes the remote's branch over what is left in the clone.
\* Fetching follows the tags in the branch's history, and leaves a tag the
\* clone has as it is.
Reset(c) ==
  /\ step[c] = "idle"
  /\ head' = [head EXCEPT ![c] = branch]
  /\ index' = [index EXCEPT ![c] = Tree(branch)]
  /\ work' = [work EXCEPT ![c] = Tree(branch)]
  /\ local' = [local EXCEPT ![c] = [v \in Versions |->
       IF @[v] = None /\ tags[v] \in Past(branch) THEN tags[v] ELSE @[v]]]
  /\ approved' = approved \ {c}
  /\ UNCHANGED <<commits, remoteState, step, registry, hasty, faults>>

-----------------------------------------------------------------------------
(* prepare *)

\* git-cliff counts from the newest release tag: of HEAD's history, or of all.
IsLastRelease(c, last) ==
  \E among \in {Past(head[c]), DOMAIN commits} :
    /\ local[c][last] \in among
    /\ \A v \in Versions : local[c][v] \in among => v <= last

Unreleased(c, last) ==
  {id \in Past(head[c]) \ Past(local[c][last]) : commits[id].isWork}

SetChartVersion(tree, v) == [tree EXCEPT !.chart = v]

\* What Prepare writes for version v, but for the changelog.
WithVersion(tree, v) ==
  [SetChartVersion(tree, v) EXCEPT !.version = v, !.notes = @ \union {v}]

\* With something to release, the changelog gets a section for it.
Prepared(tree, v) == [WithVersion(tree, v) EXCEPT !.log = <<v>> \o @]

\* `git diff --stat` compares the working tree with the staging area: it is
\* silent about changes that are staged.  A check that fails before the files
\* are exported changes nothing, and one after it leaves them changed.  With
\* nothing to release the "bumped" version is that of the last release, whose
\* notes are written again, and the changelog gets no section.
Prepare(c) ==
  /\ step[c] = "idle"
  /\ work[c] = index[c]
  /\ \E last \in Versions :
       /\ IsLastRelease(c, last)
       /\ \/ /\ Unreleased(c, last) # {}
             /\ last < MaxVersion /\ Len(work[c].log) < MaxSections
             /\ work' = [work EXCEPT ![c] = Prepared(@, last + 1)]
          \/ /\ Unreleased(c, last) = {}
             /\ work' = [work EXCEPT ![c] = WithVersion(@, last)]
  /\ UNCHANGED <<commits, remoteState, head, local, index, step, approved,
                 registry, hasty, faults>>

-----------------------------------------------------------------------------
(* approve *)

Add(c) ==
  /\ step[c] = "idle"
  /\ index' = [index EXCEPT ![c] = work[c]]
  /\ approved' = approved \ {c}
  /\ Goto(c, "commit")
  /\ UNCHANGED <<commits, remoteState, head, local, work, registry, hasty, faults>>

\* The signed commit.  Its failure, and that of the bound, leaves the changes
\* staged; without changes there is nothing to commit.
CommitRelease(c) ==
  /\ step[c] = "commit"
  /\ \/ /\ index[c] # Tree(head[c]) /\ NewId <= MaxCommits
        /\ commits' = Commit(head[c], index[c], FALSE)
        /\ head' = [head EXCEPT ![c] = NewId]
        /\ Goto(c, "tag") /\ UNCHANGED faults
     \/ /\ index[c] = Tree(head[c]) \/ NewId > MaxCommits
        /\ Stops(c) /\ UNCHANGED <<commits, head>>
     \/ Fails(c, "sign") /\ UNCHANGED <<commits, head>>
  /\ UNCHANGED <<remoteState, local, index, work, approved, registry, hasty>>

\* The signed tag, which must be new to the clone.
CreateTag(c) ==
  LET v == work[c].version IN
  /\ step[c] = "tag"
  /\ \/ /\ local[c][v] = None
        /\ local' = [local EXCEPT ![c][v] = head[c]]
        /\ Goto(c, "push") /\ UNCHANGED faults
     \/ local[c][v] # None /\ Stops(c) /\ UNCHANGED local
     \/ Fails(c, "sign") /\ UNCHANGED local
  /\ UNCHANGED <<commits, remoteState, head, index, work, approved, registry,
                 hasty>>

\* With --follow-tags: the tags of HEAD's history that the remote lacks.
FollowTags(c) ==
  [v \in Versions |->
     IF tags[v] = None /\ local[c][v] \in Past(head[c]) THEN local[c][v] ELSE tags[v]]

\* The remote takes the branch only when nothing is lost by it, and takes the
\* tags in either case.  A push that fails for another reason may have arrived.
Push(c) ==
  LET accepted == branch \in Past(head[c])
      arrives == /\ branch' = IF accepted THEN head[c] ELSE branch
                 /\ tags' = FollowTags(c)
  IN
  /\ step[c] = "push"
  /\ \/ arrives /\ accepted /\ Stops(c) /\ approved' = approved \union {c}
     \/ arrives /\ ~accepted /\ Stops(c) /\ UNCHANGED approved
     \/ Fails(c, "push") /\ (arrives \/ UNCHANGED remoteState) /\ UNCHANGED approved
  /\ UNCHANGED <<commits, cloneState, registry, hasty>>

-----------------------------------------------------------------------------
(* publish *)

\* goreleaser refuses a tree that is dirty or whose HEAD lacks the tag.  Nobody
\* asks whether HEAD was pushed.
GoReleaser(c) ==
  LET v == work[c].version IN
  /\ step[c] = "idle"
  /\ Clean(c) /\ local[c][v] = head[c]
  /\ PublishFrom(c, "release", v)
  /\ hasty' = IF c \in approved THEN hasty ELSE hasty \union {head[c]}
  /\ Goto(c, "chart")
  /\ UNCHANGED <<commits, remoteState, cloneState, approved, faults>>

\* The chart goes out under the version in Chart.yaml.
PublishChart(c) ==
  /\ step[c] = "chart"
  /\ \/ PublishFrom(c, "chart", work[c].chart) /\ Goto(c, "image") /\ UNCHANGED faults
     \/ Fails(c, "publish") /\ UNCHANGED registry
  /\ UNCHANGED <<commits, remoteState, cloneState, approved, hasty>>

\* The images of all platforms are built before their index is published.
ImageIndex(c) ==
  /\ step[c] = "image"
  /\ \/ PublishFrom(c, "image", work[c].version) /\ Stops(c)
     \/ Fails(c, "publish") /\ UNCHANGED registry
  /\ UNCHANGED <<commits, remoteState, cloneState, approved, hasty>>

-----------------------------------------------------------------------------
\* The first release, and its clones.
FirstTree == [version |-> 0, chart |-> 0, notes |-> {0}, log |-> <<0>>]

FirstTags == [v \in Versions |-> IF v = 0 THEN 1 ELSE None]

Init ==
  /\ commits = <<[past |-> {1}, tree |-> FirstTree, isWork |-> FALSE]>>
  /\ branch = 1
  /\ tags = FirstTags
  /\ head = [c \in Clones |-> 1]
  /\ local = [c \in Clones |-> FirstTags]
  /\ index = [c \in Clones |-> FirstTree]
  /\ work = [c \in Clones |-> FirstTree]
  /\ step = [c \in Clones |-> "idle"]
  /\ approved = {}
  /\ registry = [a \in Artifacts |-> FirstTags]
  /\ hasty = {}
  /\ faults = 0

Next ==
  \/ Contribute
  \/ \E c \in Clones :
       \/ Reset(c) \/ Prepare(c)
       \/ Add(c) \/ CommitRelease(c) \/ CreateTag(c) \/ Push(c)
       \/ GoReleaser(c) \/ PublishChart(c) \/ ImageIndex(c)

Spec == Init /\ [][Next]_vars

-----------------------------------------------------------------------------
\* Types.
TypeOK ==
  /\ commits \in Seq(Commits)
  /\ branch \in DOMAIN commits
  /\ head \in [Clones -> DOMAIN commits]
  /\ tags \in [Versions -> {None} \union DOMAIN commits]
  /\ local \in [Clones -> [Versions -> {None} \union DOMAIN commits]]
  /\ index \in [Clones -> Trees] /\ work \in [Clones -> Trees]
  /\ step \in [Clones -> Steps]
  /\ approved \subseteq Clones
  /\ registry \in [Artifacts -> [Versions -> {None} \union DOMAIN commits]]
  /\ hasty \subseteq DOMAIN commits
  /\ faults \in 0..MaxFaults

\* All the files a release writes are those of release v.
IsRelease(tree, v) ==
  tree.version = v /\ tree.chart = v /\ v \in tree.notes /\ Head(tree.log) = v

(***************************************************************************)
(* However often prepare and approve were run, failed and were run again,  *)
(* and whoever else did, the commit a release tag of the remote names      *)
(* carries that release: VERSION, the chart, the notes and the newest      *)
(* section of the changelog (release.sh:181-197, release.go:41-65).        *)
(***************************************************************************)
TaggedIsPrepared == \A v \in Versions : tags[v] # None => IsRelease(Tree(tags[v]), v)

(***************************************************************************)
(* Whatever is published as v comes from a commit that carries release v.  *)
(* It is part of the remote's branch, for good, unless publish was run in  *)
(* a clone whose approve had not ended well: a push that was rejected or   *)
(* lost puts nothing out that the others do not have, as long as the       *)
(* releaser looks at how approve ended, which publish does not             *)
(* (release.sh:196-219).                                                   *)
(***************************************************************************)
PublishedIsPushed ==
  \A a \in Artifacts, v \in Versions : LET id == registry[a][v] IN
    id # None => IsRelease(Tree(id), v) /\ id \in Past(branch) \union hasty

(***************************************************************************)
(* The image of a version, which the floating tags then follow, is there   *)
(* only when its chart is, and the chart only when the release is, with    *)
(* its notes: wherever a publish stopped and from whichever clone it was   *)
(* run again, what comes last vouches for the rest (release.sh:204-219).   *)
(***************************************************************************)
PublishedInOrder ==
  \A v \in Versions :
    /\ registry["image"][v] # None => registry["chart"][v] # None
    /\ registry["chart"][v] # None => registry["release"][v] # None

(***************************************************************************)
(* "approve - commit, tag, and push your approved release": when approve   *)
(* has ended well, the remote's tag names the commit that was approved.    *)
(***************************************************************************)
ApprovedIsTagged ==
  \A c \in approved : tags[Tree(head[c]).version] = head[c]
=============================================================================
