----------------------------- MODULE ReleaseProofs -----------------------------
(***************************************************************************)
(* What the remote's tags name and what is published, for any number of    *)
(* clones, releases and commits.  The inductive invariant says that the    *)
(* tree a tag names, and that of the branch, is that of one release; that  *)
(* the tree of a clone is, too, or is that of a release the clone has a    *)
(* tag of and cannot tag again; that the script stays with the tree it     *)
(* added; and that a history, once part of the branch, stays part of it.   *)
(***************************************************************************)
EXTENDS Release, TLAPS

Whole(tree) == IsRelease(tree, tree.version)

\* Prepared with nothing to release, a tree may carry the version of the last
\* release and the changelog of another.
Fit(c, tree) == Whole(tree) \/ local[c][tree.version] # None

TreesFit ==
  /\ Whole(Tree(branch))
  /\ \A c \in Clones : Fit(c, work[c]) /\ Fit(c, index[c])

TagsFit ==
  \A v \in Versions :
    /\ tags[v] # None => IsRelease(Tree(tags[v]), v)
    /\ \A c \in Clones : local[c][v] # None => IsRelease(Tree(local[c][v]), v)

\* A commit is part of its history, and so are the histories of its ancestors.
HistoriesNest ==
  \A id \in DOMAIN commits :
    /\ id \in Past(id) /\ Past(id) \subseteq DOMAIN commits
    /\ \A older \in Past(id) : Past(older) \subseteq Past(id)

ScriptKeepsItsTree ==
  \A c \in Clones :
    /\ step[c] # "idle" => work[c] = index[c]
    /\ step[c] \in {"tag", "push", "chart", "image"} => index[c] = Tree(head[c])
    /\ step[c] \in {"push", "chart", "image"} => local[c][work[c].version] = head[c]
    /\ step[c] \in {"chart", "image"} => c \in approved \/ head[c] \in hasty
    /\ c \in approved => head[c] \in Past(branch)
    /\ step[c] = "commit" => c \notin approved

IInv ==
  TypeOK /\ TreesFit /\ TagsFit /\ HistoriesNest /\ ScriptKeepsItsTree
  /\ PublishedIsPushed

-----------------------------------------------------------------------------
(* Lemmas. *)

\* What a new commit leaves alone and what it adds.
LEMMA CommitFacts ==
  ASSUME TypeOK, NEW parent \in DOMAIN commits, NEW tree \in Trees,
         NEW isWork \in BOOLEAN, Past(parent) \subseteq DOMAIN commits,
         commits' = Commit(parent, tree, isWork)
  PROVE  /\ commits' \in Seq(Commits)
         /\ NewId \in Nat \ {0} /\ NewId \notin DOMAIN commits
         /\ DOMAIN commits' = DOMAIN commits \union {NewId}
         /\ \A id \in DOMAIN commits : commits'[id] = commits[id]
         /\ commits'[NewId].past = Past(parent) \union {NewId}
         /\ commits'[NewId].tree = tree
<1> DEFINE new == [past |-> Past(parent) \union {NewId}, tree |-> tree, isWork |-> isWork]
<1>1. commits \in Seq(Commits) /\ Len(commits) \in Nat /\ DOMAIN commits = 1..Len(commits)
  BY DEF TypeOK
<1>2. new \in Commits
  BY <1>1 DEF Commits, NewId
<1>3. commits' = Append(commits, new)
  BY DEF Commit
<1> QED
  BY <1>1, <1>2, <1>3 DEF NewId

\* prepare turns a tree into that of another release, but for the changelog
\* when there is nothing to release.
LEMMA PreparedFacts ==
  ASSUME NEW tree \in Trees, NEW v \in Versions
  PROVE  /\ WithVersion(tree, v) \in Trees /\ WithVersion(tree, v).version = v
         /\ Prepared(tree, v) \in Trees /\ Whole(Prepared(tree, v))
<1> DEFINE set == SetChartVersion(tree, v)
           with == WithVersion(tree, v)
           to == Prepared(tree, v)
<1>1. set \in Trees /\ set.chart = v
  BY DEF Trees, SetChartVersion
<1>2. set.notes \union {v} \in SUBSET Versions
  BY <1>1 DEF Trees
<1> HIDE DEF set
<1>3. /\ with \in Trees
      /\ with.version = v /\ with.chart = v /\ v \in with.notes
  BY <1>1, <1>2 DEF WithVersion, Trees, set
<1> HIDE DEF with
<1>4. <<v>> \o with.log \in Seq(Versions) /\ Head(<<v>> \o with.log) = v
  <2>1. with.log \in Seq(Versions) /\ <<v>> \in Seq(Versions)
    BY <1>3 DEF Trees
  <2> QED
    BY <2>1
<1>5. to \in Trees /\ to = [with EXCEPT !.log = <<v>> \o with.log]
  BY <1>3, <1>4 DEF Prepared, Trees, with
<1>6. /\ to.version = v /\ to.chart = v /\ v \in to.notes
      /\ to.log = <<v>> \o with.log
  BY <1>3, <1>5 DEF Trees
<1> QED
  BY <1>3, <1>4, <1>5, <1>6 DEF Whole, IsRelease, with

LEMMA SpendType ==
  ASSUME TypeOK, NEW f, Spend(f)
  PROVE  faults' \in 0..MaxFaults
  BY BoundsAssumption DEF TypeOK, Spend

\* What is typed by the commits there are stays so when there are more.
LEMMA MoreCommits ==
  ASSUME NEW S, NEW T, S \subseteq T, NEW D, NEW E
  PROVE  /\ [D -> S] \subseteq [D -> T]
         /\ [E -> {None} \union S] \subseteq [E -> {None} \union T]
         /\ [D -> [E -> {None} \union S]] \subseteq [D -> [E -> {None} \union T]]
<1>1. \A A, B, C : A \subseteq B => [C -> A] \subseteq [C -> B]
  OBVIOUS
<1>2. {None} \union S \subseteq {None} \union T
  OBVIOUS
<1>3. [E -> {None} \union S] \subseteq [E -> {None} \union T]
  BY <1>1, <1>2
<1> QED
  BY <1>1, <1>3

\* A new commit disturbs no other one.
LEMMA HistoryGrows ==
  ASSUME IInv, NEW parent \in DOMAIN commits, NEW tree \in Trees,
         NEW isWork \in BOOLEAN, commits' = Commit(parent, tree, isWork)
  PROVE  /\ commits' \in Seq(Commits)
         /\ NewId \in DOMAIN commits' /\ DOMAIN commits \subseteq DOMAIN commits'
         /\ \A id \in DOMAIN commits : Tree(id)' = Tree(id) /\ Past(id)' = Past(id)
         /\ commits'[NewId].tree = tree
         /\ Past(parent) \subseteq commits'[NewId].past
         /\ NewId \in commits'[NewId].past
         /\ HistoriesNest'
<1>1. TypeOK /\ Past(parent) \subseteq DOMAIN commits
  BY DEF IInv, HistoriesNest
<1>2. /\ commits' \in Seq(Commits)
      /\ NewId \in Nat \ {0} /\ NewId \notin DOMAIN commits
      /\ DOMAIN commits' = DOMAIN commits \union {NewId}
      /\ \A id \in DOMAIN commits : commits'[id] = commits[id]
      /\ commits'[NewId].past = Past(parent) \union {NewId}
      /\ commits'[NewId].tree = tree
  BY <1>1, CommitFacts
<1>3. \A id \in DOMAIN commits : Tree(id)' = Tree(id) /\ Past(id)' = Past(id)
  BY <1>2 DEF Tree, Past
<1>4. HistoriesNest'
  <2> SUFFICES ASSUME NEW id \in DOMAIN commits'
               PROVE  /\ id \in Past(id)' /\ Past(id)' \subseteq DOMAIN commits'
                      /\ \A older \in Past(id)' : Past(older)' \subseteq Past(id)'
    BY DEF HistoriesNest
  <2>1. CASE id \in DOMAIN commits
    BY <2>1, <1>2, <1>3 DEF IInv, HistoriesNest
  <2>2. CASE id = NewId
    <3>1. Past(id)' = Past(parent) \union {NewId}
      BY <2>2, <1>2 DEF Past
    <3>2. \A older \in Past(parent) : Past(older)' \subseteq Past(parent)
      BY <1>1, <1>3 DEF IInv, HistoriesNest
    <3> QED
      BY <2>2, <3>1, <3>2, <1>1, <1>2
  <2> QED
    BY <2>1, <2>2, <1>2
<1> QED
  BY <1>2, <1>3, <1>4

-----------------------------------------------------------------------------
(* The initial state and the steps. *)

LEMMA InitInv == Init => IInv
<1> SUFFICES ASSUME Init PROVE IInv
  OBVIOUS
<1> DEFINE first == [past |-> {1}, tree |-> FirstTree, isWork |-> FALSE]
<1>1. 0 \in Versions /\ <<0>> \in Seq(Versions) /\ Head(<<0>>) = 0
  BY BoundsAssumption DEF Versions
<1>2. FirstTree \in Trees /\ Whole(FirstTree)
  BY <1>1 DEF FirstTree, Trees, Whole, IsRelease
<1>3. first \in Commits
  BY <1>2 DEF Commits
<1>4. /\ commits = <<first>> /\ commits \in Seq(Commits)
      /\ DOMAIN commits = {1} /\ commits[1] = first
  BY <1>3 DEF Init
<1>5. Past(1) = {1} /\ Tree(1) = FirstTree
  BY <1>4 DEF Past, Tree
<1>6. FirstTags \in [Versions -> {None} \union DOMAIN commits]
  BY <1>4 DEF FirstTags
<1>7. \A v \in Versions : FirstTags[v] # None => v = 0 /\ FirstTags[v] = 1
  BY DEF FirstTags
<1>8. TypeOK
  BY <1>2, <1>4, <1>6, BoundsAssumption DEF Init, TypeOK, Steps
<1>9. TreesFit /\ HistoriesNest /\ ScriptKeepsItsTree
  BY <1>2, <1>4, <1>5 DEF Init, TreesFit, Fit, HistoriesNest, ScriptKeepsItsTree
<1>10. FirstTree.version = 0
  BY DEF FirstTree
<1>11. TagsFit
  BY <1>2, <1>5, <1>7, <1>10 DEF Init, TagsFit, Whole
<1>12. PublishedIsPushed
  BY <1>2, <1>5, <1>7, <1>10 DEF Init, PublishedIsPushed, Whole
<1> QED
  BY <1>8, <1>9, <1>11, <1>12 DEF IInv

LEMMA ContributeStep == IInv /\ Contribute => IInv'
<1> SUFFICES ASSUME IInv, Contribute PROVE IInv'
  OBVIOUS
<1>1. branch \in DOMAIN commits /\ Tree(branch) \in Trees /\ Whole(Tree(branch))
  <2>1. commits[branch] \in Commits
    BY DEF IInv, TypeOK
  <2> QED
    BY <2>1 DEF IInv, TypeOK, TreesFit, Tree, Commits
<1>2. commits' = Commit(branch, Tree(branch), TRUE) /\ branch' = NewId
      /\ UNCHANGED <<tags, cloneState, step, approved, registry, hasty, faults>>
  BY DEF Contribute
<1>3. /\ commits' \in Seq(Commits)
      /\ NewId \in DOMAIN commits' /\ DOMAIN commits \subseteq DOMAIN commits'
      /\ \A id \in DOMAIN commits : Tree(id)' = Tree(id) /\ Past(id)' = Past(id)
      /\ Past(branch) \subseteq commits'[NewId].past
      /\ commits'[NewId].tree = Tree(branch)
      /\ HistoriesNest'
  BY <1>1, <1>2, HistoryGrows
<1>4. Past(branch) \subseteq Past(branch)'
  BY <1>2, <1>3 DEF Past
<1>5. TypeOK'
  <2>1. /\ head' \in [Clones -> DOMAIN commits']
        /\ tags' \in [Versions -> {None} \union DOMAIN commits']
        /\ local' \in [Clones -> [Versions -> {None} \union DOMAIN commits']]
        /\ registry' \in [Artifacts -> [Versions -> {None} \union DOMAIN commits']]
    <3>1. /\ UNCHANGED <<head, local, tags, registry>>
          /\ head \in [Clones -> DOMAIN commits]
          /\ tags \in [Versions -> {None} \union DOMAIN commits]
          /\ local \in [Clones -> [Versions -> {None} \union DOMAIN commits]]
          /\ registry \in [Artifacts -> [Versions -> {None} \union DOMAIN commits]]
      BY <1>2 DEF IInv, TypeOK, cloneState
    <3> QED
      BY <1>3, <3>1, MoreCommits
  <2> QED
    BY <1>2, <1>3, <2>1 DEF IInv, TypeOK, cloneState
<1>6. TreesFit'
  BY <1>1, <1>2, <1>3 DEF IInv, TreesFit, Fit, cloneState, Tree
<1>7. TagsFit'
  BY <1>2, <1>3 DEF IInv, TypeOK, TagsFit, cloneState
<1>8. ScriptKeepsItsTree'
  <2>1. \A c \in Clones : head[c] \in DOMAIN commits /\ Tree(head[c])' = Tree(head[c])
    BY <1>2, <1>3 DEF IInv, TypeOK, cloneState
  <2> QED
    BY <1>2, <1>4, <2>1 DEF IInv, ScriptKeepsItsTree, cloneState
<1>9. PublishedIsPushed'
  BY <1>2, <1>3, <1>4 DEF IInv, TypeOK, PublishedIsPushed
<1> QED
  BY <1>3, <1>5, <1>6, <1>7, <1>8, <1>9 DEF IInv

LEMMA ResetStep == ASSUME IInv, NEW c \in Clones, Reset(c) PROVE IInv'
<1>1. /\ branch \in DOMAIN commits /\ Tree(branch) \in Trees /\ Whole(Tree(branch))
      /\ branch \in Past(branch)
  <2>1. commits[branch] \in Commits
    BY DEF IInv, TypeOK
  <2> QED
    BY <2>1 DEF IInv, TypeOK, TreesFit, HistoriesNest, Tree, Commits
<1>2. /\ UNCHANGED <<commits, branch, tags, step, registry, hasty, faults>>
      /\ approved' = approved \ {c} /\ step[c] = "idle"
      /\ head' = [head EXCEPT ![c] = branch]
      /\ index' = [index EXCEPT ![c] = Tree(branch)]
      /\ work' = [work EXCEPT ![c] = Tree(branch)]
      /\ local' = [local EXCEPT ![c] = [v \in Versions |->
           IF local[c][v] = None /\ tags[v] \in Past(branch) THEN tags[v]
                                                             ELSE local[c][v]]]
  BY DEF Reset, remoteState
<1>3. /\ local'[c] \in [Versions -> {None} \union DOMAIN commits]
      /\ \A v \in Versions : local'[c][v] \in {tags[v], local[c][v]}
      /\ \A d \in Clones : d # c => local'[d] = local[d]
      /\ local' \in [Clones -> [Versions -> {None} \union DOMAIN commits]]
  <2>1. \A v \in Versions : tags[v] \in {None} \union DOMAIN commits
                            /\ local[c][v] \in {None} \union DOMAIN commits
    BY DEF IInv, TypeOK
  <2>2. local \in [Clones -> [Versions -> {None} \union DOMAIN commits]]
    BY DEF IInv, TypeOK
  <2> QED
    BY <1>2, <2>1, <2>2
<1>4. TypeOK'
  BY <1>1, <1>2, <1>3 DEF IInv, TypeOK
<1>5. HistoriesNest' /\ PublishedIsPushed'
  BY <1>2 DEF IInv, HistoriesNest, PublishedIsPushed, Tree, Past
<1>6. TreesFit' /\ TagsFit'
  <2>1. TreesFit'
    BY <1>1, <1>2, <1>3 DEF IInv, TypeOK, TreesFit, Fit, Tree
  <2>2. TagsFit'
    BY <1>2, <1>3 DEF IInv, TagsFit, Tree
  <2> QED
    BY <2>1, <2>2
<1>7. ScriptKeepsItsTree'
  BY <1>1, <1>2, <1>3 DEF IInv, TypeOK, ScriptKeepsItsTree, Tree, Past
<1> QED
  BY <1>4, <1>5, <1>6, <1>7 DEF IInv

LEMMA PrepareStep == ASSUME IInv, NEW c \in Clones, Prepare(c) PROVE IInv'
<1>1. PICK tree \in Trees :
        /\ work' = [work EXCEPT ![c] = tree]
        /\ Fit(c, tree)
  <2>1. PICK last \in Versions :
          /\ IsLastRelease(c, last)
          /\ \/ /\ last < MaxVersion
                /\ work' = [work EXCEPT ![c] = Prepared(work[c], last + 1)]
             \/ work' = [work EXCEPT ![c] = WithVersion(work[c], last)]
    BY DEF Prepare
  <2>2. work[c] \in Trees
    BY DEF IInv, TypeOK
  <2>3. CASE last < MaxVersion /\ work' = [work EXCEPT ![c] = Prepared(work[c], last + 1)]
    <3>1. last + 1 \in Versions
      BY <2>3, BoundsAssumption DEF Versions
    <3> QED
      BY <2>2, <2>3, <3>1, PreparedFacts DEF Fit
  <2>4. CASE work' = [work EXCEPT ![c] = WithVersion(work[c], last)]
    <3>1. \A w \in Versions : local[c][w] \in {None} \union DOMAIN commits
      BY DEF IInv, TypeOK
    <3>2. 0 \notin DOMAIN commits /\ Past(head[c]) \subseteq DOMAIN commits
      BY DEF IInv, TypeOK, HistoriesNest
    <3>3. local[c][last] # None
      BY <2>1, <3>2 DEF IsLastRelease, None
    <3>4. Fit(c, WithVersion(work[c], last)) /\ WithVersion(work[c], last) \in Trees
      BY <2>2, <3>3, PreparedFacts DEF Fit
    <3> QED
      BY <2>4, <3>4
  <2> QED
    BY <2>1, <2>3, <2>4
<1>2. /\ UNCHANGED <<commits, branch, tags, head, local, index, step, approved,
                     registry, hasty, faults>>
      /\ step[c] = "idle"
  BY DEF Prepare, remoteState
<1>3. TypeOK' /\ TreesFit'
  BY <1>1, <1>2 DEF IInv, TypeOK, TreesFit, Fit, Tree
<1>4. TagsFit' /\ HistoriesNest' /\ PublishedIsPushed'
  BY <1>2 DEF IInv, TagsFit, HistoriesNest, PublishedIsPushed, Tree, Past
<1>5. ScriptKeepsItsTree'
  BY <1>1, <1>2 DEF IInv, TypeOK, ScriptKeepsItsTree, Tree, Past
<1> QED
  BY <1>3, <1>4, <1>5 DEF IInv

LEMMA AddStep == ASSUME IInv, NEW c \in Clones, Add(c) PROVE IInv'
<1>1. /\ UNCHANGED <<commits, branch, tags, head, local, work, registry, hasty, faults>>
      /\ index' = [index EXCEPT ![c] = work[c]]
      /\ approved' = approved \ {c}
      /\ step' = [step EXCEPT ![c] = "commit"]
  BY DEF Add, remoteState, Goto
<1>2. TypeOK' /\ TreesFit'
  BY <1>1 DEF IInv, TypeOK, TreesFit, Fit, Tree, Steps
<1>3. TagsFit' /\ HistoriesNest' /\ PublishedIsPushed'
  BY <1>1 DEF IInv, TagsFit, HistoriesNest, PublishedIsPushed, Tree, Past
<1>4. ScriptKeepsItsTree'
  BY <1>1 DEF IInv, TypeOK, ScriptKeepsItsTree, Tree, Past
<1> QED
  BY <1>2, <1>3, <1>4 DEF IInv

\* A step of the script that only ends it.
LEMMA OnlyTheScriptEnds ==
  ASSUME IInv, NEW c \in Clones, Goto(c, "idle"), faults' \in 0..MaxFaults,
         UNCHANGED <<commits, remoteState, cloneState, approved, registry, hasty>>
  PROVE  IInv'
<1>1. step' = [step EXCEPT ![c] = "idle"]
  BY DEF Goto
<1>2. TypeOK' /\ TreesFit'
  BY <1>1 DEF IInv, TypeOK, TreesFit, Fit, Tree, Steps, remoteState, cloneState
<1>3. TagsFit' /\ HistoriesNest' /\ PublishedIsPushed'
  BY DEF IInv, TagsFit, HistoriesNest, PublishedIsPushed, Tree, Past, remoteState, cloneState
<1>4. ScriptKeepsItsTree'
  BY <1>1 DEF IInv, TypeOK, ScriptKeepsItsTree, Tree, Past, remoteState, cloneState
<1> QED
  BY <1>2, <1>3, <1>4 DEF IInv

LEMMA FailureType ==
  ASSUME IInv, NEW c, NEW f, Stops(c) \/ Fails(c, f)
  PROVE  Goto(c, "idle") /\ faults' \in 0..MaxFaults
<1>1. CASE Stops(c)
  BY <1>1 DEF Stops, IInv, TypeOK
<1>2. CASE Fails(c, f)
  BY <1>2, SpendType DEF Fails, IInv
<1> QED
  BY <1>1, <1>2

LEMMA CommitStep == ASSUME IInv, NEW c \in Clones, CommitRelease(c) PROVE IInv'
<1>1. /\ step[c] = "commit" /\ work[c] = index[c] /\ c \notin approved
      /\ UNCHANGED <<remoteState, local, index, work, approved, registry, hasty>>
  BY DEF CommitRelease, IInv, ScriptKeepsItsTree
<1>2. CASE /\ commits' = Commit(head[c], index[c], FALSE)
           /\ head' = [head EXCEPT ![c] = NewId]
           /\ Goto(c, "tag") /\ UNCHANGED faults
  <2>1. head[c] \in DOMAIN commits /\ index[c] \in Trees
    BY DEF IInv, TypeOK
  <2>2. /\ commits' \in Seq(Commits)
        /\ NewId \in DOMAIN commits' /\ DOMAIN commits \subseteq DOMAIN commits'
        /\ \A id \in DOMAIN commits : Tree(id)' = Tree(id) /\ Past(id)' = Past(id)
        /\ commits'[NewId].tree = index[c]
        /\ HistoriesNest'
    BY <1>2, <2>1, HistoryGrows
  <2>3. /\ head \in [Clones -> DOMAIN commits']
        /\ tags \in [Versions -> {None} \union DOMAIN commits']
        /\ local \in [Clones -> [Versions -> {None} \union DOMAIN commits']]
        /\ registry \in [Artifacts -> [Versions -> {None} \union DOMAIN commits']]
    <3>1. /\ head \in [Clones -> DOMAIN commits]
          /\ tags \in [Versions -> {None} \union DOMAIN commits]
          /\ local \in [Clones -> [Versions -> {None} \union DOMAIN commits]]
          /\ registry \in [Artifacts -> [Versions -> {None} \union DOMAIN commits]]
      BY DEF IInv, TypeOK
    <3> QED
      BY <2>2, <3>1, MoreCommits
  <2>4. step' = [step EXCEPT ![c] = "tag"]
    BY <1>2 DEF Goto
  <2>5. TypeOK'
    BY <1>1, <1>2, <2>2, <2>3, <2>4 DEF IInv, TypeOK, Steps, remoteState
  <2>6. TreesFit'
    BY <1>1, <2>2 DEF IInv, TypeOK, TreesFit, Fit, remoteState
  <2>7. TagsFit'
    BY <1>1, <2>2 DEF IInv, TypeOK, TagsFit, remoteState
  <2>8. ScriptKeepsItsTree'
    <3> SUFFICES ASSUME NEW d \in Clones
                 PROVE  /\ step'[d] # "idle" => work'[d] = index'[d]
                        /\ step'[d] \in {"tag", "push", "chart", "image"} =>
                             index'[d] = Tree(head[d])'
                        /\ step'[d] \in {"push", "chart", "image"} =>
                             local'[d][work'[d].version] = head'[d]
                        /\ step'[d] \in {"chart", "image"} =>
                             d \in approved' \/ head'[d] \in hasty'
                        /\ d \in approved' => head'[d] \in Past(branch)'
                        /\ step'[d] = "commit" => d \notin approved'
      BY DEF ScriptKeepsItsTree
    <3>1. CASE d = c
      <4>1. head'[c] = NewId /\ Tree(head[c])' = index[c] /\ step'[c] = "tag"
        BY <1>2, <2>2, <2>4 DEF IInv, TypeOK, Tree
      <4> QED
        BY <1>1, <3>1, <4>1
    <3>2. CASE d # c
      <4>1. head'[d] = head[d] /\ step'[d] = step[d] /\ head[d] \in DOMAIN commits
        BY <1>2, <2>4, <3>2 DEF IInv, TypeOK
      <4>2. Tree(head[d])' = Tree(head[d]) /\ Past(branch)' = Past(branch)
        BY <1>1, <2>2, <4>1 DEF IInv, TypeOK, remoteState
      <4> QED
        BY <1>1, <4>1, <4>2 DEF IInv, ScriptKeepsItsTree
    <3> QED
      BY <3>1, <3>2
  <2>9. PublishedIsPushed'
    BY <1>1, <2>2 DEF IInv, TypeOK, PublishedIsPushed, remoteState
  <2> QED
    BY <2>2, <2>5, <2>6, <2>7, <2>8, <2>9 DEF IInv
<1>3. CASE (Stops(c) \/ Fails(c, "sign")) /\ UNCHANGED <<commits, head>>
  BY <1>1, <1>3, FailureType, OnlyTheScriptEnds DEF cloneState
<1> QED
  BY <1>2, <1>3 DEF CommitRelease

LEMMA CreateTagStep == ASSUME IInv, NEW c \in Clones, CreateTag(c) PROVE IInv'
<1> DEFINE v == work[c].version
<1>1. /\ step[c] = "tag" /\ work[c] = index[c] /\ index[c] = Tree(head[c])
      /\ UNCHANGED <<commits, remoteState, head, index, work, approved, registry, hasty>>
  BY DEF CreateTag, IInv, ScriptKeepsItsTree
<1>2. v \in Versions /\ head[c] \in DOMAIN commits
  BY DEF IInv, TypeOK, Trees
<1>3. CASE /\ local[c][v] = None /\ local' = [local EXCEPT ![c][v] = head[c]]
           /\ Goto(c, "push") /\ UNCHANGED faults
  <2>1. local \in [Clones -> [Versions -> {None} \union DOMAIN commits]]
    BY DEF IInv, TypeOK
  <2>2. /\ local' \in [Clones -> [Versions -> {None} \union DOMAIN commits]]
        /\ \A d \in Clones, w \in Versions :
             local'[d][w] = IF d = c /\ w = v THEN head[c] ELSE local[d][w]
    BY <1>2, <1>3, <2>1
  <2>3. step' = [step EXCEPT ![c] = "push"]
    BY <1>3 DEF Goto
  <2>4. head[c] # None /\ IsRelease(Tree(head[c]), v)
    <3>1. Fit(c, index[c]) /\ index[c].version = v
      BY <1>1 DEF IInv, TreesFit
    <3>2. head[c] # None
      BY <1>2 DEF IInv, TypeOK, None
    <3> QED
      BY <1>1, <1>3, <3>1, <3>2 DEF Fit, Whole
  <2>5. TypeOK'
    BY <1>1, <1>3, <2>2, <2>3 DEF IInv, TypeOK, Steps, remoteState
  <2>6. TreesFit'
    <3>1. \A d \in Clones : work[d].version \in Versions /\ index[d].version \in Versions
      BY DEF IInv, TypeOK, Trees
    <3> QED
      BY <1>1, <2>2, <2>4, <3>1 DEF IInv, TreesFit, Fit, Tree, Whole, remoteState
  <2>7. HistoriesNest' /\ PublishedIsPushed'
    BY <1>1 DEF IInv, HistoriesNest, PublishedIsPushed, Tree, Past, remoteState
  <2>8. TagsFit'
    BY <1>1, <2>2, <2>4 DEF IInv, TagsFit, Tree, remoteState
  <2>9. ScriptKeepsItsTree'
    <3>1. \A d \in Clones : work[d].version \in Versions
      BY DEF IInv, TypeOK, Trees
    <3> QED
      BY <1>1, <1>2, <2>2, <2>3, <3>1
      DEF IInv, TypeOK, ScriptKeepsItsTree, Tree, Past, remoteState
  <2> QED
    BY <2>5, <2>6, <2>7, <2>8, <2>9 DEF IInv
<1>4. CASE (Stops(c) \/ Fails(c, "sign")) /\ UNCHANGED local
  BY <1>1, <1>4, FailureType, OnlyTheScriptEnds DEF cloneState
<1> QED
  BY <1>3, <1>4 DEF CreateTag

\* What has reached the remote's branch stays part of it.
LEMMA PushStep == ASSUME IInv, NEW c \in Clones, Push(c) PROVE IInv'
<1> DEFINE accepted == branch \in Past(head[c])
           arrives == /\ branch' = IF accepted THEN head[c] ELSE branch
                      /\ tags' = FollowTags(c)
<1>1. /\ step[c] = "push" /\ UNCHANGED <<commits, cloneState, registry, hasty>>
      /\ Stops(c) \/ Fails(c, "push")
      /\ arrives \/ UNCHANGED <<branch, tags>>
      /\ (approved' = approved \union {c} /\ arrives /\ accepted) \/ approved' = approved
  BY DEF Push, remoteState
<1>2. step' = [step EXCEPT ![c] = "idle"] /\ faults' \in 0..MaxFaults
  BY <1>1, FailureType DEF Goto
<1>3. head[c] \in DOMAIN commits /\ head[c] \in Past(head[c]) /\ branch \in DOMAIN commits
  BY DEF IInv, TypeOK, HistoriesNest
<1>4. branch' \in {head[c], branch} /\ Past(branch) \subseteq Past(branch)'
  <2>1. accepted => Past(branch) \subseteq Past(head[c])
    BY <1>3 DEF IInv, HistoriesNest
  <2> QED
    BY <1>1, <2>1 DEF Past
<1>5. /\ tags' \in [Versions -> {None} \union DOMAIN commits]
      /\ \A w \in Versions : tags'[w] \in {tags[w], local[c][w]}
  <2>1. \A w \in Versions : tags[w] \in {None} \union DOMAIN commits
                            /\ local[c][w] \in {None} \union DOMAIN commits
    BY DEF IInv, TypeOK
  <2>2. tags \in [Versions -> {None} \union DOMAIN commits]
    BY DEF IInv, TypeOK
  <2> QED
    BY <1>1, <2>1, <2>2 DEF FollowTags
<1>6. TypeOK' /\ TreesFit'
  <2>1. TypeOK'
    BY <1>1, <1>2, <1>3, <1>4, <1>5 DEF IInv, TypeOK, Steps, cloneState
  <2>2. Whole(Tree(head[c]))
    <3>1. work[c].version \in Versions /\ local[c][work[c].version] = head[c]
          /\ head[c] # None
      BY <1>1, <1>3 DEF IInv, TypeOK, Trees, ScriptKeepsItsTree, None
    <3> QED
      BY <3>1 DEF IInv, TagsFit, Whole, IsRelease
  <2>3. TreesFit'
    BY <1>1, <1>4, <2>2 DEF IInv, TreesFit, Fit, Tree, cloneState
  <2> QED
    BY <2>1, <2>3
<1>7. TagsFit'
  BY <1>1, <1>5 DEF IInv, TagsFit, Tree, cloneState
<1>8. HistoriesNest' /\ PublishedIsPushed'
  BY <1>1, <1>4 DEF IInv, HistoriesNest, PublishedIsPushed, Tree, Past, cloneState
<1>9. ScriptKeepsItsTree'
  <2>1. \A d \in approved' : head[d] \in Past(branch)'
    <3>1. \A d \in approved : head[d] \in Past(branch)
      BY DEF IInv, TypeOK, ScriptKeepsItsTree
    <3>2. approved' # approved => approved' = approved \union {c} /\ branch' = head[c]
      BY <1>1
    <3>3. branch' = head[c] => head[c] \in Past(branch)'
      BY <1>1, <1>3 DEF Past
    <3> QED
      BY <1>4, <3>1, <3>2, <3>3
  <2>2. /\ step'[c] = "idle" /\ \A d \in Clones : d # c => step'[d] = step[d]
        /\ \A d \in Clones : d # c => (d \in approved' <=> d \in approved)
        /\ approved \subseteq approved'
    BY <1>1, <1>2 DEF IInv, TypeOK
  <2> QED
    BY <1>1, <2>1, <2>2 DEF IInv, ScriptKeepsItsTree, Tree, cloneState
<1> QED
  BY <1>6, <1>7, <1>8, <1>9 DEF IInv

\* One artifact goes out, from a commit that carries its release: of the
\* branch, or of a clone that had not approved.
LEMMA Publishes ==
  ASSUME IInv, NEW c \in Clones, NEW artifact \in Artifacts, NEW v \in Versions,
         NEW next \in {"idle", "chart", "image"},
         work[c] = index[c], index[c] = Tree(head[c]),
         v = work[c].version, local[c][v] = head[c],
         PublishFrom(c, artifact, v), Goto(c, next),
         hasty' \in {hasty, hasty \union {head[c]}}, c \in approved \/ head[c] \in hasty',
         UNCHANGED <<commits, remoteState, cloneState, approved, faults>>
  PROVE  IInv'
<1>1. /\ step' = [step EXCEPT ![c] = next]
      /\ registry' = [registry EXCEPT ![artifact][v] = head[c]]
      /\ UNCHANGED <<commits, branch, tags, head, local, index, work, approved, faults>>
  BY DEF Goto, PublishFrom, remoteState, cloneState
<1>2. head[c] \in DOMAIN commits /\ IsRelease(Tree(head[c]), v)
  <2>1. head[c] \in DOMAIN commits /\ head[c] # None
    BY DEF IInv, TypeOK, None
  <2> QED
    BY <2>1 DEF IInv, TagsFit
<1>3. head[c] \in Past(branch) \union hasty'
  BY DEF IInv, ScriptKeepsItsTree
<1>4. /\ registry' \in [Artifacts -> [Versions -> {None} \union DOMAIN commits]]
      /\ \A a \in Artifacts, w \in Versions : registry'[a][w] \in {registry[a][w], head[c]}
      /\ \A a \in Artifacts, w \in Versions :
           registry'[a][w] # registry[a][w] => w = v
  <2>1. registry \in [Artifacts -> [Versions -> {None} \union DOMAIN commits]]
    BY DEF IInv, TypeOK
  <2> QED
    BY <1>1, <1>2, <2>1
<1>5. TypeOK' /\ TreesFit'
  <2>1. TypeOK'
    BY <1>1, <1>2, <1>4 DEF IInv, TypeOK, Steps
  <2>2. TreesFit'
    BY <1>1 DEF IInv, TreesFit, Fit, Tree
  <2> QED
    BY <2>1, <2>2
<1>6. TagsFit' /\ HistoriesNest'
  BY <1>1 DEF IInv, TagsFit, HistoriesNest, Tree, Past
<1>7. ScriptKeepsItsTree'
  BY <1>1 DEF IInv, TypeOK, ScriptKeepsItsTree, Tree, Past
<1>8. PublishedIsPushed'
  BY <1>1, <1>2, <1>3, <1>4 DEF IInv, PublishedIsPushed, Tree, Past
<1> QED
  BY <1>5, <1>6, <1>7, <1>8 DEF IInv

\* Where publish runs, the clone has a tag of its HEAD for its version.
LEMMA PublishingFacts ==
  ASSUME IInv, NEW c \in Clones, GoReleaser(c) \/ PublishChart(c) \/ ImageIndex(c)
  PROVE  /\ work[c] = index[c] /\ index[c] = Tree(head[c])
         /\ local[c][work[c].version] = head[c]
         /\ work[c].version \in Versions /\ work[c].chart = work[c].version
<1>1. /\ work[c] = index[c] /\ index[c] = Tree(head[c])
      /\ local[c][work[c].version] = head[c]
  BY DEF GoReleaser, Clean, PublishChart, ImageIndex, IInv, ScriptKeepsItsTree
<1>2. work[c].version \in Versions /\ head[c] # None
  BY DEF IInv, TypeOK, Trees, None
<1> QED
  BY <1>1, <1>2 DEF IInv, TagsFit, IsRelease

LEMMA PublishStep ==
  ASSUME IInv, NEW c \in Clones, GoReleaser(c) \/ PublishChart(c) \/ ImageIndex(c)
  PROVE  IInv'
<1>1. /\ work[c] = index[c] /\ index[c] = Tree(head[c])
      /\ local[c][work[c].version] = head[c]
      /\ work[c].version \in Versions /\ work[c].chart = work[c].version
  BY PublishingFacts
<1>2. {"release", "chart", "image"} \subseteq Artifacts
  BY DEF Artifacts
<1>3. step[c] \in {"chart", "image"} => c \in approved \/ head[c] \in hasty
  BY DEF IInv, ScriptKeepsItsTree
<1>4. CASE GoReleaser(c)
  <2>1. /\ PublishFrom(c, "release", work[c].version) /\ Goto(c, "chart")
        /\ hasty' \in {hasty, hasty \union {head[c]}}
        /\ c \in approved \/ head[c] \in hasty'
        /\ UNCHANGED <<commits, remoteState, cloneState, approved, faults>>
    BY <1>4 DEF GoReleaser
  <2> QED
    BY <1>1, <1>2, <2>1, Publishes
<1>5. CASE PublishChart(c)
  <2>1. CASE PublishFrom(c, "chart", work[c].chart) /\ Goto(c, "image") /\ UNCHANGED faults
    BY <1>1, <1>2, <1>3, <1>5, <2>1, Publishes DEF PublishChart
  <2>2. CASE Fails(c, "publish") /\ UNCHANGED registry
    BY <1>5, <2>2, FailureType, OnlyTheScriptEnds DEF PublishChart
  <2> QED
    BY <1>5, <2>1, <2>2 DEF PublishChart
<1>6. CASE ImageIndex(c)
  <2>1. CASE PublishFrom(c, "image", work[c].version) /\ Stops(c)
    BY <1>1, <1>2, <1>3, <1>6, <2>1, Publishes DEF ImageIndex, Stops
  <2>2. CASE Fails(c, "publish") /\ UNCHANGED registry
    BY <1>6, <2>2, FailureType, OnlyTheScriptEnds DEF ImageIndex
  <2> QED
    BY <1>6, <2>1, <2>2 DEF ImageIndex
<1> QED
  BY <1>4, <1>5, <1>6

LEMMA NextInv == IInv /\ [Next]_vars => IInv'
<1> SUFFICES ASSUME IInv, [Next]_vars PROVE IInv'
  OBVIOUS
<1>1. CASE UNCHANGED vars
  <2>1. TypeOK' /\ TreesFit' /\ TagsFit'
    BY <1>1 DEF vars, remoteState, cloneState, IInv, TypeOK, TreesFit, Fit, TagsFit, Tree
  <2>2. HistoriesNest' /\ ScriptKeepsItsTree' /\ PublishedIsPushed'
    BY <1>1 DEF vars, remoteState, cloneState, IInv, HistoriesNest, ScriptKeepsItsTree,
                PublishedIsPushed, Tree, Past
  <2> QED
    BY <2>1, <2>2 DEF IInv
<1>2. CASE Contribute
  BY <1>2, ContributeStep
<1>3. ASSUME NEW c \in Clones,
             \/ Reset(c) \/ Prepare(c)
             \/ Add(c) \/ CommitRelease(c) \/ CreateTag(c) \/ Push(c)
             \/ GoReleaser(c) \/ PublishChart(c) \/ ImageIndex(c)
      PROVE  IInv'
  BY <1>3, ResetStep, PrepareStep, AddStep, CommitStep, CreateTagStep, PushStep, PublishStep
<1> QED
  BY <1>1, <1>2, <1>3 DEF Next

-----------------------------------------------------------------------------
(* The order of the artifacts. *)

\* What a publish that is under way has published already.
PublishingInOrder ==
  \A c \in Clones :
    /\ step[c] \in {"chart", "image"} => registry["release"][work[c].version] # None
    /\ step[c] = "image" => registry["chart"][work[c].version] # None

InOrder == PublishedInOrder /\ PublishingInOrder

\* Outside publish no artifact moves, and the tree of a clone only while no
\* script runs in it.
LEMMA OtherSteps ==
  ASSUME IInv, NEW c \in Clones,
         \/ Reset(c) \/ Prepare(c)
         \/ Add(c) \/ CommitRelease(c) \/ CreateTag(c) \/ Push(c)
  PROVE  /\ UNCHANGED registry
         /\ \A d \in Clones : step'[d] \in {"chart", "image"} =>
              step'[d] = step[d] /\ work'[d] = work[d]
<1>1. work \in [Clones -> Trees] /\ step \in [Clones -> Steps]
  BY DEF IInv, TypeOK
<1>2. CASE Reset(c)
  BY <1>1, <1>2 DEF Reset
<1>3. CASE Prepare(c)
  BY <1>1, <1>3 DEF Prepare
<1>4. CASE Add(c)
  BY <1>1, <1>4 DEF Add, Goto
<1>5. CASE CommitRelease(c)
  BY <1>1, <1>5 DEF CommitRelease, Goto, Stops, Fails
<1>6. CASE CreateTag(c)
  BY <1>1, <1>6 DEF CreateTag, Goto, Stops, Fails
<1>7. CASE Push(c)
  BY <1>1, <1>7 DEF Push, cloneState, Goto, Stops, Fails
<1> QED
  BY <1>2, <1>3, <1>4, <1>5, <1>6, <1>7

\* A step of publish records one artifact more, of the version it publishes,
\* or ends it.
LEMMA PublishMoves ==
  ASSUME IInv, NEW c \in Clones, GoReleaser(c) \/ PublishChart(c) \/ ImageIndex(c)
  PROVE  /\ work' = work
         /\ \/ UNCHANGED registry /\ Goto(c, "idle")
            \/ /\ step[c] = "idle" /\ Goto(c, "chart")
               /\ PublishFrom(c, "release", work[c].version)
            \/ /\ step[c] = "chart" /\ Goto(c, "image")
               /\ PublishFrom(c, "chart", work[c].version)
            \/ /\ step[c] = "image" /\ Goto(c, "idle")
               /\ PublishFrom(c, "image", work[c].version)
<1>1. work[c].chart = work[c].version
  BY PublishingFacts
<1>2. CASE GoReleaser(c)
  BY <1>2 DEF GoReleaser, cloneState
<1>3. CASE PublishChart(c)
  BY <1>1, <1>3 DEF PublishChart, cloneState, Fails
<1>4. CASE ImageIndex(c)
  BY <1>4 DEF ImageIndex, cloneState, Stops, Fails
<1> QED
  BY <1>2, <1>3, <1>4

\* Recording an artifact that follows on the ones before it keeps the order.
LEMMA PublishKeepsOrder ==
  ASSUME IInv, InOrder, NEW c \in Clones, NEW artifact \in Artifacts,
         NEW next \in {"idle", "chart", "image"}, Goto(c, next), work' = work,
         PublishFrom(c, artifact, work[c].version),
         \/ artifact = "release" /\ next = "chart"
         \/ artifact = "chart" /\ step[c] = "chart" /\ next = "image"
         \/ artifact = "image" /\ step[c] = "image" /\ next = "idle"
  PROVE  InOrder'
<1> DEFINE v == work[c].version
<1>1. head[c] # None /\ v \in Versions
  BY DEF IInv, TypeOK, Trees, None
<1>2. \A a \in Artifacts, w \in Versions :
        registry'[a][w] = IF a = artifact /\ w = v THEN head[c] ELSE registry[a][w]
  BY <1>1 DEF PublishFrom, IInv, TypeOK
<1>3. \A d \in Clones : step'[d] = (IF d = c THEN next ELSE step[d])
                         /\ work'[d] = work[d] /\ work[d].version \in Versions
  BY DEF Goto, IInv, TypeOK, Trees
<1>4. /\ artifact \in {"chart", "image"} => registry["release"][v] # None
      /\ artifact = "image" => registry["chart"][v] # None
  BY DEF InOrder, PublishingInOrder
<1>5. PublishedInOrder'
  BY <1>1, <1>2, <1>4 DEF InOrder, PublishedInOrder, Artifacts
<1>6. PublishingInOrder'
  <2> SUFFICES ASSUME NEW d \in Clones
               PROVE  /\ step'[d] \in {"chart", "image"} =>
                           registry'["release"][work[d].version] # None
                      /\ step'[d] = "image" => registry'["chart"][work[d].version] # None
    BY <1>3 DEF PublishingInOrder
  <2>1. CASE d = c
    BY <1>1, <1>2, <1>3, <1>4, <2>1 DEF Artifacts
  <2>2. CASE d # c
    BY <1>1, <1>2, <1>3, <2>2 DEF InOrder, PublishingInOrder, Artifacts
  <2> QED
    BY <2>1, <2>2
<1> QED
  BY <1>5, <1>6 DEF InOrder

LEMMA NextInOrder == IInv /\ InOrder /\ [Next]_vars => InOrder'
<1> SUFFICES ASSUME IInv, InOrder, [Next]_vars PROVE InOrder'
  OBVIOUS
<1>1. CASE /\ UNCHANGED registry
           /\ \A d \in Clones : step'[d] \in {"chart", "image"} =>
                step'[d] = step[d] /\ work'[d] = work[d]
  BY <1>1 DEF InOrder, PublishedInOrder, PublishingInOrder
<1>2. CASE UNCHANGED vars
  BY <1>1, <1>2 DEF vars, cloneState
<1>3. CASE Contribute
  <2>1. UNCHANGED <<registry, step, work>>
    BY <1>3 DEF Contribute, cloneState
  <2> QED
    BY <1>1, <2>1
<1>4. ASSUME NEW c \in Clones,
             \/ Reset(c) \/ Prepare(c)
             \/ Add(c) \/ CommitRelease(c) \/ CreateTag(c) \/ Push(c)
      PROVE  InOrder'
  BY <1>1, <1>4, OtherSteps
<1>5. ASSUME NEW c \in Clones, GoReleaser(c) \/ PublishChart(c) \/ ImageIndex(c)
      PROVE  InOrder'
  <2>1. CASE UNCHANGED registry /\ Goto(c, "idle")
    <3>1. work' = work /\ \A d \in Clones : step'[d] \in {"idle", step[d]}
      BY <1>5, <2>1, PublishMoves DEF Goto, IInv, TypeOK
    <3> QED
      BY <1>1, <2>1, <3>1
  <2>2. CASE ~(UNCHANGED registry /\ Goto(c, "idle"))
    BY <1>5, <2>2, PublishMoves, PublishKeepsOrder DEF Artifacts
  <2> QED
    BY <2>1, <2>2
<1> QED
  BY <1>2, <1>3, <1>4, <1>5 DEF Next

-----------------------------------------------------------------------------
(* The theorems. *)

LEMMA Invariance == Spec => []IInv
  BY InitInv, NextInv, PTL DEF Spec

\* Whatever is interleaved and whatever fails, the state of git, of the clones
\* and of the registry stays well formed (release.sh:149-227).
THEOREM TypeCorrect == Spec => []TypeOK
<1>1. IInv => TypeOK
  BY DEF IInv
<1> QED
  BY <1>1, Invariance, PTL

\* A release tag of the remote names a commit whose files are all those of that
\* release, for any number of clones, releases, commits and failures
\* (release.sh:181-197, release.go:41-65).
THEOREM TagsCarryTheirRelease == Spec => []TaggedIsPrepared
<1>1. IInv => TaggedIsPrepared
  BY DEF IInv, TagsFit, TaggedIsPrepared
<1> QED
  BY <1>1, Invariance, PTL

\* Whatever is published stays part of the remote's branch and carries the
\* release it was published as (release.sh:196-219).
THEOREM NothingUnpushedIsPublished == Spec => []PublishedIsPushed
<1>1. IInv => PublishedIsPushed
  BY DEF IInv
<1> QED
  BY <1>1, Invariance, PTL

\* What is published last of a version vouches for the rest: image, then chart,
\* then release, wherever a publish stops and is run again (release.sh:204-219).
THEOREM ArtifactsComeInOrder == Spec => []PublishedInOrder
<1>1. Init => InOrder
  BY BoundsAssumption DEF Init, InOrder, PublishedInOrder, PublishingInOrder, Artifacts
<1>2. InOrder => PublishedInOrder
  BY DEF InOrder
<1> QED
  BY <1>1, <1>2, NextInOrder, Invariance, PTL DEF Spec
=============================================================================
