# Verification of the data bottle CSI driver

csi-bottle is a CSI driver that makes data bottles (OCI artifacts) available to
the pods of a node as volumes. This directory holds TLA+ models of it, the TLC
configurations that check them on small instances, and proofs for TLAPS of what
holds for every instance. Line numbers refer to `src/pkg/data/` unless a path is
given.

## The system

| Component | Source | State it keeps | Operations |
|---|---|---|---|
| Node service | `node.go` | none of its own; it changes the node: staging directories, target directories, the mount table, the blob cache | NodeStageVolume, NodePublishVolume, NodeUnpublishVolume, NodeUnstageVolume, (NodeGetInfo, NodeGetCapabilities) |
| Controller service | `controller.go` | a map from volume IDs to names, in memory | CreateVolume, DeleteVolume, ValidateVolumeCapabilities, (ControllerGetCapabilities) |
| Identity service | `identity.go` | none | GetPluginInfo, Probe, GetPluginCapabilities |
| Driver | `driver.go` | the listener, three goroutines, the context of their errgroup | Run: take over the socket, listen, start pruner, metrics server and gRPC server, wait |
| Event recorder, metrics | `event.go`, `node.go:93` | a counter | events for pulling, pulled, failed |
| Command line | `cmd/csi-bottle/` | flags | serve, checkpath |
| Release script | `bin/release.sh`, `.dagger/release.go`, `.dagger/helm.go` | none of its own; it changes a clone, the remote's branch and tags, the registry | prepare, approve, publish |
| Build pipeline | `.dagger/` | none | ImageIndex, as a step of publish |
| Deployment | `charts/`, `provisioner/` | none | - |

How they interact. The kubelet calls the node service over the gRPC socket that
`Driver.Run` listens on; the external provisioner, if deployed, calls the
controller service. Each call runs in a goroutine of its own. The code takes no
lock and keeps no record of the calls in progress, so calls for one volume may
run side by side; what ties them together is the file system and the mount
table. The pruner deletes from the blob cache that pulls of the node service use.
Pulling, resolving, the cache, telemetry and the credential store are libraries
that are not in the repository.

Two flows (`node.go:148-162`). A persistent volume is staged once for the node
(pulled into the staging path of the request) and published for each pod
(bind-mounted from there), then unpublished for each pod and unstaged. An
ephemeral volume belongs to one pod: its publish call stages it first, below the
driver's own directory, and its unpublish call removes that directory too.

### What is hard, and what makes each part correct

Node service. Check and mount are separate steps, and mounting itself is two
system calls (a bind, which ignores the options, and a remount with them). Every
step can fail and leave what the earlier ones did; the orchestrator repeats the
call and the handler must go on from whatever it finds. The kubelet waits for a
bounded time: it may make the next call while the handler of the last one still
runs. Driver and node restart between any two steps. Correct means: a running pod
sees the whole bottle it asked for, as long as it runs; a reply that says OK is
true; a pod that waits for its bottle gets it; and nothing is left behind.

Controller service. Calls are repeated after lost replies, go to whatever
instance leads, and the map is lost on a restart. Correct means: no call costs
another claim its volume, and deleting always succeeds in the end.

Driver. The socket of the last process may still be there; the goroutines end
separately and the group waits for all three. Correct means: a driver that serves
is reachable at its socket, pruning failures stop nothing, and after every end of
the process a later one serves and prunes.

Release script. prepare writes a release into the working tree, approve commits,
tags and pushes it, publish uploads what is checked out. Each is a chain of
commands that ends at the first failure, keeps no record of how far it came, and
may run in several clones at once. Correct means: a release tag names a commit
whose files are those of the release, and what is published is, for good, part of
the branch.

Floating tags. Versions are published from several branches in any order, by
people who do not wait for each other, and a publish that failed is run again.
The script reads the tags of the registry once and writes up to three of them
later. Correct means: vX.Y, vX and latest point to the newest release they stand
for.

`PROJECT.json` lists the hazards one by one, each at its line and with the
properties that would show it going wrong.

## Modules

| Module | What it is |
|---|---|
| `NodeServer` | the four calls of the node service as handlers that interleave, under an arbitrary orchestrator |
| `NodeReplies` | `NodeServer` with a history of the calls that overlapped: what an OK means |
| `Kubelet` | `NodeServer` driven by a kubelet: pods, retries, timeouts, restarts |
| `BottleVolumes` | what the node side promises to pods, with the proof that its rules keep the promise; `Kubelet` is checked to implement it |
| `Controller` | the controller service on several instances, with a provisioner |
| `Driver` | `Driver.Run` and the process around it |
| `Release` | prepare, approve and publish of `bin/release.sh` in several clones, over git and the registry |
| `ReleaseTags` | the floating tags that the end of publish moves |
| `NodeServerProofs`, `NodeRepliesProofs`, `KubeletProofs`, `ControllerProofs`, `DriverProofs`, `ReleaseProofs`, `ReleaseTagsProofs` | theorems about the module each is named after |
| `MCNodeServer`, `MCKubelet`, `MCController`, `MCRelease`, `MCReleaseTags` | constants for TLC |

`NodeReplies` and `Kubelet` extend `NodeServer`, one with any orchestrator and one
with the kubelet; `Kubelet` implements `BottleVolumes`; `Release` ends where
`ReleaseTags` begins, with the image under its full tag.

### NodeServer

State. `dir[v]` is the staging directory of a volume: absent, partial or
complete. `target` is the set of target paths that exist, and `mnt[t]` the stack
of mounts on one, the visible one first; a mount records its options and whether
its source directory is still linked (`live`). `call[r]` and `pc[r]` are the
request and the next step of the handler `r`. `disturbed` holds the handlers
whose pull shared its directory with another writer, `cancelled` those whose
client no longer waits.

Steps. One action for every step of a handler that reads or changes what others
can see:

| Actions | Code |
|---|---|
| Arrive, Refuse, Reply, Cancel | argument checks at the head of each handler, `errHandler` (driver.go:71-81), the context of the call |
| LoadCredentials, Resolve, BeginPull, EndPull, Notify | stageVolume (164-280) |
| CheckMount, MakeTarget, Bind, Remount | NodePublishVolume from 342 on |
| CheckUnmount, Unmount, RemoveTarget, StatStaging | NodeUnpublishVolume (396-424) |
| RemoveStaging | the RemoveAll of 427 (unpublish) and of 453 (unstage) |
| Crash, Reboot | the driver's container or the node restarts, and with either the container's own file system (`Inside`) goes |

Modelled by what they do outside the repository: the pull (creates the
directory, works on what it finds, leaves what it wrote when it fails; alone in
its directory it completes the bottle, otherwise the outcome is open); the
kernel's mounts (they stack; a bind mount pins its source, and shows an empty
directory once that is removed; RemoveAll of a mounted path empties what it
shows, unless read-only, and fails on the mount point); Mount of k8s.io/utils/mount (node.go:23)
(bind, then remount). `RepullRewrites` says whether a pull into a complete
directory touches its files. The library is not at hand: the node run assumes that
it does, the runs about running pods state as their assumption that it does not.

Left out: how credentials and selectors are parsed (they fail before anything is
done), events, the counter, log lines, the cache (an optimisation of the pull).

### NodeReplies

The driver remembers nothing between two calls: what an OK says rests on what that
one call looks at and on the errors it passes on. `overlapped` is a history
variable: the calls in progress that have shared their volume with another one. It
constrains no step (`NoteOverlaps` is added to every step of `NodeServer`). Of the
others, `RepliesAloneAreTrue` says that their OK is true of the node, whatever calls
that raced, failed or were cut short had left there: stacked mounts, half a bottle,
a mount of a removed directory, a target that is gone. The one exception is the
ephemeral staging directory once Stat has failed (424).

### Kubelet and BottleVolumes

The kubelet is not part of the repository. It is modelled from the two flows, from
the retries the handlers are written for, and from one call at a time for a
volume. `pod[t]` is none, wanted, running or gone; `known[t]` and `device[v]` are
what the kubelet believes of a target and of a staging directory: done, undone, or
uncertain from the moment of a call until a reply says OK. The kubelet waits for a
bounded time (Abandon), and a restart forgets the calls in flight (KubeletRestart):
the handler of such a call goes on and overlaps the ones that follow. `abandoned`
remembers the volumes this happened to. What the module says of safety it says of
the other volumes, the steady ones: handlers that overlap for one volume can
damage it (`found_staged`), and must not damage others. `BottleVolumes`
forgets directories, mounts and calls: a set of bottles fetched, a set of targets
that show one, a set of running pods, and the rules between them. The refinement
mapping takes, of the steady volumes, the bottles that are complete, the targets
that are mounted and the pods that run; a volume that is abandoned is Lost there,
which ends the promise for it and for no other.

### Controller

`volumes[node]` is the map of the instance on a node (18), `held[n]` the volume
the provisioner recorded for a claim, `sent` the calls that were made and not yet
answered: a call whose reply is lost stays in it and is handled again. An ID is
drawn with uuid.New and never drawn twice (`issued`). The service does not
announce CREATE_DELETE_VOLUME (57): the module describes the handlers for a
provisioner that calls them all the same, as the conformance tests do. The argument
checks at the head of the handlers (70-82, 145-148, 158-166) refuse before anything
is done; they are left out, because a refusal changes nothing and the provisioner
gives all that they ask for.

### Driver

`run` is the next step of Run, `socket` what is at the path of the endpoint,
`goroutine` the state of the pruner and the two servers, `tick` the one tick the
ticker's channel holds, `canceled` the context of the errgroup. A process that
ends leaves a stale socket unless Serve closed its listener. A period that is
not positive makes NewTicker panic. The kubelet starts the container again, and
restarts one whose gRPC server does not answer its probe.

### Release

The state is git's and the registry's: `commits` with their history and files,
`branch` and `tags` of the remote; for each clone `head`, `local` tags, `index` and
`work`ing tree; `registry[artifact][version]`, the commit an artifact was published
from. `step[c]` is the next command of the script in a clone, `approved` the clones
whose last approve ended well, `hasty` a history of the commits that were published
from a clone which had not approved. Files are abstracted to the release they were
written for: VERSION, Chart.yaml with values.yaml, the set of release notes, the
sections of the changelog.

| Actions | Code |
|---|---|
| Prepare | release.sh:149-179, release.go:41-65 with Changelog, Version, Notes, setChartVersion |
| Add, CommitRelease, CreateTag, Push | release.sh:181-196, one command each |
| GoReleaser, PublishChart, ImageIndex | release.sh:199-219, release.go:67-101, helm.go:53-68, build.go:77-111 |
| Contribute, Reset | others push work; the releaser fetches and resets the clone to the branch |

Prepare is one step: nothing changes before the export of its files, and a check
that fails after it leaves them as they are. Git is modelled by what it does:
`git diff --stat` compares the working tree with the index only; a rejected push
with --follow-tags still delivers the tags that are new to the remote; a tag the
remote has already is left out without an error; a fetch takes the tags in the
history of the branch. git-cliff counts from the newest tag, of HEAD's history or of
all of them: the model takes either. With nothing to release its bumped version is
that of the last release: prepare then writes that release's notes again, and the
changelog gets no section (cliff.toml does not set render_always). goreleaser insists
on a clean tree and on a tag at HEAD, and nothing asks whether they were pushed: in
the model publish may follow a push that was rejected or lost. A push that fails may have arrived (`Faults`).

### ReleaseTags

A floating tag is the prefix of the versions it stands for: `<<1, 2>>` is v1.2,
`<<>>` is latest. `released` is the set of full tags in the registry, `floating` what
each floating tag points to, `step[v]` how far the publish of a version is and
`todo[v]` the tags it has yet to move. PushImage stands for the commands up to the
push of the image, Resolve for resolveExtraTags with what it listed, MoveTag for
one tag of `oras tag`, Interrupt for set -e. `met` is a history of publishes that
overlapped, for the properties to exempt. With no tag to move `oras tag` fails and
the script ends there, before the scan. Two assumptions: listing the tags returns the
registry as it is at one moment, and two publishes of the same version do not run side
by side, which the script does not prevent and nobody has a reason to do.

## Runs

| Run | Question | Bounds |
|---|---|---|
| `node` | whatever is called, in whatever order: is the OK of a call true that had its volume to itself, and do stacks of mounts stay bounded? | an ephemeral volume with its target and a persistent one staged in the container, 2 concurrent calls, any 2 faults or restarts, pulls that rewrite |
| `kubelet` | with a kubelet that repeats, gives up and restarts: do running pods keep their bottles, are replies true, is BottleVolumes implemented, do calls that overlap spare the other volumes, does a call fail only by a fault, do mounts have their options until something fails? | an ephemeral volume and a persistent one; pods at the ephemeral target and one persistent target, or at both persistent ones (`Workloads`); 2 handlers, any 2 faults, restarts or abandoned calls |
| `kubelet_live` | does every pod get its bottle, and does a deleted one leave nothing? | the same volumes; a pod at the ephemeral target, or at both persistent ones; any 2 faults, restarts or abandoned calls |
| `controller` | do repeated, late or misdirected calls harm other claims; do two claims ever hold one volume; does deleting succeed? | 2 instances, 2 claims, 4 IDs, any 2 mishaps |
| `driver` | does a serving driver have its socket; is a start only ever stopped by a fault of its own; does it serve and prune again after every end? | all schemes, a valid and an invalid period, any 4 faults |
| `release_tags` | do floating tags end at the newest release, and never go back? | 4 versions (a patch, a minor and a major step), one interruption or repetition |
| `release` | do tags carry their release, does what is published, in order, and is it part of the branch if approve ended well, however commands fail and interleave? | 2 clones, 2 releases after the first, 5 commits, 3 changelog sections, any 2 failures |
| `found_noexec`, `found_staged`, `found_pruning`, `found_listing`, `found_tag` | see below | the smallest that show it |

Why the bounds are enough. The steps of the node service touch one target and one
volume each, and calls meet where they share one. `node` has the ephemeral volume,
on which all steps of publish and unpublish, the staging and its removal included,
can meet, beside a persistent one that is staged and unstaged; a shortest way to a
wrong OK, for a handler that drops one error, takes two publish calls that stack
their mounts, a restart and an unpublish, which fits. Publishing a persistent volume
leaves out a part of publishing an ephemeral one; it runs in the kubelet runs, and
the theorem `RepliesAlone` covers it for any orchestrator. Two handlers are enough
for every pairwise race; that more of them, more volumes of either kind and more
faults change nothing of the safety that `node`, `kubelet` and `release_tags` check
is what the theorems show. The faults are chosen freely among all points, so two of
them include a failure of a retry and a failure followed by a restart. Four IDs let
two claims be created twice. `Workloads` picks which targets ever get a pod:
together they hold one volume of each kind side by side, and the sharing of a
persistent one. Five commits are a first release and four more: two releases after
it with work before each, or work and the releases of two clones that compete for
one version, one of which is dropped. Four versions have two patches of one series,
two minors of one major and two majors.

`Inside` says which persistent volumes are staged in the container's own file
system, as they are when the staging path is not mounted from the host: the chart
mounts /data and the pods' directory only
(charts/csi-bottle/templates/daemonset.yaml:158-168), and README.md:240 calls
persistent volumes "not fully implemented yet". A restart of the driver takes such a
bottle away. `node` has its persistent volume inside; the kubelet runs assume that
extraVolumeMounts bring the staging path in, so that what they show is about the
code and not about that gap (`NodeAssumption`, with the two that follow).

The kubelet runs leave out one fault: an os.Stat that fails for another reason
than a missing file (424). It makes unpublish report success with the bottle still
staged, so nothing that follows could hold; the branch itself is in `NodeServer`
and part of the `node` run.

CHECK_DEADLOCK is off where the system may come to rest: when all pods are gone and
cleaned up, all claims deleted or all versions published, and no fault is left.
`node`, `driver` and `release` keep it on.

### Fairness

`Kubelet`: the Go scheduler runs every goroutine and a reply that is ready is
delivered (weak fairness of the steps and of Receive); the kubelet's reconciler
repeats what is not done (weak fairness of each kind of call for each volume or
target). Nobody has to create or delete a pod. Faults are bounded in number: a
registry that is down for ever starts no pod. Abandoned calls end too: a handler
takes its steps whether or not anybody waits. `Controller`: the provisioner
repeats its calls and instances answer. `Driver`: the container is started again
and probed, goroutines run, and the ticker ticks.

### What the violation runs show

- `found_noexec`. CHANGELOG.md says that mounts are always noexec. When the remount
  of a Mount fails, the bind mount without options stays; the retry finds a mount
  point, returns early (354) and reports success.
- `found_staged`. "Delete the mount point" (410) is os.RemoveAll. The handler of an
  abandoned publish call, past its own check, may mount the target between the check
  (397) and the removal: the staged bottle is deleted through that mount, for every
  pod of the volume there may be. (If the late mount comes after the unpublish instead,
  it stays: nothing unmounts it.)
- `found_pruning`. When the metrics server fails, the group's context ends the
  pruner, while the gRPC server keeps serving and Run keeps waiting: the cache is
  never pruned again.
- `found_listing`. The script sets -e, but resolveExtraTags runs in a command
  substitution, which does not inherit it. When listing the tags fails, there seem
  to be no other releases, and all floating tags move to the version at hand.

- `found_tag`. approve is to "commit, tag, and push your approved release". A push
  that is rejected for its branch delivers its tag all the same; when another clone
  then approves the same version, its branch is accepted, its tag is left out
  without an error, and the remote's tag names a commit outside the branch.

What the liveness run had to leave out: an unstage call the kubelet gave up may run
after the stage call that followed it (453). The kubelet then holds the volume staged
and its data is gone; no publish succeeds any more. WantedPodRuns exempts persistent
volumes with an abandoned call for it, and no others; GoneLeavesNothing exempts every
volume with an abandoned call, because a late publish leaves its mount.

Seen while modelling, without a run: changes that are staged pass the check for a
dirty repository (release.sh:150), so prepare after an approve that failed to sign
adds its section to the changelog again; publish after an approve whose push was
rejected or lost puts out a release that is not part of the branch, and says nothing
(release.sh:199, `hasty`); approve cannot be run again after a failed
tag or push (nothing to commit, or the tag exists: release.sh:192, 194); the notes
name the image `ghcr.io/act3-ai/data-csi/csi-bottle` (release.go:144), published is
`ghcr.io/act3-ai/data-csi` (release.sh:216); a failed prune is logged with `err` (nil)
instead of `e` (driver.go:153); CreateVolume's check for an existing name is
commented out (controller.go:95), so a repeated call leaves a second volume;
volumes in use are NotFound after a restart (controller.go:169); from three clones on
a version can be published twice, from two commits: once the tag of a rejected approve
is on the remote, two other clones can each find the version free and approve it
(`Release` with three clones; what goreleaser does about a release that exists is not
in the repository); publishing is
read-only only on request (node.go:305, 368); a prerelease that is published with
release.sh gets all floating tags, because comparing its patch "0-beta" is an error
and an error counts as "not greater" (release.sh:61); a patch that is not the
latest of its series leaves `oras tag` without tags to set (release.sh:222): the
publish fails, and its image is not scanned.

## Proofs

`NodeServerProofs` proves, for any volumes, targets, handlers and faults:

- `TypeCorrect`: `Spec => []TypeOK`. TypeOK is inductive. Besides the types it says
  that each handler is at a step of the call it serves, which is what makes
  `call[r].tgt` exist where a step uses it. `Advance` and `FailsType` cover the
  handler part of every step, so the cases of `StepType` are about the node's state.
- `StacksAreBounded`: `Spec => []StackBound`. That a stack is no deeper than the
  number of handlers is not inductive. StackBound counts the calls that have passed
  the check for a mount (342) along with the mounts: Bind turns one into the
  other, and CheckMount adds a call only while nothing is mounted, which for a
  missing target is MountPointsExist: what is mounted has its mount point, by the
  kernel's rules.

`NodeRepliesProofs` proves, under the same assumptions:

- `RepliesAlone`: `RepliesSpec => []RepliesAloneAreTrue`. The invariant follows a call
  that has its volume to itself: what it has seen or done so far (Achieved) is still
  so at its next step, because every step of another handler works for another volume
  and touches nothing of this one (StepTouches). At "notify" the
  bottle is complete, since only calls that overlap disturb a pull (OverlapsNoted); at
  "statStaging" the target is neither mounted nor there. What the call found when it
  arrived is left open, which is the point.

These rest on the named assumptions of `NodeServer` (each target has a volume,
finitely many handlers, NoCall is no call, known fault points) and on the
library's facts about finite sets.

`KubeletProofs` proves, for any volumes, targets, handlers, faults and workloads:

- `KubeletTypeCorrect`, `MountsShowWholeBottles` (MountedIsWhole),
  `RunningPodsKeepTheirBottle` (RunningPodSeesBottle) and `RepliesStayTrue`
  (KubeletViewIsRight). None of them is inductive: what a reply says depends on
  everything its handler did before. The invariant says, of each steady volume, that
  one handler at most serves it, that somebody waits for it, and what that handler
  may take for granted at the step it is at (Staging, Publishing, Unpublishing,
  Unstaging): at "bind" nothing is mounted and the bottle is whole, at
  "removeStaging" nothing of the volume is mounted, and so on. `OwnStep` goes through
  the steps of that handler; `StepTouches` and `Untouched` say once for all that the
  steps for one volume leave the invariant of another alone, which is why abandoned
  calls cannot harm the volumes beside them.
- `CallsCanBeRepeated` (CallsFailByFaultOnly): a call for a
  steady volume fails only in a step that spends a fault. Every other way to fail
  has a condition in the code that the same invariant excludes: at "bind" the
  target and the staged bottle are there, at "remount" and at "unmount" something is
  mounted, at "removeTarget" nothing is, and no pull shares its directory. This is
  what lets the handlers leave all recovery to the orchestrator's retry.
- `MountsAreAsAsked` (OptionsAsAsked): until the first fault
  a running pod's mount has the options of its publish call. The invariant AsAsked
  says that only a mount whose handler is at "remount" lacks them and that pods run
  on what is known mounted. After a fault it is refuted: `found_noexec`.
- `NodeImplementsBottleVolumes`: `KubeletSpec => ImplementsBottleVolumes`. Under the
  refinement mapping the end of a pull is Fetch, Bind is Show, Unmount is Hide,
  removing the staging directory is Discard, pods start and stop, abandoned calls
  are Lose, a reboot is Reboot, and every other step is a stutter. `StepChanges`
  reads this off the invariant, `NextSimulates` puts it together.
- `NodeKeepsThePromise`: what `BottleVolumes` promises (`Promise`: pods run only where
  a bottle is shown, only whole bottles are shown, nothing is promised of lost
  volumes) holds of the node side by the refinement alone. Of the abstract
  specification `PromiseIsKept` in `BottleVolumes` proves it: that one is small, and
  says what it should.

They rest on the assumptions of `NodeServer` and on `NodeAssumption`: staging paths on
the host, a pull that leaves a complete bottle alone, no failing Stat (see Runs).

`ReleaseProofs` proves, for any clones, releases, commits and failures:

- `TypeCorrect`, `TagsCarryTheirRelease` (TaggedIsPrepared) and
  `NothingUnpushedIsPublished` (PublishedIsPushed). The inductive invariant says that
  tags, the remote's and the clones', name commits that carry their release (TagsFit);
  that the tree of the branch carries one release, and so does that of a clone,
  unless it has a tag for its version already, so that it cannot be tagged again: that
  is what prepare leaves when there is nothing to release (TreesFit); that
  histories nest, so that what was part of the branch stays part of it
  (HistoriesNest); and that between the commands of approve and publish the index
  is the working tree and, once committed, the tree of HEAD (ScriptKeepsItsTree),
  which is what makes the version read at the tag that of the commit.
- `ArtifactsComeInOrder` (PublishedInOrder): inductive together with what a publish
  under way has published already (PublishingInOrder). It rests on the tree of a
  clone staying as it is while the script runs in it, and on the chart's version
  being that of VERSION: the script names the three artifacts from two files.

`ReleaseTagsProofs` proves, for any set of versions and any number of repetitions:

- `TypeCorrect`; and, provided listings do not fail (with ListingFails they are
  refuted: `found_listing`), `TagsFollow` (FloatingTagsFollow) and `TagsNeverGoBack`
  (NeverBackwards). The three questions of the script, asked together, choose a
  floating tag exactly when the version is the newest release it stands for
  (`ResolvedAreNewest`); what is pushed after that has met the publish that
  overlooks it (OverlooksOnlyMet), and what the newest release has not moved yet
  it still will (StillToDo).

`ControllerProofs` proves, for any instances, claims, IDs and mishaps:

- `TypeCorrect`, `HeldVolumesAreKnown` (HeldIsKnown), `ClaimsShareNoVolume`
  (VolumesAreApart) and `WithoutMishapNothingLeaks` (NothingLeaks). A late DeleteVolume is harmless because an ID is drawn once: the
  invariant says that IDs in use were drawn, that claims hold different ones, and
  that a delete that may still be handled is about a released claim and no ID of
  another (LateDeletesAreHarmless). Without a mishap there is one call at a time
  for a claim, at the leader (InStep).

`DriverProofs` proves, for any flags, faults and restarts:

- `TypeCorrect`, `SocketIsItsOwn` (ServesOnItsSocket) and `PruneFailuresAreNotFatal`
  (PruneIsNotFatal). Inductive with the addition that the socket is live from the
  moment Run has its listener, before the goroutines start (HasTheSocket).
- `StartsAreClean` (StartsUnlessAFault): with flags the driver accepts, Run fails
  before it serves only in a step where something fails. It needs that between the
  removal of the old socket and the bind nothing is at the path (PathIsFree).

Each rests on the assumptions its module names for its constants. The inductive
invariants were checked with TLC on the runs' instances before they were proved.

Every invariant and action property that a passing run checks is proved. Only
model-checked: liveness (WantedPodRuns, GoneLeavesNothing, ReleasedIsDeleted,
ServesAgain, PruningGoesOn). Liveness under fairness and ENABLED are out of the
prover's reach.

## Plan

1. All components with behaviour of their own have a module, runs and proofs: done.
2. Models to add: an orchestrator that forgets a volume after a final error;
   prereleases in `ReleaseTags`.

## Not modelled

The identity service and the capability calls return constants. Events and the
counter are never read. Credentials and selectors (node.go:167-222) are conversions
of the request without state. Pull, prune, telemetry and credential store are
libraries; how prune and pull share the cache cannot be told from this repository.
The conversion `int64(pruneSize)` (driver.go:180) matters only inside the library.
The rest of the build pipeline (lint, tests, scans, CLI docs) declares containers
and has no state; the manifests have no behaviour of their own. Mount propagation
(Bidirectional in the chart's daemonset), the liveness probe and the replicas of
the provisioner are assumptions of the models.
