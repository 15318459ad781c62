------------------------------ MODULE NodeReplies ------------------------------
(***************************************************************************)
(* What the OK of a node call means when nothing constrains the            *)
(* orchestrator (pkg/data/node.go).  Calls of one volume that overlap      *)
(* leave the node in states the code has no name for: stacked mounts,      *)
(* mounts of removed directories, half a bottle.  The driver remembers     *)
(* none of it, so what a later call reports rests on what that call looks  *)
(* at, and on which errors it passes on.                                   *)
(*                                                                         *)
(* A history variable notes which calls shared their volume with another;  *)
(* it constrains no step.                                                  *)
(***************************************************************************)
EXTENDS NodeServer

VARIABLE overlapped  \* calls in progress that had company on their volume

repliesVars == <<vars, overlapped>>

Beside(r) == \E q \in Handlers \ {r} : Serves(q, VolOf(call[r]))

NoteOverlaps ==
  overlapped' = {r \in Handlers : Busy(r)' /\ (r \in overlapped \/ Beside(r)')}

RepliesInit == Init /\ overlapped = {}

RepliesNext == Next /\ NoteOverlaps

RepliesSpec == RepliesInit /\ [][RepliesNext]_repliesVars

-----------------------------------------------------------------------------
\* An error of Stat that is taken for "not found" may have happened.
StatMayHaveFailed == "stat" \in Faults /\ faults > 0

\* What the OK reply of each call says of the node.
Promised(c) ==
  LET v == VolOf(c) IN
  /\ c.op = "stage" => dir[v] = "complete"
  /\ c.op = "publish" =>
       /\ mnt[c.tgt] # <<>>
       /\ v \in Ephemeral => dir[v] = "complete"
  /\ c.op = "unpublish" =>
       /\ mnt[c.tgt] = <<>> /\ c.tgt \notin target
       /\ v \in Ephemeral /\ ~StatMayHaveFailed => dir[v] = "absent"
  /\ c.op = "unstage" => dir[v] = "absent"

(***************************************************************************)
(* The OK of a call that had its volume to itself is true, whatever calls  *)
(* that raced, failed or were cut short left there before it: a partial    *)
(* bottle is made whole (node.go:298, 333), an unpublish that uncovers one *)
(* more of several stacked mounts is no OK (node.go:397-416), and nothing  *)
(* of a staging directory stays (node.go:423-434, 453).                    *)
(***************************************************************************)
RepliesAloneAreTrue ==
  \A r \in Handlers : pc[r] = "ok" /\ r \notin overlapped => Promised(call[r])
=============================================================================
