----------------------------- MODULE MCNodeServer -----------------------------
(* An instance of NodeReplies for TLC: an ephemeral volume e published at te, *)
(* and a persistent volume p that is staged and unstaged beside it, inside    *)
(* the driver's container.                                                    *)
EXTENDS NodeReplies, TLC

CONSTANTS e, p, te, h1, h2

OneEphemeral == te :> e

HandlerSymmetry == Permutations(Handlers)
=============================================================================
